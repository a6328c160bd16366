------------------------------- MODULE MCMenu -------------------------------
(***************************************************************************)
(* Instances of Menu.  A second has four ticks and a draw comes every third *)
(* poll, so that draws, seconds and the end of the countdown fall apart.    *)
(* The screens are real ones; the pixels looked at are those on both sides  *)
(* of the edges of every rectangle the menu paints on them, and one in each *)
(* character cell.                                                          *)
(***************************************************************************)
EXTENDS Menu
CONSTANT a   \* a printable character

MCWord == 65536
MCModes == {<<640, 480>>}

\* On 640 x 480 the box is at columns 70 .. 569, the bars at 80 .. 559, names
\* start at 100 and the countdown at 90, its digit at 234.  With one entry the
\* box is at rows 127 .. 271, the bar at 179 .. 210, the countdown at 242; with
\* two at 105 .. 294, the bars at 157 and 202, the countdown at 265; with three
\* at 82 .. 316, 134, 179, 224 and 287.  The editor's box is at 80 .. 559 and
\* 290 .. 389, its line at 332 .. 351 from column 100 on.
MCSamples ==
  {69, 70} \X {0, 82, 127, 157, 290, 353, 425} \cup      \* the box
  {79, 81, 559} \X {134, 157, 180, 190, 230, 256} \cup   \* the bars
  {101, 117} \X {150, 170, 190, 215, 240} \cup           \* the names
  {101, 235, 245} \X {250, 270, 290, 295} \cup           \* the countdown
  {101, 109, 117, 125, 133, 141, 149} \X {333} \cup      \* the editor's line
  {81, 101, 149} \X {331, 351, 352, 425}
=============================================================================
