-------------------------------- MODULE Menu --------------------------------
(***************************************************************************)
(* The boot menu of src/common/lib/menu.c: menu_loop, the editor           *)
(* menu_edit_entry, and menu_draw with the static variables by which it    *)
(* repaints only the stripes that changed.                                 *)
(*                                                                         *)
(* The screen is kept in the code's own coordinates at a set of Samples:    *)
(* for each, the layers painted there since it was last painted over, a    *)
(* solid colour or the image at the bottom, blended rectangles and the     *)
(* characters whose cell holds the point above it.  Equal layers look      *)
(* equal whatever the colours, the image and the font are.  get_key is a   *)
(* choice made at each poll, delay_ms(10) one tick of TickMs.              *)
(***************************************************************************)
EXTENDS Raster, Printf, FiniteSets, FiniteSetsExt

CONSTANTS
  Modes,         \* <<width, height>> of the frame buffers
  Samples,       \* the pixels looked at
  Timeouts,      \* values of TIMEOUT= in the configuration
  TickMs,        \* delay_ms between two polls, 10
  SecondMs,      \* 1000
  PollsPerDraw,  \* polls between two looks at the screen state, 10
  CmdMax,        \* characters the edit buffer holds, 255
  Chars,         \* printable characters
  Colors,        \* background colours
  Sentinel,      \* 0xFFFFFFFF, menu_draw's "nothing drawn yet"
  Backgrounds,   \* whether a background image was loaded: bg_data # NULL
  Counts         \* config->count as config_parse or the default leaves it

ASSUME MenuAssumption ==
  /\ Counts \subseteq Nat /\ Modes \subseteq Nat \X Nat
  /\ Samples \subseteq Nat \X Nat
  /\ Timeouts \subseteq Nat     \* timeout * 1000 fits an int
  /\ TickMs \in Nat \ {0} /\ SecondMs \in Nat \ {0}
  /\ PollsPerDraw \in Nat \ {0} /\ CmdMax \in Nat
  /\ PollsPerDraw * TickMs <= SecondMs
  /\ Backgrounds \subseteq BOOLEAN

VARIABLES
  pc,                \* where menu_loop is: draw, poll, edit_draw, edit_key, done
  mode,              \* <<fb->width, fb->height>>
  count, timeout, background_color, bg_data,   \* the configuration
  cmdlines,          \* config->entries[..].cmdline
  selected, timeout_ms, cancel_timeout, last_selected, last_display_sec,
  p,                 \* polls since the last draw
  drawn,             \* menu_draw's statics, last_*
  screen,            \* the layers at each point
  buffer, last_pos,  \* menu_edit_entry's locals; pos is Len(buffer)
  result,            \* the value menu_loop returned
  touched            \* ghost: a key was ever pressed

config == <<mode, count, timeout, background_color, bg_data>>
loop == <<selected, timeout_ms, cancel_timeout, last_selected,
          last_display_sec, p>>
editor == <<buffer, last_pos>>
vars == <<pc, config, cmdlines, loop, drawn, screen, editor, result, touched>>

NoResult == -99
Rows == 0 .. count - 1

width == mode[1]
height == mode[2]
Pixels == {q \in Samples : q[1] < width /\ q[2] < height}
Dark == [q \in Pixels |-> <<>>]

Init ==
  /\ pc = "draw"
  /\ mode \in Modes /\ count \in Counts /\ timeout \in Timeouts
  /\ background_color \in Colors /\ bg_data \in Backgrounds
  /\ cmdlines = [e \in Rows |-> <<>>]
  /\ selected = 0
  /\ timeout_ms = timeout * SecondMs
  /\ cancel_timeout = (timeout = 0)
  /\ last_selected = -1 /\ last_display_sec = -1
  /\ p = 0
  /\ drawn = [bg |-> Sentinel, bg_data |-> FALSE, selected |-> -1, timeout |-> -1]
  /\ screen = Dark
  /\ buffer = <<>> /\ last_pos = -1
  /\ result = NoResult
  /\ touched = FALSE

-----------------------------------------------------------------------------
(* Drawing: the points of S lose what they showed, or get a layer more. *)

Solid(c, S, what) == [q \in Pixels |-> IF q \in S THEN <<<<"solid", what>>>> ELSE c[q]]
Blend(c, S, what, opacity) ==
  [q \in Pixels |-> IF q \in S THEN Append(c[q], <<what, opacity>>) ELSE c[q]]
Text(c, x, y, text, color) ==
  LET S == Cells(Pixels, x, y, Len(text))
  IN [q \in Pixels |-> IF q \in S
                          THEN Append(c[q], <<"char", text[Column(q, x)], color>>)
                          ELSE c[q]]

\* A string of n characters that nothing tells apart.
Caption(what, n) == [i \in 1 .. n |-> what]
Name(r) == Caption(<<"name", r>>, 3)

\* The background, then the image if there is one.
Backdrop(c, S) ==
  Solid(c, S, IF bg_data THEN "image" ELSE "background_color")

\* menu_repair_rect: the backdrop of a rectangle, and over it the part of the
\* box bx, by, bw, bh it overlaps, whose first 35 rows are the title bar.
Repair(c, x, y, w, h, bx, by, bw, bh, opacity) ==
  LET x1 == Max({x, bx})  x2 == Min({x + w, bx + bw})
      y1 == Max({y, by})  y2 == Min({y + h, by + bh})
      bare == Backdrop(c, Rect(Pixels, x, y, w, h))
      boxed == Blend(bare, Rect(Pixels, x1, y1, x2 - x1, y2 - y1),
                     "ui_menu_bg", opacity)
      title == Rect(Pixels, x1, y1, x2 - x1, Min({y2, by + 35}) - y1)
  IN IF ~(x2 > x1 /\ y2 > y1) THEN bare
     ELSE IF y1 < by + 35 THEN Solid(boxed, title, "ui_menu_bg") ELSE boxed

-----------------------------------------------------------------------------
(* menu_draw *)

box_w == IF width > 600 THEN 500 ELSE (width * 4) \div 5
box_h == count * 45 + 100
box_x == (width - box_w) \div 2
box_y == U(height - box_h) \div 2 - 40      \* unsigned: fb->height is uint32_t

Frame ==
  LET box == Blend(Backdrop(Dark, Pixels),
                   Rect(Pixels, box_x, box_y, box_w, box_h), "ui_menu_bg", 190)
      border == Solid(box, Outline(Pixels, box_x, box_y, box_w, box_h),
                      "ui_menu_border")
      bar == Solid(border, Rect(Pixels, box_x, box_y, box_w, 35), "ui_menu_bg")
      lined == Solid(bar, Outline(Pixels, box_x, box_y, box_w, 35),
                     "ui_menu_border")
      named == Text(lined, box_x + 20, box_y + 10,
                    Caption("KREXO BOOT MANAGER", 18), "ui_menu_title")
  IN Text(named, (width - 50 * 8) \div 2, height - 60,
          Caption("Navigation", 50), "ui_menu_help")

RowY(r) == box_y + 60 + r * 45 - 8
RowText(c, r, color) == Text(c, box_x + 30, RowY(r) + 8, Name(r), color)
RepairRow(c, r) ==
  Repair(c, box_x + 10, RowY(r), box_w - 20, 32, box_x, box_y, box_w, box_h, 190)

\* Mutant: a row that loses the selection is not cleared.
PlainRowUncleared(c, r) == RowText(c, r, "ui_menu_text")
PlainRow(c, r) == RowText(RepairRow(c, r), r, "ui_menu_text")

SelectedRow(c, r) ==
  LET bar == Blend(RepairRow(c, r),
                   Rect(Pixels, box_x + 10, RowY(r), box_w - 20, 32),
                   "ui_menu_sel_bg", 150)
      lined == Solid(bar, Outline(Pixels, box_x + 10, RowY(r), box_w - 20, 32),
                     "ui_menu_title")
  IN RowText(lined, r, "ui_menu_text_sel")

\* The selection moved from from to sel; from -1, every row has to be drawn.
PaintRows(c, from, sel) ==
  LET left == IF from \in Rows THEN PlainRow(c, from) ELSE c
      now == IF sel \in Rows THEN SelectedRow(left, sel) ELSE left
      Names[r \in -1 .. count - 1] ==
        IF r = -1 THEN now
        ELSE IF r = sel THEN Names[r - 1]
        ELSE RowText(Names[r - 1], r, "ui_menu_text")
  IN IF from = -1 THEN Names[count - 1] ELSE now

Seconds(sec) ==
  Kvprintf(<<<<"lit", Caption("Automatic boot in ", 18)>>, <<"%", "d">>,
             <<"lit", <<"s">>>>>>, <<sec>>)

PaintCountdown(c, sec) ==
  LET bare == Repair(c, box_x + 20, box_y + box_h - 30, box_w - 40, 20,
                     box_x, box_y, box_w, box_h, 190)
  IN IF sec > 0 THEN Text(bare, box_x + 20, box_y + box_h - 30, Seconds(sec),
                          "ui_menu_accent")
     ELSE bare

\* Clear everything when forced or when the background changed, then repaint
\* the stripes whose state differs from what was drawn last.
MenuDraw(sel, sec, force) ==
  LET clear == \/ force
               \/ background_color # drawn.bg
               \/ bg_data # drawn.bg_data
      before == IF clear THEN Frame ELSE screen
      from == IF clear THEN -1 ELSE drawn.selected
      shown == IF clear THEN -1 ELSE drawn.timeout
      rows == IF sel # from THEN PaintRows(before, from, sel) ELSE before
  IN /\ screen' = IF sec # shown THEN PaintCountdown(rows, sec) ELSE rows
     /\ drawn' = [bg |-> IF clear THEN background_color ELSE drawn.bg,
                   bg_data |-> IF clear THEN bg_data ELSE drawn.bg_data,
                   selected |-> sel, timeout |-> sec]

-----------------------------------------------------------------------------
(* menu_loop *)

DisplaySec ==
  IF cancel_timeout THEN 0 ELSE (timeout_ms + SecondMs - 1) \div SecondMs

StateChanged ==
  \/ selected # last_selected
  \/ DisplaySec # last_display_sec
  \/ last_selected = -2

Draw ==
  /\ pc = "draw"
  /\ pc' = "poll" /\ p' = 0
  /\ IF StateChanged
       THEN /\ MenuDraw(selected, DisplaySec, last_selected = -2)
            /\ last_selected' = selected
            /\ last_display_sec' = DisplaySec
       ELSE UNCHANGED <<drawn, screen, last_selected, last_display_sec>>
  /\ UNCHANGED <<config, cmdlines, selected, timeout_ms, cancel_timeout,
                 editor, result, touched>>

\* get_key() returned a key: the countdown is off for good, the polling loop
\* is left for the label next.
Pressed(next) ==
  /\ pc = "poll" /\ pc' = next
  /\ cancel_timeout' = TRUE /\ touched' = TRUE
  /\ UNCHANGED <<config, cmdlines, timeout_ms, last_selected,
                 last_display_sec, p, drawn, screen>>

\* Mutant: UP on the first entry does not wrap around.
AboveUnwrapped(i) == i - 1
Above(i) == IF i > 0 THEN i - 1 ELSE count - 1
Below(i) == IF i < count - 1 THEN i + 1 ELSE 0

KeyUp ==
  Pressed("draw") /\ selected' = Above(selected) /\ UNCHANGED <<editor, result>>

KeyDown ==
  Pressed("draw") /\ selected' = Below(selected) /\ UNCHANGED <<editor, result>>

KeyEnter ==
  Pressed("done") /\ result' = selected /\ UNCHANGED <<selected, editor>>

KeySetup ==
  Pressed("done") /\ result' = -2 /\ UNCHANGED <<selected, editor>>

\* menu_edit_entry starts from a copy of the command line.  (Without entries
\* it would edit memory outside the list, which is not modelled.)
KeyEdit ==
  /\ Pressed("edit_draw")
  /\ selected \in Rows
  /\ buffer' = cmdlines[selected] /\ last_pos' = -1
  /\ UNCHANGED <<selected, result>>

KeyOther == Pressed("draw") /\ UNCHANGED <<selected, editor, result>>

\* Mutants: the flag is ignored, or tested the wrong way round.
CountingAlways == TRUE
CountingCancelled == cancel_timeout
Counting == ~cancel_timeout

\* No key: wait, count down, boot the first entry when the time is over.
Tick ==
  /\ pc = "poll"
  /\ timeout_ms' = IF Counting THEN timeout_ms - TickMs ELSE timeout_ms
  /\ IF Counting /\ timeout_ms' <= 0
       THEN pc' = "done" /\ result' = 0 /\ UNCHANGED p
       ELSE /\ p' = p + 1
            /\ pc' = IF p + 1 = PollsPerDraw THEN "draw" ELSE "poll"
            /\ UNCHANGED result
  /\ UNCHANGED <<config, cmdlines, selected, cancel_timeout, last_selected,
                 last_display_sec, drawn, screen, editor, touched>>

-----------------------------------------------------------------------------
(* menu_edit_entry *)

edit_y == height - 180
edit_x == width \div 8
edit_w == (width * 6) \div 8

EditFrame(c) ==
  LET box == Blend(c, Rect(Pixels, edit_x, edit_y - 10, edit_w, 100),
                   "ui_menu_bg", 220)
      lined == Solid(box, Outline(Pixels, edit_x, edit_y - 10, edit_w, 100),
                     "ui_menu_help")
      named == Text(lined, edit_x + 20, edit_y + 3,
                    Caption("EDIT COMMAND LINE:", 18), "ui_menu_text_sel")
  IN Text(named, edit_x + 20, edit_y + 61, Caption("[ENTER]", 37), "ui_menu_help")

\* Mutant: the text is drawn over the old one.
RepairLineForgotten(c) == c
RepairLine(c) ==
  Repair(c, edit_x + 20, edit_y + 32, edit_w - 40, 20,
         edit_x, edit_y - 10, edit_w, 100, 220)

\* What the editor shows for the command line text.
Display(text) ==
  Append(Kvprintf(<<<<"lit", <<">", " ">>>>, <<"%", "s">>, <<"lit", <<" ">>>>>>,
                  <<text>>), "_")

\* Mutant: only a longer text is drawn again.
EditStaleLonger == Len(buffer) > last_pos
EditStale == Len(buffer) # last_pos

EditDraw ==
  /\ pc = "edit_draw" /\ pc' = "edit_key"
  /\ IF EditStale
       THEN /\ screen' = Text(IF last_pos = -1 THEN EditFrame(screen)
                              ELSE RepairLine(screen),
                              edit_x + 20, edit_y + 32, Display(buffer),
                              "ui_menu_text")
            /\ last_pos' = Len(buffer)
       ELSE UNCHANGED <<screen, last_pos>>
  /\ UNCHANGED <<config, cmdlines, loop, drawn, buffer, result, touched>>

\* Back in menu_loop: a forced redraw is due, the polling loop is left.
LeaveEditor ==
  /\ pc = "edit_key" /\ pc' = "draw"
  /\ last_selected' = -2
  /\ UNCHANGED <<config, selected, timeout_ms, cancel_timeout,
                 last_display_sec, p, drawn, screen, editor, result, touched>>

EditSave == LeaveEditor /\ cmdlines' = [cmdlines EXCEPT ![selected] = buffer]

EditDiscard == LeaveEditor /\ UNCHANGED cmdlines

\* Every other poll of the editor ends in delay_ms and another look at pos.
EditContinues ==
  /\ pc = "edit_key" /\ pc' = "edit_draw"
  /\ UNCHANGED <<config, cmdlines, loop, drawn, screen, last_pos, result,
                 touched>>

EditBackspace ==
  /\ EditContinues /\ buffer # <<>>
  /\ buffer' = SubSeq(buffer, 1, Len(buffer) - 1)

EditType(c) ==
  EditContinues /\ Len(buffer) < CmdMax /\ buffer' = Append(buffer, c)

\* No key, a key with no meaning here, backspace at 0 or a full buffer.
EditIdle == EditContinues /\ UNCHANGED buffer

Done == pc = "done" /\ UNCHANGED vars

Unattended == Draw \/ Tick \/ EditDraw

Keys ==
  \/ KeyUp \/ KeyDown \/ KeyEnter \/ KeySetup \/ KeyEdit \/ KeyOther
  \/ EditSave \/ EditDiscard \/ EditBackspace \/ \E c \in Chars : EditType(c)
  \/ EditIdle

Next == Unattended \/ Keys \/ Done

\* The loop itself goes on; nobody has to press a key.
Spec == Init /\ [][Next]_vars /\ WF_vars(Unattended)

-----------------------------------------------------------------------------
(* What the drawing relies on; Drawable is what ScreenCurrent is proved of. *)

\* Coordinates of the screen and of a text at its edge do not wrap, and the
\* editor's box lies on it.
InReach == width \in 80 .. Word - 17 /\ height \in 200 .. Word - 17

\* There is an entry, the background is not the sentinel, the box fits the
\* screen and each line of the countdown the box.
Drawable ==
  /\ InReach
  /\ count > 0 /\ background_color # Sentinel
  /\ box_h + 80 <= height
  /\ \A s \in 0 .. timeout : Len(Seconds(s)) \in 0 .. (box_w - 40) \div 8

-----------------------------------------------------------------------------
(* Properties *)

\* The screen as one full redraw paints it for an entry and a second count.
FullRedraw(sel, sec) == PaintCountdown(PaintRows(Frame, -1, sel), sec)

\* Partial repaints leave nothing stale: whenever the menu waits for a key,
\* every pixel shows what a full redraw of the present state would show,
\* whatever was selected, counted down or edited before.  The countdown is
\* gone after the first key and at most a second old before.
ScreenCurrent ==
  pc = "poll" =>
    \E sec \in IF cancel_timeout THEN {0} ELSE {DisplaySec, DisplaySec + 1} :
      screen = FullRedraw(selected, sec)

\* A row's bar, and how it looks when its entry is the selected one.
Bar(r) == Rect(Pixels, box_x + 11, RowY(r) + 1, box_w - 22, 30)
Marked(q) == \E i \in DOMAIN screen[q] : screen[q][i] = <<"ui_menu_sel_bg", 150>>
Highlighted(r) == \A q \in Pixels : q \in Bar(r) => Marked(q)

\* menu_loop returns the entry the user sees highlighted, the only one, or
\* asks for a reset.
BootsHighlighted ==
  pc = "done" =>
    \/ result = -2
    \/ /\ result \in Rows /\ Bar(result) # {} /\ Highlighted(result)
       /\ \A r \in Rows \ {result}, q \in Pixels : q \in Bar(r) => ~Marked(q)

\* The characters at q that nothing was painted over.
Visible(q) ==
  LET layers == screen[q]
  IN {layers[i][2] : i \in {i \in DOMAIN layers :
        \A j \in i .. Len(layers) : layers[j][1] = "char"}}

\* Inside its box the editor's line reads like Display(text), one character
\* to a cell.
Reads(text) ==
  \A q \in Rect(Pixels, edit_x + 20, edit_y + 32, edit_w - 40, 16) :
    LET c == Column(q, edit_x + 20)
    IN Visible(q) = IF c <= Len(Display(text)) THEN {Display(text)[c]} ELSE {}

\* While the editor waits for a key its line shows the buffer: nothing of a
\* longer text drawn before is left.
EditorShowsText == pc = "edit_key" => Reads(buffer)

\* A command line changes only into the text that is on the screen when ENTER
\* is pressed.
SavesWhatIsShown ==
  [][\A e \in Rows : cmdlines'[e] # cmdlines[e] =>
       e = selected /\ Reads(cmdlines'[e])]_vars

\* The menu ends by itself only if no key was ever pressed, and then with the
\* first entry.
UnattendedBoot ==
  [][Tick /\ pc' = "done" => ~touched /\ timeout > 0 /\ result' = 0]_vars

\* An unattended machine boots.
CountdownEnds == timeout > 0 ~> (pc = "done" \/ touched)
=============================================================================
