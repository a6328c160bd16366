------------------------------- MODULE MCBios -------------------------------
(***************************************************************************)
(* Instances of Bios.  A block is 8 MB, which puts the kernel at block 2,  *)
(* its file at 4, the configuration at 6, the image at 7 and the device    *)
(* tree at 8.                                                              *)
(***************************************************************************)
EXTENDS Bios

McRange(length, type, nv) == [length |-> length, type |-> type, nv |-> nv]
McRanges == {McRange(1, 1, "no"), McRange(2, 3, "yes"), McRange(0, 1, "no")}
McFirmware(table) == [e820 |-> table, vbe |-> TRUE, stale |-> FALSE, ata |-> TRUE]

\* Every table of up to four ranges, longer ones, and one that does not end
\* before the stack.
McTables ==
  UNION {[1 .. n -> McRanges] : n \in 0 .. 4} \cup
  {[k \in 1 .. n |-> McRange(k, 1 + (k % 6), "no")] : n \in 5 .. 8} \cup
  {<<McRange(1, 2, "absent"), McRange(0, 2, "no"), McRange(2, 1, n)>> : n \in {"yes", "absent"}}
McFirmwares ==
  {McFirmware(t) : t \in McTables} \cup
  {[McFirmware(<<McRange(1, 1, "no")>>) EXCEPT !.vbe = v, !.stale = s, !.ata = a] :
     v, s, a \in BOOLEAN}

McSegments ==
  {[paddr |-> p, offset |-> o, filesz |-> f, memsz |-> m] :
     p \in 2 .. 3, o \in {0, 1, 4}, f \in 0 .. 1, m \in 1 .. 2}
McKernel ==
  [size |-> 2, segments |-> <<[paddr |-> 2, offset |-> 1, filesz |-> 1, memsz |-> 2]>>]

\* Files of two and of five blocks (these reach the device tree's place) with
\* every two segments, some of which overlap or reach the buffer.
McKernels ==
  {k \in [size : {2, 5}, segments : [1 .. 2 -> McSegments]] :
     \A n \in 1 .. 2 : k.segments[n].offset + k.segments[n].filesz <= k.size}

\* Every firmware with one kernel, and every kernel on one firmware.
McMachines ==
  [fw : McFirmwares, kernel : {McKernel}, sizes : [conf : {0}, bg : {0}, dtb : {2}]]
  \cup
  [fw : {McFirmware(<<McRange(1, 1, "no")>>)}, kernel : McKernels,
   sizes : [conf : {0, 2}, bg : {0, 2}, dtb : {0, 2}]]
=============================================================================
