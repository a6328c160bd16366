------------------------------ MODULE MCKernel ------------------------------
(***************************************************************************)
(* Instances of Kernel: tables of 4 entries with 2 directories, so that    *)
(* the HHDM is slot 2 and a large page has 4 frames; a kernel with any one *)
(* or two requests, or a part of the demo kernel's, in either order.       *)
(***************************************************************************)
EXTENDS Kernel, TLC

McDemo == <<"fb", "mmap", "hhdm", "paging">>
McRequested ==
  {<<a>> : a \in Kinds} \cup {r \in Kinds \X Kinds : r[1] # r[2]}
  \cup {SubSeq(McDemo, 1, m) : m \in 3 .. 4}
  \cup {<<"paging", "hhdm", "mmap", "fb">>, <<"kernel_file", "smp", "fb">>,
         <<"smp", "kernel_file", "mmap", "fb">>}
McLeftovers == {Empty, [present |-> TRUE, large |-> TRUE, frame |-> 3]}

\* A processor that is off between two that are on, entries of another kind, no
\* processor at all; the MADT alone, behind another table and before a second
\* one, in one of the root tables only, and no RSDP.
McCpu(id, on) == [type |-> 0, length |-> 8, enabled |-> on, id |-> id]
McIoApic == [type |-> 1, length |-> 12, enabled |-> TRUE, id |-> 9]
McMadts == {<<McCpu(2, TRUE), McIoApic, McCpu(0, FALSE), McCpu(1, TRUE)>>,
            <<McIoApic>>, <<>>, <<McCpu(0, TRUE)>>}
McLists == {<<>>, <<100>>, <<300, 100, 200>>}
McParagraph(signature, revision, xsdt) ==
  [signature |-> signature, revision |-> revision, xsdt |-> xsdt, rsdt |-> 11]
McMachine(before, revision, xsdt, inXsdt, inRsdt, madt) ==
  [paragraphs |-> [k \in 1 .. before + 1 |-> McParagraph(k > before, revision, xsdt)],
   sdt |-> (10 :> [length |-> 36 + 8 * Len(inXsdt), entry |-> inXsdt]) @@
           (11 :> [length |-> 36 + 4 * Len(inRsdt), entry |-> inRsdt]),
   madts |-> (100 :> madt) @@ (200 :> <<McCpu(7, TRUE)>>)]
McOneMachine == McMachine(1, 2, 10, <<100>>, <<100>>, <<McCpu(2, TRUE), McCpu(1, TRUE)>>)
McMachines ==
  {McMachine(b, r, x, l, s, m) :
     b \in 0 .. 1, r \in {0, 2}, x \in {0, 10}, l, s \in McLists, m \in McMadts}
  \cup {McOneMachine, [paragraphs |-> <<>>, sdt |-> <<>>, madts |-> <<>>]}

\* Every machine for a kernel that wants the processors, every kernel on one.
McBoots ==
  [acpi : McMachines, requested : {<<"smp", "mmap">>}]
  \cup [acpi : {McOneMachine}, requested : McRequested]
=============================================================================
