-------------------------------- MODULE Acpi --------------------------------
(***************************************************************************)
(* Finding the processors: acpi_find_table (src/common/lib/acpi.c) and the *)
(* two walks of smp_discover_cpus (src/common/lib/requests.c) through the  *)
(* MADT.  An address is a number, 0 is NULL; the offset of a MADT entry is *)
(* in bytes, so that the walks depend on the lengths the entries give.     *)
(***************************************************************************)
EXTENDS Integers, Sequences, FiniteSets, SequencesExt

CONSTANT Machines    \* what the firmware put into memory

SdtHeader == 36

\* paragraphs: the steps of 16 bytes from 0xE0000 on, and whether one begins
\* with "RSD PTR "; sdt: the XSDT and the RSDT by address, with the addresses
\* they list; madts: the tables with the signature APIC.  The length of a root
\* table is that of its header and of the addresses in it.
RootTable(m, address, size) ==
  /\ address \in DOMAIN m.sdt
  /\ m.sdt[address].length = SdtHeader + size * Len(m.sdt[address].entry)

MachineShape(m) ==
  /\ m.paragraphs \in Seq([signature : BOOLEAN, revision : Nat, xsdt : Nat, rsdt : Nat])
  /\ \A a \in DOMAIN m.sdt : /\ m.sdt[a].entry \in Seq(Nat)
                           /\ m.sdt[a].length \in Nat
  /\ \A a \in DOMAIN m.madts :
       m.madts[a] \in Seq([type : Nat, length : Nat \ {0}, enabled : BOOLEAN, id : Nat])
  /\ 0 \notin DOMAIN m.madts
  /\ \A n \in DOMAIN m.paragraphs :
       LET p == m.paragraphs[n]
       IN p.signature => /\ p.revision >= 2 /\ p.xsdt # 0 => RootTable(m, p.xsdt, 8)
                         /\ p.rsdt # 0 => RootTable(m, p.rsdt, 4)

ASSUME AcpiAssumption == \A m \in Machines : MachineShape(m)

VARIABLES
  acpi,     \* the machine
  g_rsdp,   \* paragraph of the RSDP, 0 before it is found
  walk      \* the walk through the MADT: pass, table, ptr, count, cpus

discovery == <<acpi, g_rsdp, walk>>

NoWalk == [pass |-> "none", madt |-> 0, ptr |-> 0, count |-> 0, cpus |-> <<>>]

AcpiInit == acpi \in Machines /\ g_rsdp = 0 /\ walk = NoWalk

-----------------------------------------------------------------------------
(* acpi_find_table("APIC") *)

\* The first paragraph with the signature, looked for when none is known.
Rsdp ==
  IF g_rsdp # 0 THEN g_rsdp
  ELSE SelectInSeq(acpi.paragraphs, LAMBDA p : p.signature)

Listed(address, size) ==
  LET sdt == acpi.sdt[address]
  IN SubSeq(sdt.entry, 1, (sdt.length - SdtHeader) \div size)

\* The XSDT is searched where there is one, else the RSDT.
Searched(rsdp) ==
  LET r == acpi.paragraphs[rsdp]
  IN IF r.revision >= 2 /\ r.xsdt # 0 THEN Listed(r.xsdt, 8)
     ELSE IF r.rsdt # 0 THEN Listed(r.rsdt, 4) ELSE <<>>

\* The first table listed that has the signature, or NULL.
FindMadt(rsdp) ==
  IF rsdp = 0 THEN 0
  ELSE LET list == Searched(rsdp)
           at == SelectInSeq(list, LAMBDA a : a \in DOMAIN acpi.madts)
       IN IF at = 0 THEN 0 ELSE list[at]

-----------------------------------------------------------------------------
(* smp_discover_cpus *)

MadtHeader == 44
Madt == acpi.madts[walk.madt]

\* Where entry k begins: at Len + 1, where the table ends.
Begins ==
  LET begin[k \in 1 .. Len(Madt) + 1] ==
        IF k = 1 THEN MadtHeader ELSE begin[k - 1] + Madt[k - 1].length
  IN begin

MadtEnd == Begins[Len(Madt) + 1]
Entry == Madt[CHOOSE k \in DOMAIN Madt : Begins[k] = walk.ptr]

\* Mutant: disabled processors are taken as well.
IsCpuAtAll(entry) == entry.type = 0

\* Processor Local APIC, enabled.
IsCpu(entry) == entry.type = 0 /\ entry.enabled

StartWalk ==
  LET madt == FindMadt(Rsdp)
  IN /\ g_rsdp' = Rsdp
     /\ walk' = [NoWalk EXCEPT !.madt = madt, !.ptr = MadtHeader,
                               !.pass = IF madt = 0 THEN "done" ELSE "count"]
     /\ UNCHANGED acpi

CountEntry ==
  /\ walk.pass = "count" /\ walk.ptr < MadtEnd
  /\ walk' = [walk EXCEPT !.count = IF IsCpu(Entry) THEN @ + 1 ELSE @,
                          !.ptr = @ + Entry.length]
  /\ UNCHANGED <<acpi, g_rsdp>>

EndCount ==
  /\ walk.pass = "count" /\ walk.ptr >= MadtEnd
  /\ walk' = [walk EXCEPT !.pass = IF walk.count = 0 THEN "done" ELSE "fill",
                          !.ptr = MadtHeader]
  /\ UNCHANGED <<acpi, g_rsdp>>

Filling == walk.ptr < MadtEnd /\ Len(walk.cpus) < walk.count

FillEntry ==
  /\ walk.pass = "fill" /\ Filling
  /\ walk' = [walk EXCEPT !.cpus = IF IsCpu(Entry) THEN Append(@, Entry.id) ELSE @,
                          !.ptr = @ + Entry.length]
  /\ UNCHANGED <<acpi, g_rsdp>>

EndFill ==
  /\ walk.pass = "fill" /\ ~Filling
  /\ walk' = [walk EXCEPT !.pass = "done"]
  /\ UNCHANGED <<acpi, g_rsdp>>

WalkMadt == CountEntry \/ EndCount \/ FillEntry \/ EndFill

-----------------------------------------------------------------------------

\* What ACPI says the machine has: the first MADT that the RSDP's own root
\* table lists, and the enabled processors in it.
First(S) == CHOOSE k \in S : \A l \in S : k <= l
Signed == {k \in DOMAIN acpi.paragraphs : acpi.paragraphs[k].signature}
MadtsIn(list) == {k \in DOMAIN list : list[k] \in DOMAIN acpi.madts}

Published ==
  LET rsdp == acpi.paragraphs[First(Signed)]
      root == IF rsdp.revision >= 2 /\ rsdp.xsdt # 0 THEN rsdp.xsdt ELSE rsdp.rsdt
      list == acpi.sdt[root].entry
  IN IF Signed = {} THEN <<>>
     ELSE IF root = 0 \/ MadtsIn(list) = {} THEN <<>>
     ELSE acpi.madts[list[First(MadtsIn(list))]]

Processors == {k \in DOMAIN Published : Published[k].type = 0 /\ Published[k].enabled}

\* Both walks agree, and together they find what the firmware published: every
\* enabled processor of the first MADT, in its order, and no other,
\* whatever other entries, tables and root tables there are.
ProcessorsFound ==
  walk.pass = "done" =>
    /\ walk.count = Cardinality(Processors) /\ Len(walk.cpus) = walk.count
    /\ \A k \in Processors :
         walk.cpus[Cardinality({j \in Processors : j <= k})] = Published[k].id
=============================================================================
