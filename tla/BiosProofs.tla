----------------------------- MODULE BiosProofs -----------------------------
(***************************************************************************)
(* Proofs about Bios for every firmware, kernel file and place of the      *)
(* buffers.                                                                *)
(*                                                                         *)
(* The memory map: a table that lost nothing is the firmware's, and after  *)
(* each turn of krexo_mmap_init's loop the map has the ranges of the turns *)
(* so far.  The kernel: its file stays in the buffer until the last        *)
(* segment is copied, since a fitting kernel's segments lie below; the     *)
(* device tree may run over the rest of the file but not over its headers. *)
(***************************************************************************)
EXTENDS Bios, TLAPS, FiniteSetTheorems

E820Shape == [length : Nat, type : Nat, nv : {"yes", "no", "absent"}]
TableShape == [length : Nat, type : Nat, nv : {"yes", "no"}]
EntryShape ==
  [length : Nat, nonvolatile : BOOLEAN,
   type : {"conventional", "acpi_reclaim", "acpi_nvs", "unusable", "reserved"}]

MachineInv ==
  \E m \in Machines : fw = m.fw /\ kernel = m.kernel /\ sizes = m.sizes

\* Entry k of the table is what the firmware answered.
Answered(k) ==
  /\ e820[k].length = fw.e820[k].length
  /\ e820[k].type = fw.e820[k].type
  /\ fw.e820[k].nv # "absent" => e820[k].nv = fw.e820[k].nv

\* The table that stage 1 leaves: as far as it goes the firmware's, and counted
\* unless it ran into the stack.
TableInv ==
  /\ e820 \in Seq(TableShape) /\ Len(e820) <= Len(fw.e820)
  /\ \A k \in 1 .. Len(e820) : Answered(k)
  /\ Len(e820) <= TableRoom => e820_count = Len(e820)
  /\ Len(e820) > TableRoom => pc = "lost"
  /\ pc \notin {"start", "no_lba", "load", "disk_error", "e820", "lost"} =>
       Len(e820) = Len(fw.e820)
  /\ mmap.defined => Len(e820) = Len(fw.e820) /\ Len(e820) <= TableRoom
  /\ pc \in {"start", "load", "e820"} => ~mmap.defined

\* The ranges of the first turns of krexo_mmap_init's loop.
Before(n) == {j \in Ranges : j < n}
Rank(k) == Cardinality({j \in Ranges : j <= k})

MadeBefore(n) ==
  /\ Len(mmap.entries) = Cardinality(Before(n))
  /\ \A k \in Before(n) : mmap.entries[Rank(k)] = Convert(e820[k])

MapInv ==
  /\ i \in Nat \ {0}
  /\ mmap \in [defined : BOOLEAN, entries : Seq(EntryShape)]
  /\ pc = "convert" => mmap.defined /\ i <= Len(e820) + 1 /\ MadeBefore(i)
  /\ mmap.defined /\ pc # "convert" => MadeBefore(Len(fw.e820) + 1)

LEMMA MachineFacts ==
  ASSUME MachineInv
  PROVE  /\ FirmwareShape(fw) /\ KernelShape(kernel)
         /\ sizes \in [conf : Nat, bg : Nat, dtb : Nat]
         /\ TempBuffer + kernel.size <= Top /\ DtbBuffer + sizes.dtb <= Top
  BY BiosAssumption DEF MachineInv

LEMMA FirmwareFacts ==
  ASSUME MachineInv
  PROVE  /\ fw.e820 \in Seq(E820Shape) /\ Len(fw.e820) \in Nat
         /\ DOMAIN fw.e820 = 1 .. Len(fw.e820)
         /\ \A k \in 1 .. Len(fw.e820) : fw.e820[k] \in E820Shape
<1>1. fw.e820 \in Seq(E820Shape)
  BY MachineFacts DEF FirmwareShape, E820Shape
<1> QED
  BY <1>1

LEMMA ModSmall ==
  ASSUME NEW n \in Nat, NEW m \in Nat, n < m
  PROVE  n % m = n
  OBVIOUS

\* The ranks of the ranges: they grow by one with every range.
LEMMA RankFacts ==
  ASSUME MachineInv
  PROVE  /\ Before(1) = {} /\ Before(Len(fw.e820) + 1) = Ranges
         /\ IsFiniteSet(Ranges)
         /\ \A n \in Nat : Cardinality(Before(n)) \in Nat
         /\ \A n \in Nat : \A k \in Before(n) : Rank(k) \in 1 .. Cardinality(Before(n))
         /\ \A n \in Nat \ Ranges : Before(n + 1) = Before(n)
         /\ \A n \in Ranges :
              /\ Rank(n) = Cardinality(Before(n)) + 1
              /\ Cardinality(Before(n + 1)) = Cardinality(Before(n)) + 1
              /\ Before(n + 1) = Before(n) \cup {n}
<1>1. Ranges \subseteq 1 .. Len(fw.e820) /\ Len(fw.e820) \in Nat
  BY FirmwareFacts DEF Ranges
<1>0. /\ \A j \in Ranges : j \in Nat /\ 1 <= j /\ j < Len(fw.e820) + 1
      /\ \A j \in Nat, n \in Nat : j < n + 1 <=> j <= n
      /\ \A j \in Nat, n \in Nat : j < n + 1 <=> j < n \/ j = n
      /\ \A n \in Nat : ~(n < n)
  BY <1>1
<1>2. IsFiniteSet(Ranges)
  <2>1. IsFiniteSet(1 .. Len(fw.e820))
    BY <1>1, FS_Interval
  <2> QED
    BY <1>1, <2>1, FS_Subset
<1>3. \A T \in SUBSET Ranges : IsFiniteSet(T) /\ Cardinality(T) \in Nat
  BY <1>2, FS_Subset, FS_CardinalityType
<1>4. ASSUME NEW n \in Ranges
      PROVE  /\ Before(n + 1) = Before(n) \cup {n} /\ n \notin Before(n)
             /\ {j \in Ranges : j <= n} = Before(n + 1)
             /\ Cardinality(Before(n + 1)) = Cardinality(Before(n)) + 1
  <2>1. /\ Before(n + 1) = Before(n) \cup {n} /\ n \notin Before(n)
        /\ {j \in Ranges : j <= n} = Before(n + 1)
    BY <1>0 DEF Before
  <2>2. IsFiniteSet(Before(n))
    BY <1>3 DEF Before
  <2> QED
    BY <2>1, <2>2, FS_AddElement
<1>5. ASSUME NEW n \in Nat, NEW k \in Before(n)
      PROVE  Rank(k) \in 1 .. Cardinality(Before(n))
  <2>1. k \in Ranges /\ k \in Nat /\ k < n
    BY <1>1 DEF Before
  <2>2. Before(k + 1) \subseteq Before(n)
    <3>1. \A j \in Nat : j < k + 1 => j < n
      BY <2>1
    <3> QED
      BY <1>0, <3>1 DEF Before
  <2>3. IsFiniteSet(Before(n)) /\ Cardinality(Before(n)) \in Nat
        /\ Cardinality(Before(k)) \in Nat
    BY <1>3 DEF Before
  <2>4. Cardinality(Before(k + 1)) <= Cardinality(Before(n))
    BY <2>2, <2>3, FS_Subset
  <2>5. Rank(k) = Cardinality(Before(k)) + 1
        /\ Rank(k) = Cardinality(Before(k + 1))
    BY <1>4, <2>1 DEF Rank
  <2> QED
    BY <2>3, <2>4, <2>5
<1>6. Before(1) = {} /\ Before(Len(fw.e820) + 1) = Ranges
  BY <1>0 DEF Before
<1>7. \A n \in Nat \ Ranges : Before(n + 1) = Before(n)
  BY <1>0 DEF Before
<1>8. \A n \in Nat : Cardinality(Before(n)) \in Nat
  BY <1>3 DEF Before
<1>9. \A n \in Ranges : Rank(n) = Cardinality(Before(n)) + 1
  BY <1>4 DEF Rank
<1> QED
  BY <1>2, <1>4, <1>5, <1>6, <1>7, <1>8, <1>9

LEMMA ConvertShape ==
  ASSUME NEW e \in TableShape
  PROVE  Convert(e) \in EntryShape
<1>1. KrexoType(e.type) \in
        {"conventional", "acpi_reclaim", "acpi_nvs", "unusable", "reserved"}
  <2> DEFINE t == e.type
  <2>1. CASE t \in {1, 3, 4, 5}
    BY <2>1 DEF KrexoType
  <2>2. CASE t \notin {1, 3, 4, 5}
    BY <2>2 DEF KrexoType
  <2> QED
    BY <2>1, <2>2
<1> QED
  BY <1>1 DEF Convert, TableShape, EntryShape

LEMMA TableInit == Init => MachineInv /\ TableInv /\ MapInv
<1> SUFFICES ASSUME Init PROVE MachineInv /\ TableInv /\ MapInv
  OBVIOUS
<1>1. MachineInv
  BY DEF Init, MachineInv
<1>2. e820 = <<>> /\ e820_count = 0 /\ mmap = NoMap /\ i = 1 /\ pc = "start"
  BY DEF Init
<1>3. TableInv
  BY <1>1, <1>2, FirmwareFacts, BiosAssumption DEF TableInv, NoMap
<1>4. MapInv
  BY <1>2 DEF MapInv, NoMap
<1> QED
  BY <1>1, <1>3, <1>4

LEMMA MachineStep ==
  ASSUME MachineInv, [Next]_vars
  PROVE  MachineInv' /\ UNCHANGED disk
<1>1. UNCHANGED disk
  BY DEF Next, Step, Done, vars, CheckLba, LoadStage2, StoreE820, E820Done, SetupVbe,
     InitFb, InitMmap, ConvertEntry, ConvertDone, InitDisk, LoadConfig, LoadImage,
     Menu, ReadKernel, CopySegment, HeadersLost, WriteBootInfo, LoadDtb,
     HandleRequests, Jump
<1> QED
  BY <1>1 DEF MachineInv, disk

\* Stage 1 stores one answer more.
LEMMA StoreStep ==
  ASSUME MachineInv, TableInv, MapInv, StoreE820
  PROVE  TableInv' /\ MapInv'
<1>1. /\ pc = "e820" /\ Len(e820) < Len(fw.e820)
      /\ e820_count' = (e820_count + 1) % CountWrap
      /\ pc' = IF Len(e820') > TableRoom THEN "lost" ELSE "e820"
      /\ UNCHANGED <<fw, mmap, i>> /\ ~mmap.defined
  BY DEF StoreE820, disk, stage2, TableInv
<1> DEFINE n == Len(e820) + 1
<1>2. /\ e820 \in Seq(TableShape) /\ Len(e820) \in Nat /\ n \in Nat
      /\ n \in 1 .. Len(fw.e820) /\ fw.e820[n] \in E820Shape
  BY <1>1, FirmwareFacts DEF TableInv
<1>3. PICK nv \in IF fw.e820[n].nv = "absent" THEN {"yes", "no"} ELSE {fw.e820[n].nv} :
        e820' = Append(e820, [fw.e820[n] EXCEPT !.nv = nv])
  BY DEF StoreE820
<1> DEFINE new == [fw.e820[n] EXCEPT !.nv = nv]
<1>4. /\ new \in TableShape /\ new.length = fw.e820[n].length
      /\ new.type = fw.e820[n].type
      /\ fw.e820[n].nv # "absent" => new.nv = fw.e820[n].nv
  <2> DEFINE old == fw.e820[n]
  <2>1. old \in E820Shape /\ nv \in IF old.nv = "absent" THEN {"yes", "no"} ELSE {old.nv}
    BY <1>2, <1>3
  <2> HIDE DEF old
  <2>2. [old EXCEPT !.nv = nv] \in TableShape
    BY <2>1 DEF E820Shape, TableShape
  <2> QED
    BY <2>1, <2>2 DEF E820Shape, old
<1> HIDE DEF new
<1>5. /\ e820' \in Seq(TableShape) /\ Len(e820') = n /\ e820'[n] = new
      /\ \A k \in 1 .. Len(e820) : e820'[k] = e820[k]
  BY <1>2, <1>3, <1>4 DEF new
<1>6. \A k \in 1 .. n : Answered(k)'
  <2> TAKE k \in 1 .. n
  <2>1. CASE k = n
    BY <1>1, <1>4, <1>5, <2>1 DEF Answered
  <2>2. CASE k # n
    <3>1. k \in 1 .. Len(e820)
      BY <1>2, <2>2
    <3> QED
      BY <1>1, <1>5, <3>1 DEF Answered, TableInv
  <2> QED
    BY <2>1, <2>2
<1>7. n <= TableRoom => e820_count' = n
  <2>1. Len(e820) <= TableRoom /\ e820_count = Len(e820)
    BY <1>1, BiosAssumption DEF TableInv
  <2> QED
    <3>1. n <= TableRoom => n < CountWrap
      BY <1>2, BiosAssumption
    <3>2. CountWrap \in Nat
      BY BiosAssumption
    <3> HIDE DEF n
    <3> QED
      BY <1>1, <1>2, <2>1, <3>1, <3>2, ModSmall DEF n
<1>8. TableInv'
  BY <1>1, <1>2, <1>5, <1>6, <1>7 DEF TableInv
<1>9. MapInv'
  BY <1>1 DEF MapInv
<1> QED
  BY <1>8, <1>9

\* One turn of krexo_mmap_init's loop.
LEMMA ConvertStep ==
  ASSUME MachineInv, TableInv, MapInv, ConvertEntry
  PROVE  TableInv' /\ MapInv'
<1>1. /\ pc = "convert" /\ pc' = pc /\ i <= e820_count /\ i' = i + 1
      /\ mmap' = IF e820[i].length > 0
                 THEN [mmap EXCEPT !.entries = Append(@, Convert(e820[i]))] ELSE mmap
      /\ UNCHANGED <<fw, e820, e820_count>>
  BY DEF ConvertEntry, disk, stage1
<1>2. /\ mmap \in [defined : BOOLEAN, entries : Seq(EntryShape)] /\ mmap.defined
      /\ MadeBefore(i) /\ i \in Nat \ {0}
  BY <1>1 DEF MapInv
<1>3. /\ e820_count = Len(e820) /\ Len(e820) = Len(fw.e820) /\ Len(e820) \in Nat
      /\ i \in 1 .. Len(e820) /\ e820[i] \in TableShape /\ Answered(i)
      /\ i \in DOMAIN fw.e820 /\ e820[i].length \in Nat
  <2>1. /\ e820_count = Len(e820) /\ Len(e820) = Len(fw.e820)
        /\ e820 \in Seq(TableShape) /\ Len(e820) \in Nat
        /\ \A k \in 1 .. Len(e820) : Answered(k)
    BY <1>1, <1>2 DEF TableInv
  <2>2. i \in 1 .. Len(e820)
    BY <1>1, <1>2, <2>1
  <2>3. e820[i] \in TableShape
    BY <2>1, <2>2
  <2> QED
    BY <2>1, <2>2, <2>3, FirmwareFacts DEF TableShape
<1>0. PICK n \in Nat : n = i /\ i' = n + 1
  BY <1>1, <1>2
<1>4. i \in Ranges <=> e820[i].length > 0
  BY <1>3 DEF Ranges, Answered
<1>5. Ranges' = Ranges
  BY <1>1 DEF Ranges
<1>6. mmap.entries \in Seq(EntryShape) /\ Len(mmap.entries) = Cardinality(Before(i))
  BY <1>2 DEF MadeBefore
<1>7. MadeBefore(n + 1)' /\ mmap' \in [defined : BOOLEAN, entries : Seq(EntryShape)]
      /\ mmap'.defined
  <2>1. CASE e820[i].length > 0
    <3> DEFINE new == Convert(e820[i])
    <3>1. new \in EntryShape
      BY <1>3, ConvertShape
    <3>2. mmap' = [mmap EXCEPT !.entries = Append(@, new)]
      BY <1>1, <2>1
    <3> HIDE DEF new
    <3>0. Append(mmap.entries, new) \in Seq(EntryShape)
      BY <1>6, <3>1
    <3>3. /\ mmap'.entries = Append(mmap.entries, new) /\ mmap'.defined
          /\ mmap' \in [defined : BOOLEAN, entries : Seq(EntryShape)]
      <4> DEFINE S == Seq(EntryShape)
                 e == Append(mmap.entries, new)
      <4>1. e \in S /\ mmap \in [defined : BOOLEAN, entries : S]
        BY <1>2, <3>0
      <4>2. mmap' = [mmap EXCEPT !.entries = e]
        BY <3>2
      <4> HIDE DEF S, e
      <4>3. mmap'.entries = e /\ mmap'.defined = mmap.defined
            /\ mmap' \in [defined : BOOLEAN, entries : S]
        BY <4>1, <4>2
      <4> QED
        BY <1>2, <4>3 DEF S, e
    <3>4. /\ Len(mmap'.entries) = Cardinality(Before(i)) + 1
          /\ mmap'.entries[Cardinality(Before(i)) + 1] = new
          /\ \A r \in 1 .. Cardinality(Before(i)) : mmap'.entries[r] = mmap.entries[r]
      BY <1>6, <3>1, <3>3
    <3>5. /\ Rank(i) = Cardinality(Before(i)) + 1
          /\ Cardinality(Before(i + 1)) = Cardinality(Before(i)) + 1
          /\ Before(i + 1) = Before(i) \cup {i}
      BY <1>4, <2>1, RankFacts
    <3>6. \A k \in Before(i + 1) : mmap'.entries[Rank(k)] = Convert(e820[k])
      <4> TAKE k \in Before(i + 1)
      <4>1. CASE k = i
        BY <3>4, <3>5, <4>1 DEF new
      <4>2. CASE k \in Before(i)
        BY <1>2, <3>4, <4>2, RankFacts DEF MadeBefore
      <4> QED
        BY <3>5, <4>1, <4>2
    <3> QED
      BY <1>0, <1>1, <1>5, <3>3, <3>4, <3>5, <3>6 DEF MadeBefore, Before, Rank
  <2>2. CASE ~(e820[i].length > 0)
    <3>1. Before(i + 1) = Before(i) /\ mmap' = mmap
      BY <1>1, <1>2, <1>4, <2>2, RankFacts
    <3> QED
      BY <1>0, <1>1, <1>2, <1>5, <3>1 DEF MadeBefore, Before, Rank
  <2> QED
    BY <2>1, <2>2
<1>8. TableInv'
  BY <1>1, <1>2, <1>3 DEF TableInv, Answered
<1>9. MapInv'
  BY <1>0, <1>1, <1>2, <1>3, <1>7 DEF MapInv
<1> QED
  BY <1>8, <1>9

\* A step that leaves stage 1's table and the map alone.
LEMMA TableStays ==
  ASSUME TableInv, MapInv, UNCHANGED <<fw, stage1, mmap>>, i' \in Nat \ {0},
         pc = "lost" => pc' = "lost",
         pc' = "lost" => pc \notin {"e820", "convert"},
         pc' \in {"start", "load", "e820"} => pc \in {"start", "load", "e820"},
         pc' \notin {"start", "no_lba", "load", "disk_error", "e820", "lost"} =>
           \/ pc \notin {"start", "no_lba", "load", "disk_error", "e820", "lost"}
           \/ Len(e820) = Len(fw.e820),
         pc' # "convert", pc = "convert" => i > e820_count
  PROVE  TableInv' /\ MapInv'
<1>1. e820' = e820 /\ e820_count' = e820_count /\ fw' = fw /\ mmap' = mmap
  BY DEF stage1
<1>2. TableInv'
  BY <1>1 DEF TableInv, Answered
<1>3. \A n : MadeBefore(n) => MadeBefore(n)'
  BY <1>1 DEF MadeBefore, Before, Rank, Ranges
<1>4. ASSUME mmap.defined PROVE MadeBefore(Len(fw.e820) + 1)
  <2>1. CASE pc # "convert"
    BY <1>4, <2>1 DEF MapInv
  <2>2. CASE pc = "convert"
    <3>1. /\ MadeBefore(i) /\ i <= Len(e820) + 1 /\ i > e820_count /\ i \in Nat
          /\ e820_count = Len(e820) /\ Len(e820) = Len(fw.e820) /\ Len(e820) \in Nat
      BY <2>2 DEF MapInv, TableInv
    <3>2. i = Len(fw.e820) + 1
      BY <3>1
    <3> QED
      BY <3>1, <3>2
  <2> QED
    BY <2>1, <2>2
<1>5. MapInv'
  BY <1>1, <1>3, <1>4 DEF MapInv
<1> QED
  BY <1>2, <1>5

LEMMA MapStep ==
  ASSUME MachineInv, TableInv, MapInv, [Next]_vars
  PROVE  TableInv' /\ MapInv'
<1>1. CASE CheckLba \/ LoadStage2 \/ E820Done \/ SetupVbe \/ InitFb
  <2>1. /\ UNCHANGED <<fw, e820, e820_count, mmap, i>>
        /\ \/ pc = "start" /\ pc' \in {"load", "no_lba"}
           \/ pc = "load" /\ pc' \in {"e820", "disk_error"}
           \/ pc = "e820" /\ Len(e820) = Len(fw.e820) /\ pc' = "vbe"
           \/ pc = "vbe" /\ pc' = "init_fb"
           \/ pc = "init_fb" /\ pc' \in {"no_vbe", "init_mmap"}
    BY <1>1 DEF CheckLba, LoadStage2, E820Done, SetupVbe, InitFb, disk, stage1, stage2
  <2>2. TableInv'
    BY <2>1 DEF TableInv, Answered
  <2>3. MapInv'
    BY <2>1 DEF MapInv, MadeBefore, Before, Rank, Ranges
  <2> QED
    BY <2>2, <2>3
<1>2. CASE StoreE820
  BY <1>2, StoreStep
<1>3. CASE ConvertEntry
  BY <1>3, ConvertStep
<1>4. CASE InitMmap
  <2>1. pc = "init_mmap" /\ UNCHANGED <<fw, e820, e820_count>> /\ i' = 1
    BY <1>4 DEF InitMmap, disk, stage1
  <2>2. CASE e820_count = 0 \/ e820_count > MaxEntries
    <3>1. pc' = "init_disk" /\ mmap' = mmap
      BY <1>4, <2>2 DEF InitMmap
    <3> QED
      BY <1>4, <2>1, <3>1, TableStays DEF InitMmap
  <2>3. CASE ~(e820_count = 0 \/ e820_count > MaxEntries)
    <3>1. pc' = "convert" /\ mmap' = [defined |-> TRUE, entries |-> <<>>]
      BY <1>4, <2>3 DEF InitMmap
    <3>2. Len(e820) = Len(fw.e820) /\ Len(e820) <= TableRoom /\ Len(e820) \in Nat
      <4>1. Len(e820) \in Nat /\ ~(Len(e820) > TableRoom) /\ TableRoom \in Nat
        BY <2>1, BiosAssumption DEF TableInv
      <4> QED
        BY <2>1, <4>1 DEF TableInv
    <3>3. TableInv'
      BY <2>1, <3>1, <3>2 DEF TableInv, Answered
    <3>4. Before(1)' = {} /\ Cardinality({}) = 0
      BY <2>1, RankFacts, FS_EmptySet DEF Before, Ranges
    <3>5. MadeBefore(1)'
      BY <3>1, <3>4 DEF MadeBefore
    <3>6. mmap' \in [defined : BOOLEAN, entries : Seq(EntryShape)] /\ mmap'.defined
      BY <3>1
    <3>7. MapInv'
      <4>1. 1 <= Len(e820') + 1
        BY <2>1, <3>2
      <4>2. MadeBefore(i)'
        BY <2>1, <3>5
      <4> QED
        BY <2>1, <3>1, <3>6, <4>1, <4>2 DEF MapInv
    <3> QED
      BY <3>3, <3>7
  <2> QED
    BY <2>2, <2>3
<1>5. CASE ConvertDone \/ InitDisk \/ LoadConfig \/ LoadImage \/ Menu
  <2>1. i \in Nat \ {0}
    BY DEF MapInv
  <2> QED
    BY <1>5, <2>1, TableStays
    DEF ConvertDone, InitDisk, LoadConfig, LoadImage, Menu, disk, stage2
<1>6. CASE ReadKernel \/ CopySegment \/ HeadersLost \/ WriteBootInfo \/ LoadDtb
           \/ HandleRequests \/ Jump \/ Done \/ UNCHANGED vars
  <2>1. i \in Nat \ {0} /\ i + 1 \in Nat \ {0}
    BY DEF MapInv
  <2>2. CASE ReadKernel \/ CopySegment \/ HeadersLost \/ WriteBootInfo \/ LoadDtb
             \/ HandleRequests \/ Jump
    BY <2>1, <2>2, TableStays
    DEF ReadKernel, CopySegment, HeadersLost, WriteBootInfo, LoadDtb, HandleRequests,
        Jump, disk, stage2
  <2>3. CASE Done \/ UNCHANGED vars
    <3>1. UNCHANGED <<pc, fw, e820, e820_count, mmap, i>>
      BY <2>3 DEF Done, vars, disk, stage1, stage2
    <3>2. TableInv'
      BY <3>1 DEF TableInv, Answered
    <3>3. MapInv'
      BY <3>1 DEF MapInv, MadeBefore, Before, Rank, Ranges
    <3> QED
      BY <3>2, <3>3
  <2> QED
    BY <1>6, <2>2, <2>3
<1> QED
  BY <1>1, <1>2, <1>3, <1>4, <1>5, <1>6 DEF Next, Step

LEMMA MapInvariant == Spec => [](MachineInv /\ TableInv /\ MapInv)
<1>1. MachineInv /\ TableInv /\ MapInv /\ [Next]_vars =>
        (MachineInv /\ TableInv /\ MapInv)'
  BY MachineStep, MapStep
<1> QED
  BY <1>1, TableInit, PTL DEF Spec

\* Whatever the firmware answers: the map that krexo_mmap_init makes has the
\* ranges of some length in their order, each with its length, kind and
\* attributes, and no other.
THEOREM MapIsFaithful == Spec => []MapFaithful
<1>1. MachineInv /\ TableInv /\ MapInv => MapFaithful
  <2> SUFFICES ASSUME MachineInv, TableInv, MapInv, mmap.defined, pc # "convert"
               PROVE  /\ Len(mmap.entries) = Cardinality(Ranges)
                      /\ \A k \in Ranges :
                           /\ EntryOf(k).length = fw.e820[k].length
                           /\ EntryOf(k).type = KrexoType(fw.e820[k].type)
                           /\ fw.e820[k].nv # "absent" =>
                                EntryOf(k).nonvolatile = (fw.e820[k].nv = "yes")
    BY DEF MapFaithful
  <2>1. MadeBefore(Len(fw.e820) + 1)
    BY DEF MapInv
  <2>2. /\ Len(mmap.entries) = Cardinality(Ranges)
        /\ \A k \in Ranges : EntryOf(k) = Convert(e820[k])
    BY <2>1, RankFacts DEF MadeBefore, EntryOf, Rank
  <2>3. \A k \in Ranges : Answered(k)
    <3>1. Ranges \subseteq 1 .. Len(e820)
      BY FirmwareFacts DEF Ranges, TableInv
    <3> QED
      BY <3>1 DEF TableInv
  <2> QED
    BY <2>2, <2>3 DEF Convert, Answered
<1> QED
  BY <1>1, MapInvariant, PTL

-----------------------------------------------------------------------------
(* The kernel in memory *)

Loaded == {"segments", "dtb", "requests", "jump", "kernel"}

KernelSegments == kernel.segments

\* The case that is to go well.
Proper == complete /\ Fits(kernel)

\* Segment s is where it belongs.
InMemory(s) ==
  \A b \in 0 .. s.memsz - 1 :
    mem[s.paddr + b] = IF b < s.filesz THEN <<"kernel", s.offset + b>>
                       ELSE <<"zero">>

DtbInMemory ==
  dtb_ptr # 0 => \A b \in 0 .. sizes.dtb - 1 : mem[dtb_ptr + b] = <<"dtb", b>>

\* The file is in its buffer while segments are copied and its headers until
\* the end; the segments copied so far are in their places; then the device
\* tree; and what was scanned for requests is what is still there.
LoadedInv ==
  Proper /\ pc \in Loaded =>
    /\ HeadersIntact
    /\ pc = "segments" =>
         \A o \in 0 .. kernel.size - 1 : mem[TempBuffer + o] = <<"kernel", o>>
    /\ \A n \in DOMAIN KernelSegments : n < i => InMemory(KernelSegments[n])
    /\ pc # "segments" => i > Len(KernelSegments)
    /\ pc \in {"requests", "jump", "kernel"} => DtbInMemory
    /\ pc \in {"jump", "kernel"} => scanned = mem[KernelBase]

KernelInv ==
  /\ DOMAIN mem = 0 .. Top - 1 /\ complete \in BOOLEAN
  /\ FittingKernelNotLost /\ LoadedInv

LEMMA SegmentFacts ==
  ASSUME MachineInv
  PROVE  /\ kernel.size \in Nat /\ Len(KernelSegments) \in Nat
         /\ DOMAIN KernelSegments = 1 .. Len(KernelSegments)
         /\ \A n \in DOMAIN KernelSegments :
              /\ KernelSegments[n].paddr \in Nat /\ KernelSegments[n].offset \in Nat
              /\ KernelSegments[n].filesz \in Nat /\ KernelSegments[n].memsz \in Nat
<1> DEFINE Shape == [paddr : Nat, offset : Nat, filesz : Nat, memsz : Nat]
<1>1. KernelSegments \in Seq(Shape) /\ kernel.size \in Nat
  BY MachineFacts DEF KernelShape, KernelSegments
<1>2. \A s \in Shape : /\ s.paddr \in Nat /\ s.offset \in Nat
                       /\ s.filesz \in Nat /\ s.memsz \in Nat
  OBVIOUS
<1> HIDE DEF Shape
<1> QED
  BY <1>1, <1>2

\* A segment of a fitting kernel lies below the buffer, inside the file, and
\* apart from the others.
LEMMA FitFacts ==
  ASSUME MachineInv, Fits(kernel), NEW n \in DOMAIN KernelSegments
  PROVE  /\ KernelSegments[n].filesz <= KernelSegments[n].memsz
         /\ KernelSegments[n].offset + KernelSegments[n].filesz <= kernel.size
         /\ KernelSegments[n].paddr + KernelSegments[n].memsz <= TempBuffer
         /\ \A m \in DOMAIN KernelSegments \ {n} :
              \/ KernelSegments[n].paddr + KernelSegments[n].memsz <= KernelSegments[m].paddr
              \/ KernelSegments[m].paddr + KernelSegments[m].memsz <= KernelSegments[n].paddr
  BY DEF Fits, KernelSegments

\* Reading a file of which all was stored.
LEMMA ReadFacts ==
  ASSUME NEW at \in Nat, NEW size \in Nat, NEW name, at + size <= Top,
         DOMAIN mem = 0 .. Top - 1, ReadFile(at, name, size)
  PROVE  /\ DOMAIN mem' = DOMAIN mem
         /\ complete' => complete /\ \A o \in 0 .. size - 1 : mem'[at + o] = <<name, o>>
         /\ \A b \in 0 .. Top - 1 : b < at => mem'[b] = mem[b]
<1>1. PICK n \in 0 .. size : ReadBlocks(at, name, n) /\ complete' = (complete /\ n = size)
  BY DEF ReadFile
<1>2. /\ DOMAIN mem' = DOMAIN mem
      /\ \A b \in 0 .. Top - 1 :
           mem'[b] = IF b \in at .. at + n - 1 THEN <<name, b - at>> ELSE mem[b]
  BY <1>1 DEF ReadBlocks
<1>3. ASSUME n = size, NEW o \in 0 .. size - 1
      PROVE  mem'[at + o] = <<name, o>>
  <2>1. /\ at + o \in 0 .. Top - 1 /\ at + o \in at .. at + n - 1
        /\ (at + o) - at = o
    BY <1>3, BiosAssumption
  <2> QED
    BY <1>2, <2>1
<1>4. \A b \in 0 .. Top - 1 : b < at => mem'[b] = mem[b]
  BY <1>2
<1> QED
  BY <1>1, <1>2, <1>3, <1>4

\* The kernel file is read into its buffer.
LEMMA LoadStep ==
  ASSUME MachineInv, KernelInv, ReadKernel
  PROVE  KernelInv'
<1>1. /\ pc = "read_kernel" /\ pc' = "segments" /\ i' = 1 /\ kernel' = kernel
      /\ ReadFile(TempBuffer, "kernel", kernel.size) /\ DOMAIN mem = 0 .. Top - 1
      /\ complete \in BOOLEAN
  BY DEF ReadKernel, disk, KernelInv
<1>2. TempBuffer \in Nat /\ kernel.size \in Nat /\ TempBuffer + kernel.size <= Top
  BY MachineFacts, SegmentFacts, BiosAssumption
<1>3. /\ DOMAIN mem' = DOMAIN mem
      /\ complete' => \A o \in 0 .. kernel.size - 1 : mem'[TempBuffer + o] = <<"kernel", o>>
  BY <1>1, <1>2, ReadFacts
<1>4. complete' \in BOOLEAN
  BY <1>1 DEF ReadFile
<1>5. LoadedInv'
  <2> SUFFICES ASSUME complete', Fits(kernel)' PROVE LoadedInv'
    BY DEF LoadedInv, Proper
  <2>1. kernel.size > 0
    BY <1>1 DEF Fits
  <2>2. mem'[TempBuffer + 0] = <<"kernel", 0>> /\ TempBuffer + 0 = TempBuffer
    BY <1>2, <1>3, <2>1
  <2>3. \A n \in DOMAIN KernelSegments : ~(n < 1)
    BY SegmentFacts
  <2>4. KernelSegments' = KernelSegments
    BY <1>1 DEF KernelSegments
  <2> QED
    BY <1>1, <1>3, <2>2, <2>3, <2>4 DEF LoadedInv, HeadersIntact
<1> QED
  BY <1>1, <1>3, <1>4, <1>5 DEF KernelInv, FittingKernelNotLost

\* One segment is copied: the file and the segments before it are elsewhere.
LEMMA CopyStep ==
  ASSUME MachineInv, MapInv, KernelInv, CopySegment
  PROVE  KernelInv'
<1>1. /\ pc = "segments" /\ pc' = "segments" /\ i' = i + 1
      /\ i <= Len(KernelSegments) /\ i \in Nat \ {0}
      /\ UNCHANGED <<kernel, complete>> /\ DOMAIN mem = 0 .. Top - 1
      /\ mem' = [b \in DOMAIN mem |-> Segment(KernelSegments[i], b)]
  BY DEF CopySegment, disk, KernelSegments, KernelInv, MapInv
<1>2. i \in DOMAIN KernelSegments
  BY <1>1, SegmentFacts
<1> DEFINE k == KernelSegments[i]
<1>3. /\ k.paddr \in Nat /\ k.offset \in Nat /\ k.filesz \in Nat /\ k.memsz \in Nat
  BY <1>2, SegmentFacts
<1>4. ASSUME Proper
      PROVE  /\ k.filesz <= k.memsz /\ k.offset + k.filesz <= kernel.size
             /\ k.paddr + k.memsz <= TempBuffer /\ kernel.size > 0
             /\ \A m \in DOMAIN KernelSegments \ {i} :
                  \/ k.paddr + k.memsz <= KernelSegments[m].paddr
                  \/ KernelSegments[m].paddr + KernelSegments[m].memsz <= k.paddr
             /\ \A o \in 0 .. kernel.size - 1 : mem[TempBuffer + o] = <<"kernel", o>>
             /\ \A n \in DOMAIN KernelSegments : n < i => InMemory(KernelSegments[n])
  <2>1. Fits(kernel)
    BY <1>4 DEF Proper
  <2>2. kernel.size > 0
    BY <2>1 DEF Fits
  <2>3. /\ \A o \in 0 .. kernel.size - 1 : mem[TempBuffer + o] = <<"kernel", o>>
        /\ \A n \in DOMAIN KernelSegments : n < i => InMemory(KernelSegments[n])
    BY <1>1, <1>4 DEF KernelInv, LoadedInv, Loaded
  <2> QED
    BY <1>2, <2>1, <2>2, <2>3, FitFacts
<1>0. /\ TempBuffer \in Nat /\ Top \in Nat /\ TempBuffer + kernel.size <= Top
      /\ kernel.size \in Nat /\ TempBuffer <= Top
  BY MachineFacts, SegmentFacts, BiosAssumption
<1>5. ASSUME NEW b \in 0 .. Top - 1, ~(k.paddr <= b /\ b < k.paddr + k.memsz), Proper
      PROVE  mem'[b] = mem[b]
  <2>1. b \notin k.paddr .. k.paddr + k.filesz - 1 /\ b \notin Bss(k)
    <3> HIDE DEF k
    <3> QED
      BY <1>3, <1>4, <1>5 DEF Bss
  <2> QED
    BY <1>1, <2>1 DEF Segment
<1>6. ASSUME Proper
      PROVE  /\ \A o \in 0 .. kernel.size - 1 : mem'[TempBuffer + o] = <<"kernel", o>>
             /\ HeadersIntact'
  <2>1. \A o \in 0 .. kernel.size - 1 : mem'[TempBuffer + o] = <<"kernel", o>>
    <3> TAKE o \in 0 .. kernel.size - 1
    <3>1. /\ TempBuffer + o \in 0 .. Top - 1
          /\ ~(k.paddr <= TempBuffer + o /\ TempBuffer + o < k.paddr + k.memsz)
      <4> HIDE DEF k
      <4> QED
        BY <1>0, <1>3, <1>4, <1>6
    <3> QED
      BY <1>4, <1>5, <1>6, <3>1
  <2>2. 0 \in 0 .. kernel.size - 1 /\ TempBuffer + 0 = TempBuffer
    BY <1>0, <1>4, <1>6
  <2> QED
    BY <2>1, <2>2 DEF HeadersIntact
<1>7. ASSUME NEW n \in DOMAIN KernelSegments, n < i + 1, Proper
      PROVE  InMemory(KernelSegments[n])'
  <2>1. n \in Nat
    BY SegmentFacts
  <2>0. KernelSegments' = KernelSegments
    BY <1>1 DEF KernelSegments
  <2>2. CASE n = i
    <3>1. ASSUME NEW b \in 0 .. k.memsz - 1
          PROVE  mem'[k.paddr + b] = IF b < k.filesz THEN <<"kernel", k.offset + b>>
                                     ELSE <<"zero">>
      <4> DEFINE p == k.paddr + b
      <4>1. p \in 0 .. Top - 1
        <5> HIDE DEF k
        <5> QED
          BY <1>0, <1>3, <1>4, <1>7
      <4>2. CASE b < k.filesz
        <5>1. /\ p \in k.paddr .. k.paddr + k.filesz - 1
              /\ TempBuffer + k.offset + p - k.paddr = TempBuffer + (k.offset + b)
              /\ k.offset + b \in 0 .. kernel.size - 1
          <6> HIDE DEF k
          <6> QED
            BY <1>0, <1>3, <1>4, <1>7, <4>2
        <5>2. mem'[p] = mem[TempBuffer + (k.offset + b)]
          BY <1>1, <4>1, <5>1 DEF Segment
        <5> QED
          BY <1>4, <1>7, <4>2, <5>1, <5>2
      <4>3. CASE ~(b < k.filesz)
        <5>1. /\ p \notin k.paddr .. k.paddr + k.filesz - 1
              /\ p \in Bss(k)
          BY <1>3, <4>3 DEF Bss
        <5> QED
          BY <1>1, <4>1, <4>3, <5>1 DEF Segment
      <4> QED
        BY <4>2, <4>3
    <3> QED
      BY <2>0, <2>2, <3>1 DEF InMemory
  <2>3. CASE n # i
    <3> DEFINE other == KernelSegments[n]
    <3>1. /\ InMemory(other)
          /\ \/ k.paddr + k.memsz <= other.paddr
             \/ other.paddr + other.memsz <= k.paddr
      <4>1. n < i
        BY <1>1, <1>7, <2>1, <2>3
      <4> QED
        BY <1>2, <1>4, <1>7, <2>3, <4>1
    <3>2. other.paddr \in Nat /\ other.memsz \in Nat
      BY SegmentFacts
    <3>3. other.paddr + other.memsz <= TempBuffer
      BY <1>7, FitFacts DEF Proper
    <3>4. ASSUME NEW b \in 0 .. other.memsz - 1
          PROVE  mem'[other.paddr + b] = mem[other.paddr + b]
      <4>1. /\ other.paddr + b \in 0 .. Top - 1
            /\ ~(k.paddr <= other.paddr + b /\ other.paddr + b < k.paddr + k.memsz)
        <5> HIDE DEF k, other
        <5> QED
          BY <1>0, <1>3, <3>1, <3>2, <3>3
      <4> QED
        BY <1>5, <1>7, <4>1
    <3> QED
      BY <2>0, <3>1, <3>4 DEF InMemory
  <2> QED
    BY <2>2, <2>3
<1>8. (Proper' <=> Proper) /\ KernelSegments' = KernelSegments
  BY <1>1 DEF Proper, KernelSegments
<1>9. LoadedInv'
  BY <1>1, <1>6, <1>7, <1>8 DEF LoadedInv
<1> QED
  BY <1>1, <1>9 DEF KernelInv, FittingKernelNotLost

\* The device tree is read to a place behind the headers and the segments.
LEMMA DtbStep ==
  ASSUME MachineInv, KernelInv, LoadDtb
  PROVE  KernelInv'
<1>1. /\ pc = "dtb" /\ pc' = "requests" /\ UNCHANGED <<kernel, sizes, i>>
      /\ DOMAIN mem = 0 .. Top - 1 /\ complete \in BOOLEAN
  BY DEF LoadDtb, disk, KernelInv
<1>2. /\ DtbBuffer \in Nat /\ DtbBuffer # 0 /\ TempBuffer < DtbBuffer
      /\ TempBuffer \in Nat /\ Top \in Nat /\ TempBuffer < Top
      /\ sizes.dtb \in Nat /\ DtbBuffer + sizes.dtb <= Top
  BY MachineFacts, BiosAssumption
<1>3. /\ DOMAIN mem' = DOMAIN mem /\ complete' \in BOOLEAN
      /\ complete' => complete /\ DtbInMemory'
      /\ \A b \in 0 .. Top - 1 : b < DtbBuffer => mem'[b] = mem[b]
  <2>1. CASE dtb_ptr' = DtbBuffer /\ ReadFile(DtbBuffer, "dtb", sizes.dtb)
    <3>1. /\ DOMAIN mem' = DOMAIN mem
          /\ complete' => complete /\ \A o \in 0 .. sizes.dtb - 1 : mem'[DtbBuffer + o] = <<"dtb", o>>
          /\ \A b \in 0 .. Top - 1 : b < DtbBuffer => mem'[b] = mem[b]
      BY <1>1, <1>2, <2>1, ReadFacts
    <3>2. complete' \in BOOLEAN
      BY <2>1 DEF ReadFile
    <3> QED
      BY <1>1, <2>1, <3>1, <3>2 DEF DtbInMemory
  <2>2. CASE dtb_ptr' = 0 /\ NoFile
    BY <1>1, <2>2 DEF DtbInMemory, NoFile
  <2> QED
    BY <2>1, <2>2 DEF LoadDtb
<1>4. ASSUME Proper'
      PROVE  /\ HeadersIntact' /\ DtbInMemory' /\ i > Len(KernelSegments)
             /\ \A n \in DOMAIN KernelSegments :
                  n < i => InMemory(KernelSegments[n])'
  <2>1. Proper
    BY <1>1, <1>3, <1>4 DEF Proper
  <2>2. /\ HeadersIntact /\ i > Len(KernelSegments)
        /\ \A n \in DOMAIN KernelSegments : n < i => InMemory(KernelSegments[n])
    BY <1>1, <2>1 DEF KernelInv, LoadedInv, Loaded
  <2>3. HeadersIntact'
    BY <1>2, <1>3, <2>2 DEF HeadersIntact
  <2>4. ASSUME NEW n \in DOMAIN KernelSegments, n < i
        PROVE  InMemory(KernelSegments[n])'
    <3> DEFINE other == KernelSegments[n]
    <3>1. InMemory(other)
      BY <2>2, <2>4
    <3>2. other.paddr \in Nat /\ other.memsz \in Nat
      BY SegmentFacts
    <3>3. other.paddr + other.memsz <= TempBuffer
      BY <2>1, FitFacts DEF Proper
    <3>4. ASSUME NEW b \in 0 .. other.memsz - 1
          PROVE  mem'[other.paddr + b] = mem[other.paddr + b]
      <4>1. other.paddr + b \in 0 .. Top - 1 /\ other.paddr + b < DtbBuffer
        <5> HIDE DEF other
        <5> QED
          BY <1>2, <3>2, <3>3
      <4> QED
        BY <1>3, <4>1
    <3>5. KernelSegments' = KernelSegments
      BY <1>1 DEF KernelSegments
    <3> QED
      BY <3>1, <3>4, <3>5 DEF InMemory
  <2>5. DtbInMemory'
    BY <1>3, <1>4 DEF Proper
  <2> QED
    BY <2>2, <2>3, <2>4, <2>5
<1>5. KernelSegments' = KernelSegments
  BY <1>1 DEF KernelSegments
<1>6. LoadedInv'
  BY <1>1, <1>4, <1>5 DEF LoadedInv
<1> QED
  BY <1>1, <1>3, <1>6 DEF KernelInv, FittingKernelNotLost

\* A step that touches neither the kernel's memory nor the device tree.
LEMMA OtherStep ==
  ASSUME KernelInv, UNCHANGED <<disk, mem, complete, dtb_ptr>>,
         pc' = "lost" => \/ pc = "lost" /\ e820' = e820
                         \/ Len(e820') > TableRoom
                         \/ pc \in Loaded /\ ~HeadersIntact,
         pc' \in Loaded => pc \in Loaded /\ i' = i,
         pc' = "segments" => pc = "segments",
         pc = "segments" => pc' \in {"segments", "lost"} \/ i > Len(KernelSegments),
         pc' \in {"requests", "jump", "kernel"} => pc \in {"requests", "jump", "kernel"},
         pc' \in {"jump", "kernel"} =>
           \/ scanned' = mem[KernelBase]
           \/ pc \in {"jump", "kernel"} /\ scanned' = scanned
  PROVE  KernelInv'
<1>1. UNCHANGED <<kernel, sizes, mem, complete, dtb_ptr>>
  BY DEF disk
<1>2. (Proper' <=> Proper) /\ KernelSegments' = KernelSegments
      /\ (DtbInMemory => DtbInMemory') /\ (HeadersIntact' <=> HeadersIntact)
  BY <1>1 DEF Proper, KernelSegments, DtbInMemory, HeadersIntact
<1>3. \A n \in DOMAIN KernelSegments :
        InMemory(KernelSegments[n]) => InMemory(KernelSegments[n])'
  BY <1>1, <1>2 DEF InMemory
<1>4. LoadedInv'
  <2> SUFFICES ASSUME Proper, pc' \in Loaded PROVE LoadedInv'
    BY <1>2 DEF LoadedInv
  <2>1. pc \in Loaded /\ i' = i
    OBVIOUS
  <2>2. /\ HeadersIntact
        /\ pc = "segments" =>
             \A o \in 0 .. kernel.size - 1 : mem[TempBuffer + o] = <<"kernel", o>>
        /\ \A n \in DOMAIN KernelSegments : n < i => InMemory(KernelSegments[n])
        /\ pc # "segments" => i > Len(KernelSegments)
        /\ pc \in {"requests", "jump", "kernel"} => DtbInMemory
        /\ pc \in {"jump", "kernel"} => scanned = mem[KernelBase]
    BY <2>1 DEF KernelInv, LoadedInv
  <2>3. pc' # "lost"
    BY DEF Loaded
  <2>4. pc' \in {"jump", "kernel"} => scanned' = mem'[KernelBase]
    BY <1>1, <2>2
  <2>5. \A n \in DOMAIN KernelSegments : n < i => InMemory(KernelSegments[n])'
    BY <1>3, <2>2
  <2> QED
    BY <1>1, <1>2, <2>1, <2>2, <2>3, <2>4, <2>5 DEF LoadedInv
<1>5. FittingKernelNotLost'
  <2>1. ASSUME pc \in Loaded, ~HeadersIntact PROVE ~Proper
    BY <2>1 DEF KernelInv, LoadedInv
  <2> QED
    BY <1>1, <2>1 DEF KernelInv, FittingKernelNotLost, Proper
<1> QED
  BY <1>1, <1>4, <1>5 DEF KernelInv

\* Reading the configuration or the image, before there is a kernel to keep.
LEMMA EarlyStep ==
  ASSUME KernelInv, pc' \notin Loaded \cup {"lost"},
         \/ NoFile
         \/ \E at, name, size : ReadFile(at, name, size)
  PROVE  KernelInv'
<1>1. DOMAIN mem' = DOMAIN mem /\ complete' \in BOOLEAN
  BY DEF NoFile, ReadFile, ReadBlocks, KernelInv
<1> QED
  BY <1>1 DEF KernelInv, LoadedInv, FittingKernelNotLost

LEMMA KernelStep ==
  ASSUME MachineInv, MapInv, KernelInv, [Next]_vars
  PROVE  KernelInv'
<1>1. CASE CheckLba \/ LoadStage2 \/ StoreE820 \/ E820Done \/ SetupVbe \/ InitFb
           \/ InitMmap \/ ConvertEntry \/ ConvertDone \/ InitDisk \/ Menu
  <2>1. /\ UNCHANGED <<disk, mem, complete, dtb_ptr>>
        /\ pc' \notin Loaded
        /\ pc' = "lost" => Len(e820') > TableRoom
        /\ pc # "segments"
    BY <1>1
    DEF CheckLba, LoadStage2, StoreE820, E820Done, SetupVbe, InitFb, InitMmap,
        ConvertEntry, ConvertDone, InitDisk, Menu, handover, Loaded
  <2> QED
    BY <2>1, OtherStep DEF Loaded
<1>2. CASE LoadConfig \/ LoadImage
  <2>1. pc' \notin Loaded \cup {"lost"}
    BY <1>2 DEF LoadConfig, LoadImage, Loaded
  <2> QED
    BY <1>2, <2>1, EarlyStep DEF LoadConfig, LoadImage
<1>3. CASE ReadKernel
  BY <1>3, LoadStep
<1>4. CASE CopySegment
  BY <1>4, CopyStep
<1>5. CASE LoadDtb
  BY <1>5, DtbStep
<1>6. CASE HeadersLost
  <2>1. /\ UNCHANGED <<disk, mem, complete, dtb_ptr>> /\ pc' = "lost"
        /\ pc \in Loaded /\ ~HeadersIntact
    BY <1>6 DEF HeadersLost, handover, Loaded
  <2> QED
    BY <2>1, OtherStep DEF Loaded
<1>7. CASE WriteBootInfo
  <2>1. /\ UNCHANGED <<disk, mem, complete, dtb_ptr, i>>
        /\ pc = "segments" /\ pc' = "dtb" /\ i > Len(KernelSegments)
    BY <1>7 DEF WriteBootInfo, KernelSegments
  <2> QED
    BY <2>1, OtherStep DEF Loaded
<1>8. CASE HandleRequests
  <2>1. /\ UNCHANGED <<disk, mem, complete, dtb_ptr, i>>
        /\ pc = "requests" /\ pc' \in {"jump", "refused"} /\ scanned' = mem[KernelBase]
    BY <1>8 DEF HandleRequests
  <2> QED
    BY <2>1, OtherStep DEF Loaded
<1>9. CASE Jump
  <2>1. /\ UNCHANGED <<disk, mem, complete, dtb_ptr, i, scanned>>
        /\ pc = "jump" /\ pc' = "kernel"
    BY <1>9 DEF Jump, handover
  <2> QED
    BY <2>1, OtherStep DEF Loaded
<1>10. CASE Done \/ UNCHANGED vars
  <2>1. UNCHANGED <<pc, disk, e820, mem, i, complete, dtb_ptr, scanned>>
    BY <1>10 DEF Done, vars, stage1, handover
  <2>2. ASSUME pc = "segments" PROVE pc' = "segments"
    BY <2>1, <2>2
  <2> QED
    BY <2>1, <2>2, OtherStep
<1> QED
  BY <1>1, <1>2, <1>3, <1>4, <1>5, <1>6, <1>7, <1>8, <1>9, <1>10 DEF Next, Step

LEMMA KernelInvariant == Spec => []KernelInv
<1>1. Init => KernelInv
  <2> SUFFICES ASSUME Init PROVE KernelInv
    OBVIOUS
  <2>1. pc = "start" /\ DOMAIN mem = 0 .. Top - 1 /\ complete = TRUE
    BY DEF Init
  <2> QED
    BY <2>1 DEF KernelInv, FittingKernelNotLost, LoadedInv, Loaded
<1>2. MachineInv /\ TableInv /\ MapInv /\ KernelInv /\ [Next]_vars => KernelInv'
  BY KernelStep
<1> QED
  BY <1>1, <1>2, MapInvariant, PTL DEF Spec

\* For every kernel file that fits and was read to its end: although the
\* headers are read again at every turn, they are there.
THEOREM FittingKernelIsKept == Spec => []FittingKernelNotLost
<1>1. KernelInv => FittingKernelNotLost
  BY DEF KernelInv
<1> QED
  BY <1>1, KernelInvariant, PTL

\* For every kernel file that fits: when it is entered its segments are in
\* memory, cleared where the file has nothing, the device tree is where the
\* kernel is told, and the requests were looked for in what is entered.
THEOREM HandoverStaysIntact == Spec => []HandoverIntact
<1>1. MachineInv /\ MapInv /\ KernelInv => HandoverIntact
  <2> SUFFICES ASSUME MachineInv, MapInv, KernelInv, pc = "kernel", complete, Fits(kernel)
               PROVE  /\ \A n \in DOMAIN KernelSegments : InMemory(KernelSegments[n])
                      /\ DtbInMemory
                      /\ scanned = mem[KernelBase]
    BY DEF HandoverIntact, InMemory, DtbInMemory, KernelSegments
  <2>1. /\ \A n \in DOMAIN KernelSegments : n < i => InMemory(KernelSegments[n])
        /\ i > Len(KernelSegments) /\ DtbInMemory /\ scanned = mem[KernelBase]
    BY DEF KernelInv, LoadedInv, Proper, Loaded
  <2>2. \A n \in DOMAIN KernelSegments : n <= Len(KernelSegments)
    BY SegmentFacts
  <2>3. \A n \in DOMAIN KernelSegments : n \in Nat /\ Len(KernelSegments) \in Nat
                                        /\ i \in Nat
    BY SegmentFacts DEF MapInv
  <2> QED
    BY <2>1, <2>2, <2>3
<1> QED
  BY <1>1, MapInvariant, KernelInvariant, PTL
=============================================================================
