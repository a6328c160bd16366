---------------------------- MODULE KernelProofs ----------------------------
(***************************************************************************)
(* The page tables of the BIOS loader map what they should, for tables of  *)
(* any size and whatever memory held before: the inductive invariant says  *)
(* which entries are written at each point of the three loops.             *)
(*                                                                         *)
(* The processors found are the firmware's, for every set of ACPI tables:  *)
(* the walks stand at the beginning of an entry, the first has counted the *)
(* processors before it and the second has stored their ids in order.      *)
(* Where entries begin is a recursive function; that the walks meet every  *)
(* entry is shown by a least one that they would miss.                     *)
(*                                                                         *)
(* The handover is readable: fields lie one behind the other on words, for *)
(* either compiler; what a structure was stored as stays, because the      *)
(* map, boot_info and the responses lie apart and the allocator only moves *)
(* up; and but for the fields named by LostUnderBios both compilers put    *)
(* them at the same place.  The status lines are truthful for it: the      *)
(* numbers they depend on are among those, each request has its response,  *)
(* and the tables reach the framebuffer.                                   *)
(***************************************************************************)
EXTENDS Kernel, TLAPS, FiniteSetTheorems, WellFoundedInduction

PagingType ==
  /\ building \in {"clear", "pml4", "pdpt", "pd", "built"}
  /\ tables \in [Tables -> [Slots -> Words]]
  /\ i \in 0 .. Directories /\ j \in 0 .. Entries
  /\ building = "pd" => i < Directories
  /\ building \in {"clear", "pml4"} => i = 0
  /\ building = "built" => i = Directories

\* The root has the entries linked so far.
Root ==
  \A k \in Slots :
    tables[Pml4][k] =
      IF \/ k = 0 /\ building # "pml4"
         \/ k = HhdmSlot /\ building = "built"
      THEN Table(Pdpt) ELSE Empty

\* Directory i is linked before its pages are mapped.
DirectoriesLinked ==
  \A k \in Slots :
    tables[Pdpt][k] =
      IF k < i \/ (k = i /\ building = "pd") THEN Table(Pd(k)) ELSE Empty

PageMapped(d, k) == tables[Pd(d)][k] = Page(d, k)

DirectoriesFilled ==
  /\ \A d \in 0 .. Directories - 1, k \in Slots : d < i => PageMapped(d, k)
  /\ building = "pd" => \A k \in Slots : k < j => PageMapped(i, k)

PagingInv ==
  /\ PagingType
  /\ building # "clear" => Root /\ DirectoriesLinked /\ DirectoriesFilled

-----------------------------------------------------------------------------

\* Frames and slots are where the operators say, and the tables lie apart.
LEMMA Geometry ==
  /\ Pml4 \in Tables /\ Pdpt \in Tables /\ Pdpt # Pml4
  /\ \A d \in 0 .. Directories - 1 :
       Pd(d) \in Tables /\ Pd(d) # Pml4 /\ Pd(d) # Pdpt /\ d \in Slots
  /\ \A d, e \in 0 .. Directories - 1 : Pd(d) = Pd(e) => d = e
  /\ 0 \in Slots /\ HhdmSlot \in Slots /\ HhdmSlot # 0
BY PagingAssumption DEF Tables, Pdpt, Pd, Slots, HhdmSlot

\* What is stored are table entries.
LEMMA EntriesAreWords ==
  /\ Empty \in Words /\ Table(Pdpt) \in Words
  /\ \A d \in 0 .. Directories - 1 : Table(Pd(d)) \in Words
  /\ \A d \in 0 .. Directories - 1, k \in Slots : Page(d, k) \in Words
<1>1. \A d \in 0 .. Directories - 1, k \in Slots : (d * Entries + k) * Entries \in Nat
  <2> SUFFICES ASSUME NEW d \in 0 .. Directories - 1, NEW k \in Slots
               PROVE (d * Entries + k) * Entries \in Nat
      OBVIOUS
  <2>1. d \in Nat /\ k \in Nat /\ Entries \in Nat BY PagingAssumption DEF Slots
  <2>2. \A a, b \in Nat : a * b \in Nat BY SMT
  <2> QED BY <2>1, <2>2, d * Entries + k \in Nat
<1>2. Pdpt \in Nat /\ \A d \in 0 .. Directories - 1 : Pd(d) \in Nat
  BY PagingAssumption DEF Pdpt, Pd
<1> QED BY <1>1, <1>2 DEF Words, Empty, Table, Page

\* Whatever the frames held, the invariant holds at the start.
LEMMA PagingStarts == PagingInit => PagingInv
<1> SUFFICES ASSUME PagingInit PROVE PagingInv OBVIOUS
<1>1. \A w \in Leftovers : w \in Words BY PagingAssumption
<1>2. tables \in [Tables -> [Slots -> Words]] BY <1>1 DEF PagingInit
<1> QED BY <1>2, PagingAssumption DEF PagingInit, PagingInv, PagingType

\* Each step of setup_long_mode_paging keeps the invariant.
LEMMA PagingSteps == PagingInv /\ PagingNext => PagingInv'
<1> SUFFICES ASSUME PagingInv, PagingNext PROVE PagingInv' OBVIOUS
<1> USE DEF PagingInv
<1>1. CASE Clear
  <2>1. PagingType' BY <1>1, EntriesAreWords DEF Clear, PagingType
  <2>2. Root' BY <1>1, Geometry DEF Clear, PagingType, Root
  <2>3. DirectoriesLinked'
    BY <1>1, Geometry DEF Clear, PagingType, DirectoriesLinked, Slots
  <2>4. DirectoriesFilled' BY <1>1 DEF Clear, PagingType, DirectoriesFilled
  <2> QED BY <2>1, <2>2, <2>3, <2>4
<1>2. CASE LinkPdpt
  <2>1. PagingType' BY <1>2, Geometry, EntriesAreWords DEF LinkPdpt, PagingType
  <2>2. Root' BY <1>2, Geometry DEF LinkPdpt, PagingType, Root
  <2>3. DirectoriesLinked'
    BY <1>2, Geometry DEF LinkPdpt, PagingType, DirectoriesLinked
  <2>4. DirectoriesFilled'
    BY <1>2, Geometry DEF LinkPdpt, PagingType, DirectoriesFilled
  <2> QED BY <2>1, <2>2, <2>3, <2>4
<1>3. CASE LinkDirectory
  <2>0. i \in 0 .. Directories - 1 /\ i \in Slots
    BY <1>3, Geometry, PagingAssumption DEF LinkDirectory, PagingType
  <2>1. PagingType'
    BY <1>3, <2>0, Geometry, EntriesAreWords, PagingAssumption DEF LinkDirectory, PagingType
  <2>2. Root' BY <1>3, Geometry DEF LinkDirectory, PagingType, Root
  <2>3. DirectoriesLinked'
    BY <1>3, <2>0, Geometry DEF LinkDirectory, PagingType, DirectoriesLinked, Slots
  <2>4. DirectoriesFilled'
    <3>1. \A d \in 0 .. Directories - 1 : tables'[Pd(d)] = tables[Pd(d)]
      BY <1>3, Geometry DEF LinkDirectory, PagingType
    <3> QED BY <1>3, <3>1 DEF LinkDirectory, PagingType, DirectoriesFilled, PageMapped, Slots
  <2> QED BY <2>1, <2>2, <2>3, <2>4
<1>4. CASE MapPage
  <2>0. i \in 0 .. Directories - 1 /\ j \in Slots
    BY <1>4, PagingAssumption DEF MapPage, PagingType, Slots
  <2>1. PagingType'
    <3>1. Page(i, j) \in Words BY <2>0, EntriesAreWords
    <3>2. tables' \in [Tables -> [Slots -> Words]]
      BY <1>4, <3>1 DEF MapPage, PagingType
    <3>3. j' \in 0 .. Entries BY <1>4, PagingAssumption DEF MapPage, PagingType
    <3> QED BY <1>4, <3>2, <3>3 DEF MapPage, PagingType
  <2>2. Root' /\ DirectoriesLinked'
    BY <1>4, <2>0, Geometry DEF MapPage, PagingType, Root, DirectoriesLinked
  <2>3. \A d \in 0 .. Directories - 1, k \in Slots :
          (PageMapped(d, k) \/ (d = i /\ k = j)) => PageMapped(d, k)'
    BY <1>4, <2>0, Geometry DEF MapPage, PagingType, PageMapped
  <2>4. DirectoriesFilled'
    BY <1>4, <2>0, <2>3 DEF MapPage, PagingType, DirectoriesFilled, Slots
  <2> QED BY <2>1, <2>2, <2>4
<1>5. CASE NextDirectory
  <2>1. PagingType' BY <1>5, PagingAssumption DEF NextDirectory, PagingType
  <2>2. Root' BY <1>5 DEF NextDirectory, PagingType, Root
  <2>3. DirectoriesLinked'
    BY <1>5 DEF NextDirectory, PagingType, DirectoriesLinked, Slots
  <2>4. DirectoriesFilled'
    BY <1>5 DEF NextDirectory, PagingType, DirectoriesFilled, PageMapped, Slots
  <2> QED BY <2>1, <2>2, <2>3, <2>4
<1>6. CASE LinkHhdm
  <2>1. PagingType'
    BY <1>6, Geometry, EntriesAreWords DEF LinkHhdm, PagingType
  <2>2. Root' BY <1>6, Geometry DEF LinkHhdm, PagingType, Root
  <2>3. DirectoriesLinked'
    BY <1>6, Geometry DEF LinkHhdm, PagingType, DirectoriesLinked
  <2>4. DirectoriesFilled'
    <3>1. \A d \in 0 .. Directories - 1 : tables'[Pd(d)] = tables[Pd(d)]
      BY <1>6, Geometry DEF LinkHhdm, PagingType
    <3> QED BY <1>6, <3>1 DEF LinkHhdm, PagingType, DirectoriesFilled, PageMapped
  <2> QED BY <2>1, <2>2, <2>3, <2>4
<1> QED BY <1>1, <1>2, <1>3, <1>4, <1>5, <1>6 DEF PagingNext

\* When the tables are built, the walk is the promised mapping.
LEMMA WalkMaps == PagingInv => PagesMapped
<1> SUFFICES ASSUME PagingInv, building = "built",
                    NEW l4 \in Slots, NEW l3 \in Slots, NEW l2 \in Slots
             PROVE Walk(l4, l3, l2) =
                     IF Maps(l4, l3) THEN (l3 * Entries + l2) * Entries ELSE Fault
    BY DEF PagesMapped
<1>1. tables[Pml4][l4] = IF l4 \in {0, HhdmSlot} THEN Table(Pdpt) ELSE Empty
  BY DEF PagingInv, Root
<1>2. tables[Pdpt][l3] = IF l3 < Directories THEN Table(Pd(l3)) ELSE Empty
  BY DEF PagingInv, PagingType, DirectoriesLinked
<1>3. l3 < Directories => tables[Pd(l3)][l2] = Page(l3, l2)
  BY PagingAssumption DEF PagingInv, PagingType, DirectoriesFilled, PageMapped, Slots
<1> QED BY <1>1, <1>2, <1>3 DEF Walk, Maps, Table, Empty, Page

\* A step of the machine is one of setup_long_mode_paging or leaves the tables alone.
LEMMA NextPaging == PagingInv /\ [Next]_vars => PagingInv'
<1> SUFFICES ASSUME PagingInv, [Next]_vars PROVE PagingInv' OBVIOUS
<1>1. CASE UNCHANGED paging
  BY <1>1 DEF paging, PagingInv, PagingType, Root, DirectoriesLinked,
              DirectoriesFilled, PageMapped
<1>2. PagingNext \/ UNCHANGED paging
  BY DEF Next, SetUpPaging, StoreMap, StoreBootInfo, Answer, AnswerKernelFile,
         BeginSmp, Discover, FinishSmp, EnterKernel, Draw, ReportMap,
         ReportHhdm, ReportMode, Done, vars
<1> QED BY <1>1, <1>2, PagingSteps

\* The kernel runs on tables that map the first Directories GB at their own
\* addresses and at the HHDM offset, and nothing else: for tables of every
\* size, at every place, and whatever memory held before.
THEOREM KernelSeesMemory == Spec => []PagesMapped
<1>1. Init => PagingInv BY PagingStarts DEF Init
<1> QED BY <1>1, NextPaging, WalkMaps, PTL DEF Spec

-----------------------------------------------------------------------------
(* The processors *)

LEMMA Least ==
  ASSUME NEW S \in SUBSET Nat, S # {}
  PROVE  \E x \in S : \A y \in S : x <= y
<1>1. IsWellFoundedOn(OpToRel(<, Nat), Nat)
  BY NatLessThanWellFounded
<1>2. PICK x \in S : \A y \in S : ~(<<y, x>> \in OpToRel(<, Nat))
  BY <1>1, WFMin
<1>3. \A y \in S : ~(y < x)
  BY <1>2 DEF OpToRel
<1> QED
  BY <1>3

\* Begins is defined by recursion: there are such sums, as far as a table goes.
Sums(f, base, len, last) ==
  /\ f \in [1 .. last + 1 -> Nat]
  /\ f[1] = base
  /\ \A k \in 1 .. last : f[k + 1] = f[k] + len[k]

LEMMA SumsExist ==
  ASSUME NEW last \in Nat, NEW base \in Nat, NEW len \in [1 .. last -> Nat]
  PROVE  \E f : Sums(f, base, len, last)
<1> DEFINE Bad == {m \in 0 .. last : ~\E f : Sums(f, base, len, m)}
<1>1. CASE Bad = {}
  <2>1. last \in 0 .. last
    OBVIOUS
  <2>2. last \notin Bad
    BY <1>1
  <2> QED
    BY <2>1, <2>2, Zenon
<1>2. CASE Bad # {}
  <2>0. Bad \in SUBSET Nat
    OBVIOUS
  <2>1. PICK m \in Bad : \A k \in Bad : m <= k
    <3> HIDE DEF Bad
    <3> QED
      BY <1>2, <2>0, Least
  <2>2. CASE m = 0
    <3>1. Sums([k \in 1 .. m + 1 |-> base], base, len, m)
      BY <2>2 DEF Sums
    <3> QED
      BY <2>1, <3>1
  <2>3. CASE m # 0
    <3>1. m \in 1 .. last /\ m - 1 \in 0 .. last /\ m - 1 \notin Bad
      BY <2>1, <2>3
    <3>2. PICK f : Sums(f, base, len, m - 1)
      BY <3>1
    <3> DEFINE g == [k \in 1 .. m + 1 |-> IF k <= m THEN f[k] ELSE f[m] + len[m]]
    <3>3. /\ f \in [1 .. m -> Nat] /\ f[1] = base /\ len[m] \in Nat
          /\ \A k \in 1 .. m - 1 : f[k + 1] = f[k] + len[k]
      BY <3>1, <3>2 DEF Sums
    <3>4. g \in [1 .. m + 1 -> Nat] /\ g[1] = base
      BY <3>1, <3>3
    <3>5. \A k \in 1 .. m : g[k + 1] = g[k] + len[k]
      <4> TAKE k \in 1 .. m
      <4>1. CASE k = m
        BY <3>1, <4>1
      <4>2. CASE k # m
        BY <3>1, <3>3, <4>2
      <4> QED
        BY <4>1, <4>2
    <3>6. Sums(g, base, len, m)
      <4> HIDE DEF g
      <4> QED
        BY <3>4, <3>5 DEF Sums
    <3> QED
      BY <2>1, <3>6
  <2> QED
    BY <2>2, <2>3
<1> QED
  BY <1>1, <1>2

MadtShape == [type : Nat, length : Nat \ {0}, enabled : BOOLEAN, id : Nat]

\* What the definition of Begins says for a table.
StartsOf(begins, madt) ==
  begins = CHOOSE f : f = [k \in 1 .. Len(madt) + 1 |->
                             IF k = 1 THEN MadtHeader ELSE f[k - 1] + madt[k - 1].length]

\* Each entry begins where the one before ends.
LEMMA StartsFacts ==
  ASSUME NEW madt \in Seq(MadtShape), NEW begins, StartsOf(begins, madt)
  PROVE  /\ begins \in [1 .. Len(madt) + 1 -> Nat] /\ begins[1] = MadtHeader
         /\ \A k \in 1 .. Len(madt) : begins[k + 1] = begins[k] + madt[k].length
         /\ \A k, l \in 1 .. Len(madt) + 1 : k < l => begins[k] < begins[l]
<1> DEFINE last == Len(madt)
           len == [k \in 1 .. last |-> madt[k].length]
           Rec(f) == f = [k \in 1 .. last + 1 |->
                            IF k = 1 THEN MadtHeader ELSE f[k - 1] + madt[k - 1].length]
<1>1. /\ last \in Nat /\ len \in [1 .. last -> Nat]
      /\ \A k \in 1 .. last : madt[k].length \in Nat \ {0}
  <2>1. last \in Nat /\ \A k \in 1 .. last : madt[k] \in MadtShape
    OBVIOUS
  <2>2. \A k \in 1 .. last : madt[k].length \in Nat \ {0}
    BY <2>1 DEF MadtShape
  <2> QED
    BY <2>1, <2>2
<1>2. begins = CHOOSE f : Rec(f)
  BY DEF StartsOf
<1>3. PICK f : Sums(f, MadtHeader, len, last)
  BY <1>1, SumsExist DEF MadtHeader
<1>4. Rec(f)
  <2>1. /\ f \in [1 .. last + 1 -> Nat] /\ f[1] = MadtHeader
        /\ \A k \in 1 .. last : f[k + 1] = f[k] + madt[k].length
    BY <1>1, <1>3 DEF Sums
  <2>2. ASSUME NEW k \in 1 .. last + 1, k # 1
        PROVE  f[k] = f[k - 1] + madt[k - 1].length
    <3>1. k - 1 \in 1 .. last /\ (k - 1) + 1 = k
      BY <1>1, <2>2
    <3> QED
      BY <2>1, <3>1
  <2> HIDE DEF last
  <2> QED
    BY <2>1, <2>2
<1>5. Rec(begins)
  <2> HIDE DEF Rec
  <2> QED
    BY <1>2, <1>4
<1>6. DOMAIN begins = 1 .. last + 1 /\ begins[1] = MadtHeader
  BY <1>1, <1>5
<1>7. \A k \in 1 .. last : begins[k + 1] = begins[k] + madt[k].length
  <2> TAKE k \in 1 .. last
  <2>1. k + 1 \in 1 .. last + 1 /\ k + 1 # 1 /\ (k + 1) - 1 = k
    BY <1>1
  <2> HIDE DEF last
  <2> QED
    BY <1>5, <2>1
<1>8. \A k \in 1 .. last + 1 : begins[k] \in Nat
  <2> DEFINE Bad == {k \in 1 .. last + 1 : begins[k] \notin Nat}
  <2> SUFFICES ASSUME Bad # {} PROVE FALSE
    OBVIOUS
  <2>0. Bad \in SUBSET Nat
    BY <1>1
  <2>1. PICK k \in Bad : \A l \in Bad : k <= l
    <3> HIDE DEF Bad
    <3> QED
      BY <2>0, Least
  <2>2. k # 1
    BY <1>6, <2>1 DEF MadtHeader
  <2>3. k - 1 \in 1 .. last /\ k - 1 \notin Bad /\ (k - 1) + 1 = k
    BY <1>1, <2>1, <2>2
  <2>4. begins[k - 1] \in Nat
    BY <1>1, <2>3
  <2>5. begins[k] = begins[k - 1] + madt[k - 1].length /\ madt[k - 1].length \in Nat
    BY <1>1, <1>7, <2>3
  <2>6. begins[k] \notin Nat
    BY <2>1
  <2> QED
    BY <2>4, <2>5, <2>6
<1>9. ASSUME NEW k \in 1 .. last + 1, NEW l \in 1 .. last + 1, k < l
      PROVE  begins[k] < begins[l]
  <2> DEFINE Bad == {m \in 1 .. last + 1 : k < m /\ ~(begins[k] < begins[m])}
  <2> SUFFICES ASSUME Bad # {} PROVE FALSE
    BY <1>9
  <2>0. Bad \in SUBSET Nat
    BY <1>1
  <2>1. PICK m \in Bad : \A o \in Bad : m <= o
    <3> HIDE DEF Bad
    <3> QED
      BY <2>0, Least
  <2>2. m - 1 \in 1 .. last /\ k <= m - 1 /\ m - 1 \notin Bad /\ (m - 1) + 1 = m
    BY <1>1, <1>9, <2>1
  <2>3. begins[k] <= begins[m - 1]
    BY SMTT(30), <1>1, <1>8, <1>9, <2>2
  <2>4. begins[m] = begins[m - 1] + madt[m - 1].length /\ madt[m - 1].length \in Nat \ {0}
    BY <1>1, <1>7, <2>2
  <2>5. begins[k] \in Nat /\ begins[m - 1] \in Nat
    BY <1>1, <1>8, <1>9, <2>2
  <2> QED
    BY SMTT(30), <2>1, <2>3, <2>4, <2>5
<1>10. begins \in [1 .. last + 1 -> Nat]
  BY <1>5, <1>8
<1> QED
  BY <1>6, <1>7, <1>9, <1>10

LEMMA BeginsStarts == StartsOf(Begins, Madt) /\ StartsOf(Begins', Madt')
  BY DEF StartsOf, Begins

LEMMA BeginsFacts ==
  ASSUME Madt \in Seq(MadtShape)
  PROVE  /\ Begins \in [1 .. Len(Madt) + 1 -> Nat] /\ Begins[1] = MadtHeader
         /\ \A k \in 1 .. Len(Madt) : Begins[k + 1] = Begins[k] + Madt[k].length
         /\ \A k, l \in 1 .. Len(Madt) + 1 : k < l => Begins[k] < Begins[l]
  BY BeginsStarts, StartsFacts

MachineFits == acpi \in Machines

\* The first paragraph with the signature.
FirstRsdp == IF Signed # {} THEN First(Signed) ELSE 0

LEMMA FirstFacts ==
  ASSUME NEW S \in SUBSET Nat, S # {}
  PROVE  First(S) \in S /\ Min(S) = First(S)
<1>1. PICK x \in S : \A y \in S : x <= y
  BY Least
<1>2. First(S) \in S
  BY <1>1 DEF First
<1> QED
  BY <1>2 DEF First, Min

\* A root table is read as far as it goes.
LEMMA AllListed ==
  ASSUME MachineFits, NEW a \in DOMAIN acpi.sdt, NEW size \in {4, 8},
         acpi.sdt[a].length = SdtHeader + size * Len(acpi.sdt[a].entry)
  PROVE  Listed(a, size) = acpi.sdt[a].entry
<1> DEFINE list == acpi.sdt[a].entry
<1>1. list \in Seq(Nat) /\ Len(list) \in Nat
  BY AcpiAssumption DEF MachineFits, MachineShape
<1>2. (acpi.sdt[a].length - SdtHeader) \div size = Len(list)
  <2>1. /\ \A x \in Nat : ((36 + 4 * x) - 36) \div 4 = x
        /\ \A x \in Nat : ((36 + 8 * x) - 36) \div 8 = x
    OBVIOUS
  <2>2. acpi.sdt[a].length = 36 + size * Len(list)
    BY DEF SdtHeader
  <2> HIDE DEF list
  <2> QED
    BY <1>1, <2>1, <2>2 DEF SdtHeader
<1>3. Listed(a, size) = SubSeq(list, 1, Len(list))
  BY <1>2 DEF Listed
<1> QED
  BY <1>1, <1>3

\* acpi_find_table finds the published MADT.
LEMMA MadtFound ==
  ASSUME MachineFits
  PROVE  /\ FindMadt(FirstRsdp) \in Nat
         /\ FindMadt(FirstRsdp) = 0 => Published = <<>>
         /\ FindMadt(FirstRsdp) # 0 =>
              /\ FindMadt(FirstRsdp) \in DOMAIN acpi.madts
              /\ Published = acpi.madts[FindMadt(FirstRsdp)]
<1>1. /\ Len(acpi.paragraphs) \in Nat
      /\ DOMAIN acpi.paragraphs = 1 .. Len(acpi.paragraphs)
      /\ 0 \notin DOMAIN acpi.madts
      /\ \A a \in DOMAIN acpi.sdt : acpi.sdt[a].entry \in Seq(Nat)
  <2>1. /\ acpi.paragraphs \in Seq([signature : BOOLEAN, revision : Nat, xsdt : Nat, rsdt : Nat])
        /\ 0 \notin DOMAIN acpi.madts
        /\ \A a \in DOMAIN acpi.sdt : acpi.sdt[a].entry \in Seq(Nat)
    BY AcpiAssumption DEF MachineFits, MachineShape
  <2> QED
    BY <2>1
<1>2. CASE Signed = {}
  <2>1. FindMadt(FirstRsdp) = 0
    BY <1>2 DEF FirstRsdp, FindMadt
  <2>2. Published = <<>>
    BY <1>2 DEF Published
  <2> QED
    BY <2>1, <2>2
<1>3. CASE Signed # {}
  <2>1. FirstRsdp \in Signed /\ FirstRsdp # 0 /\ FirstRsdp = First(Signed)
    <3>1. Signed \in SUBSET Nat /\ 0 \notin Signed
      BY <1>1 DEF Signed
    <3> QED
      BY <1>3, <3>1, FirstFacts DEF FirstRsdp
  <2> DEFINE rsdp == acpi.paragraphs[FirstRsdp]
             root == IF rsdp.revision >= 2 /\ rsdp.xsdt # 0 THEN rsdp.xsdt ELSE rsdp.rsdt
             list == acpi.sdt[root].entry
             found == Searched(FirstRsdp)
  <2>3. root # 0 => root \in DOMAIN acpi.sdt /\ found = list
    <3>1. FirstRsdp \in DOMAIN acpi.paragraphs /\ rsdp.signature
      BY <2>1 DEF Signed
    <3>2. /\ rsdp.revision >= 2 /\ rsdp.xsdt # 0 => RootTable(acpi, rsdp.xsdt, 8)
          /\ rsdp.rsdt # 0 => RootTable(acpi, rsdp.rsdt, 4)
      BY <3>1, AcpiAssumption DEF MachineFits, MachineShape
    <3>3. CASE rsdp.revision >= 2 /\ rsdp.xsdt # 0
      <4>1. found = Listed(rsdp.xsdt, 8)
        BY <3>3 DEF Searched
      <4> QED
        BY <3>2, <3>3, <4>1, AllListed DEF RootTable
    <3>4. CASE ~(rsdp.revision >= 2 /\ rsdp.xsdt # 0) /\ rsdp.rsdt # 0
      <4>1. found = Listed(rsdp.rsdt, 4)
        BY <3>4 DEF Searched
      <4> QED
        BY <3>2, <3>4, <4>1, AllListed DEF RootTable
    <3> QED
      BY <3>3, <3>4
  <2>4. root = 0 => found = <<>>
    BY DEF Searched
  <2>5. found \in Seq(Nat)
    <3>1. <<>> \in Seq(Nat)
      OBVIOUS
    <3> HIDE DEF found, root
    <3>2. CASE root = 0
      BY <2>4, <3>1, <3>2
    <3>3. CASE root # 0
      BY <1>1, <2>3, <3>3
    <3> QED
      BY <3>2, <3>3
  <2>6. Published = IF root = 0 \/ MadtsIn(list) = {} THEN <<>>
                    ELSE acpi.madts[list[First(MadtsIn(list))]]
    BY <1>3, <2>1 DEF Published
  <2> HIDE DEF list, root, found
  <2>7. MadtsIn(found) \in SUBSET Nat /\ 0 \notin MadtsIn(found)
    BY <2>5 DEF MadtsIn
  <2>8. FindMadt(FirstRsdp) =
          IF MadtsIn(found) = {} THEN 0 ELSE found[Min(MadtsIn(found))]
    <3> DEFINE I == {k \in 1 .. Len(found) : found[k] \in DOMAIN acpi.madts}
               at == IF I # {} THEN Min(I) ELSE 0
    <3>1. FindMadt(FirstRsdp) = IF at = 0 THEN 0 ELSE found[at]
      BY <2>1 DEF FindMadt, SelectInSeq, found
    <3>2. I = MadtsIn(found)
      BY <2>5 DEF MadtsIn
    <3> HIDE DEF I
    <3>3. I # {} => Min(I) \in I
      BY <2>7, <3>2, FirstFacts
    <3> QED
      BY <2>7, <3>1, <3>2, <3>3
  <2>9. MadtsIn(<<>>) = {}
    BY DEF MadtsIn
  <2>10. CASE MadtsIn(found) = {}
    BY <2>3, <2>6, <2>8, <2>10
  <2>11. CASE MadtsIn(found) # {}
    <3>1. First(MadtsIn(found)) \in MadtsIn(found)
          /\ Min(MadtsIn(found)) = First(MadtsIn(found))
      BY <2>7, <2>11, FirstFacts
    <3>2. found[First(MadtsIn(found))] \in DOMAIN acpi.madts
      BY <3>1 DEF MadtsIn
    <3>3. found[First(MadtsIn(found))] \in Nat
      BY <2>5, <3>1 DEF MadtsIn
    <3> QED
      BY <1>1, <2>3, <2>4, <2>6, <2>8, <2>9, <2>11, <3>1, <3>2, <3>3
  <2> QED
    BY <2>10, <2>11
<1> QED
  BY <1>2, <1>3

\* Processors among the first entries of the published MADT, and their places.
Before(m) == {k \in Processors : k < m}
Place(k) == Cardinality({l \in Processors : l <= k})

\* The walk stands at entry m of the table.
StandsAt(m) ==
  /\ m \in 1 .. Len(Madt) + 1 /\ walk.ptr = Begins[m]
  /\ walk.pass = "count" => walk.count = Cardinality(Before(m)) /\ walk.cpus = <<>>
  /\ walk.pass = "fill" =>
       /\ walk.count = Cardinality(Processors)
       /\ Len(walk.cpus) = Cardinality(Before(m))
       /\ \A k \in Before(m) : walk.cpus[Place(k)] = Published[k].id

WalkShape ==
  [pass : {"none", "count", "fill", "done"}, madt : Nat, ptr : Nat, count : Nat,
   cpus : Seq(Nat)]

DiscoveryInv ==
  /\ MachineFits
  /\ g_rsdp # 0 => g_rsdp = FirstRsdp
  /\ walk \in WalkShape
  /\ walk.pass \in {"count", "fill"} =>
       /\ walk.madt \in DOMAIN acpi.madts /\ Published = Madt
       /\ \E m \in 1 .. Len(Madt) + 1 : StandsAt(m)
  /\ ProcessorsFound

LEMMA MadtsAre ==
  ASSUME MachineFits, NEW a \in DOMAIN acpi.madts
  PROVE  acpi.madts[a] \in Seq(MadtShape)
  BY AcpiAssumption DEF MachineFits, MachineShape, MadtShape

LEMMA PublishedIs ==
  ASSUME MachineFits
  PROVE  /\ Published \in Seq(MadtShape) /\ Len(Published) \in Nat
         /\ Processors \subseteq 1 .. Len(Published)
         /\ \A k \in 1 .. Len(Published) : Published[k].id \in Nat
         /\ \A k \in 1 .. Len(Published) :
              k \in Processors <=> IsCpu(Published[k])
<1>1. Published \in Seq(MadtShape)
  <2>1. CASE FindMadt(FirstRsdp) = 0
    BY <2>1, MadtFound
  <2>2. CASE FindMadt(FirstRsdp) # 0
    BY <2>2, MadtFound, MadtsAre
  <2> QED
    BY <2>1, <2>2
<1>2. \A e \in MadtShape : e.id \in Nat
  BY DEF MadtShape
<1>3. /\ Len(Published) \in Nat /\ DOMAIN Published = 1 .. Len(Published)
      /\ \A k \in 1 .. Len(Published) : Published[k] \in MadtShape
  BY <1>1
<1> QED
  BY <1>1, <1>2, <1>3 DEF Processors, IsCpu

\* The places of the processors: they grow by one with every processor.
LEMMA PlaceFacts ==
  ASSUME MachineFits
  PROVE  /\ Before(1) = {} /\ Before(Len(Published) + 1) = Processors
         /\ IsFiniteSet(Processors) /\ Cardinality(Processors) \in Nat
         /\ \A m \in Nat : Before(m) \subseteq Processors
         /\ \A m \in Nat : Cardinality(Before(m)) \in Nat
         /\ \A m \in Nat : Cardinality(Before(m)) <= Cardinality(Processors)
         /\ \A m \in Nat : \A k \in Before(m) : Place(k) \in 1 .. Cardinality(Before(m))
         /\ \A m \in Nat \ Processors : Before(m + 1) = Before(m)
         /\ \A m \in Processors :
              /\ Place(m) = Cardinality(Before(m)) + 1
              /\ Cardinality(Before(m + 1)) = Cardinality(Before(m)) + 1
              /\ Before(m + 1) = Before(m) \cup {m}
<1>1. Processors \subseteq 1 .. Len(Published) /\ Len(Published) \in Nat
  BY PublishedIs
<1>0. /\ \A k \in Processors : k \in Nat /\ 1 <= k /\ k < Len(Published) + 1
      /\ \A k \in Nat, m \in Nat : k < m + 1 <=> k <= m
      /\ \A k \in Nat, m \in Nat : k < m + 1 <=> k < m \/ k = m
      /\ \A m \in Nat : ~(m < m)
  BY <1>1
<1>2. IsFiniteSet(Processors)
  <2>1. IsFiniteSet(1 .. Len(Published))
    BY <1>1, FS_Interval
  <2> QED
    BY <1>1, <2>1, FS_Subset
<1>3. \A T \in SUBSET Processors :
        /\ IsFiniteSet(T) /\ Cardinality(T) \in Nat
        /\ Cardinality(T) <= Cardinality(Processors)
  BY <1>2, FS_Subset, FS_CardinalityType
<1>4. ASSUME NEW m \in Processors
      PROVE  /\ Before(m + 1) = Before(m) \cup {m} /\ m \notin Before(m)
             /\ {k \in Processors : k <= m} = Before(m + 1)
             /\ Cardinality(Before(m + 1)) = Cardinality(Before(m)) + 1
  <2>1. /\ Before(m + 1) = Before(m) \cup {m} /\ m \notin Before(m)
        /\ {k \in Processors : k <= m} = Before(m + 1)
    BY <1>0 DEF Before
  <2>2. IsFiniteSet(Before(m))
    BY <1>3 DEF Before
  <2> QED
    BY <2>1, <2>2, FS_AddElement
<1>5. ASSUME NEW m \in Nat, NEW k \in Before(m)
      PROVE  Place(k) \in 1 .. Cardinality(Before(m))
  <2>1. k \in Processors /\ k \in Nat /\ k < m
    BY <1>1 DEF Before
  <2>2. Before(k + 1) \subseteq Before(m)
    <3>1. \A l \in Nat : l < k + 1 => l < m
      BY <2>1
    <3> QED
      BY <1>0, <3>1 DEF Before
  <2>3. IsFiniteSet(Before(m)) /\ Cardinality(Before(m)) \in Nat
        /\ Cardinality(Before(k)) \in Nat
    BY <1>3 DEF Before
  <2>4. Cardinality(Before(k + 1)) <= Cardinality(Before(m))
    BY <2>2, <2>3, FS_Subset
  <2>5. Place(k) = Cardinality(Before(k)) + 1
        /\ Place(k) = Cardinality(Before(k + 1))
    BY <1>4, <2>1 DEF Place
  <2> QED
    BY <2>3, <2>4, <2>5
<1>6. Before(1) = {} /\ Before(Len(Published) + 1) = Processors
  BY <1>0 DEF Before
<1>7. \A m \in Nat \ Processors : Before(m + 1) = Before(m)
  BY <1>0 DEF Before
<1>8. \A m \in Nat : /\ Before(m) \subseteq Processors /\ Cardinality(Before(m)) \in Nat
                     /\ Cardinality(Before(m)) <= Cardinality(Processors)
  BY <1>3 DEF Before
<1>9. \A m \in Processors : Place(m) = Cardinality(Before(m)) + 1
  BY <1>4 DEF Place
<1>10. Cardinality(Processors) \in Nat
  BY <1>3
<1> QED
  BY <1>2, <1>4, <1>5, <1>6, <1>7, <1>8, <1>9, <1>10

LEMMA WalkFields ==
  ASSUME walk \in WalkShape
  PROVE  /\ walk.pass \in {"none", "count", "fill", "done"} /\ walk.madt \in Nat
         /\ walk.ptr \in Nat /\ walk.count \in Nat /\ walk.cpus \in Seq(Nat)
  BY DEF WalkShape

\* Where the walk stands, and what is there.
LEMMA Standing ==
  ASSUME MachineFits, walk.madt \in DOMAIN acpi.madts, Published = Madt,
         NEW m \in 1 .. Len(Madt) + 1, walk.ptr = Begins[m]
  PROVE  /\ m \in Nat /\ Len(Madt) \in Nat /\ Begins[m] \in Nat
         /\ walk.ptr < MadtEnd <=> m # Len(Madt) + 1
         /\ m # Len(Madt) + 1 =>
              /\ Entry = Madt[m] /\ Entry \in MadtShape
              /\ m + 1 \in 1 .. Len(Madt) + 1
              /\ Begins[m + 1] = walk.ptr + Entry.length
              /\ IsCpu(Entry) <=> m \in Processors
<1>1. Madt \in Seq(MadtShape) /\ Len(Madt) \in Nat /\ DOMAIN Madt = 1 .. Len(Madt)
  <2>1. Madt \in Seq(MadtShape)
    BY MadtsAre DEF Madt
  <2> QED
    BY <2>1
<1>2. /\ Begins \in [1 .. Len(Madt) + 1 -> Nat]
      /\ \A k \in 1 .. Len(Madt) : Begins[k + 1] = Begins[k] + Madt[k].length
      /\ \A k, l \in 1 .. Len(Madt) + 1 : k < l => Begins[k] < Begins[l]
  BY <1>1, BeginsFacts
<1>3. walk.ptr < MadtEnd <=> m # Len(Madt) + 1
  <2>1. Len(Madt) + 1 \in 1 .. Len(Madt) + 1
    BY <1>1
  <2>2. MadtEnd = Begins[Len(Madt) + 1] /\ MadtEnd \in Nat
    BY <1>2, <2>1 DEF MadtEnd
  <2>3. m # Len(Madt) + 1 => m < Len(Madt) + 1
    BY <1>1
  <2> QED
    BY <1>2, <2>1, <2>2, <2>3
<1>4. ASSUME m # Len(Madt) + 1 PROVE Entry = Madt[m]
  <2>1. m \in 1 .. Len(Madt)
    BY <1>1, <1>4
  <2>2. \A k \in 1 .. Len(Madt) : Begins[k] = walk.ptr => k = m
    <3> SUFFICES ASSUME NEW k \in 1 .. Len(Madt), Begins[k] = Begins[m] PROVE k = m
      OBVIOUS
    <3>1. k \in 1 .. Len(Madt) + 1 /\ (k < m \/ k = m \/ m < k)
      BY <1>1, <2>1
    <3>2. Begins[k] \in Nat /\ Begins[m] \in Nat
      BY <1>2, <3>1
    <3> QED
      BY <1>2, <3>1, <3>2
  <2>3. (CHOOSE k \in DOMAIN Madt : Begins[k] = walk.ptr) = m
    BY <1>1, <2>1, <2>2
  <2> QED
    BY <2>3 DEF Entry
<1>5. ASSUME m # Len(Madt) + 1
      PROVE  /\ Entry \in MadtShape /\ m + 1 \in 1 .. Len(Madt) + 1
             /\ Begins[m + 1] = walk.ptr + Entry.length
             /\ IsCpu(Entry) <=> m \in Processors
  <2>1. m \in 1 .. Len(Madt) /\ Madt[m] \in MadtShape
    BY <1>1, <1>5
  <2>2. m + 1 \in 1 .. Len(Madt) + 1
    BY <1>1, <2>1
  <2> QED
    BY <1>2, <1>4, <1>5, <2>1, <2>2, PublishedIs
<1>6. m \in Nat /\ Begins[m] \in Nat
  BY <1>1, <1>2
<1> QED
  BY <1>1, <1>3, <1>4, <1>5, <1>6

\* The firmware's tables stay what they are.
LEMMA TablesStay ==
  ASSUME acpi' = acpi
  PROVE  Published' = Published /\ Processors' = Processors /\ FirstRsdp' = FirstRsdp
<1>1. Published' = Published
  BY DEF Published, First, Signed, MadtsIn
<1>2. Processors' = Processors
  BY <1>1 DEF Processors
<1>3. FirstRsdp' = FirstRsdp
  BY DEF FirstRsdp, First, Signed
<1> QED
  BY <1>1, <1>2, <1>3

LEMMA MadtStays ==
  ASSUME acpi' = acpi, walk'.madt = walk.madt
  PROVE  Madt' = Madt /\ Begins' = Begins
<1>1. Madt' = Madt
  BY DEF Madt
<1> QED
  BY <1>1 DEF Begins

\* One turn of the first loop.
LEMMA CountStep ==
  ASSUME DiscoveryInv, CountEntry
  PROVE  DiscoveryInv'
<1>1. /\ MachineFits /\ walk \in WalkShape /\ walk.pass = "count"
      /\ walk.madt \in DOMAIN acpi.madts /\ Published = Madt
      /\ UNCHANGED <<acpi, g_rsdp>> /\ walk.ptr < MadtEnd
  BY DEF DiscoveryInv, CountEntry
<1>2. PICK m \in 1 .. Len(Madt) + 1 : StandsAt(m)
  BY <1>1 DEF DiscoveryInv
<1>3. /\ m \in Nat /\ m + 1 \in 1 .. Len(Madt) + 1 /\ Entry \in MadtShape
      /\ Begins[m + 1] = walk.ptr + Entry.length
      /\ IsCpu(Entry) <=> m \in Processors
  BY <1>1, <1>2, Standing DEF StandsAt
<1>4. /\ walk' \in WalkShape /\ walk'.pass = "count" /\ walk'.madt = walk.madt
      /\ walk'.ptr = walk.ptr + Entry.length /\ walk'.cpus = walk.cpus
      /\ walk'.count = IF IsCpu(Entry) THEN walk.count + 1 ELSE walk.count
  <2> DEFINE e == Entry.length
             c == IF IsCpu(Entry) THEN walk.count + 1 ELSE walk.count
             to == walk.ptr + e
  <2>1. to \in Nat /\ c \in Nat
    BY SMTT(30), <1>1, <1>3, WalkFields DEF MadtShape
  <2>2. walk' = [walk EXCEPT !.count = c, !.ptr = to]
    BY DEF CountEntry
  <2> HIDE DEF e, c, to
  <2>3. walk' \in WalkShape /\ walk'.pass = walk.pass /\ walk'.madt = walk.madt
        /\ walk'.ptr = to /\ walk'.cpus = walk.cpus /\ walk'.count = c
    BY <1>1, <2>1, <2>2 DEF WalkShape
  <2> QED
    BY <1>1, <2>3 DEF e, c, to
<1>5. Published' = Published /\ Processors' = Processors /\ Madt' = Madt
      /\ Begins' = Begins /\ FirstRsdp' = FirstRsdp
  BY <1>1, <1>4, TablesStay, MadtStays
<1>6. walk'.count = Cardinality(Before(m + 1)) /\ walk'.cpus = <<>>
  <2>1. walk.count = Cardinality(Before(m)) /\ walk.cpus = <<>>
    BY <1>1, <1>2 DEF StandsAt
  <2>2. CASE IsCpu(Entry)
    BY <1>1, <1>3, <1>4, <2>1, <2>2, PlaceFacts
  <2>3. CASE ~IsCpu(Entry)
    BY <1>1, <1>3, <1>4, <2>1, <2>3, PlaceFacts
  <2> QED
    BY <2>2, <2>3
<1>7. StandsAt(m + 1)'
  BY <1>3, <1>4, <1>5, <1>6 DEF StandsAt, Before
<1> QED
  BY <1>1, <1>3, <1>4, <1>5, <1>7 DEF DiscoveryInv, MachineFits, ProcessorsFound

\* The first loop ends: every processor was counted.
LEMMA EndCountStep ==
  ASSUME DiscoveryInv, EndCount
  PROVE  DiscoveryInv'
<1>1. /\ MachineFits /\ walk \in WalkShape /\ walk.pass = "count"
      /\ walk.madt \in DOMAIN acpi.madts /\ Published = Madt
      /\ UNCHANGED <<acpi, g_rsdp>> /\ walk.ptr >= MadtEnd
  BY DEF DiscoveryInv, EndCount
<1>2. PICK m \in 1 .. Len(Madt) + 1 : StandsAt(m)
  BY <1>1 DEF DiscoveryInv
<1>3. m = Len(Madt) + 1 /\ Len(Madt) \in Nat
  <2>1. /\ walk.ptr = Begins[m] /\ Len(Madt) \in Nat /\ Begins[m] \in Nat
        /\ walk.ptr < MadtEnd <=> m # Len(Madt) + 1
    BY <1>1, <1>2, Standing DEF StandsAt
  <2>2. Madt \in Seq(MadtShape)
    BY <1>1, MadtsAre DEF Madt
  <2>3. MadtEnd \in Nat
    <3>1. Len(Madt) + 1 \in 1 .. Len(Madt) + 1
      BY <2>1
    <3> QED
      BY <2>2, <3>1, BeginsFacts DEF MadtEnd
  <2>4. ~(walk.ptr < MadtEnd)
    BY <1>1, <2>1, <2>3
  <2> QED
    BY <2>1, <2>4
<1>4. walk.count = Cardinality(Processors) /\ walk.cpus = <<>>
  BY <1>1, <1>2, <1>3, PlaceFacts DEF StandsAt
<1>5. /\ walk' \in WalkShape /\ walk'.madt = walk.madt /\ walk'.ptr = MadtHeader
      /\ walk'.cpus = walk.cpus /\ walk'.count = walk.count
      /\ walk'.pass = IF walk.count = 0 THEN "done" ELSE "fill"
  BY <1>1 DEF EndCount, WalkShape, MadtHeader
<1>6. Published' = Published /\ Processors' = Processors /\ Madt' = Madt
      /\ Begins' = Begins /\ FirstRsdp' = FirstRsdp
  BY <1>1, <1>5, TablesStay, MadtStays
<1>7. CASE walk.count = 0
  <2>1. Processors = {}
    BY <1>1, <1>4, <1>7, PlaceFacts, FS_EmptySet
  <2>2. ProcessorsFound'
    BY <1>4, <1>5, <1>6, <1>7, <2>1 DEF ProcessorsFound
  <2> QED
    BY <1>1, <1>5, <1>6, <1>7, <2>2 DEF DiscoveryInv, MachineFits
<1>8. CASE walk.count # 0
  <2>1. 1 \in 1 .. Len(Madt) + 1 /\ Begins[1] = MadtHeader
    <3>1. Madt \in Seq(MadtShape)
      BY <1>1, MadtsAre DEF Madt
    <3> QED
      BY <1>3, <3>1, BeginsFacts
  <2>2. Before(1) = {} /\ Cardinality({}) = 0
    BY <1>1, PlaceFacts, FS_EmptySet
  <2>3. Before(1)' = {}
    BY <1>6, <2>2 DEF Before
  <2>4. StandsAt(1)'
    <3>1. walk'.pass = "fill" /\ Len(walk'.cpus) = 0
      BY <1>4, <1>5, <1>8
    <3>2. Cardinality(Before(1)') = 0 /\ Cardinality(Processors') = walk'.count
      BY <1>4, <1>5, <1>6, <2>2, <2>3
    <3> QED
      BY <1>5, <1>6, <2>1, <2>3, <3>1, <3>2 DEF StandsAt
  <2> QED
    BY <1>1, <1>5, <1>6, <1>8, <2>1, <2>4 DEF DiscoveryInv, MachineFits, ProcessorsFound
<1> QED
  BY <1>7, <1>8

\* One turn of the second loop.
LEMMA FillStep ==
  ASSUME DiscoveryInv, FillEntry
  PROVE  DiscoveryInv'
<1>1. /\ MachineFits /\ walk \in WalkShape /\ walk.pass = "fill"
      /\ walk.madt \in DOMAIN acpi.madts /\ Published = Madt
      /\ UNCHANGED <<acpi, g_rsdp>> /\ walk.ptr < MadtEnd
  BY DEF DiscoveryInv, FillEntry, Filling
<1>2. PICK m \in 1 .. Len(Madt) + 1 : StandsAt(m)
  BY <1>1 DEF DiscoveryInv
<1>3. /\ m \in Nat /\ m + 1 \in 1 .. Len(Madt) + 1 /\ Entry \in MadtShape
      /\ Begins[m + 1] = walk.ptr + Entry.length
      /\ IsCpu(Entry) <=> m \in Processors
      /\ Entry = Published[m]
  BY <1>1, <1>2, Standing DEF StandsAt
<1> DEFINE c == IF IsCpu(Entry) THEN Append(walk.cpus, Entry.id) ELSE walk.cpus
<1>4. /\ walk' \in WalkShape /\ walk'.pass = "fill" /\ walk'.madt = walk.madt
      /\ walk'.ptr = walk.ptr + Entry.length /\ walk'.count = walk.count
      /\ walk'.cpus = c
  <2> DEFINE e == Entry.length
             to == walk.ptr + e
  <2>1. to \in Nat /\ c \in Seq(Nat)
    <3>1. Entry.id \in Nat /\ e \in Nat /\ walk.ptr \in Nat /\ walk.cpus \in Seq(Nat)
      BY <1>1, <1>3, WalkFields DEF MadtShape
    <3> HIDE DEF e
    <3> QED
      BY <3>1
  <2>2. walk' = [walk EXCEPT !.cpus = c, !.ptr = to]
    BY DEF FillEntry
  <2> HIDE DEF e, c, to
  <2>3. walk' \in WalkShape /\ walk'.pass = walk.pass /\ walk'.madt = walk.madt
        /\ walk'.ptr = to /\ walk'.cpus = c /\ walk'.count = walk.count
    BY <1>1, <2>1, <2>2 DEF WalkShape
  <2> QED
    BY <1>1, <2>3 DEF e, to
<1>5. Published' = Published /\ Processors' = Processors /\ Madt' = Madt
      /\ Begins' = Begins /\ FirstRsdp' = FirstRsdp
  BY <1>1, <1>4, TablesStay, MadtStays
<1>6. /\ walk.count = Cardinality(Processors)
      /\ Len(walk.cpus) = Cardinality(Before(m)) /\ walk.cpus \in Seq(Nat)
      /\ \A k \in Before(m) : walk.cpus[Place(k)] = Published[k].id
      /\ Entry.id \in Nat
  BY <1>1, <1>2, <1>3, WalkFields DEF StandsAt, MadtShape
<1>7. /\ Len(c) = Cardinality(Before(m + 1))
      /\ \A k \in Before(m + 1) : c[Place(k)] = Published[k].id
  <2>1. CASE IsCpu(Entry)
    <3>1. /\ Place(m) = Cardinality(Before(m)) + 1
          /\ Cardinality(Before(m + 1)) = Cardinality(Before(m)) + 1
          /\ Before(m + 1) = Before(m) \cup {m}
      BY <1>1, <1>3, <2>1, PlaceFacts
    <3>2. /\ Len(c) = Len(walk.cpus) + 1 /\ c[Len(walk.cpus) + 1] = Published[m].id
          /\ \A r \in 1 .. Len(walk.cpus) : c[r] = walk.cpus[r]
      <4> DEFINE id == Entry.id
                 q == walk.cpus
      <4>1. c = Append(q, id) /\ id \in Nat /\ q \in Seq(Nat) /\ id = Published[m].id
        BY <1>3, <1>6, <2>1
      <4> HIDE DEF c, id, q
      <4>2. /\ Len(c) = Len(q) + 1 /\ c[Len(q) + 1] = id
            /\ \A r \in 1 .. Len(q) : c[r] = q[r]
        BY <4>1
      <4> QED
        BY <4>1, <4>2 DEF q
    <3>3. \A k \in Before(m) : Place(k) \in 1 .. Len(walk.cpus)
      BY <1>1, <1>3, <1>6, PlaceFacts
    <3> HIDE DEF c
    <3>4. ASSUME NEW k \in Before(m + 1) PROVE c[Place(k)] = Published[k].id
      <4>1. CASE k = m
        BY <1>6, <3>1, <3>2, <4>1
      <4>2. CASE k \in Before(m)
        BY <1>6, <3>2, <3>3, <4>2
      <4> QED
        BY <3>1, <3>4, <4>1, <4>2
    <3> QED
      BY <1>6, <3>1, <3>2, <3>4
  <2>2. CASE ~IsCpu(Entry)
    <3>1. Before(m + 1) = Before(m) /\ c = walk.cpus
      BY <1>1, <1>3, <2>2, PlaceFacts
    <3> HIDE DEF c
    <3> QED
      BY <1>6, <3>1
  <2> QED
    BY <2>1, <2>2
<1> HIDE DEF c
<1>8. StandsAt(m + 1)'
  BY <1>3, <1>4, <1>5, <1>6, <1>7 DEF StandsAt, Before, Place
<1> QED
  BY <1>1, <1>3, <1>4, <1>5, <1>8 DEF DiscoveryInv, MachineFits, ProcessorsFound

\* The second loop ends, with the table or with the last processor.
LEMMA EndFillStep ==
  ASSUME DiscoveryInv, EndFill
  PROVE  DiscoveryInv'
<1>1. /\ MachineFits /\ walk \in WalkShape /\ walk.pass = "fill"
      /\ walk.madt \in DOMAIN acpi.madts /\ Published = Madt
      /\ UNCHANGED <<acpi, g_rsdp>> /\ ~Filling
  BY DEF DiscoveryInv, EndFill
<1>2. PICK m \in 1 .. Len(Madt) + 1 : StandsAt(m)
  BY <1>1 DEF DiscoveryInv
<1>3. /\ walk.count = Cardinality(Processors)
      /\ Len(walk.cpus) = Cardinality(Before(m))
      /\ \A k \in Before(m) : walk.cpus[Place(k)] = Published[k].id
      /\ walk.ptr = Begins[m]
  BY <1>1, <1>2 DEF StandsAt
<1>4. /\ m \in Nat /\ (walk.ptr < MadtEnd <=> m # Len(Madt) + 1)
  BY <1>1, <1>3, Standing
<1>5. Before(m) = Processors
  <2>1. CASE m = Len(Madt) + 1
    BY <1>1, <2>1, PlaceFacts
  <2>2. CASE m # Len(Madt) + 1
    <3>1. ~(Cardinality(Before(m)) < Cardinality(Processors))
      BY <1>1, <1>3, <1>4, <2>2 DEF Filling
    <3>2. /\ Before(m) \subseteq Processors /\ Cardinality(Before(m)) \in Nat
          /\ IsFiniteSet(Processors) /\ Cardinality(Processors) \in Nat
          /\ Cardinality(Before(m)) <= Cardinality(Processors)
      BY <1>1, <1>4, PlaceFacts
    <3>3. Cardinality(Before(m)) = Cardinality(Processors)
      BY <3>1, <3>2
    <3> QED
      BY <3>2, <3>3, FS_Subset
  <2> QED
    BY <2>1, <2>2
<1>6. /\ walk' \in WalkShape /\ walk'.pass = "done"
      /\ walk'.cpus = walk.cpus /\ walk'.count = walk.count
  BY <1>1 DEF EndFill, WalkShape
<1>7. Published' = Published /\ Processors' = Processors /\ FirstRsdp' = FirstRsdp
  BY <1>1, TablesStay
<1>8. ProcessorsFound'
  BY <1>3, <1>5, <1>6, <1>7 DEF ProcessorsFound, Place
<1> QED
  BY <1>1, <1>6, <1>7, <1>8 DEF DiscoveryInv, MachineFits

\* The walk begins at the first entry of the published MADT, or there is none.
LEMMA StartStep ==
  ASSUME DiscoveryInv, StartWalk
  PROVE  DiscoveryInv'
<1>1. /\ MachineFits /\ acpi' = acpi /\ g_rsdp' = Rsdp
      /\ g_rsdp # 0 => g_rsdp = FirstRsdp
  BY DEF DiscoveryInv, StartWalk
<1>2. Rsdp = FirstRsdp
  <2>1. CASE g_rsdp # 0
    BY <1>1, <2>1 DEF Rsdp
  <2>2. CASE g_rsdp = 0
    <3>1. Len(acpi.paragraphs) \in Nat /\ DOMAIN acpi.paragraphs = 1 .. Len(acpi.paragraphs)
      <4>1. acpi.paragraphs \in Seq([signature : BOOLEAN, revision : Nat, xsdt : Nat, rsdt : Nat])
        BY <1>1, AcpiAssumption DEF MachineFits, MachineShape
      <4> QED
        BY <4>1
    <3> DEFINE I == {k \in 1 .. Len(acpi.paragraphs) : acpi.paragraphs[k].signature}
    <3>2. Rsdp = IF I # {} THEN Min(I) ELSE 0
      BY <2>2 DEF Rsdp, SelectInSeq
    <3>3. I = Signed /\ Signed \in SUBSET Nat
      BY <3>1 DEF Signed
    <3> HIDE DEF I
    <3> QED
      BY <3>2, <3>3, FirstFacts DEF FirstRsdp
  <2> QED
    BY <2>1, <2>2
<1> DEFINE found == FindMadt(FirstRsdp)
<1>3. /\ walk' = [NoWalk EXCEPT !.madt = found, !.ptr = MadtHeader,
                                !.pass = IF found = 0 THEN "done" ELSE "count"]
      /\ g_rsdp' = FirstRsdp
  BY <1>1, <1>2 DEF StartWalk
<1>4. /\ found = 0 => Published = <<>>
      /\ found # 0 => found \in DOMAIN acpi.madts /\ Published = acpi.madts[found]
  BY <1>1, MadtFound
<1>5. found \in Nat
  BY <1>1, MadtFound
<1>6. Published' = Published /\ Processors' = Processors /\ FirstRsdp' = FirstRsdp
  BY <1>1, TablesStay
<1> HIDE DEF found
<1>7. /\ walk' \in WalkShape /\ walk'.madt = found /\ walk'.ptr = MadtHeader
      /\ walk'.count = 0 /\ walk'.cpus = <<>>
      /\ walk'.pass = IF found = 0 THEN "done" ELSE "count"
  <2> DEFINE p == IF found = 0 THEN "done" ELSE "count"
  <2>1. p \in {"done", "count"}
    OBVIOUS
  <2>2. walk' = [pass |-> p, madt |-> found, ptr |-> MadtHeader, count |-> 0, cpus |-> <<>>]
    BY <1>3 DEF NoWalk
  <2> HIDE DEF p
  <2> QED
    BY <1>5, <2>1, <2>2 DEF WalkShape, MadtHeader, p
<1>8. CASE found = 0
  <2>1. Processors = {} /\ Cardinality({}) = 0
    BY <1>4, <1>8, FS_EmptySet DEF Processors
  <2>2. ProcessorsFound'
    BY <1>6, <1>7, <2>1 DEF ProcessorsFound
  <2> QED
    BY <1>1, <1>3, <1>6, <1>7, <1>8, <2>2 DEF DiscoveryInv, MachineFits
<1>9. CASE found # 0
  <2>1. Madt' = acpi.madts[found] /\ Madt' \in Seq(MadtShape)
    BY <1>1, <1>4, <1>7, <1>9, MadtsAre DEF Madt
  <2>2. 1 \in 1 .. Len(Madt') + 1 /\ Begins'[1] = MadtHeader
    <3>1. Begins'[1] = MadtHeader
      BY <2>1, BeginsStarts, StartsFacts
    <3>2. Len(Madt') \in Nat
      BY <2>1
    <3> QED
      BY <3>1, <3>2
  <2>3. Before(1) = {} /\ Cardinality({}) = 0
    BY <1>1, PlaceFacts, FS_EmptySet
  <2>4. Before(1)' = {}
    BY <1>6, <2>3 DEF Before
  <2>5. StandsAt(1)'
    BY <1>7, <1>9, <2>2, <2>3, <2>4 DEF StandsAt
  <2> QED
    BY <1>1, <1>3, <1>4, <1>6, <1>7, <1>9, <2>1, <2>2, <2>5
    DEF DiscoveryInv, MachineFits, ProcessorsFound
<1> QED
  BY <1>8, <1>9

\* A step of the machine is one of the search or leaves it alone.
LEMMA InitDiscovery == Init => DiscoveryInv
<1> SUFFICES ASSUME Init PROVE DiscoveryInv
  OBVIOUS
<1>1. PICK b \in Boots : acpi = b.acpi
  BY DEF Init
<1>2. MachineFits
  BY <1>1, KernelAssumption DEF MachineFits
<1>3. g_rsdp = 0 /\ walk = NoWalk
  BY DEF Init, AcpiInit
<1> QED
  BY <1>2, <1>3 DEF DiscoveryInv, WalkShape, NoWalk, ProcessorsFound

LEMMA NextDiscovery == DiscoveryInv /\ [Next]_vars => DiscoveryInv'
<1> SUFFICES ASSUME DiscoveryInv, [Next]_vars PROVE DiscoveryInv'
  OBVIOUS
<1>1. \/ UNCHANGED discovery \/ StartWalk \/ WalkMadt
  BY DEF Next, SetUpPaging, StoreMap, StoreBootInfo, Answer, AnswerKernelFile,
         BeginSmp, Discover, FinishSmp, EnterKernel, Draw, ReportMap,
         ReportHhdm, ReportMode, Done, vars, discovery
<1>2. CASE UNCHANGED discovery
  <2>1. acpi' = acpi /\ g_rsdp' = g_rsdp /\ walk' = walk
    BY <1>2 DEF discovery
  <2>2. /\ Published' = Published /\ Processors' = Processors /\ FirstRsdp' = FirstRsdp
        /\ Madt' = Madt /\ Begins' = Begins
    BY <2>1, TablesStay, MadtStays
  <2>3. \A m : StandsAt(m) => StandsAt(m)'
    BY <2>1, <2>2 DEF StandsAt, Before, Place
  <2> QED
    BY <2>1, <2>2, <2>3 DEF DiscoveryInv, MachineFits, ProcessorsFound
<1>3. CASE WalkMadt
  BY <1>3, CountStep, EndCountStep, FillStep, EndFillStep DEF WalkMadt
<1> QED
  BY <1>1, <1>2, <1>3, StartStep

\* For every machine: the processors that the kernel is told of are those that
\* the firmware published, each once and in its order.
THEOREM AllProcessorsFound == Spec => []ProcessorsFound
<1>1. DiscoveryInv => ProcessorsFound
  BY DEF DiscoveryInv
<1> QED
  BY <1>1, InitDiscovery, NextDiscovery, PTL DEF Spec

-----------------------------------------------------------------------------
(* The layout of structures, for both ABIs *)

Abis == {"i386", "x86_64"}
Structures ==
  {FbResponse, MmapResponse, SmpResponse, ExecutableResponse, ValueResponse,
   MmapEntry, SmpInfo, BootInfo}
WordAligned == {m \in Nat : m % 4 = 0}

LEMMA TypeSizes ==
  ASSUME NEW abi \in Abis, NEW type \in {"u32", "u64", "ptr"}
  PROVE  /\ Width(abi, type) \in {4, 8} /\ Alignment(abi, type) \in {4, 8}
         /\ Alignment("i386", type) = 4
         /\ type # "ptr" => Width("i386", type) = Width("x86_64", type)
  BY DEF Abis, Width, Alignment

\* The types of the fields.
LEMMA TheTypes ==
  /\ Len(FbResponse) = 5 /\ DOMAIN FbResponse = 1 .. 5
  /\ \A k \in {1} : FbResponse[k].type = "u64"
  /\ \A k \in {2, 3, 4, 5} : FbResponse[k].type = "u32"
  /\ Len(MmapResponse) = 2 /\ DOMAIN MmapResponse = 1 .. 2
  /\ \A k \in {1} : MmapResponse[k].type = "u64"
  /\ \A k \in {2} : MmapResponse[k].type = "ptr"
  /\ Len(SmpResponse) = 3 /\ DOMAIN SmpResponse = 1 .. 3
  /\ \A k \in {1} : SmpResponse[k].type = "u64"
  /\ \A k \in {2} : SmpResponse[k].type = "u32"
  /\ \A k \in {3} : SmpResponse[k].type = "ptr"
  /\ Len(ExecutableResponse) = 2 /\ DOMAIN ExecutableResponse = 1 .. 2
  /\ \A k \in {1, 2} : ExecutableResponse[k].type = "u64"
  /\ Len(ValueResponse) = 1 /\ DOMAIN ValueResponse = 1 .. 1
  /\ \A k \in {1} : ValueResponse[k].type = "u64"
  /\ Len(MmapEntry) = 4 /\ DOMAIN MmapEntry = 1 .. 4
  /\ \A k \in {1, 2, 4} : MmapEntry[k].type = "u64"
  /\ \A k \in {3} : MmapEntry[k].type = "u32"
  /\ Len(SmpInfo) = 5 /\ DOMAIN SmpInfo = 1 .. 5
  /\ \A k \in {1, 2} : SmpInfo[k].type = "u32"
  /\ \A k \in {3, 4, 5} : SmpInfo[k].type = "u64"
  /\ Len(BootInfo) = 11 /\ DOMAIN BootInfo = 1 .. 11
  /\ \A k \in {1, 2, 4, 5, 6, 7, 8, 11} : BootInfo[k].type = "u32"
  /\ \A k \in {3, 9, 10} : BootInfo[k].type = "u64"
<1>1. /\ Len(FbResponse) = 5 /\ DOMAIN FbResponse = 1 .. 5
      /\ \A k \in {1} : FbResponse[k].type = "u64"
      /\ \A k \in {2, 3, 4, 5} : FbResponse[k].type = "u32"
  BY DEF FbResponse, Field
<1>2. /\ Len(MmapResponse) = 2 /\ DOMAIN MmapResponse = 1 .. 2
      /\ \A k \in {1} : MmapResponse[k].type = "u64"
      /\ \A k \in {2} : MmapResponse[k].type = "ptr"
  BY DEF MmapResponse, Field
<1>3. /\ Len(SmpResponse) = 3 /\ DOMAIN SmpResponse = 1 .. 3
      /\ \A k \in {1} : SmpResponse[k].type = "u64"
      /\ \A k \in {2} : SmpResponse[k].type = "u32"
      /\ \A k \in {3} : SmpResponse[k].type = "ptr"
  BY DEF SmpResponse, Field
<1>4. /\ Len(ExecutableResponse) = 2 /\ DOMAIN ExecutableResponse = 1 .. 2
      /\ \A k \in {1, 2} : ExecutableResponse[k].type = "u64"
  BY DEF ExecutableResponse, Field
<1>5. /\ Len(ValueResponse) = 1 /\ DOMAIN ValueResponse = 1 .. 1
      /\ \A k \in {1} : ValueResponse[k].type = "u64"
  BY DEF ValueResponse, Field
<1>6. /\ Len(MmapEntry) = 4 /\ DOMAIN MmapEntry = 1 .. 4
      /\ \A k \in {1, 2, 4} : MmapEntry[k].type = "u64"
      /\ \A k \in {3} : MmapEntry[k].type = "u32"
  BY DEF MmapEntry, Field
<1>7. /\ Len(SmpInfo) = 5 /\ DOMAIN SmpInfo = 1 .. 5
      /\ \A k \in {1, 2} : SmpInfo[k].type = "u32"
      /\ \A k \in {3, 4, 5} : SmpInfo[k].type = "u64"
  BY DEF SmpInfo, Field
<1>8. /\ Len(BootInfo) = 11 /\ DOMAIN BootInfo = 1 .. 11
      /\ \A k \in {1, 2, 4, 5, 6, 7, 8, 11} : BootInfo[k].type = "u32"
      /\ \A k \in {3, 9, 10} : BootInfo[k].type = "u64"
  BY DEF BootInfo, Framebuffer, Field
<1> QED
  BY <1>1, <1>2, <1>3, <1>4, <1>5, <1>6, <1>7, <1>8

LEMMA FieldTypes ==
  ASSUME NEW struct \in Structures
  PROVE  /\ Len(struct) \in Nat \ {0} /\ DOMAIN struct = 1 .. Len(struct)
         /\ \A k \in DOMAIN struct : struct[k].type \in {"u32", "u64", "ptr"}
<1>1. CASE struct = FbResponse
  BY <1>1, TheTypes
<1>2. CASE struct = MmapResponse
  BY <1>2, TheTypes
<1>3. CASE struct = SmpResponse
  BY <1>3, TheTypes
<1>4. CASE struct = ExecutableResponse
  BY <1>4, TheTypes
<1>5. CASE struct = ValueResponse
  BY <1>5, TheTypes
<1>6. CASE struct = MmapEntry
  BY <1>6, TheTypes
<1>7. CASE struct = SmpInfo
  BY <1>7, TheTypes
<1>8. CASE struct = BootInfo
  BY <1>8, TheTypes
<1> QED
  BY <1>1, <1>2, <1>3, <1>4, <1>5, <1>6, <1>7, <1>8 DEF Structures

LEMMA AlignedFacts ==
  ASSUME NEW m \in WordAligned, NEW to \in {4, 8}
  PROVE  /\ Aligned(m, to) \in WordAligned
         /\ m <= Aligned(m, to) /\ Aligned(m, to) <= m + 4
         /\ to = 4 => Aligned(m, to) = m
         /\ m % 8 = 0 => Aligned(m, to) = m
<1>1. m \in Nat /\ m % 4 = 0
  BY DEF WordAligned
<1>2. CASE to = 4
  BY <1>1, <1>2 DEF WordAligned, Aligned
<1>3. CASE to = 8
  BY <1>1, <1>3 DEF WordAligned, Aligned
<1> QED
  BY <1>2, <1>3

\* Where field k begins that follows one which ends at m, and where it ends.
Begin(abi, struct, m, k) == Aligned(m, Alignment(abi, struct[k].type))
End(abi, struct, m, k) == Begin(abi, struct, m, k) + Width(abi, struct[k].type)

LEMMA EndFacts ==
  ASSUME NEW abi \in Abis, NEW struct \in Structures,
         NEW k \in 1 .. Len(struct), NEW m \in WordAligned
  PROVE  /\ Begin(abi, struct, m, k) \in WordAligned /\ m <= Begin(abi, struct, m, k)
         /\ End(abi, struct, m, k) \in WordAligned
         /\ End(abi, struct, m, k) <= m + 12
         /\ Width(abi, struct[k].type) \in {4, 8}
<1>1. struct[k].type \in {"u32", "u64", "ptr"}
  BY FieldTypes
<1> DEFINE w == Width(abi, struct[k].type)
           b == Begin(abi, struct, m, k)
<1>2. w \in {4, 8} /\ Alignment(abi, struct[k].type) \in {4, 8}
  BY <1>1, TypeSizes
<1>3. b \in WordAligned /\ m <= b /\ b <= m + 4
  BY <1>2, AlignedFacts DEF Begin
<1>4. End(abi, struct, m, k) = b + w
  BY DEF End
<1> HIDE DEF w, b
<1>5. b + w \in WordAligned /\ b + w <= m + 12
  BY <1>2, <1>3 DEF WordAligned
<1> QED
  BY <1>2, <1>3, <1>4, <1>5 DEF w, b

\* Ends is defined by recursion: there is such a function.
Follows(f, abi, struct, last) ==
  /\ f \in [0 .. last -> WordAligned] /\ f[0] = 0
  /\ \A k \in 1 .. last : f[k] = End(abi, struct, f[k - 1], k)

LEMMA EndsExist ==
  ASSUME NEW abi \in Abis, NEW struct \in Structures
  PROVE  \E f : Follows(f, abi, struct, Len(struct))
<1> DEFINE last == Len(struct)
           Bad == {m \in 0 .. last : ~\E f : Follows(f, abi, struct, m)}
<1>0. last \in Nat
  BY FieldTypes
<1>1. CASE Bad = {}
  <2>1. last \in 0 .. last
    BY <1>0
  <2>2. last \notin Bad
    BY <1>1
  <2> QED
    BY <2>1, <2>2, Zenon
<1>2. CASE Bad # {}
  <2>0. Bad \in SUBSET Nat
    BY <1>0
  <2>1. PICK m \in Bad : \A k \in Bad : m <= k
    <3> HIDE DEF Bad
    <3> QED
      BY <1>2, <2>0, Least
  <2>2. CASE m = 0
    <3>1. 0 \in WordAligned
      BY DEF WordAligned
    <3>2. Follows([k \in 0 .. 0 |-> 0], abi, struct, 0)
      BY <3>1 DEF Follows
    <3> QED
      BY <2>1, <2>2, <3>2
  <2>3. CASE m # 0
    <3>1. m \in 1 .. last /\ m - 1 \in 0 .. last /\ m - 1 \notin Bad
      BY <1>0, <2>1, <2>3
    <3>2. PICK f : Follows(f, abi, struct, m - 1)
      BY <3>1
    <3> DEFINE new == End(abi, struct, f[m - 1], m)
               g == [k \in 0 .. m |-> IF k < m THEN f[k] ELSE new]
    <3>3. /\ f \in [0 .. m - 1 -> WordAligned] /\ f[0] = 0
          /\ \A k \in 1 .. m - 1 : f[k] = End(abi, struct, f[k - 1], k)
      BY <3>2 DEF Follows
    <3>4. m - 1 \in 0 .. m - 1 /\ f[m - 1] \in WordAligned
      BY <3>1, <3>3
    <3>5. new \in WordAligned
      BY <3>1, <3>4, EndFacts
    <3>6. g \in [0 .. m -> WordAligned] /\ g[0] = 0
      <4> HIDE DEF new
      <4> QED
        BY <3>1, <3>3, <3>5
    <3>7. \A k \in 1 .. m : g[k] = End(abi, struct, g[k - 1], k)
      <4> TAKE k \in 1 .. m
      <4>1. k - 1 \in 0 .. m /\ k - 1 < m /\ g[k - 1] = f[k - 1]
        BY <3>1
      <4>2. CASE k = m
        <5>1. g[k] = new
          BY <3>1, <4>2
        <5> QED
          BY <4>1, <4>2, <5>1
      <4>3. CASE k # m
        <5>1. k \in 1 .. m - 1 /\ g[k] = f[k]
          BY <3>1, <4>3
        <5> QED
          BY <3>3, <4>1, <5>1
      <4> QED
        BY <4>2, <4>3
    <3>8. Follows(g, abi, struct, m)
      <4> HIDE DEF g
      <4> QED
        BY <3>6, <3>7 DEF Follows
    <3> QED
      BY <2>1, <3>8
  <2> QED
    BY <2>2, <2>3
<1> QED
  BY <1>1, <1>2

LEMMA EndsAre ==
  ASSUME NEW abi \in Abis, NEW struct \in Structures
  PROVE  /\ Len(struct) \in Nat \ {0} /\ Ends(abi, struct)[0] = 0
         /\ \A k \in 1 .. Len(struct) :
              Ends(abi, struct)[k] = End(abi, struct, Ends(abi, struct)[k - 1], k)
         /\ \A k \in 0 .. Len(struct) : Ends(abi, struct)[k] \in WordAligned
<1> DEFINE last == Len(struct)
           Rec(f) == f = [k \in 0 .. last |->
                            IF k = 0 THEN 0 ELSE End(abi, struct, f[k - 1], k)]
<1>1. last \in Nat \ {0}
  BY FieldTypes
<1>2. Ends(abi, struct) = CHOOSE f : Rec(f)
  BY DEF Ends, Begin, End
<1>3. PICK f : Follows(f, abi, struct, last)
  BY EndsExist
<1>4. Rec(f)
  <2>1. /\ f \in [0 .. last -> WordAligned] /\ f[0] = 0
        /\ \A k \in 1 .. last : f[k] = End(abi, struct, f[k - 1], k)
    BY <1>3 DEF Follows
  <2> HIDE DEF last
  <2> QED
    BY <1>1, <2>1
<1>5. Rec(Ends(abi, struct))
  <2> HIDE DEF Rec
  <2> QED
    BY <1>2, <1>4
<1> DEFINE e == Ends(abi, struct)
<1> HIDE DEF e
<1>6. e = [k \in 0 .. last |-> IF k = 0 THEN 0 ELSE End(abi, struct, e[k - 1], k)]
  BY <1>5 DEF e
<1>7. e[0] = 0 /\ \A k \in 1 .. last : e[k] = End(abi, struct, e[k - 1], k)
  <2> HIDE DEF last
  <2> QED
    BY <1>1, <1>6
<1>8. \A k \in 0 .. last : e[k] \in WordAligned
  <2> DEFINE Bad == {k \in 0 .. last : e[k] \notin WordAligned}
  <2> SUFFICES ASSUME Bad # {} PROVE FALSE
    OBVIOUS
  <2>0. Bad \in SUBSET Nat
    BY <1>1
  <2>1. PICK k \in Bad : \A l \in Bad : k <= l
    <3> HIDE DEF Bad
    <3> QED
      BY <2>0, Least
  <2>2. k # 0
    BY <1>7, <2>1 DEF WordAligned
  <2>3. k \in 1 .. last /\ k - 1 \in 0 .. last /\ k - 1 \notin Bad
    BY <1>1, <2>1, <2>2
  <2>4. e[k - 1] \in WordAligned
    BY <2>3
  <2>5. e[k] \in WordAligned
    BY <1>7, <2>3, <2>4, EndFacts
  <2> QED
    BY <2>1, <2>5
<1> QED
  BY <1>1, <1>7, <1>8 DEF e

\* Fields lie one behind the other, on words, inside the structure.
LEMMA FieldsApart ==
  ASSUME NEW abi \in Abis, NEW struct \in Structures
  PROVE  /\ \A k \in 1 .. Len(struct) :
              /\ Offset(abi, struct, k) \in WordAligned
              /\ Width(abi, struct[k].type) \in {4, 8}
              /\ Ends(abi, struct)[k] =
                   Offset(abi, struct, k) + Width(abi, struct[k].type)
              /\ Ends(abi, struct)[k - 1] <= Offset(abi, struct, k)
              /\ Offset(abi, struct, k) =
                   Aligned(Ends(abi, struct)[k - 1], Alignment(abi, struct[k].type))
         /\ \A k, l \in 1 .. Len(struct) :
              k < l => Ends(abi, struct)[k] <= Offset(abi, struct, l)
<1> DEFINE e == Ends(abi, struct)
<1>1. /\ Len(struct) \in Nat \ {0}
      /\ \A k \in 1 .. Len(struct) : e[k] = End(abi, struct, e[k - 1], k)
      /\ \A k \in 0 .. Len(struct) : e[k] \in WordAligned
  BY EndsAre
<1>2. ASSUME NEW k \in 1 .. Len(struct)
      PROVE  /\ Offset(abi, struct, k) \in WordAligned
             /\ Width(abi, struct[k].type) \in {4, 8}
             /\ e[k] = Offset(abi, struct, k) + Width(abi, struct[k].type)
             /\ e[k - 1] <= Offset(abi, struct, k)
             /\ Offset(abi, struct, k) = Begin(abi, struct, e[k - 1], k)
  <2> DEFINE b == Begin(abi, struct, e[k - 1], k)
             w == Width(abi, struct[k].type)
  <2>1. k - 1 \in 0 .. Len(struct) /\ e[k - 1] \in WordAligned
    BY <1>1
  <2>2. b \in WordAligned /\ e[k - 1] <= b /\ w \in {4, 8} /\ e[k] = b + w
    BY <1>1, <2>1, EndFacts DEF End
  <2>3. Offset(abi, struct, k) = e[k] - w
    BY DEF Offset
  <2> HIDE DEF b, w, e
  <2>4. e[k] - w = b
    BY <2>2 DEF WordAligned
  <2> QED
    BY <2>2, <2>3, <2>4 DEF b, w
<1> HIDE DEF e
<1>3. ASSUME NEW k \in 1 .. Len(struct)
      PROVE  \A l \in 1 .. Len(struct) : k < l => e[k] <= Offset(abi, struct, l)
  <2> DEFINE Bad == {l \in 1 .. Len(struct) : k < l /\ ~(e[k] <= Offset(abi, struct, l))}
  <2> SUFFICES ASSUME Bad # {} PROVE FALSE
    OBVIOUS
  <2>0. Bad \in SUBSET Nat
    BY <1>1
  <2>1. PICK l \in Bad : \A m \in Bad : l <= m
    <3> HIDE DEF Bad
    <3> QED
      BY <2>0, Least
  <2>2. l \in 1 .. Len(struct) /\ k < l /\ ~(e[k] <= Offset(abi, struct, l))
    BY <2>1
  <2>3. /\ e[k] \in WordAligned /\ e[l - 1] \in WordAligned
        /\ Offset(abi, struct, l) \in WordAligned
        /\ e[l - 1] <= Offset(abi, struct, l)
    <3>1. k \in 0 .. Len(struct) /\ l - 1 \in 0 .. Len(struct)
      BY <1>1, <2>2
    <3> QED
      BY <1>1, <1>2, <2>2, <3>1
  <2>4. l - 1 # k
    BY <2>2, <2>3
  <2>5. l - 1 \in 1 .. Len(struct) /\ k < l - 1 /\ l - 1 \notin Bad
    BY <1>1, <2>1, <2>2, <2>4
  <2>6. e[k] <= Offset(abi, struct, l - 1)
    BY <2>5
  <2>7. /\ Offset(abi, struct, l - 1) \in WordAligned
        /\ Width(abi, struct[l - 1].type) \in {4, 8}
        /\ e[l - 1] = Offset(abi, struct, l - 1) + Width(abi, struct[l - 1].type)
    BY <1>2, <2>5
  <2> DEFINE o == Offset(abi, struct, l - 1)
             w == Width(abi, struct[l - 1].type)
             b == Offset(abi, struct, l)
  <2> HIDE DEF o, w, b, Bad
  <2>8. e[k] <= b
    <3>1. o \in Nat /\ w \in Nat /\ e[l - 1] = o + w /\ e[k] \in Nat /\ b \in Nat
          /\ e[k] <= o /\ e[l - 1] <= b
      BY <2>3, <2>6, <2>7 DEF o, w, b, WordAligned
    <3> QED
      BY <3>1
  <2> QED
    BY <2>2, <2>8 DEF b
<1> QED
  BY <1>1, <1>2, <1>3 DEF e, Begin

\* A structure has room for its fields, and is not much larger.
LEMMA SizeFacts ==
  ASSUME NEW abi \in Abis, NEW struct \in Structures
  PROVE  /\ Size(abi, struct) \in WordAligned
         /\ \A k \in 1 .. Len(struct) : Ends(abi, struct)[k] <= Size(abi, struct)
         /\ Size(abi, struct) <= 12 * Len(struct) + 4
         /\ Ends(abi, struct)[Len(struct)] % 8 = 0 =>
              Size(abi, struct) = Ends(abi, struct)[Len(struct)]
<1> DEFINE e == Ends(abi, struct)
           als == {Alignment(abi, struct[k].type) : k \in DOMAIN struct}
           last == Len(struct)
<1>1. /\ last \in Nat \ {0} /\ e[0] = 0
      /\ \A k \in 1 .. last : e[k] = End(abi, struct, e[k - 1], k)
      /\ \A k \in 0 .. last : e[k] \in WordAligned
  BY EndsAre
<1>2. Max(als) \in {4, 8}
  <2>1. als \in SUBSET {4, 8} /\ als # {}
    <3>1. \A k \in DOMAIN struct : struct[k].type \in {"u32", "u64", "ptr"}
      BY FieldTypes
    <3>2. 1 \in DOMAIN struct
      BY FieldTypes
    <3> QED
      BY <3>1, <3>2, TypeSizes
  <2>2. \E a \in als : \A b \in als : a >= b
    <3> HIDE DEF als
    <3>1. CASE 8 \in als
      BY <2>1, <3>1
    <3>2. CASE 8 \notin als
      <4>1. \A a \in als : a = 4
        BY <2>1, <3>2
      <4>2. PICK a \in als : TRUE
        BY <2>1
      <4>3. \A b \in als : a >= b
        BY <4>1, <4>2
      <4> QED
        BY <4>2, <4>3
    <3> QED
      BY <3>1, <3>2
  <2> HIDE DEF als
  <2> QED
    BY <2>1, <2>2 DEF Max
<1>3. Size(abi, struct) = Aligned(e[last], Max(als))
  BY DEF Size
<1> HIDE DEF als, e
<1>4. last \in 0 .. last /\ last \in 1 .. last
  BY <1>1
<1>5. /\ Size(abi, struct) \in WordAligned /\ e[last] <= Size(abi, struct)
      /\ Size(abi, struct) <= e[last] + 4 /\ e[last] \in WordAligned
      /\ e[last] % 8 = 0 => Size(abi, struct) = e[last]
  BY <1>1, <1>2, <1>3, <1>4, AlignedFacts
<1>6. \A k \in 1 .. last : e[k] <= e[last]
  <2> TAKE k \in 1 .. last
  <2>1. CASE k = last
    BY <1>5, <2>1 DEF WordAligned
  <2>2. CASE k # last
    <3>1. k < last
      BY <1>1, <2>2
    <3>2. e[k] <= Offset(abi, struct, last) /\ Offset(abi, struct, last) \in Nat
          /\ e[last] = Offset(abi, struct, last) + Width(abi, struct[last].type)
          /\ Width(abi, struct[last].type) \in {4, 8}
      BY <1>4, <3>1, FieldsApart DEF e, WordAligned
    <3>3. e[k] \in Nat
      BY <1>1 DEF WordAligned
    <3> DEFINE o == Offset(abi, struct, last)
               w == Width(abi, struct[last].type)
    <3> HIDE DEF o, w, last
    <3>4. e[last] = o + w /\ o \in Nat /\ w \in {4, 8} /\ e[k] <= o
      BY <3>2 DEF o, w
    <3> QED
      BY <3>3, <3>4
  <2> QED
    BY <2>1, <2>2
<1>7. e[last] <= 12 * last
  <2> DEFINE Bad == {k \in 0 .. last : ~(e[k] <= 12 * k)}
  <2> SUFFICES ASSUME Bad # {} PROVE FALSE
    BY <1>4
  <2>0. Bad \in SUBSET Nat
    BY <1>1
  <2>1. PICK k \in Bad : \A l \in Bad : k <= l
    <3> HIDE DEF Bad
    <3> QED
      BY <2>0, Least
  <2>2. k # 0
    BY <1>1, <2>1
  <2>3. k \in 1 .. last /\ k - 1 \in 0 .. last /\ k - 1 \notin Bad
    BY <1>1, <2>1, <2>2
  <2>4. e[k - 1] <= 12 * (k - 1) /\ e[k - 1] \in WordAligned /\ e[k] \in WordAligned
    BY <1>1, <2>3
  <2>5. e[k] <= e[k - 1] + 12
    BY <1>1, <2>3, <2>4, EndFacts
  <2>6. e[k] <= 12 * k
    BY SMTT(30), <2>3, <2>4, <2>5 DEF WordAligned
  <2> QED
    BY <2>1, <2>6
<1>8. \A k \in 1 .. last : e[k] <= Size(abi, struct)
  <2> TAKE k \in 1 .. last
  <2>1. e[k] \in Nat /\ e[k] <= e[last]
    BY <1>1, <1>6 DEF WordAligned
  <2> QED
    BY <1>5, <2>1 DEF WordAligned
<1>9. Size(abi, struct) <= 12 * last + 4
  BY <1>1, <1>5, <1>7 DEF WordAligned
<1> QED
  BY <1>5, <1>8, <1>9 DEF e

-----------------------------------------------------------------------------
(* Structures in memory *)

\* The word of half h of field k, of a structure at an address.
Place32(abi, struct, base, k, h) == (base + Offset(abi, struct, k)) \div 4 + h
Halves(abi, struct, k) == 0 .. (Width(abi, struct[k].type) \div 4) - 1

Held(memory, abi, owner, struct, base) ==
  \A k \in Written(struct) : \A h \in Halves(abi, struct, k) :
    /\ Place32(abi, struct, base, k, h) \in DOMAIN memory
    /\ memory[Place32(abi, struct, base, k, h)] = Content(owner, struct, k, h)

SameOutside(memory, new, from, to) ==
  \A w \in Nat : w \in DOMAIN memory /\ (4 * w < from \/ to <= 4 * w) =>
    w \in DOMAIN new /\ new[w] = memory[w]

LEMMA PlacesInside ==
  ASSUME NEW abi \in Abis, NEW struct \in Structures, NEW base \in WordAligned,
         NEW k \in 1 .. Len(struct), NEW h \in Halves(abi, struct, k)
  PROVE  /\ Place32(abi, struct, base, k, h) \in Nat
         /\ base + Offset(abi, struct, k) <= 4 * Place32(abi, struct, base, k, h)
         /\ 4 * Place32(abi, struct, base, k, h) < base + Ends(abi, struct)[k]
         /\ 4 * Place32(abi, struct, base, k, h) = base + Offset(abi, struct, k) + 4 * h
         /\ base <= 4 * Place32(abi, struct, base, k, h)
         /\ 4 * Place32(abi, struct, base, k, h) < base + Size(abi, struct)
         /\ h \in 0 .. 1
<1> DEFINE o == Offset(abi, struct, k)
           w == Width(abi, struct[k].type)
           e == Ends(abi, struct)[k]
           z == Size(abi, struct)
           p == Place32(abi, struct, base, k, h)
<1>1. o \in WordAligned /\ w \in {4, 8} /\ e = o + w
  BY FieldsApart
<1>2. e <= z /\ z \in WordAligned
  BY SizeFacts
<1>3. h \in 0 .. (w \div 4) - 1 /\ p = (base + o) \div 4 + h
  BY DEF Halves, Place32
<1> HIDE DEF o, w, e, z, p
<1>4. h \in 0 .. 1 /\ 4 * h < w
  BY <1>1, <1>3
<1>5. base \in Nat /\ base % 4 = 0 /\ o \in Nat /\ o % 4 = 0 /\ z \in Nat
  BY <1>1, <1>2 DEF WordAligned
<1>6. p \in Nat /\ 4 * p = base + o + 4 * h
  BY <1>3, <1>4, <1>5
<1>7. /\ base + o <= 4 * p /\ 4 * p < base + e /\ base <= 4 * p /\ 4 * p < base + z
  BY <1>1, <1>2, <1>4, <1>5, <1>6
<1> QED
  BY <1>4, <1>6, <1>7 DEF o, w, e, z, p

LEMMA PlacesApart ==
  ASSUME NEW abi \in Abis, NEW struct \in Structures, NEW base \in WordAligned,
         NEW k \in 1 .. Len(struct), NEW h \in Halves(abi, struct, k),
         NEW l \in 1 .. Len(struct), NEW g \in Halves(abi, struct, l),
         Place32(abi, struct, base, k, h) = Place32(abi, struct, base, l, g)
  PROVE  k = l /\ h = g
<1>1. ASSUME NEW a \in 1 .. Len(struct), NEW c \in Halves(abi, struct, a),
             NEW b \in 1 .. Len(struct), NEW d \in Halves(abi, struct, b), a < b
      PROVE  Place32(abi, struct, base, a, c) # Place32(abi, struct, base, b, d)
  <2> DEFINE p == Place32(abi, struct, base, a, c)
             q == Place32(abi, struct, base, b, d)
             e == Ends(abi, struct)[a]
             o == Offset(abi, struct, b)
  <2>1. p \in Nat /\ 4 * p < base + e /\ q \in Nat /\ base + o <= 4 * q
    BY PlacesInside
  <2>2. e <= o /\ o \in Nat
    BY <1>1, FieldsApart DEF WordAligned
  <2>3. e \in Nat
    <3>1. a \in 0 .. Len(struct)
      BY FieldTypes
    <3> QED
      BY <3>1, EndsAre DEF WordAligned
  <2> HIDE DEF p, q, e, o
  <2>4. p # q
    BY <2>1, <2>2, <2>3 DEF WordAligned
  <2> QED
    BY <2>4 DEF p, q
<1>2. k = l
  <2>1. k \in Nat /\ l \in Nat
    BY FieldTypes
  <2> QED
    BY <1>1, <2>1
<1>3. h = g
  <2>1. h \in 0 .. 1 /\ g \in 0 .. 1
    BY PlacesInside
  <2> DEFINE x == (base + Offset(abi, struct, k)) \div 4
  <2>2. x + h = x + g
    BY <1>2 DEF Place32
  <2>3. x \in Nat
    <3>1. Offset(abi, struct, k) \in Nat /\ base \in Nat
      BY FieldsApart DEF WordAligned
    <3> QED
      BY <3>1
  <2> HIDE DEF x
  <2> QED
    BY <2>1, <2>2, <2>3
<1> QED
  BY <1>2, <1>3

LEMMA HeldStays ==
  ASSUME NEW abi \in Abis, NEW struct \in Structures, NEW base \in WordAligned,
         NEW owner, NEW memory, NEW new, NEW from \in Nat, NEW to \in Nat,
         SameOutside(memory, new, from, to),
         base + Size(abi, struct) <= from \/ to <= base,
         Held(memory, abi, owner, struct, base)
  PROVE  Held(new, abi, owner, struct, base)
<1> SUFFICES ASSUME NEW k \in Written(struct), NEW h \in Halves(abi, struct, k)
             PROVE  /\ Place32(abi, struct, base, k, h) \in DOMAIN new
                    /\ new[Place32(abi, struct, base, k, h)] = Content(owner, struct, k, h)
  BY DEF Held
<1> DEFINE p == Place32(abi, struct, base, k, h)
           z == Size(abi, struct)
<1>1. k \in 1 .. Len(struct)
  BY FieldTypes DEF Written
<1>2. p \in Nat /\ base <= 4 * p /\ 4 * p < base + z
  BY <1>1, PlacesInside
<1>3. z \in Nat /\ base \in Nat
  BY SizeFacts DEF WordAligned
<1>4. p \in DOMAIN memory /\ memory[p] = Content(owner, struct, k, h)
  BY DEF Held
<1>5. base + z <= from \/ to <= base
  OBVIOUS
<1> HIDE DEF p, z
<1>6. 4 * p < from \/ to <= 4 * p
  BY <1>2, <1>3, <1>5
<1>7. p \in DOMAIN new /\ new[p] = memory[p]
  BY <1>2, <1>4, <1>6 DEF SameOutside
<1> QED
  BY <1>4, <1>7 DEF p

\* What Stored does: the structure is there, and no other word has changed.
LEMMA StoredFacts ==
  ASSUME NEW memory, NEW owner, NEW struct \in Structures, NEW base \in WordAligned
  PROVE  /\ Held(Stored(memory, owner, struct, base), LoaderAbi, owner, struct, base)
         /\ SameOutside(memory, Stored(memory, owner, struct, base),
                        base, base + Size(LoaderAbi, struct))
<1> DEFINE abi == LoaderAbi
           fields == Written(struct) \X (0 .. 1)
           used == {f \in fields : f[2] \in DOMAIN FieldWords(abi, base, struct, f[1])}
           at(f) == FieldWords(abi, base, struct, f[1])[f[2]]
           written == {at(f) : f \in used}
           new == [w \in DOMAIN memory \cup written |->
                     IF w \in written
                     THEN LET f == CHOOSE f \in used : at(f) = w
                          IN Content(owner, struct, f[1], f[2])
                     ELSE memory[w]]
<1>0. abi \in Abis
  BY DEF LoaderAbi, Abis
<1>1. Stored(memory, owner, struct, base) = new
  BY DEF Stored
<1>a. /\ \A f \in fields : f \in used <=> f[2] \in Halves(abi, struct, f[1])
      /\ \A f \in used : at(f) = Place32(abi, struct, base, f[1], f[2])
  BY DEF FieldWords, Halves, Place32
<1>2. \A k \in Written(struct) : k \in 1 .. Len(struct)
  BY FieldTypes DEF Written
<1>3. ASSUME NEW k \in Written(struct), NEW h \in Halves(abi, struct, k)
      PROVE  /\ Place32(abi, struct, base, k, h) \in DOMAIN new
             /\ new[Place32(abi, struct, base, k, h)] = Content(owner, struct, k, h)
  <2> DEFINE f == <<k, h>>
             g == CHOOSE g \in used : at(g) = at(f)
  <2>1. h \in 0 .. 1
    BY <1>0, <1>2, PlacesInside
  <2>2. f \in used /\ at(f) = Place32(abi, struct, base, k, h)
    BY <1>a, <2>1
  <2>3. g \in used /\ at(g) = at(f)
    BY <2>2
  <2>4. PICK l \in Written(struct), d \in 0 .. 1 : g = <<l, d>> /\ d \in Halves(abi, struct, l)
    <3>1. g \in fields /\ g[2] \in Halves(abi, struct, g[1])
      BY <1>a, <2>3
    <3> HIDE DEF g
    <3> QED
      BY <3>1
  <2>5. l = k /\ d = h
    <3>1. Place32(abi, struct, base, l, d) = Place32(abi, struct, base, k, h)
      BY <1>a, <2>2, <2>3, <2>4
    <3> QED
      BY <1>0, <1>2, <2>4, <3>1, PlacesApart
  <2>6. new[at(f)] = Content(owner, struct, g[1], g[2]) /\ at(f) \in DOMAIN new
    BY <2>2
  <2> HIDE DEF new, g
  <2> QED
    BY <2>2, <2>4, <2>5, <2>6
<1>4. Held(new, abi, owner, struct, base)
  <2> HIDE DEF new
  <2> QED
    BY <1>3 DEF Held
<1>5. ASSUME NEW w \in Nat, w \in DOMAIN memory,
             4 * w < base \/ base + Size(abi, struct) <= 4 * w
      PROVE  w \in DOMAIN new /\ new[w] = memory[w]
  <2>1. w \notin written
    <3> SUFFICES ASSUME NEW f \in used, w = at(f) PROVE FALSE
      OBVIOUS
    <3>1. /\ f[1] \in 1 .. Len(struct) /\ f[2] \in Halves(abi, struct, f[1])
          /\ w = Place32(abi, struct, base, f[1], f[2])
      BY <1>2, <1>a
    <3>2. base <= 4 * w /\ 4 * w < base + Size(abi, struct)
      BY <1>0, <3>1, PlacesInside
    <3>3. base \in Nat /\ Size(abi, struct) \in Nat
      BY <1>0, SizeFacts DEF WordAligned
    <3> DEFINE z == Size(abi, struct)
    <3>4. z \in Nat /\ base <= 4 * w /\ 4 * w < base + z /\ (4 * w < base \/ base + z <= 4 * w)
      BY <1>5, <3>2, <3>3
    <3> HIDE DEF z
    <3> QED
      BY <3>3, <3>4
  <2> QED
    BY <1>5, <2>1
<1> HIDE DEF new
<1> QED
  BY <1>1, <1>4, <1>5 DEF SameOutside

-----------------------------------------------------------------------------
(* Arrays *)

LEMMA Multiples ==
  ASSUME NEW z \in WordAligned, NEW m \in Nat
  PROVE  /\ m * z \in WordAligned /\ (m + 1) * z = m * z + z
         /\ \A k \in Nat : m <= k => m * z <= k * z
<1>1. z \in Nat /\ z = 4 * (z \div 4) /\ z \div 4 \in Nat
  BY DEF WordAligned
<1> DEFINE q == z \div 4
<1>2. q \in Nat /\ z = 4 * q
  BY <1>1
<1> HIDE DEF q
<1>3. m * z \in WordAligned
  <2>1. m * q \in Nat /\ m * z = 4 * (m * q)
    BY <1>2
  <2> DEFINE x == m * q
  <2>2. x \in Nat /\ m * z = 4 * x
    BY <2>1
  <2> HIDE DEF x
  <2> QED
    BY <2>2 DEF WordAligned
<1>4. (m + 1) * z = m * z + z
  BY <1>1
<1>5. ASSUME NEW k \in Nat, m <= k
      PROVE  m * z <= k * z
  <2>1. PICK d \in Nat : k = m + d
    <3>1. k - m \in Nat /\ k = m + (k - m)
      BY <1>5
    <3> QED
      BY <3>1
  <2>2. k * z = m * z + d * z /\ m * z \in Nat /\ d * z \in Nat
    BY <1>1, <2>1
  <2> QED
    BY <2>2
<1> QED
  BY <1>3, <1>4, <1>5

\* The memory after each of the first elements was stored.
NextStored(memory, owner, struct, base, k) ==
  Stored(memory, <<owner, k - 1>>, struct, Element(base, struct, k - 1))

StoredUpTo(f, memory, owner, struct, base, last) ==
  f = [k \in 0 .. last |-> IF k = 0 THEN memory
                           ELSE NextStored(f[k - 1], owner, struct, base, k)]

LEMMA StoredExists ==
  ASSUME NEW memory, NEW owner, NEW struct, NEW base, NEW last \in Nat
  PROVE  \E f : StoredUpTo(f, memory, owner, struct, base, last)
<1> DEFINE Bad == {m \in 0 .. last : ~\E f : StoredUpTo(f, memory, owner, struct, base, m)}
<1>1. CASE Bad = {}
  <2>1. last \in 0 .. last
    OBVIOUS
  <2>2. last \notin Bad
    BY <1>1
  <2> QED
    BY <2>1, <2>2, Zenon
<1>2. CASE Bad # {}
  <2>0. Bad \in SUBSET Nat
    OBVIOUS
  <2>1. PICK m \in Bad : \A k \in Bad : m <= k
    <3> HIDE DEF Bad
    <3> QED
      BY <1>2, <2>0, Least
  <2>2. CASE m = 0
    <3>1. StoredUpTo([k \in 0 .. 0 |-> memory], memory, owner, struct, base, 0)
      BY DEF StoredUpTo
    <3> QED
      BY <2>1, <2>2, <3>1
  <2>3. CASE m # 0
    <3>1. m \in 1 .. last /\ m - 1 \in 0 .. last /\ m - 1 \notin Bad
      BY <2>1, <2>3
    <3>2. PICK f : StoredUpTo(f, memory, owner, struct, base, m - 1)
      BY <3>1
    <3>3. /\ DOMAIN f = 0 .. m - 1 /\ f[0] = memory
          /\ \A k \in 1 .. m - 1 : f[k] = NextStored(f[k - 1], owner, struct, base, k)
      BY <3>1, <3>2 DEF StoredUpTo
    <3> DEFINE new == NextStored(f[m - 1], owner, struct, base, m)
               g == [k \in 0 .. m |-> IF k < m THEN f[k] ELSE new]
    <3>4. \A k \in 0 .. m :
            g[k] = IF k = 0 THEN memory ELSE NextStored(g[k - 1], owner, struct, base, k)
      <4> TAKE k \in 0 .. m
      <4>1. CASE k = 0
        BY <3>1, <3>3, <4>1
      <4>2. CASE k = m
        <5>1. g[k] = new /\ g[k - 1] = f[m - 1]
          BY <3>1, <4>2
        <5> QED
          BY <3>1, <4>2, <5>1
      <4>3. CASE k # 0 /\ k # m
        <5>1. k \in 1 .. m - 1 /\ g[k] = f[k] /\ g[k - 1] = f[k - 1]
          BY <3>1, <4>3
        <5> QED
          BY <3>3, <4>3, <5>1
      <4> QED
        BY <4>1, <4>2, <4>3
    <3>5. StoredUpTo(g, memory, owner, struct, base, m)
      <4>1. g = [k \in 0 .. m |-> g[k]]
        OBVIOUS
      <4> HIDE DEF g
      <4> QED
        BY <3>4, <4>1 DEF StoredUpTo
    <3> QED
      BY <2>1, <3>5
  <2> QED
    BY <2>2, <2>3
<1> QED
  BY <1>1, <1>2

\* What StoredArray does: every element is there, and nothing else has changed.
LEMMA StoredArrayFacts ==
  ASSUME NEW memory, NEW owner, NEW struct \in Structures, NEW base \in WordAligned,
         NEW count \in Nat
  PROVE  /\ \A m \in 0 .. count - 1 :
              /\ Element(base, struct, m) \in WordAligned
              /\ Held(StoredArray(memory, owner, struct, base, count), LoaderAbi,
                      <<owner, m>>, struct, Element(base, struct, m))
         /\ SameOutside(memory, StoredArray(memory, owner, struct, base, count),
                        base, base + count * Size(LoaderAbi, struct))
<1> DEFINE abi == LoaderAbi
           z == Size(abi, struct)
           f == CHOOSE f : StoredUpTo(f, memory, owner, struct, base, count)
           Fine(k) ==
             /\ \A m \in 0 .. k - 1 :
                  Held(f[k], abi, <<owner, m>>, struct, Element(base, struct, m))
             /\ SameOutside(memory, f[k], base, base + k * z)
<1>1. StoredArray(memory, owner, struct, base, count) = f[count]
  BY DEF StoredArray, StoredUpTo, NextStored
<1>2. StoredUpTo(f, memory, owner, struct, base, count)
  BY StoredExists
<1>3. /\ f[0] = memory
      /\ \A k \in 1 .. count : f[k] = NextStored(f[k - 1], owner, struct, base, k)
  <2> HIDE DEF f
  <2> QED
    BY <1>2 DEF StoredUpTo
<1> HIDE DEF f
<1>4. abi \in Abis /\ z \in WordAligned
  BY SizeFacts DEF LoaderAbi, Abis
<1>5. \A m \in Nat : /\ Element(base, struct, m) \in WordAligned
                     /\ Element(base, struct, m) = base + m * z
  <2> TAKE m \in Nat
  <2>1. m * z \in WordAligned /\ Element(base, struct, m) = base + m * z
    BY <1>4, Multiples DEF Element
  <2> DEFINE x == m * z
  <2> HIDE DEF x
  <2>2. base + x \in WordAligned
    BY <2>1 DEF WordAligned, x
  <2> QED
    BY <2>1, <2>2 DEF x
<1>6. Fine(0)
  <2>1. 0 .. 0 - 1 = {}
    OBVIOUS
  <2>2. SameOutside(memory, f[0], base, base + 0 * z)
    BY <1>3 DEF SameOutside
  <2> QED
    BY <2>1, <2>2
<1>7. ASSUME NEW k \in 1 .. count, Fine(k - 1)
      PROVE  Fine(k)
  <2> DEFINE at == Element(base, struct, k - 1)
             old == f[k - 1]
  <2>1. k - 1 \in Nat /\ at \in WordAligned /\ at = base + (k - 1) * z
    BY <1>5
  <2>2. /\ Held(f[k], abi, <<owner, k - 1>>, struct, at)
        /\ SameOutside(old, f[k], at, at + z)
    BY <1>3, <2>1, StoredFacts DEF NextStored
  <2>3. (k - 1) * z \in Nat /\ k * z = (k - 1) * z + z /\ z \in Nat /\ base \in Nat
    <3>1. ((k - 1) + 1) * z = (k - 1) * z + z /\ (k - 1) * z \in WordAligned
      BY <1>4, <2>1, Multiples
    <3>2. (k - 1) + 1 = k
      OBVIOUS
    <3> QED
      BY <1>4, <3>1, <3>2 DEF WordAligned
  <2> DEFINE x == (k - 1) * z
             y == k * z
  <2>4. x \in Nat /\ y = x + z /\ at = base + x /\ z \in Nat /\ base \in Nat /\ at \in Nat
    BY <2>1, <2>3 DEF WordAligned
  <2>5. SameOutside(memory, old, base, base + x)
    BY <1>7
  <2>6. SameOutside(memory, f[k], base, base + y)
    <3> HIDE DEF at, old, x, y, z
    <3> SUFFICES ASSUME NEW w \in Nat, w \in DOMAIN memory, 4 * w < base \/ base + y <= 4 * w
                 PROVE  w \in DOMAIN f[k] /\ f[k][w] = memory[w]
      BY DEF SameOutside
    <3>1. 4 * w < base \/ base + x <= 4 * w
      BY <2>4
    <3>2. w \in DOMAIN old /\ old[w] = memory[w]
      BY <2>5, <3>1 DEF SameOutside
    <3>3. 4 * w < at \/ at + z <= 4 * w
      BY <2>4
    <3> QED
      BY <2>2, <3>2, <3>3 DEF SameOutside
  <2>7. ASSUME NEW m \in 0 .. k - 1
        PROVE  Held(f[k], abi, <<owner, m>>, struct, Element(base, struct, m))
    <3>1. CASE m = k - 1
      BY <2>2, <3>1
    <3>2. CASE m # k - 1
      <4>1. m \in 0 .. (k - 1) - 1 /\ m \in Nat /\ m + 1 <= k - 1 /\ m + 1 \in Nat
        BY <3>2
      <4>2. Held(old, abi, <<owner, m>>, struct, Element(base, struct, m))
        BY <1>7, <4>1
      <4>3. Element(base, struct, m) + z <= at
        <5>1. (m + 1) * z = m * z + z /\ (m + 1) * z <= (k - 1) * z /\ m * z \in Nat
          BY <1>4, <2>1, <4>1, Multiples DEF WordAligned
        <5>2. Element(base, struct, m) = base + m * z
          BY <1>5, <4>1
        <5> DEFINE u == m * z
                   v == (m + 1) * z
        <5>3. v = u + z /\ v <= x /\ u \in Nat /\ Element(base, struct, m) = base + u
          BY <5>1, <5>2
        <5> HIDE DEF u, v, x, at, z
        <5> QED
          BY <2>4, <5>3
      <4>4. Element(base, struct, m) \in WordAligned
        BY <1>5, <4>1
      <4>5. at + z \in Nat
        BY <2>4
      <4> DEFINE b == Element(base, struct, m)
                 to == at + z
      <4>6. /\ abi \in Abis /\ b \in WordAligned /\ at \in Nat /\ to \in Nat
            /\ SameOutside(old, f[k], at, to) /\ b + Size(abi, struct) <= at
            /\ Held(old, abi, <<owner, m>>, struct, b)
        BY <1>4, <2>2, <2>4, <4>2, <4>3, <4>4, <4>5
      <4> HIDE DEF at, old, b, to, abi
      <4>7. Held(f[k], abi, <<owner, m>>, struct, b)
        BY <4>6, HeldStays
      <4> QED
        BY <4>7 DEF b, abi
    <3> QED
      BY <3>1, <3>2
  <2> QED
    BY <2>6, <2>7
<1>8. Fine(count)
  <2> DEFINE Bad == {k \in 0 .. count : ~Fine(k)}
  <2> SUFFICES ASSUME Bad # {} PROVE FALSE
    <3>1. count \in 0 .. count
      OBVIOUS
    <3> HIDE DEF Fine
    <3> QED
      BY <3>1
  <2> HIDE DEF Fine
  <2>0. Bad \in SUBSET Nat
    OBVIOUS
  <2>1. PICK k \in Bad : \A l \in Bad : k <= l
    <3> HIDE DEF Bad
    <3> QED
      BY <2>0, Least
  <2>2. k # 0
    BY <1>6, <2>1
  <2>3. k \in 1 .. count /\ k - 1 \in 0 .. count /\ k - 1 \notin Bad
    BY <2>1, <2>2
  <2> QED
    BY <1>7, <2>1, <2>3
<1>9. \A m \in 0 .. count - 1 : Element(base, struct, m) \in WordAligned
  BY <1>5
<1> QED
  BY <1>1, <1>8, <1>9

-----------------------------------------------------------------------------
(* The structures of the handover *)

\* A number of 4 bytes, and one of 8, behind field l.
LEMMA Word ==
  ASSUME NEW abi \in Abis, NEW struct \in Structures, NEW k \in 1 .. Len(struct),
         NEW l \in Nat, k = l + 1, struct[k].type = "u32"
  PROVE  /\ Offset(abi, struct, k) = Ends(abi, struct)[l]
         /\ Ends(abi, struct)[k] = Ends(abi, struct)[l] + 4
<1>1. Alignment(abi, "u32") = 4 /\ Width(abi, "u32") = 4
  BY DEF Alignment, Width
<1>2. k - 1 = l /\ l \in 0 .. Len(struct)
  BY FieldTypes
<1>3. Ends(abi, struct)[l] \in WordAligned
  BY <1>2, EndsAre
<1>4. Aligned(Ends(abi, struct)[l], 4) = Ends(abi, struct)[l]
  BY <1>3, AlignedFacts
<1> QED
  BY <1>1, <1>2, <1>4, FieldsApart

LEMMA DoubleWord ==
  ASSUME NEW abi \in Abis, NEW struct \in Structures, NEW k \in 1 .. Len(struct),
         NEW l \in Nat, k = l + 1, struct[k].type = "u64",
         Ends(abi, struct)[l] % 8 = 0
  PROVE  /\ Offset(abi, struct, k) = Ends(abi, struct)[l]
         /\ Ends(abi, struct)[k] = Ends(abi, struct)[l] + 8
<1>1. Alignment(abi, "u64") \in {4, 8} /\ Width(abi, "u64") = 8
  BY DEF Alignment, Width
<1>2. k - 1 = l /\ l \in 0 .. Len(struct)
  BY FieldTypes
<1>3. Ends(abi, struct)[l] \in WordAligned
  BY <1>2, EndsAre
<1>4. Aligned(Ends(abi, struct)[l], Alignment(abi, "u64")) = Ends(abi, struct)[l]
  BY <1>1, <1>3, AlignedFacts
<1> QED
  BY <1>1, <1>2, <1>4, FieldsApart

LEMMA FirstField ==
  ASSUME NEW abi \in Abis, NEW struct \in Structures
  PROVE  Ends(abi, struct)[0] = 0
  BY EndsAre

LEMMA FbResponseOffsets ==
  ASSUME NEW abi \in Abis
  PROVE  /\ Offset(abi, FbResponse, 1) = 0 /\ Offset(abi, FbResponse, 2) = 8
         /\ Offset(abi, FbResponse, 3) = 12 /\ Offset(abi, FbResponse, 4) = 16
         /\ Offset(abi, FbResponse, 5) = 20
<1>0. /\ FbResponse \in Structures /\ Len(FbResponse) = 5
      /\ FbResponse[1].type = "u64" /\ FbResponse[2].type = "u32"
      /\ FbResponse[3].type = "u32" /\ FbResponse[4].type = "u32"
      /\ FbResponse[5].type = "u32"
  BY TheTypes DEF Structures
<1>1. Offset(abi, FbResponse, 1) = 0 /\ Ends(abi, FbResponse)[1] = 8
  BY <1>0, FirstField, DoubleWord
<1>2. Offset(abi, FbResponse, 2) = 8 /\ Ends(abi, FbResponse)[2] = 12
  BY <1>0, <1>1, Word
<1>3. Offset(abi, FbResponse, 3) = 12 /\ Ends(abi, FbResponse)[3] = 16
  BY <1>0, <1>2, Word
<1>4. Offset(abi, FbResponse, 4) = 16 /\ Ends(abi, FbResponse)[4] = 20
  BY <1>0, <1>3, Word
<1>5. Offset(abi, FbResponse, 5) = 20 /\ Ends(abi, FbResponse)[5] = 24
  BY <1>0, <1>4, Word
<1> QED
  BY <1>1, <1>2, <1>3, <1>4, <1>5

LEMMA MmapResponseOffsets ==
  ASSUME NEW abi \in Abis
  PROVE  /\ Offset(abi, MmapResponse, 1) = 0
<1>0. /\ MmapResponse \in Structures /\ Len(MmapResponse) = 2
      /\ MmapResponse[1].type = "u64"
  BY TheTypes DEF Structures
<1>1. Offset(abi, MmapResponse, 1) = 0 /\ Ends(abi, MmapResponse)[1] = 8
  BY <1>0, FirstField, DoubleWord
<1> QED
  BY <1>1

LEMMA SmpResponseOffsets ==
  ASSUME NEW abi \in Abis
  PROVE  /\ Offset(abi, SmpResponse, 1) = 0 /\ Offset(abi, SmpResponse, 2) = 8
<1>0. /\ SmpResponse \in Structures /\ Len(SmpResponse) = 3
      /\ SmpResponse[1].type = "u64" /\ SmpResponse[2].type = "u32"
  BY TheTypes DEF Structures
<1>1. Offset(abi, SmpResponse, 1) = 0 /\ Ends(abi, SmpResponse)[1] = 8
  BY <1>0, FirstField, DoubleWord
<1>2. Offset(abi, SmpResponse, 2) = 8 /\ Ends(abi, SmpResponse)[2] = 12
  BY <1>0, <1>1, Word
<1> QED
  BY <1>1, <1>2

LEMMA ExecutableResponseOffsets ==
  ASSUME NEW abi \in Abis
  PROVE  /\ Offset(abi, ExecutableResponse, 1) = 0 /\ Offset(abi, ExecutableResponse, 2) = 8
<1>0. /\ ExecutableResponse \in Structures /\ Len(ExecutableResponse) = 2
      /\ ExecutableResponse[1].type = "u64" /\ ExecutableResponse[2].type = "u64"
  BY TheTypes DEF Structures
<1>1. Offset(abi, ExecutableResponse, 1) = 0 /\ Ends(abi, ExecutableResponse)[1] = 8
  BY <1>0, FirstField, DoubleWord
<1>2. Offset(abi, ExecutableResponse, 2) = 8 /\ Ends(abi, ExecutableResponse)[2] = 16
  BY <1>0, <1>1, DoubleWord
<1> QED
  BY <1>1, <1>2

LEMMA ValueResponseOffsets ==
  ASSUME NEW abi \in Abis
  PROVE  /\ Offset(abi, ValueResponse, 1) = 0
<1>0. /\ ValueResponse \in Structures /\ Len(ValueResponse) = 1
      /\ ValueResponse[1].type = "u64"
  BY TheTypes DEF Structures
<1>1. Offset(abi, ValueResponse, 1) = 0 /\ Ends(abi, ValueResponse)[1] = 8
  BY <1>0, FirstField, DoubleWord
<1> QED
  BY <1>1

LEMMA MmapEntryOffsets ==
  ASSUME NEW abi \in Abis
  PROVE  /\ Offset(abi, MmapEntry, 1) = 0 /\ Offset(abi, MmapEntry, 2) = 8
         /\ Offset(abi, MmapEntry, 3) = 16
<1>0. /\ MmapEntry \in Structures /\ Len(MmapEntry) = 4
      /\ MmapEntry[1].type = "u64" /\ MmapEntry[2].type = "u64"
      /\ MmapEntry[3].type = "u32"
  BY TheTypes DEF Structures
<1>1. Offset(abi, MmapEntry, 1) = 0 /\ Ends(abi, MmapEntry)[1] = 8
  BY <1>0, FirstField, DoubleWord
<1>2. Offset(abi, MmapEntry, 2) = 8 /\ Ends(abi, MmapEntry)[2] = 16
  BY <1>0, <1>1, DoubleWord
<1>3. Offset(abi, MmapEntry, 3) = 16 /\ Ends(abi, MmapEntry)[3] = 20
  BY <1>0, <1>2, Word
<1> QED
  BY <1>1, <1>2, <1>3

LEMMA SmpInfoOffsets ==
  ASSUME NEW abi \in Abis
  PROVE  /\ Offset(abi, SmpInfo, 1) = 0 /\ Offset(abi, SmpInfo, 2) = 4
         /\ Offset(abi, SmpInfo, 3) = 8 /\ Offset(abi, SmpInfo, 4) = 16
         /\ Offset(abi, SmpInfo, 5) = 24
         /\ Size(abi, SmpInfo) = 32
<1>0. /\ SmpInfo \in Structures /\ Len(SmpInfo) = 5
      /\ SmpInfo[1].type = "u32" /\ SmpInfo[2].type = "u32"
      /\ SmpInfo[3].type = "u64" /\ SmpInfo[4].type = "u64"
      /\ SmpInfo[5].type = "u64"
  BY TheTypes DEF Structures
<1>1. Offset(abi, SmpInfo, 1) = 0 /\ Ends(abi, SmpInfo)[1] = 4
  BY <1>0, FirstField, Word
<1>2. Offset(abi, SmpInfo, 2) = 4 /\ Ends(abi, SmpInfo)[2] = 8
  BY <1>0, <1>1, Word
<1>3. Offset(abi, SmpInfo, 3) = 8 /\ Ends(abi, SmpInfo)[3] = 16
  BY <1>0, <1>2, DoubleWord
<1>4. Offset(abi, SmpInfo, 4) = 16 /\ Ends(abi, SmpInfo)[4] = 24
  BY <1>0, <1>3, DoubleWord
<1>5. Offset(abi, SmpInfo, 5) = 24 /\ Ends(abi, SmpInfo)[5] = 32
  BY <1>0, <1>4, DoubleWord
<1>6. Size(abi, SmpInfo) = 32
  <2>1. Len(SmpInfo) = 5 /\ 6 - 1 = 5 /\ 32 % 8 = 0
    BY TheTypes
  <2> QED
    BY <1>0, <1>5, <2>1, SizeFacts
<1> QED
  BY <1>1, <1>2, <1>3, <1>4, <1>5, <1>6

LEMMA BootInfoOffsets ==
  ASSUME NEW abi \in Abis
  PROVE  /\ Offset(abi, BootInfo, 1) = 0 /\ Offset(abi, BootInfo, 2) = 4
         /\ Offset(abi, BootInfo, 3) = 8 /\ Offset(abi, BootInfo, 4) = 16
         /\ Offset(abi, BootInfo, 5) = 20 /\ Offset(abi, BootInfo, 6) = 24
         /\ Offset(abi, BootInfo, 7) = 28 /\ Offset(abi, BootInfo, 8) = 32
<1>0. /\ BootInfo \in Structures /\ Len(BootInfo) = 11
      /\ BootInfo[1].type = "u32" /\ BootInfo[2].type = "u32"
      /\ BootInfo[3].type = "u64" /\ BootInfo[4].type = "u32"
      /\ BootInfo[5].type = "u32" /\ BootInfo[6].type = "u32"
      /\ BootInfo[7].type = "u32" /\ BootInfo[8].type = "u32"
  BY TheTypes DEF Structures
<1>1. Offset(abi, BootInfo, 1) = 0 /\ Ends(abi, BootInfo)[1] = 4
  BY <1>0, FirstField, Word
<1>2. Offset(abi, BootInfo, 2) = 4 /\ Ends(abi, BootInfo)[2] = 8
  BY <1>0, <1>1, Word
<1>3. Offset(abi, BootInfo, 3) = 8 /\ Ends(abi, BootInfo)[3] = 16
  BY <1>0, <1>2, DoubleWord
<1>4. Offset(abi, BootInfo, 4) = 16 /\ Ends(abi, BootInfo)[4] = 20
  BY <1>0, <1>3, Word
<1>5. Offset(abi, BootInfo, 5) = 20 /\ Ends(abi, BootInfo)[5] = 24
  BY SMTT(30), <1>0, <1>4, Word
<1>6. Offset(abi, BootInfo, 6) = 24 /\ Ends(abi, BootInfo)[6] = 28
  BY <1>0, <1>5, Word
<1>7. Offset(abi, BootInfo, 7) = 28 /\ Ends(abi, BootInfo)[7] = 32
  BY <1>0, <1>6, Word
<1>8. Offset(abi, BootInfo, 8) = 32 /\ Ends(abi, BootInfo)[8] = 36
  BY <1>0, <1>7, Word
<1> QED
  BY <1>1, <1>2, <1>3, <1>4, <1>5, <1>6, <1>7, <1>8

\* A field that lies at the same place for either compiler.
Same(struct, k) ==
  /\ k \in 1 .. Len(struct) /\ struct[k].type # "ptr"
  /\ Offset("i386", struct, k) = Offset("x86_64", struct, k)

LEMMA CommonFields ==
  /\ \A k \in 1 .. 5 : Same(FbResponse, k)
  /\ Same(MmapResponse, 1) /\ Same(ValueResponse, 1)
  /\ \A k \in 1 .. 2 : Same(SmpResponse, k) /\ Same(ExecutableResponse, k)
  /\ \A k \in 1 .. 3 : Same(MmapEntry, k)
  /\ \A k \in 1 .. 5 : Same(SmpInfo, k)
  /\ \A k \in 1 .. 8 : Same(BootInfo, k)
<1>0. "i386" \in Abis /\ "x86_64" \in Abis
  BY DEF Abis
<1>1. \A k \in 1 .. 5 : Same(FbResponse, k)
  BY <1>0, FbResponseOffsets, TheTypes DEF Same
<1>2. Same(MmapResponse, 1) /\ Same(ValueResponse, 1)
  BY <1>0, MmapResponseOffsets, ValueResponseOffsets, TheTypes DEF Same
<1>3. \A k \in 1 .. 2 : Same(SmpResponse, k) /\ Same(ExecutableResponse, k)
  BY <1>0, SmpResponseOffsets, ExecutableResponseOffsets, TheTypes DEF Same
<1>4. \A k \in 1 .. 3 : Same(MmapEntry, k)
  BY <1>0, MmapEntryOffsets, TheTypes DEF Same
<1>5. \A k \in 1 .. 5 : Same(SmpInfo, k)
  BY <1>0, SmpInfoOffsets, TheTypes DEF Same
<1>6. \A k \in 1 .. 8 : Same(BootInfo, k)
  BY <1>0, BootInfoOffsets, TheTypes DEF Same
<1> QED
  BY <1>1, <1>2, <1>3, <1>4, <1>5, <1>6

\* The kernel reads what the loader holds there, where the layouts agree.
LEMMA ReadsHeld ==
  ASSUME NEW struct \in Structures, NEW k \in Written(struct), NEW owner, NEW base,
         loader # "bios" \/ Same(struct, k),
         Held(ram, LoaderAbi, owner, struct, base)
  PROVE  ReadsField(owner, struct, base, k)
<1>1. struct[k].type \in {"u32", "u64", "ptr"}
  BY FieldTypes DEF Written
<1>2. /\ Offset(LoaderAbi, struct, k) = Offset("x86_64", struct, k)
      /\ Width(LoaderAbi, struct[k].type) = Width("x86_64", struct[k].type)
  <2>1. CASE loader # "bios"
    BY <2>1 DEF LoaderAbi
  <2>2. CASE loader = "bios"
    <3>1. LoaderAbi = "i386" /\ "i386" \in Abis
      BY <2>2 DEF LoaderAbi, Abis
    <3> QED
      BY <1>1, <2>2, <3>1, TypeSizes DEF Same
  <2> QED
    BY <2>1, <2>2
<1> SUFFICES ASSUME NEW h \in DOMAIN FieldWords("x86_64", base, struct, k)
             PROVE  WordAt(FieldWords("x86_64", base, struct, k)[h]) =
                      Content(owner, struct, k, h)
  BY DEF ReadsField
<1>3. h \in Halves(LoaderAbi, struct, k)
  BY <1>2 DEF FieldWords, Halves
<1>4. FieldWords("x86_64", base, struct, k)[h] = Place32(LoaderAbi, struct, base, k, h)
  BY <1>2 DEF FieldWords, Place32
<1> QED
  BY <1>3, <1>4 DEF Held, WordAt

-----------------------------------------------------------------------------
(* What the loader has put where when the kernel is entered *)

MapHeld ==
  \A m \in 0 .. Ranges - 1 :
    Held(ram, LoaderAbi, <<"range", m>>, MmapEntry, Element(EntriesBase, MmapEntry, m))

BootInfoHeld == Held(ram, LoaderAbi, <<"boot_info", 0>>, BootInfo, BootInfoBase)

ResponseHeld(kind) ==
  /\ kind \in Kinds /\ answers[kind] \in WordAligned /\ ResponseBase <= answers[kind]
  /\ answers[kind] + Size(LoaderAbi, Response(kind)) <= response_ptr
  /\ Held(ram, LoaderAbi, <<kind, 0>>, Response(kind), answers[kind])

CpuHeld(m) ==
  /\ Element(CpusBase, SmpInfo, m) \in WordAligned
  /\ Element(CpusBase, SmpInfo, m) + Size(LoaderAbi, SmpInfo) <= response_ptr
  /\ Held(ram, LoaderAbi, <<"cpu", m>>, SmpInfo, Element(CpusBase, SmpInfo, m))

RamInv ==
  /\ loader \in {"bios", "uefi"} /\ Ranges \in 0 .. MaxRanges
  /\ map_count \in Nat
  /\ pc \in {"paging", "map"} => map_ok = FALSE
  /\ response_ptr \in Nat /\ ResponseBase <= response_ptr
  /\ pc \notin {"paging", "map"} => MapHeld
  /\ pc \notin {"paging", "map", "boot_info"} => BootInfoHeld
  /\ \A kind \in DOMAIN answers : ResponseHeld(kind)
  /\ "smp" \in DOMAIN answers /\ pc # "discover" =>
       \A m \in 0 .. Cardinality(Processors) - 1 : CpuHeld(m)
  /\ pc = "discover" =>
       /\ "smp" \in DOMAIN answers
       /\ response_ptr = answers["smp"] + Size(LoaderAbi, Response("smp"))
  /\ pc \in {"paging", "map", "boot_info"} => answers = <<>>

LEMMA AllocatedFacts ==
  ASSUME NEW p \in Nat
  PROVE  Allocated(p) \in WordAligned /\ p <= Allocated(p)
  BY DEF Allocated, Aligned, WordAligned

\* The map and boot_info lie below the responses, and apart.
LEMMA PlacesBelow ==
  ASSUME NEW abi \in Abis, Ranges \in 0 .. MaxRanges, abi = LoaderAbi
  PROVE  /\ EntriesBase \in WordAligned /\ BootInfoBase \in WordAligned
         /\ ResponseBase \in WordAligned
         /\ EntriesBase + Ranges * Size(abi, MmapEntry) <= BootInfoBase
         /\ BootInfoBase + Size(abi, BootInfo) <= ResponseBase
         /\ \A m \in 0 .. Ranges - 1 :
              /\ Element(EntriesBase, MmapEntry, m) \in WordAligned
              /\ Element(EntriesBase, MmapEntry, m) + Size(abi, MmapEntry) <= BootInfoBase
<1> DEFINE z == Size(abi, MmapEntry)
           y == Size(abi, BootInfo)
<1>1. EntriesBase \in WordAligned /\ BootInfoBase \in WordAligned /\ ResponseBase \in WordAligned
  BY DEF EntriesBase, BootInfoBase, ResponseBase, WordAligned
<1>2. z \in WordAligned /\ z <= 52
  <2>1. MmapEntry \in Structures /\ Len(MmapEntry) = 4
    BY TheTypes DEF Structures
  <2>2. z \in WordAligned /\ z <= 12 * 4 + 4
    BY <2>1, SizeFacts
  <2> HIDE DEF z
  <2> QED
    BY <2>2
<1>3. y \in WordAligned /\ y <= 136
  <2>1. BootInfo \in Structures /\ Len(BootInfo) = 11
    BY TheTypes DEF Structures
  <2>2. y \in WordAligned /\ y <= 12 * 11 + 4
    BY <2>1, SizeFacts
  <2> HIDE DEF y
  <2> QED
    BY <2>2
<1>4. Ranges \in Nat /\ Ranges <= 128
  BY DEF MaxRanges
<1>5. /\ Ranges * z <= 128 * z /\ Ranges * z \in Nat
      /\ \A m \in 0 .. Ranges - 1 :
           m * z \in WordAligned /\ m * z + z <= Ranges * z
  <2>1. Ranges * z <= 128 * z /\ Ranges * z \in WordAligned
    <3>1. 128 \in Nat
      OBVIOUS
    <3> QED
      BY <1>2, <1>4, <3>1, Multiples
  <2>2. ASSUME NEW m \in 0 .. Ranges - 1
        PROVE  m * z \in WordAligned /\ m * z + z <= Ranges * z
    <3>1. m \in Nat /\ m + 1 \in Nat /\ m + 1 <= Ranges
      BY <1>4
    <3> HIDE DEF z
    <3>2. (m + 1) * z <= Ranges * z /\ (m + 1) * z = m * z + z /\ m * z \in WordAligned
      BY <1>2, <1>4, <3>1, Multiples
    <3> QED
      BY <3>2
  <2> QED
    BY <2>1, <2>2 DEF WordAligned
<1>6. EntriesBase + Ranges * z <= BootInfoBase
  <2> DEFINE x == Ranges * z
  <2>1. x \in Nat /\ x <= 128 * z
    BY <1>5
  <2> HIDE DEF x, z
  <2>2. x <= 6656
    BY <1>2, <2>1 DEF WordAligned
  <2> QED
    BY <2>1, <2>2 DEF x, EntriesBase, BootInfoBase
<1>7. BootInfoBase + y <= ResponseBase
  <2> HIDE DEF y
  <2> QED
    BY <1>3 DEF BootInfoBase, ResponseBase, WordAligned
<1>8. ASSUME NEW m \in 0 .. Ranges - 1
      PROVE  /\ Element(EntriesBase, MmapEntry, m) \in WordAligned
             /\ Element(EntriesBase, MmapEntry, m) + z <= BootInfoBase
  <2>1. Element(EntriesBase, MmapEntry, m) = EntriesBase + m * z
    BY DEF Element
  <2> DEFINE x == m * z
             v == Ranges * z
  <2>2. x \in WordAligned /\ x + z <= v /\ v \in Nat /\ EntriesBase + v <= BootInfoBase
    BY <1>5, <1>6
  <2> HIDE DEF x, v, z
  <2>3. EntriesBase + x \in WordAligned /\ (EntriesBase + x) + z <= BootInfoBase
    BY <1>2, <2>2 DEF WordAligned, EntriesBase, BootInfoBase
  <2> QED
    BY <2>1, <2>3 DEF x
<1> QED
  BY <1>1, <1>6, <1>7, <1>8

\* What lies below the allocator stays when something is stored from there on.
LEMMA LowStays ==
  ASSUME RamInv, NEW new, NEW from \in Nat, NEW to \in Nat,
         SameOutside(ram, new, from, to), response_ptr <= from
  PROVE  /\ MapHeld => \A m \in 0 .. Ranges - 1 :
                         Held(new, LoaderAbi, <<"range", m>>, MmapEntry,
                              Element(EntriesBase, MmapEntry, m))
         /\ BootInfoHeld => Held(new, LoaderAbi, <<"boot_info", 0>>, BootInfo, BootInfoBase)
         /\ \A kind \in DOMAIN answers :
              Held(new, LoaderAbi, <<kind, 0>>, Response(kind), answers[kind])
         /\ \A m \in Nat : CpuHeld(m) =>
              Held(new, LoaderAbi, <<"cpu", m>>, SmpInfo, Element(CpusBase, SmpInfo, m))
<1>0. LoaderAbi \in Abis
  BY DEF LoaderAbi, Abis
<1>1. ASSUME NEW struct \in Structures, NEW base \in WordAligned, NEW owner,
             base + Size(LoaderAbi, struct) <= response_ptr,
             Held(ram, LoaderAbi, owner, struct, base)
      PROVE  Held(new, LoaderAbi, owner, struct, base)
  <2>1. base + Size(LoaderAbi, struct) <= from
    <3>1. Size(LoaderAbi, struct) \in Nat /\ base \in Nat /\ response_ptr \in Nat
      BY <1>0, SizeFacts DEF WordAligned, RamInv
    <3> QED
      BY <1>1, <3>1
  <2> QED
    BY <1>0, <1>1, <2>1, HeldStays
<1>2. /\ MmapEntry \in Structures /\ BootInfo \in Structures /\ SmpInfo \in Structures
      /\ \A kind : Response(kind) \in Structures
  BY DEF Structures, Response
<1>3. ResponseBase <= response_ptr /\ response_ptr \in Nat /\ Ranges \in 0 .. MaxRanges
      /\ BootInfoBase <= ResponseBase /\ BootInfoBase \in Nat /\ ResponseBase \in Nat
  BY DEF RamInv, BootInfoBase, ResponseBase
<1>4. ASSUME MapHeld, NEW m \in 0 .. Ranges - 1
      PROVE  Held(new, LoaderAbi, <<"range", m>>, MmapEntry, Element(EntriesBase, MmapEntry, m))
  <2> DEFINE b == Element(EntriesBase, MmapEntry, m)
  <2>1. b \in WordAligned /\ b + Size(LoaderAbi, MmapEntry) <= BootInfoBase
    BY <1>0, <1>3, PlacesBelow
  <2>2. b + Size(LoaderAbi, MmapEntry) <= response_ptr
    <3>1. Size(LoaderAbi, MmapEntry) \in Nat
      BY <1>0, <1>2, SizeFacts DEF WordAligned
    <3> HIDE DEF b
    <3> QED
      BY <1>3, <2>1, <3>1 DEF WordAligned
  <2>3. Held(ram, LoaderAbi, <<"range", m>>, MmapEntry, b)
    BY <1>4 DEF MapHeld
  <2> HIDE DEF b
  <2>4. Held(new, LoaderAbi, <<"range", m>>, MmapEntry, b)
    BY <1>1, <1>2, <2>1, <2>2, <2>3
  <2> QED
    BY <2>4 DEF b
<1>5. ASSUME BootInfoHeld
      PROVE  Held(new, LoaderAbi, <<"boot_info", 0>>, BootInfo, BootInfoBase)
  <2>1. BootInfoBase \in WordAligned /\ BootInfoBase + Size(LoaderAbi, BootInfo) <= ResponseBase
    BY <1>0, <1>3, PlacesBelow
  <2>2. BootInfoBase + Size(LoaderAbi, BootInfo) <= response_ptr
    <3>1. Size(LoaderAbi, BootInfo) \in Nat
      BY <1>0, <1>2, SizeFacts DEF WordAligned
    <3> QED
      BY <1>3, <2>1, <3>1
  <2> QED
    BY <1>1, <1>2, <1>5, <2>1, <2>2 DEF BootInfoHeld
<1>6. ASSUME NEW kind \in DOMAIN answers
      PROVE  Held(new, LoaderAbi, <<kind, 0>>, Response(kind), answers[kind])
  <2>1. ResponseHeld(kind)
    BY DEF RamInv
  <2> QED
    BY <1>1, <1>2, <2>1 DEF ResponseHeld
<1>7. ASSUME NEW m \in Nat, CpuHeld(m)
      PROVE  Held(new, LoaderAbi, <<"cpu", m>>, SmpInfo, Element(CpusBase, SmpInfo, m))
  BY <1>1, <1>2, <1>7 DEF CpuHeld
<1> QED
  BY <1>4, <1>5, <1>6, <1>7

LEMMA StoreMapStep ==
  ASSUME RamInv, StoreMap
  PROVE  RamInv'
<1>1. /\ pc = "map" /\ pc' = "boot_info" /\ answers = <<>> /\ answers' = answers
      /\ loader' = loader /\ response_ptr' = response_ptr
      /\ map_count' \in Nat /\ map_ok = FALSE /\ Ranges = 0
      /\ \/ /\ map_ok' = TRUE /\ map_count' \in 0 .. MaxRanges
            /\ ram' = StoredArray(ram, "range", MmapEntry, EntriesBase, map_count')
         \/ map_ok' = map_ok /\ UNCHANGED ram
  <2>1. /\ pc = "map" /\ pc' = "boot_info" /\ answers' = answers
        /\ UNCHANGED <<loader, response_ptr>>
        /\ \/ /\ map_ok' = TRUE /\ map_count' \in MapCounts
              /\ ram' = StoredArray(ram, "range", MmapEntry, EntriesBase, map_count')
           \/ UNCHANGED <<map_ok, map_count, ram>>
    BY DEF StoreMap
  <2>2. /\ answers = <<>> /\ map_count \in Nat /\ map_ok = FALSE
    BY <2>1 DEF RamInv
  <2>3. \A c \in MapCounts : c \in Nat /\ c \in 0 .. MaxRanges
    BY KernelAssumption DEF MaxRanges
  <2> QED
    BY <2>1, <2>2, <2>3 DEF Ranges
<1>2. Ranges' \in 0 .. MaxRanges
  BY <1>1 DEF Ranges, MaxRanges
<1>3. MapHeld'
  <2>1. CASE map_ok' = TRUE /\ map_count' \in 0 .. MaxRanges
             /\ ram' = StoredArray(ram, "range", MmapEntry, EntriesBase, map_count')
    <3>1. /\ MmapEntry \in Structures /\ EntriesBase \in WordAligned
          /\ map_count' \in Nat /\ Ranges' = map_count'
      BY <2>1 DEF Structures, EntriesBase, WordAligned, Ranges, MaxRanges
    <3>2. \A m \in 0 .. map_count' - 1 :
            Held(ram', LoaderAbi, <<"range", m>>, MmapEntry, Element(EntriesBase, MmapEntry, m))
      BY <2>1, <3>1, StoredArrayFacts
    <3> QED
      BY <1>1, <3>1, <3>2 DEF MapHeld, LoaderAbi, Element
  <2>2. CASE map_ok' = map_ok /\ UNCHANGED ram
    <3>1. Ranges' = 0
      BY <1>1, <2>2 DEF Ranges
    <3>2. 0 .. Ranges' - 1 = {}
      BY <3>1
    <3> QED
      BY <3>2 DEF MapHeld
  <2> QED
    BY <1>1, <2>1, <2>2
<1>4. DOMAIN answers' = {}
  BY <1>1
<1>5. pc' \notin {"paging", "map"} /\ map_count' \in Nat
  BY <1>1
<1> QED
  BY <1>1, <1>2, <1>3, <1>4, <1>5 DEF RamInv

LEMMA StoreBootInfoStep ==
  ASSUME RamInv, StoreBootInfo
  PROVE  RamInv'
<1>1. /\ pc = "boot_info" /\ pc' = "answer" /\ answers = <<>> /\ answers' = answers
      /\ loader' = loader /\ UNCHANGED <<map_count, Ranges, response_ptr>>
      /\ ram' = Stored(ram, <<"boot_info", 0>>, BootInfo, BootInfoBase)
  BY DEF RamInv, StoreBootInfo, machine, Ranges
<1> DEFINE z == Size(LoaderAbi, BootInfo)
<1>2. BootInfo \in Structures /\ BootInfoBase \in WordAligned
  BY DEF Structures, BootInfoBase, WordAligned
<1>3. /\ Held(ram', LoaderAbi, <<"boot_info", 0>>, BootInfo, BootInfoBase)
      /\ SameOutside(ram, ram', BootInfoBase, BootInfoBase + z)
  BY <1>1, <1>2, StoredFacts
<1>4. BootInfoHeld'
  BY <1>1, <1>3 DEF BootInfoHeld, LoaderAbi
<1>5. MapHeld'
  <2>1. LoaderAbi \in Abis /\ Ranges \in 0 .. MaxRanges /\ MmapEntry \in Structures
    BY DEF LoaderAbi, Abis, RamInv, Structures
  <2>2. ASSUME NEW m \in 0 .. Ranges - 1
        PROVE  Held(ram', LoaderAbi, <<"range", m>>, MmapEntry, Element(EntriesBase, MmapEntry, m))
    <3> DEFINE b == Element(EntriesBase, MmapEntry, m)
               to == BootInfoBase + z
    <3>1. b \in WordAligned /\ b + Size(LoaderAbi, MmapEntry) <= BootInfoBase
      BY <2>1, PlacesBelow
    <3>2. Held(ram, LoaderAbi, <<"range", m>>, MmapEntry, b)
      BY <1>1 DEF RamInv, MapHeld
    <3>3. to \in Nat /\ BootInfoBase \in Nat
      <4>1. z \in WordAligned
        BY <1>2, <2>1, SizeFacts
      <4> QED
        BY <1>2, <4>1 DEF WordAligned
    <3>4. SameOutside(ram, ram', BootInfoBase, to)
      BY <1>3
    <3> HIDE DEF b, to
    <3>5. Held(ram', LoaderAbi, <<"range", m>>, MmapEntry, b)
      BY <2>1, <3>1, <3>2, <3>3, <3>4, HeldStays
    <3> QED
      BY <3>5 DEF b
  <2> QED
    BY <1>1, <2>2 DEF MapHeld, LoaderAbi, Element
<1>6. DOMAIN answers' = {}
  BY <1>1
<1> QED
  BY <1>1, <1>4, <1>5, <1>6 DEF RamInv

\* A response of any kind is stored from the allocator on, and pointed to.
LEMMA ResponseStored ==
  ASSUME RamInv, NEW kind \in Kinds, kind \notin DOMAIN answers,
         pc = "answer", pc' = IF kind = "smp" THEN "discover" ELSE "answer",
         ram' = Filled(kind), answers' = Pointing(kind),
         response_ptr' \in Nat, Behind(kind) <= response_ptr',
         kind = "smp" => response_ptr' = Behind(kind),
         UNCHANGED <<loader, map_count, Ranges, acpi>>
  PROVE  RamInv'
<1> DEFINE z == Size(LoaderAbi, Response(kind))
           to == At + z
<1>0. LoaderAbi \in Abis /\ LoaderAbi' = LoaderAbi /\ Response(kind) \in Structures
  BY DEF LoaderAbi, Abis, Structures, Response
<1>1. response_ptr \in Nat /\ At \in WordAligned /\ response_ptr <= At /\ At \in Nat
  BY AllocatedFacts DEF RamInv, At, WordAligned
<1>2. z \in Nat /\ to \in Nat /\ to = Behind(kind)
  BY <1>0, <1>1, SizeFacts DEF WordAligned, Behind
<1>3. /\ Held(ram', LoaderAbi, <<kind, 0>>, Response(kind), At)
      /\ SameOutside(ram, ram', At, to)
  BY <1>0, <1>1, StoredFacts DEF Filled
<1>4. /\ DOMAIN answers' = DOMAIN answers \cup {kind} /\ answers'[kind] = At
      /\ \A k \in DOMAIN answers : k # kind /\ answers'[k] = answers[k]
  BY DEF Pointing
<1> HIDE DEF to, z
<1>5. /\ MapHeld => MapHeld'
      /\ BootInfoHeld => BootInfoHeld'
      /\ \A k \in DOMAIN answers :
           Held(ram', LoaderAbi, <<k, 0>>, Response(k), answers[k])
      /\ \A m \in Nat : CpuHeld(m) =>
           Held(ram', LoaderAbi, <<"cpu", m>>, SmpInfo, Element(CpusBase, SmpInfo, m))
  <2>1. /\ MapHeld => \A m \in 0 .. Ranges - 1 :
                         Held(ram', LoaderAbi, <<"range", m>>, MmapEntry,
                              Element(EntriesBase, MmapEntry, m))
        /\ BootInfoHeld => Held(ram', LoaderAbi, <<"boot_info", 0>>, BootInfo, BootInfoBase)
        /\ \A k \in DOMAIN answers :
              Held(ram', LoaderAbi, <<k, 0>>, Response(k), answers[k])
        /\ \A m \in Nat : CpuHeld(m) =>
              Held(ram', LoaderAbi, <<"cpu", m>>, SmpInfo, Element(CpusBase, SmpInfo, m))
    BY <1>1, <1>2, <1>3, LowStays
  <2> QED
    BY <1>0, <2>1 DEF MapHeld, BootInfoHeld, Element
<1>6. ResponseBase <= response_ptr' /\ response_ptr <= response_ptr' /\ ResponseBase \in Nat
  BY <1>1, <1>2 DEF RamInv, ResponseBase, to
<1>7. ASSUME NEW k \in DOMAIN answers'
      PROVE  ResponseHeld(k)'
  <2>1. CASE k = kind
    <3>1. ResponseBase <= At /\ At + z <= response_ptr'
      BY <1>1, <1>2, <1>6 DEF RamInv, to
    <3> QED
      BY <1>0, <1>1, <1>3, <1>4, <2>1, <3>1 DEF ResponseHeld, z
  <2>2. CASE k # kind
    <3>1. k \in DOMAIN answers /\ answers'[k] = answers[k]
      BY <1>4, <2>2
    <3>2. ResponseHeld(k)
      BY <3>1 DEF RamInv
    <3>3. Held(ram', LoaderAbi, <<k, 0>>, Response(k), answers[k])
      BY <1>5, <3>1
    <3>4. answers[k] + Size(LoaderAbi, Response(k)) <= response_ptr'
      <4> DEFINE y == Size(LoaderAbi, Response(k))
      <4>1. y \in Nat /\ answers[k] \in Nat /\ answers[k] + y <= response_ptr
        BY <1>0, <3>2, SizeFacts DEF ResponseHeld, WordAligned, Structures, Response
      <4> HIDE DEF y
      <4>2. answers[k] + y <= response_ptr'
        BY <1>1, <1>6, <4>1
      <4> QED
        BY <4>2 DEF y
    <3> QED
      BY <1>0, <3>1, <3>2, <3>3, <3>4 DEF ResponseHeld
  <2> QED
    BY <2>1, <2>2
<1>8. ASSUME "smp" \in DOMAIN answers', pc' # "discover", NEW m \in 0 .. Cardinality(Processors') - 1
      PROVE  CpuHeld(m)'
  <2>1. kind # "smp" /\ "smp" \in DOMAIN answers
    BY <1>4, <1>8
  <2>2. CpusBase' = CpusBase /\ Element(CpusBase, SmpInfo, m)' = Element(CpusBase, SmpInfo, m)
    BY <1>0, <1>4, <2>1 DEF CpusBase, Element
  <2>3. Processors' = Processors
    BY TablesStay
  <2>4. CpuHeld(m) /\ m \in Nat
    BY <2>1, <2>3 DEF RamInv
  <2> DEFINE b == Element(CpusBase, SmpInfo, m)
             y == Size(LoaderAbi, SmpInfo)
  <2>5. b \in WordAligned /\ b + y <= response_ptr /\ y \in Nat
    BY <1>0, <2>4, SizeFacts DEF CpuHeld, WordAligned, Structures
  <2>6. b + y <= response_ptr'
    <3> HIDE DEF b, y
    <3> QED
      BY <1>1, <1>6, <2>5 DEF WordAligned
  <2>7. Held(ram', LoaderAbi, <<"cpu", m>>, SmpInfo, b)
    BY <1>5, <2>4
  <2> QED
    BY <1>0, <2>2, <2>5, <2>6, <2>7 DEF CpuHeld
<1>9. pc' = "discover" =>
        /\ "smp" \in DOMAIN answers'
        /\ response_ptr' = answers'["smp"] + Size(LoaderAbi, Response("smp"))
  <2> SUFFICES ASSUME pc' = "discover" PROVE kind = "smp"
    BY <1>2, <1>4 DEF to, z
  <2> QED
    OBVIOUS
<1>10. MapHeld' /\ BootInfoHeld'
  BY <1>5 DEF RamInv
<1>11. /\ loader' \in {"bios", "uefi"} /\ Ranges' \in 0 .. MaxRanges /\ map_count' \in Nat
       /\ pc' \notin {"paging", "map", "boot_info"}
  BY DEF RamInv
<1> QED
  BY <1>0, <1>6, <1>7, <1>8, <1>9, <1>10, <1>11 DEF RamInv

\* The processors' array is stored behind the response.
LEMMA FinishSmpStep ==
  ASSUME RamInv, DiscoveryInv, FinishSmp
  PROVE  RamInv'
<1> DEFINE c == Cardinality(Processors)
           y == Size(LoaderAbi, SmpInfo)
<1>0. /\ LoaderAbi \in Abis /\ LoaderAbi' = LoaderAbi /\ SmpInfo \in Structures
      /\ pc = "discover" /\ pc' = "answer" /\ answers' = answers
      /\ UNCHANGED <<loader, map_count, Ranges, acpi>> /\ Processors' = Processors
  <2>1. pc = "discover" /\ pc' = "answer" /\ answers' = answers
        /\ UNCHANGED <<loader, map_count, Ranges, acpi>>
    BY DEF FinishSmp, machine, discovery, Ranges
  <2> QED
    BY <2>1, TablesStay DEF LoaderAbi, Abis, Structures
<1>1. walk.count = c /\ Len(walk.cpus) = c /\ c \in Nat
  <2>1. MachineFits /\ ProcessorsFound /\ walk.pass = "done"
    BY DEF DiscoveryInv, FinishSmp
  <2> QED
    BY <2>1, PlaceFacts DEF ProcessorsFound
<1>2. /\ response_ptr \in Nat /\ At \in WordAligned /\ response_ptr <= At /\ At \in Nat
      /\ At = CpusBase /\ CpusBase' = CpusBase
  <2>1. response_ptr \in Nat /\ response_ptr = answers["smp"] + Size(LoaderAbi, Response("smp"))
    BY <1>0 DEF RamInv
  <2> QED
    BY <1>0, <2>1, AllocatedFacts DEF At, CpusBase, WordAligned
<1>3. y \in WordAligned
  BY <1>0, SizeFacts
<1> HIDE DEF c
<1>4. CASE c = 0
  <2>1. ram' = ram /\ response_ptr' = response_ptr
    BY <1>1, <1>4 DEF FinishSmp
  <2>2. MapHeld' /\ BootInfoHeld'
    BY <1>0, <2>1 DEF RamInv, MapHeld, BootInfoHeld, Element
  <2>3. \A kind \in DOMAIN answers' : ResponseHeld(kind)'
    BY <1>0, <2>1 DEF RamInv, ResponseHeld
  <2>4. 0 .. Cardinality(Processors') - 1 = {}
    BY <1>0, <1>4 DEF c
  <2> QED
    BY <1>0, <2>1, <2>2, <2>3, <2>4 DEF RamInv
<1>5. CASE c # 0
  <2> DEFINE to == At + c * y
  <2>1. ram' = StoredArray(ram, "cpu", SmpInfo, At, c) /\ response_ptr' = to
    BY <1>1, <1>5 DEF FinishSmp, BehindCpus
  <2>2. c * y \in Nat /\ to \in Nat /\ At <= to
    <3>1. c * y \in WordAligned
      BY <1>1, <1>3, Multiples
    <3> QED
      BY <1>2, <3>1 DEF WordAligned
  <2>3. /\ \A m \in 0 .. c - 1 :
             /\ Element(At, SmpInfo, m) \in WordAligned
             /\ Held(ram', LoaderAbi, <<"cpu", m>>, SmpInfo, Element(At, SmpInfo, m))
        /\ SameOutside(ram, ram', At, to)
    BY <1>0, <1>1, <1>2, <2>1, StoredArrayFacts
  <2>4. \A m \in 0 .. c - 1 : Element(At, SmpInfo, m) + y <= to
    <3> TAKE m \in 0 .. c - 1
    <3>1. m \in Nat /\ m + 1 \in Nat /\ m + 1 <= c
      BY <1>1
    <3>2. (m + 1) * y <= c * y /\ (m + 1) * y = m * y + y /\ m * y \in Nat
      BY <1>1, <1>3, <3>1, Multiples DEF WordAligned
    <3>3. Element(At, SmpInfo, m) = At + m * y
      BY DEF Element
    <3> DEFINE u == m * y
               v == c * y
    <3>4. u \in Nat /\ u + y <= v /\ v \in Nat /\ Element(At, SmpInfo, m) = At + u
      BY <2>2, <3>2, <3>3
    <3>5. y \in Nat
      BY <1>3 DEF WordAligned
    <3> HIDE DEF u, y
    <3>6. (At + u) + y <= At + v
      <4> HIDE DEF v
      <4> QED
        BY <1>2, <3>4, <3>5
    <3> QED
      BY <3>4, <3>6
  <2> HIDE DEF to
  <2>5. /\ MapHeld' /\ BootInfoHeld'
        /\ \A k \in DOMAIN answers : Held(ram', LoaderAbi, <<k, 0>>, Response(k), answers[k])
    <3>1. /\ MapHeld => \A m \in 0 .. Ranges - 1 :
                         Held(ram', LoaderAbi, <<"range", m>>, MmapEntry,
                              Element(EntriesBase, MmapEntry, m))
          /\ BootInfoHeld => Held(ram', LoaderAbi, <<"boot_info", 0>>, BootInfo, BootInfoBase)
          /\ \A k \in DOMAIN answers :
              Held(ram', LoaderAbi, <<k, 0>>, Response(k), answers[k])
      BY <1>2, <2>2, <2>3, LowStays
    <3>2. MapHeld /\ BootInfoHeld
      BY <1>0 DEF RamInv
    <3> QED
      BY <1>0, <3>1, <3>2 DEF MapHeld, BootInfoHeld, Element
  <2>6. response_ptr <= response_ptr' /\ ResponseBase <= response_ptr' /\ response_ptr' \in Nat
    BY <1>2, <2>1, <2>2 DEF RamInv, ResponseBase
  <2>7. ASSUME NEW k \in DOMAIN answers'
        PROVE  ResponseHeld(k)'
    <3>1. ResponseHeld(k)
      BY <1>0 DEF RamInv
    <3>2. answers[k] + Size(LoaderAbi, Response(k)) <= response_ptr'
      <4> DEFINE z == Size(LoaderAbi, Response(k))
      <4>1. z \in Nat /\ answers[k] \in Nat /\ answers[k] + z <= response_ptr
        BY <1>0, <3>1, SizeFacts DEF ResponseHeld, WordAligned, Structures, Response
      <4> HIDE DEF z
      <4>2. answers[k] + z <= response_ptr'
        BY <1>2, <2>6, <4>1
      <4> QED
        BY <4>2 DEF z
    <3> QED
      BY <1>0, <2>5, <3>1, <3>2 DEF ResponseHeld
  <2>8. ASSUME NEW m \in 0 .. Cardinality(Processors') - 1
        PROVE  CpuHeld(m)'
    <3>1. m \in 0 .. c - 1
      BY <1>0 DEF c
    <3>2. Element(CpusBase, SmpInfo, m)' = Element(At, SmpInfo, m)
      BY <1>0, <1>2 DEF Element
    <3> QED
      BY <1>0, <2>1, <2>3, <2>4, <3>1, <3>2 DEF CpuHeld
  <2> QED
    BY <1>0, <2>5, <2>6, <2>7, <2>8 DEF RamInv
<1> QED
  BY <1>4, <1>5

\* Every request so far has its response, and no other kind has one.
AnsweredSoFar == {requested[m] : m \in 1 .. n - 1}
AskedInv ==
  /\ requested \in Seq(Kinds)
  /\ \A k, m \in DOMAIN requested : requested[k] = requested[m] => k = m
  /\ n \in 1 .. Len(requested) + 1
  /\ pc \in {"paging", "map", "boot_info"} => n = 1
  /\ pc # "discover" => DOMAIN answers = AnsweredSoFar
  /\ pc = "discover" =>
       /\ n <= Len(requested) /\ requested[n] = "smp"
       /\ DOMAIN answers = AnsweredSoFar \cup {"smp"}
  /\ Entered => n = Len(requested) + 1

LEMMA NotYetAnswered ==
  ASSUME AskedInv, NEW kind \in Kinds, Asked(kind)
  PROVE  /\ kind \notin DOMAIN answers
         /\ n + 1 \in 1 .. Len(requested) + 1
         /\ {requested[m] : m \in 1 .. n} = DOMAIN answers \cup {kind}
<1>1. /\ pc = "answer" /\ n \in Nat \ {0} /\ n <= Len(requested) /\ Len(requested) \in Nat
      /\ n \in DOMAIN requested /\ requested[n] = kind
      /\ DOMAIN requested = 1 .. Len(requested)
  BY DEF AskedInv, Asked
<1>2. DOMAIN answers = AnsweredSoFar
  BY <1>1 DEF AskedInv
<1>3. kind \notin AnsweredSoFar
  <2> SUFFICES ASSUME NEW m \in 1 .. n - 1, requested[m] = kind PROVE FALSE
    BY DEF AnsweredSoFar
  <2>1. m \in DOMAIN requested /\ m # n
    BY <1>1
  <2> QED
    BY <1>1, <2>1 DEF AskedInv
<1>4. {requested[m] : m \in 1 .. n} = AnsweredSoFar \cup {kind}
  <2>1. \A m : m \in 1 .. n <=> m \in 1 .. n - 1 \/ m = n
    BY <1>1
  <2> QED
    BY <1>1, <2>1 DEF AnsweredSoFar
<1> QED
  BY <1>1, <1>2, <1>3, <1>4

LEMMA NextAskedInv ==
  ASSUME AskedInv, [Next]_vars
  PROVE  AskedInv'
<1>1. CASE Answer \/ AnswerKernelFile
  <2>1. PICK kind \in Kinds : Asked(kind) /\ answers' = Pointing(kind) /\ n' = n + 1
                              /\ pc' = pc /\ requested' = requested
    BY <1>1 DEF Answer, AnswerKernelFile, machine, Kinds
  <2>2. pc = "answer" /\ DOMAIN answers' = DOMAIN answers \cup {kind}
    BY <2>1 DEF Asked, Pointing
  <2>3. DOMAIN answers' = {requested[m] : m \in 1 .. n}
    BY <2>1, <2>2, NotYetAnswered
  <2>4. n' - 1 = n
    BY <2>1 DEF AskedInv
  <2>5. DOMAIN answers' = AnsweredSoFar'
    BY <2>1, <2>3, <2>4 DEF AnsweredSoFar
  <2> QED
    BY <2>1, <2>2, <2>5, NotYetAnswered DEF AskedInv, Entered
<1>2. CASE BeginSmp
  <2>1. /\ Asked("smp") /\ pc' = "discover" /\ answers' = Pointing("smp") /\ n' = n
        /\ requested' = requested
    BY <1>2 DEF BeginSmp, machine
  <2>2. pc = "answer" /\ DOMAIN answers' = DOMAIN answers \cup {"smp"}
        /\ n <= Len(requested) /\ requested[n] = "smp"
    BY <2>1 DEF Asked, Pointing
  <2>3. DOMAIN answers' = AnsweredSoFar' \cup {"smp"}
    BY <2>1, <2>2 DEF AskedInv, AnsweredSoFar
  <2> QED
    BY <2>1, <2>2, <2>3 DEF AskedInv, Entered
<1>3. CASE FinishSmp
  <2>1. /\ pc = "discover" /\ pc' = "answer" /\ answers' = answers /\ n' = n + 1
        /\ requested' = requested
    BY <1>3 DEF FinishSmp, machine
  <2>2. /\ n <= Len(requested) /\ requested[n] = "smp" /\ n \in Nat \ {0}
        /\ DOMAIN answers = AnsweredSoFar \cup {"smp"} /\ Len(requested) \in Nat
    BY <2>1 DEF AskedInv
  <2>3. \A m : m \in 1 .. n' - 1 <=> m \in 1 .. n - 1 \/ m = n
    BY <2>1, <2>2
  <2>4. DOMAIN answers' = AnsweredSoFar'
    BY <2>1, <2>2, <2>3 DEF AnsweredSoFar
  <2>5. n' \in 1 .. Len(requested) + 1
    BY <2>1, <2>2
  <2> QED
    BY <2>1, <2>4, <2>5 DEF AskedInv, Entered
<1>4. CASE EnterKernel
  <2>1. /\ pc = "answer" /\ pc' = "kernel_main" /\ n > Len(requested)
        /\ UNCHANGED <<answers, n, requested>>
    BY <1>4 DEF EnterKernel, machine
  <2>2. n = Len(requested) + 1
    BY <2>1 DEF AskedInv
  <2> QED
    BY <2>1, <2>2 DEF AskedInv, AnsweredSoFar
<1>5. CASE ~(Answer \/ AnswerKernelFile \/ BeginSmp \/ FinishSmp \/ EnterKernel)
  <2>1. /\ UNCHANGED <<answers, n, requested>>
        /\ (pc' = "discover") = (pc = "discover") /\ Entered' = Entered
        /\ pc' \in {"paging", "map", "boot_info"} => pc \in {"paging", "map", "boot_info"}
    BY <1>5 DEF Next, SetUpPaging, StoreMap, StoreBootInfo, Discover, Draw,
       ReportMap, ReportHhdm, ReportMode, Done, vars, machine, Entered
  <2> QED
    BY <2>1 DEF AskedInv, AnsweredSoFar
<1> QED
  BY <1>1, <1>2, <1>3, <1>4, <1>5

LEMMA InitRamAsked == Init => RamInv /\ AskedInv
<1> SUFFICES ASSUME Init PROVE RamInv /\ AskedInv
  OBVIOUS
<1>1. PICK b \in Boots : requested = b.requested
  BY DEF Init
<1>2. /\ requested \in Seq(Kinds)
      /\ \A k, m \in DOMAIN requested : requested[k] = requested[m] => k = m
  BY <1>1, KernelAssumption
<1>3. /\ loader \in {"bios", "uefi"} /\ Ranges \in 0 .. MaxRanges
      /\ map_count \in Nat /\ map_ok = FALSE
      /\ pc \in {"paging", "map"} /\ answers = <<>> /\ n = 1
      /\ response_ptr = ResponseBase
  BY KernelAssumption DEF Init, Ranges, MaxRanges
<1>4. DOMAIN answers = {} /\ 1 .. n - 1 = {} /\ Len(requested) \in Nat
  BY <1>2, <1>3
<1>5. RamInv
  BY <1>3, <1>4 DEF RamInv, ResponseBase
<1>6. AskedInv
  BY <1>2, <1>3, <1>4 DEF AskedInv, AnsweredSoFar, Entered
<1> QED
  BY <1>5, <1>6

LEMMA NextRamInv ==
  ASSUME RamInv, AskedInv, DiscoveryInv, [Next]_vars
  PROVE  RamInv'
<1>1. CASE Answer
  <2>1. PICK kind \in Kinds \ {"kernel_file", "smp"} :
          /\ Asked(kind) /\ ram' = Filled(kind) /\ response_ptr' = Behind(kind)
          /\ answers' = Pointing(kind)
    BY <1>1 DEF Answer
  <2>2. pc' = pc /\ pc = "answer" /\ UNCHANGED <<loader, map_count, Ranges, acpi>>
    BY <1>1, <2>1 DEF Answer, machine, discovery, Asked, Ranges
  <2>3. Behind(kind) \in Nat
    <3>1. At \in Nat
      BY AllocatedFacts DEF RamInv, At, WordAligned
    <3>2. Size(LoaderAbi, Response(kind)) \in Nat
      BY SizeFacts DEF WordAligned, Structures, Response, LoaderAbi, Abis
    <3> QED
      BY <3>1, <3>2 DEF Behind
  <2>4. kind \notin DOMAIN answers
    BY <2>1, NotYetAnswered
  <2>5. Behind(kind) <= response_ptr' /\ response_ptr' \in Nat
    BY <2>1, <2>3
  <2> QED
    BY <2>1, <2>2, <2>4, <2>5, ResponseStored
<1>2. CASE AnswerKernelFile
  <2> DEFINE kind == "kernel_file"
             b == Behind(kind)
  <2>1. /\ Asked(kind) /\ ram' = Filled(kind) /\ answers' = Pointing(kind)
        /\ response_ptr' = Allocated(b) + CmdlineSize
        /\ pc' = pc /\ pc = "answer" /\ UNCHANGED <<loader, map_count, Ranges, acpi>>
        /\ kind \in Kinds /\ kind # "smp"
    BY <1>2 DEF AnswerKernelFile, machine, discovery, Asked, Kinds, Ranges
  <2>2. b \in Nat
    <3>1. At \in Nat
      BY AllocatedFacts DEF RamInv, At, WordAligned
    <3>2. Size(LoaderAbi, Response(kind)) \in Nat
      BY SizeFacts DEF WordAligned, Structures, Response, LoaderAbi, Abis
    <3> QED
      BY <3>1, <3>2 DEF Behind
  <2>3. kind \notin DOMAIN answers
    BY <2>1, NotYetAnswered
  <2>4. b <= response_ptr' /\ response_ptr' \in Nat
    <3>1. CmdlineSize \in Nat
      BY KernelAssumption
    <3>2. b <= Allocated(b) /\ Allocated(b) \in Nat
      BY <2>2, AllocatedFacts DEF WordAligned
    <3> HIDE DEF b
    <3> QED
      BY <2>1, <2>2, <3>1, <3>2
  <2> QED
    BY <2>1, <2>3, <2>4, ResponseStored
<1>3. CASE BeginSmp
  <2>1. /\ Asked("smp") /\ ram' = Filled("smp") /\ answers' = Pointing("smp")
        /\ response_ptr' = Behind("smp") /\ "smp" \in Kinds
        /\ pc' = "discover" /\ pc = "answer" /\ UNCHANGED <<loader, map_count, Ranges, acpi>>
    BY <1>3 DEF BeginSmp, machine, StartWalk, Asked, Kinds, Ranges
  <2>2. Behind("smp") \in Nat
    <3>1. At \in Nat
      BY AllocatedFacts DEF RamInv, At, WordAligned
    <3>2. Size(LoaderAbi, Response("smp")) \in Nat
      BY SizeFacts DEF WordAligned, Structures, Response, LoaderAbi, Abis
    <3> QED
      BY <3>1, <3>2 DEF Behind
  <2>3. "smp" \notin DOMAIN answers
    BY <2>1, NotYetAnswered
  <2>4. Behind("smp") <= response_ptr' /\ response_ptr' \in Nat
    BY <2>1, <2>2
  <2> QED
    BY <2>1, <2>3, <2>4, ResponseStored
<1>4. CASE ~(Answer \/ AnswerKernelFile \/ BeginSmp \/ FinishSmp \/ StoreMap \/ StoreBootInfo)
  <2>1. /\ UNCHANGED <<answers, ram, response_ptr, loader, map_count, map_ok, Ranges>>
        /\ acpi' = acpi
        /\ (pc' = "discover") = (pc = "discover")
        /\ pc' \in {"paging", "map"} <=> pc \in {"paging", "map"}
        /\ pc' = "boot_info" <=> pc = "boot_info"
    BY <1>4 DEF Next, SetUpPaging, Discover, EnterKernel, Draw, ReportMap, ReportHhdm,
       ReportMode, Done, vars, machine, discovery, WalkMadt, CountEntry, EndCount,
       FillEntry, EndFill, Ranges
  <2>2. Processors' = Processors
    BY <2>1, TablesStay
  <2>3. LoaderAbi' = LoaderAbi /\ CpusBase' = CpusBase
    BY <2>1 DEF LoaderAbi, CpusBase
  <2>4. MapHeld' = MapHeld /\ BootInfoHeld' = BootInfoHeld
    BY <2>1, <2>3 DEF MapHeld, BootInfoHeld, Element
  <2>5. \A kind : ResponseHeld(kind) => ResponseHeld(kind)'
    BY <2>1, <2>3 DEF ResponseHeld
  <2>6. \A m : CpuHeld(m) => CpuHeld(m)'
    BY <2>1, <2>3 DEF CpuHeld, Element
  <2> QED
    BY <2>1, <2>2, <2>3, <2>4, <2>5, <2>6 DEF RamInv
<1> QED
  BY <1>1, <1>2, <1>3, <1>4, StoreMapStep, StoreBootInfoStep, FinishSmpStep

-----------------------------------------------------------------------------
(* The kernel reads what the loader stored *)

LostNames == {"entries", "cpus", "flags", "fb.size", "mmap_base", "mmap_entries"}

\* Only fields of these names lie elsewhere for the other compiler.
LEMMA OnlyTheseAreLost ==
  ASSUME NEW struct \in Structures, NEW k \in Written(struct),
         struct[k].name \notin LostNames
  PROVE  Same(struct, k)
<1>0. k \in DOMAIN struct
  BY DEF Written
<1>1. CASE struct = FbResponse
  BY <1>0, <1>1, TheTypes, CommonFields
<1>2. CASE struct = MmapResponse
  <2>1. MmapResponse[2].name \in LostNames /\ k \in 1 .. 2
    BY <1>0, <1>2, TheTypes DEF MmapResponse, Field, LostNames
  <2>2. k = 1
    BY <1>2, <2>1
  <2> QED
    BY <1>2, <2>2, CommonFields
<1>3. CASE struct = SmpResponse
  <2>1. SmpResponse[3].name \in LostNames /\ k \in 1 .. 3
    BY <1>0, <1>3, TheTypes DEF SmpResponse, Field, LostNames
  <2>2. k \in 1 .. 2
    BY <1>3, <2>1
  <2> QED
    BY <1>3, <2>2, CommonFields
<1>4. CASE struct = ExecutableResponse
  BY <1>0, <1>4, TheTypes, CommonFields
<1>5. CASE struct = ValueResponse
  BY <1>0, <1>5, TheTypes, CommonFields
<1>6. CASE struct = MmapEntry
  <2>1. MmapEntry[4].name \in LostNames /\ k \in 1 .. 4
    BY <1>0, <1>6, TheTypes DEF MmapEntry, Field, LostNames
  <2>2. k \in 1 .. 3
    BY <1>6, <2>1
  <2> QED
    BY <1>6, <2>2, CommonFields
<1>7. CASE struct = SmpInfo
  BY <1>0, <1>7, TheTypes, CommonFields
<1>8. CASE struct = BootInfo
  <2>1. /\ BootInfo[9].name \in LostNames /\ BootInfo[10].name \in LostNames
        /\ BootInfo[11].name \in LostNames /\ k \in 1 .. 11
    BY <1>0, <1>8, TheTypes DEF BootInfo, Framebuffer, Field, LostNames
  <2>2. k \in 1 .. 8
    BY <1>8, <2>1
  <2> QED
    BY <1>8, <2>2, CommonFields
<1> QED
  BY <1>1, <1>2, <1>3, <1>4, <1>5, <1>6, <1>7, <1>8 DEF Structures

\* A structure that is held is read but for its lost fields.
LEMMA HeldIsRead ==
  ASSUME NEW struct \in Structures, NEW k \in Written(struct), NEW owner, NEW base,
         Held(ram, LoaderAbi, owner, struct, base)
  PROVE  LET r == <<owner, struct, base, k>>
         IN (loader = "bios" /\ LostUnderBios(r)) \/ Reads(r)
<1> DEFINE r == <<owner, struct, base, k>>
<1>1. r[1] = owner /\ r[2] = struct /\ r[3] = base /\ r[4] = k
  OBVIOUS
<1> HIDE DEF r
<1>2. CASE loader # "bios" \/ Same(struct, k)
  <2>1. ReadsField(owner, struct, base, k)
    BY <1>2, ReadsHeld
  <2> QED
    BY <1>1, <2>1 DEF Reads, r
<1>3. CASE loader = "bios" /\ ~Same(struct, k)
  <2>1. struct[k].name \in LostNames
    BY <1>3, OnlyTheseAreLost
  <2>2. LostUnderBios(r)
    BY <1>1, <2>1 DEF LostUnderBios, LostNames
  <2> QED
    BY <1>3, <2>2 DEF r
<1> QED
  BY <1>2, <1>3

LEMMA EnteredIsReadable ==
  ASSUME RamInv, AskedInv, MachineFits
  PROVE  FieldsReadable
<1> SUFFICES ASSUME Entered, NEW r \in Readings
             PROVE  (loader = "bios" /\ LostUnderBios(r)) \/ Reads(r)
  BY DEF FieldsReadable
<1>1. /\ MapHeld /\ BootInfoHeld /\ \A kind \in DOMAIN answers : ResponseHeld(kind)
      /\ Answered("smp") => \A m \in 0 .. Cardinality(Processors) - 1 : CpuHeld(m)
      /\ Ranges \in Nat /\ loader \in {"bios", "uefi"}
  BY DEF RamInv, Entered, Answered, MaxRanges
<1>2. /\ MmapEntry \in Structures /\ BootInfo \in Structures /\ SmpInfo \in Structures
      /\ \A kind : Response(kind) \in Structures
  BY DEF Structures, Response
<1>3. CASE \E kind \in DOMAIN answers : \E k \in Written(Response(kind)) :
             r = <<<<kind, 0>>, Response(kind), answers[kind], k>>
  <2>1. PICK kind \in DOMAIN answers : \E k \in Written(Response(kind)) :
               r = <<<<kind, 0>>, Response(kind), answers[kind], k>>
    BY <1>3
  <2>2. PICK k \in Written(Response(kind)) :
               r = <<<<kind, 0>>, Response(kind), answers[kind], k>>
    BY <2>1
  <2>3. Held(ram, LoaderAbi, <<kind, 0>>, Response(kind), answers[kind])
    BY <1>1 DEF ResponseHeld
  <2> QED
    BY <1>2, <2>2, <2>3, HeldIsRead
<1>4. CASE \E m \in 0 .. Ranges - 1 : \E k \in Written(MmapEntry) :
             r = <<<<"range", m>>, MmapEntry, EntriesBase + m * Size("x86_64", MmapEntry), k>>
  <2>1. PICK m \in 0 .. Ranges - 1 : \E k \in Written(MmapEntry) :
             r = <<<<"range", m>>, MmapEntry, EntriesBase + m * Size("x86_64", MmapEntry), k>>
    BY <1>4
  <2>2. PICK k \in Written(MmapEntry) :
             r = <<<<"range", m>>, MmapEntry, EntriesBase + m * Size("x86_64", MmapEntry), k>>
    BY <2>1
  <2>3. Held(ram, LoaderAbi, <<"range", m>>, MmapEntry, Element(EntriesBase, MmapEntry, m))
    BY <1>1 DEF MapHeld
  <2>4. CASE loader = "bios" /\ m > 0
    <3>1. r[2] = MmapEntry /\ r[1][2] > 0
      BY <2>2, <2>4
    <3> QED
      BY <2>4, <3>1 DEF LostUnderBios
  <2>5. CASE loader # "bios" \/ m = 0
    <3>1. EntriesBase + m * Size("x86_64", MmapEntry) = Element(EntriesBase, MmapEntry, m)
      <4>1. CASE loader # "bios"
        BY <4>1 DEF LoaderAbi, Element
      <4>2. CASE m = 0
        <5>1. /\ "x86_64" \in Abis /\ LoaderAbi \in Abis
          BY DEF LoaderAbi, Abis
        <5>2. Size("x86_64", MmapEntry) \in Nat /\ Size(LoaderAbi, MmapEntry) \in Nat
          BY <1>2, <5>1, SizeFacts DEF WordAligned
        <5>3. \A a, b \in Nat : 0 * a = 0 * b
          OBVIOUS
        <5> QED
          BY <4>2, <5>2, <5>3 DEF Element
      <4> QED
        BY <2>5, <4>1, <4>2
    <3> QED
      BY <1>2, <2>2, <2>3, <3>1, HeldIsRead
  <2>6. m \in Nat
    OBVIOUS
  <2> QED
    BY <2>4, <2>5, <2>6
<1>5. CASE \E m \in IF Answered("smp") THEN 0 .. Cardinality(Processors) - 1 ELSE {} :
             \E k \in Written(SmpInfo) :
               r = <<<<"cpu", m>>, SmpInfo, CpusBase + m * Size("x86_64", SmpInfo), k>>
  <2>1. Answered("smp")
    BY <1>5
  <2>2. PICK m \in 0 .. Cardinality(Processors) - 1 : \E k \in Written(SmpInfo) :
             r = <<<<"cpu", m>>, SmpInfo, CpusBase + m * Size("x86_64", SmpInfo), k>>
    BY <1>5, <2>1
  <2>3. PICK k \in Written(SmpInfo) :
             r = <<<<"cpu", m>>, SmpInfo, CpusBase + m * Size("x86_64", SmpInfo), k>>
    BY <2>2
  <2>4. Held(ram, LoaderAbi, <<"cpu", m>>, SmpInfo, Element(CpusBase, SmpInfo, m))
    BY <1>1, <2>1 DEF CpuHeld
  <2>5. Size("x86_64", SmpInfo) = 32 /\ Size(LoaderAbi, SmpInfo) = 32
    <3>1. /\ "x86_64" \in Abis /\ LoaderAbi \in Abis
      BY DEF LoaderAbi, Abis
    <3> QED
      BY <3>1, SmpInfoOffsets
  <2>6. CpusBase + m * Size("x86_64", SmpInfo) = Element(CpusBase, SmpInfo, m)
    BY <2>5 DEF Element
  <2> QED
    BY <1>2, <2>3, <2>4, <2>6, HeldIsRead
<1>6. CASE \E k \in Written(BootInfo) : r = <<<<"boot_info", 0>>, BootInfo, BootInfoBase, k>>
  <2>1. PICK k \in Written(BootInfo) : r = <<<<"boot_info", 0>>, BootInfo, BootInfoBase, k>>
    BY <1>6
  <2> QED
    BY <1>1, <1>2, <2>1, HeldIsRead DEF BootInfoHeld
<1> QED
  BY <1>3, <1>4, <1>5, <1>6 DEF Readings

\* FieldsReadable, for every kernel's requests in any order and either loader,
\* whether the memory map could be taken or not: what the loader stores in boot_info,
\* the memory map, the responses and the processors' array, the kernel reads, but
\* for the fields that the 32-bit layout puts elsewhere.
THEOREM HandoverIsRead == Spec => []FieldsReadable
<1>1. Init => RamInv /\ AskedInv /\ DiscoveryInv
  BY InitRamAsked, InitDiscovery
<1>2. RamInv /\ AskedInv /\ DiscoveryInv /\ [Next]_vars => (RamInv /\ AskedInv /\ DiscoveryInv)'
  BY NextRamInv, NextAskedInv, NextDiscovery
<1>3. RamInv /\ AskedInv /\ DiscoveryInv => FieldsReadable
  BY EnteredIsReadable DEF DiscoveryInv
<1> QED
  BY <1>1, <1>2, <1>3, PTL DEF Spec

-----------------------------------------------------------------------------
(* The kernel's status lines *)

\* The lines that each part leaves; the access test's line may be missing.
DrawShown == {<<20, "ACTIVE">>, <<45, "OK">>}

MapShown ==
  IF ~Answered("mmap") THEN {<<65, "MISSING">>}
  ELSE {<<65, "RECEIVED">>} \cup (IF map_count = 0 THEN {} ELSE {<<85, "VALID">>})

HhdmShown ==
  IF ~Answered("hhdm") THEN {<<105, "MISSING">>}
  ELSE {<<105, "RECEIVED">>, <<125, "0xffff800000000000">>}

AccessTest == IF Answered("hhdm") THEN {<<145, "OK">>} ELSE {}

ModeShown ==
  IF ~Answered("paging") THEN {<<145, "MISSING">>}
  ELSE {<<145, "RECEIVED">>, <<165, "4-Level">>}

Reported == (DrawShown \cup MapShown) \cup HhdmShown
AllShown == (Reported \cup ModeShown) \cup MarkerLines

LinesInv ==
  /\ pc \notin {"map_status", "hhdm_status", "mode_status", "hlt", "fault"} => lines = {}
  /\ pc = "map_status" => lines = DrawShown
  /\ pc = "hhdm_status" => lines = DrawShown \cup MapShown
  /\ pc = "mode_status" => Reported \subseteq lines /\ lines \subseteq Reported \cup AccessTest
  /\ pc = "hlt" /\ Answered("fb") =>
       AllShown \subseteq lines /\ lines \subseteq AllShown \cup AccessTest

\* The BIOS loader's tables reach the framebuffer.
ReachInv ==
  /\ loader = "bios" /\ pc # "paging" => building = "built"
  /\ loader = "bios" => fb_frame \in Nat /\ fb_frame < MappedFrames
  /\ loader = "bios" => pc # "fault"

LEMMA QuotientBelow ==
  ASSUME NEW a \in Nat, NEW d \in Nat, NEW z \in Nat, z > 0, a < d * z
  PROVE  a \div z \in 0 .. d - 1
<1> DEFINE q == a \div z
           r == a % z
<1>1. q \in Nat /\ r \in 0 .. z - 1 /\ a = z * q + r
  OBVIOUS
<1> HIDE DEF q, r
<1>2. CASE q >= d
  <2>1. PICK e \in Nat : q = d + e
    <3>1. q - d \in Nat /\ q = d + (q - d)
      BY <1>1, <1>2
    <3> QED
      BY <3>1
  <2>2. z * q = d * z + e * z /\ d * z \in Nat /\ e * z \in Nat
    BY <2>1
  <2> DEFINE u == d * z
             v == e * z
             t == z * q
  <2>3. t = u + v /\ u \in Nat /\ v \in Nat /\ a = t + r /\ r \in Nat /\ a < u
    BY <1>1, <2>2
  <2> HIDE DEF u, v, t
  <2> QED
    BY <2>3
<1>3. CASE ~(q >= d)
  BY <1>1, <1>3 DEF q
<1> QED
  BY <1>2, <1>3

\* Neither the framebuffer nor address 0 at its offset is out of reach.
LEMMA PagesReached ==
  ASSUME PagesMapped, ReachInv, loader = "bios", pc # "paging"
  PROVE  FramebufferPage # Fault /\ Translate(HhdmSlot, 0, 0) # Fault
<1>0. /\ Entries \in Nat /\ Entries >= 2 /\ Directories \in Nat /\ Directories >= 1
      /\ Directories <= Entries
  BY PagingAssumption
<1>1. \A l4, l3, l2 \in Slots : Maps(l4, l3) => Translate(l4, l3, l2) # Fault
  <2> SUFFICES ASSUME NEW l4 \in Slots, NEW l3 \in Slots, NEW l2 \in Slots, Maps(l4, l3)
               PROVE  Translate(l4, l3, l2) # Fault
    OBVIOUS
  <2>1. Translate(l4, l3, l2) = (l3 * Entries + l2) * Entries
    BY DEF PagesMapped, ReachInv, Translate
  <2>2. l3 \in Nat /\ l2 \in Nat
    BY <1>0 DEF Slots
  <2>3. l3 * Entries + l2 \in Nat
    BY <1>0, <2>2
  <2>4. (l3 * Entries + l2) * Entries \in Nat
    BY <1>0, <2>3
  <2> QED
    BY <2>1, <2>4 DEF Fault
<1>2. /\ 0 \in Slots /\ HhdmSlot \in Slots /\ \A l3 \in 0 .. Directories - 1 :
            l3 \in Slots /\ Maps(0, l3) /\ Maps(HhdmSlot, l3)
  BY <1>0, Geometry DEF Maps, Slots
<1> DEFINE l3 == fb_frame \div (Entries * Entries)
           l2 == (fb_frame \div Entries) % Entries
<1>3. l3 \in 0 .. Directories - 1
  <2> DEFINE z == Entries * Entries
  <2>1. z \in Nat /\ z > 0
    BY <1>0
  <2>2. Directories * z = MappedFrames
    BY <1>0 DEF MappedFrames
  <2>3. fb_frame \in Nat /\ fb_frame < MappedFrames
    BY DEF ReachInv
  <2> HIDE DEF z
  <2> QED
    BY <1>0, <2>1, <2>2, <2>3, QuotientBelow DEF z
<1>4. l2 \in Slots
  <2>1. fb_frame \div Entries \in Nat
    BY <1>0 DEF ReachInv
  <2> QED
    BY <1>0, <2>1 DEF Slots
<1>5. FramebufferPage = Translate(0, l3, l2)
  BY DEF FramebufferPage
<1>6. 0 \in 0 .. Directories - 1
  BY <1>0
<1> HIDE DEF l3, l2
<1> QED
  BY <1>1, <1>2, <1>3, <1>4, <1>5, <1>6

\* The number in the first field of a response reaches the kernel.
LEMMA FirstIsRead ==
  ASSUME RamInv, NEW kind \in {"mmap", "hhdm", "paging"}, Answered(kind)
  PROVE  ReadsResponse(kind, 1)
<1>1. Held(ram, LoaderAbi, <<kind, 0>>, Response(kind), answers[kind])
  BY DEF RamInv, Answered, ResponseHeld
<1>2. Response(kind) \in {MmapResponse, ValueResponse}
  BY DEF Response
<1>3. 1 \in Written(MmapResponse) /\ 1 \in Written(ValueResponse)
  BY TheTypes DEF Written, MmapResponse, ValueResponse, Field
<1>4. /\ Response(kind) \in Structures /\ 1 \in Written(Response(kind))
      /\ Same(Response(kind), 1)
  BY <1>2, <1>3, CommonFields DEF Structures
<1> QED
  BY <1>1, <1>4, ReadsHeld DEF ReadsResponse

LEMMA InitStatus == Init => ReachInv /\ LinesInv
<1> SUFFICES ASSUME Init PROVE ReachInv /\ LinesInv
  OBVIOUS
<1>1. loader = "bios" => fb_frame \in Nat /\ fb_frame < MappedFrames
  BY KernelAssumption DEF Init
<1> QED
  BY <1>1 DEF Init, ReachInv, LinesInv

LEMMA NextReach ==
  ASSUME RamInv, PagesMapped, ReachInv, [Next]_vars
  PROVE  ReachInv'
<1>0. loader \in {"bios", "uefi"}
  BY DEF RamInv
<1>1. MappedFrames' = MappedFrames /\ UNCHANGED <<loader, fb_frame>>
  BY DEF MappedFrames, Next, SetUpPaging, StoreMap, StoreBootInfo, Answer, AnswerKernelFile,
         BeginSmp, Discover, FinishSmp, EnterKernel, Draw, ReportMap,
         ReportHhdm, ReportMode, Done, vars, machine
<1>2. CASE SetUpPaging
  BY <1>1, <1>2 DEF SetUpPaging, ReachInv
<1>3. CASE Draw
  <2>1. pc' # "fault" \/ loader # "bios"
    BY <1>3, PagesReached DEF Draw
  <2> QED
    BY <1>1, <1>3, <2>1 DEF Draw, ReachInv, paging
<1>4. CASE ReportHhdm
  <2>1. pc' # "fault" \/ loader # "bios"
    BY <1>4, PagesReached DEF ReportHhdm
  <2> QED
    BY <1>1, <1>4, <2>1 DEF ReportHhdm, ReachInv, paging
<1>5. CASE ~(SetUpPaging \/ Draw \/ ReportHhdm)
  <2>1. /\ UNCHANGED building /\ (pc' = "paging" => pc = "paging")
        /\ (pc' = "fault" => pc = "fault")
        /\ (pc = "paging" => pc' = "paging")
    BY <1>5 DEF Next, StoreMap, StoreBootInfo, Answer, AnswerKernelFile, Asked,
         BeginSmp, Discover, FinishSmp, EnterKernel, ReportMap,
         ReportMode, Done, vars, paging
  <2> QED
    BY <1>1, <2>1 DEF ReachInv
<1> QED
  BY <1>2, <1>3, <1>4, <1>5

LEMMA NextLines ==
  ASSUME RamInv, LinesInv, [Next]_vars
  PROVE  LinesInv'
<1>1. CASE Draw
  <2>1. lines = {} /\ (Answered("fb") <=> Answered("fb")')
    BY <1>1 DEF Draw, LinesInv, Answered
  <2> QED
    BY <1>1, <2>1 DEF Draw, LinesInv, DrawShown
<1>2. CASE ReportMap
  <2>1. MapLines = MapShown
    BY FirstIsRead DEF MapLines, MapShown
  <2>2. MapShown' = MapShown /\ DrawShown' = DrawShown
    BY <1>2 DEF ReportMap, MapShown, DrawShown, Answered, machine
  <2>3. lines = DrawShown /\ pc' = "hhdm_status" /\ lines' = lines \cup MapLines
    BY <1>2 DEF ReportMap, LinesInv
  <2> QED
    BY <2>1, <2>2, <2>3 DEF LinesInv
<1>3. CASE ReportHhdm
  <2>0. UNCHANGED <<answers, map_count>>
    BY <1>3 DEF ReportHhdm, machine
  <2>1. UNCHANGED <<Reported, AccessTest>>
    BY <2>0 DEF Reported, MapShown, DrawShown, HhdmShown, AccessTest, Answered
  <2>2. lines = DrawShown \cup MapShown /\ pc' \in {"fault", "mode_status"}
    BY <1>3 DEF ReportHhdm, LinesInv
  <2>3. pc' = "mode_status" =>
          \/ lines' = lines \cup HhdmShown
          \/ lines' = (lines \cup HhdmShown) \cup AccessTest
    <3>1. CASE Answered("hhdm")
      <4>1. ReadsResponse("hhdm", 1)
        BY <3>1, FirstIsRead
      <4>2. lines \cup {<<105, "RECEIVED">>, <<125, "0xffff800000000000">>} = lines \cup HhdmShown
        BY <3>1 DEF HhdmShown
      <4>3. AccessTest = {<<145, "OK">>}
        BY <3>1 DEF AccessTest
      <4> QED
        BY <1>3, <3>1, <4>1, <4>2, <4>3 DEF ReportHhdm
    <3>2. CASE ~Answered("hhdm")
      BY <1>3, <3>2 DEF ReportHhdm, HhdmShown
    <3> QED
      BY <3>1, <3>2
  <2>4. pc' = "mode_status" => Reported \subseteq lines' /\ lines' \subseteq Reported \cup AccessTest
    BY <2>2, <2>3 DEF Reported
  <2> QED
    BY <2>1, <2>2, <2>4 DEF LinesInv
<1>4. CASE ReportMode
  <2>0. UNCHANGED <<answers, map_count>>
    BY <1>4 DEF ReportMode, machine
  <2>1. UNCHANGED <<AllShown, AccessTest>>
    BY <2>0 DEF AllShown, Reported, MapShown, DrawShown, HhdmShown, ModeShown, MarkerLines,
       AccessTest, Answered
  <2>2. /\ Reported \subseteq lines /\ lines \subseteq Reported \cup AccessTest
        /\ pc' = "hlt" /\ lines' = (lines \cup ModeLines) \cup MarkerLines
    BY <1>4 DEF ReportMode, LinesInv
  <2>3. ModeLines = ModeShown
    BY FirstIsRead DEF ModeLines, ModeShown
  <2>4. AllShown \subseteq lines' /\ lines' \subseteq AllShown \cup AccessTest
    BY <2>2, <2>3 DEF AllShown
  <2> QED
    BY <2>1, <2>2, <2>4 DEF LinesInv
<1>5. CASE Done \/ UNCHANGED vars
  <2>1. UNCHANGED <<pc, lines, answers, map_count>>
    BY <1>5 DEF Done, vars, machine
  <2>2. /\ UNCHANGED <<AllShown, Reported, AccessTest, MapShown, DrawShown>>
        /\ Answered("fb") <=> Answered("fb")'
    BY <2>1 DEF AllShown, Reported, MapShown, DrawShown, HhdmShown, ModeShown, MarkerLines,
       AccessTest, Answered
  <2> QED
    BY <2>1, <2>2 DEF LinesInv
<1>6. CASE /\ ~(Draw \/ ReportMap \/ ReportHhdm \/ ReportMode \/ Done \/ UNCHANGED vars)
  <2>1. /\ lines' = lines
        /\ pc \notin {"map_status", "hhdm_status", "mode_status", "hlt", "fault"}
        /\ pc' \notin {"map_status", "hhdm_status", "mode_status", "hlt", "fault"}
    BY <1>6 DEF Next, SetUpPaging, StoreMap, StoreBootInfo, Answer, AnswerKernelFile, Asked,
         BeginSmp, Discover, FinishSmp, EnterKernel
  <2> QED
    BY <2>1 DEF LinesInv
<1> QED
  BY <1>1, <1>2, <1>3, <1>4, <1>5, <1>6

\* At the end the answers are those to the requests, and the lines say so.
LEMMA LinesAreTruthful ==
  ASSUME RamInv, AskedInv, ReachInv, LinesInv
  PROVE  StatusTruthful
<1> SUFFICES ASSUME pc = "hlt", Answered("fb")
             PROVE  LET asked == {requested[m] : m \in DOMAIN requested}
                        Shown(y, text) == <<y, text>> \in lines
                    IN /\ \A line \in {<<65, "mmap">>, <<105, "hhdm">>, <<145, "paging">>} :
                            /\ Shown(line[1], "RECEIVED") <=> line[2] \in asked
                            /\ Shown(line[1], "MISSING") <=> line[2] \notin asked
                       /\ Shown(85, "VALID") <=> "mmap" \in asked /\ map_count > 0
                       /\ Shown(145, "OK") => "hhdm" \in asked
                       /\ Shown(125, "0xffff800000000000") <=> "hhdm" \in asked
                       /\ Shown(165, "4-Level") <=> "paging" \in asked
                       /\ \A a, b \in lines : a[1] = b[1] /\ a # b => a[1] = 145
  BY DEF ReachInv, StatusTruthful
<1> DEFINE asked == {requested[m] : m \in DOMAIN requested}
<1>1. DOMAIN answers = asked
  <2>1. /\ DOMAIN requested = 1 .. Len(requested) /\ Len(requested) \in Nat
        /\ n = Len(requested) + 1 /\ DOMAIN answers = AnsweredSoFar
    BY DEF AskedInv, Entered
  <2>2. n - 1 = Len(requested)
    BY <2>1
  <2> QED
    BY <2>1, <2>2 DEF AnsweredSoFar
<1>2. AllShown \subseteq lines /\ lines \subseteq AllShown \cup AccessTest
  BY DEF LinesInv
<1>3. map_count \in Nat
  BY DEF RamInv
<1>4. \A kind : Answered(kind) <=> kind \in asked
  BY <1>1 DEF Answered
<1> HIDE DEF asked
<1>5. ASSUME NEW line, line # <<145, "OK">>
      PROVE  line \in lines <=> line \in AllShown
  BY <1>2, <1>5 DEF AccessTest
<1>6. /\ \A a \in DrawShown : a[1] \in {20, 45}
      /\ \A a \in MapShown : a[1] \in {65, 85}
      /\ \A a \in HhdmShown : a[1] \in {105, 125}
      /\ \A a \in ModeShown : a[1] \in {145, 165}
      /\ \A a \in MarkerLines : a[1] \in {195, 220, 245}
      /\ \A a \in AccessTest : a[1] = 145
  BY DEF DrawShown, MapShown, HhdmShown, ModeShown, MarkerLines, AccessTest
<1>7. ASSUME NEW line
      PROVE  /\ line[1] \in {65, 85} => (line \in AllShown <=> line \in MapShown)
             /\ line[1] \in {105, 125} => (line \in AllShown <=> line \in HhdmShown)
             /\ line[1] \in {145, 165} => (line \in AllShown <=> line \in ModeShown)
  BY <1>6 DEF AllShown, Reported
<1>8. /\ <<65, "RECEIVED">> \in lines <=> "mmap" \in asked
      /\ <<65, "MISSING">> \in lines <=> "mmap" \notin asked
      /\ <<85, "VALID">> \in lines <=> "mmap" \in asked /\ map_count > 0
  <2> DEFINE Three == {<<65, "RECEIVED">>, <<65, "MISSING">>, <<85, "VALID">>}
  <2>1. \A line \in Three : line # <<145, "OK">> /\ line[1] \in {65, 85}
    OBVIOUS
  <2>2. \A line \in Three : line \in lines <=> line \in MapShown
    <3> HIDE DEF Three
    <3> QED
      BY <1>5, <1>7, <2>1, ZenonT(30)
  <2> QED
    BY <1>3, <1>4, <2>2 DEF MapShown
<1>9. /\ <<105, "RECEIVED">> \in lines <=> "hhdm" \in asked
      /\ <<105, "MISSING">> \in lines <=> "hhdm" \notin asked
      /\ <<125, "0xffff800000000000">> \in lines <=> "hhdm" \in asked
  <2> DEFINE Three == {<<105, "RECEIVED">>, <<105, "MISSING">>, <<125, "0xffff800000000000">>}
  <2>1. \A line \in Three : line # <<145, "OK">> /\ line[1] \in {105, 125}
    OBVIOUS
  <2>2. \A line \in Three : line \in lines <=> line \in HhdmShown
    <3> HIDE DEF Three
    <3> QED
      BY <1>5, <1>7, <2>1, ZenonT(30)
  <2> QED
    BY <1>4, <2>2 DEF HhdmShown
<1>10. /\ <<145, "RECEIVED">> \in lines <=> "paging" \in asked
       /\ <<145, "MISSING">> \in lines <=> "paging" \notin asked
       /\ <<165, "4-Level">> \in lines <=> "paging" \in asked
  <2> DEFINE Three == {<<145, "RECEIVED">>, <<145, "MISSING">>, <<165, "4-Level">>}
  <2>1. \A line \in Three : line # <<145, "OK">> /\ line[1] \in {145, 165}
    OBVIOUS
  <2>2. \A line \in Three : line \in lines <=> line \in ModeShown
    <3> HIDE DEF Three
    <3> QED
      BY <1>5, <1>7, <2>1, ZenonT(30)
  <2> QED
    BY <1>4, <2>2 DEF ModeShown
<1>11. <<145, "OK">> \in lines => "hhdm" \in asked
  <2>1. <<145, "OK">> \notin ModeShown
    BY DEF ModeShown
  <2>2. <<145, "OK">> \in lines => <<145, "OK">> \in AccessTest
    <3>1. <<145, "OK">> \notin AllShown
      BY <1>7, <2>1
    <3> QED
      BY <1>2, <3>1
  <2> QED
    BY <1>4, <2>2 DEF AccessTest
<1>12. \A a, b \in lines : a[1] = b[1] /\ a # b => a[1] = 145
  <2>1. /\ \A a, b \in DrawShown : a[1] = b[1] => a = b
        /\ \A a, b \in MapShown : a[1] = b[1] => a = b
        /\ \A a, b \in HhdmShown : a[1] = b[1] => a = b
        /\ \A a, b \in ModeShown : a[1] = b[1] => a = b
        /\ \A a, b \in MarkerLines : a[1] = b[1] => a = b
    BY DEF DrawShown, MapShown, HhdmShown, ModeShown, MarkerLines
  <2>2. \A a \in lines : \/ a \in DrawShown \/ a \in MapShown \/ a \in HhdmShown
                          \/ a \in ModeShown \/ a \in MarkerLines \/ a \in AccessTest
    BY <1>2 DEF AllShown, Reported
  <2> QED
    BY <1>6, <2>1, <2>2
<1> QED
  BY <1>8, <1>9, <1>10, <1>11, <1>12 DEF asked

\* StatusTruthful for every kernel, machine and framebuffer, and every memory map
\* that was taken or not: what the demo kernel reports of its requests at its end
\* is so, VALID says no more than that the count is not zero, and under BIOS it
\* comes to its end.
THEOREM StatusIsTruthful == Spec => []StatusTruthful
<1> DEFINE Inv == /\ RamInv /\ AskedInv /\ DiscoveryInv /\ PagingInv
                  /\ ReachInv /\ LinesInv
<1>1. Init => Inv
  BY InitRamAsked, InitDiscovery, PagingStarts, InitStatus DEF Init
<1>2. Inv /\ [Next]_vars => Inv'
  <2> SUFFICES ASSUME Inv, [Next]_vars PROVE Inv'
    OBVIOUS
  <2>1. RamInv' /\ AskedInv' /\ DiscoveryInv'
    BY NextRamInv, NextAskedInv, NextDiscovery
  <2>2. PagingInv' /\ PagesMapped
    BY NextPaging, WalkMaps
  <2>3. ReachInv' /\ LinesInv'
    BY <2>2, NextReach, NextLines
  <2> QED
    BY <2>1, <2>2, <2>3
<1>3. Inv => StatusTruthful
  BY LinesAreTruthful
<1> QED
  BY <1>1, <1>2, <1>3, PTL DEF Spec
=============================================================================
