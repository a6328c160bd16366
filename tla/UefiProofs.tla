----------------------------- MODULE UefiProofs -----------------------------
(***************************************************************************)
(* Proofs about Uefi for every machine and any number of firmware events.  *)
(*                                                                         *)
(* Where GetMemoryMap gives the key although its buffer is too small, and  *)
(* no event came between, boot services have ended when the kernel is      *)
(* entered.  The key is taken after the last allocation of the loader; the *)
(* invariant says that it is the map's until it is used.                   *)
(*                                                                         *)
(* The memory map: a pool can add two descriptors and no more, because the *)
(* runs of pages can only begin anew at its two ends; the descriptors of a *)
(* map are as many as its runs, cover every page and keep its type.        *)
(* Afterwards the loader moves memory only between types that the kernel   *)
(* may use anyway, and what a driver takes for good or gives back is what  *)
(* the history variable stale keeps.                                       *)
(*                                                                         *)
(* The loop over the graphics modes is followed turn by turn; the kernel's *)
(* segments are followed from the file's pool to their pages.  A driver    *)
(* may take a free page and store in it, so that a page holds what belongs *)
(* there or what a driver left; the loader's pools are safe from that.     *)
(***************************************************************************)
EXTENDS Uefi, TLAPS, FiniteSetTheorems, WellFoundedInduction

KeyCurrent ==
  pc = "exit" /\ fw.key_on_small /\ events = 0 => MapKey = key

KeyInv == events \in Nat /\ KeyCurrent /\ ExitsWithKey

LEMMA InitKeyInv == Init => KeyInv
  BY DEF Init, KeyInv, KeyCurrent, ExitsWithKey

\* Every step of the loader other than the last four ends before the key is
\* taken, and none changes the events.
LEMMA EarlierStep ==
  ASSUME \/ GetMapSize \/ AllocateMap \/ GetMap \/ NoGop \/ QueryMode \/ SetMode
         \/ InitDisk \/ LoadConfig \/ NoImage \/ LoadImage \/ Menu \/ LoadKernel
         \/ CopySegment \/ HeadersLost \/ FindDtb \/ HandleRequests
  PROVE  pc' \notin {"exit", "jump", "kernel"} /\ UNCHANGED <<fw, events, exited>>
<1>1. CASE GetMapSize \/ AllocateMap \/ GetMap
  BY <1>1 DEF GetMapSize, AllocateMap, GetMap, firmware
<1>2. CASE NoGop \/ QueryMode \/ SetMode
  BY <1>2 DEF NoGop, QueryMode, SetMode, firmware
<1>3. CASE InitDisk \/ LoadConfig
  BY <1>3 DEF InitDisk, LoadConfig, firmware
<1>4. CASE NoImage \/ LoadImage
  BY <1>4 DEF NoImage, LoadImage, firmware
<1>5. CASE Menu \/ LoadKernel
  BY <1>5 DEF Menu, LoadKernel, firmware
<1>6. CASE CopySegment \/ HeadersLost
  BY <1>6 DEF CopySegment, HeadersLost, firmware
<1>7. CASE FindDtb \/ HandleRequests
  BY <1>7 DEF FindDtb, HandleRequests, firmware
<1> QED
  BY <1>1, <1>2, <1>3, <1>4, <1>5, <1>6, <1>7

LEMMA NextKeyInv ==
  ASSUME KeyInv, [Next]_vars
  PROVE  KeyInv'
<1> USE DEF KeyInv, KeyCurrent, ExitsWithKey
<1>1. CASE \/ GetMapSize \/ AllocateMap \/ GetMap \/ NoGop \/ QueryMode \/ SetMode
           \/ InitDisk \/ LoadConfig \/ NoImage \/ LoadImage \/ Menu \/ LoadKernel
           \/ CopySegment \/ HeadersLost \/ FindDtb \/ HandleRequests
  BY <1>1, EarlierStep
<1>2. CASE GetKey
  BY <1>2 DEF GetKey, KeyOnSmall, firmware, memory_map
<1>3. CASE ExitBootServices
  BY <1>3 DEF ExitBootServices
<1>4. CASE Jump
  BY <1>4 DEF Jump, firmware
<1>5. CASE FirmwareEvent
  <2>1. events' = events + 1 /\ events \in Nat
    BY <1>5 DEF FirmwareEvent
  <2>2. events' \in Nat /\ events' # 0
    BY <2>1
  <2> QED
    BY <2>2
<1>6. CASE UNCHANGED vars
  BY <1>6 DEF vars, firmware, memory_map, handover
<1> QED
  BY <1>1, <1>2, <1>3, <1>4, <1>5, <1>6 DEF Next, Loader, Done

\* Boot services end before the jump wherever the firmware gives the key with
\* BUFFER_TOO_SMALL and stays quiet, whatever the loader allocated before.
THEOREM ExitSafe == Spec => []ExitsWithKey
<1>1. KeyInv => ExitsWithKey
  BY DEF KeyInv
<1> QED
  BY <1>1, InitKeyInv, NextKeyInv, PTL DEF Spec

-----------------------------------------------------------------------------
(* Types: how memory changes.                                              *)

TypeInv ==
  /\ fw \in Machines
  /\ type \in [Pages -> MemoryTypes]
  /\ events \in Nat
  /\ map \in Pages \cup {None}
  /\ map # None <=> pc = "map_get"
  /\ map # None => type[map] = "boot_data"

\* What a step of the loader may do to a page: pools take free pages, and only
\* boot services' data become free again.
PageMayChange(q) ==
  \/ type'[q] = type[q]
  \/ type[q] = "conventional" /\ type'[q] = "boot_data"
  \/ /\ type[q] = "conventional" /\ type'[q] = "loader_data"
     /\ pc \in {"config", "image", "load"}
  \/ type[q] = "boot_data" /\ type'[q] = "conventional"

LEMMA PagesAre ==
  Pages = 0 .. Top - 1 /\ Top \in Nat \ {0} /\ None \notin Pages
  BY UefiAssumption DEF Pages, None

LEMMA RetypeFacts ==
  ASSUME type \in [Pages -> MemoryTypes], NEW p \in Pages, NEW n \in Nat,
         NEW t \in MemoryTypes, Retype(p, n, t)
  PROVE  /\ type' \in [Pages -> MemoryTypes]
         /\ \A q \in Pages : type'[q] = IF q \in p .. p + n - 1 THEN t ELSE type[q]
  BY DEF Retype

\* A pool is made of free pages.
LEMMA PoolFacts ==
  ASSUME type \in [Pages -> MemoryTypes], NEW n \in Nat, NEW p \in Room(n),
         NEW t \in MemoryTypes, Retype(p, n, t)
  PROVE  /\ type' \in [Pages -> MemoryTypes]
         /\ \A q \in Pages : \/ type'[q] = type[q]
                             \/ type[q] = "conventional" /\ type'[q] = t
         /\ \A q \in p .. p + n - 1 : q \in Pages /\ type'[q] = t
<1>1. p \in Pages /\ p + n <= Top /\ \A q \in p .. p + n - 1 : type[q] = "conventional"
  BY DEF Room
<1>2. /\ type' \in [Pages -> MemoryTypes]
      /\ \A q \in Pages : type'[q] = IF q \in p .. p + n - 1 THEN t ELSE type[q]
  BY <1>1, RetypeFacts
<1>3. p .. p + n - 1 \subseteq Pages
  BY <1>1, PagesAre
<1> QED
  BY <1>1, <1>2, <1>3

\* One page of a pool or of boot services is a page.
LEMMA OnePage ==
  ASSUME NEW p \in Pages
  PROVE  p .. p + 1 - 1 = {p}
  BY PagesAre

\* What a driver does: one page, not the pool of the map, changes between free
\* and the driver's type, and holds afterwards what it held or the driver's data.
Event(p, t) ==
  /\ type' \in [Pages -> MemoryTypes]
  /\ \A q \in Pages : q # p => type'[q] = type[q]
  /\ \/ type[p] = "conventional" /\ type'[p] = t
     \/ type[p] = t /\ type'[p] = "conventional"
  /\ stale' = IF t \in BootTypes THEN stale
              ELSE IF p \in stale THEN stale \ {p} ELSE stale \cup {p}

LEMMA EventFacts ==
  ASSUME type \in [Pages -> MemoryTypes], FirmwareEvent
  PROVE  \E p \in Pages \ {map}, t \in DriverTypes : Event(p, t)
<1>1. PICK p \in Pages \ {map}, t \in DriverTypes :
        /\ \/ type[p] = "conventional" /\ Retype(p, 1, t)
           \/ type[p] = t /\ Retype(p, 1, "conventional")
        /\ stale' = IF t \in BootTypes THEN stale
                    ELSE IF p \in stale THEN stale \ {p} ELSE stale \cup {p}
  BY DEF FirmwareEvent
<1>2. t \in MemoryTypes /\ "conventional" \in MemoryTypes /\ p .. p + 1 - 1 = {p}
  BY UefiAssumption, OnePage DEF MemoryTypes
<1>3. CASE type[p] = "conventional" /\ Retype(p, 1, t)
  <2>1. /\ type' \in [Pages -> MemoryTypes]
        /\ \A q \in Pages : type'[q] = IF q \in p .. p + 1 - 1 THEN t ELSE type[q]
    BY <1>2, <1>3, RetypeFacts
  <2> QED
    BY <1>1, <1>2, <1>3, <2>1 DEF Event
<1>4. CASE type[p] = t /\ Retype(p, 1, "conventional")
  <2>1. /\ type' \in [Pages -> MemoryTypes]
        /\ \A q \in Pages :
             type'[q] = IF q \in p .. p + 1 - 1 THEN "conventional" ELSE type[q]
    BY <1>2, <1>4, RetypeFacts
  <2> QED
    BY <1>1, <1>2, <1>4, <2>1 DEF Event
<1> QED
  BY <1>1, <1>3, <1>4

LEMMA TypeStep ==
  ASSUME TypeInv, [Next]_vars
  PROVE  TypeInv' /\ fw' = fw /\ (FirmwareEvent \/ \A q \in Pages : PageMayChange(q))
<1> USE DEF PageMayChange
<1> DEFINE Types == {"boot_data", "loader_data", "conventional"}
<1>1. Types \subseteq MemoryTypes /\ None \notin Pages
  BY PagesAre DEF MemoryTypes
<1>2. CASE GetMapSize \/ NoGop \/ QueryMode \/ SetMode \/ InitDisk \/ NoImage
           \/ Menu \/ CopySegment \/ HeadersLost \/ FindDtb \/ HandleRequests
           \/ GetKey \/ ExitBootServices \/ Jump
  <2>1. /\ UNCHANGED <<fw, events, memory_map, map>>
        /\ pc # "map_get" /\ pc' # "map_get"
    BY <1>2 DEF GetMapSize, NoGop, QueryMode, SetMode, InitDisk, NoImage, Menu,
       CopySegment, HeadersLost, FindDtb, HandleRequests, GetKey,
       ExitBootServices, Jump, firmware, snapshot
  <2> QED
    BY <2>1 DEF TypeInv, memory_map
<1>3. CASE AllocateMap
  <2>1. CASE Room(1) = {}
    BY <1>3, <2>1 DEF AllocateMap, TypeInv, memory_map, firmware
  <2>2. CASE Room(1) # {}
    <3>1. PICK p \in Room(1) : Retype(p, 1, "boot_data") /\ map' = p
      BY <1>3, <2>2 DEF AllocateMap
    <3>2. p \in Pages
      BY DEF Room
    <3>3. /\ type' \in [Pages -> MemoryTypes]
          /\ \A q \in Pages : \/ type'[q] = type[q]
                              \/ type[q] = "conventional" /\ type'[q] = "boot_data"
          /\ \A q \in p .. p + 1 - 1 : q \in Pages /\ type'[q] = "boot_data"
      BY <1>1, <3>1, PoolFacts DEF TypeInv
    <3>4. type'[p] = "boot_data"
      BY <3>2, <3>3, OnePage
    <3>5. pc' = "map_get" /\ UNCHANGED <<fw, events>>
      BY <1>3, <2>2 DEF AllocateMap, firmware
    <3> QED
      BY <1>1, <3>1, <3>2, <3>3, <3>4, <3>5 DEF TypeInv
  <2> QED
    BY <2>1, <2>2
<1>4. CASE GetMap
  <2>1. /\ map \in Pages /\ type[map] = "boot_data"
        /\ pc' # "map_get" /\ map' = None /\ Retype(map, 1, "conventional")
        /\ UNCHANGED <<fw, events>>
    BY <1>4 DEF GetMap, TypeInv, firmware
  <2>2. /\ type' \in [Pages -> MemoryTypes]
        /\ \A q \in Pages :
             type'[q] = IF q \in map .. map + 1 - 1 THEN "conventional" ELSE type[q]
    BY <1>1, <2>1, RetypeFacts DEF TypeInv
  <2>3. \A q \in Pages : type'[q] = IF q = map THEN "conventional" ELSE type[q]
    BY <2>1, <2>2, OnePage
  <2> QED
    BY <2>1, <2>2, <2>3 DEF TypeInv
<1>5. CASE LoadConfig
  <2>1. pc = "config" /\ pc' # "map_get" /\ UNCHANGED <<fw, events, map>>
    BY <1>5 DEF LoadConfig, firmware, snapshot
  <2>2. CASE UNCHANGED type
    BY <2>1, <2>2 DEF TypeInv
  <2>3. CASE \E p \in Room(1) : Retype(p, 1, "loader_data")
    BY <1>1, <2>1, <2>3, PoolFacts DEF TypeInv
  <2> QED
    BY <1>5, <2>2, <2>3 DEF LoadConfig, memory_map
<1>6. CASE LoadImage
  <2>1. pc = "image" /\ pc' # "map_get" /\ UNCHANGED <<fw, events, map>>
    BY <1>6 DEF LoadImage, firmware, snapshot
  <2>2. CASE UNCHANGED type
    BY <2>1, <2>2 DEF TypeInv
  <2>3. CASE \E p \in Room(ImagePages) : Retype(p, ImagePages, "loader_data")
    BY <1>1, <2>1, <2>3, PoolFacts, UefiAssumption DEF TypeInv
  <2> QED
    BY <1>6, <2>2, <2>3 DEF LoadImage
<1>7. CASE LoadKernel
  <2>1. pc = "load" /\ pc' # "map_get" /\ UNCHANGED <<fw, events, map>>
    BY <1>7 DEF LoadKernel, firmware, snapshot
  <2>2. CASE UNCHANGED type
    BY <2>1, <2>2 DEF TypeInv
  <2>3. CASE \E p \in Room(KernelMax) : Retype(p, KernelMax, "loader_data")
    BY <1>1, <2>1, <2>3, PoolFacts, UefiAssumption DEF TypeInv
  <2> QED
    BY <1>7, <2>2, <2>3 DEF LoadKernel, memory_map
<1>8. CASE FirmwareEvent
  <2>1. UNCHANGED <<pc, fw, map>> /\ events' \in Nat
    BY <1>8 DEF FirmwareEvent, snapshot, TypeInv
  <2>2. PICK p \in Pages \ {map}, t \in DriverTypes : Event(p, t)
    BY <1>8, EventFacts DEF TypeInv
  <2>3. /\ type' \in [Pages -> MemoryTypes]
        /\ map # None => type'[map] = type[map]
    BY <2>2 DEF Event, TypeInv
  <2> QED
    BY <1>8, <2>1, <2>3 DEF TypeInv
<1>9. CASE UNCHANGED vars
  BY <1>9 DEF vars, firmware, memory_map, snapshot, TypeInv
<1> QED
  BY <1>2, <1>3, <1>4, <1>5, <1>6, <1>7, <1>8, <1>9 DEF Next, Loader, Done

LEMMA TypeInvariant == Spec => []TypeInv
<1>1. Init => TypeInv
  BY UefiAssumption, PagesAre DEF Init, TypeInv, MachineShape
<1>2. TypeInv /\ [Next]_vars => TypeInv'
  BY TypeStep
<1> QED
  BY <1>1, <1>2, PTL DEF Spec

\* Pages become a program's only by the loader's pools, and stay that.
LEMMA LoaderData ==
  ASSUME TypeInv, [Next]_vars
  PROVE  /\ \A q \in Pages : type[q] = "loader_data" => type'[q] = "loader_data"
         /\ pc \notin {"config", "image", "load"} =>
              \A q \in Pages : type'[q] = "loader_data" => type[q] = "loader_data"
<1>1. CASE FirmwareEvent
  <2>1. PICK p \in Pages \ {map}, t \in DriverTypes : Event(p, t)
    BY <1>1, EventFacts DEF TypeInv
  <2>2. t # "loader_data"
    BY UefiAssumption
  <2> QED
    BY <2>1, <2>2 DEF Event
<1>2. CASE \A q \in Pages : PageMayChange(q)
  BY <1>2 DEF PageMayChange
<1> QED
  BY <1>1, <1>2, TypeStep

-----------------------------------------------------------------------------
(* The descriptors: the runs of pages.                                     *)

\* The least of some numbers, and the greatest of some pages.
LEMMA Least ==
  ASSUME NEW S \in SUBSET Nat, S # {}
  PROVE  \E x \in S : \A y \in S : x <= y
<1>1. IsWellFoundedOn(OpToRel(<, Nat), Nat)
  BY NatLessThanWellFounded
<1>2. PICK x \in S : \A y \in S : ~(<<y, x>> \in OpToRel(<, Nat))
  BY <1>1, WFMin
<1>3. \A y \in S : ~(y < x)
  BY <1>2 DEF OpToRel
<1> QED
  BY <1>3

LEMMA Greatest ==
  ASSUME NEW S \in SUBSET Pages, S # {}
  PROVE  \E x \in S : \A y \in S : y <= x
<1> DEFINE D == {d \in Nat : \E x \in S : d = Top - x}
<1>1. \A x \in S : x \in Nat /\ Top - x \in D
  BY PagesAre
<1>2. PICK d \in D : \A e \in D : d <= e
  BY <1>1, Least
<1>3. PICK x \in S : d = Top - x
  BY <1>2
<1>4. \A y \in S : Top - x <= Top - y
  BY <1>1, <1>2, <1>3
<1> HIDE DEF D
<1> QED
  BY <1>1, <1>3, <1>4, PagesAre

Below(s) == {q \in Starts : q < s}
Rank(s) == Cardinality(Below(s))

LEMMA StartsFacts ==
  /\ Starts \subseteq Pages /\ 0 \in Starts /\ IsFiniteSet(Starts)
  /\ Cardinality(Starts) \in Nat
<1>1. Starts \subseteq Pages /\ 0 \in Starts
  BY PagesAre DEF Starts
<1>2. IsFiniteSet(Pages)
  BY PagesAre, FS_Interval
<1>3. IsFiniteSet(Starts)
  BY <1>1, <1>2, FS_Subset
<1> QED
  BY <1>1, <1>3, FS_CardinalityType

\* A start's rank counts the starts below it: the ranks are 0, 1, ..., each the
\* rank of one start.
LEMMA Ranks ==
  /\ \A s \in Starts : Rank(s) \in 0 .. Cardinality(Starts) - 1
  /\ \A s, t \in Starts : Rank(s) = Rank(t) => s = t
  /\ \A n \in 1 .. Cardinality(Starts) : \E s \in Starts : Rank(s) = n - 1
<1> DEFINE count == Cardinality(Starts)
<1>1. count \in Nat /\ IsFiniteSet(Starts) /\ \A s \in Starts : s \in Nat
  BY StartsFacts, PagesAre
<1>2. ASSUME NEW s \in Starts
      PROVE  /\ IsFiniteSet(Below(s)) /\ Below(s) \in SUBSET Starts
             /\ Rank(s) \in 0 .. count - 1
  <2>1. Below(s) \in SUBSET Starts /\ s \notin Below(s)
    BY <1>1 DEF Below
  <2>2. /\ IsFiniteSet(Below(s)) /\ Cardinality(Below(s)) <= count
        /\ count = Cardinality(Below(s)) => Starts = Below(s)
    BY <1>1, <2>1, FS_Subset
  <2>3. Cardinality(Below(s)) \in Nat
    BY <2>2, FS_CardinalityType
  <2> QED
    BY <1>1, <2>1, <2>2, <2>3 DEF Rank
<1>3. ASSUME NEW s \in Starts, NEW t \in Starts, s < t
      PROVE  Rank(s) # Rank(t)
  <2>1. Below(s) \in SUBSET Below(t)
    <3>1. \A q \in Starts : q < s => q < t
      BY <1>1, <1>3
    <3> QED
      BY <3>1 DEF Below
  <2>2. s \in Below(t) /\ s \notin Below(s)
    BY <1>1, <1>3 DEF Below
  <2>3. Cardinality(Below(t)) = Cardinality(Below(s)) => Below(t) = Below(s)
    BY <1>2, <2>1, FS_Subset
  <2> QED
    BY <2>2, <2>3 DEF Rank
<1>4. \A s, t \in Starts : Rank(s) = Rank(t) => s = t
  <2> SUFFICES ASSUME NEW s \in Starts, NEW t \in Starts, Rank(s) = Rank(t)
               PROVE  s = t
    OBVIOUS
  <2>1. s \in Nat /\ t \in Nat /\ ~(s < t) /\ ~(t < s)
    BY <1>1, <1>3
  <2> QED
    BY <2>1
<1> DEFINE rank == [s \in Starts |-> Rank(s)]
<1>5. rank \in Injection(Starts, 0 .. count - 1)
  BY <1>2, <1>4 DEF Injection, IsInjective
<1>6. IsFiniteSet(0 .. count - 1) /\ Cardinality(0 .. count - 1) = count
  BY SMTT(30), <1>1, FS_Interval
<1>7. rank \in Surjection(Starts, 0 .. count - 1)
  BY <1>5, <1>6, FS_Injection
<1>8. ASSUME NEW n \in 1 .. count
      PROVE  \E s \in Starts : Rank(s) = n - 1
  <2>1. n - 1 \in 0 .. count - 1
    BY <1>1
  <2>2. \E s \in Starts : rank[s] = n - 1
    BY <1>7, <2>1 DEF Surjection
  <2> QED
    BY <2>2
<1> QED
  BY <1>2, <1>4, <1>8

\* s is where the n-th run begins and next where it has ended.
IsRun(n, s, next) ==
  /\ s \in Starts /\ Rank(s) = n - 1
  /\ next \in Starts \cup {Top} /\ s < next /\ next <= Top
  /\ \A q \in Starts : s < q => next <= q

LEMMA DescriptorIs ==
  ASSUME NEW n \in 1 .. Cardinality(Starts)
  PROVE  \E s, next : /\ IsRun(n, s, next)
                      /\ Descriptors[n] =
                           [base |-> s, pages |-> next - s, type |-> type[s],
                            attr |-> fw.attr[s]]
<1>1. PICK s \in Starts : Rank(s) = n - 1
  BY Ranks
<1>2. \A t \in Starts : Cardinality({q \in Starts : q < t}) = n - 1 => t = s
  BY <1>1, Ranks DEF Rank, Below
<1>3. Cardinality({q \in Starts : q < s}) = n - 1
  BY <1>1 DEF Rank, Below
<1> DEFINE base == CHOOSE p \in Starts :
                     Cardinality({q \in Starts : q < p}) = n - 1
<1>4. base = s
  BY <1>2, <1>3
<1> DEFINE behind == {q \in Starts : q > s} \cup {Top}
           next == CHOOSE q \in behind : \A r \in behind : q <= r
<1>5. behind \in SUBSET Nat /\ behind # {}
  <2>1. Starts \subseteq Nat /\ Top \in Nat
    BY StartsFacts, PagesAre
  <2> QED
    BY <2>1
<1>6. next \in behind /\ \A r \in behind : next <= r
  <2>1. \E q \in behind : \A r \in behind : q <= r
    BY <1>5, Least
  <2> HIDE DEF behind
  <2> QED
    BY <2>1
<1>7. Descriptors[n] = [base |-> s, pages |-> next - s, type |-> type[s],
                        attr |-> fw.attr[s]]
  BY <1>4 DEF Descriptors
<1> HIDE DEF next
<1>8. IsRun(n, s, next)
  <2>1. s \in Nat /\ s < Top
    BY StartsFacts, PagesAre
  <2>2. next \in Starts \cup {Top} /\ s < next
    BY <1>6, <2>1
  <2>3. next <= Top /\ \A q \in Starts : s < q => next <= q
    BY <1>6, <2>1, StartsFacts, PagesAre
  <2> QED
    BY <1>1, <2>2, <2>3 DEF IsRun
<1> QED
  BY <1>7, <1>8

\* All pages of a run have the type of its first one.
LEMMA OneType ==
  ASSUME NEW n, NEW s, NEW next, IsRun(n, s, next),
         NEW p \in Pages, s <= p, p < next
  PROVE  type[p] = type[s]
<1> DEFINE Odd == {q \in Pages : s <= q /\ q <= p /\ type[q] # type[s]}
<1> SUFFICES ASSUME type[p] # type[s] PROVE FALSE
  OBVIOUS
<1>1. s \in Nat /\ Odd \in SUBSET Nat /\ p \in Odd
  BY StartsFacts, PagesAre DEF IsRun
<1>2. PICK q \in Odd : \A r \in Odd : q <= r
  BY <1>1, Least
<1>3. q \in Pages /\ q \in Nat /\ s < q /\ q <= p
  BY <1>1, <1>2, PagesAre
<1>4. q - 1 \in Pages /\ q - 1 \notin Odd /\ s <= q - 1 /\ q - 1 <= p
  BY <1>1, <1>2, <1>3, PagesAre
<1>5. type[q] # type[q - 1]
  BY <1>2, <1>4
<1>6. q \in Starts
  BY <1>3, <1>5 DEF Starts
<1>7. next \in Nat /\ next <= q
  BY <1>3, <1>6, StartsFacts, PagesAre DEF IsRun
<1> QED
  BY <1>1, <1>3, <1>7, PagesAre

\* Every page is in a run.
LEMMA PageInRun ==
  ASSUME NEW p \in Pages
  PROVE  \E n \in 1 .. Cardinality(Starts) :
           \A s, next : IsRun(n, s, next) => s <= p /\ p < next
<1> DEFINE S == {q \in Starts : q <= p}
<1>1. p \in Nat /\ p < Top /\ Starts \subseteq Nat
  BY StartsFacts, PagesAre
<1>2. S \in SUBSET Pages /\ 0 \in S
  <2>1. 0 \in Starts /\ Starts \subseteq Pages
    BY StartsFacts
  <2>2. 0 <= p
    BY <1>1
  <2> QED
    BY <2>1, <2>2
<1>3. PICK b \in S : \A q \in S : q <= b
  BY <1>2, Greatest
<1>4. b \in Starts /\ b <= p
  BY <1>3
<1>5. Rank(b) + 1 \in 1 .. Cardinality(Starts)
  BY <1>4, Ranks, StartsFacts
<1>6. ASSUME NEW s, NEW next, IsRun(Rank(b) + 1, s, next)
      PROVE  s <= p /\ p < next
  <2>1. s \in Starts /\ Rank(s) = Rank(b)
    BY <1>4, <1>6, Ranks, StartsFacts DEF IsRun
  <2>2. s = b
    BY <1>4, <2>1, Ranks
  <2>3. CASE next = Top
    BY <1>1, <1>4, <2>2, <2>3
  <2>4. CASE next \in Starts
    <3>1. next \in Nat /\ b \in Nat /\ b < next
      BY <1>1, <1>4, <1>6, <2>2, <2>4 DEF IsRun
    <3>2. next \notin S
      BY <1>3, <3>1
    <3> QED
      BY <1>1, <1>4, <2>2, <2>4, <3>1, <3>2
  <2> QED
    BY <1>6, <2>3, <2>4 DEF IsRun
<1> QED
  BY <1>5, <1>6

LEMMA DescriptorsCount ==
  /\ DOMAIN Descriptors = 1 .. Cardinality(Starts)
  /\ Len(Descriptors) = Cardinality(Starts)
<1>1. Cardinality(Starts) \in Nat
  BY StartsFacts
<1>2. DOMAIN Descriptors = 1 .. Cardinality(Starts)
  BY DEF Descriptors
<1>3. Len(Descriptors) = Cardinality(Starts)
  BY <1>1 DEF Descriptors
<1> QED
  BY <1>2, <1>3

\* The descriptors say of every page what its type is.
InRun(n, p) ==
  p \in Descriptors[n].base .. Descriptors[n].base + Descriptors[n].pages - 1

LEMMA MapOfMemory ==
  /\ \A n \in DOMAIN Descriptors, p \in Pages :
       InRun(n, p) => type[p] = Descriptors[n].type
  /\ \A p \in Pages : \E n \in DOMAIN Descriptors : InRun(n, p)
<1>1. ASSUME NEW n \in DOMAIN Descriptors, NEW p \in Pages
      PROVE  \E s, next :
               /\ IsRun(n, s, next) /\ Descriptors[n].type = type[s]
               /\ InRun(n, p) <=> s <= p /\ p < next
  <2>1. PICK s, next : /\ IsRun(n, s, next)
                       /\ Descriptors[n] =
                            [base |-> s, pages |-> next - s, type |-> type[s],
                             attr |-> fw.attr[s]]
    BY DescriptorsCount, DescriptorIs
  <2>2. s \in Nat /\ next \in Nat /\ p \in Nat
    <3>1. Starts \subseteq Nat /\ Top \in Nat /\ p \in Nat
      BY StartsFacts, PagesAre
    <3> QED
      BY <2>1, <3>1 DEF IsRun
  <2>3. InRun(n, p) <=> p \in s .. s + (next - s) - 1
    BY <2>1 DEF InRun
  <2>4. s + (next - s) - 1 = next - 1
    BY <2>2
  <2> QED
    BY <2>1, <2>2, <2>3, <2>4
<1>2. ASSUME NEW n \in DOMAIN Descriptors, NEW p \in Pages, InRun(n, p)
      PROVE  type[p] = Descriptors[n].type
  BY <1>1, <1>2, OneType
<1>3. ASSUME NEW p \in Pages
      PROVE  \E n \in DOMAIN Descriptors : InRun(n, p)
  <2>1. PICK n \in DOMAIN Descriptors :
          \A s, next : IsRun(n, s, next) => s <= p /\ p < next
    BY PageInRun, DescriptorsCount
  <2> QED
    BY <1>1, <2>1
<1> QED
  BY <1>2, <1>3

-----------------------------------------------------------------------------
(* The map that the kernel gets. *)

BeforeMap == {"map_size", "map_pool", "map_get"}
Free == {"conventional", "boot_code", "boot_data"}

\* What others left as loader data stays that, and there is no more of it
\* before the loader's own pools.
LoaderInv ==
  /\ \A q \in Pages : fw.type[q] = "loader_data" => type[q] = "loader_data"
  /\ pc \in BeforeMap =>
       /\ ~mmap.defined
       /\ \A q \in Pages : type[q] = "loader_data" => fw.type[q] = "loader_data"

LEMMA UsableTypes ==
  \A t \in MemoryTypes : KrexoType(t) \in {"conventional", "boot_data"} <=> t \in Free
  BY DEF MemoryTypes, KrexoType, Free

\* Only GetMap writes the map.
LEMMA MapStays ==
  ASSUME [Next]_vars, ~GetMap
  PROVE  mmap' = mmap /\ (pc' \in BeforeMap => pc \in BeforeMap)
<1> USE DEF BeforeMap
<1>1. CASE GetMapSize \/ AllocateMap \/ NoGop \/ QueryMode \/ SetMode
  BY <1>1 DEF GetMapSize, AllocateMap, NoGop, QueryMode, SetMode, snapshot
<1>2. CASE InitDisk \/ LoadConfig \/ NoImage \/ LoadImage \/ Menu
  BY <1>2 DEF InitDisk, LoadConfig, NoImage, LoadImage, Menu, snapshot
<1>3. CASE LoadKernel \/ CopySegment \/ HeadersLost \/ FindDtb
  BY <1>3 DEF LoadKernel, CopySegment, HeadersLost, FindDtb, snapshot
<1>4. CASE HandleRequests \/ GetKey \/ ExitBootServices \/ Jump
  BY <1>4 DEF HandleRequests, GetKey, ExitBootServices, Jump, snapshot
<1>5. CASE FirmwareEvent \/ UNCHANGED vars
  BY <1>5 DEF FirmwareEvent, vars, snapshot
<1> QED
  BY <1>1, <1>2, <1>3, <1>4, <1>5 DEF Next, Loader, Done

LEMMA LoaderStep ==
  ASSUME TypeInv, LoaderInv, [Next]_vars
  PROVE  LoaderInv'
<1>1. fw' = fw
  BY TypeStep
<1>2. \A q \in Pages : fw.type[q] = "loader_data" => type'[q] = "loader_data"
  BY LoaderData DEF LoaderInv
<1>3. CASE GetMap
  <2>1. pc' = "gop"
    BY <1>3 DEF GetMap
  <2> QED
    BY <1>1, <1>2, <2>1 DEF LoaderInv, BeforeMap
<1>4. CASE ~GetMap
  <2>1. mmap' = mmap /\ (pc' \in BeforeMap => pc \in BeforeMap)
    BY <1>4, MapStays
  <2>2. pc \in BeforeMap => pc \notin {"config", "image", "load"}
    BY DEF BeforeMap
  <2>3. pc \in BeforeMap =>
          \A q \in Pages : type'[q] = "loader_data" => type[q] = "loader_data"
    BY <2>2, LoaderData
  <2> QED
    BY <1>1, <1>2, <2>1, <2>3 DEF LoaderInv
<1> QED
  BY <1>3, <1>4

\* The loader moves no memory into or out of what the kernel may use; a driver
\* does, and stale has it.
LEMMA ReclaimableStays ==
  ASSUME TypeInv, LoaderInv, [Next]_vars, ~FirmwareEvent
  PROVE  Reclaimable' = Reclaimable
<1>1. fw' = fw /\ \A q \in Pages : PageMayChange(q)
  BY TypeStep
<1>2. \A q \in Pages :
        (type'[q] \in Free \/ (type'[q] = "loader_data" /\ fw.type[q] # "loader_data"))
        <=> (type[q] \in Free \/ (type[q] = "loader_data" /\ fw.type[q] # "loader_data"))
  <2> TAKE q \in Pages
  <2>1. PageMayChange(q) /\ (fw.type[q] = "loader_data" => type[q] = "loader_data")
    BY <1>1 DEF LoaderInv
  <2> QED
    BY <2>1 DEF PageMayChange, Free
<1> QED
  BY <1>1, <1>2 DEF Reclaimable, Free

LEMMA EventKeepsPromise ==
  ASSUME TypeInv, FirmwareEvent, fw' = fw
  PROVE  Promised' = Promised
<1>1. PICK p \in Pages \ {map}, t \in DriverTypes : Event(p, t)
  BY EventFacts DEF TypeInv
<1>2. t \notin {"conventional", "loader_data", "loader_code"}
  BY UefiAssumption
<1>3. \A q \in Pages : q # p => (q \in Reclaimable' <=> q \in Reclaimable)
  BY <1>1 DEF Event, Reclaimable
<1>4. Reclaimable \subseteq Pages /\ Reclaimable' \subseteq Pages
  BY DEF Reclaimable
<1>5. CASE t \in BootTypes
  <2>1. p \in Reclaimable /\ p \in Reclaimable' /\ stale' = stale
    BY <1>1, <1>5 DEF Event, Reclaimable, BootTypes
  <2> QED
    BY <1>3, <1>4, <2>1 DEF Promised
<1>6. CASE t \notin BootTypes
  <2>1. /\ p \in Reclaimable <=> type[p] = "conventional"
        /\ p \in Reclaimable' <=> type'[p] = "conventional"
        /\ type[p] = "conventional" <=> type'[p] # "conventional"
    BY <1>1, <1>2, <1>6 DEF Event, Reclaimable, BootTypes
  <2>2. /\ p \in stale' <=> p \notin stale
        /\ \A q : q # p => (q \in stale' <=> q \in stale)
    BY <1>1, <1>6 DEF Event
  <2>3. \A q : q \in Promised' <=> q \in Promised
    <3> TAKE q
    <3>1. CASE q = p
      BY <2>1, <2>2, <3>1 DEF Promised
    <3>2. CASE q # p
      BY <1>3, <1>4, <2>2, <3>2 DEF Promised
    <3> QED
      BY <3>1, <3>2
  <2> QED
    BY <2>3 DEF Promised
<1> QED
  BY <1>5, <1>6

LEMMA PromisedStays ==
  ASSUME TypeInv, LoaderInv, [Next]_vars, ~GetMap
  PROVE  Promised' = Promised
<1>1. CASE FirmwareEvent
  BY <1>1, TypeStep, EventKeepsPromise
<1>2. CASE ~FirmwareEvent
  <2>1. CASE \/ GetMapSize \/ AllocateMap \/ NoGop \/ QueryMode \/ SetMode
             \/ InitDisk \/ LoadConfig \/ NoImage \/ LoadImage
    BY <1>2, <2>1, ReclaimableStays DEF GetMapSize, AllocateMap, NoGop, QueryMode,
       SetMode, InitDisk, LoadConfig, NoImage, LoadImage, firmware, Promised
  <2>2. CASE \/ Menu \/ LoadKernel \/ CopySegment \/ HeadersLost \/ FindDtb
             \/ HandleRequests \/ GetKey \/ ExitBootServices \/ Jump
    BY <1>2, <2>2, ReclaimableStays DEF Menu, LoadKernel, CopySegment, HeadersLost,
       FindDtb, HandleRequests, GetKey, ExitBootServices, Jump, firmware, Promised
  <2>3. CASE UNCHANGED vars
    BY <1>2, <2>3, ReclaimableStays DEF vars, firmware, Promised
  <2> QED
    BY <1>2, <2>1, <2>2, <2>3 DEF Next, Loader, Done
<1> QED
  BY <1>1, <1>2

\* The map that is made says the truth of every page that it covers.
LEMMA MapMade ==
  ASSUME TypeInv, LoaderInv, GetMap
  PROVE  mmap'.defined =>
           /\ UsablePages' \subseteq Reclaimable
           /\ \/ Len(mmap'.entries) = MaxEntries
              \/ Reclaimable \subseteq UsablePages'
<1> DEFINE count == Cardinality(Starts)
<1>1. CASE mmap' = mmap
  <2>1. pc \in BeforeMap
    BY DEF GetMap, BeforeMap
  <2> QED
    BY <1>1, <2>1 DEF LoaderInv
<1>2. CASE mmap'.entries = [n \in DOMAIN Descriptors \cap (1 .. MaxEntries) |->
                              Entry(Descriptors[n])]
  <2> DEFINE known == DOMAIN Descriptors \cap (1 .. MaxEntries)
  <2>1. \A n \in known :
          /\ mmap'.entries[n].type = KrexoType(Descriptors[n].type)
          /\ mmap'.entries[n].base = Descriptors[n].base
          /\ mmap'.entries[n].pages = Descriptors[n].pages
    BY <1>2 DEF Entry
  <2>2. \A n \in known, p \in Pages : InRun(n, p) =>
          (Usable(mmap'.entries[n]) <=> type[p] \in Free)
    <3>1. \A p \in Pages : type[p] \in MemoryTypes
      BY DEF TypeInv
    <3> QED
      BY <2>1, <3>1, MapOfMemory, UsableTypes DEF Usable
  <2>3. DOMAIN mmap'.entries = known
    BY <1>2
  <2>4. \A p : p \in UsablePages' <=>
          /\ p \in Pages
          /\ \E n \in known : Usable(mmap'.entries[n]) /\ InRun(n, p)
    BY <2>1, <2>3 DEF UsablePages, InRun, Usable
  <2> HIDE DEF known
  <2>5. \A p \in Pages : p \in Reclaimable <=> type[p] \in Free
    <3>1. pc \in BeforeMap
      BY DEF GetMap, BeforeMap
    <3> QED
      BY <3>1 DEF Reclaimable, LoaderInv, Free
  <2>6. UsablePages' \subseteq Reclaimable
    BY <2>2, <2>4, <2>5
  <2>7. CASE count <= MaxEntries
    <3>1. known = DOMAIN Descriptors
      <4>1. count \in Nat /\ MaxEntries \in Nat
        BY StartsFacts, UefiAssumption
      <4> QED
        BY <2>7, <4>1, DescriptorsCount DEF known
    <3>2. \A p \in Pages : type[p] \in Free => p \in UsablePages'
      BY <2>2, <2>4, <3>1, MapOfMemory
    <3> QED
      BY <2>5, <2>6, <3>2 DEF Reclaimable
  <2>8. CASE ~(count <= MaxEntries)
    <3>1. count \in Nat /\ MaxEntries \in Nat
      BY StartsFacts, UefiAssumption
    <3>2. known = 1 .. MaxEntries
      BY <2>8, <3>1, DescriptorsCount DEF known
    <3>3. mmap'.entries = [n \in 1 .. MaxEntries |-> Entry(Descriptors[n])]
      BY <1>2, <3>2 DEF known
    <3>4. Len(mmap'.entries) = MaxEntries
      BY <3>1, <3>3
    <3> QED
      BY <2>6, <3>4
  <2> QED
    BY <2>7, <2>8
<1>3. mmap' = mmap \/ mmap'.entries = [n \in DOMAIN Descriptors \cap (1 .. MaxEntries) |->
                                         Entry(Descriptors[n])]
  BY DEF GetMap
<1> QED
  BY <1>1, <1>2, <1>3

LEMMA MapStep ==
  ASSUME TypeInv, LoaderInv, MapUsable, [Next]_vars
  PROVE  MapUsable'
<1>1. CASE GetMap
  <2>1. ~FirmwareEvent /\ stale' = {}
    BY <1>1 DEF GetMap, FirmwareEvent
  <2>2. Promised' = Reclaimable
    BY <2>1, ReclaimableStays DEF Promised
  <2> QED
    BY <1>1, <2>2, MapMade DEF MapUsable
<1>2. CASE ~GetMap
  <2>1. mmap' = mmap
    BY <1>2, MapStays
  <2>2. UsablePages' = UsablePages
    BY <2>1 DEF UsablePages, Usable
  <2> QED
    BY <1>2, <2>1, <2>2, PromisedStays DEF MapUsable
<1> QED
  BY <1>1, <1>2

\* MapUsable, the hazard of a memory map that is older than the pools and the
\* drivers' events behind it: for every memory and any events the map is wrong
\* of the pages that a driver took for good or gave back in the meantime, and of
\* no other unless the table was full.
THEOREM MapStaysUsable == Spec => []MapUsable
<1>1. Init => LoaderInv /\ MapUsable
  BY DEF Init, LoaderInv, MapUsable
<1> QED
  BY <1>1, LoaderStep, MapStep, TypeInvariant, PTL DEF Spec

\* A change of one page lets runs begin at it and behind it, nowhere else.
LEMMA PoolStarts ==
  ASSUME TypeInv, NEW p \in Pages, NEW t \in MemoryTypes,
         Retype(p, 1, t), fw' = fw
  PROVE  Cardinality(Starts') <= Cardinality(Starts) + 2
<1>1. \A q \in Pages : type'[q] = IF q = p THEN t ELSE type[q]
  BY RetypeFacts, OnePage DEF TypeInv
<1> DEFINE more == (Starts \cup {p}) \cup {p + 1}
<1>2. Starts' \in SUBSET more
  <2> SUFFICES ASSUME NEW q \in Pages, q \in Starts', q # p, q # p + 1
               PROVE  q \in Starts
    BY DEF Starts
  <2>1. q = 0 \/ type'[q] # type'[q - 1] \/ fw.attr[q] # fw.attr[q - 1]
    BY DEF Starts
  <2>2. CASE q = 0
    BY <2>2, StartsFacts
  <2>3. CASE q # 0
    <3>1. q - 1 \in Pages /\ q - 1 # p
      BY <2>3, PagesAre
    <3>2. type'[q] = type[q] /\ type'[q - 1] = type[q - 1]
      BY <1>1, <3>1
    <3> QED
      BY <2>1, <2>3, <3>2 DEF Starts
  <2> QED
    BY <2>2, <2>3
<1>3. IsFiniteSet(Starts) /\ Cardinality(Starts) \in Nat
  BY StartsFacts
<1>4. /\ IsFiniteSet(Starts \cup {p}) /\ Cardinality(Starts \cup {p}) \in Nat
      /\ Cardinality(Starts \cup {p}) <= Cardinality(Starts) + 1
  <2>1. /\ IsFiniteSet(Starts \cup {p})
        /\ Cardinality(Starts \cup {p}) =
             IF p \in Starts THEN Cardinality(Starts) ELSE Cardinality(Starts) + 1
    BY <1>3, FS_AddElement
  <2> QED
    BY <1>3, <2>1
<1>5. /\ IsFiniteSet(more) /\ Cardinality(more) \in Nat
      /\ Cardinality(more) <= Cardinality(Starts \cup {p}) + 1
  <2>1. /\ IsFiniteSet(more)
        /\ Cardinality(more) =
             IF p + 1 \in Starts \cup {p} THEN Cardinality(Starts \cup {p})
             ELSE Cardinality(Starts \cup {p}) + 1
    BY <1>4, FS_AddElement
  <2> QED
    BY <1>4, <2>1
<1>6. IsFiniteSet(Starts') /\ Cardinality(Starts') <= Cardinality(more)
  BY <1>2, <1>5, FS_Subset
<1>7. Cardinality(Starts') \in Nat
  BY <1>6, FS_CardinalityType
<1> HIDE DEF more
<1> QED
  BY <1>3, <1>4, <1>5, <1>6, <1>7

\* Where the way to the map stands while the firmware is quiet.
SnapshotInv ==
  events = 0 =>
    /\ pc = "map_size" => type = fw.type
    /\ pc = "map_pool" => type = fw.type /\ map_size = Cardinality(Starts) + 2
    /\ pc = "map_get" => map_size \in Nat /\ Cardinality(Starts) <= map_size
    /\ pc \notin BeforeMap =>
         mmap.defined \/ \A p \in Pages : fw.type[p] # "conventional"

LEMMA SnapshotStep ==
  ASSUME TypeInv, SnapshotInv, [Next]_vars
  PROVE  SnapshotInv'
<1> USE DEF BeforeMap
<1>1. fw' = fw /\ Cardinality(Starts) \in Nat
  BY TypeStep, StartsFacts
<1>2. CASE GetMapSize
  <2>1. /\ pc = "map_size" /\ pc' = "map_pool" /\ UNCHANGED <<type, events>>
        /\ map_size' = Cardinality(Starts) + 2
    BY <1>2, DescriptorsCount DEF GetMapSize, MapRoom, memory_map, firmware
  <2>2. Starts' = Starts
    BY <1>1, <2>1 DEF Starts
  <2> QED
    BY <1>1, <2>1, <2>2 DEF SnapshotInv
<1>3. CASE AllocateMap
  <2>1. pc = "map_pool" /\ UNCHANGED <<events, map_size, mmap>>
    BY <1>3 DEF AllocateMap, firmware
  <2>2. CASE Room(1) = {}
    <3>1. pc' = "gop" /\ type' = type
      BY <1>3, <2>2 DEF AllocateMap, memory_map
    <3>2. \A p \in Pages : type[p] # "conventional"
      <4> SUFFICES ASSUME NEW p \in Pages, type[p] = "conventional" PROVE FALSE
        OBVIOUS
      <4>1. p + 1 <= Top /\ p .. p + 1 - 1 = {p}
        BY OnePage, PagesAre
      <4>2. p \in Room(1)
        BY <4>1 DEF Room
      <4> QED
        BY <2>2, <4>2
    <3> QED
      BY <1>1, <2>1, <3>1, <3>2 DEF SnapshotInv
  <2>3. CASE Room(1) # {}
    <3>1. PICK p \in Room(1) : Retype(p, 1, "boot_data")
      BY <1>3, <2>3 DEF AllocateMap
    <3>2. pc' = "map_get"
      BY <1>3, <2>3 DEF AllocateMap
    <3>3. p \in Pages /\ "boot_data" \in MemoryTypes
      BY DEF Room, MemoryTypes
    <3>4. Cardinality(Starts') <= Cardinality(Starts) + 2
      BY <1>1, <3>1, <3>3, PoolStarts
    <3> QED
      BY <1>1, <2>1, <3>2, <3>4 DEF SnapshotInv
  <2> QED
    BY <2>2, <2>3
<1>4. CASE GetMap
  <2>1. pc = "map_get" /\ pc' = "gop" /\ UNCHANGED events
    BY <1>4 DEF GetMap, firmware
  <2>2. ASSUME events = 0
        PROVE  mmap'.defined
    <3>1. ~(Len(Descriptors) > map_size)
      BY <1>1, <2>1, <2>2, DescriptorsCount DEF SnapshotInv
    <3> QED
      BY <1>4, <3>1 DEF GetMap
  <2> QED
    BY <2>1, <2>2 DEF SnapshotInv
<1>5. CASE FirmwareEvent
  <2>1. events' # 0
    BY <1>5 DEF FirmwareEvent, TypeInv
  <2> QED
    BY <2>1 DEF SnapshotInv
<1>6. CASE ~(GetMapSize \/ AllocateMap \/ GetMap \/ FirmwareEvent)
  <2>1. CASE UNCHANGED vars
    <3>1. UNCHANGED <<pc, fw, type, map_size, mmap, events>>
      BY <2>1 DEF vars, memory_map, snapshot, firmware
    <3>2. Starts' = Starts
      BY <3>1 DEF Starts
    <3> QED
      BY <3>1, <3>2 DEF SnapshotInv
  <2>2. CASE /\ pc \notin BeforeMap /\ pc' \notin BeforeMap
             /\ UNCHANGED <<mmap, events>>
    BY <1>1, <2>2 DEF SnapshotInv
  <2>3. CASE NoGop \/ QueryMode \/ SetMode \/ InitDisk \/ LoadConfig \/ NoImage
    BY <2>2, <2>3 DEF NoGop, QueryMode, SetMode, InitDisk, LoadConfig, NoImage,
       snapshot, firmware
  <2>4. CASE LoadImage \/ Menu \/ LoadKernel \/ CopySegment \/ HeadersLost \/ FindDtb
    BY <2>2, <2>4 DEF LoadImage, Menu, LoadKernel, CopySegment, HeadersLost,
       FindDtb, snapshot, firmware
  <2>5. CASE HandleRequests \/ GetKey \/ ExitBootServices \/ Jump
    BY <2>2, <2>5 DEF HandleRequests, GetKey, ExitBootServices, Jump, snapshot,
       firmware
  <2> QED
    BY <1>6, <2>1, <2>3, <2>4, <2>5 DEF Next, Loader, Done
<1> QED
  BY <1>2, <1>3, <1>4, <1>5, <1>6

\* SnapshotFits, the hazard of a map that is measured before its own pool is
\* allocated: room for two more descriptors is enough, whatever the memory.
THEOREM SnapshotIsTaken == Spec => []SnapshotFits
<1>1. Init => SnapshotInv
  BY DEF Init, SnapshotInv, BeforeMap
<1>2. TypeInv /\ SnapshotInv => SnapshotFits
  BY DEF TypeInv, SnapshotInv, SnapshotFits, BeforeMap
<1> QED
  BY <1>1, <1>2, SnapshotStep, TypeInvariant, PTL DEF Spec

-----------------------------------------------------------------------------
(* The graphics mode. *)

ModesThatDraw == {m \in DOMAIN fw.modes : Drawable(m)}
WantedModes == {m \in ModesThatDraw : fw.modes[m].wanted}

\* Either the search was ended by the first mode of the wanted size, or there
\* was none so far and a mode that can be drawn in was kept if there was one.
ModeInv ==
  pc \in BeforeMap \cup {"gop"} =>
    /\ i \in 1 .. Len(fw.modes) + 1
    /\ \/ /\ i = Len(fw.modes) + 1 /\ preferred_mode \in WantedModes
          /\ \A m \in WantedModes : preferred_mode <= m
       \/ /\ \A m \in WantedModes : i <= m
          /\ preferred_mode = mode \/ preferred_mode \in ModesThatDraw
          /\ (\E m \in ModesThatDraw : m < i) => preferred_mode \in ModesThatDraw

LEMMA ModesFacts ==
  ASSUME TypeInv
  PROVE  /\ Len(fw.modes) \in Nat /\ DOMAIN fw.modes = 1 .. Len(fw.modes)
         /\ \A m \in 1 .. Len(fw.modes) : /\ Drawable(m) \in BOOLEAN
                                          /\ fw.modes[m].wanted \in BOOLEAN
<1> DEFINE Mode == [answers : BOOLEAN, drawable : BOOLEAN, wanted : BOOLEAN]
<1>1. fw.modes \in Seq(Mode)
  BY UefiAssumption DEF TypeInv, MachineShape
<1>2. \A x \in Mode : /\ x.answers \in BOOLEAN /\ x.drawable \in BOOLEAN
                      /\ x.wanted \in BOOLEAN
  OBVIOUS
<1> HIDE DEF Mode
<1>3. /\ Len(fw.modes) \in Nat /\ DOMAIN fw.modes = 1 .. Len(fw.modes)
      /\ \A m \in 1 .. Len(fw.modes) : fw.modes[m] \in Mode
  BY <1>1
<1> QED
  BY <1>2, <1>3 DEF Drawable

LEMMA QueryStep ==
  ASSUME TypeInv, ModeInv, QueryMode
  PROVE  ModeInv'
<1> DEFINE len == Len(fw.modes)
           wanted == fw.modes[i].wanted
<1>1. /\ len \in Nat /\ DOMAIN fw.modes = 1 .. len /\ i \in 1 .. len
      /\ Drawable(i) \in BOOLEAN /\ wanted \in BOOLEAN
  <2>1. i \in 1 .. Len(fw.modes) + 1 /\ i <= Len(fw.modes)
    BY DEF QueryMode, ModeInv
  <2> QED
    BY <2>1, ModesFacts
<1>2. /\ \A m \in WantedModes : i <= m
      /\ preferred_mode = mode \/ preferred_mode \in ModesThatDraw
      /\ (\E m \in ModesThatDraw : m < i) => preferred_mode \in ModesThatDraw
  BY <1>1 DEF QueryMode, ModeInv
<1>3. /\ fw' = fw /\ mode' = mode /\ pc = "gop"
      /\ WantedModes' = WantedModes /\ ModesThatDraw' = ModesThatDraw
  BY DEF QueryMode, firmware, WantedModes, ModesThatDraw, Drawable
<1>4. /\ i \in ModesThatDraw <=> Drawable(i)
      /\ i \in WantedModes <=> Drawable(i) /\ wanted
  BY <1>1 DEF ModesThatDraw, WantedModes
<1>5. /\ preferred_mode' = IF Drawable(i) /\ (wanted \/ preferred_mode = mode)
                             THEN i ELSE preferred_mode
      /\ i' = IF Drawable(i) /\ wanted THEN len + 1 ELSE i + 1
  BY DEF QueryMode, Preferred
<1>6. \A m \in ModesThatDraw : m \in 1 .. len
  BY <1>1 DEF ModesThatDraw
<1> HIDE DEF wanted
<1>7. CASE Drawable(i) /\ wanted
  BY <1>1, <1>2, <1>3, <1>4, <1>5, <1>7 DEF ModeInv
<1>8. CASE ~(Drawable(i) /\ wanted)
  <2>1. i' = i + 1 /\ i' \in 1 .. len + 1
    BY <1>1, <1>5, <1>8
  <2>2. \A m \in WantedModes : i' <= m
    <3>1. \A m \in WantedModes : m \in Nat /\ m # i
      BY <1>4, <1>6, <1>8 DEF WantedModes
    <3> QED
      BY <1>1, <1>2, <2>1, <3>1
  <2>3. preferred_mode' = mode \/ preferred_mode' \in ModesThatDraw
    BY <1>2, <1>4, <1>5
  <2>4. (\E m \in ModesThatDraw : m < i') => preferred_mode' \in ModesThatDraw
    <3>1. ASSUME NEW m \in ModesThatDraw, m < i'
          PROVE  m < i \/ m = i
      BY <1>1, <1>6, <2>1, <3>1
    <3> QED
      BY <1>2, <1>4, <1>5, <3>1
  <2> QED
    BY <1>3, <2>1, <2>2, <2>3, <2>4 DEF ModeInv
<1> QED
  BY <1>7, <1>8

LEMMA ModeStep ==
  ASSUME TypeInv, ModeInv, [Next]_vars
  PROVE  ModeInv'
<1>1. fw' = fw
  BY TypeStep
<1>2. CASE /\ pc' \in BeforeMap \cup {"gop"} => pc \in BeforeMap \cup {"gop"}
           /\ UNCHANGED graphics
  <2>1. WantedModes' = WantedModes /\ ModesThatDraw' = ModesThatDraw
    BY <1>1 DEF WantedModes, ModesThatDraw, Drawable
  <2> QED
    BY <1>1, <1>2, <2>1 DEF ModeInv, graphics
<1>3. CASE GetMapSize \/ AllocateMap \/ GetMap
  BY <1>2, <1>3 DEF GetMapSize, AllocateMap, GetMap, BeforeMap
<1>4. CASE QueryMode
  BY <1>4, QueryStep
<1>5. CASE NoGop \/ SetMode \/ InitDisk \/ LoadConfig \/ NoImage \/ LoadImage
  BY <1>5 DEF NoGop, SetMode, InitDisk, LoadConfig, NoImage, LoadImage, ModeInv,
     BeforeMap
<1>6. CASE Menu \/ LoadKernel \/ CopySegment \/ HeadersLost \/ FindDtb
  BY <1>6 DEF Menu, LoadKernel, CopySegment, HeadersLost, FindDtb, ModeInv,
     BeforeMap
<1>7. CASE HandleRequests \/ GetKey \/ ExitBootServices \/ Jump
  BY <1>7 DEF HandleRequests, GetKey, ExitBootServices, Jump, ModeInv, BeforeMap
<1>8. CASE FirmwareEvent \/ UNCHANGED vars
  BY <1>2, <1>8 DEF FirmwareEvent, vars
<1> QED
  BY <1>3, <1>4, <1>5, <1>6, <1>7, <1>8 DEF Next, Loader, Done

\* ModeChosen: the search for a mode takes the first of the wanted size, and
\* otherwise one that can be drawn in, for every list of modes, any of them set
\* before and any of them silent.
THEOREM ModeIsChosen == Spec => []ModeChosen
<1>1. Init => ModeInv
  <2> SUFFICES ASSUME Init PROVE ModeInv
    OBVIOUS
  <2>1. fw \in Machines
    BY DEF Init
  <2>2. fw.modes \in Seq([answers : BOOLEAN, drawable : BOOLEAN, wanted : BOOLEAN])
    BY <2>1, UefiAssumption DEF MachineShape
  <2>3. Len(fw.modes) \in Nat /\ DOMAIN fw.modes = 1 .. Len(fw.modes)
    BY <2>2
  <2>4. i = 1 /\ preferred_mode = mode
    BY DEF Init
  <2>5. \A m \in ModesThatDraw : 1 <= m /\ ~(m < 1)
    BY <2>3 DEF ModesThatDraw
  <2> QED
    BY <2>3, <2>4, <2>5 DEF ModeInv, WantedModes
<1>2. TypeInv /\ ModeInv => ModeChosen
  <2> SUFFICES ASSUME TypeInv, ModeInv, pc = "gop", i > Len(fw.modes)
               PROVE  IF WantedModes # {}
                        THEN /\ preferred_mode \in WantedModes
                             /\ \A m \in WantedModes : preferred_mode <= m
                        ELSE ModesThatDraw # {} => preferred_mode \in ModesThatDraw
    BY DEF ModeChosen, WantedModes, ModesThatDraw
  <2>1. /\ Len(fw.modes) \in Nat /\ i = Len(fw.modes) + 1
        /\ \A m \in ModesThatDraw : m \in 1 .. Len(fw.modes)
    BY ModesFacts DEF ModeInv, ModesThatDraw
  <2>2. \A m \in WantedModes : ~(i <= m)
    BY <2>1 DEF WantedModes
  <2>3. \A m \in ModesThatDraw : m < i
    BY <2>1
  <2> QED
    BY <2>2, <2>3 DEF ModeInv
<1> QED
  BY <1>1, <1>2, ModeStep, TypeInvariant, PTL DEF Spec

-----------------------------------------------------------------------------
(* The kernel in memory. *)

BeforeLoad == {"map_size", "map_pool", "map_get", "gop", "disk", "config", "image",
               "menu", "load"}
Loaded == {"segments", "requests", "get_key", "exit", "jump", "kernel"}

Kernel == fw.kernel
KernelSegments == fw.kernel.segments
PoolPages == kbuffer .. kbuffer + KernelMax - 1
TargetPages == UNION {Targets(KernelSegments[n]) : n \in DOMAIN KernelSegments}

\* The pool that has the kernel's file is the loader's for good.
PoolInv ==
  kbuffer # None =>
    /\ kbuffer \in Pages /\ PoolPages \subseteq Pages
    /\ \A p \in PoolPages : type[p] = "loader_data"

\* What Undisturbed says of the machine and of where the pools are; unlike the
\* types of the pages none of it changes once the file is loaded.
Proper ==
  /\ fb # 0 /\ cbuf # None /\ kbuffer # None
  /\ Kernel.size \in 1 .. KernelMax
  /\ \A n \in DOMAIN KernelSegments :
       LET s == KernelSegments[n]
       IN /\ s.filesz <= s.memsz /\ s.offset + s.filesz <= Kernel.size
          /\ \A m \in DOMAIN KernelSegments \ {n} :
               Targets(s) \cap Targets(KernelSegments[m]) = {}
  /\ TargetPages \subseteq Pages \ {ResponsePage}
  /\ \A p \in TargetPages \cup {ResponsePage} : p \notin PoolPages

\* Page p holds c, or what a driver left there.
Holds(p, c) == mem[p] = c \/ mem[p] = <<"driver">>

\* Segment s is where it belongs.
Content(s, b) == IF b < s.filesz THEN <<"kernel", s.offset + b>> ELSE <<"zero">>
InMemory(s) == \A b \in 0 .. s.memsz - 1 : Holds(s.paddr + b, Content(s, b))

\* What was scanned for requests, and the responses.
Answered ==
  /\ KernelBase # ResponsePage => Holds(KernelBase, scanned)
  /\ Holds(ResponsePage, <<"responses">>)

\* The file is in its pool, the segments copied so far are in their places, what
\* was scanned for requests is what is still there, and so are the responses.
LoadedInv ==
  Proper /\ pc \in Loaded =>
    /\ \A o \in 0 .. Kernel.size - 1 : mem[kbuffer + o] = <<"kernel", o>>
    /\ \A n \in DOMAIN KernelSegments : n < segment => InMemory(KernelSegments[n])
    /\ pc # "segments" => segment > Len(KernelSegments)
    /\ pc \notin {"segments", "requests"} => Answered

KernelInv ==
  /\ DOMAIN mem = Pages /\ segment \in Nat \ {0}
  /\ pc \in BeforeLoad => segment = 1 /\ kbuffer = None
  /\ pc \in BeforeLoad \ {"image", "menu", "load"} => cbuf = None
  /\ pc = "lost" => ~Proper
  /\ PoolInv /\ LoadedInv

LEMMA SegmentFacts ==
  ASSUME TypeInv
  PROVE  /\ Kernel.size \in Nat /\ Len(KernelSegments) \in Nat
         /\ DOMAIN KernelSegments = 1 .. Len(KernelSegments)
         /\ \A n \in DOMAIN KernelSegments :
              /\ KernelSegments[n].paddr \in Nat /\ KernelSegments[n].offset \in Nat
              /\ KernelSegments[n].filesz \in Nat /\ KernelSegments[n].memsz \in Nat
<1> DEFINE Shape == [paddr : Nat, offset : Nat, filesz : Nat, memsz : Nat]
<1>1. KernelSegments \in Seq(Shape) /\ Kernel.size \in Nat
  BY UefiAssumption DEF TypeInv, MachineShape, KernelSegments, Kernel
<1>2. \A s \in Shape : /\ s.paddr \in Nat /\ s.offset \in Nat
                       /\ s.filesz \in Nat /\ s.memsz \in Nat
  OBVIOUS
<1> HIDE DEF Shape
<1> QED
  BY <1>1, <1>2

\* A kernel that is undisturbed has a pool that no segment and no response
\* goes to: its pages are loader data, theirs are free.
LEMMA UndisturbedIsProper ==
  ASSUME PoolInv, Undisturbed
  PROVE  Proper
<1>1. /\ fb # 0 /\ cbuf # None /\ kbuffer # None
      /\ \A p \in TargetPages \cup {ResponsePage} : type[p] = "conventional"
  BY DEF Undisturbed, TargetPages, KernelSegments
<1>2. \A p \in PoolPages : type[p] = "loader_data"
  BY <1>1 DEF PoolInv
<1>3. \A p \in TargetPages \cup {ResponsePage} : p \notin PoolPages
  BY <1>1, <1>2
<1> QED
  BY <1>1, <1>3 DEF Undisturbed, Proper, TargetPages, KernelSegments, Kernel

LEMMA PoolStep ==
  ASSUME TypeInv, PoolInv, [Next]_vars, kbuffer' = kbuffer
  PROVE  PoolInv'
<1>2. \A q \in Pages : type[q] = "loader_data" => type'[q] = "loader_data"
  BY LoaderData
<1> QED
  BY <1>2 DEF PoolInv, PoolPages

\* What does not touch the machine and the pools leaves a kernel as proper as
\* it was.
LEMMA ProperStays ==
  ASSUME UNCHANGED <<fw, fb, cbuf, kbuffer>>
  PROVE  Proper' <=> Proper
  BY DEF Proper, Targets, TargetPages, PoolPages, KernelSegments, Kernel

\* The file is read into its pool.
LEMMA LoadStep ==
  ASSUME TypeInv, KernelInv, LoadKernel
  PROVE  KernelInv'
<1>1. /\ pc = "load" /\ segment = 1 /\ kbuffer = None
      /\ UNCHANGED <<fw, fb, cbuf, segment>>
  BY DEF LoadKernel, KernelInv, BeforeLoad, firmware, graphics
<1>2. CASE Room(KernelMax) = {}
  <2>1. /\ pc' \in {"lost", "no_kernel"} /\ UNCHANGED <<kbuffer, mem>>
    BY <1>2 DEF LoadKernel
  <2>2. ~Proper'
    BY <1>1, <2>1 DEF Proper
  <2> QED
    BY <1>1, <2>1, <2>2 DEF KernelInv, PoolInv, LoadedInv, BeforeLoad, Loaded
<1>3. CASE Room(KernelMax) # {}
  <2>1. PICK p \in Room(KernelMax) :
          /\ Retype(p, KernelMax, "loader_data") /\ kbuffer' = p
          /\ \/ /\ pc' = "segments"
                /\ ReadFile(p, "kernel", fw.kernel.size, KernelMax)
             \/ /\ pc' = "no_kernel"
                /\ ReadFails(p, "kernel", fw.kernel.size, KernelMax)
    BY <1>3 DEF LoadKernel
  <2>2. /\ p \in Pages /\ p .. p + KernelMax - 1 \subseteq Pages
        /\ \A q \in p .. p + KernelMax - 1 : type'[q] = "loader_data"
    <3>1. KernelMax \in Nat /\ "loader_data" \in MemoryTypes
      BY UefiAssumption DEF MemoryTypes
    <3> QED
      BY <2>1, <3>1, PoolFacts DEF TypeInv, Room
  <2>3. PoolInv'
    BY <2>1, <2>2 DEF PoolInv, PoolPages
  <2>4. DOMAIN mem' = Pages
    BY <2>1 DEF ReadFile, ReadFails, Store
  <2>5. CASE pc' = "no_kernel"
    BY <1>1, <2>3, <2>4, <2>5 DEF KernelInv, LoadedInv, BeforeLoad, Loaded
  <2>6. CASE pc' = "segments" /\ ReadFile(p, "kernel", fw.kernel.size, KernelMax)
    <3>1. ASSUME Proper'
          PROVE  \A o \in 0 .. Kernel.size - 1 : mem'[p + o] = <<"kernel", o>>
      <4>1. Kernel.size \in 1 .. KernelMax /\ KernelMax \in Nat /\ p \in Nat
        BY <1>1, <2>2, <3>1, UefiAssumption, PagesAre DEF Proper, Kernel
      <4>2. Whole(fw.kernel.size, KernelMax) = Kernel.size
        BY <4>1 DEF Whole, Kernel
      <4>3. \A q \in Pages : q \in p .. p + Kernel.size - 1 =>
              mem'[q] = <<"kernel", q - p>>
        BY <2>6, <4>2 DEF ReadFile, Store
      <4> TAKE o \in 0 .. Kernel.size - 1
      <4>4. p + o \in p .. p + Kernel.size - 1 /\ p + o \in p .. p + KernelMax - 1
        BY <4>1
      <4>5. (p + o) - p = o
        BY <4>1
      <4> QED
        BY <2>2, <4>3, <4>4, <4>5
    <3>2. LoadedInv'
      <4>1. Kernel' = Kernel /\ KernelSegments' = KernelSegments
        BY <1>1 DEF Kernel, KernelSegments
      <4>2. \A n \in DOMAIN KernelSegments : ~(n < 1)
        BY SegmentFacts
      <4> QED
        BY <1>1, <2>1, <2>6, <3>1, <4>1, <4>2 DEF LoadedInv
    <3> QED
      BY <1>1, <2>3, <2>4, <2>6, <3>2 DEF KernelInv, BeforeLoad
  <2> QED
    BY <2>1, <2>5, <2>6
<1> QED
  BY <1>2, <1>3

\* One segment is copied: the pool and the segments before it are elsewhere.
LEMMA CopyStep ==
  ASSUME TypeInv, KernelInv, CopySegment
  PROVE  KernelInv'
<1>1. /\ pc = "segments" /\ pc' = "segments" /\ segment' = segment + 1
      /\ segment <= Len(KernelSegments)
      /\ UNCHANGED <<fw, fb, cbuf, kbuffer, type>>
      /\ mem' = [p \in Pages |-> Segment(KernelSegments[segment], p)]
  BY DEF CopySegment, firmware, graphics, memory_map, KernelSegments
<1>2. segment \in DOMAIN KernelSegments /\ segment \in Nat \ {0}
  BY <1>1, SegmentFacts DEF KernelInv
<1> DEFINE k == KernelSegments[segment]
<1>3. /\ k.paddr \in Nat /\ k.offset \in Nat /\ k.filesz \in Nat /\ k.memsz \in Nat
  BY <1>2, SegmentFacts
<1>4. ASSUME Proper
      PROVE  /\ k.filesz <= k.memsz /\ k.offset + k.filesz <= Kernel.size
             /\ Targets(k) \subseteq Pages
             /\ \A p \in Targets(k) : p \notin PoolPages
             /\ \A m \in DOMAIN KernelSegments \ {segment} :
                  Targets(k) \cap Targets(KernelSegments[m]) = {}
             /\ kbuffer \in Nat /\ Kernel.size \in 1 .. KernelMax
             /\ PoolPages \subseteq Pages
             /\ \A o \in 0 .. Kernel.size - 1 : mem[kbuffer + o] = <<"kernel", o>>
             /\ \A n \in DOMAIN KernelSegments :
                  n < segment => InMemory(KernelSegments[n])
  <2>1. Targets(k) \subseteq TargetPages
    BY <1>2 DEF TargetPages
  <2>2. kbuffer # None /\ kbuffer \in Nat /\ PoolPages \subseteq Pages
    BY <1>4, PagesAre DEF Proper, KernelInv, PoolInv
  <2>3. /\ \A o \in 0 .. Kernel.size - 1 : mem[kbuffer + o] = <<"kernel", o>>
        /\ \A n \in DOMAIN KernelSegments :
             n < segment => InMemory(KernelSegments[n])
    BY <1>1, <1>4 DEF KernelInv, LoadedInv, Loaded
  <2>4. /\ k.filesz <= k.memsz /\ k.offset + k.filesz <= Kernel.size
        /\ Kernel.size \in 1 .. KernelMax
        /\ \A m \in DOMAIN KernelSegments \ {segment} :
             Targets(k) \cap Targets(KernelSegments[m]) = {}
    BY <1>2, <1>4 DEF Proper
  <2> QED
    BY <1>4, <2>1, <2>2, <2>3, <2>4 DEF Proper
<1>5. ASSUME NEW p \in Pages, p \notin Targets(k), Proper
      PROVE  mem'[p] = mem[p]
  <2>1. p \in Nat
    BY PagesAre
  <2>2. p \notin k.paddr .. k.paddr + k.filesz - 1 /\ p \notin Bss(k)
    <3> HIDE DEF k
    <3> QED
      BY <1>3, <1>4, <1>5, <2>1 DEF Targets, Bss
  <2> QED
    BY <1>1, <2>2 DEF Segment
<1>6. ASSUME Proper
      PROVE  \A o \in 0 .. Kernel.size - 1 : mem'[kbuffer + o] = <<"kernel", o>>
  <2> TAKE o \in 0 .. Kernel.size - 1
  <2>1. kbuffer + o \in PoolPages
    <3>1. KernelMax \in Nat
      BY UefiAssumption
    <3> QED
      BY <1>4, <1>6, <3>1 DEF PoolPages
  <2>2. kbuffer + o \in Pages /\ kbuffer + o \notin Targets(k)
    BY <1>4, <1>6, <2>1
  <2> QED
    BY <1>4, <1>5, <1>6, <2>2
<1>7. ASSUME NEW n \in DOMAIN KernelSegments, n < segment + 1, Proper
      PROVE  InMemory(KernelSegments[n])'
  <2>1. n \in Nat
    BY SegmentFacts
  <2>2. CASE n = segment
    <3>1. ASSUME NEW b \in 0 .. k.memsz - 1
          PROVE  mem'[k.paddr + b] = Content(k, b)
      <4> DEFINE p == k.paddr + b
      <4>1. p \in Targets(k) /\ p \in Pages
        <5>1. p \in k.paddr .. k.paddr + k.memsz - 1
          BY <1>3
        <5> QED
          BY <1>4, <1>7, <5>1 DEF Targets
      <4>2. CASE b < k.filesz
        <5>1. /\ p \in k.paddr .. k.paddr + k.filesz - 1
              /\ kbuffer + k.offset + p - k.paddr = kbuffer + (k.offset + b)
              /\ k.offset + b \in 0 .. Kernel.size - 1
          <6> HIDE DEF k
          <6> QED
            BY <1>3, <1>4, <1>7, <4>2
        <5>2. mem'[p] = At(kbuffer + (k.offset + b))
          BY <1>1, <4>1, <5>1 DEF Segment
        <5>3. kbuffer + (k.offset + b) \in Pages
          <6>1. KernelMax \in Nat
            BY UefiAssumption
          <6> HIDE DEF k
          <6>2. kbuffer + (k.offset + b) \in PoolPages
            BY <1>4, <1>7, <5>1, <6>1 DEF PoolPages
          <6> QED
            BY <1>4, <1>7, <6>2
        <5> QED
          BY <1>4, <1>7, <4>2, <5>1, <5>2, <5>3 DEF At, Content
      <4>3. CASE ~(b < k.filesz)
        <5>1. /\ p \notin k.paddr .. k.paddr + k.filesz - 1
              /\ p \in Bss(k)
          BY <1>3, <4>3 DEF Bss
        <5> QED
          BY <1>1, <4>1, <4>3, <5>1 DEF Segment, Content
      <4> QED
        BY <4>2, <4>3
    <3>2. KernelSegments' = KernelSegments
      BY <1>1 DEF KernelSegments
    <3> QED
      BY <2>2, <3>1, <3>2 DEF InMemory, Holds, Content
  <2>3. CASE n # segment
    <3> DEFINE other == KernelSegments[n]
    <3>1. InMemory(other) /\ Targets(k) \cap Targets(other) = {}
      BY <1>2, <1>4, <1>7, <2>1, <2>3
    <3>2. Targets(other) \subseteq Pages
      BY <1>7 DEF Proper, TargetPages
    <3>3. other.paddr \in Nat /\ other.memsz \in Nat
      BY SegmentFacts
    <3>4. ASSUME NEW b \in 0 .. other.memsz - 1
          PROVE  mem'[other.paddr + b] = mem[other.paddr + b]
      <4>1. other.paddr + b \in Targets(other)
        BY <3>3 DEF Targets
      <4> QED
        BY <1>5, <1>7, <3>1, <3>2, <4>1
    <3>5. KernelSegments' = KernelSegments
      BY <1>1 DEF KernelSegments
    <3> QED
      BY <3>1, <3>4, <3>5 DEF InMemory, Holds, Content
  <2> QED
    BY <2>2, <2>3
<1>8. Proper' <=> Proper
  BY <1>1, ProperStays
<1>9. Kernel' = Kernel /\ KernelSegments' = KernelSegments
  BY <1>1 DEF Kernel, KernelSegments
<1>10. LoadedInv'
  BY <1>1, <1>6, <1>7, <1>8, <1>9 DEF LoadedInv
<1>11. PoolInv'
  BY <1>1 DEF KernelInv, PoolInv, PoolPages
<1> QED
  BY <1>1, <1>2, <1>10, <1>11 DEF KernelInv, BeforeLoad

\* The responses go to a page that is neither a segment's nor the pool's.
LEMMA RequestsStep ==
  ASSUME TypeInv, KernelInv, HandleRequests
  PROVE  KernelInv'
<1>1. /\ pc = "requests" /\ pc' \in {"get_key", "refused"}
      /\ scanned' = mem[KernelBase]
      /\ mem' = [mem EXCEPT ![ResponsePage] = <<"responses">>]
      /\ UNCHANGED <<fw, fb, cbuf, kbuffer, type, segment>>
  BY DEF HandleRequests, firmware, graphics, memory_map
<1>2. \A p \in Pages : p # ResponsePage => mem'[p] = mem[p]
  BY <1>1 DEF KernelInv
<1>3. ASSUME Proper
      PROVE  /\ \A o \in 0 .. Kernel.size - 1 : mem'[kbuffer + o] = <<"kernel", o>>
             /\ \A n \in DOMAIN KernelSegments :
                  n < segment => InMemory(KernelSegments[n])'
             /\ segment > Len(KernelSegments)
  <2>1. /\ \A o \in 0 .. Kernel.size - 1 : mem[kbuffer + o] = <<"kernel", o>>
        /\ \A n \in DOMAIN KernelSegments :
             n < segment => InMemory(KernelSegments[n])
        /\ segment > Len(KernelSegments)
    BY <1>1, <1>3 DEF KernelInv, LoadedInv, Loaded
  <2>2. /\ kbuffer \in Nat /\ PoolPages \subseteq Pages /\ ResponsePage \notin PoolPages
        /\ Kernel.size \in 1 .. KernelMax
    BY <1>3, PagesAre DEF Proper, KernelInv, PoolInv
  <2>3. \A o \in 0 .. Kernel.size - 1 : mem'[kbuffer + o] = <<"kernel", o>>
    <3> TAKE o \in 0 .. Kernel.size - 1
    <3>1. kbuffer + o \in PoolPages
      BY <2>2, UefiAssumption DEF PoolPages
    <3> QED
      BY <1>2, <2>1, <2>2, <3>1
  <2>4. ASSUME NEW n \in DOMAIN KernelSegments, n < segment
        PROVE  InMemory(KernelSegments[n])'
    <3> DEFINE other == KernelSegments[n]
    <3>1. InMemory(other)
      BY <2>1, <2>4
    <3>2. Targets(other) \subseteq Pages \ {ResponsePage}
      BY <1>3 DEF Proper, TargetPages
    <3>3. other.paddr \in Nat /\ other.memsz \in Nat
      BY SegmentFacts
    <3>4. ASSUME NEW b \in 0 .. other.memsz - 1
          PROVE  mem'[other.paddr + b] = mem[other.paddr + b]
      <4>1. other.paddr + b \in Targets(other)
        BY <3>3 DEF Targets
      <4> QED
        BY <1>2, <3>2, <4>1
    <3>5. KernelSegments' = KernelSegments
      BY <1>1 DEF KernelSegments
    <3> QED
      BY <3>1, <3>4, <3>5 DEF InMemory, Holds, Content
  <2> QED
    BY <2>1, <2>3, <2>4
<1>4. Proper' <=> Proper
  BY <1>1, ProperStays
<1>5. Answered'
  <2>1. DOMAIN mem = Pages /\ ResponsePage \in Pages
    BY UefiAssumption DEF KernelInv
  <2> QED
    BY <1>1, <1>2, <2>1, UefiAssumption DEF Answered, Holds
<1>6. Kernel' = Kernel /\ KernelSegments' = KernelSegments
  BY <1>1 DEF Kernel, KernelSegments
<1>7. LoadedInv'
  BY <1>1, <1>3, <1>4, <1>5, <1>6 DEF LoadedInv
<1>8. PoolInv'
  BY <1>1 DEF KernelInv, PoolInv, PoolPages
<1>9. DOMAIN mem' = Pages
  BY <1>1 DEF KernelInv
<1> QED
  BY <1>1, <1>7, <1>8, <1>9 DEF KernelInv, BeforeLoad

\* Until the kernel is loaded there is nothing to keep.
LEMMA EarlyStep ==
  ASSUME TypeInv, KernelInv, pc \in BeforeLoad, segment' = segment,
         kbuffer' = kbuffer, pc' \notin Loaded, DOMAIN mem' = Pages,
         pc' \in BeforeLoad \ {"image", "menu", "load"} => cbuf' = None,
         pc' = "lost" => cbuf' = None \/ kbuffer' = None \/ fb' = 0
  PROVE  KernelInv'
<1>1. segment = 1 /\ kbuffer = None
  BY DEF KernelInv
<1>2. pc' = "lost" => ~Proper'
  BY DEF Proper
<1> QED
  BY <1>1, <1>2 DEF KernelInv, PoolInv, LoadedInv

\* With the kernel in memory, a step that touches none of it.
LEMMA LaterStep ==
  ASSUME TypeInv, KernelInv, [Next]_vars, pc \notin BeforeLoad, pc' \notin BeforeLoad,
         UNCHANGED <<fw, fb, cbuf, kbuffer, mem, segment, scanned>>,
         pc' = "lost" => pc = "lost" \/ ~Proper,
         pc' \in Loaded => pc \in Loaded,
         pc' # "segments" /\ pc = "segments" => segment > Len(KernelSegments),
         pc = "requests" => pc' = "requests",
         pc = "segments" => pc' \in {"segments", "requests", "lost"}
  PROVE  KernelInv'
<1>1. Proper' <=> Proper
  BY ProperStays
<1>2. Kernel' = Kernel /\ KernelSegments' = KernelSegments
  BY DEF Kernel, KernelSegments
<1>3. \A n \in DOMAIN KernelSegments :
        InMemory(KernelSegments[n]) => InMemory(KernelSegments[n])'
  BY <1>2 DEF InMemory, Holds, Content
<1>4. PoolInv'
  BY PoolStep DEF KernelInv
<1>5. ASSUME Proper', pc' \in Loaded
      PROVE  /\ \A o \in 0 .. Kernel.size - 1 : mem'[kbuffer + o] = <<"kernel", o>>
             /\ \A n \in DOMAIN KernelSegments :
                  n < segment => InMemory(KernelSegments[n])'
             /\ pc' # "segments" => segment > Len(KernelSegments)
             /\ pc' \notin {"segments", "requests"} => Answered'
  <2>1. Proper /\ pc \in Loaded
    BY <1>1, <1>5
  <2>2. /\ \A o \in 0 .. Kernel.size - 1 : mem[kbuffer + o] = <<"kernel", o>>
        /\ \A n \in DOMAIN KernelSegments :
             n < segment => InMemory(KernelSegments[n])
        /\ pc # "segments" => segment > Len(KernelSegments)
        /\ pc \notin {"segments", "requests"} => Answered
    BY <2>1 DEF KernelInv, LoadedInv
  <2>3. pc = "segments" /\ pc' \notin {"segments", "requests"} => pc' = "lost"
    OBVIOUS
  <2>4. pc' # "lost"
    BY <1>5 DEF Loaded
  <2>5. Answered => Answered'
    BY DEF Answered, Holds
  <2> QED
    BY <1>3, <2>2, <2>3, <2>4, <2>5
<1>6. LoadedInv'
  BY <1>2, <1>5 DEF LoadedInv
<1> QED
  BY <1>1, <1>4, <1>6 DEF KernelInv

\* A driver's event with the kernel in memory: the pool is the loader's, and what
\* else there is may be a driver's afterwards.
LEMMA DriverStep ==
  ASSUME TypeInv, KernelInv, FirmwareEvent, pc \notin BeforeLoad
  PROVE  KernelInv'
<1>1. UNCHANGED <<pc, fw, fb, cbuf, kbuffer, segment, scanned>>
  BY DEF FirmwareEvent, graphics, handover
<1>2. /\ DOMAIN mem' = Pages
      /\ \A q \in Pages : mem'[q] = mem[q] \/ mem'[q] = <<"driver">>
      /\ \A q \in Pages : type[q] = "loader_data" => mem'[q] = mem[q]
  <2>1. PICK p \in Pages, t \in DriverTypes :
          /\ type[p] = "conventional" \/ type[p] = t
          /\ mem' \in {mem, [mem EXCEPT ![p] = <<"driver">>]}
    BY DEF FirmwareEvent
  <2>2. t # "loader_data"
    BY UefiAssumption
  <2>3. DOMAIN mem = Pages
    BY DEF KernelInv
  <2> QED
    BY <2>1, <2>2, <2>3
<1>3. Proper' <=> Proper
  BY <1>1, ProperStays
<1>4. Kernel' = Kernel /\ KernelSegments' = KernelSegments
  BY <1>1 DEF Kernel, KernelSegments
<1>5. \A q \in Pages : \A c : Holds(q, c) => mem'[q] = c \/ mem'[q] = <<"driver">>
  BY <1>2 DEF Holds
<1>6. PoolInv'
  BY <1>1, PoolStep DEF KernelInv, Next
<1>7. ASSUME Proper, pc \in Loaded
      PROVE  /\ \A o \in 0 .. Kernel.size - 1 : mem'[kbuffer + o] = <<"kernel", o>>
             /\ \A n \in DOMAIN KernelSegments :
                  n < segment => InMemory(KernelSegments[n])'
             /\ pc # "segments" => segment > Len(KernelSegments)
             /\ pc \notin {"segments", "requests"} => Answered'
  <2>1. /\ \A o \in 0 .. Kernel.size - 1 : mem[kbuffer + o] = <<"kernel", o>>
        /\ \A n \in DOMAIN KernelSegments :
             n < segment => InMemory(KernelSegments[n])
        /\ pc # "segments" => segment > Len(KernelSegments)
        /\ pc \notin {"segments", "requests"} => Answered
    BY <1>7 DEF KernelInv, LoadedInv
  <2>2. ASSUME NEW o \in 0 .. Kernel.size - 1
        PROVE  mem'[kbuffer + o] = <<"kernel", o>>
    <3>1. /\ kbuffer \in Nat /\ Kernel.size \in 1 .. KernelMax /\ KernelMax \in Nat
          /\ \A p \in PoolPages : p \in Pages /\ type[p] = "loader_data"
      BY <1>7, UefiAssumption, PagesAre DEF Proper, KernelInv, PoolInv
    <3>2. kbuffer + o \in PoolPages
      BY <3>1 DEF PoolPages
    <3> QED
      BY <1>2, <2>1, <3>1, <3>2
  <2>3. ASSUME NEW n \in DOMAIN KernelSegments, n < segment
        PROVE  InMemory(KernelSegments[n])'
    <3> DEFINE s == KernelSegments[n]
    <3>1. InMemory(s) /\ s.paddr \in Nat /\ s.memsz \in Nat
      BY <2>1, <2>3, SegmentFacts
    <3>2. Targets(s) \subseteq Pages
      BY <1>7 DEF Proper, TargetPages
    <3>3. ASSUME NEW b \in 0 .. s.memsz - 1
          PROVE  \/ mem'[s.paddr + b] = Content(s, b)
                 \/ mem'[s.paddr + b] = <<"driver">>
      <4>1. s.paddr + b \in Targets(s)
        BY <3>1 DEF Targets
      <4>2. Holds(s.paddr + b, Content(s, b))
        BY <3>1 DEF InMemory
      <4> QED
        BY <1>5, <3>2, <4>1, <4>2
    <3> QED
      BY <1>4, <3>3 DEF InMemory, Holds, Content
  <2>4. Answered => Answered'
    BY <1>1, <1>5, UefiAssumption DEF Answered, Holds
  <2> QED
    BY <2>1, <2>2, <2>3, <2>4
<1>8. LoadedInv'
  BY <1>1, <1>3, <1>4, <1>7 DEF LoadedInv
<1> QED
  BY <1>1, <1>2, <1>3, <1>6, <1>8 DEF KernelInv

LEMMA KernelStep ==
  ASSUME TypeInv, KernelInv, [Next]_vars
  PROVE  KernelInv'
<1>1. CASE GetMapSize \/ AllocateMap \/ GetMap \/ NoGop \/ QueryMode \/ SetMode
           \/ InitDisk
  <2>1. /\ pc \in BeforeLoad \ {"image", "menu", "load"}
        /\ pc' \in (BeforeLoad \ {"image", "menu", "load"}) \cup {"no_disk"}
        /\ UNCHANGED <<segment, kbuffer, cbuf, mem>>
    BY <1>1 DEF GetMapSize, AllocateMap, GetMap, NoGop, QueryMode, SetMode,
       InitDisk, BeforeLoad
  <2>2. cbuf' = None /\ DOMAIN mem' = Pages
    BY <2>1 DEF KernelInv
  <2>3. pc' \notin Loaded /\ pc' # "lost" /\ pc \in BeforeLoad
    BY <2>1 DEF BeforeLoad, Loaded
  <2> QED
    BY <2>1, <2>2, <2>3, EarlyStep
<1>2. CASE LoadConfig
  <2>1. /\ pc = "config" /\ pc' \in {"lost", "image"} /\ UNCHANGED <<segment, kbuffer>>
        /\ \/ UNCHANGED <<cbuf, mem>>
           \/ /\ pc' = "image"
              /\ \E p \in Room(1) : \/ ReadFile(p, "conf", fw.conf, 1)
                                    \/ ReadFails(p, "conf", fw.conf, 1)
    BY <1>2 DEF LoadConfig
  <2>2. cbuf = None /\ DOMAIN mem = Pages
    BY <2>1 DEF KernelInv, BeforeLoad
  <2>3. DOMAIN mem' = Pages
    BY <2>1, <2>2 DEF ReadFile, ReadFails, Store
  <2>4. /\ pc \in BeforeLoad /\ pc' \notin Loaded
        /\ pc' \notin BeforeLoad \ {"image", "menu", "load"}
    BY <2>1 DEF BeforeLoad, Loaded
  <2>5. pc' = "lost" => cbuf' = None
    BY <2>1, <2>2
  <2> QED
    BY <2>1, <2>3, <2>4, <2>5, EarlyStep
<1>3. CASE NoImage \/ Menu
  <2>1. /\ pc \in {"image", "menu"} /\ pc' \in {"menu", "load", "reset", "lost"}
        /\ pc' = "lost" => fb = 0
        /\ UNCHANGED <<segment, kbuffer, mem, fb>>
    BY <1>3 DEF NoImage, Menu, graphics
  <2>2. /\ pc \in BeforeLoad /\ pc' \notin Loaded /\ DOMAIN mem' = Pages
        /\ pc' \notin BeforeLoad \ {"image", "menu", "load"}
    BY <2>1 DEF BeforeLoad, Loaded, KernelInv
  <2> QED
    BY <2>1, <2>2, EarlyStep
<1>4. CASE LoadImage
  <2>1. /\ pc = "image" /\ pc' = "menu" /\ UNCHANGED <<segment, kbuffer>>
        /\ \E p \in Room(ImagePages) :
             \/ ReadFile(p, "image", fw.image, ImagePages)
             \/ ReadFails(p, "image", fw.image, ImagePages)
    BY <1>4 DEF LoadImage
  <2>2. DOMAIN mem' = Pages
    BY <2>1 DEF ReadFile, ReadFails, Store
  <2>3. /\ pc \in BeforeLoad /\ pc' \notin Loaded /\ pc' # "lost"
        /\ pc' \notin BeforeLoad \ {"image", "menu", "load"}
    BY <2>1 DEF BeforeLoad, Loaded
  <2> QED
    BY <2>1, <2>2, <2>3, EarlyStep
<1>5. CASE LoadKernel
  BY <1>5, LoadStep
<1>6. CASE CopySegment
  BY <1>6, CopyStep
<1>7. CASE HandleRequests
  BY <1>7, RequestsStep
<1>8. CASE HeadersLost
  <2>1. /\ pc \in {"segments", "jump"} /\ pc' = "lost" /\ mem[kbuffer] # <<"kernel", 0>>
        /\ UNCHANGED <<fw, fb, cbuf, kbuffer, mem, segment>>
    BY <1>8 DEF HeadersLost, HeadersIntact, firmware, graphics
  <2>2. ~Proper
    <3> SUFFICES ASSUME Proper PROVE FALSE
      OBVIOUS
    <3>1. \A o \in 0 .. Kernel.size - 1 : mem[kbuffer + o] = <<"kernel", o>>
      BY <2>1 DEF KernelInv, LoadedInv, Loaded
    <3>2. kbuffer + 0 = kbuffer /\ 0 \in 0 .. Kernel.size - 1
      BY UefiAssumption, PagesAre DEF Proper, KernelInv, PoolInv
    <3> QED
      BY <2>1, <3>1, <3>2
  <2>3. ~Proper'
    BY <2>1, <2>2, ProperStays
  <2>4. PoolInv'
    BY <2>1, PoolStep DEF KernelInv
  <2> QED
    BY <2>1, <2>3, <2>4 DEF KernelInv, LoadedInv, BeforeLoad
<1>9. CASE FindDtb
  <2>1. /\ pc = "segments" /\ pc' = "requests" /\ segment > Len(KernelSegments)
        /\ UNCHANGED <<fw, fb, cbuf, kbuffer, mem, segment, scanned>>
    BY <1>9 DEF FindDtb, firmware, graphics, KernelSegments
  <2> QED
    BY <2>1, LaterStep DEF BeforeLoad, Loaded
<1>10. CASE GetKey \/ ExitBootServices \/ Jump
  <2>1. /\ pc \in {"get_key", "exit", "jump"} /\ pc' \in {"exit", "jump", "kernel"}
        /\ UNCHANGED <<fw, fb, cbuf, kbuffer, mem, segment, scanned>>
    BY <1>10 DEF GetKey, ExitBootServices, Jump, firmware, graphics, handover
  <2> QED
    BY <2>1, LaterStep DEF BeforeLoad, Loaded
<1>11. CASE FirmwareEvent
  <2>1. CASE pc \in BeforeLoad
    <3>1. UNCHANGED <<pc, cbuf, kbuffer, segment>> /\ DOMAIN mem' = DOMAIN mem
      BY <1>11 DEF FirmwareEvent
    <3>2. /\ pc' \notin Loaded /\ pc' # "lost" /\ DOMAIN mem' = Pages
          /\ pc' \in BeforeLoad \ {"image", "menu", "load"} => cbuf' = None
      BY <2>1, <3>1 DEF BeforeLoad, Loaded, KernelInv
    <3> QED
      BY <2>1, <3>1, <3>2, EarlyStep
  <2>2. CASE pc \notin BeforeLoad
    BY <1>11, <2>2, DriverStep
  <2> QED
    BY <2>1, <2>2
<1>12. CASE UNCHANGED vars
  <2>1. UNCHANGED <<pc, fw, fb, cbuf, kbuffer, mem, segment, scanned>>
    BY <1>12 DEF vars, firmware, graphics, handover
  <2>2. CASE pc \in BeforeLoad
    <3>1. /\ pc' \notin Loaded /\ pc' # "lost" /\ DOMAIN mem' = Pages
          /\ pc' \in BeforeLoad \ {"image", "menu", "load"} => cbuf' = None
      BY <2>1, <2>2 DEF BeforeLoad, Loaded, KernelInv
    <3> QED
      BY <2>1, <2>2, <3>1, EarlyStep
  <2>3. CASE pc \notin BeforeLoad
    BY <2>1, <2>3, LaterStep
  <2> QED
    BY <2>2, <2>3
<1> QED
  BY <1>1, <1>2, <1>3, <1>4, <1>5, <1>6, <1>7, <1>8, <1>9, <1>10, <1>11,
     <1>12 DEF Next, Loader, Done

\* HandoverIntact, the hazards of segments and responses that are stored at
\* pages nobody asked for: wherever the firmware puts the pools and whatever its
\* drivers do between the calls, a kernel whose pages were left alone is entered
\* as its file says, with the responses in their page and its requests looked
\* for in what is entered.
THEOREM HandoverStaysIntact == Spec => []HandoverIntact
<1>1. Init => KernelInv
  BY DEF Init, KernelInv, PoolInv, LoadedInv, Loaded, Proper
<1>2. TypeInv /\ KernelInv => HandoverIntact
  <2> SUFFICES ASSUME TypeInv, KernelInv, Undisturbed
               PROVE  /\ pc # "lost"
                      /\ pc = "kernel" =>
                           /\ \A n \in DOMAIN KernelSegments :
                                \A b \in 0 .. KernelSegments[n].memsz - 1 :
                                  mem[KernelSegments[n].paddr + b]
                                    = Content(KernelSegments[n], b)
                           /\ mem[ResponsePage] = <<"responses">>
                           /\ KernelBase # ResponsePage /\ mem[KernelBase] # <<"driver">>
                                => scanned = mem[KernelBase]
    BY DEF HandoverIntact, Content, KernelSegments
  <2>1. Proper /\ pc # "lost"
    BY UndisturbedIsProper DEF KernelInv
  <2>2. \A p \in TargetPages \cup {ResponsePage} : mem[p] # <<"driver">>
    BY DEF Undisturbed, TargetPages, KernelSegments
  <2>3. ASSUME pc = "kernel"
        PROVE  /\ \A n \in DOMAIN KernelSegments : InMemory(KernelSegments[n])
               /\ Answered
    <3>1. /\ \A n \in DOMAIN KernelSegments :
               n < segment => InMemory(KernelSegments[n])
          /\ segment > Len(KernelSegments)
          /\ Answered
      BY <2>1, <2>3 DEF KernelInv, LoadedInv, Loaded
    <3>2. \A n \in DOMAIN KernelSegments : n < segment
      BY <3>1, SegmentFacts DEF KernelInv
    <3> QED
      BY <3>1, <3>2
  <2>4. ASSUME pc = "kernel", NEW n \in DOMAIN KernelSegments,
               NEW b \in 0 .. KernelSegments[n].memsz - 1
        PROVE  mem[KernelSegments[n].paddr + b] = Content(KernelSegments[n], b)
    <3>1. KernelSegments[n].paddr + b \in TargetPages
      <4>1. KernelSegments[n].paddr \in Nat /\ KernelSegments[n].memsz \in Nat
        BY SegmentFacts
      <4>2. KernelSegments[n].paddr + b \in Targets(KernelSegments[n])
        BY <4>1 DEF Targets
      <4> QED
        BY <4>2 DEF TargetPages
    <3> QED
      BY <2>2, <2>3, <2>4, <3>1 DEF InMemory, Holds
  <2>5. pc = "kernel" =>
          /\ mem[ResponsePage] = <<"responses">>
          /\ KernelBase # ResponsePage /\ mem[KernelBase] # <<"driver">> =>
               scanned = mem[KernelBase]
    BY <2>2, <2>3 DEF Answered, Holds
  <2> QED
    BY <2>1, <2>4, <2>5
<1> QED
  BY <1>1, <1>2, KernelStep, TypeInvariant, PTL DEF Spec
=============================================================================
