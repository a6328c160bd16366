--------------------------- MODULE RequestsProofs ---------------------------
(***************************************************************************)
(* Proofs about Requests, for every window, kernel image and platform.     *)
(*                                                                         *)
(* The inductive invariant says where the loops stand (IndexInv), that     *)
(* headers keep apart and their response words are never negative          *)
(* (HeaderInv), and which headers have been answered (ProgressInv).        *)
(***************************************************************************)
EXTENDS Requests, TLAPS, FiniteSetTheorems

\* Adding up to a multiple of 8 (allocate_response) moves up, never down.
LEMMA AlignUpFacts ==
  ASSUME NEW p \in Nat
  PROVE  /\ AlignUp(p) \in Nat
         /\ p <= AlignUp(p)
         /\ AlignUp(p) % 8 = 0
  BY DEF AlignUp

-----------------------------------------------------------------------------
(* Type correctness, with what the loops' indices are bounded by. *)

IndexInv ==
  /\ pc = "markers" => i <= Count - 1 /\ end_index = 0
  /\ end_index <= Count - 2
  /\ pc \in {"scan", "strict"} => start_index <= i

LEMMA CpuArraySize == Cardinality(Cpus) \in Nat
  BY PlatformAssumption, FS_CardinalityType

\* An answer of any kind stores the next allocation's address in the response
\* word, and adds a structure and at most one buffer behind it.
AnswerShape ==
  \E kind \in RequestIds, value \in Int, bytes \in Nat :
    /\ image[i + 3] = kind
    /\ image' = [image EXCEPT ![i + 4] = AlignUp(response_ptr)]
    /\ LET resp == Alloc(response_ptr, SizeOf[kind], i, kind, value)
           p == AfterAlloc(response_ptr, SizeOf[kind])
           buf == Alloc(p, bytes, i, Buffer, 0)
       IN \/ /\ allocs' = allocs \cup {resp}
             /\ response_ptr' = p
          \/ /\ allocs' = allocs \cup {resp, buf}
             /\ response_ptr' = AfterAlloc(p, bytes)

LEMMA AnswerHasShape ==
  ASSUME TypeOK, Answer
  PROVE  /\ AnswerShape
         /\ AtRequest /\ image[i + 2] = Id0
         /\ UNCHANGED <<start_index, end_index>>
         /\ \/ pc' = pc /\ i' = i + 1
            \/ pc' = "halt_revision" /\ i' = i
         /\ g_rsdp' \in {0, Rsdp}
         /\ woken' \in {woken, Cpus \ {BspId}}
<1> DEFINE Goal == /\ AnswerShape
                   /\ AtRequest /\ image[i + 2] = Id0
                   /\ UNCHANGED <<start_index, end_index>>
                   /\ \/ pc' = pc /\ i' = i + 1
                      \/ pc' = "halt_revision" /\ i' = i
                   /\ g_rsdp' \in {0, Rsdp}
                   /\ woken' \in {woken, Cpus \ {BspId}}
<1>1. ASSUME NEW kind \in {FB, MMAP, HHDM, PAGING, EXEC, DTB},
             AnswerFromArguments(kind)
      PROVE  Goal
  <2>1. kind \in RequestIds /\ Payload[kind] \in Int
    BY PlatformAssumption DEF RequestIds
  <2>2. AnswerShape
    BY <1>1, <2>1 DEF AnswerFromArguments, Requested, Respond, AnswerShape
  <2> QED
    BY <1>1, <2>2 DEF AnswerFromArguments, Requested, NextWord, TypeOK
<1>2. CASE AnswerKernelFile
  <2>1. CmdLen + 1 \in Nat /\ KFILE \in RequestIds
    BY PlatformAssumption DEF RequestIds
  <2>2. AlignUp(AfterAlloc(response_ptr, SizeOf[KFILE])) \in Int
    BY <2>1, PlatformAssumption, AlignUpFacts DEF TypeOK, AfterAlloc
  <2>3. AnswerShape
    BY <1>2, <2>1, <2>2
       DEF AnswerKernelFile, Requested, RespondWithBuffer, AnswerShape
  <2> QED
    BY <1>2, <2>3 DEF AnswerKernelFile, Requested, NextWord, TypeOK
<1>3. CASE AnswerSmp
  <2>1. SmpInfoSize * Cardinality(Cpus) \in Nat /\ SMP \in RequestIds
    BY CpuArraySize DEF RequestIds, SmpInfoSize
  <2>2. AlignUp(AfterAlloc(response_ptr, SizeOf[SMP])) \in Int
    BY <2>1, PlatformAssumption, AlignUpFacts DEF TypeOK, AfterAlloc
  <2>3. AnswerShape
    BY <1>3, <2>1, <2>2
       DEF AnswerSmp, Requested, Respond, RespondWithBuffer, AnswerShape
  <2> QED
    BY <1>3, <2>3
       DEF AnswerSmp, Requested, FindTable, NextWord, TypeOK
<1>4. CASE AnswerRsdp
  <2>1. g_rsdp' \in {0, Rsdp} /\ g_rsdp' \in Int /\ RSDP \in RequestIds
    BY <1>4, PlatformAssumption DEF AnswerRsdp, FindTable, TypeOK, RequestIds
  <2>2. AnswerShape
    BY <1>4, <2>1 DEF AnswerRsdp, Requested, Respond, AnswerShape
  <2> QED
    BY <1>4, <2>1, <2>2 DEF AnswerRsdp, Requested, NextWord
<1>5. CASE AnswerBaseRevision
  <2>1. AnswerShape
    <3>1. REV \in RequestIds /\ 0 \in Int
      BY DEF RequestIds
    <3> QED
      BY <1>5, <3>1 DEF AnswerBaseRevision, Requested, Respond, AnswerShape
  <2> QED
    BY <1>5, <2>1 DEF AnswerBaseRevision, Requested, NextWord, TypeOK
<1> QED
  BY <1>1, <1>2, <1>3, <1>4, <1>5
     DEF Answer, AnswerFramebuffer, AnswerMemoryMap, AnswerHhdm,
         AnswerPagingMode, AnswerExecutableAddress, AnswerDtb

\* Where an answer's allocations lie: behind everything handed out before,
\* aligned, one behind the other, and response_ptr behind both.
LEMMA AnswerAllocates ==
  ASSUME TypeOK, AnswerShape
  PROVE  /\ response_ptr' \in Nat \ {0}
         /\ response_ptr <= response_ptr'
         /\ image' = [image EXCEPT ![i + 4] = AlignUp(response_ptr)]
         /\ AlignUp(response_ptr) \in Nat \ {0}
         /\ \E resp, buf :
              /\ allocs' = allocs \cup {resp, buf}
              /\ {resp, buf} \subseteq
                   [addr : Nat, size : Nat, req : {i},
                    kind : RequestIds \cup {Buffer}, value : Int]
              /\ \A a \in {resp, buf} :
                   /\ a.addr % 8 = 0
                   /\ response_ptr <= a.addr
                   /\ a.addr + a.size <= response_ptr'
              /\ resp = buf \/ Apart(resp, buf)
<1>1. PICK kind \in RequestIds, value \in Int, bytes \in Nat :
        AnswerShape!(kind, value, bytes)
  BY DEF AnswerShape
<1> DEFINE size == SizeOf[kind]
           resp == Alloc(response_ptr, size, i, kind, value)
           p == AfterAlloc(response_ptr, size)
           buf == Alloc(p, bytes, i, Buffer, 0)
<1>2. \/ allocs' = allocs \cup {resp} /\ response_ptr' = p
      \/ /\ allocs' = allocs \cup {resp, buf}
         /\ response_ptr' = AfterAlloc(p, bytes)
  BY <1>1
<1>3. size \in Nat \ {0} /\ response_ptr \in Nat \ {0} /\ i \in Nat
  BY PlatformAssumption DEF TypeOK
<1>4. /\ AlignUp(response_ptr) \in Nat /\ AlignUp(response_ptr) % 8 = 0
      /\ response_ptr <= AlignUp(response_ptr)
  BY <1>3, AlignUpFacts
<1>5. /\ p \in Nat /\ p = AlignUp(response_ptr) + size
      /\ AlignUp(p) \in Nat /\ AlignUp(p) % 8 = 0 /\ p <= AlignUp(p)
  <2>1. p \in Nat /\ p = AlignUp(response_ptr) + size
    BY <1>3, <1>4 DEF AfterAlloc
  <2> QED
    BY <2>1, AlignUpFacts
<1> HIDE DEF size
<1>6. CASE /\ allocs' = allocs \cup {resp}
           /\ response_ptr' = p
  <2>1. resp = [addr |-> AlignUp(response_ptr), size |-> size, req |-> i,
                kind |-> kind, value |-> value]
    BY DEF Alloc
  <2> HIDE DEF resp, p
  <2>2. /\ allocs' = allocs \cup {resp, resp}
        /\ {resp, resp} \subseteq
             [addr : Nat, size : Nat, req : {i},
              kind : RequestIds \cup {Buffer}, value : Int]
        /\ \A a \in {resp, resp} :
             /\ a.addr % 8 = 0
             /\ response_ptr <= a.addr
             /\ a.addr + a.size <= response_ptr'
    BY <1>3, <1>4, <1>5, <1>6, <2>1
  <2>3. response_ptr' \in Nat \ {0} /\ response_ptr <= response_ptr'
    BY <1>3, <1>4, <1>5, <1>6
  <2> QED
    BY <1>1, <1>3, <1>4, <2>2, <2>3
<1>7. CASE /\ allocs' = allocs \cup {resp, buf}
           /\ response_ptr' = AfterAlloc(p, bytes)
  <2>1. response_ptr' = AlignUp(p) + bytes
    BY <1>7 DEF AfterAlloc
  <2>2. resp = [addr |-> AlignUp(response_ptr), size |-> size, req |-> i,
                kind |-> kind, value |-> value]
    BY DEF Alloc
  <2>3. buf = [addr |-> AlignUp(p), size |-> bytes, req |-> i,
               kind |-> Buffer, value |-> 0]
    BY DEF Alloc
  <2> HIDE DEF resp, buf, p
  <2>4. /\ allocs' = allocs \cup {resp, buf}
        /\ {resp, buf} \subseteq
             [addr : Nat, size : Nat, req : {i},
              kind : RequestIds \cup {Buffer}, value : Int]
        /\ \A a \in {resp, buf} :
             /\ a.addr % 8 = 0
             /\ response_ptr <= a.addr
             /\ a.addr + a.size <= response_ptr'
        /\ Apart(resp, buf)
    BY <1>3, <1>4, <1>5, <1>7, <2>1, <2>2, <2>3 DEF Apart
  <2>5. response_ptr' \in Nat \ {0} /\ response_ptr <= response_ptr'
    BY <1>3, <1>4, <1>5, <2>1
  <2> QED
    BY <1>1, <1>3, <1>4, <2>4, <2>5
<1> QED
  BY <1>6, <1>7, <1>2

LEMMA InitTypeOK == Init => TypeOK /\ IndexInv
<1> SUFFICES ASSUME Init PROVE TypeOK /\ IndexInv
  OBVIOUS
<1>1. image \in [Words -> Int]
  BY ImagesAssumption DEF Init
<1>2. TypeOK
  BY <1>1, PlatformAssumption DEF Init, TypeOK, Ended
<1>3. IndexInv
  BY CountAssumption DEF Init, IndexInv
<1> QED
  BY <1>2, <1>3

\* Every step of the code keeps the types and the bounds of the indices.
LEMMA NextTypeOK ==
  ASSUME TypeOK, IndexInv, [Next]_vars
  PROVE  TypeOK' /\ IndexInv'
<1> USE CountAssumption
<1>1. CASE FindMarkers
  <2>1. UNCHANGED <<image, response_ptr, allocs, g_rsdp, woken>>
    BY <1>1 DEF FindMarkers, FindStart, FindEnd, FindNeither, NoEndMarker
  <2>2. /\ pc' \in {"markers", "range"} /\ i' \in Nat
        /\ start_index' \in Nat /\ end_index' \in Nat
    BY <1>1 DEF FindMarkers, FindStart, FindEnd, FindNeither, NoEndMarker,
                TypeOK
  <2>3. IndexInv'
    BY <1>1 DEF FindMarkers, FindStart, FindEnd, FindNeither, NoEndMarker,
                TypeOK, IndexInv
  <2> QED
    BY <2>1, <2>2, <2>3 DEF TypeOK
<1>2. CASE ChooseRange
  BY <1>2 DEF ChooseRange, TypeOK, IndexInv, Ended
<1>3. CASE Answer
  <2>1. AnswerShape
    BY <1>3, AnswerHasShape
  <2>2. /\ i \in Nat /\ i' \in Nat /\ start_index' = start_index
        /\ end_index' = end_index /\ i <= i'
        /\ pc = "scan" /\ pc' \in {"scan", "halt_revision"}
        /\ g_rsdp' \in {0, Rsdp}
        /\ woken' \in {woken, Cpus \ {BspId}}
    BY <1>3, AnswerHasShape DEF AtRequest, TypeOK
  <2>3. image' \in [Words -> Int]
    BY <2>1, AnswerAllocates DEF TypeOK
  <2>4. \A a \in allocs' :
          a \in [addr : Nat, size : Nat, req : Nat,
                 kind : RequestIds \cup {Buffer}, value : Int]
    BY <2>1, <2>2, AnswerAllocates DEF TypeOK
  <2>5. response_ptr' \in Nat \ {0}
    BY <2>1, AnswerAllocates
  <2> QED
    BY <2>2, <2>3, <2>4, <2>5 DEF TypeOK, IndexInv, Ended
<1>4. CASE SkipUnknown \/ SkipWord \/ EndScan \/ StrictCheck
  <2>1. UNCHANGED <<start_index, end_index, image, response_ptr, allocs,
                    g_rsdp, woken>>
    BY <1>4 DEF SkipUnknown, SkipWord, EndScan, StrictCheck, CheckWord,
                HaltUnfulfilled, Return, NextWord
  <2>2. /\ i' \in Nat /\ pc' \in {"scan", "strict"} \cup Ended
        /\ pc' \in {"scan", "strict"} => start_index <= i'
    BY <1>4 DEF SkipUnknown, SkipWord, EndScan, StrictCheck, CheckWord,
                HaltUnfulfilled, Return, NextWord, TypeOK, IndexInv, Ended,
                AtRequest
  <2> QED
    BY <2>1, <2>2 DEF TypeOK, IndexInv, Ended
<1>5. CASE UNCHANGED vars
  BY <1>5 DEF vars, TypeOK, IndexInv
<1> QED
  BY <1>1, <1>2, <1>3, <1>4, <1>5 DEF Next, Scan, Done

LEMMA TypeAndIndices == Spec => [](TypeOK /\ IndexInv)
  BY InitTypeOK, NextTypeOK, PTL DEF Spec

\* Every reachable state is well typed: in particular the loops' indices stay
\* inside the window and each allocation is a structure of a known kind.
THEOREM TypeCorrect == Spec => []TypeOK
  BY TypeAndIndices, PTL

-----------------------------------------------------------------------------
(* The bump allocator. *)

\* allocate_response never hands out a byte twice, for any command line, any
\* number of processors and any sequence of requests.
THEOREM AllocatorSafe == Spec => []AllocationsDisjoint
<1> DEFINE Inv == AllocationsDisjoint /\ ResponseBase <= response_ptr
<1>1. Init => Inv
  BY PlatformAssumption DEF Init, AllocationsDisjoint
<1>2. ASSUME TypeOK, Inv, [Next]_vars
      PROVE  Inv'
  <2>1. CASE Answer
    <3>1. PICK resp, buf :
            /\ allocs' = allocs \cup {resp, buf}
            /\ {resp, buf} \subseteq
                 [addr : Nat, size : Nat, req : {i},
                  kind : RequestIds \cup {Buffer}, value : Int]
            /\ \A a \in {resp, buf} :
                 /\ a.addr % 8 = 0
                 /\ response_ptr <= a.addr
                 /\ a.addr + a.size <= response_ptr'
            /\ resp = buf \/ Apart(resp, buf)
      BY <1>2, <2>1, AnswerHasShape, AnswerAllocates
    <3>2. /\ response_ptr' \in Nat /\ response_ptr \in Nat
          /\ response_ptr <= response_ptr' /\ ResponseBase <= response_ptr
          /\ ResponseBase \in Nat
      BY <1>2, <2>1, AnswerHasShape, AnswerAllocates, PlatformAssumption
         DEF TypeOK
    <3>3. \A a \in allocs : /\ a.addr \in Nat /\ a.size \in Nat
                            /\ a.addr % 8 = 0 /\ ResponseBase <= a.addr
                            /\ a.addr + a.size <= response_ptr
      BY <1>2 DEF TypeOK, AllocationsDisjoint
    <3>4. \A a \in {resp, buf} : /\ a.addr \in Nat /\ a.size \in Nat
      BY <3>1
    <3>5. ASSUME NEW a \in allocs'
          PROVE  /\ a.addr % 8 = 0 /\ ResponseBase <= a.addr
                 /\ a.addr + a.size <= response_ptr'
      BY <3>1, <3>2, <3>3, <3>4, <3>5
    <3>6. ASSUME NEW a \in allocs', NEW b \in allocs'
          PROVE  a = b \/ Apart(a, b)
      <4>1. CASE a \in allocs /\ b \in allocs
        BY <1>2, <4>1 DEF AllocationsDisjoint
      <4>2. CASE a \in allocs /\ b \in {resp, buf}
        BY <3>1, <3>2, <3>3, <3>4, <4>2 DEF Apart
      <4>3. CASE b \in allocs /\ a \in {resp, buf}
        BY <3>1, <3>2, <3>3, <3>4, <4>3 DEF Apart
      <4>4. CASE a \in {resp, buf} /\ b \in {resp, buf}
        BY <3>1, <4>4 DEF Apart
      <4> QED
        BY <3>1, <3>6, <4>1, <4>2, <4>3, <4>4
    <3> QED
      BY <3>2, <3>5, <3>6 DEF AllocationsDisjoint, Apart
  <2>2. CASE UNCHANGED <<allocs, response_ptr>>
    BY <1>2, <2>2 DEF AllocationsDisjoint, Apart
  <2> QED
    BY <1>2, <2>1, <2>2
       DEF Next, FindMarkers, FindStart, FindEnd, FindNeither, NoEndMarker,
           ChooseRange, Scan, SkipUnknown, SkipWord, EndScan, StrictCheck,
           CheckWord, HaltUnfulfilled, Return, Done, vars
<1> QED
  BY <1>1, <1>2, TypeCorrect, PTL DEF Spec

-----------------------------------------------------------------------------
(* What is written into the kernel's memory. *)

Positions == 0 .. KernelWords - 2

\* Headers keep apart, and their response words are zero or an address.
HeaderInv ==
  \A j \in Positions : IsHead(image, j) =>
    /\ j + 5 \in Words
    /\ image[j + 4] \in Nat
    /\ \A k \in j + 1 .. j + 4 : ~IsHead(image, k)

\* Which headers have a response at each point of the function.
ProgressInv ==
  /\ pc \in {"markers", "range"} =>
       \A j \in Positions : IsHead(image, j) => image[j + 4] = 0
  /\ pc = "scan" => \A j \in start_index .. end_index - 1 : IsHead(image, j) =>
       \/ j < i /\ Answered(j)
       \/ image[j + 4] = 0 /\ (j < i => UnknownId(j))
  /\ pc = "strict" => \A j \in start_index .. end_index - 1 : IsHead(image, j) =>
       \/ Answered(j)
       \/ i <= j /\ image[j + 4] = 0 /\ UnknownId(j)
  /\ HandoverComplete
  /\ RefusalJustified

\* The ranges that are scanned lie inside the window.
LEMMA RangeInside ==
  ASSUME NEW s \in Nat, NEW e \in Int, e <= Count - 2, NEW j \in s .. e - 1
  PROVE  j \in Positions /\ s <= j
  BY CountAssumption DEF Positions

\* Storing an address in a response word changes no other word, makes no
\* header and destroys none.
LEMMA ResponseStored ==
  ASSUME image \in [Words -> Int], CountAssumption, HeaderInv, i \in Positions,
         IsHead(image, i), NEW v \in Nat \ {0},
         image' = [image EXCEPT ![i + 4] = v]
  PROVE  /\ i + 5 \in Words
         /\ image'[i + 4] = v
         /\ \A w \in Words : w # i + 4 => image'[w] = image[w]
         /\ \A j \in Positions : IsHead(image', j) <=> IsHead(image, j)
         /\ HeaderInv'
<1>1. i + 5 \in Words /\ i + 4 \in Words /\ i \in Nat
  BY DEF HeaderInv, Words, Positions
<1>2. /\ image'[i + 4] = v
      /\ \A w \in Words : w # i + 4 => image'[w] = image[w]
  BY <1>1
<1>3. image[i + 4] \in Nat
  BY DEF HeaderInv
<1>4. ASSUME NEW j \in Positions
      PROVE  IsHead(image', j) <=> IsHead(image, j)
  <2>1. j \in Words /\ j + 1 \in Words
    BY CountAssumption DEF Positions, Words
  <2> QED
    BY <1>2, <1>3, <2>1 DEF IsHead, Magic0, Magic1
<1>5. ASSUME NEW j \in Positions, IsHead(image', j)
      PROVE  /\ j + 5 \in Words
             /\ image'[j + 4] \in Nat
             /\ \A k \in j + 1 .. j + 4 : ~IsHead(image', k)
  <2>1. /\ j + 5 \in Words
        /\ image[j + 4] \in Nat
        /\ \A k \in j + 1 .. j + 4 : ~IsHead(image, k)
    BY <1>4, <1>5 DEF HeaderInv
  <2>2. j + 4 \in Words /\ \A k \in j + 1 .. j + 4 : k \in Positions
    BY <2>1 DEF Positions, Words
  <2> QED
    BY <1>2, <1>4, <2>1, <2>2
<1>6. HeaderInv'
  BY <1>5 DEF HeaderInv
<1> QED
  BY <1>1, <1>2, <1>4, <1>6

\* A step other than an answer leaves the memory and the allocator alone.
LEMMA OtherSteps ==
  ASSUME [Next]_vars, ~Answer
  PROVE  UNCHANGED <<image, response_ptr, allocs, g_rsdp, woken>>
  BY DEF Next, FindMarkers, FindStart, FindEnd, FindNeither, NoEndMarker,
         ChooseRange, Scan, SkipUnknown, SkipWord, EndScan, StrictCheck,
         CheckWord, HaltUnfulfilled, Return, Done, vars, NextWord

\* An answer is given at a header inside the scanned memory.
LEMMA AnswerStores ==
  ASSUME TypeOK, IndexInv, HeaderInv, Answer
  PROVE  /\ i \in Positions /\ IsHead(image, i)
         /\ i + 5 \in Words
         /\ image'[i + 4] = AlignUp(response_ptr)
         /\ \A w \in Words : w # i + 4 => image'[w] = image[w]
         /\ \A j \in Positions : IsHead(image', j) <=> IsHead(image, j)
         /\ HeaderInv'
<1>1. AtRequest /\ AnswerShape
  BY AnswerHasShape
<1>2. i \in Positions /\ IsHead(image, i)
  BY <1>1, CountAssumption DEF AtRequest, TypeOK, IndexInv, Positions
<1>3. /\ image' = [image EXCEPT ![i + 4] = AlignUp(response_ptr)]
      /\ AlignUp(response_ptr) \in Nat \ {0}
  BY <1>1, AnswerAllocates
<1> QED
  BY <1>2, <1>3, ResponseStored, CountAssumption DEF TypeOK

LEMMA HeaderInvariant == Spec => []HeaderInv
<1>1. Init => HeaderInv
  BY ImagesAssumption DEF Init, HeaderInv, WellFormed, Positions
<1>2. ASSUME TypeOK, IndexInv, HeaderInv, [Next]_vars
      PROVE  HeaderInv'
  <2>1. CASE Answer
    BY <1>2, <2>1, AnswerStores
  <2>2. CASE ~Answer
    BY <1>2, <2>2, OtherSteps DEF HeaderInv, IsHead
  <2> QED
    BY <2>1, <2>2
<1> QED
  BY <1>1, <1>2, TypeAndIndices, PTL DEF Spec

-----------------------------------------------------------------------------
(* Answers stay answers. *)

\* An answer given now is the right one for the header it is given to.
LEMMA AnswerFits ==
  ASSUME TypeOK, IndexInv, HeaderInv, Answer, pc' = "scan",
         NEW j, j = i
  PROVE  Answered(j)'
<1>1. /\ i + 5 \in Words
      /\ image'[j + 4] = AlignUp(response_ptr)
      /\ image'[j + 2] = image[i + 2] /\ image'[j + 3] = image[i + 3]
      /\ image'[j + 5] = image[i + 5]
  <2>1. i + 2 \in Words /\ i + 3 \in Words /\ i + 5 \in Words /\ i \in Nat
    BY AnswerStores, CountAssumption DEF Positions, Words
  <2> QED
    BY <2>1, AnswerStores
<1>2. ASSUME NEW kind \in {FB, MMAP, HHDM, PAGING, EXEC, DTB},
             AnswerFromArguments(kind)
      PROVE  Answered(j)'
  <2> DEFINE a == Alloc(response_ptr, SizeOf[kind], i, kind, Payload[kind])
  <2>1. a \in allocs' /\ image[i + 2] = Id0 /\ image[i + 3] = kind
    BY <1>2 DEF AnswerFromArguments, Respond, Requested
  <2>2. /\ a.addr = AlignUp(response_ptr) /\ a.req = j /\ a.kind = kind
        /\ a.size = SizeOf[kind] /\ a.value = Payload[kind]
    BY DEF Alloc
  <2>3. kind \in RequestIds /\ kind \notin {KFILE, SMP, RSDP, REV}
    BY DEF RequestIds, FB, MMAP, KFILE, HHDM, SMP, PAGING, RSDP, EXEC, DTB, REV
  <2> QED
    BY <1>1, <2>1, <2>2, <2>3 DEF Answered, Answers
<1>3. CASE AnswerKernelFile
  <2> DEFINE p == AfterAlloc(response_ptr, SizeOf[KFILE])
             a == Alloc(response_ptr, SizeOf[KFILE], i, KFILE, AlignUp(p))
             b == Alloc(p, CmdLen + 1, i, Buffer, 0)
  <2>1. {a, b} \subseteq allocs' /\ image[i + 2] = Id0 /\ image[i + 3] = KFILE
    BY <1>3 DEF AnswerKernelFile, RespondWithBuffer, Requested
  <2>2. /\ a.addr = AlignUp(response_ptr) /\ a.req = j /\ a.kind = KFILE
        /\ a.size = SizeOf[KFILE]
        /\ IsBufferOf(b, j, a.value, CmdLen + 1)
    BY DEF Alloc, IsBufferOf
  <2>3. KFILE \in RequestIds /\ KFILE \notin
          {SMP, RSDP, REV, FB, MMAP, HHDM, PAGING, EXEC, DTB}
    BY DEF RequestIds, FB, MMAP, KFILE, HHDM, SMP, PAGING, RSDP, EXEC, DTB, REV
  <2> HIDE DEF a, b, p
  <2> QED
    BY <1>1, <2>1, <2>2, <2>3 DEF Answered, Answers, IsBufferOf
<1>4. CASE AnswerSmp
  <2>1. SMP \in RequestIds /\ SMP \notin
          {KFILE, RSDP, REV, FB, MMAP, HHDM, PAGING, EXEC, DTB}
    BY DEF RequestIds, FB, MMAP, KFILE, HHDM, SMP, PAGING, RSDP, EXEC, DTB, REV
  <2>2. woken' = Cpus \ {BspId}
    BY <1>4 DEF AnswerSmp, TypeOK
  <2>3. image[i + 2] = Id0 /\ image[i + 3] = SMP
    BY <1>4 DEF AnswerSmp, Requested
  <2>4. CASE Cpus = {}
    <3> DEFINE a == Alloc(response_ptr, SizeOf[SMP], i, SMP, 0)
    <3>1. a \in allocs'
      BY <1>4, <2>4 DEF AnswerSmp, Respond
    <3>2. /\ a.addr = AlignUp(response_ptr) /\ a.req = j /\ a.kind = SMP
          /\ a.size = SizeOf[SMP]
      BY DEF Alloc
    <3> HIDE DEF a
    <3> QED
      BY <1>1, <2>1, <2>2, <2>3, <2>4, <3>1, <3>2 DEF Answered, Answers
  <2>5. CASE Cpus # {}
    <3> DEFINE bytes == SmpInfoSize * Cardinality(Cpus)
               p == AfterAlloc(response_ptr, SizeOf[SMP])
               a == Alloc(response_ptr, SizeOf[SMP], i, SMP, AlignUp(p))
               b == Alloc(p, bytes, i, Buffer, 0)
    <3>1. {a, b} \subseteq allocs'
      BY <1>4, <2>5 DEF AnswerSmp, RespondWithBuffer
    <3>2. /\ a.addr = AlignUp(response_ptr) /\ a.req = j /\ a.kind = SMP
          /\ a.size = SizeOf[SMP]
          /\ IsBufferOf(b, j, a.value, SmpInfoSize * Cardinality(Cpus))
      BY DEF Alloc, IsBufferOf
    <3> HIDE DEF a, b, p, bytes
    <3> QED
      BY <1>1, <2>1, <2>2, <2>3, <3>1, <3>2 DEF Answered, Answers, IsBufferOf
  <2> QED
    BY <2>4, <2>5
<1>5. CASE AnswerRsdp
  <2> DEFINE a == Alloc(response_ptr, SizeOf[RSDP], i, RSDP, g_rsdp')
  <2>1. a \in allocs' /\ image[i + 2] = Id0 /\ image[i + 3] = RSDP
    BY <1>5 DEF AnswerRsdp, Respond, Requested
  <2>2. g_rsdp' = Rsdp
    BY <1>5 DEF AnswerRsdp, FindTable, TypeOK
  <2>3. /\ a.addr = AlignUp(response_ptr) /\ a.req = j /\ a.kind = RSDP
        /\ a.size = SizeOf[RSDP] /\ a.value = Rsdp
    BY <2>2 DEF Alloc
  <2>4. RSDP \in RequestIds /\ RSDP \notin
          {KFILE, SMP, REV, FB, MMAP, HHDM, PAGING, EXEC, DTB}
    BY DEF RequestIds, FB, MMAP, KFILE, HHDM, SMP, PAGING, RSDP, EXEC, DTB, REV
  <2> HIDE DEF a
  <2> QED
    BY <1>1, <2>1, <2>3, <2>4 DEF Answered, Answers
<1>6. CASE AnswerBaseRevision
  <2> DEFINE a == Alloc(response_ptr, SizeOf[REV], i, REV, 0)
  <2>1. a \in allocs' /\ image[i + 2] = Id0 /\ image[i + 3] = REV
    BY <1>6 DEF AnswerBaseRevision, Respond, Requested
  <2>2. image[i + 5] = 0
    BY <1>6 DEF AnswerBaseRevision
  <2>3. /\ a.addr = AlignUp(response_ptr) /\ a.req = j /\ a.kind = REV
        /\ a.size = SizeOf[REV] /\ a.value = 0
    BY DEF Alloc
  <2>4. REV \in RequestIds /\ REV \notin
          {KFILE, SMP, RSDP, FB, MMAP, HHDM, PAGING, EXEC, DTB}
    BY DEF RequestIds, FB, MMAP, KFILE, HHDM, SMP, PAGING, RSDP, EXEC, DTB, REV
  <2> HIDE DEF a
  <2> QED
    BY <1>1, <2>1, <2>2, <2>3, <2>4 DEF Answered, Answers
<1> QED
  BY <1>2, <1>3, <1>4, <1>5, <1>6
     DEF Answer, AnswerFramebuffer, AnswerMemoryMap, AnswerHhdm,
         AnswerPagingMode, AnswerExecutableAddress, AnswerDtb

\* Answering the header at i takes nothing from an earlier header: headers do
\* not overlap, allocations are only added, processors stay woken.
LEMMA AnswersKept ==
  ASSUME TypeOK, IndexInv, HeaderInv, Answer,
         NEW j \in Positions, j < i, IsHead(image, j), Answered(j)
  PROVE  Answered(j)'
<1>1. PICK a \in allocs : a.kind \in RequestIds /\ Answers(a, j)
  BY DEF Answered
<1>2. allocs \subseteq allocs'
  BY AnswerHasShape, AnswerAllocates
<1>3. i \in Positions /\ IsHead(image, i) /\ i \notin j + 1 .. j + 4
  BY AnswerStores DEF HeaderInv, Positions
<1>4. /\ image'[j + 2] = image[j + 2] /\ image'[j + 3] = image[j + 3]
      /\ image'[j + 4] = image[j + 4] /\ image'[j + 5] = image[j + 5]
  <2>1. j + 5 \in Words /\ j \in Nat /\ i \in Nat /\ i > j + 4
    BY <1>3 DEF HeaderInv, Positions, Words
  <2>2. {j + 2, j + 3, j + 4, j + 5} \subseteq Words
    BY <2>1, CountAssumption DEF Words
  <2> QED
    BY <2>1, <2>2, AnswerStores
<1>5. woken = Cpus \ {BspId} => woken' = Cpus \ {BspId}
  BY AnswerHasShape
<1>6. \A at, bytes :
        (\E b \in allocs : IsBufferOf(b, j, at, bytes)) =>
          (\E b \in allocs' : IsBufferOf(b, j, at, bytes)')
  BY <1>2 DEF IsBufferOf
<1>7. Answers(a, j)'
  BY <1>1, <1>4, <1>5, <1>6 DEF Answers
<1> QED
  BY <1>1, <1>2, <1>7 DEF Answered

\* What one step does to the record of answered headers.
LEMMA ProgressStep ==
  ASSUME TypeOK, IndexInv, HeaderInv, ProgressInv, AllocationsDisjoint,
         [Next]_vars
  PROVE  ProgressInv'
<1> USE DEF HandoverComplete, RefusalJustified
<1>1. CASE Answer
  <2>1. /\ pc = "scan" /\ i < end_index
        /\ start_index' = start_index /\ end_index' = end_index
        /\ \/ pc' = "scan" /\ i' = i + 1
           \/ pc' = "halt_revision"
    BY <1>1, AnswerHasShape DEF AtRequest
  <2>2. ASSUME pc' = "scan", NEW j \in start_index .. end_index - 1,
               IsHead(image', j)
        PROVE  \/ j < i' /\ Answered(j)'
               \/ image'[j + 4] = 0 /\ (j < i' => UnknownId(j)')
    <3>1. j \in Positions /\ IsHead(image, j) /\ j \in Nat /\ i \in Nat
      <4>1. j \in Positions /\ j \in Nat /\ i \in Nat
        BY CountAssumption DEF TypeOK, IndexInv, Positions
      <4> QED
        BY <1>1, <2>2, <4>1, AnswerStores
    <3>2. CASE j = i
      <4>1. Answered(j)'
        BY <1>1, <2>2, <3>2, AnswerFits
      <4> QED
        BY <2>1, <2>2, <3>1, <3>2, <4>1
    <3>3. CASE j # i
      <4>1. /\ j + 2 \in Words /\ j + 3 \in Words /\ j + 4 \in Words
            /\ j + 5 \in Words
        BY <3>1, CountAssumption DEF HeaderInv, Words
      <4>2. image'[j + 4] = image[j + 4]
        BY <1>1, <3>1, <3>3, <4>1, AnswerStores
      <4>3. j < i /\ Answered(j) => Answered(j)'
        BY <1>1, <3>1, AnswersKept
      <4>4. j < i => i \notin j + 1 .. j + 4
        BY <1>1, <3>1, AnswerStores DEF HeaderInv
      <4>5. j < i =>
              image'[j + 2] = image[j + 2] /\ image'[j + 3] = image[j + 3]
        BY <1>1, <3>1, <4>1, <4>4, AnswerStores
      <4>6. \/ j < i /\ Answered(j)
            \/ image[j + 4] = 0 /\ (j < i => UnknownId(j))
        BY <2>1, <3>1 DEF ProgressInv
      <4> QED
        BY <2>1, <2>2, <3>1, <3>3, <4>2, <4>3, <4>5, <4>6 DEF UnknownId
    <3> QED
      BY <3>2, <3>3
  <2> QED
    BY <2>1, <2>2 DEF ProgressInv
<1>2. CASE ~Answer
  <2>1. /\ UNCHANGED <<image, allocs, woken>>
        /\ \A j : Answered(j)' <=> Answered(j)
    BY <1>2, OtherSteps DEF Answered, Answers, IsBufferOf
  <2>2. \A j : UnknownId(j)' <=> UnknownId(j)
    BY <2>1 DEF UnknownId
  <2>3. \A j : IsHead(image', j) <=> IsHead(image, j)
    BY <2>1
  <2>4. i \in Nat /\ start_index \in Nat /\ end_index \in Nat
    BY DEF TypeOK
  <2>5. CASE FindMarkers
    BY <2>1, <2>3, <2>5 DEF FindMarkers, FindStart, FindEnd, FindNeither,
                            NoEndMarker, ProgressInv
  <2>6. CASE ChooseRange
    <3>1. pc = "range" /\ pc' = "scan" /\ i' = start_index'
      BY <2>6 DEF ChooseRange
    <3>2. /\ start_index' \in Nat /\ end_index' \in Int
          /\ end_index' <= Count - 2
      BY <2>6, CountAssumption DEF ChooseRange, TypeOK, IndexInv
    <3>3. \A j \in start_index' .. end_index' - 1 :
            j \in Positions /\ start_index' <= j
      BY <3>2, RangeInside
    <3>4. \A j \in start_index' .. end_index' - 1 : ~(j < i')
      BY <3>1, <3>2, <3>3
    <3> QED
      BY <2>1, <2>3, <3>1, <3>3, <3>4 DEF ProgressInv
  <2>7. CASE SkipUnknown
    <3>1. /\ pc = "scan" /\ pc' = pc /\ i' = i + 1
          /\ UNCHANGED <<start_index, end_index>> /\ UnknownId(i)
      BY <2>7 DEF SkipUnknown, AtRequest, Requested, NextWord, UnknownId
    <3> QED
      BY <2>1, <2>2, <2>3, <2>4, <3>1 DEF ProgressInv
  <2>8. CASE SkipWord
    <3>1. /\ pc = "scan" /\ pc' = pc /\ i' = i + 1
          /\ UNCHANGED <<start_index, end_index>> /\ ~IsHead(image, i)
      BY <2>8 DEF SkipWord, NextWord
    <3> QED
      BY <2>1, <2>2, <2>3, <2>4, <3>1 DEF ProgressInv
  <2>9. CASE EndScan
    <3>1. /\ pc = "scan" /\ pc' = "strict" /\ i' = start_index
          /\ i >= end_index /\ UNCHANGED <<start_index, end_index>>
      BY <2>9 DEF EndScan
    <3> QED
      BY <2>1, <2>2, <2>3, <2>4, <3>1 DEF ProgressInv
  <2>10. CASE CheckWord
    <3>1. /\ pc = "strict" /\ pc' = pc /\ i' = i + 1
          /\ UNCHANGED <<start_index, end_index>> /\ ~Unfulfilled(i)
      BY <2>10 DEF CheckWord, NextWord
    <3> QED
      BY <2>1, <2>2, <2>3, <2>4, <3>1 DEF ProgressInv, Unfulfilled
  <2>11. CASE HaltUnfulfilled
    <3>1. /\ pc = "strict" /\ pc' = "halt_unfulfilled" /\ i < end_index
          /\ UNCHANGED <<start_index, end_index>>
          /\ IsHead(image, i) /\ image[i + 4] = 0
      BY <2>11 DEF HaltUnfulfilled, Unfulfilled
    <3>2. i \in start_index .. end_index - 1
      BY <2>4, <3>1 DEF IndexInv
    <3>3. ~Answered(i)
      <4>1. \A a \in allocs : a.addr \in Nat /\ a.addr >= ResponseBase
        BY DEF TypeOK, AllocationsDisjoint
      <4> QED
        BY <3>1, <4>1, PlatformAssumption DEF Answered, Answers
    <3>4. UnknownId(i)
      BY <3>1, <3>2, <3>3 DEF ProgressInv
    <3> QED
      BY <2>1, <2>2, <2>3, <3>1, <3>2, <3>4 DEF ProgressInv
  <2>12. CASE Return
    <3>1. /\ pc = "strict" /\ pc' = "handover" /\ i >= end_index
          /\ UNCHANGED <<start_index, end_index>>
      BY <2>12 DEF Return
    <3> QED
      BY <2>1, <2>2, <2>3, <2>4, <3>1 DEF ProgressInv
  <2>13. CASE UNCHANGED vars
    BY <2>1, <2>2, <2>3, <2>13 DEF vars, ProgressInv
  <2> QED
    BY <1>2, <2>5, <2>6, <2>7, <2>8, <2>9, <2>10, <2>11, <2>12, <2>13
       DEF Next, Scan, StrictCheck, Done
<1> QED
  BY <1>1, <1>2

LEMMA Progress == Spec => []ProgressInv
<1>1. Init => ProgressInv
  BY ImagesAssumption
     DEF Init, ProgressInv, HandoverComplete, RefusalJustified, WellFormed,
         Positions
<1> QED
  BY <1>1, ProgressStep, TypeAndIndices, HeaderInvariant, AllocatorSafe, PTL
     DEF Spec

\* The kernel is entered only with every request of the scanned range
\* answered by a structure of its own kind and content: for every kernel, any
\* number of requests in any order, every command line and platform.
THEOREM HandoverIsComplete == Spec => []HandoverComplete
  BY Progress, PTL DEF ProgressInv

\* The strict check stops no kernel whose requests are all of known kinds.
THEOREM RefusalIsJustified == Spec => []RefusalJustified
  BY Progress, PTL DEF ProgressInv

\* No step of requests_handle writes anything into the kernel's memory but
\* the empty response word of a header, once each.
THEOREM OnlyResponsesWritten == Spec => OnlyResponseWordsWritten
<1>1. ASSUME TypeOK, IndexInv, HeaderInv, ProgressInv, [Next]_vars,
             NEW w \in Words, image'[w] # image[w]
      PROVE  ResponseWord(w)
  <2>1. Answer
    BY <1>1, OtherSteps
  <2>2. w = i + 4 /\ i \in Positions /\ IsHead(image, i) /\ i \in Nat
    BY <1>1, <2>1, AnswerStores DEF TypeOK
  <2>3. pc = "scan" /\ i \in start_index .. end_index - 1
    BY <1>1, <2>1, AnswerHasShape DEF AtRequest, TypeOK, IndexInv
  <2>4. image[i + 4] = 0
    BY <1>1, <2>2, <2>3 DEF ProgressInv
  <2>5. i \in Words /\ (i + 4) - 4 = i
    BY <2>2, CountAssumption DEF Positions, Words
  <2> QED
    BY <2>2, <2>4, <2>5 DEF ResponseWord
<1>2. ASSUME TypeOK, IndexInv, HeaderInv, ProgressInv, [Next]_vars
      PROVE  [\A w \in Words : image'[w] # image[w] => ResponseWord(w)]_vars
  BY <1>1, <1>2
<1> QED
  BY <1>2, TypeAndIndices, HeaderInvariant, Progress, PTL
     DEF Spec, OnlyResponseWordsWritten

-----------------------------------------------------------------------------
(* The range that is scanned. *)

\* What the search for the markers knows at index i.
SearchInv ==
  pc \in {"markers", "range"} =>
    /\ \A e \in Ends : i <= e
    /\ \A t \in Starts : t < i => start_index # 0 /\ t <= start_index - 2
    /\ start_index # 0 => start_index - 2 \in Starts /\ start_index - 2 < i
    /\ pc = "range" => \/ end_index = i /\ i \in Ends
                       \/ end_index = 0 /\ i >= Count - 1

\* An answer goes into a word that holds no marker, so the markers stay.
LEMMA MarkersStay ==
  ASSUME TypeOK, IndexInv, HeaderInv, [Next]_vars
  PROVE  Starts' = Starts /\ Ends' = Ends /\ ScanRange' = ScanRange
<1>1. ASSUME NEW j \in 0 .. Count - 2
      PROVE  /\ IsStart(image', j) <=> IsStart(image, j)
             /\ IsEnd(image', j) <=> IsEnd(image, j)
  <2>1. CASE Answer
    <3>1. i \in Positions /\ IsHead(image, i) /\ i + 5 \in Words
          /\ image'[i + 4] = AlignUp(response_ptr)
          /\ \A w \in Words : w # i + 4 => image'[w] = image[w]
      BY <2>1, AnswerStores
    <3>2. image[i + 4] \in Nat
      BY <3>1 DEF HeaderInv
    <3>3. AlignUp(response_ptr) \in Nat
      BY <2>1, AnswerHasShape, AnswerAllocates
    <3>4. j \in Words /\ j + 1 \in Words
      BY CountAssumption DEF Words
    <3> QED
      BY <3>1, <3>2, <3>3, <3>4 DEF IsStart, IsEnd, Start0, Start1, End0, End1
  <2>2. CASE ~Answer
    BY <2>2, OtherSteps
  <2> QED
    BY <2>1, <2>2
<1>2. Starts' = Starts
  BY <1>1 DEF Starts
<1>3. Ends' = Ends
  BY <1>1 DEF Ends
<1> QED
  BY <1>2, <1>3 DEF ScanRange, Sections

LEMMA SearchStep ==
  ASSUME TypeOK, IndexInv, HeaderInv, SearchInv, [Next]_vars
  PROVE  SearchInv'
<1>1. Starts' = Starts /\ Ends' = Ends
  BY MarkersStay
<1>2. /\ i \in Nat /\ start_index \in Nat /\ end_index \in Nat /\ Count \in Nat
      /\ Starts \subseteq Nat /\ Ends \subseteq Nat
  BY CountAssumption DEF TypeOK, Starts, Ends
<1>3. CASE FindStart
  <2>1. /\ pc = "markers" /\ pc' = "markers" /\ i' = i + 1
        /\ start_index' = i + 2
    BY <1>3 DEF FindStart
  <2>2. i \in Starts /\ i \notin Ends
    BY <1>2, <1>3 DEF FindStart, Starts, Ends, IsStart, IsEnd, Start0, End0
  <2> QED
    BY <1>1, <1>2, <2>1, <2>2 DEF SearchInv
<1>4. CASE FindEnd
  <2>1. /\ pc = "markers" /\ pc' = "range" /\ i' = i /\ end_index' = i
        /\ start_index' = start_index
    BY <1>4 DEF FindEnd
  <2>2. i \in Ends
    BY <1>2, <1>4 DEF FindEnd, Ends
  <2> QED
    BY <1>1, <1>2, <2>1, <2>2 DEF SearchInv
<1>5. CASE FindNeither
  <2>1. /\ pc = "markers" /\ pc' = "markers" /\ i' = i + 1
        /\ start_index' = start_index
    BY <1>5 DEF FindNeither
  <2>2. i \notin Starts /\ i \notin Ends
    BY <1>5 DEF FindNeither, Starts, Ends
  <2> QED
    BY <1>1, <1>2, <2>1, <2>2 DEF SearchInv
<1>6. CASE NoEndMarker
  BY <1>1, <1>2, <1>6 DEF NoEndMarker, SearchInv, IndexInv
<1>7. CASE UNCHANGED vars
  BY <1>1, <1>7 DEF vars, SearchInv
<1>8. CASE ChooseRange \/ Scan \/ StrictCheck
  <2>1. pc' \notin {"markers", "range"}
    <3>1. CASE Answer
      BY <3>1, AnswerHasShape DEF AtRequest
    <3>2. CASE ~Answer
      BY <1>8, <3>2 DEF ChooseRange, Scan, StrictCheck, SkipUnknown, SkipWord,
         EndScan, CheckWord, HaltUnfulfilled, Return, NextWord, AtRequest
    <3> QED
      BY <3>1, <3>2
  <2> QED
    BY <2>1 DEF SearchInv
<1> QED
  BY <1>3, <1>4, <1>5, <1>6, <1>7, <1>8 DEF Next, FindMarkers, Done

\* The end of the search: the bracketed section is the one of the definition.
LEMMA RangeChosen ==
  ASSUME TypeOK, IndexInv, HeaderInv, SearchInv, ChooseRange
  PROVE  start_index' .. end_index' - 1 = ScanRange
<1>1. /\ i \in Nat /\ start_index \in Nat /\ end_index \in Nat /\ Count \in Nat
      /\ Starts \subseteq Nat /\ Ends \subseteq Nat
  BY CountAssumption DEF TypeOK, Starts, Ends
<1>2. /\ \A e \in Ends : i <= e
      /\ \A t \in Starts : t < i => start_index # 0 /\ t <= start_index - 2
      /\ start_index # 0 => start_index - 2 \in Starts /\ start_index - 2 < i
      /\ \/ end_index = i /\ i \in Ends
         \/ end_index = 0 /\ i >= Count - 1
  BY DEF ChooseRange, SearchInv
<1>3. i >= Count - 1 => Ends = {}
  BY <1>1, <1>2 DEF Ends
<1>4. CASE MarkersMissing
  <2>1. ASSUME NEW se \in Sections
        PROVE  FALSE
    <3>1. PICK b \in Starts, e \in Ends :
            /\ b + 2 < e
            /\ \A f \in Ends : e <= f
            /\ \A t \in Starts : t < e => t <= b
      BY <2>1 DEF Sections
    <3>2. b \in Nat /\ e \in Nat
      BY <1>1
    <3>3. end_index = i /\ i \in Ends /\ e = i
      BY <1>1, <1>2, <1>3, <3>1, <3>2
    <3>4. start_index # 0 /\ b <= start_index - 2
      BY <1>2, <3>1, <3>2, <3>3
    <3>5. start_index >= i
      BY <1>4, <3>1, <3>2, <3>3, <3>4 DEF MarkersMissing
    <3>6. start_index - 2 < i => start_index - 2 <= b
      BY <1>2, <3>1, <3>3, <3>4
    <3> QED
      BY <1>1, <1>2, <3>1, <3>2, <3>3, <3>4, <3>5, <3>6
  <2>2. ScanRange = 0 .. Count - 4
    BY <2>1 DEF ScanRange
  <2>3. start_index' = 0 /\ end_index' - 1 = Count - 4
    BY <1>1, <1>4 DEF ChooseRange
  <2> QED
    BY <2>2, <2>3
<1>5. CASE ~MarkersMissing
  <2> DEFINE s == start_index - 2
             it == <<s, i>>
  <2>1. /\ start_index # 0 /\ end_index = i /\ i \in Ends /\ start_index < i
        /\ s \in Starts /\ s + 2 < i
    BY <1>1, <1>2, <1>5 DEF MarkersMissing
  <2>2. it \in Sections
    BY <1>1, <1>2, <2>1 DEF Sections
  <2>3. ASSUME NEW se \in Sections
        PROVE  se[1] = s /\ se[2] = i
    <3>1. PICK b \in Starts, e \in Ends :
            /\ se = <<b, e>>
            /\ b + 2 < e
            /\ \A f \in Ends : e <= f
            /\ \A t \in Starts : t < e => t <= b
      BY <2>3 DEF Sections
    <3>2. b \in Nat /\ e \in Nat
      BY <1>1
    <3>3. e = i
      BY <1>1, <1>2, <2>1, <3>1, <3>2
    <3>4. b <= s /\ s <= b
      BY <1>1, <1>2, <2>1, <3>1, <3>2, <3>3
    <3> QED
      BY <1>1, <3>1, <3>2, <3>3, <3>4
  <2>4. UNION {se[1] + 2 .. se[2] - 1 : se \in Sections} = s + 2 .. i - 1
    <3>1. it[1] = s /\ it[2] = i
      OBVIOUS
    <3> HIDE DEF it, s
    <3>2. {se[1] + 2 .. se[2] - 1 : se \in Sections} = {s + 2 .. i - 1}
      BY <2>2, <2>3, <3>1
    <3> QED
      BY <3>2
  <2>5. ScanRange = start_index .. i - 1
    <3>1. s + 2 = start_index
      BY <1>1
    <3>2. Sections # {}
      BY <2>2
    <3> HIDE DEF s
    <3> QED
      BY <2>4, <3>1, <3>2 DEF ScanRange
  <2> QED
    BY <1>5, <2>1, <2>5 DEF ChooseRange
<1> QED
  BY <1>4, <1>5

LEMMA RangeInvariant == Spec => [](SearchInv /\ RangeMatchesMarkers)
<1>1. Init => SearchInv /\ RangeMatchesMarkers
  BY CountAssumption DEF Init, SearchInv, RangeMatchesMarkers, Starts, Ends
<1>2. ASSUME TypeOK, IndexInv, HeaderInv, SearchInv, RangeMatchesMarkers,
             [Next]_vars
      PROVE  RangeMatchesMarkers'
  <2>1. ScanRange' = ScanRange
    BY <1>2, MarkersStay
  <2>2. CASE ChooseRange
    BY <1>2, <2>1, <2>2, RangeChosen DEF RangeMatchesMarkers
  <2>3. CASE FindMarkers
    BY <2>3 DEF FindMarkers, FindStart, FindEnd, FindNeither, NoEndMarker,
                RangeMatchesMarkers
  <2>4. CASE Answer
    BY <1>2, <2>1, <2>4, AnswerHasShape DEF AtRequest, RangeMatchesMarkers
  <2>5. CASE SkipUnknown \/ SkipWord \/ EndScan \/ StrictCheck
    BY <1>2, <2>1, <2>5 DEF SkipUnknown, SkipWord, EndScan, StrictCheck,
       CheckWord, HaltUnfulfilled, Return, NextWord, AtRequest,
       RangeMatchesMarkers
  <2>6. CASE UNCHANGED vars
    BY <1>2, <2>1, <2>6 DEF vars, RangeMatchesMarkers
  <2> QED
    BY <1>2, <2>2, <2>3, <2>4, <2>5, <2>6 DEF Next, Scan, Done
<1> QED
  BY <1>1, <1>2, SearchStep, TypeAndIndices, HeaderInvariant, PTL DEF Spec

\* For every memory, with markers in any number and order: requests_handle
\* scans the last section opened before the first end marker, the whole window
\* only when no section is closed, and no answer moves a marker meanwhile.
THEOREM RangeIsMarked == Spec => []RangeMatchesMarkers
  BY RangeInvariant, PTL

-----------------------------------------------------------------------------
(* The abstract promise. *)

\* The open requests are headers inside the window.
LEMMA OpenInside ==
  ASSUME TRUE
  PROVE  OpenRequests \in SUBSET (0 .. Count - 2)
<1>1. ASSUME NEW j \in ScanRange
      PROVE  j \in 0 .. Count - 2
  <2>1. CASE Sections = {}
    BY <1>1, <2>1, CountAssumption DEF ScanRange
  <2>2. CASE Sections # {}
    <3>1. PICK se \in Sections : j \in se[1] + 2 .. se[2] - 1
      BY <1>1, <2>2 DEF ScanRange
    <3>2. se[1] \in 0 .. Count - 2 /\ se[2] \in 0 .. Count - 2
      BY DEF Sections, Starts, Ends
    <3> QED
      BY <3>1, <3>2, CountAssumption
  <2> QED
    BY <2>1, <2>2
<1> QED
  BY <1>1 DEF OpenRequests

\* A request that has its answer is not open.
LEMMA AnsweredNotOpen ==
  ASSUME TypeOK, AllocationsDisjoint, NEW j, Answered(j)
  PROVE  ~Unfulfilled(j)
<1>1. \A a \in allocs : a.addr \in Nat /\ a.addr >= ResponseBase
  BY DEF TypeOK, AllocationsDisjoint
<1> QED
  BY <1>1, PlatformAssumption DEF Answered, Answers, Unfulfilled

\* An answer closes the request it is given to and no other.
LEMMA AnswerCloses ==
  ASSUME TypeOK, IndexInv, HeaderInv, ProgressInv, RangeMatchesMarkers, Answer
  PROVE  i \in OpenRequests /\ OpenRequests' = OpenRequests \ {i}
<1>1. ScanRange' = ScanRange
  BY MarkersStay DEF Next, Scan
<1>2. /\ pc = "scan" /\ i \in start_index .. end_index - 1 /\ IsHead(image, i)
      /\ i \in Nat
  BY AnswerHasShape DEF AtRequest, TypeOK, IndexInv
<1>3. i \in ScanRange /\ image[i + 4] = 0
  <2>1. i \in ScanRange
    BY <1>2 DEF RangeMatchesMarkers
  <2>2. i < i \/ image[i + 4] = 0
    BY <1>2 DEF ProgressInv
  <2> QED
    BY <1>2, <2>1, <2>2
<1>4. image'[i + 4] # 0
  BY AnswerStores, AnswerHasShape, AnswerAllocates
<1>5. ASSUME NEW j \in ScanRange, j # i
      PROVE  Unfulfilled(j)' <=> Unfulfilled(j)
  <2>1. j \in start_index .. end_index - 1
    BY <1>2, <1>5 DEF RangeMatchesMarkers
  <2>2. j \in Positions /\ j \in Nat
    BY <1>2, <2>1, CountAssumption DEF TypeOK, IndexInv, Positions
  <2>3. IsHead(image', j) <=> IsHead(image, j)
    BY <2>2, AnswerStores
  <2>4. IsHead(image, j) => j + 4 \in Words
    BY <2>2, CountAssumption DEF HeaderInv, Words
  <2>5. IsHead(image, j) => image'[j + 4] = image[j + 4]
    BY <1>2, <1>5, <2>2, <2>4, AnswerStores
  <2> QED
    BY <2>3, <2>5 DEF Unfulfilled
<1> QED
  BY <1>1, <1>2, <1>3, <1>4, <1>5 DEF OpenRequests, Unfulfilled

\* Every step of requests_handle answers one open request, decides, or is
\* invisible to the promise.
LEMMA StepImplementsHandover ==
  ASSUME TypeOK, IndexInv, HeaderInv, ProgressInv, AllocationsDisjoint,
         RangeMatchesMarkers, [Next]_vars
  PROVE  [Abstract!Next]_(Abstract!vars)
<1> USE DEF Abstract!vars
<1>1. CASE Answer
  <2>1. i \in OpenRequests /\ OpenRequests' = OpenRequests \ {i}
    BY <1>1, AnswerCloses
  <2>2. pc = "scan" /\ pc' \in {"scan", "halt_revision"}
    BY <1>1, AnswerHasShape DEF AtRequest
  <2>3. CASE pc' = "scan"
    BY <2>1, <2>2, <2>3 DEF Abstract!Next, Abstract!Answer, Phase, Ended
  <2>4. CASE pc' = "halt_revision"
    BY <2>1, <2>2, <2>4 DEF Abstract!Next, Abstract!Refuse, Phase, Ended
  <2> QED
    BY <2>2, <2>3, <2>4
<1>2. CASE ~Answer
  <2>1. OpenRequests' = OpenRequests
    BY <1>2, OtherSteps, MarkersStay DEF OpenRequests, Unfulfilled
  <2>2. CASE HaltUnfulfilled
    <3>1. i \in OpenRequests
      BY <2>2 DEF HaltUnfulfilled, OpenRequests, RangeMatchesMarkers, TypeOK,
                  IndexInv
    <3> QED
      BY <2>1, <2>2, <3>1 DEF HaltUnfulfilled, Abstract!Next, Abstract!Refuse,
                              Phase, Ended
  <2>3. CASE Return
    <3>1. pc = "strict" /\ i >= end_index /\ i \in Nat /\ end_index \in Nat
      BY <2>3 DEF Return, TypeOK
    <3>2. ScanRange = start_index .. end_index - 1
      BY <3>1 DEF RangeMatchesMarkers
    <3>3. ASSUME NEW j \in ScanRange, Unfulfilled(j)
          PROVE  FALSE
      <4>1. j \in start_index .. end_index - 1 /\ ~(i <= j)
        BY <3>1, <3>2, <3>3 DEF TypeOK
      <4>2. Answered(j)
        BY <3>1, <3>3, <4>1 DEF ProgressInv, Unfulfilled
      <4> QED
        BY <3>3, <4>2, AnsweredNotOpen
    <3>4. OpenRequests = {}
      BY <3>3 DEF OpenRequests
    <3> QED
      BY <2>1, <2>3, <3>4 DEF Return, Abstract!Next, Abstract!Enter, Phase,
                              Ended
  <2>4. CASE ~HaltUnfulfilled /\ ~Return
    <3>1. Phase' = Phase
      BY <1>2, <2>4 DEF Next, FindMarkers, FindStart, FindEnd, FindNeither,
         NoEndMarker, ChooseRange, Scan, SkipUnknown, SkipWord, EndScan,
         StrictCheck, CheckWord, NextWord, AtRequest, Done, vars, Phase, Ended
    <3> QED
      BY <2>1, <3>1
  <2> QED
    BY <2>2, <2>3, <2>4
<1> QED
  BY <1>1, <1>2

\* requests_handle implements Handover's safety: whatever the kernel asks for,
\* open requests are only ever closed, one at a time, the kernel is entered
\* with none open, and a decision is final.  (That a decision comes at all is
\* Terminates, which TLC checks.)
THEOREM RequestsImplementHandover ==
  Spec => Abstract!Init /\ [][Abstract!Next]_(Abstract!vars)
<1>1. Init => Abstract!Init
  BY OpenInside DEF Init, Abstract!Init, Phase, Ended
<1> QED
  BY <1>1, StepImplementsHandover, TypeAndIndices, HeaderInvariant, Progress,
     AllocatorSafe, RangeIsMarked, PTL DEF Spec
=============================================================================
