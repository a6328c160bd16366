------------------------------ MODULE Requests ------------------------------
(***************************************************************************)
(* requests_handle() of src/common/lib/requests.c: the request protocol    *)
(* through which a kernel asks the loader for boot information.            *)
(*                                                                         *)
(* The loader reads a window of Count 64-bit words that starts at the      *)
(* kernel's load address, finds the two markers that bracket the request   *)
(* section, answers every request header it meets with a structure bump-   *)
(* allocated from 0x80000 and stores the address in the header's response  *)
(* word.  A final pass refuses the handover when a response word is still  *)
(* zero.  Every loop iteration of the C function is one step here.         *)
(*                                                                         *)
(* A 64-bit word is an integer.  Words the code compares with are the      *)
(* negative numbers below; zero is zero; addresses are positive.           *)
(***************************************************************************)
EXTENDS Integers, FiniteSets

CONSTANTS
  Count,         \* words in the scanned window: kernel_size / 8
  KernelWords,   \* words of memory from kernel_start on, window included
  Images,        \* what that memory may hold once the ELF file is loaded
  SizeOf,        \* bytes of each response structure
  Payload,       \* what the caller's arguments put into a response
  CmdLen,        \* strlen(cmdline)
  Cpus,          \* LAPIC ids of the enabled MADT processors, {} without MADT
  BspId,         \* the bsp_lapic smp_discover_cpus reports
  Rsdp,          \* the RSDP the scan of 0xE0000..0xFFFFF finds, 0 if none
  ResponseBase   \* initial response_ptr, 0x80000

Magic0 == -1
Magic1 == -2
Start0 == -3
Start1 == -4
End0 == -5
End1 == -6
Id0 == -7        \* id[0], the same for every request; id[1] names it:

FB == -11
MMAP == -12
KFILE == -13
HHDM == -14
SMP == -15
PAGING == -16
RSDP == -17
EXEC == -18
DTB == -19
REV == -20
RequestIds == {FB, MMAP, KFILE, HHDM, SMP, PAGING, RSDP, EXEC, DTB, REV}

Buffer == 0      \* an allocation that a response points to
SmpInfoSize == 32

Words == 0 .. KernelWords - 1

IsStart(img, j) == img[j] = Start0 /\ img[j + 1] = Start1
IsEnd(img, j)   == img[j] = End0 /\ img[j + 1] = End1
IsHead(img, j)  == img[j] = Magic0 /\ img[j + 1] = Magic1

\* A header is a C object of five words: no header starts inside another,
\* and kernels declare them with .response = 0 (kernel/main.c).
WellFormed(img) ==
  \A j \in 0 .. KernelWords - 2 : IsHead(img, j) =>
    /\ j + 5 \in Words
    /\ img[j + 4] = 0
    /\ \A k \in j + 1 .. j + 4 : ~IsHead(img, k)

ASSUME CountAssumption ==
  /\ Count \in Nat /\ Count >= 4
  /\ KernelWords \in Nat /\ KernelWords >= Count + 3

ASSUME PlatformAssumption ==
  /\ SizeOf \in [RequestIds -> Nat \ {0}]
  /\ Payload \in [RequestIds -> Int]
  /\ CmdLen \in Nat
  /\ IsFiniteSet(Cpus)
  /\ Rsdp \in Nat
  /\ ResponseBase \in Nat \ {0}

ASSUME ImagesAssumption ==
  \A img \in Images : img \in [Words -> Int] /\ WellFormed(img)

VARIABLES
  pc,            \* the loop requests_handle is in, or how it ended
  i,             \* that loop's index
  start_index,
  end_index,
  image,         \* ptr[]: the kernel's memory
  response_ptr,  \* the bump allocator
  allocs,        \* ghost: every structure and buffer it handed out
  g_rsdp,        \* acpi.c's RSDP, looked for by the first acpi_find_table
  woken          \* ghost: LAPIC ids smp_wakeup_aps sent INIT and SIPI to

vars == <<pc, i, start_index, end_index, image, response_ptr, allocs,
          g_rsdp, woken>>

Ended == {"handover", "halt_revision", "halt_unfulfilled"}

Init ==
  /\ pc = "markers"
  /\ i = 0
  /\ start_index = 0
  /\ end_index = 0
  /\ image \in Images
  /\ response_ptr = ResponseBase
  /\ allocs = {}
  /\ g_rsdp = 0
  /\ woken = {}

-----------------------------------------------------------------------------
(* 1. Find the markers: the last start before the first end. *)

FindStart ==
  /\ pc = "markers" /\ i < Count - 1 /\ IsStart(image, i)
  /\ start_index' = i + 2
  /\ i' = i + 1
  /\ UNCHANGED <<pc, end_index, image, response_ptr, allocs, g_rsdp, woken>>

\* Mutant: the loop goes on after the end marker, so the last one counts.
FindEndNoBreak ==
  /\ pc = "markers" /\ i < Count - 1 /\ IsEnd(image, i)
  /\ end_index' = i /\ i' = i + 1
  /\ UNCHANGED <<pc, start_index, image, response_ptr, allocs, g_rsdp, woken>>

FindEnd ==
  /\ pc = "markers" /\ i < Count - 1 /\ IsEnd(image, i)
  /\ end_index' = i
  /\ pc' = "range"
  /\ UNCHANGED <<i, start_index, image, response_ptr, allocs, g_rsdp, woken>>

FindNeither ==
  /\ pc = "markers" /\ i < Count - 1
  /\ ~IsStart(image, i) /\ ~IsEnd(image, i)
  /\ i' = i + 1
  /\ UNCHANGED <<pc, start_index, end_index, image, response_ptr, allocs,
                 g_rsdp, woken>>

\* Mutant: a missing end marker is remembered as -1, not 0.
NoEndMarkerSentinel ==
  /\ pc = "markers" /\ i >= Count - 1
  /\ pc' = "range" /\ end_index' = -1
  /\ UNCHANGED <<i, start_index, image, response_ptr, allocs, g_rsdp, woken>>

NoEndMarker ==
  /\ pc = "markers" /\ i >= Count - 1
  /\ pc' = "range"
  /\ UNCHANGED <<i, start_index, end_index, image, response_ptr, allocs,
                 g_rsdp, woken>>

\* Without a bracketed section the whole window is scanned.
MarkersMissing ==
  start_index = 0 \/ end_index = 0 \/ start_index >= end_index

ChooseRange ==
  /\ pc = "range"
  /\ pc' = "scan"
  /\ start_index' = IF MarkersMissing THEN 0 ELSE start_index
  /\ end_index' = IF MarkersMissing THEN Count - 3 ELSE end_index
  /\ i' = start_index'
  /\ UNCHANGED <<image, response_ptr, allocs, g_rsdp, woken>>

-----------------------------------------------------------------------------
(* 2. Scan for requests. *)

AlignUp(p) == ((p + 7) \div 8) * 8

\* allocate_response(bytes) with response_ptr = p, for the header at j.
Alloc(p, bytes, j, kind, value) ==
  [addr |-> AlignUp(p), size |-> bytes, req |-> j, kind |-> kind,
   value |-> value]

\* Mutant: the aligned address is handed out but not stored.
AfterAllocUnaligned(p, bytes) == p + bytes

AfterAlloc(p, bytes) == AlignUp(p) + bytes

AtRequest == pc = "scan" /\ i < end_index /\ IsHead(image, i)

Requested(kind) == AtRequest /\ image[i + 2] = Id0 /\ image[i + 3] = kind

\* Mutant: the word behind the header is written.
RespondBehindHeader(kind, value) ==
  /\ image' = [image EXCEPT ![i + 5] = AlignUp(response_ptr)]
  /\ allocs' = allocs \cup {Alloc(response_ptr, SizeOf[kind], i, kind, value)}
  /\ response_ptr' = AfterAlloc(response_ptr, SizeOf[kind])

\* resp = allocate_response(..); fill it; ptr[i + 4] = resp.  The loop goes
\* on with the next word.
Respond(kind, value) ==
  /\ image' = [image EXCEPT ![i + 4] = AlignUp(response_ptr)]
  /\ allocs' = allocs \cup {Alloc(response_ptr, SizeOf[kind], i, kind, value)}
  /\ response_ptr' = AfterAlloc(response_ptr, SizeOf[kind])

\* The same with a second allocation, to which the structure points.
RespondWithBuffer(kind, bytes) ==
  LET p == AfterAlloc(response_ptr, SizeOf[kind])
  IN /\ image' = [image EXCEPT ![i + 4] = AlignUp(response_ptr)]
     /\ allocs' = allocs \cup
          {Alloc(response_ptr, SizeOf[kind], i, kind, AlignUp(p)),
           Alloc(p, bytes, i, Buffer, 0)}
     /\ response_ptr' = AfterAlloc(p, bytes)

NextWord == i' = i + 1 /\ UNCHANGED <<pc, start_index, end_index>>

\* Requests that copy the caller's arguments or a constant.
AnswerFromArguments(kind) ==
  /\ Requested(kind)
  /\ Respond(kind, Payload[kind])
  /\ NextWord
  /\ UNCHANGED <<g_rsdp, woken>>

AnswerFramebuffer == AnswerFromArguments(FB)
AnswerMemoryMap == AnswerFromArguments(MMAP)
AnswerHhdm == AnswerFromArguments(HHDM)
AnswerPagingMode == AnswerFromArguments(PAGING)
AnswerExecutableAddress == AnswerFromArguments(EXEC)
\* Mutant: a request for a device tree is left alone, as when there is none.
AnswerDtbNever ==
  /\ Requested(DTB)
  /\ NextWord
  /\ UNCHANGED <<image, response_ptr, allocs, g_rsdp, woken>>

AnswerDtb == AnswerFromArguments(DTB)

\* The command line is copied with its terminating zero.
AnswerKernelFile ==
  /\ Requested(KFILE)
  /\ RespondWithBuffer(KFILE, CmdLen + 1)
  /\ NextWord
  /\ UNCHANGED <<g_rsdp, woken>>

\* acpi_find_table scans for the RSDP unless it is known.
FindTable == g_rsdp' = IF g_rsdp = 0 THEN Rsdp ELSE g_rsdp

\* The APs are woken while the answer is being built.  Without a MADT there
\* is no processor array and nothing to wake.
AnswerSmp ==
  /\ Requested(SMP)
  /\ FindTable
  /\ IF Cpus = {}
       THEN Respond(SMP, 0)
       ELSE RespondWithBuffer(SMP, SmpInfoSize * Cardinality(Cpus))
  /\ woken' = woken \cup (Cpus \ {BspId})
  /\ NextWord

\* Mutant: the scan is left out, the address is right only after an SMP answer.
AnswerRsdpNoScan ==
  /\ Requested(RSDP)
  /\ Respond(RSDP, g_rsdp)
  /\ NextWord
  /\ UNCHANGED <<g_rsdp, woken>>

\* find_table("APIC") is called only for its scan.
AnswerRsdp ==
  /\ Requested(RSDP)
  /\ FindTable
  /\ Respond(RSDP, g_rsdp')
  /\ NextWord
  /\ UNCHANGED woken

\* The response is stored before the revision the kernel wants is checked.
AnswerBaseRevision ==
  /\ Requested(REV)
  /\ Respond(REV, 0)
  /\ IF image[i + 5] # 0
       THEN /\ pc' = "halt_revision"
            /\ UNCHANGED <<i, start_index, end_index>>
       ELSE NextWord
  /\ UNCHANGED <<g_rsdp, woken>>

\* Mutant: the loop index stays on an unknown header.
SkipUnknownStuck ==
  /\ AtRequest
  /\ \A kind \in RequestIds : ~Requested(kind)
  /\ UNCHANGED vars

\* A header with an id the loader does not know is left as it is.
SkipUnknown ==
  /\ AtRequest
  /\ \A kind \in RequestIds : ~Requested(kind)
  /\ NextWord
  /\ UNCHANGED <<image, response_ptr, allocs, g_rsdp, woken>>

SkipWord ==
  /\ pc = "scan" /\ i < end_index /\ ~IsHead(image, i)
  /\ NextWord
  /\ UNCHANGED <<image, response_ptr, allocs, g_rsdp, woken>>

\* Mutant: the strict check is left out.
EndScanUnchecked ==
  /\ pc = "scan" /\ i >= end_index
  /\ pc' = "handover"
  /\ UNCHANGED <<i, start_index, end_index, image, response_ptr, allocs,
                 g_rsdp, woken>>

EndScan ==
  /\ pc = "scan" /\ i >= end_index
  /\ pc' = "strict"
  /\ i' = start_index
  /\ UNCHANGED <<start_index, end_index, image, response_ptr, allocs, g_rsdp,
                 woken>>

-----------------------------------------------------------------------------
(* 3. Strict check: a request without an answer stops the boot. *)

Unfulfilled(j) == IsHead(image, j) /\ image[j + 4] = 0

CheckWord ==
  /\ pc = "strict" /\ i < end_index /\ ~Unfulfilled(i)
  /\ NextWord
  /\ UNCHANGED <<image, response_ptr, allocs, g_rsdp, woken>>

HaltUnfulfilled ==
  /\ pc = "strict" /\ i < end_index /\ Unfulfilled(i)
  /\ pc' = "halt_unfulfilled"
  /\ UNCHANGED <<i, start_index, end_index, image, response_ptr, allocs,
                 g_rsdp, woken>>

Return ==
  /\ pc = "strict" /\ i >= end_index
  /\ pc' = "handover"
  /\ UNCHANGED <<i, start_index, end_index, image, response_ptr, allocs,
                 g_rsdp, woken>>

\* while (1) hlt, or the function has returned.
Done == pc \in Ended /\ UNCHANGED vars

FindMarkers == FindStart \/ FindEnd \/ FindNeither \/ NoEndMarker

Answer ==
  \/ AnswerFramebuffer \/ AnswerMemoryMap \/ AnswerKernelFile \/ AnswerHhdm
  \/ AnswerSmp \/ AnswerPagingMode \/ AnswerRsdp \/ AnswerExecutableAddress
  \/ AnswerDtb \/ AnswerBaseRevision

Scan == Answer \/ SkipUnknown \/ SkipWord \/ EndScan

StrictCheck == CheckWord \/ HaltUnfulfilled \/ Return

Next == FindMarkers \/ ChooseRange \/ Scan \/ StrictCheck \/ Done

\* One thread runs requests_handle with interrupts off: it only ever goes on.
Spec == Init /\ [][Next]_vars /\ WF_vars(Next)

-----------------------------------------------------------------------------
(* Properties *)

TypeOK ==
  /\ pc \in {"markers", "range", "scan", "strict"} \cup Ended
  /\ i \in Nat /\ start_index \in Nat /\ end_index \in Nat
  /\ image \in [Words -> Int]
  /\ response_ptr \in Nat \ {0}
  /\ \A a \in allocs :
       a \in [addr : Nat, size : Nat, req : Nat,
              kind : RequestIds \cup {Buffer}, value : Int]
  /\ g_rsdp \in {0, Rsdp}
  /\ woken \in {{}, Cpus \ {BspId}}

\* The bump allocator never hands out a byte twice: structures and buffers
\* are 8-aligned, lie between ResponseBase and response_ptr and do not
\* overlap, whatever the requests and the length of the command line are.
Apart(a, b) == a.addr + a.size <= b.addr \/ b.addr + b.size <= a.addr

AllocationsDisjoint ==
  /\ \A a \in allocs :
       /\ a.addr % 8 = 0
       /\ ResponseBase <= a.addr
       /\ a.addr + a.size <= response_ptr
  /\ \A a, b \in allocs : a = b \/ Apart(a, b)

\* The range that is scanned is the last section opened before the first end
\* marker, and the whole window only when there is no such section.
Starts == {j \in 0 .. Count - 2 : IsStart(image, j)}
Ends == {j \in 0 .. Count - 2 : IsEnd(image, j)}

\* The sections the markers bracket: at most one.
Sections ==
  {se \in Starts \X Ends :
     /\ se[1] + 2 < se[2]
     /\ \A e \in Ends : se[2] <= e
     /\ \A t \in Starts : t < se[2] => t <= se[1]}

ScanRange ==
  IF Sections = {} THEN 0 .. Count - 4
  ELSE UNION {se[1] + 2 .. se[2] - 1 : se \in Sections}

RangeMatchesMarkers ==
  pc \notin {"markers", "range"} => start_index .. end_index - 1 = ScanRange

\* The allocation a answers the request at j: a structure of the request's
\* own kind with the content its kind calls for.
IsBufferOf(b, j, at, bytes) ==
  b.kind = Buffer /\ b.req = j /\ b.addr = at /\ b.size = bytes

Answers(a, j) ==
  /\ a.addr = image[j + 4] /\ a.req = j
  /\ image[j + 2] = Id0 /\ a.kind = image[j + 3] /\ a.size = SizeOf[a.kind]
  /\ a.kind = KFILE =>
       \E b \in allocs : IsBufferOf(b, j, a.value, CmdLen + 1)
  /\ a.kind = SMP =>
       /\ woken = Cpus \ {BspId}
       /\ Cpus # {} => \E b \in allocs :
            IsBufferOf(b, j, a.value, SmpInfoSize * Cardinality(Cpus))
  /\ a.kind = RSDP => a.value = Rsdp
  /\ a.kind = REV => a.value = 0 /\ image[j + 5] = 0
  /\ a.kind \in {FB, MMAP, HHDM, PAGING, EXEC, DTB} => a.value = Payload[a.kind]

Answered(j) == \E a \in allocs : a.kind \in RequestIds /\ Answers(a, j)

\* When requests_handle returns, every header between the markers has a
\* response of its own kind and content: the RSDP is there whether or not the
\* processors were asked for first, a copied command line is complete, and a
\* revision other than 0 was not asked for.
HandoverComplete ==
  pc = "handover" =>
    \A j \in start_index .. end_index - 1 : IsHead(image, j) => Answered(j)

\* A boot stopped by the strict check really left a request of an unknown id.
UnknownId(j) == ~(image[j + 2] = Id0 /\ image[j + 3] \in RequestIds)

RefusalJustified ==
  pc = "halt_unfulfilled" =>
    \E j \in start_index .. end_index - 1 : IsHead(image, j) /\ UnknownId(j)

\* The only words of the kernel's memory a step changes are response words of
\* request headers that had no response: no code, no data and no earlier
\* answer is overwritten, with or without markers.
ResponseWord(w) ==
  /\ w - 4 \in Words
  /\ IsHead(image, w - 4) /\ image[w] = 0

OnlyResponseWordsWritten ==
  [][\A w \in Words : image'[w] # image[w] => ResponseWord(w)]_vars

\* No kernel makes requests_handle loop for ever: it returns or it halts.
Terminates == <>(pc \in Ended)

\* The abstract promise.  The requests that count are those in ScanRange.
OpenRequests == {j \in ScanRange : Unfulfilled(j)}

Phase ==
  IF pc = "handover" THEN "entered"
  ELSE IF pc \in Ended THEN "refused" ELSE "answering"

Abstract == INSTANCE Handover WITH
  Slots <- 0 .. Count - 2, phase <- Phase, open <- OpenRequests

\* requests_handle implements Handover: it only ever closes requests, enters
\* the kernel only with none open, and decides eventually.
ImplementsHandover == Abstract!Spec
=============================================================================
