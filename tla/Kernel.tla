------------------------------- MODULE Kernel -------------------------------
(***************************************************************************)
(* What a kernel finds when it is entered, and what the demo kernel        *)
(* (kernel/main.c) makes of it.  The loader stores structures of           *)
(* requests.h, mmap.h and boot_info.h as ITS compiler lays them out; the   *)
(* kernel is an x86_64 program and reads them as its own compiler does.    *)
(* The BIOS loader is built with -m32, the UEFI loader for x86_64.         *)
(*                                                                         *)
(* Memory is a row of words of 4 bytes.  The word h of the value of a      *)
(* field is named by the field and h; a word nobody stored is junk.  The   *)
(* kernel reaches memory through the page tables: those of Paging under    *)
(* BIOS, the firmware's identity map under UEFI.  Which requests are       *)
(* answered, and when a boot is refused, is the matter of Requests.        *)
(***************************************************************************)
EXTENDS Paging, Acpi, FiniteSets, FiniteSetsExt

CONSTANTS
  Loaders,      \* subset of {"bios", "uefi"}
  Boots,        \* a machine, and a kernel's requests in the order of the image
  MapCounts,    \* ranges of the memory map
  StackCounts,  \* what the stack may hold where the loader's mmap.count will be
  CmdlineSize,  \* bytes of the command line with its 0
  FbFrames      \* frames of the framebuffer

\* Elements of g_entries, of which the BIOS loader has 64.
MaxRanges == 128

Kinds == {"fb", "mmap", "kernel_file", "hhdm", "smp", "paging", "rsdp",
          "executable", "dtb", "revision"}

ASSUME KernelAssumption ==
  /\ Loaders \subseteq {"bios", "uefi"}
  /\ \A b \in Boots :
       /\ b.acpi \in Machines
       /\ b.requested \in Seq(Kinds)
       /\ \A k, m \in DOMAIN b.requested : b.requested[k] = b.requested[m] => k = m
  /\ MapCounts \subseteq 0 .. MaxRanges /\ StackCounts \subseteq Nat
  /\ CmdlineSize \in Nat \ {0}
  /\ FbFrames \subseteq Nat

-----------------------------------------------------------------------------
(* The layout of structures *)

Field(name, type) == [name |-> name, type |-> type]

FbResponse == <<Field("address", "u64"), Field("width", "u32"), Field("height", "u32"),
                Field("pitch", "u32"), Field("bpp", "u32")>>
MmapResponse == <<Field("entry_count", "u64"), Field("entries", "ptr")>>
SmpResponse == <<Field("cpu_count", "u64"), Field("bsp_lapic_id", "u32"),
                 Field("cpus", "ptr")>>
ExecutableResponse == <<Field("physical_base", "u64"), Field("virtual_base", "u64")>>
ValueResponse == <<Field("value", "u64")>>    \* of all other kinds

\* krexo_*_response_t
Response(kind) ==
  CASE kind = "fb" -> FbResponse
    [] kind = "mmap" -> MmapResponse
    [] kind = "smp" -> SmpResponse
    [] kind = "executable" -> ExecutableResponse
    [] OTHER -> ValueResponse

MmapEntry == <<Field("base", "u64"), Field("length", "u64"), Field("type", "u32"),
               Field("flags", "u64")>>

SmpInfo == <<Field("processor_id", "u32"), Field("lapic_id", "u32"),
             Field("reserved", "u64"), Field("goto_address", "u64"),
             Field("extra_argument", "u64")>>

\* krexo_fb_t inside boot_info, at an offset of 8
Framebuffer == <<Field("fb.base", "u64"), Field("fb.width", "u32"), Field("fb.height", "u32"),
                 Field("fb.pitch", "u32"), Field("fb.format", "u32"), Field("fb.bpp", "u32"),
                 Field("fb.size", "u64")>>

BootInfo == <<Field("magic", "u32"), Field("reserved", "u32")>> \o Framebuffer
            \o <<Field("mmap_base", "u64"), Field("mmap_entries", "u32")>>

Width(abi, type) ==
  CASE type = "u32" -> 4
    [] type = "u64" -> 8
    [] type = "ptr" -> IF abi = "i386" THEN 4 ELSE 8

\* The System V ABI for i386 aligns 64-bit integers to 4 bytes.
Alignment(abi, type) == IF abi = "i386" THEN 4 ELSE Width(abi, type)

Aligned(n, to) == ((n + to - 1) \div to) * to

\* Where each field of a structure ends.
Ends(abi, struct) ==
  LET end[n \in 0 .. Len(struct)] ==
        IF n = 0 THEN 0
        ELSE Aligned(end[n - 1], Alignment(abi, struct[n].type)) + Width(abi, struct[n].type)
  IN end

Offset(abi, struct, n) == Ends(abi, struct)[n] - Width(abi, struct[n].type)

Size(abi, struct) ==
  Aligned(Ends(abi, struct)[Len(struct)],
          Max({Alignment(abi, struct[n].type) : n \in DOMAIN struct}))

\* The words of field n of a structure at a byte address.
FieldWords(abi, base, struct, n) ==
  [h \in 0 .. (Width(abi, struct[n].type) \div 4) - 1 |->
     (base + Offset(abi, struct, n)) \div 4 + h]

-----------------------------------------------------------------------------
(* The machine *)

VARIABLES
  loader, pc, requested, fb_frame,
  map_count,   \* mmap.count, a local that nobody initialises
  map_ok,      \* krexo_mmap_init succeeded, which neither loader looks at
  n,           \* the request to answer next
  ram,         \* the words that were stored
  response_ptr,\* of allocate_response, in bytes
  answers,     \* header.response of the answered requests
  lines        \* status lines on the screen: <<y, text>>

machine == <<loader, requested, map_count, map_ok, fb_frame>>
vars == <<paging, discovery, machine, pc, n, ram, response_ptr, answers, lines>>

LoaderAbi == IF loader = "bios" THEN "i386" ELSE "x86_64"

\* The loader's static g_entries, its boot_info and its responses lie apart.
EntriesBase == 0
BootInfoBase == 8192
ResponseBase == 16384

\* The word stored for the half h of a field.
Content(owner, struct, k, h) == <<owner, struct[k].name, h>>

\* The reserved fields are left as memory had them.
Written(struct) == {k \in DOMAIN struct : struct[k].name # "reserved"}

\* What memory holds once a structure was stored into it.
Stored(memory, owner, struct, base) ==
  LET fields == Written(struct) \X (0 .. 1)
      used == {f \in fields : f[2] \in DOMAIN FieldWords(LoaderAbi, base, struct, f[1])}
      at(f) == FieldWords(LoaderAbi, base, struct, f[1])[f[2]]
      written == {at(f) : f \in used}
  IN [w \in DOMAIN memory \cup written |->
        IF w \in written
        THEN LET f == CHOOSE f \in used : at(f) = w
             IN Content(owner, struct, f[1], f[2])
        ELSE memory[w]]

\* Element k (from 0) of an array.
Element(base, struct, k) == base + k * Size(LoaderAbi, struct)

StoredArray(memory, owner, struct, base, count) ==
  LET stored[k \in 0 .. count] ==
        IF k = 0 THEN memory
        ELSE Stored(stored[k - 1], <<owner, k - 1>>, struct, Element(base, struct, k - 1))
  IN stored[count]

\* A framebuffer's address is a uint32_t under BIOS, and the tables map 4 GB.
MappedFrames == Directories * Entries * Entries

Init ==
  /\ PagingInit /\ AcpiInit
  /\ loader \in Loaders
  /\ \E b \in Boots : acpi = b.acpi /\ requested = b.requested
  /\ map_count \in StackCounts /\ map_ok = FALSE /\ fb_frame \in FbFrames
  /\ loader = "bios" => fb_frame < MappedFrames
  /\ pc = IF loader = "bios" THEN "paging" ELSE "map"
  /\ n = 1 /\ ram = <<>> /\ response_ptr = ResponseBase
  /\ answers = <<>> /\ lines = {}

\* Only stage2_main builds tables.
SetUpPaging ==
  /\ pc = "paging" /\ PagingNext
  /\ pc' = IF building' = "built" THEN "map" ELSE "paging"
  /\ UNCHANGED <<discovery, machine, n, ram, response_ptr, answers, lines>>

\* krexo_mmap_init fills g_entries, or fails and leaves mmap as it was: the
\* firmware's table is empty or too long, or there is no memory for it.
StoreMap ==
  /\ pc = "map" /\ pc' = "boot_info"
  /\ \/ /\ map_ok' = TRUE /\ map_count' \in MapCounts
        /\ ram' = StoredArray(ram, "range", MmapEntry, EntriesBase, map_count')
     \/ UNCHANGED <<map_ok, map_count, ram>>
  /\ UNCHANGED <<paging, discovery, loader, requested, fb_frame, n, response_ptr,
                 answers, lines>>

StoreBootInfo ==
  /\ pc = "boot_info" /\ pc' = "answer"
  /\ ram' = Stored(ram, <<"boot_info", 0>>, BootInfo, BootInfoBase)
  /\ UNCHANGED <<paging, discovery, machine, n, response_ptr, answers, lines>>

Allocated(at) == Aligned(at, 8)

\* The structure of a response, stored where the allocator is.
At == Allocated(response_ptr)
Behind(kind) == At + Size(LoaderAbi, Response(kind))
Filled(kind) == Stored(ram, <<kind, 0>>, Response(kind), At)
Pointing(kind) ==
  [k \in DOMAIN answers \cup {kind} |-> IF k = kind THEN At ELSE answers[k]]
Asked(kind) == pc = "answer" /\ n <= Len(requested) /\ requested[n] = kind

Answer ==
  /\ \E kind \in Kinds \ {"kernel_file", "smp"} :
       /\ Asked(kind)
       /\ ram' = Filled(kind) /\ response_ptr' = Behind(kind)
       /\ answers' = Pointing(kind)
  /\ n' = n + 1
  /\ UNCHANGED <<paging, discovery, machine, pc, lines>>

\* The command line is copied behind the response.
AnswerKernelFile ==
  /\ Asked("kernel_file")
  /\ ram' = Filled("kernel_file")
  /\ response_ptr' = Allocated(Behind("kernel_file")) + CmdlineSize
  /\ answers' = Pointing("kernel_file")
  /\ n' = n + 1
  /\ UNCHANGED <<paging, discovery, machine, pc, lines>>

\* The response is allocated before the processors are looked for.
BeginSmp ==
  /\ Asked("smp") /\ pc' = "discover" /\ StartWalk
  /\ ram' = Filled("smp") /\ response_ptr' = Behind("smp")
  /\ answers' = Pointing("smp")
  /\ UNCHANGED <<paging, machine, n, lines>>

Discover ==
  /\ pc = "discover" /\ WalkMadt
  /\ UNCHANGED <<paging, machine, pc, n, ram, response_ptr, answers, lines>>

\* Mutant: no room for the boot processor.
BehindCpusLess(count) == At + (count - 1) * Size(LoaderAbi, SmpInfo)

BehindCpus(count) == At + count * Size(LoaderAbi, SmpInfo)

\* cpus[] is allocated between the walks, if there is a processor.
FinishSmp ==
  /\ pc = "discover" /\ walk.pass = "done" /\ pc' = "answer"
  /\ IF walk.count = 0 THEN UNCHANGED <<ram, response_ptr>>
     ELSE /\ ram' = StoredArray(ram, "cpu", SmpInfo, At, Len(walk.cpus))
          /\ response_ptr' = BehindCpus(walk.count)
  /\ n' = n + 1
  /\ UNCHANGED <<paging, discovery, machine, answers, lines>>

\* switch_to_long_mode, or the call of the entry point.
EnterKernel ==
  /\ pc = "answer" /\ n > Len(requested) /\ pc' = "kernel_main"
  /\ UNCHANGED <<paging, discovery, machine, n, ram, response_ptr, answers, lines>>

-----------------------------------------------------------------------------
(* kernel_main *)

\* The page at a virtual address given by its indices.
Translate(l4, l3, l2) ==
  IF loader = "bios" THEN Walk(l4, l3, l2)
  ELSE IF l4 = 0 THEN (l3 * Entries + l2) * Entries ELSE Fault

\* The framebuffer is accessed at its physical address.
FramebufferPage ==
  Translate(0, fb_frame \div (Entries * Entries), (fb_frame \div Entries) % Entries)

WordAt(w) == IF w \in DOMAIN ram THEN ram[w] ELSE <<"junk">>

\* The kernel sees the number that the loader stored.
ReadsField(owner, struct, base, k) ==
  \A h \in DOMAIN FieldWords("x86_64", base, struct, k) :
    WordAt(FieldWords("x86_64", base, struct, k)[h]) = Content(owner, struct, k, h)

ReadsResponse(kind, k) == ReadsField(<<kind, 0>>, Response(kind), answers[kind], k)

Answered(kind) == kind \in DOMAIN answers

\* Without a framebuffer, or one out of reach, nothing is drawn.
Draw ==
  /\ pc = "kernel_main"
  /\ IF Answered("fb") /\ FramebufferPage # Fault
       THEN /\ pc' = "map_status"
            /\ lines' = lines \cup {<<20, "ACTIVE">>, <<45, "OK">>}
       ELSE /\ pc' = IF Answered("fb") THEN "fault" ELSE "hlt"
            /\ UNCHANGED lines
  /\ UNCHANGED <<paging, discovery, machine, n, ram, response_ptr, answers>>

\* Mutant: the count is taken for granted.
MapLinesUnread ==
  IF Answered("mmap") THEN {<<65, "RECEIVED">>, <<85, "VALID">>} ELSE {<<65, "MISSING">>}

MapLines ==
  IF ~Answered("mmap") THEN {<<65, "MISSING">>}
  ELSE {<<65, "RECEIVED">>} \cup 
         (IF ReadsResponse("mmap", 1) /\ map_count = 0 THEN {} ELSE {<<85, "VALID">>})

ReportMap ==
  /\ pc = "map_status" /\ pc' = "hhdm_status"
  /\ lines' = lines \cup MapLines
  /\ UNCHANGED <<paging, discovery, machine, n, ram, response_ptr, answers>>

\* The lines on the offset, and a read of physical address 0 through it, which may
\* fault; a line on what is found there unless that is 0xDEADBEEF.
ReportHhdm ==
  /\ pc = "hhdm_status"
  /\ IF ~Answered("hhdm") THEN
       /\ lines' = lines \cup {<<105, "MISSING">>} /\ pc' = "mode_status"
     ELSE LET offset == IF ReadsResponse("hhdm", 1) THEN "0xffff800000000000" ELSE "UNEXPECTED"
              shown == lines \cup {<<105, "RECEIVED">>, <<125, offset>>}
          IN IF Translate(HhdmSlot, 0, 0) = Fault
             THEN lines' = shown /\ pc' = "fault"
             ELSE lines' \in {shown, shown \cup {<<145, "OK">>}} /\ pc' = "mode_status"
  /\ UNCHANGED <<paging, discovery, machine, n, ram, response_ptr, answers>>

ModeLines ==
  IF ~Answered("paging") THEN {<<145, "MISSING">>}
  ELSE {<<145, "RECEIVED">>,
        <<165, IF ReadsResponse("paging", 1) THEN "4-Level" ELSE "UNKNOWN">>}

\* The lines on markers and boundaries are printed whatever there was.
MarkerLines == {<<195, "Protocol Debug Info">>, <<220, "DETECTED">>, <<245, "SECURE">>}

ReportMode ==
  /\ pc = "mode_status" /\ pc' = "hlt"
  /\ lines' = lines \cup ModeLines \cup MarkerLines
  /\ UNCHANGED <<paging, discovery, machine, n, ram, response_ptr, answers>>

Done == pc \in {"hlt", "fault"} /\ UNCHANGED vars

Next ==
  \/ SetUpPaging \/ StoreMap \/ StoreBootInfo \/ Answer \/ AnswerKernelFile
  \/ BeginSmp \/ Discover \/ FinishSmp \/ EnterKernel
  \/ Draw \/ ReportMap \/ ReportHhdm \/ ReportMode \/ Done

Spec == Init /\ [][Next]_vars

-----------------------------------------------------------------------------
(* Properties *)

Entered == pc \in {"kernel_main", "map_status", "hhdm_status", "mode_status", "hlt", "fault"}

\* The ranges that g_entries has.
Ranges == IF map_ok THEN map_count ELSE 0

\* Every field that a kernel may read: owner, structure, address as the kernel
\* computes it, index.
CpusBase == Allocated(answers["smp"] + Size(LoaderAbi, Response("smp")))
Readings ==
  UNION ({{<<<<kind, 0>>, Response(kind), answers[kind], k>> : k \in Written(Response(kind))} :
            kind \in DOMAIN answers}
    \cup {{<<<<"range", m>>, MmapEntry, EntriesBase + m * Size("x86_64", MmapEntry), k>> :
            k \in Written(MmapEntry)} : m \in 0 .. Ranges - 1}
    \cup {{<<<<"cpu", m>>, SmpInfo, CpusBase + m * Size("x86_64", SmpInfo), k>> :
            k \in Written(SmpInfo)} : m \in IF Answered("smp") THEN 0 .. Cardinality(Processors) - 1 ELSE {}}
    \cup {{<<<<"boot_info", 0>>, BootInfo, BootInfoBase, k>> : k \in Written(BootInfo)}})

Reads(r) == ReadsField(r[1], r[2], r[3], r[4])

\* README: "On handover, the response pointer will contain the address of the
\* fulfilled hardware information"; fb.h, boot_info.h: "Forced 64-bit for
\* cross-arch handoff".  The kernel reads in every structure what the loader
\* put there.
HandoverReadable == Entered => \A r \in Readings : Reads(r)

\* The fields a kernel misses under BIOS: both arrays' addresses, what follows
\* the padding of a range, of the framebuffer in boot_info, and of the array.
LostUnderBios(r) ==
  LET name == r[2][r[4]].name
  IN \/ name \in {"entries", "cpus", "flags", "fb.size", "mmap_base", "mmap_entries"}
     \/ r[2] = MmapEntry /\ r[1][2] > 0

\* Whatever is asked for in whatever order: under UEFI the kernel reads every
\* field of every structure as the loader stored it, under BIOS every field
\* but those.
FieldsReadable ==
  Entered => \A r \in Readings : (loader = "bios" /\ LostUnderBios(r)) \/ Reads(r)

\* requests.h: "Physical address P is mapped at virtual address (HHDM_OFFSET + P)":
\* for the kernel that was told the offset.
HhdmMapped ==
  Entered /\ Answered("hhdm") =>
    \A l3 \in 0 .. Directories - 1, l2 \in Slots :
      Translate(HhdmSlot, l3, l2) = (l3 * Entries + l2) * Entries

\* Under BIOS the demo kernel comes to its end; under either loader, when it
\* does, its lines say of every request what is so: whether it was made, that the
\* offset is the promised one, the mode, and that the count of the memory map is
\* not zero.  The latter is no more than that: where krexo_mmap_init failed, the
\* count is whatever the stack held, and VALID may stand there without a map.
\* Nothing is printed over but the result of the access test.
StatusTruthful ==
  /\ loader = "bios" => pc # "fault"
  /\ pc = "hlt" /\ Answered("fb") =>
       LET asked == {requested[m] : m \in DOMAIN requested}
           Shown(y, text) == <<y, text>> \in lines
       IN /\ \A line \in {<<65, "mmap">>, <<105, "hhdm">>, <<145, "paging">>} :
               /\ Shown(line[1], "RECEIVED") <=> line[2] \in asked
               /\ Shown(line[1], "MISSING") <=> line[2] \notin asked
          /\ Shown(85, "VALID") <=> "mmap" \in asked /\ map_count > 0
          /\ Shown(145, "OK") => "hhdm" \in asked
          /\ Shown(125, "0xffff800000000000") <=> "hhdm" \in asked
          /\ Shown(165, "4-Level") <=> "paging" \in asked
          /\ \A a, b \in lines : a[1] = b[1] /\ a # b => a[1] = 145
=============================================================================
