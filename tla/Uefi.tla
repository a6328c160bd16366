-------------------------------- MODULE Uefi --------------------------------
(***************************************************************************)
(* The way of the UEFI loader from efi_main to the kernel: the memory map, *)
(* the graphics mode, the files, the ELF loader, ExitBootServices.         *)
(*                                                                         *)
(* Memory is a row of pages, each with the type the firmware has it down   *)
(* for and what lies in it.  The firmware goes on working between the      *)
(* loader's calls: drivers may allocate and free memory in timer events.   *)
(* The loader stores the kernel and the responses at fixed pages it never  *)
(* asked for.  The menu, the configuration and the requests are modelled   *)
(* in Menu, Config and Requests.                                           *)
(***************************************************************************)
EXTENDS Integers, Sequences, FiniteSets

CONSTANTS
  Top,            \* pages of memory
  Machines,
  MaxEntries,     \* entries of g_entries, 128
  ImagePages,     \* size of the pool for the background, 32 MB
  KernelMax,      \* size of the pool for the kernel's file, 4 MB
  ResponsePage,   \* 0x80000
  KernelBase,     \* 0x1000000
  DriverTypes,    \* types of memory that the firmware's drivers allocate
  MaxEvents       \* bound: firmware events that change the memory map

Pages == 0 .. Top - 1
None == -1        \* no pool

MemoryTypes == {"conventional", "boot_code", "boot_data", "loader_code", "loader_data",
  "runtime_code", "runtime_data", "acpi_reclaim", "acpi_nvs", "unusable", "mmio",
  "persistent", "reserved"}

\* Memory that ends with boot services.
BootTypes == {"boot_code", "boot_data"}

\* The firmware's pages with their attributes, whether GetMemoryMap gives a key
\* together with BUFFER_TOO_SMALL, the graphics modes and the current one (no
\* modes: no GOP), a file system or none, a kernel file, a device tree.
MachineShape(m) ==
  /\ m.type \in [Pages -> MemoryTypes] /\ m.attr \in [Pages -> SUBSET {"XP", "RO", "NV"}]
  /\ m.key_on_small \in BOOLEAN
  /\ m.modes \in Seq([answers : BOOLEAN, drawable : BOOLEAN, wanted : BOOLEAN])
  /\ m.mode \in 0 .. Len(m.modes)
  /\ m.disk \in BOOLEAN /\ m.dtb \in BOOLEAN
  /\ m.conf \in 0 .. 1 /\ m.image \in Nat
  /\ m.kernel.size \in Nat
  /\ m.kernel.segments \in Seq([paddr : Nat, offset : Nat, filesz : Nat, memsz : Nat])

ASSUME UefiAssumption ==
  /\ Top \in Nat \ {0} /\ MaxEntries \in Nat \ {0} /\ MaxEvents \in Nat
  /\ ImagePages \in Nat \ {0} /\ KernelMax \in Nat \ {0}
  /\ ResponsePage \in Pages /\ KernelBase \in Pages
  /\ DriverTypes \subseteq MemoryTypes \ {"conventional", "loader_code", "loader_data"}
  /\ \A m \in Machines : MachineShape(m)

VARIABLES
  pc,
  fw,                \* the machine
  type, key,         \* the firmware's memory map and the key of its state
  events,            \* events that changed it
  stale,             \* history: pages that events have put to another use, kept
                     \* or for the kernel, than they had when mmap was filled
  exited,            \* boot services have ended
  map_size, map,     \* krexo_mmap_init: room in descriptors, its pool
  mmap,
  i, preferred_mode, \* krexo_fb_init
  mode, fb,          \* the GOP's mode, what fb describes (0: undefined)
  cbuf, kbuffer,     \* pools
  mem,               \* what is in each page
  segment,           \* index of the segment loop
  dtb_ptr, scanned,  \* an argument of requests_handle, what it scanned
  MapKey

memory_map == <<type, key>>
graphics == <<i, preferred_mode, mode, fb>>
snapshot == <<map_size, map, mmap>>
handover == <<dtb_ptr, scanned, MapKey>>
firmware == <<fw, events, stale, exited>>
vars == <<pc, firmware, memory_map, snapshot, graphics, cbuf, kbuffer, mem,
          segment, handover>>

Halted == {"no_disk", "no_kernel", "reset", "lost", "refused", "kernel"}

Init ==
  /\ pc = "map_size"
  /\ fw \in Machines
  /\ type = fw.type /\ key = 1 /\ events = 0 /\ stale = {} /\ exited = FALSE
  /\ map_size = 0 /\ map = None
  /\ mmap = [defined |-> FALSE, entries |-> <<>>, key |-> 0]
  /\ i = 1 /\ preferred_mode = fw.mode /\ mode = fw.mode /\ fb = 0
  /\ cbuf = None /\ kbuffer = None
  /\ mem = [p \in Pages |-> <<"old">>]
  /\ segment = 1
  /\ dtb_ptr = FALSE /\ scanned = <<>> /\ MapKey = 0

-----------------------------------------------------------------------------
(* Boot services *)

\* Where n free pages are together.
Room(n) == {p \in Pages : /\ p + n <= Top
                          /\ \A q \in p .. p + n - 1 : type[q] = "conventional"}

Retype(p, n, t) ==
  /\ type' = [q \in Pages |-> IF q \in p .. p + n - 1 THEN t ELSE type[q]]
  /\ key' = key + 1

\* The memory map: a descriptor for each run of pages of one type and attribute.
Starts ==
  {p \in Pages : \/ p = 0
                 \/ type[p] # type[p - 1] \/ fw.attr[p] # fw.attr[p - 1]}

Descriptors ==
  [n \in 1 .. Cardinality(Starts) |->
     LET base == CHOOSE p \in Starts : Cardinality({q \in Starts : q < p}) = n - 1
         behind == {q \in Starts : q > base} \cup {Top}
         next == CHOOSE q \in behind : \A r \in behind : q <= r
     IN [base |-> base, pages |-> next - base, type |-> type[base],
         attr |-> fw.attr[base]]]

\* A timer event in which a driver allocates a page, of any type but those of
\* programs, or gives one back; as long as it has it, it stores there what it
\* wants.
FirmwareEvent ==
  /\ ~exited /\ pc \notin Halted /\ events < MaxEvents
  /\ events' = events + 1
  /\ \E p \in Pages \ {map}, t \in DriverTypes :
       /\ \/ type[p] = "conventional" /\ Retype(p, 1, t)
          \/ type[p] = t /\ Retype(p, 1, "conventional")
       /\ mem' \in {mem, [mem EXCEPT ![p] = <<"driver">>]}
       /\ stale' = IF t \in BootTypes THEN stale
                   ELSE IF p \in stale THEN stale \ {p} ELSE stale \cup {p}
  /\ UNCHANGED <<pc, fw, exited, snapshot, graphics, cbuf, kbuffer, segment, handover>>

-----------------------------------------------------------------------------
(* krexo_mmap_init *)

\* Mutant: room for one more descriptor.
MapRoomOne(n) == n + 1

\* "Add extra space for potential changes".
MapRoom(n) == n + 2

GetMapSize ==
  /\ pc = "map_size" /\ pc' = "map_pool"
  /\ map_size' = MapRoom(Len(Descriptors))
  /\ UNCHANGED <<firmware, memory_map, map, mmap, graphics, cbuf, kbuffer, mem,
                 segment, handover>>

\* efi_main does not look at the result of krexo_mmap_init.
AllocateMap ==
  /\ pc = "map_pool"
  /\ IF Room(1) = {} THEN pc' = "gop" /\ UNCHANGED <<memory_map, map>>
     ELSE /\ pc' = "map_get"
          /\ \E p \in Room(1) : Retype(p, 1, "boot_data") /\ map' = p
  /\ UNCHANGED <<firmware, map_size, mmap, graphics, cbuf, kbuffer, mem, segment,
                 handover>>

\* Mutant: the loader's own image counts as boot data.
KrexoTypeLoader(t) ==
  CASE t = "conventional" -> "conventional"
    [] t \in {"boot_code", "boot_data", "loader_code", "loader_data"} -> "boot_data"
    [] t \in {"runtime_code", "runtime_data", "acpi_reclaim", "acpi_nvs", "unusable",
              "mmio", "persistent"} -> t
    [] OTHER -> "reserved"

\* uefi_to_krexo_type
KrexoType(t) ==
  CASE t = "conventional" -> "conventional"
    [] t \in {"boot_code", "boot_data"} -> "boot_data"
    [] t \in {"runtime_code", "runtime_data", "acpi_reclaim", "acpi_nvs", "unusable",
              "mmio", "persistent"} -> t
    [] OTHER -> "reserved"

\* uefi_to_krexo_flags
KrexoFlags(attr) ==
  {f \in {"executable", "readonly", "nonvolatile"} :
     \/ f = "executable" /\ "XP" \notin attr
     \/ f = "readonly" /\ "RO" \in attr
     \/ f = "nonvolatile" /\ "NV" \in attr}

Entry(d) ==
  [base |-> d.base, pages |-> d.pages, type |-> KrexoType(d.type),
   flags |-> KrexoFlags(d.attr)]

\* The first MaxEntries descriptors; a map that has outgrown its pool is not
\* converted.  The pool is freed in both cases.
GetMap ==
  /\ pc = "map_get" /\ pc' = "gop"
  /\ mmap' = IF Len(Descriptors) > map_size THEN mmap
             ELSE [defined |-> TRUE,
                   entries |-> [n \in DOMAIN Descriptors \cap (1 .. MaxEntries) |->
                                  Entry(Descriptors[n])],
                   key |-> key]
  /\ Retype(map, 1, "conventional") /\ map' = None
  /\ stale' = {}
  /\ UNCHANGED <<fw, events, exited, map_size, graphics, cbuf, kbuffer, mem, segment,
                 handover>>

-----------------------------------------------------------------------------
(* krexo_fb_init *)

\* fb stays undefined, and efi_main goes on with it.
NoGop ==
  /\ pc = "gop" /\ fw.modes = <<>>
  /\ pc' = "disk"
  /\ UNCHANGED <<firmware, memory_map, snapshot, graphics, cbuf, kbuffer, mem,
                 segment, handover>>

Drawable(m) == fw.modes[m].answers /\ fw.modes[m].drawable

\* Mutant: the search goes on behind the preferred resolution.
NotPreferred(m) == FALSE

Preferred(m) == Drawable(m) /\ fw.modes[m].wanted

\* One turn of the loop over the modes: 1024x768 ends it, another mode that can
\* be drawn in is kept as long as none but the current one was.
QueryMode ==
  /\ pc = "gop" /\ i <= Len(fw.modes)
  /\ preferred_mode' =
       IF Drawable(i) /\ (fw.modes[i].wanted \/ preferred_mode = mode)
         THEN i ELSE preferred_mode
  /\ i' = IF Preferred(i) THEN Len(fw.modes) + 1 ELSE i + 1
  /\ UNCHANGED <<pc, firmware, memory_map, snapshot, mode, fb, cbuf, kbuffer, mem,
                 segment, handover>>

\* SetMode may fail; fb describes whatever mode is set then.
SetMode ==
  /\ pc = "gop" /\ fw.modes # <<>> /\ i > Len(fw.modes)
  /\ mode' \in {preferred_mode, mode} /\ fb' = mode'
  /\ pc' = "disk"
  /\ UNCHANGED <<firmware, memory_map, snapshot, i, preferred_mode, cbuf, kbuffer,
                 mem, segment, handover>>

-----------------------------------------------------------------------------
(* efi_main *)

InitDisk ==
  /\ pc = "disk" /\ pc' = IF fw.disk THEN "config" ELSE "no_disk"
  /\ UNCHANGED <<firmware, memory_map, snapshot, graphics, cbuf, kbuffer, mem,
                 segment, handover>>

\* The first n pages of a file are stored at p.
Store(p, name, n) ==
  mem' = [q \in Pages |-> IF q \in p .. p + n - 1 THEN <<name, q - p>> ELSE mem[q]]

\* uefi_read_file: at most the buffer's size, and no error for a longer file.
Whole(size, room) == IF size < room THEN size ELSE room
ReadFile(p, name, size, room) == Store(p, name, Whole(size, room))
ReadFails(p, name, size, room) == \E n \in 0 .. Whole(size, room) : Store(p, name, n)

\* A pool that could not be allocated leaves its pointer undefined, and the file
\* is read to where it points, if there is one.
LoadConfig ==
  /\ pc = "config"
  /\ IF Room(1) = {} THEN pc' \in {"lost", "image"} /\ UNCHANGED <<memory_map, cbuf, mem>>
     ELSE /\ pc' = "image"
          /\ \E p \in Room(1) :
               /\ Retype(p, 1, "loader_data") /\ cbuf' = p
               /\ ReadFile(p, "conf", fw.conf, 1) \/ ReadFails(p, "conf", fw.conf, 1)
  /\ UNCHANGED <<firmware, snapshot, graphics, kbuffer, segment, handover>>

\* No image named, or no room for one.
NoImage ==
  /\ pc = "image" /\ pc' = "menu"
  /\ UNCHANGED <<firmware, memory_map, snapshot, graphics, cbuf, kbuffer, mem,
                 segment, handover>>

\* The pool is freed again if the file cannot be read.
LoadImage ==
  /\ pc = "image" /\ pc' = "menu"
  /\ \E p \in Room(ImagePages) :
       \/ /\ Retype(p, ImagePages, "loader_data")
          /\ ReadFile(p, "image", fw.image, ImagePages)
       \/ /\ key' = key + 2 /\ UNCHANGED type
          /\ ReadFails(p, "image", fw.image, ImagePages)
  /\ UNCHANGED <<firmware, snapshot, graphics, cbuf, kbuffer, segment, handover>>

\* menu_loop draws into what fb describes, and returns an entry or "reboot".
Menu ==
  /\ pc = "menu"
  /\ pc' \in {"load", "reset"} \cup (IF fb = 0 THEN {"lost"} ELSE {})
  /\ UNCHANGED <<firmware, memory_map, snapshot, graphics, cbuf, kbuffer, mem,
                 segment, handover>>

LoadKernel ==
  /\ pc = "load"
  /\ IF Room(KernelMax) = {}
       THEN pc' \in {"lost", "no_kernel"} /\ UNCHANGED <<memory_map, kbuffer, mem>>
       ELSE \E p \in Room(KernelMax) :
              /\ Retype(p, KernelMax, "loader_data") /\ kbuffer' = p
              /\ \/ pc' = "segments" /\ ReadFile(p, "kernel", fw.kernel.size, KernelMax)
                 \/ pc' = "no_kernel" /\ ReadFails(p, "kernel", fw.kernel.size, KernelMax)
  /\ UNCHANGED <<firmware, snapshot, graphics, cbuf, segment, handover>>

HeadersIntact == mem[kbuffer] = <<"kernel", 0>>
At(p) == IF p \in Pages THEN mem[p] ELSE <<"outside">>

\* Mutant: one page too many is cleared.
BssLonger(s) == s.paddr + s.filesz .. s.paddr + s.memsz

Bss(s) == s.paddr + s.filesz .. s.paddr + s.memsz - 1

\* Page p after segment s was copied and its rest cleared.
Segment(s, p) ==
  IF p \in s.paddr .. s.paddr + s.filesz - 1 THEN At(kbuffer + s.offset + p - s.paddr)
  ELSE IF p \in Bss(s) THEN <<"zero">>
  ELSE mem[p]

\* The segments go where the file says, whosever pages these are.
CopySegment ==
  /\ pc = "segments" /\ HeadersIntact /\ segment <= Len(fw.kernel.segments)
  /\ mem' = [p \in Pages |-> Segment(fw.kernel.segments[segment], p)]
  /\ segment' = segment + 1
  /\ UNCHANGED <<pc, firmware, memory_map, snapshot, graphics, cbuf, kbuffer, handover>>

\* The headers are read from the pool again, whatever was stored over it.
HeadersLost ==
  /\ pc \in {"segments", "jump"} /\ ~HeadersIntact
  /\ pc' = "lost"
  /\ UNCHANGED <<firmware, memory_map, snapshot, graphics, cbuf, kbuffer, mem,
                 segment, handover>>

\* The device tree among the firmware's configuration tables.
FindDtb ==
  /\ pc = "segments" /\ HeadersIntact /\ segment > Len(fw.kernel.segments)
  /\ dtb_ptr' = fw.dtb
  /\ pc' = "requests"
  /\ UNCHANGED <<firmware, memory_map, snapshot, graphics, cbuf, kbuffer, mem,
                 segment, scanned, MapKey>>

\* The responses go to their fixed page; the strict check may refuse.
HandleRequests ==
  /\ pc = "requests" /\ pc' \in {"get_key", "refused"}
  /\ scanned' = mem[KernelBase]
  /\ mem' = [mem EXCEPT ![ResponsePage] = <<"responses">>]
  /\ UNCHANGED <<firmware, memory_map, snapshot, graphics, cbuf, kbuffer, segment,
                 dtb_ptr, MapKey>>

\* Mutant: the key of the first memory map is used.
KeySnapshot == mmap.key

KeyOnSmall == IF fw.key_on_small THEN key ELSE 0

\* GetMemoryMap with no buffer: BUFFER_TOO_SMALL, and with it a key or none.
GetKey ==
  /\ pc = "get_key" /\ pc' = "exit"
  /\ MapKey' = KeyOnSmall
  /\ UNCHANGED <<firmware, memory_map, snapshot, graphics, cbuf, kbuffer, mem,
                 segment, dtb_ptr, scanned>>

\* Boot services end only with the key of the map as it is.
ExitBootServices ==
  /\ pc = "exit" /\ pc' = "jump"
  /\ exited' = (MapKey = key)
  /\ UNCHANGED <<fw, events, stale, memory_map, snapshot, graphics, cbuf, kbuffer, mem,
                 segment, handover>>

\* The entry point is read from the pool once more.
Jump ==
  /\ pc = "jump" /\ HeadersIntact
  /\ pc' = "kernel"
  /\ UNCHANGED <<firmware, memory_map, snapshot, graphics, cbuf, kbuffer, mem,
                 segment, handover>>

Done == pc \in Halted /\ UNCHANGED vars

Loader ==
  \/ GetMapSize \/ AllocateMap \/ GetMap \/ NoGop \/ QueryMode \/ SetMode \/ InitDisk
  \/ LoadConfig \/ NoImage \/ LoadImage \/ Menu \/ LoadKernel \/ CopySegment
  \/ HeadersLost \/ FindDtb \/ HandleRequests \/ GetKey \/ ExitBootServices \/ Jump

Next == Loader \/ FirmwareEvent \/ Done

Spec == Init /\ [][Next]_vars

-----------------------------------------------------------------------------
(* Properties *)

\* The memory map that krexo_mmap_init asks for is one allocation larger than
\* the one it measured, and the extra space is enough for that: as long as the
\* firmware itself is quiet, the loader has its map if there was memory at all.
SnapshotFits ==
  pc \notin {"map_size", "map_pool", "map_get"} /\ ~mmap.defined =>
    events > 0 \/ \A p \in Pages : fw.type[p] # "conventional"

Usable(e) == e.type \in {"conventional", "boot_data"}
UsablePages ==
  {p \in Pages : \E n \in DOMAIN mmap.entries :
     LET e == mmap.entries[n] IN Usable(e) /\ p \in e.base .. e.base + e.pages - 1}
Reclaimable ==
  {p \in Pages : \/ type[p] \in {"conventional", "boot_code", "boot_data"}
                 \/ type[p] = "loader_data" /\ fw.type[p] # "loader_data"}

\* The map is a snapshot and memory changes afterwards: the loader's pools come
\* and go, and a driver may allocate memory for good or give such memory back
\* (stale).  The map is wrong of exactly the latter: what the kernel may use
\* according to it (krexo_mmap_total_usable) is, at any later time and but for
\* those pages, free, boot services' or a pool of the loader, never the loader's
\* image, in which the map itself and boot_info are, nor what the firmware keeps
\* or a program before it left as loader data; and nothing of that is missing
\* unless the table was full.
Promised == (Reclaimable \ stale) \cup (stale \ Reclaimable)

MapUsable ==
  mmap.defined => /\ UsablePages \subseteq Promised
                  /\ \/ Len(mmap.entries) = MaxEntries
                     \/ Promised \subseteq UsablePages

\* The mode is the first of 1024x768 if there is one, and otherwise one that can
\* be drawn in if there is one, whichever mode was set before and whichever do
\* not answer.
ModeChosen ==
  pc = "gop" /\ i > Len(fw.modes) /\ fw.modes # <<>> =>
    LET ok == {m \in DOMAIN fw.modes : Drawable(m)}
        best == {m \in ok : fw.modes[m].wanted}
    IN IF best # {} THEN preferred_mode \in best /\ \A m \in best : preferred_mode <= m
       ELSE ok # {} => preferred_mode \in ok

\* The kernel's file fits its pool, its segments are apart, and they and the
\* responses lie in pages that nobody has or had in the meantime.
Targets(s) == s.paddr .. s.paddr + s.memsz - 1
Undisturbed ==
  LET k == fw.kernel
      target == UNION {Targets(k.segments[n]) : n \in DOMAIN k.segments}
  IN /\ fb # 0 /\ cbuf # None /\ kbuffer # None
     /\ k.size \in 1 .. KernelMax
     /\ \A n \in DOMAIN k.segments :
          LET s == k.segments[n]
          IN /\ s.filesz <= s.memsz /\ s.offset + s.filesz <= k.size
             /\ \A m \in DOMAIN k.segments \ {n} :
                  Targets(s) \cap Targets(k.segments[m]) = {}
     /\ target \subseteq Pages \ {ResponsePage}
     /\ \A p \in target \cup {ResponsePage} :
          type[p] = "conventional" /\ mem[p] # <<"driver">>

\* Wherever the firmware puts the pools: a kernel that is undisturbed is entered
\* with its segments loaded and cleared and the responses in their page, and the
\* requests were looked for in the image that is entered, unless a driver took
\* that page.
HandoverIntact ==
  Undisturbed =>
    /\ pc # "lost"
    /\ pc = "kernel" =>
         /\ \A n \in DOMAIN fw.kernel.segments :
              LET s == fw.kernel.segments[n]
              IN \A b \in 0 .. s.memsz - 1 :
                   mem[s.paddr + b] = IF b < s.filesz THEN <<"kernel", s.offset + b>>
                                      ELSE <<"zero">>
         /\ mem[ResponsePage] = <<"responses">>
         /\ KernelBase # ResponsePage /\ mem[KernelBase] # <<"driver">> =>
              scanned = mem[KernelBase]

\* Where the firmware gives the key and is quiet, the allocations since the
\* first memory map do not matter: boot services have ended at the jump.
ExitsWithKey ==
  pc \in {"jump", "kernel"} /\ fw.key_on_small /\ events = 0 => exited

\* main.c: "Exit Boot Services before jumping".
BootServicesExited == pc = "kernel" => exited
=============================================================================
