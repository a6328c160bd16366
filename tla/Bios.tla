-------------------------------- MODULE Bios --------------------------------
(***************************************************************************)
(* The way of the BIOS loader from the boot sector to the kernel: stage1.s *)
(* (E820 map, VBE mode), then stage2_main with krexo_fb_init,              *)
(* krexo_mmap_init, the files, the ELF loader and the handover.            *)
(*                                                                         *)
(* High memory is a row of blocks; the loader has fixed places for the     *)
(* kernel, the files and the device tree there, and nothing keeps them     *)
(* apart but their distance.  Reading a file may fail or stop early (see   *)
(* Fat32), and stage2_main never looks at the outcome.  The menu, the      *)
(* configuration and the requests are modelled in Menu, Config, Requests.  *)
(***************************************************************************)
EXTENDS Integers, Sequences, FiniteSets

CONSTANTS
  Machines,      \* a firmware, a kernel file, the sizes of the other files
  MaxEntries,    \* BIOS_MMAP_MAX_ENTRIES, 64
  CountWrap,     \* the entry count is a byte, 256
  TableRoom,     \* E820 entries between 0x7010 and the stack below 0x7c00
  KernelBase, TempBuffer, ConfBuffer, BgBuffer, DtbBuffer,
                 \* blocks: 0x1000000, 0x2000000, 0x3000000, 0x3800000, 0x4000000
  Top            \* blocks of memory

\* The E820 answers (nv: the ACPI attribute "non-volatile", "absent" in an
\* answer of 20 bytes), whether VBE works, what is left at 0x6000 from before, and
\* whether the ATA controller answers.
FirmwareShape(f) ==
  /\ f.e820 \in Seq([length : Nat, type : Nat, nv : {"yes", "no", "absent"}])
  /\ f.vbe \in BOOLEAN /\ f.stale \in BOOLEAN /\ f.ata \in BOOLEAN

\* PT_LOAD segments of a kernel file; block 0 of the file has the headers.
KernelShape(k) ==
  /\ k.size \in Nat
  /\ k.segments \in Seq([paddr : Nat, offset : Nat, filesz : Nat, memsz : Nat])

\* There is memory where the kernel file and the device tree are read to.  The
\* table meets the stack before its count wraps: 127 entries, 256.
ASSUME BiosAssumption ==
  /\ \A m \in Machines : /\ FirmwareShape(m.fw) /\ KernelShape(m.kernel)
                          /\ m.sizes \in [conf : Nat, bg : Nat, dtb : Nat]
  /\ \A m \in Machines : /\ TempBuffer + m.kernel.size <= Top
                          /\ DtbBuffer + m.sizes.dtb <= Top
  /\ MaxEntries \in Nat \ {0} /\ TableRoom \in Nat /\ CountWrap \in Nat
  /\ MaxEntries < CountWrap /\ TableRoom < CountWrap
  /\ {KernelBase, TempBuffer, ConfBuffer, BgBuffer, DtbBuffer, Top} \subseteq Nat
  /\ KernelBase < TempBuffer /\ TempBuffer < ConfBuffer
  /\ ConfBuffer < BgBuffer /\ BgBuffer < DtbBuffer /\ DtbBuffer < Top

VARIABLES
  pc,
  fw, kernel, sizes,     \* the machine, the selected kernel, the other files
  e820, e820_count,      \* 0x7010: the table, 0x7000: the count byte
  fb_info,               \* 0x6000: zero, stale or mode
  fb, mmap,              \* stage2_main's fb and mmap
  mem,                   \* high memory
  i,                     \* index of the loop over E820 entries, then of segments
  boot_info,             \* 0x1000
  dtb_ptr, scanned,      \* arguments of requests_handle, what it scanned
  complete               \* ghost: every file was read to its end

disk == <<fw, kernel, sizes>>
stage1 == <<e820, e820_count, fb_info>>
stage2 == <<fb, mmap>>
handover == <<boot_info, dtb_ptr, scanned>>
vars == <<pc, disk, stage1, stage2, mem, i, handover, complete>>

NoMap == [defined |-> FALSE, entries |-> <<>>]
Halted == {"no_lba", "disk_error", "no_vbe", "no_disk", "no_kernel", "reset",
           "lost", "refused", "kernel"}

Init ==
  /\ pc = "start"
  /\ \E m \in Machines : fw = m.fw /\ kernel = m.kernel /\ sizes = m.sizes
  /\ e820 = <<>> /\ e820_count = 0
  /\ fb_info = IF fw.stale THEN "stale" ELSE "zero"
  /\ fb = "none" /\ mmap = NoMap
  /\ mem = [b \in 0 .. Top - 1 |-> <<"free">>]
  /\ i = 1
  /\ boot_info = [mmap_base |-> "none", mmap_entries |-> 0]
  /\ dtb_ptr = 0 /\ scanned = <<>>
  /\ complete = TRUE

-----------------------------------------------------------------------------
(* stage1.s *)

CheckLba ==
  /\ pc = "start" /\ pc' \in {"load", "no_lba"}
  /\ UNCHANGED <<disk, stage1, stage2, mem, i, handover, complete>>

LoadStage2 ==
  /\ pc = "load" /\ pc' \in {"e820", "disk_error"}
  /\ UNCHANGED <<disk, stage1, stage2, mem, i, handover, complete>>

\* One more entry; ebx = 0 with the last.  Where the firmware gives no
\* attributes the table keeps what the memory had.  A table that reaches the
\* stack takes stage 1 with it.
StoreE820 ==
  /\ pc = "e820" /\ Len(e820) < Len(fw.e820)
  /\ LET e == fw.e820[Len(e820) + 1]
     IN \E nv \in IF e.nv = "absent" THEN {"yes", "no"} ELSE {e.nv} :
          e820' = Append(e820, [e EXCEPT !.nv = nv])
  /\ e820_count' = (e820_count + 1) % CountWrap
  /\ pc' = IF Len(e820') > TableRoom THEN "lost" ELSE "e820"
  /\ UNCHANGED <<disk, fb_info, stage2, mem, i, handover, complete>>

E820Done ==
  /\ pc = "e820" /\ Len(e820) = Len(fw.e820)
  /\ pc' = "vbe"
  /\ UNCHANGED <<disk, stage1, stage2, mem, i, handover, complete>>

\* 0x6000 is written when the mode is known and not touched otherwise.
SetupVbe ==
  /\ pc = "vbe"
  /\ fb_info' = IF fw.vbe THEN "mode" ELSE fb_info
  /\ pc' = "init_fb"
  /\ UNCHANGED <<disk, e820, e820_count, stage2, mem, i, handover, complete>>

-----------------------------------------------------------------------------
(* stage2_main *)

InitFb ==
  /\ pc = "init_fb"
  /\ IF fb_info = "zero" THEN pc' = "no_vbe" /\ UNCHANGED fb
     ELSE pc' = "init_mmap" /\ fb' = fb_info
  /\ UNCHANGED <<disk, stage1, mmap, mem, i, handover, complete>>

\* bios_to_krexo_type
KrexoType(type) ==
  CASE type = 1 -> "conventional"
    [] type = 3 -> "acpi_reclaim"
    [] type = 4 -> "acpi_nvs"
    [] type = 5 -> "unusable"
    [] OTHER -> "reserved"

Convert(e) ==
  [length |-> e.length, type |-> KrexoType(e.type), nonvolatile |-> e.nv = "yes"]

\* krexo_mmap_init: no map for an empty table or one beyond the limit.
InitMmap ==
  /\ pc = "init_mmap"
  /\ IF e820_count = 0 \/ e820_count > MaxEntries
       THEN pc' = "init_disk" /\ UNCHANGED mmap
       ELSE pc' = "convert" /\ mmap' = [defined |-> TRUE, entries |-> <<>>]
  /\ i' = 1
  /\ UNCHANGED <<disk, stage1, fb, mem, handover, complete>>

\* Mutant: an empty range ends the map.
ConvertEntryToEmpty ==
  /\ pc = "convert" /\ i <= e820_count
  /\ IF e820[i].length > 0
       THEN mmap' = [mmap EXCEPT !.entries = Append(@, Convert(e820[i]))] /\ i' = i + 1
       ELSE i' = e820_count + 1 /\ UNCHANGED mmap
  /\ UNCHANGED <<pc, disk, stage1, fb, mem, handover, complete>>

\* One turn of its loop; an entry of length 0 is overwritten by the next.
ConvertEntry ==
  /\ pc = "convert" /\ i <= e820_count
  /\ mmap' = IF e820[i].length > 0
              THEN [mmap EXCEPT !.entries = Append(@, Convert(e820[i]))] ELSE mmap
  /\ i' = i + 1
  /\ UNCHANGED <<pc, disk, stage1, fb, mem, handover, complete>>

ConvertDone ==
  /\ pc = "convert" /\ i > e820_count
  /\ pc' = "init_disk"
  /\ UNCHANGED <<disk, stage1, stage2, mem, i, handover, complete>>

InitDisk ==
  /\ pc = "init_disk"
  /\ pc' \in IF fw.ata THEN {"config", "no_disk"} ELSE {"no_disk"}
  /\ UNCHANGED <<disk, stage1, stage2, mem, i, handover, complete>>

\* fat32_read_file stores the first n blocks of a file.
ReadBlocks(at, name, n) ==
  mem' = [b \in DOMAIN mem |->
            IF b \in at .. at + n - 1 THEN <<name, b - at>> ELSE mem[b]]

ReadFile(at, name, size) ==
  \E n \in 0 .. size : ReadBlocks(at, name, n) /\ complete' = (complete /\ n = size)

NoFile == UNCHANGED <<mem, complete>>

LoadConfig ==
  /\ pc = "config" /\ pc' = "image"
  /\ ReadFile(ConfBuffer, "conf", sizes.conf) \/ NoFile
  /\ UNCHANGED <<disk, stage1, stage2, i, handover>>

LoadImage ==
  /\ pc = "image" /\ pc' = "menu"
  /\ ReadFile(BgBuffer, "bg", sizes.bg) \/ NoFile
  /\ UNCHANGED <<disk, stage1, stage2, i, handover>>

\* menu_loop returns an entry, whose kernel is not found or the selected one.
Menu ==
  /\ pc = "menu" /\ pc' \in {"read_kernel", "no_kernel", "reset"}
  /\ UNCHANGED <<disk, stage1, stage2, mem, i, handover, complete>>

ReadKernel ==
  /\ pc = "read_kernel" /\ pc' = "segments" /\ i' = 1
  /\ ReadFile(TempBuffer, "kernel", kernel.size)
  /\ UNCHANGED <<disk, stage1, stage2, handover>>

HeadersIntact == mem[TempBuffer] = <<"kernel", 0>>

\* Mutant: the rest of the segment is not cleared.
BssNone(s) == {}

Bss(s) == s.paddr + s.filesz .. s.paddr + s.memsz - 1

\* Block b after segment s was copied and its rest cleared.
Segment(s, b) ==
  IF b \in s.paddr .. s.paddr + s.filesz - 1
    THEN mem[TempBuffer + s.offset + b - s.paddr]
  ELSE IF b \in Bss(s) THEN <<"zero">>
  ELSE mem[b]

\* The program headers are read from the buffer at every turn.
CopySegment ==
  /\ pc = "segments" /\ HeadersIntact /\ i <= Len(kernel.segments)
  /\ mem' = [b \in DOMAIN mem |-> Segment(kernel.segments[i], b)]
  /\ i' = i + 1
  /\ UNCHANGED <<pc, disk, stage1, stage2, handover, complete>>

\* Nothing checks that the buffer has an ELF header.
HeadersLost ==
  /\ pc \in {"segments", "jump"} /\ ~HeadersIntact
  /\ pc' = "lost"
  /\ UNCHANGED <<disk, stage1, stage2, mem, i, handover, complete>>

\* mmap.count is not defined when krexo_mmap_init failed.
WriteBootInfo ==
  /\ pc = "segments" /\ HeadersIntact /\ i > Len(kernel.segments)
  /\ \E n \in IF mmap.defined THEN {Len(mmap.entries)} ELSE 0 .. MaxEntries + 1 :
       boot_info' = [mmap_base |-> "vbe_block", mmap_entries |-> n]
  /\ pc' = "dtb"
  /\ UNCHANGED <<disk, stage1, stage2, mem, i, dtb_ptr, scanned, complete>>

\* Mutant: the device tree takes the kernel file's place.
LoadDtbOverFile ==
  /\ pc = "dtb" /\ pc' = "requests"
  /\ \/ dtb_ptr' = TempBuffer /\ ReadFile(TempBuffer, "dtb", sizes.dtb)
     \/ dtb_ptr' = 0 /\ NoFile
  /\ UNCHANGED <<disk, stage1, stage2, i, boot_info, scanned>>

LoadDtb ==
  /\ pc = "dtb" /\ pc' = "requests"
  /\ \/ dtb_ptr' = DtbBuffer /\ ReadFile(DtbBuffer, "dtb", sizes.dtb)
     \/ dtb_ptr' = 0 /\ NoFile
  /\ UNCHANGED <<disk, stage1, stage2, i, boot_info, scanned>>

\* requests_handle scans the first block of the loaded kernel, and may refuse.
HandleRequests ==
  /\ pc = "requests" /\ pc' \in {"jump", "refused"}
  /\ scanned' = mem[KernelBase]
  /\ UNCHANGED <<disk, stage1, stage2, mem, i, boot_info, dtb_ptr, complete>>

\* The entry point is read from the buffer once more.
Jump ==
  /\ pc = "jump" /\ HeadersIntact
  /\ pc' = "kernel"
  /\ UNCHANGED <<disk, stage1, stage2, mem, i, handover, complete>>

Done == pc \in Halted /\ UNCHANGED vars

Step ==
  \/ CheckLba \/ LoadStage2 \/ StoreE820 \/ E820Done \/ SetupVbe
  \/ InitFb \/ InitMmap \/ ConvertEntry \/ ConvertDone
  \/ InitDisk \/ LoadConfig \/ LoadImage \/ Menu
  \/ ReadKernel \/ CopySegment \/ HeadersLost \/ WriteBootInfo \/ LoadDtb
  \/ HandleRequests \/ Jump

Next == Step \/ Done

Spec == Init /\ [][Next]_vars

-----------------------------------------------------------------------------
(* Properties *)

\* The kernel's memory lies between 16 MB and the buffer its file is read into,
\* its segments are apart, and the file has what they name.
Fits(k) ==
  /\ k.size > 0
  /\ \A n \in DOMAIN k.segments :
       LET s == k.segments[n]
       IN /\ s.filesz <= s.memsz /\ s.offset + s.filesz <= k.size
          /\ KernelBase <= s.paddr /\ s.paddr + s.memsz <= TempBuffer
          /\ \A m \in DOMAIN k.segments \ {n} :
               \/ s.paddr + s.memsz <= k.segments[m].paddr
               \/ k.segments[m].paddr + k.segments[m].memsz <= s.paddr

\* Whatever the files' sizes, and although one buffer runs into the next: a
\* kernel that fits is entered with all its segments loaded and cleared and
\* with the device tree behind dtb_ptr, and the requests were looked for in
\* the very image that is entered.
HandoverIntact ==
  pc = "kernel" /\ complete /\ Fits(kernel) =>
    /\ \A n \in DOMAIN kernel.segments :
         LET s == kernel.segments[n]
         IN \A b \in 0 .. s.memsz - 1 :
              mem[s.paddr + b] = IF b < s.filesz THEN <<"kernel", s.offset + b>>
                                 ELSE <<"zero">>
    /\ dtb_ptr # 0 => \A b \in 0 .. sizes.dtb - 1 : mem[dtb_ptr + b] = <<"dtb", b>>
    /\ scanned = mem[KernelBase]

\* The program headers and the entry point are read again and again from the
\* buffer while segments and files are stored: for a kernel that fits and was
\* read they stay.
FittingKernelNotLost ==
  pc = "lost" => ~complete \/ ~Fits(kernel) \/ Len(e820) > TableRoom

Ranges == {k \in DOMAIN fw.e820 : fw.e820[k].length > 0}
EntryOf(k) == mmap.entries[Cardinality({j \in Ranges : j <= k})]

\* The map that the loader makes is the firmware's: every range of some length
\* at its place in the order with its length, kind and attributes (if given),
\* and no other.
MapFaithful ==
  mmap.defined /\ pc # "convert" =>
    /\ Len(mmap.entries) = Cardinality(Ranges)
    /\ \A k \in Ranges :
         /\ EntryOf(k).length = fw.e820[k].length
         /\ EntryOf(k).type = KrexoType(fw.e820[k].type)
         /\ fw.e820[k].nv # "absent" => EntryOf(k).nonvolatile = (fw.e820[k].nv = "yes")
=============================================================================
