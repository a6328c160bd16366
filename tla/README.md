# A TLA+ model of the Krexo boot loader

Krexo boots a 64-bit kernel from BIOS or UEFI. It reads `krexo.conf` and the
kernel from a FAT32 partition, shows a menu, loads the kernel's ELF segments,
answers the *requests* it finds in the kernel's image and jumps to the kernel.
These modules model that code, TLC checks them on small instances, and TLAPS
proves the most important properties for every instance. Paths are relative to
the repository, whose sources are under `src/src`, `src/include` and
`src/kernel` as `PROJECT.json` names them; file and line of every definition
are in its `map`.

## The system

| Part | Code | State | Operations | Module |
|---|---|---|---|---|
| Request protocol | `common/lib/requests.c`, `common/requests.h` | kernel image, `response_ptr`, responses | find markers, scan, answer, strict check | `Requests`, `Handover` |
| SMP start-up | `common/lib/smp.c`, `boot/common/trampoline.s` | page 0x4000, CR3 word 0x4500, LAPIC, processors | copy trampoline, INIT, SIPI, park | `Smp` |
| Boot menu | `common/lib/menu.c` | selection, countdown, statics of the partial redraw, editor | draw, keys, edit | `Menu` |
| Drawing | `common/lib/fb.c`, `bmp.c`, `image.c` | the frame's bytes | pixels, rectangles, text, blending, images | `Raster`, `Fb`, `Canvas`, `Drawing` |
| PNG decoder | `common/lib/png.c` | two buffers, trees, position | chunks, inflate, unfilter | `Png`, `Drawing` |
| Text | `common/lib/printf.c` | none | format | `Printf` |
| FAT32 reader | `common/fs/fat32.c`, `boot/bios/disk.c` | partition, boot record, one cached FAT sector | init, find, read | `Fat32` |
| Configuration | `common/lib/config.c` | entries, settings, current entry | one step per line | `Config` |
| BIOS path | `boot/bios/stage1.s`, `stage2.c`, `mmap.c`, `vbe.c` | low-memory tables, fixed buffers, boot_info | E820, VBE, files, segments, handover | `Bios` |
| ACPI | `common/lib/acpi.c`, `smp_discover_cpus` | RSDP pointer, walk through the MADT | find table, count, fill | `Acpi`, `Kernel` |
| Page tables | `setup_long_mode_paging` | six frames from 0x70000 on | clear, link, map | `Paging`, `Kernel` |
| Kernel's side | `kernel/main.c`, `requests.h`, `boot_info.h` | structures as stored and as read, status lines | store, read, report | `Kernel` |
| UEFI path | `boot/uefi/*.c` | pools, memory map and its key, GOP mode, fixed pages | map, mode, files, segments, ExitBootServices | `Uefi` |

How they interact: `stage2_main` (and `efi_main`) calls everything in one
thread. `fat32.c` calls the driver's `read_sectors`, which may fail; its
callers ignore what it returns. `config_parse` fills a structure that the menu
shows, edits and indexes. The menu gets keys from a driver's callback and may
return an entry or -2 for "reboot". `requests_handle` writes into the kernel's
image and the low region 0x80000, and for an SMP request starts the other
processors, which from then on run beside the loader and the kernel in a page
that the loader wrote. The kernel sees the rest: the response words, the
memory map, boot_info.

What is hard here: failures of single disk requests in the middle of multi-step
reads; a cache and static variables that have to stay in step with disk and
screen; interrupts that arrive at any time on other processors; a scan over
words that may be anything; fixed addresses that nothing keeps apart; results
that nobody looks at. `PROJECT.json` lists each as a hazard at its line.

## Modules

- **`Requests`** is `requests_handle`, one step per iteration of its three
  loops. A 64-bit word is an integer; the magic words and ids are negative
  numbers, addresses positive. `pc` says which loop runs, `i`, `start_index`,
  `end_index` and `response_ptr` are the C variables, `image` the kernel's
  memory and `allocs` the structures that were handed out. Actions:
  `FindStart`, `FindEnd`, `FindNeither`, `NoEndMarker`, `ChooseRange`, one
  `Answer...` per kind of request, `SkipUnknown`, `SkipWord`, `EndScan`,
  `CheckWord`, `HaltUnfulfilled`, `Return`.
- **`Handover`** is the protocol's promise without markers, loops or memory: a
  set of open requests is answered one by one, and the kernel is entered only
  when none is open. `Requests` refines it (`ImplementsHandover`; the mapping
  is at the end of `Requests`).
- **`Smp`** has the boot processor in `smp_wakeup_aps` (`bsp`, `i`,
  `icr_high`), a queue of interrupts to each processor, each processor's state
  through reset and the trampoline, and the page they share. Interrupts arrive
  in order but at any later time: the delays of `smp.c` measure nothing.
  `DelayCovers` says whether the delay after INIT outlasts the processor's
  reaction. `setup` is the loader's build and the processor it runs on, any of
  them: the 32-bit build takes it for processor 0 (`ReportedBsp`).
- **`Menu`** is `menu_loop` with `menu_edit_entry` and `menu_draw`. The screen
  is kept at a set of sample points in the code's own coordinates: at each, the
  layers painted since it was last painted over. Equal layers look equal
  whatever colours, image and font are. `drawn` are the statics by which
  `menu_draw` decides what to repaint, `Repair` is `menu_repair_rect` with its
  overlap and title bar, box geometry is computed as the code does (unsigned
  where `fb->height` is). A poll chooses any key or none; one tick is one
  `delay_ms(10)`.
- **`Raster`** says which pixels the loops of `fb.c` reach, with coordinates
  modulo 2^32; `Menu` and `Fb` share it. **`Printf`** is `kvprintf`.
- **`Fb`** has the drawing functions on the bytes of a frame: depth, channel
  order, pitch, clipping, blending with what is read back. **`Canvas`** is the
  promise of `fb.h`: a screen of points with colours and operations that change
  the points they name. `Fb` refines it (`ImplementsCanvas`; the mapping reads
  the bytes as the hardware shows them).
- **`Png`** is the decoder, a step per chunk, block head, code length, symbol
  and row. **`Drawing`** composes it with `Fb`: a PNG call decodes, then draws.
  `PngFile` writes files as an encoder does, from the formats and not from the
  decoder, so that `PictureRestored` compares two things.
- **`Fat32`** is the whole of `fat32.c`. A sector is identified by what mkfs
  put there, so a wrong LBA shows up as a wrong sector. Every request may fail,
  one of several sectors after any number of them was stored. `GetNextCluster`
  is used inside the actions that call it. The steps: `FindFile`, `ScanSector`,
  `NextDirCluster`, `NotFound`, `ReadFile`, `StartRun`, `ExtendRun`,
  `TransferRun`, `TransferTail`, `TransferSector`, `SlowDone`, `ReadDone`.
- **`Config`** is `config_parse`, a step per line of the file, the built-in
  entry used without a file, and the question for the background image. A field
  nobody wrote is `Undefined`, and reading it is a choice.
- **`Bios`** is the way from the boot sector to the kernel. High memory is a
  row of blocks with the loader's fixed addresses in their order; a file read
  stops anywhere. `krexo_mmap_init` is a step per entry of the table
  (`InitMmap`, `ConvertEntry`, `ConvertDone`). It does not repeat the other modules: the menu's, the
  configuration's and the requests' outcomes are choices there.
- **`Uefi`** is `efi_main`. Memory is a row of pages with the type the firmware
  has them down for; every allocation and every `FirmwareEvent` changes the map
  and its key: in a timer event a driver allocates a page of any of the
  `DriverTypes`, or gives one back, and stores in it what it likes. `stale` is
  the history of pages that changed their use for good since the map was taken.
  `AllocatePool` puts a pool wherever there is room. A descriptor is a run of pages of one type and attribute, so that an allocation may add
  two. `QueryMode` is one turn of the loop over the graphics modes.
- **`Paging`** is `setup_long_mode_paging`, a step per table entry, on frames
  that hold anything before; `Walk` is the processor's translation.
- **`Acpi`** is `acpi_find_table` and both walks of `smp_discover_cpus`, a step
  per MADT entry.
- **`Kernel`** composes the two with the handover: the loader stores each
  structure as its compiler lays it out (`Ends`, `Offset`, `Size` from the two
  ABIs), the kernel reads it as its own does and through the page tables, and
  `kernel_main` prints its lines, the unconditional ones too. The map may not
  have been taken (`StoreMap`): its count is then what the stack held
  (`StackCounts`). What is answered and when is `Requests`'.
- `MCRequests`, `MCSmp`, `MCMenu`, `MCFat32`, `MCConfig`, `MCBios`, `MCUefi`,
  `MCDrawing` and `MCKernel` give the constants their values; `RequestsProofs`,
  `SmpProofs`, `Fat32Proofs`, `ConfigProofs`, `BiosProofs`, `UefiProofs`,
  `ScreenProofs` (drawing and menu) and `KernelProofs` have the theorems.

## Runs

One run for each question; a module's properties that hold share one instance.

| Run | What it shows | Bounds |
|---|---|---|
| `requests_bios` | types; allocations apart and aligned; the scanned range is the one the markers name; on return every request of the range has a structure of its kind; a refusal has an unknown id; only empty response words are written; the function ends; it implements `Handover` | 658 images of 18 words (and memory behind): every ordered pair of request kinds, unknown ids, stray half markers, markers in every order |
| `smp_ok` | processors run only a complete trampoline with the loader's CR3; the boot processor resets itself on no machine but those where the 32-bit build is wrong about its id, and there no SMP request is answered; on all others the application processors end parked | three processors in unsorted order, each of them booting, both builds, two SMP requests; the delay outlasts INIT |
| `menu_loop` | every sample point shows what a full redraw would; ENTER boots what is highlighted; the default boots if no key came; a countdown ends; the line on the screen is the buffer; what is saved was shown | 640 x 480, 1 to 3 entries (from three on UP and DOWN differ), timeouts 0 and 2, a draw every 3 polls, 4 ticks a second (draws, seconds and the end fall apart); points on both sides of the edges of the rectangles, in each bar and name, and one per cell of the editor's line; a buffer of 2 characters; a plain background (an image has the same layers by another name) |
| `fat32_files` | cache coherent; every stored sector at its place; 0 means complete unless a FAT read failed; requests stay inside the files; calls return; the first entry the name stands for is found | every chain of 1 to 3 clusters over 2 FAT sectors, 1 and 2 sectors per cluster, every size needing the chain; every directory of up to 3 entries of 6 kinds in 2 clusters; a volume without partition table; 4 names, two calls |
| `config_lines` | entries are sections, settings the last given | every file of up to 4 lines of 8 kinds, every 6 lines of headers and kernels, room for 2 entries |
| `bios_boot` | a fitting kernel is entered complete and cleared, with its device tree and its requests scanned; its headers are never lost; the map is the firmware's | every two segments, kernel files of 2 and 5 blocks (the latter reaches the device tree's place), other files missing, empty or overlapping the next buffer; every E820 table of up to 4 ranges, 5 to 8 (limit 5, stack at 7), with and without attributes, VBE, disk |
| `uefi_boot` | the map fits the buffer allocated for it; what it calls usable stays so, but for pages that a driver took for good, and is never the loader's image; 1024x768 is found, and a mode to draw in is not left; an undisturbed kernel is entered complete, with the responses in their page; boot services end where the firmware gives the key | 7 pages, every placement of every pool, one driver event at any point, with boot-services or runtime memory (`DriverTypes`); 8 memories, every list of up to 3 modes with every current one, 5 kernels; a map of 5 entries, which the larger memories exceed |
| `drawing` | a decoded PNG is the picture; calls write neither padding nor memory behind the frame; `Fb` implements `Canvas` | a 5 x 4 screen in all four pixel layouts and three pitches; calls over each edge, negative starts, texts that start outside; coordinates modulo 4096; PNG files of every colour type drawn, every filter, fixed and dynamic codes, overlapping repetitions, two blocks, chunks cut anywhere; BMP of both depths and directions |
| `kernel` | the tables map memory once at its addresses and once at the HHDM offset; the processors found are the firmware's; the kernel reads every field but those that the layouts put apart; the status lines are true, with a memory map or without | tables of 4 entries, 2 directories, clean and stale frames; both loaders; a map of the `MapCounts` or none, with 0 or 200 on the stack for its count; every request and every ordered pair, the demo kernel's own; MADTs with enabled, disabled and other entries, tables before and behind, XSDT, RSDT or none; framebuffer at both ends of the mapped memory, under UEFI behind it too |

The scaled-down bounds keep the relations that matter: a FAT sector holds three
cluster numbers so that a chain of three crosses sectors; a run has room for
four sectors so that it can be cut by the limit, by the file's end and by a gap;
the configuration's list has room for two so that a third section appears. The
machines of `bios_boot` are every firmware with one kernel and every kernel on
one firmware: what firmware and kernel decide does not meet before the jump.

In `kernel` the firmware's tables vary for a kernel that asks for processors,
the requests vary on one firmware: they meet only in the number of processors,
which decides how much is allocated.

Runs that find a statement of the repository violated:

| Run | Statement | What happens |
|---|---|---|
| `uefi_exit` | `main.c:207`: exit boot services before jumping | the key comes from a call that failed for its size, the status is ignored |
| `kernel_bios` | `fb.h:11`: 64 bits "for cross-arch handoff"; README: the response has the information | the `-m32` loader aligns and sizes fields otherwise than the 64-bit kernel: `LostUnderBios` names those it misses |
| `kernel_uefi` | `requests.h:63`: physical address P is mapped at HHDM_OFFSET + P | efi_main hands over the offset and builds no tables |

Other differences between comments and code met while modelling, which no run
is spent on:

- `smp.c:39` sends INIT "to each AP"; `smp_discover_cpus` leaves the boot
  processor's id at 0 in the 32-bit build (`requests.c:279-285`), so another
  boot processor resets itself. `BootProcessorFate` says on which machines it
  does and what becomes of them.
- `kernel/main.c:111` prints VALID to "confirm it's not zero": after a failed
  `krexo_mmap_init` the count is the loader's stack, so that the line may stand
  there without a map. `main.c:151-154` prints "Markers: DETECTED" and "Scan
  Boundaries: SECURE" whatever was found (`MarkerLines`).
- `requests.h:81` says of `goto_address` "Kernel sets this; AP jumps here"; the
  trampoline parks in a loop of `hlt` and never looks (`Park`, `SetGoto`).
- `fat32.c:126` marks "End of directory" and goes on with the next entry: what
  is left behind the end is matched (`ScanSector`).
- README.md:71 promises the information in every response; `krexo_mmap_init`
  may fail and `stage2.c:140` hands over the undefined structure (`InitMmap`).
- `requests_handle` looks for the RSDP only through `acpi_find_table`'s scan
  from 0xE0000 on, also under UEFI, where the firmware gives it elsewhere:
  `acpi_init` has no caller. x2APIC entries are not counted.
- `menu.c:54` computes `box_y` unsigned: with a screen lower than the box (seven
  and more entries at 480 lines) the box is drawn nowhere. The boxes of
  `MCMenu` fit their screen.
- The fast path of the noise background (`fb.c:161`) stores red and blue the
  other way round than `put_pixel` (`ToNoise`); it has no caller. A blended
  rectangle on a 24-bit screen mixes with black (`GetPixel`).
- `printf.c` skips `%p`, `%u` and lengths without taking their argument, so that
  `krexo_fb_print_info` would print nothing for them.
- The demo kernel writes both "HHDM Access Test" and "Paging Mode Response" at
  line 145 (`StatusTruthful` allows that line alone), and its `put_pixel` knows
  one channel order.
- `requests.c:216` has a strict check that all requests were fulfilled, and
  both callers scan 1 MB: a request of an unmarked kernel behind it stays open
  unseen (`RangeMatchesMarkers` states which range it is).
- `config.h:32` promises a structured list; the settings of a section too many
  overwrite the last entry's (`EntriesAreSections` leaves that entry out).
- `gop.c:65` says "1024x768 if available, otherwise current", and `gop.c:84`
  "first valid mode": the loop leaves a valid current mode for another one, and
  takes the second one if the current is the first (`QueryMode`).
- `smp.c:62` says all processors are initialized after loops that measure
  nothing; with `DelayCovers = FALSE` in `Smp` a slow processor loses its
  start-up interrupts and stays in reset.
- `mmap.h:10` calls conventional memory free RAM, and the processors that
  `Smp` parks still execute in page 0x4000, which the map reports so.
- `menu.h:10` promises the index of an entry; without entries UP and ENTER
  return -1 or 0. `menu_draw` compares the background with a sentinel
  (`menu.c:56`), so the colour 0xFFFFFFFF leaves the frame undrawn. The repair
  of the edit line (`menu.c:145`) leaves what a line longer than the box drew.
  `menu_loop` therefore has an entry and another colour, and `EditorShowsText`
  speaks of the columns of the box.
- `stage2.c:162` loads a background image "if specified", from a path that is
  uninitialised without a `BACKGROUND_IMAGE` line (`LookForImage` of `Config`).
- `mmap.c:71` speaks of attributes "if present" without a test of presence
  (the `"absent"` attribute of `Bios`); `mmap.c:15` has the map at 0x7000 while
  `boot_info` says 0x5000 (`stage2.c:213`); `vbe.c:35` relies on stage 1
  zeroing a region that it never clears (`stale` in `Bios`).

`Requests`, `Bios`, `Uefi`, `Config`, `Menu`, `Fat32`, `Drawing` and `Kernel`
stop where the program returns, halts or jumps; each has a `Done` step there
(`Quiet` in `Smp`), so that every other deadlock is an error.

## Fairness

The loader is one thread that nothing preempts: weak fairness of its own steps
(`Requests`, `Unattended` of `Menu`, `Working` of `Fat32`, `Bsp` of `Smp`) says
that the processor executes. Keys, disk failures and the choice of a further
call get none. In `Smp` interrupts are delivered and each processor executes
(`Hardware(c)`, `Trampoline(c)`); the kernel owes nothing, so `SetGoto` has no
fairness. `Config`, `Bios`, `Uefi`, `Drawing` and `Kernel` state safety only.

## Proofs

All theorems hold for every value of the constants that satisfies the named
assumptions of the modules.

- **`RequestsProofs`**: `TypeCorrect`, `AllocatorSafe`, `HandoverIsComplete`,
  `RefusalIsJustified`, `OnlyResponsesWritten`. Types need bounds of the
  indices with them (`IndexInv`: the search ends before the last word, the scan
  and the check run inside the window), because the answers write at `i + 4`.
  The allocator's invariant adds that everything handed out lies below
  `response_ptr`. `HandoverComplete` speaks of the end only; `ProgressInv`
  says for each loop which headers have their answer: none before the scan,
  those below `i` in the scan (or of unknown id), all those below `i` in the
  check. That a header keeps its words while another is answered needs
  `HeaderInv`: headers do not overlap (kernels declare them as C objects), and
  response words are zero or addresses. `AnswerHasShape` and `AnswerStores`
  state once what all ten answers have in common.
  `RangeIsMarked`: `SearchInv` says of each turn of the marker loop that
  `start_index` stands behind the last start marker before `i` and that no
  end marker lies before `i`. `RequestsImplementHandover` is the safety half of the
  refinement: Init maps to Init, and each step to a step of `Handover` or a
  stutter. Which requests there are is decided by the markers from the
  beginning, and no answer changes a marker (`MarkersStay`); an answer closes
  exactly the request at `i`.
- **`SmpProofs`**: `SmpTypeCorrect`, `ApsSafe`, `BootProcessorFateHolds`. The
  strengthening of the second orders the page against the interrupts: as long as
  an interrupt is under way or a processor runs, trampoline and CR3 word are in
  place. The third has two: a loader that knows its processor never sends to
  itself (`SparedInv`); one that does not (`Mistaken`) comes as far as its own
  entry of the table, where its loop stands between INIT and start-up interrupt
  and the delay is not over before the INIT is taken (`MistakenInv`, `UpTo`).
- **`ConfigProofs`**: `SettingsAreTheLast`, `SectionsBecomeEntries`. Both
  properties compare the structure with the lines read so far, which grow by
  one a step; lemmas say what one more line does to the headers, the sections
  and the last value of a key. `ListInv` adds which entry settings go to, and
  that the entries behind the count are as they were cleared.
- **`Fat32Proofs`**: `CacheSafe`, `FilesReadInPlace`, `ReadsAreComplete`,
  `RequestsStayInFiles` and the action property `SearchFindsFirst`.
  `CacheCoherent` is inductive: only the three steps that call
  `get_next_cluster` touch the cache, and a call changes number and contents
  together or not at all. Reading rests on `ReadInv`: the position in memory,
  in the file and in the chain are the same, a run is a stretch of neighbours
  in the chain (`SideBySide`) and the whole run is in the file; the division
  lemmas at the top turn sectors into clusters and back. `ReadComplete` and
  `RequestsInFiles` follow from the same position. The search (`SearchInv`):
  no entry before the sector at hand matches, and the cluster at hand is in the
  root's chain. What the volume must be is in `WellFormed`: chains are disjoint
  and a file's size fits its chain. That the first match is the entry *the name
  stands for* holds of names without blanks only (`NoBlanks`): `fat32.c` fills
  up with blanks, so that a blank in a name is no different from its end.
- **`BiosProofs`**: `MapIsFaithful`, `FittingKernelIsKept`,
  `HandoverStaysIntact`. `TableInv` says that what stage 1 has stored are the
  firmware's answers and that the count byte is their number unless the table
  met the stack; `MapInv`, that after each turn of the conversion the map has
  the ranges of the turns so far, the k-th range at the place that its rank
  among the ranges gives it. A fitting kernel's segments end below the buffer
  its file is in, so that copying leaves the rest of the file alone
  (`LoadedInv`); the device tree may run over the end of the file, which by
  then is copied, and never over its headers. Assumed of the machine: memory
  exists where the kernel's file and the device tree are read to, and the table
  meets the stack before its one-byte count wraps.
- **`UefiProofs`**: `ExitSafe`: between taking the key and using it the key is
  the map's; every step before leaves the firmware in charge, and an event
  makes the antecedent false. `SnapshotIsTaken`: a pool adds at most two
  descriptors, because runs of pages begin anew only at its two ends.
  `MapStaysUsable`: the descriptors are as many as the runs and each run is one
  descriptor (by the rank of its first page); afterwards the loader's pools
  change only the types of pages that the kernel may use anyway, and what a
  driver changes for good is in `stale` (`EventKeepsPromise`, `PromisedStays`).
  The proof failed for pages that were `EfiLoaderData` before the loader
  started, which the map does not call usable and nothing returns: `Reclaimable`
  leaves them out, and `MCUefi` has such a memory.
  `ModeIsChosen` follows the loop over the modes turn by turn.
  `HandoverStaysIntact`: where the boot was undisturbed the pool with the file
  and the segments' pages never meet (`UndisturbedIsProper`), and `LoadedInv`
  says which segments are in place and that the responses are, once they are
  written. A driver's page may be given back before the jump with the driver's
  data in it, so each page holds what belongs there or `"driver"` (`Holds`).
- **`ScreenProofs`** on drawing: `DrawingStaysInRows`, `DrawingImplementsCanvas`.
  Every call ends in `PutPixels` of a function on points of the screen
  (`StepPaints`); a point's address with its depth stays in its row
  (`PixelInRow`, `RowInFrame`), and no address wraps because the frame fits
  32 bits (`NoWrap`). No two pixels share a byte (`PixelsApart`), so that a call
  shows its colours at its pixels and leaves the others, in every depth and
  channel order (`PaintShows`). For each kind of call a lemma says that this is
  what `Canvas` promises (`Keeps`): loops over unsigned coordinates reach the
  rectangle's pixels and none of a negative start (`RectInside`), the cell
  arithmetic of a text finds the glyph's pixel on either side of a wrap
  (`CellHolds`), blending and fading fit a byte and stay between their colours
  (`MixIsByte`, `FadeBetween`), a scaled index stays in the picture
  (`ScaledInside`). `CanvasInv` keeps the header of a PNG file with its picture
  up to the drawing loop. The theorem speaks of calls within `CallsFit` (ends of
  rectangles and texts do not wrap, none but a fill or a text starts left of or
  above the screen, images are scaled within 32 bits and BMP files hold their
  picture), which TLC evaluates for the instance of the run (`InstanceFits`),
  and takes from the run that a decoded PNG image is its picture
  (`[]PictureRestored`).
- **`ScreenProofs`** on the menu: `BootsUntouchedOnly`, `ScreenStaysCurrent`,
  `HighlightedBoots`, `EditorIsTruthful`, `ShownIsSaved`. `ScreenInv` says what
  the screen shows at each place of the loop in terms of what `menu_draw`'s
  statics remember: a pixel's layers have a closed form (`Picture`), so that
  painting the stripes of two rows or of the countdown over a frame gives the
  layers that painting all does. `Counted` says that the second shown is the one
  that the timeout and the polls since the last draw amount to. `EditInv` follows the editor's
  line: it reads like the buffer once it was drawn at the buffer's length. A
  length that changed has the box's stripe painted over and the line drawn
  anew, whatever stood there (`Layered`). Texts are compared column by column.
  All but `BootsUntouchedOnly` hold of
  `Drawable` menus: coordinates do not wrap (`InReach`), there is an entry, the
  background is not the sentinel, the box fits the screen and the countdown's
  line the box (each of these is a place where the code needs it, see above).
  `HighlightedBoots` further wants a sample in each row's bar (`BarsSampled`),
  which is so when every pixel is looked at (`WholeScreenSampled`).
- **`KernelProofs`**: `KernelSeesMemory`, `AllProcessorsFound`,
  `HandoverIsRead`, `StatusIsTruthful`. For the tables the strengthening follows the builder:
  which entries of which frame are final at each step, for every number of
  entries and directories; `EntriesAreWords` and `Geometry` keep the frames
  apart. `AllProcessorsFound`: a walk stands at the beginning of an entry of
  the published MADT (`StandsAt`); the first has counted the processors before
  it, the second stored each one's id at its rank. Where entries begin is
  computed by a recursive function, whose existence (`SumsExist`) is shown by a
  least argument at which it would fail, since no prover instantiates the
  library's induction theorem. Assumed of the tables: a root table's length is
  that of its header and addresses.
  `HandoverIsRead`, for every kernel's requests in any order: both compilers lay
  the fields of a structure one behind the other on words (`FieldsApart`), and a
  structure stored stays readable (`HeldStays`) because the map of at most
  `MaxRanges` ranges, boot_info and the responses lie apart and the allocator
  only moves up (`RamInv`). The processors' array is stored behind its response
  before anything else is (`FinishSmpStep`, which needs the discovery's
  invariant for its length). But for the fields of `LostUnderBios` the offsets
  of both layouts are the same (`CommonFields`, computed field by field), and so
  are all fields under UEFI. A map that was not taken has no ranges to read
  (`Ranges`); its response is stored with the stack's count all the same.
  `StatusIsTruthful` rests on it: the first field of
  a response is never lost, every request has its response (`AskedInv`), and
  the BIOS loader's tables reach the framebuffer, whose address has 32 bits, and
  address 0 at its offset (`ReachInv`).

Model-checked only: liveness (`Terminates`, `CountdownEnds`, `ApsPark`,
`Returns`) and with it `ImplementsHandover` as a whole, whose liveness half
needs fairness, which is beyond the prover; the PNG decoder (`PictureRestored`),
whose tables, trees and rows are computed by recursion over the data. All other
properties of the runs are also theorems.

## Abstractions

- In `Bios` memory reaches at least behind the kernel's file and the device tree
  in their buffers (with less, both reads would run out of memory, which the
  code does not ask about).
- An RSDT's or XSDT's length is that of its header and its addresses; no table
  lies at address 0. The names asked of `Fat32` have no blanks.
- Disks are well-formed FAT32 volumes (`WellFormed`): chains end, share no
  cluster, and there is a FAT32 partition or no partition table at all. With a
  cyclic chain `fat32_find_file` does not return; with a table that has no
  FAT32 partition `fat32_init` takes the boot sector for the boot record.
- The menu has at least one entry and a background colour other than its
  sentinel (see above), and its box fits the screen (`Drawable` of `Menu`).
- Rectangles, texts and images are drawn within `CallsFit` of `Drawing`: what
  the loops do where the end of a rectangle wraps around 32 bits is in `Raster`,
  but `Canvas` promises nothing of it.
- A request header is a C object with `.response = 0`, as `kernel/main.c`
  declares it (`WellFormed` of `Requests`).
- Addresses in `Bios` are blocks of 8 MB, in `Uefi` pages; segments start at
  their borders. `GetMemoryMap` with a buffer too small gives a key or none: the
  UEFI specification does not say, so it is a property of the machine. A UEFI
  pool never shares a page with another. Drivers change one page at a time, of
  any type but `EfiLoaderCode` and `EfiLoaderData`, which UEFI keeps for
  programs, and leave the pool of the memory map alone.
- `TIMEOUT=` is a number whose product with 1000 fits an int.
- Strings are atoms where only their identity counts; the names in `Fat32`
  are sequences, because prefixes matter there.

- A PNG stream is complete and inflates to less than the 15 MB between the two
  buffers; a MADT's entries have a length.
- The bits of the font and the hash of the noise are constants of `Fb`; in
  `Menu` a character is a layer that depends on nothing but itself.
- In `Kernel` memory is words of 4 bytes, and the map, boot_info and the
  responses lie apart, as in the code. The BIOS framebuffer lies in the memory
  that the tables map: VBE gives its address in 32 bits, and they map 4 GB.

## Not modelled, and the plan

In this order:

1. A composition of `Requests` and `Smp`: a refused boot with processors awake.
2. An abstract file system that returns a named file's bytes or an error,
   refined by `Fat32`; a menu that only selects, edits and times out, refined by
   `Menu`.
3. Pure operators: `k_strncpy`, `parse_int`, the translation of scan codes.
4. Proofs: that `Png`'s `Unfilter` undoes each filter, row by row, so that
   `PictureRestored` would rest on the inflater alone.

Left out for good: stored deflate blocks, interlaced images and other depths
(the decoder has no code for them), frames of 8, 15 or 16 bits a pixel (nothing
is drawn), glyph data and assets, log lines, the build scripts, and the
port-level protocol of the ATA and keyboard drivers.
