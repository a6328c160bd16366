------------------------------- MODULE Paging -------------------------------
(***************************************************************************)
(* setup_long_mode_paging (src/boot/bios/stage2.c): the four-level tables  *)
(* that the BIOS loader builds before anything else and the kernel runs    *)
(* on.  Tables and pages are named by frames of 4 KB; one entry of a page  *)
(* directory maps a large page of Entries frames (512, that is 2 MB).      *)
(***************************************************************************)
EXTENDS Integers

CONSTANTS
  Entries,      \* entries of a table, 512
  Directories,  \* page directories, 4: one for each GB
  Pml4,         \* frame of PML4_ADDR, 0x70; PDPT and directories follow
  Leftovers     \* what the frames may hold before

Words == [present : BOOLEAN, large : BOOLEAN, frame : Nat]

ASSUME PagingAssumption ==
  /\ Entries \in Nat /\ Entries >= 2
  /\ Directories \in 1 .. Entries
  /\ Pml4 \in Nat
  /\ Leftovers \subseteq Words

Slots == 0 .. Entries - 1
Pdpt == Pml4 + 1
Pd(d) == Pml4 + 2 + d
HhdmSlot == Entries \div 2        \* (0xffff800000000000 >> 39) & 0x1FF
Tables == Pml4 .. Pml4 + 1 + Directories

Empty == [present |-> FALSE, large |-> FALSE, frame |-> 0]
Table(f) == [present |-> TRUE, large |-> FALSE, frame |-> f]       \* | 0x03

\* Mutant: the directories' pages are interleaved.
PageInterleaved(d, k) ==
  [present |-> TRUE, large |-> TRUE, frame |-> (k * Directories + d) * Entries]

\* The large page k of directory d: | 0x83.
Page(d, k) ==
  [present |-> TRUE, large |-> TRUE, frame |-> (d * Entries + k) * Entries]

VARIABLES
  building,     \* where setup_long_mode_paging is
  tables,       \* the frames from PML4_ADDR on
  i, j          \* its loops

paging == <<building, tables, i, j>>

PagingInit ==
  /\ building = "clear"
  /\ \E w \in Leftovers : tables = [t \in Tables |-> [k \in Slots |-> w]]
  /\ i = 0 /\ j = 0

\* k_memset over 6 frames: the PML4, the PDPT and every directory.
Clear ==
  /\ building = "clear" /\ building' = "pml4"
  /\ tables' = [t \in Tables |-> [k \in Slots |-> Empty]]
  /\ UNCHANGED <<i, j>>

LinkPdpt ==
  /\ building = "pml4" /\ building' = "pdpt"
  /\ tables' = [tables EXCEPT ![Pml4][0] = Table(Pdpt)]
  /\ UNCHANGED <<i, j>>

LinkDirectory ==
  /\ building = "pdpt" /\ i < Directories /\ building' = "pd"
  /\ tables' = [tables EXCEPT ![Pdpt][i] = Table(Pd(i))]
  /\ j' = 0 /\ UNCHANGED i

MapPage ==
  /\ building = "pd" /\ j < Entries
  /\ tables' = [tables EXCEPT ![Pd(i)][j] = Page(i, j)]
  /\ j' = j + 1 /\ UNCHANGED <<building, i>>

NextDirectory ==
  /\ building = "pd" /\ j = Entries /\ building' = "pdpt"
  /\ i' = i + 1 /\ UNCHANGED <<tables, j>>

\* The higher half shares the PDPT of the lower one.
LinkHhdm ==
  /\ building = "pdpt" /\ i = Directories /\ building' = "built"
  /\ tables' = [tables EXCEPT ![Pml4][HhdmSlot] = Table(Pdpt)]
  /\ UNCHANGED <<i, j>>

PagingNext ==
  Clear \/ LinkPdpt \/ LinkDirectory \/ MapPage \/ NextDirectory \/ LinkHhdm

-----------------------------------------------------------------------------
(* The processor's walk from CR3 = PML4_ADDR *)

Fault == -1

\* The first frame of the large page at a virtual address, or a fault.
Walk(l4, l3, l2) ==
  LET directory == tables[Pml4][l4]
      table == tables[directory.frame][l3]
      page == tables[table.frame][l2]
  IN IF directory.present /\ table.present /\ page.present THEN page.frame ELSE Fault

Maps(l4, l3) == l4 \in {0, HhdmSlot} /\ l3 < Directories

\* requests.h: "Physical address P is mapped at virtual address (HHDM_OFFSET + P)".
\* When stage2_main goes on, the first Directories GB are mapped at their own
\* addresses and again from the HHDM offset on, and nothing else is mapped
\* anywhere, whatever the frames held before.
PagesMapped ==
  building = "built" =>
    \A l4, l3, l2 \in Slots :
      Walk(l4, l3, l2) = IF Maps(l4, l3) THEN (l3 * Entries + l2) * Entries ELSE Fault
=============================================================================
