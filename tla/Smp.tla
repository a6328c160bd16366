-------------------------------- MODULE Smp ---------------------------------
(***************************************************************************)
(* Starting the application processors: smp_wakeup_aps (src/common/lib/    *)
(* smp.c) on the boot processor, the trampoline (src/boot/common/          *)
(* trampoline.s) on the others, and the kernel that is entered afterwards. *)
(*                                                                         *)
(* The processors share the page at 0x4000: the trampoline's code and, at  *)
(* 0x4500, the CR3 value.  Interprocessor interrupts travel in order to    *)
(* each processor but arrive any time after they were sent: the delays     *)
(* between them are uncalibrated loops that wait for nobody.               *)
(***************************************************************************)
EXTENDS Integers, Sequences, FiniteSets

CONSTANTS
  CpuList,      \* cpus[]: LAPIC ids of the enabled processors, in MADT order
  Rounds,       \* SMP requests of the kernel: each calls smp_wakeup_aps again
  DelayCovers   \* delay(10) outlasts a processor's reaction to INIT

Cpus == {CpuList[k] : k \in DOMAIN CpuList}

ASSUME SmpAssumption ==
  /\ CpuList \in Seq(Nat) /\ CpuList # <<>>
  /\ \A j, k \in DOMAIN CpuList : CpuList[j] = CpuList[k] => j = k
  /\ Rounds \in Nat \ {0}
  /\ DelayCovers \in BOOLEAN

VARIABLES
  setup,       \* the loader's build and the processor that runs it: never changes
  bsp,         \* where the boot processor is in smp_wakeup_aps
  i,           \* its loop index, from 1
  round,       \* which call of smp_wakeup_aps this is
  icr_high,    \* destination register of the boot processor's LAPIC
  ipis,        \* per processor: interrupts sent and not yet arrived
  ap,          \* per processor: what it does
  page,        \* 0x4000: is the trampoline there?
  cr3_word,    \* 0x4500: is it the loader's PML4?
  cr3,         \* per processor: the CR3 it loaded
  goto_address \* per processor: cpus[].goto_address, set by the kernel

vars == <<setup, bsp, i, round, icr_high, ipis, ap, page, cr3_word, cr3, goto_address>>

RealBsp == setup.cpu
Aps == Cpus \ {RealBsp}

\* Mutant: no build asks cpuid.
ReportedZero == 0

\* bsp_lapic_id: cpuid's answer, or 0 in the build that does not ask.
ReportedBsp == IF setup.build = "i386" THEN 0 ELSE RealBsp

Init ==
  /\ setup \in [build : {"i386", "x86_64"}, cpu : Cpus]
  /\ bsp = "copy" /\ i = 1 /\ round = 1
  /\ icr_high = RealBsp
  /\ ipis = [c \in Cpus |-> <<>>]
  /\ ap = [c \in Cpus |-> IF c = RealBsp THEN "boot" ELSE "waiting"]
  /\ page = "old" /\ cr3_word = "old"
  /\ cr3 = [c \in Cpus |-> "none"]
  /\ goto_address = [c \in Cpus |-> 0]

-----------------------------------------------------------------------------
(* The boot processor: smp_wakeup_aps *)

machine == <<setup, ap, cr3, goto_address>>
Alive == ap[RealBsp] = "boot"

\* Mutant: the trampoline is not copied.
CopyForgotten ==
  /\ bsp = "copy" /\ Alive
  /\ bsp' = "cr3"
  /\ UNCHANGED <<i, round, icr_high, ipis, page, cr3_word, machine>>

CopyTrampoline ==
  /\ bsp = "copy" /\ Alive
  /\ page' = "trampoline" /\ bsp' = "cr3"
  /\ UNCHANGED <<i, round, icr_high, ipis, cr3_word, machine>>

SetCr3 ==
  /\ bsp = "cr3" /\ Alive
  /\ cr3_word' = "pml4" /\ bsp' = "loop" /\ i' = 1
  /\ UNCHANGED <<round, icr_high, ipis, page, machine>>

\* The boot processor leaves out the entry it takes for itself.
SkipSelf ==
  /\ bsp = "loop" /\ Alive /\ i <= Len(CpuList) /\ CpuList[i] = ReportedBsp
  /\ i' = i + 1
  /\ UNCHANGED <<bsp, round, icr_high, ipis, page, cr3_word, machine>>

\* ICR_HIGH selects the processor, the write to ICR_LOW sends.
Send(kind, next) ==
  /\ Alive
  /\ icr_high' = CpuList[i]
  /\ ipis' = [ipis EXCEPT ![CpuList[i]] = Append(@, kind)]
  /\ bsp' = next
  /\ UNCHANGED <<round, page, cr3_word, machine>>

SendInit ==
  /\ bsp = "loop" /\ i <= Len(CpuList) /\ CpuList[i] # ReportedBsp
  /\ Send("INIT", "sipi") /\ UNCHANGED i

\* Mutant: the delay after INIT is left out.
NotDelayed == TRUE

\* A delay that is long enough ends after the INIT was taken.
Delayed ==
  DelayCovers => ipis[CpuList[i]] = <<>> /\ ap[CpuList[i]] # "init"

SendSipi ==
  /\ bsp = "sipi" /\ Delayed
  /\ Send("SIPI", "sipi2") /\ UNCHANGED i

SendSecondSipi ==
  /\ bsp = "sipi2"
  /\ Send("SIPI", "loop") /\ i' = i + 1

\* "All APs initialized."
Finish ==
  /\ bsp = "loop" /\ Alive /\ i > Len(CpuList)
  /\ bsp' = "finished"
  /\ UNCHANGED <<i, round, icr_high, ipis, page, cr3_word, machine>>

\* Another SMP request in the kernel repeats everything.
NextRequest ==
  /\ bsp = "finished" /\ Alive /\ round < Rounds
  /\ round' = round + 1 /\ bsp' = "copy"
  /\ UNCHANGED <<i, icr_high, ipis, page, cr3_word, machine>>

EnterKernel ==
  /\ bsp = "finished" /\ Alive /\ round = Rounds
  /\ bsp' = "kernel"
  /\ UNCHANGED <<i, round, icr_high, ipis, page, cr3_word, machine>>

\* The kernel hands a processor its entry point (requests.h).
SetGoto(c) ==
  /\ bsp = "kernel" /\ Alive /\ goto_address[c] = 0
  /\ goto_address' = [goto_address EXCEPT ![c] = 1]
  /\ UNCHANGED <<setup, bsp, i, round, icr_high, ipis, ap, page, cr3_word, cr3>>

-----------------------------------------------------------------------------
(* A processor and its interrupts (the hardware, as smp.c relies on it) *)

loader == <<setup, bsp, i, round, icr_high, page, cr3_word, goto_address>>

\* INIT stops whatever the processor does; reacting to it takes a while.  The
\* boot processor starts the firmware over, which ends what is modelled here.
TakeInit(c) ==
  /\ ipis[c] # <<>> /\ Head(ipis[c]) = "INIT"
  /\ ipis' = [ipis EXCEPT ![c] = Tail(@)]
  /\ ap' = [ap EXCEPT ![c] = IF c = RealBsp THEN "reset" ELSE "init"]
  /\ UNCHANGED <<loader, cr3>>

InitDone(c) ==
  /\ ap[c] = "init"
  /\ ap' = [ap EXCEPT ![c] = "waiting"]
  /\ UNCHANGED <<loader, ipis, cr3>>

\* A SIPI starts a waiting processor at 0x4000 and is lost on any other.
TakeSipi(c) ==
  /\ ipis[c] # <<>> /\ Head(ipis[c]) = "SIPI"
  /\ ipis' = [ipis EXCEPT ![c] = Tail(@)]
  /\ ap' = [ap EXCEPT ![c] =
              IF @ # "waiting" THEN @
              ELSE IF page = "trampoline" THEN "real" ELSE "lost"]
  /\ UNCHANGED <<loader, cr3>>

-----------------------------------------------------------------------------
(* An application processor: trampoline.s *)

Step(c, from, to) ==
  /\ ap[c] = from
  /\ ap' = [ap EXCEPT ![c] = IF page = "trampoline" THEN to ELSE "lost"]

EnterProtected(c) ==
  /\ Step(c, "real", "protected")
  /\ UNCHANGED <<loader, ipis, cr3>>

LoadCr3(c) ==
  /\ Step(c, "protected", "paged")
  /\ cr3' = [cr3 EXCEPT ![c] = cr3_word]
  /\ UNCHANGED <<loader, ipis>>

\* Long mode, then cli; hlt; jmp: the processor never looks at goto_address.
Park(c) ==
  /\ Step(c, "paged", "parked")
  /\ UNCHANGED <<loader, ipis, cr3>>

Bsp ==
  \/ CopyTrampoline \/ SetCr3 \/ SkipSelf \/ SendInit \/ SendSipi
  \/ SendSecondSipi \/ Finish \/ NextRequest \/ EnterKernel

Hardware(c) == TakeInit(c) \/ InitDone(c) \/ TakeSipi(c)
Trampoline(c) == EnterProtected(c) \/ LoadCr3(c) \/ Park(c)

\* Every processor rests: halted, reset, or in the kernel.
Quiet ==
  /\ bsp = "kernel" \/ ~Alive
  /\ UNCHANGED vars

Next ==
  \/ Bsp \/ \E c \in Cpus : SetGoto(c)
  \/ \E c \in Cpus : Hardware(c) \/ Trampoline(c)
  \/ Quiet

\* Interrupts arrive and every processor runs; the kernel owes nothing.
Spec ==
  /\ Init /\ [][Next]_vars
  /\ WF_vars(Bsp)
  /\ \A c \in Cpus : WF_vars(Hardware(c)) /\ WF_vars(Trampoline(c))

-----------------------------------------------------------------------------
(* Properties *)

Running == {"real", "protected", "paged", "parked"}

TypeOK ==
  /\ setup \in [build : {"i386", "x86_64"}, cpu : Cpus]
  /\ bsp \in {"copy", "cr3", "loop", "sipi", "sipi2", "finished", "kernel"}
  /\ i \in 1 .. Len(CpuList) + 1 /\ round \in 1 .. Rounds
  /\ icr_high \in Cpus
  /\ ipis \in [Cpus -> Seq({"INIT", "SIPI"})]
  /\ ap \in [Cpus -> {"boot", "waiting", "init", "reset", "lost"} \cup Running]
  /\ page \in {"old", "trampoline"} /\ cr3_word \in {"old", "pml4"}
  /\ cr3 \in [Cpus -> {"none", "old", "pml4"}]
  /\ goto_address \in [Cpus -> {0, 1}]

\* No processor is started before the page it starts in is complete: none runs
\* into old memory, and none loads anything but the loader's page table, even
\* when a second SMP request rewrites the page under processors that run in it.
ApsRunTrampoline ==
  \A c \in Cpus : ap[c] # "lost" /\ cr3[c] # "old"

\* The 32-bit loader takes another processor for its own.
Mistaken == setup.build = "i386" /\ RealBsp # 0

\* smp.c sends INIT "to each AP".  The boot processor resets itself on no machine
\* but the one where the 32-bit build is wrong about it.  There, once the INIT is
\* taken within its delay, no SMP request is ever answered and no kernel entered,
\* and no processor is started but those that the table has before it.
BootProcessorFate ==
  /\ Alive \/ Mistaken
  /\ Mistaken /\ DelayCovers =>
       /\ round = 1 /\ bsp \notin {"finished", "kernel"}
       /\ \A k \in DOMAIN CpuList :
            ap[CpuList[k]] \in Running =>
              \E m \in DOMAIN CpuList : m > k /\ CpuList[m] = RealBsp

\* Every enabled processor is finally parked, however often the page was
\* rewritten and the processors restarted, if the loader survives.
ApsPark == Mistaken \/ <>[](\A c \in Aps : ap[c] = "parked")
=============================================================================
