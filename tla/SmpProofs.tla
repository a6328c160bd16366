----------------------------- MODULE SmpProofs ------------------------------
(***************************************************************************)
(* Proofs about Smp for any number of processors, any order of the MADT    *)
(* and any number of SMP requests.                                         *)
(*                                                                         *)
(* The invariant orders the shared page against the interrupts: as long as *)
(* an interrupt is under way or a processor runs, the trampoline and the   *)
(* CR3 word are in place.  A loader that is wrong about its own processor   *)
(* is followed through the loop up to its own entry, which it never leaves. *)
(***************************************************************************)
EXTENDS Smp, TLAPS

Kinds == {"INIT", "SIPI"}
PageReady == page = "trampoline" /\ cr3_word = "pml4"

\* Between INIT and the second SIPI the loop stands at a listed processor.
SendInv ==
  bsp \in {"sipi", "sipi2"} => i <= Len(CpuList) /\ CpuList[i] # ReportedBsp

\* Sequences of interrupts, as far as the proofs need them.
LEMMA QueueFacts ==
  ASSUME NEW q \in Seq(Kinds), NEW kind \in Kinds
  PROVE  /\ Append(q, kind) \in Seq(Kinds)
         /\ q # <<>> => Tail(q) \in Seq(Kinds)
  OBVIOUS

LEMMA CpuFacts ==
  /\ Len(CpuList) \in Nat
  /\ \A k \in 1 .. Len(CpuList) : CpuList[k] \in Cpus
  /\ \A j, k \in 1 .. Len(CpuList) : CpuList[j] = CpuList[k] => j = k
  /\ \A c \in Cpus : \E k \in 1 .. Len(CpuList) : CpuList[k] = c
  BY SmpAssumption DEF Cpus

\* The machine stays what it is.
LEMMA SetupStays ==
  ASSUME [Next]_vars
  PROVE  /\ setup' = setup /\ RealBsp' = RealBsp /\ ReportedBsp' = ReportedBsp
         /\ Mistaken' = Mistaken
<1>1. setup' = setup
  BY DEF Next, Bsp, Quiet, CopyTrampoline, SetCr3, SkipSelf, SendInit, SendSipi,
         SendSecondSipi, Send, Finish, NextRequest, EnterKernel, SetGoto, Hardware,
         TakeInit, InitDone, TakeSipi, Trampoline, EnterProtected, LoadCr3, Park,
         machine, loader, vars
<1> QED
  BY <1>1 DEF RealBsp, ReportedBsp, Mistaken

\* What sending does: one more interrupt for the processor at i, which is a
\* listed one.
LEMMA SendFacts ==
  ASSUME TypeOK, SendInv, SendInit \/ SendSipi \/ SendSecondSipi
  PROVE  /\ i \in 1 .. Len(CpuList) /\ CpuList[i] \in Cpus
         /\ CpuList[i] # ReportedBsp
         /\ bsp' \in {"sipi", "sipi2", "loop"} /\ i' \in {i, i + 1}
         /\ bsp' # "loop" => i' = i
         /\ icr_high' = CpuList[i]
         /\ \E kind \in Kinds :
              ipis' = [ipis EXCEPT ![CpuList[i]] = Append(@, kind)]
         /\ UNCHANGED <<round, page, cr3_word, machine>>
         /\ bsp \in {"loop", "sipi", "sipi2"}
  BY CpuFacts DEF SendInit, SendSipi, SendSecondSipi, Send, SendInv, TypeOK, Kinds

LEMMA InitTypeOK == Init => TypeOK /\ SendInv
<1> SUFFICES ASSUME Init PROVE TypeOK /\ SendInv
  OBVIOUS
<1>1. setup \in [build : {"i386", "x86_64"}, cpu : Cpus] /\ RealBsp \in Cpus
  BY DEF Init, RealBsp
<1>2. <<>> \in Seq({"INIT", "SIPI"})
  OBVIOUS
<1>3. ipis \in [Cpus -> Seq({"INIT", "SIPI"})]
  BY <1>2 DEF Init
<1>4. ap \in [Cpus -> {"boot", "waiting", "init", "reset", "lost"} \cup Running]
  BY DEF Init
<1>5. i \in 1 .. Len(CpuList) + 1 /\ round \in 1 .. Rounds
  BY CpuFacts, SmpAssumption DEF Init
<1> QED
  BY <1>1, <1>3, <1>4, <1>5 DEF Init, TypeOK, SendInv

LEMMA NextTypeOK ==
  ASSUME TypeOK, SendInv, [Next]_vars
  PROVE  TypeOK' /\ SendInv'
<1> USE CpuFacts, SmpAssumption, SetupStays
<1>1. CASE CopyTrampoline \/ Finish
  BY <1>1 DEF CopyTrampoline, Finish, machine, TypeOK, SendInv
<1>8. CASE SetCr3
  <2>1. 1 \in 1 .. Len(CpuList) + 1
    OBVIOUS
  <2> QED
    BY <1>8, <2>1 DEF SetCr3, machine, TypeOK, SendInv
<1>9. CASE SkipSelf
  <2>1. i \in 1 .. Len(CpuList) + 1 /\ i <= Len(CpuList) /\ i' = i + 1
    BY <1>9 DEF SkipSelf, TypeOK
  <2>2. i' \in 1 .. Len(CpuList) + 1
    BY <2>1
  <2> QED
    BY <1>9, <2>2 DEF SkipSelf, machine, TypeOK, SendInv
<1>2. CASE NextRequest \/ EnterKernel
  BY <1>2, SMTT(30) DEF NextRequest, EnterKernel, machine, TypeOK, SendInv
<1>3. CASE SendInit \/ SendSipi \/ SendSecondSipi
  <2>1. ipis' \in [Cpus -> Seq(Kinds)]
    <3>1. PICK kind \in Kinds :
            ipis' = [ipis EXCEPT ![CpuList[i]] = Append(@, kind)]
      BY <1>3, SendFacts
    <3>2. ipis \in [Cpus -> Seq(Kinds)]
      BY DEF TypeOK, Kinds
    <3>3. CpuList[i] \in Cpus
      BY <1>3, SendFacts
    <3>4. Append(ipis[CpuList[i]], kind) \in Seq(Kinds)
      BY <3>2, <3>3, QueueFacts
    <3> QED
      BY <3>1, <3>2, <3>3, <3>4
  <2>2. i' \in 1 .. Len(CpuList) + 1 /\ icr_high' \in Cpus
    <3>1. i \in 1 .. Len(CpuList) /\ i' \in {i, i + 1}
      BY <1>3, SendFacts
    <3>2. icr_high' = CpuList[i] /\ CpuList[i] \in Cpus
      BY <1>3, SendFacts
    <3> QED
      BY <3>1, <3>2
  <2>3. SendInv'
    <3>1. i <= Len(CpuList) /\ CpuList[i] # ReportedBsp
      BY <1>3, SendFacts
    <3>2. bsp' # "loop" => i' = i
      BY <1>3, SendFacts
    <3> QED
      BY <3>1, <3>2 DEF SendInv
  <2> QED
    BY <1>3, <2>1, <2>2, <2>3, SendFacts DEF machine, TypeOK, Kinds
<1>4. ASSUME NEW c \in Cpus, SetGoto(c)
      PROVE  TypeOK' /\ SendInv'
  BY <1>4 DEF SetGoto, TypeOK, SendInv
<1>5. ASSUME NEW c \in Cpus, Hardware(c)
      PROVE  TypeOK' /\ SendInv'
  <2>1. ipis' \in [Cpus -> Seq(Kinds)]
    <3>1. ipis \in [Cpus -> Seq(Kinds)]
      BY DEF TypeOK, Kinds
    <3>2. \/ ipis' = ipis
          \/ ipis[c] # <<>> /\ ipis' = [ipis EXCEPT ![c] = Tail(@)]
      BY <1>5 DEF Hardware, TakeInit, InitDone, TakeSipi, loader
    <3>3. ipis[c] # <<>> => Tail(ipis[c]) \in Seq(Kinds)
      <4>1. ipis[c] \in Seq(Kinds) /\ "INIT" \in Kinds
        BY <3>1 DEF Kinds
      <4> QED
        BY <4>1, QueueFacts
    <3> QED
      BY <3>1, <3>2, <3>3
  <2>2. ap' \in [Cpus -> {"boot", "waiting", "init", "reset", "lost"} \cup Running]
    <3>1. ap \in [Cpus -> {"boot", "waiting", "init", "reset", "lost"} \cup Running]
      BY DEF TypeOK
    <3>2. \E s \in {"waiting", "init", "reset", "lost", "real", ap[c]} :
            ap' = [ap EXCEPT ![c] = s]
      BY <1>5 DEF Hardware, TakeInit, InitDone, TakeSipi
    <3> QED
      BY <3>1, <3>2 DEF Running
  <2> QED
    BY <1>5, <2>1, <2>2 DEF Hardware, TakeInit, InitDone, TakeSipi, loader,
                            TypeOK, SendInv, Kinds
<1>6. ASSUME NEW c \in Cpus, Trampoline(c)
      PROVE  TypeOK' /\ SendInv'
  <2>1. ap' \in [Cpus -> {"boot", "waiting", "init", "reset", "lost"} \cup Running]
    <3>1. ap \in [Cpus -> {"boot", "waiting", "init", "reset", "lost"} \cup Running]
      BY DEF TypeOK
    <3>2. \E s \in {"protected", "paged", "parked", "lost"} : ap' = [ap EXCEPT ![c] = s]
      BY <1>6 DEF Trampoline, EnterProtected, LoadCr3, Park, Step
    <3> QED
      BY <3>1, <3>2 DEF Running
  <2>2. cr3' \in [Cpus -> {"none", "old", "pml4"}]
    BY <1>6 DEF Trampoline, EnterProtected, LoadCr3, Park, TypeOK
  <2>3. UNCHANGED <<loader, ipis>>
    BY <1>6 DEF Trampoline, EnterProtected, LoadCr3, Park
  <2> QED
    BY <2>1, <2>2, <2>3 DEF loader, TypeOK, SendInv
<1>7. CASE UNCHANGED vars
  BY <1>7 DEF vars, TypeOK, SendInv
<1> QED
  BY <1>1, <1>2, <1>3, <1>4, <1>5, <1>6, <1>7, <1>8, <1>9 DEF Next, Bsp, Quiet

LEMMA TypeAndIndex == Spec => [](TypeOK /\ SendInv)
  BY InitTypeOK, NextTypeOK, PTL DEF Spec

\* Every reachable state of the start-up is well typed.
THEOREM SmpTypeCorrect == Spec => []TypeOK
  BY TypeAndIndex, PTL

-----------------------------------------------------------------------------
(* The shared page *)

PageInv ==
  /\ round > 1 \/ bsp # "copy" => page = "trampoline"
  /\ round > 1 \/ bsp \notin {"copy", "cr3"} => cr3_word = "pml4"
  /\ \A c \in Cpus : ipis[c] # <<>> \/ ap[c] \in Running => PageReady
  /\ ApsRunTrampoline

LEMMA PageStep ==
  ASSUME TypeOK, SendInv, PageInv, [Next]_vars
  PROVE  PageInv'
<1> USE DEF ApsRunTrampoline
<1>1. CASE CopyTrampoline \/ SetCr3 \/ SkipSelf \/ Finish \/ EnterKernel
  BY <1>1 DEF CopyTrampoline, SetCr3, SkipSelf, Finish, EnterKernel, machine,
              PageInv, PageReady, TypeOK
<1>2. CASE NextRequest
  BY <1>2, SmpAssumption DEF NextRequest, machine, PageInv, PageReady, TypeOK
<1>3. CASE SendInit \/ SendSipi \/ SendSecondSipi
  <2>1. PageReady
    BY <1>3, SendFacts DEF PageInv, PageReady
  <2> QED
    BY <1>3, <2>1, SendFacts DEF machine, PageInv, PageReady
<1>4. ASSUME NEW c \in Cpus, SetGoto(c)
      PROVE  PageInv'
  BY <1>4 DEF SetGoto, PageInv, PageReady
<1>5. ASSUME NEW c \in Cpus, Hardware(c)
      PROVE  PageInv'
  <2>1. UNCHANGED <<bsp, round, page, cr3_word, cr3>>
    BY <1>5 DEF Hardware, TakeInit, InitDone, TakeSipi, loader
  <2>2. \A d \in Cpus : d # c => ipis'[d] = ipis[d] /\ ap'[d] = ap[d]
    BY <1>5 DEF Hardware, TakeInit, InitDone, TakeSipi, TypeOK
  <2>3. ipis'[c] # <<>> \/ ap'[c] \in Running => PageReady
    BY <1>5 DEF Hardware, TakeInit, InitDone, TakeSipi, PageInv, TypeOK, Running
  <2>4. ap'[c] # "lost"
    BY <1>5 DEF Hardware, TakeInit, InitDone, TakeSipi, PageInv, PageReady,
                TypeOK
  <2> QED
    BY <2>1, <2>2, <2>3, <2>4 DEF PageInv, PageReady
<1>6. ASSUME NEW c \in Cpus, Trampoline(c)
      PROVE  PageInv'
  <2>1. UNCHANGED <<bsp, round, page, cr3_word, ipis>>
    BY <1>6 DEF Trampoline, EnterProtected, LoadCr3, Park, loader
  <2>2. \A d \in Cpus : d # c => ap'[d] = ap[d] /\ cr3'[d] = cr3[d]
    BY <1>6 DEF Trampoline, EnterProtected, LoadCr3, Park, Step, TypeOK
  <2>3. ap[c] \in Running
    BY <1>6 DEF Trampoline, EnterProtected, LoadCr3, Park, Step, Running
  <2>4. PageReady
    BY <2>3 DEF PageInv
  <2>5. ap'[c] # "lost" /\ cr3'[c] # "old"
    BY <1>6, <2>4 DEF Trampoline, EnterProtected, LoadCr3, Park, Step, PageInv,
                      PageReady, TypeOK
  <2> QED
    BY <2>1, <2>2, <2>4, <2>5 DEF PageInv, PageReady
<1>7. CASE UNCHANGED vars
  BY <1>7 DEF vars, PageInv, PageReady
<1> QED
  BY <1>1, <1>2, <1>3, <1>4, <1>5, <1>6, <1>7 DEF Next, Bsp, Quiet

\* No processor ever runs into old memory or loads a page table that is not
\* the loader's, whatever the interrupts' delays are and however often the
\* kernel asks for its processors.
THEOREM ApsSafe == Spec => []ApsRunTrampoline
<1>1. Init => PageInv
  BY SmpAssumption DEF Init, PageInv, PageReady, ApsRunTrampoline, Running
<1> QED
  BY <1>1, PageStep, TypeAndIndex, PTL DEF Spec, PageInv

-----------------------------------------------------------------------------
(* The boot processor *)

\* The mistaken loader on its way to entry k, its own: it can send itself one
\* INIT and nothing more, and the processors behind it hear nothing.
UpTo(k) ==
  /\ i <= k
  /\ ap[RealBsp] \in {"boot", "reset"}
  /\ ipis[RealBsp] \in {<<>>, <<"INIT">>}
  /\ i = k /\ bsp \in {"sipi", "sipi2"} =>
       bsp = "sipi" /\ (ipis[RealBsp] # <<>> \/ ap[RealBsp] = "reset")
  /\ i < k \/ bsp \notin {"sipi", "sipi2"} => ipis[RealBsp] = <<>>
  /\ \A m \in 1 .. Len(CpuList) :
       m > k => ipis[CpuList[m]] = <<>> /\ ap[CpuList[m]] = "waiting"

MistakenInv ==
  Mistaken /\ DelayCovers =>
    /\ round = 1 /\ bsp \notin {"finished", "kernel"}
    /\ \A k \in 1 .. Len(CpuList) : CpuList[k] = RealBsp => UpTo(k)

SparedInv == ~Mistaken => Alive /\ ipis[RealBsp] = <<>>

LEMMA MachineFacts ==
  ASSUME TypeOK
  PROVE  /\ RealBsp \in Cpus
         /\ Mistaken => ReportedBsp # RealBsp
         /\ ~Mistaken => ReportedBsp = RealBsp
  BY DEF TypeOK, RealBsp, ReportedBsp, Mistaken

\* A loader that knows its processor never sends itself anything.
LEMMA SparedStep ==
  ASSUME TypeOK, SendInv, SparedInv, [Next]_vars
  PROVE  SparedInv'
<1> SUFFICES ASSUME ~Mistaken PROVE (Alive /\ ipis[RealBsp] = <<>>)'
  BY SetupStays DEF SparedInv
<1>0. /\ RealBsp \in Cpus /\ ReportedBsp = RealBsp /\ RealBsp' = RealBsp
      /\ ap[RealBsp] = "boot" /\ ipis[RealBsp] = <<>>
  BY MachineFacts, SetupStays DEF SparedInv, Alive
<1>1. CASE SendInit \/ SendSipi \/ SendSecondSipi
  BY <1>0, <1>1, SendFacts DEF TypeOK, machine, Alive
<1>2. ASSUME NEW c \in Cpus, Hardware(c) \/ Trampoline(c)
      PROVE  (Alive /\ ipis[RealBsp] = <<>>)'
  <2>1. c # RealBsp
    BY <1>0, <1>2 DEF Hardware, TakeInit, InitDone, TakeSipi, Trampoline,
                      EnterProtected, LoadCr3, Park, Step
  <2> QED
    BY <1>0, <1>2, <2>1 DEF Hardware, TakeInit, InitDone, TakeSipi, Trampoline,
                            EnterProtected, LoadCr3, Park, Step, TypeOK, Alive
<1>3. CASE UNCHANGED <<ap, ipis>>
  BY <1>0, <1>3 DEF Alive
<1> QED
  BY <1>1, <1>2, <1>3
     DEF Next, Bsp, Quiet, CopyTrampoline, SetCr3, SkipSelf, Finish,
         NextRequest, EnterKernel, SetGoto, machine, vars

\* The loop never gets past the entry of its own processor.
LEMMA MistakenStep ==
  ASSUME TypeOK, SendInv, MistakenInv, [Next]_vars
  PROVE  MistakenInv'
<1> SUFFICES ASSUME Mistaken, DelayCovers,
                    NEW k \in 1 .. Len(CpuList), CpuList[k] = RealBsp
             PROVE  (round = 1 /\ bsp \notin {"finished", "kernel"} /\ UpTo(k))'
  <2>1. \E k \in 1 .. Len(CpuList) : CpuList[k] = RealBsp
    BY MachineFacts, CpuFacts
  <2> QED
    BY <2>1, SetupStays DEF MistakenInv
<1>0. /\ round = 1 /\ bsp \notin {"finished", "kernel"} /\ UpTo(k)
      /\ RealBsp' = RealBsp /\ RealBsp \in Cpus /\ ReportedBsp # RealBsp
      /\ i \in Nat /\ Len(CpuList) \in Nat /\ k \in Nat
  <2>1. round = 1 /\ bsp \notin {"finished", "kernel"} /\ UpTo(k)
    BY DEF MistakenInv
  <2>2. RealBsp' = RealBsp /\ RealBsp \in Cpus /\ ReportedBsp # RealBsp
    BY MachineFacts, SetupStays
  <2>3. i \in 1 .. Len(CpuList) + 1 /\ Len(CpuList) \in Nat
    BY CpuFacts DEF TypeOK
  <2> QED
    BY <2>1, <2>2, <2>3
<1>1. CASE CopyTrampoline
  BY <1>0, <1>1 DEF CopyTrampoline, machine, UpTo
<1>2. CASE SetCr3
  BY <1>0, <1>2 DEF SetCr3, machine, UpTo
<1>3. CASE SkipSelf
  <2>1. i # k /\ i' = i + 1 /\ i <= k
    BY <1>0, <1>3 DEF SkipSelf, UpTo
  <2> QED
    BY <1>0, <1>3, <2>1 DEF SkipSelf, machine, UpTo
<1>4. CASE SendInit \/ SendSipi \/ SendSecondSipi
  <2>1. /\ i \in 1 .. Len(CpuList) /\ CpuList[i] \in Cpus
        /\ UNCHANGED <<round, ap>> /\ ap[RealBsp] = "boot"
        /\ bsp' \in {"sipi", "sipi2", "loop"}
    BY <1>4, SendFacts DEF SendInit, SendSipi, SendSecondSipi, Send, machine, Alive
  <2>2. ipis \in [Cpus -> Seq(Kinds)]
    BY DEF TypeOK, Kinds
  <2>3. \A c \in Cpus : c # CpuList[i] => ipis'[c] = ipis[c]
    BY <1>4, <2>2, SendFacts
  <2>4. \A m \in 1 .. Len(CpuList) : m > k =>
          /\ CpuList[m] \in Cpus /\ CpuList[m] # CpuList[i]
          /\ ipis[CpuList[m]] = <<>> /\ ap[CpuList[m]] = "waiting"
    BY <1>0, <2>1, CpuFacts DEF UpTo
  <2>5. CASE i = k
    <3>1. SendInit
      BY <1>0, <1>4, <2>1, <2>5 DEF SendSipi, SendSecondSipi, Delayed, UpTo
    <3>2. /\ bsp = "loop" /\ bsp' = "sipi" /\ i' = i
          /\ ipis' = [ipis EXCEPT ![RealBsp] = Append(@, "INIT")]
      BY <2>5, <3>1 DEF SendInit, Send
    <3>3. ipis[RealBsp] = <<>>
      BY <1>0, <3>2 DEF UpTo
    <3>4. ipis'[RealBsp] = <<"INIT">> /\ <<"INIT">> # <<>>
      BY <1>0, <2>2, <3>2, <3>3
    <3> QED
      BY <1>0, <2>1, <2>3, <2>4, <2>5, <3>2, <3>4 DEF UpTo
  <2>6. CASE i # k
    <3>1. i < k /\ CpuList[i] # RealBsp
      BY <1>0, <2>1, <2>6, CpuFacts DEF UpTo
    <3>2. i' \in {i, i + 1} /\ (bsp' # "loop" => i' = i)
      BY <1>4, SendFacts
    <3>3. ipis'[RealBsp] = <<>>
      BY <1>0, <2>3, <3>1 DEF UpTo
    <3> QED
      BY <1>0, <2>1, <2>3, <2>4, <3>1, <3>2, <3>3 DEF UpTo
  <2> QED
    BY <2>5, <2>6
<1>5. CASE Finish \/ NextRequest \/ EnterKernel \/ \E c \in Cpus : SetGoto(c)
  BY <1>0, <1>5 DEF Finish, NextRequest, EnterKernel, SetGoto, UpTo
<1>6. ASSUME NEW c \in Cpus, Hardware(c) \/ Trampoline(c)
      PROVE  (round = 1 /\ bsp \notin {"finished", "kernel"} /\ UpTo(k))'
  <2>1. UNCHANGED <<bsp, i, round>>
    BY <1>6 DEF Hardware, TakeInit, InitDone, TakeSipi, Trampoline, EnterProtected,
                LoadCr3, Park, loader
  <2>2. \A d \in Cpus : d # c => ipis'[d] = ipis[d] /\ ap'[d] = ap[d]
    BY <1>6 DEF Hardware, TakeInit, InitDone, TakeSipi, Trampoline, EnterProtected,
                LoadCr3, Park, Step, TypeOK
  <2>3. ipis[c] # <<>> \/ ap[c] \in {"init", "real", "protected", "paged"}
    BY <1>6 DEF Hardware, TakeInit, InitDone, TakeSipi, Trampoline, EnterProtected,
                LoadCr3, Park, Step
  <2>4. \A m \in 1 .. Len(CpuList) : m > k => CpuList[m] \in Cpus /\ CpuList[m] # c
    BY <1>0, <2>3, CpuFacts DEF UpTo
  <2>5. CASE c # RealBsp
    BY <1>0, <2>1, <2>2, <2>4, <2>5 DEF UpTo
  <2>6. CASE c = RealBsp
    <3>1. ipis[c] = <<"INIT">>
      BY <1>0, <2>3, <2>6 DEF UpTo
    <3>2. Head(ipis[c]) = "INIT" /\ Tail(ipis[c]) = <<>>
      BY <3>1
    <3>3. TakeInit(c)
      BY <1>0, <1>6, <2>6, <3>2 DEF Hardware, InitDone, TakeSipi, Trampoline,
                EnterProtected, LoadCr3, Park, Step, UpTo
    <3>4. ap'[c] = "reset" /\ ipis'[c] = <<>>
      BY <2>6, <3>2, <3>3 DEF TakeInit, TypeOK
    <3> QED
      BY <1>0, <2>1, <2>2, <2>4, <2>6, <3>1, <3>4 DEF UpTo
  <2> QED
    BY <2>5, <2>6
<1>7. CASE UNCHANGED vars
  BY <1>0, <1>7 DEF vars, UpTo
<1> QED
  BY <1>1, <1>2, <1>3, <1>4, <1>5, <1>6, <1>7 DEF Next, Bsp, Quiet

\* BootProcessorFate, the hazard of a build that never asks which processor runs
\* it: for every table of processors, whichever of them is the boot processor and
\* however interrupts are delayed, only the 32-bit loader and only with an id
\* other than 0 resets itself; it then answers no SMP request and starts none but
\* the processors before itself.
THEOREM BootProcessorFateHolds == Spec => []BootProcessorFate
<1>1. Init => SparedInv /\ MistakenInv
  <2> SUFFICES ASSUME Init PROVE SparedInv /\ MistakenInv
    OBVIOUS
  <2>1. RealBsp \in Cpus /\ ap[RealBsp] = "boot" /\ ipis[RealBsp] = <<>>
    BY DEF Init, RealBsp
  <2>2. \A k \in 1 .. Len(CpuList) : CpuList[k] = RealBsp => UpTo(k)
    BY <2>1, CpuFacts DEF Init, UpTo
  <2> QED
    BY <2>1, <2>2 DEF Init, SparedInv, MistakenInv, Alive
<1>2. TypeOK /\ SparedInv /\ MistakenInv => BootProcessorFate
  <2> SUFFICES ASSUME TypeOK, SparedInv, MistakenInv PROVE BootProcessorFate
    OBVIOUS
  <2>1. ASSUME Mistaken, DelayCovers, NEW k \in DOMAIN CpuList,
               ap[CpuList[k]] \in Running
        PROVE  \E m \in DOMAIN CpuList : m > k /\ CpuList[m] = RealBsp
    <3>0. DOMAIN CpuList = 1 .. Len(CpuList) /\ Len(CpuList) \in Nat
      BY SmpAssumption
    <3>1. PICK m \in 1 .. Len(CpuList) : CpuList[m] = RealBsp
      BY MachineFacts, CpuFacts
    <3>2. UpTo(m)
      BY <2>1, <3>1 DEF MistakenInv
    <3>3. k # m /\ ~(k > m)
      BY <2>1, <3>0, <3>1, <3>2 DEF UpTo, Running
    <3> QED
      BY <3>0, <3>1, <3>3
  <2> QED
    BY <2>1 DEF BootProcessorFate, SparedInv, MistakenInv
<1> QED
  BY <1>1, <1>2, SparedStep, MistakenStep, TypeAndIndex, PTL DEF Spec
=============================================================================
