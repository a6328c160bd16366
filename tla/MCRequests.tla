----------------------------- MODULE MCRequests -----------------------------
(***************************************************************************)
(* Instances of Requests: kernels put together from markers, requests of   *)
(* every kind, headers the loader does not know and ordinary words, in a   *)
(* window of 18 words with memory behind it.                               *)
(***************************************************************************)
EXTENDS Requests, SequencesExt

Req(kind) == <<Magic0, Magic1, Id0, kind, 0>>
Start == <<Start0, Start1>>
End == <<End0, End1>>

\* Requests of every kind; the base revision carries a sixth word.
KnownBlocks ==
  {Req(kind) : kind \in RequestIds \ {REV}} \cup
  {Req(REV) \o <<r>> : r \in {0, 1}}

\* An id of another protocol, another first id word, half a magic, a lone
\* half marker.
Other == -30
OddBlocks ==
  {Req(Other), <<Magic0, Magic1, Other, FB, 0>>, <<Magic0>>, <<Start0>>,
   <<End0>>}

Layouts ==
  \* a section with two requests, in every order
  {<<Start, a, b, End>> : a, b \in KnownBlocks}
  \* unknown things before, between and after
  \cup {<<Start, a, o, End>> : a \in {Req(FB), Req(SMP)}, o \in OddBlocks}
  \cup {<<o, Start, a, End>> : a \in {Req(KFILE), Req(RSDP)}, o \in OddBlocks}
  \* markers in any order around requests, missing ones, empty sections
  \cup {<<a, b, c, d>> :
          a, b, c, d \in {Start, End, Req(FB), <<1>>}}
  \cup {<<a, b, c, d, e>> :
          a, b, c, d, e \in {Start, End, <<1>>}}

\* n ordinary words and a request, no markers.
Alone(n) == <<[k \in 1 .. n |-> 1], Req(HHDM)>>

Fill(blocks) ==
  LET words == FlattenSeq(blocks)
  IN [w \in Words |-> IF w < Len(words) THEN words[w + 1] ELSE 0]

\* A kernel that declares one request and no markers.
UnmarkedImages == {Fill(Alone(n)) : n \in 0 .. KernelWords - 6}

MCImages ==
  {Fill(l) : l \in {m \in Layouts : Len(FlattenSeq(m)) <= KernelWords}} \cup
  UnmarkedImages

\* Sizes on the BIOS path, where stage2 is compiled for i386.
MCSizeOf == [kind \in RequestIds |->
  IF kind = FB THEN 24
  ELSE IF kind = MMAP THEN 12
  ELSE IF kind \in {SMP, EXEC} THEN 16 ELSE 8]

MCPayload == [kind \in RequestIds |-> IF kind = PAGING THEN 0 ELSE 100 - kind]
=============================================================================
