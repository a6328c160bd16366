------------------------------ MODULE Handover ------------------------------
(***************************************************************************)
(* What the request protocol promises, without markers, loops or memory: a *)
(* set of open requests is answered one by one, and the kernel is entered  *)
(* only when none is open.  A boot that is refused never enters it.        *)
(* Requests implements this specification (requests_handle in              *)
(* src/common/lib/requests.c).                                             *)
(***************************************************************************)
CONSTANT Slots    \* where a request may stand

VARIABLES phase, open

vars == <<phase, open>>

Init ==
  /\ phase = "answering"
  /\ open \in SUBSET Slots

\* One request is answered, whichever the loader comes to.
Answer ==
  /\ phase = "answering"
  /\ \E r \in open : open' = open \ {r}
  /\ UNCHANGED phase

Enter ==
  /\ phase = "answering" /\ open = {}
  /\ phase' = "entered"
  /\ UNCHANGED open

\* A request that stays open, or an answer the kernel cannot live with.
Refuse ==
  /\ phase = "answering"
  /\ phase' = "refused"
  /\ \/ open # {} /\ UNCHANGED open
     \/ \E r \in open : open' = open \ {r}

Next == Answer \/ Enter \/ Refuse

Spec == Init /\ [][Next]_vars /\ WF_vars(Next)
=============================================================================
