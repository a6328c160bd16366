-------------------------------- MODULE MCSmp -------------------------------
(***************************************************************************)
(* Instances of Smp: three processors in an order that is not sorted.      *)
(***************************************************************************)
EXTENDS Smp

MCCpuList == <<1, 0, 2>>
=============================================================================
