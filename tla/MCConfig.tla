------------------------------ MODULE MCConfig ------------------------------
(***************************************************************************)
(* Instances of Config: every file of up to four of these lines, and of    *)
(* six headers and kernels; the list has room for two entries.             *)
(***************************************************************************)
EXTENDS Config
McLines ==
  {[kind |-> "header", name |-> "first"], [kind |-> "header", name |-> "second"],
   [kind |-> "setting", key |-> "KERNEL_PATH", value |-> "kernel.elf"],
   [kind |-> "setting", key |-> "KERNEL_PATH", value |-> "rescue.elf"],
   [kind |-> "setting", key |-> "CMDLINE", value |-> "verbose"],
   [kind |-> "setting", key |-> "TIMEOUT", value |-> "3"],
   [kind |-> "setting", key |-> "BACKGROUND_IMAGE", value |-> "background.bmp"],
   [kind |-> "other"]}
McKernelLines ==
  {l \in McLines : \/ l.kind = "header"
                   \/ l.kind = "setting" /\ l.key = "KERNEL_PATH"}
McFiles == UNION {[1 .. n -> McLines] : n \in 0 .. 4} \cup [1 .. 6 -> McKernelLines]
=============================================================================
