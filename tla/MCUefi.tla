------------------------------- MODULE MCUefi -------------------------------
(***************************************************************************)
(* Instances of Uefi: seven pages, of which page 0 takes the responses and *)
(* pages 1 and 2 the kernel; the loader's image is the last one.           *)
(***************************************************************************)
EXTENDS Uefi

McKernel(size, s) == [size |-> size, segments |-> s]
McSegment(p, o, f, m) == [paddr |-> p, offset |-> o, filesz |-> f, memsz |-> m]
McOneSegment == McKernel(2, <<McSegment(1, 1, 1, 2)>>)

McFree == [p \in Pages |-> IF p = Top - 1 THEN "loader_code" ELSE "conventional"]
McDriverTypes == {"boot_data", "runtime_data"}
McTypes ==
  {McFree,
   [McFree EXCEPT ![0] = "boot_data", ![4] = "runtime_data"],
   [McFree EXCEPT ![1] = "acpi_nvs", ![5] = "boot_code"],
   [McFree EXCEPT ![0] = "reserved", ![2] = "boot_data", ![3] = "mmio"],
   [McFree EXCEPT ![4] = "loader_data"],
   [p \in Pages |-> IF p \in {3, 5} THEN "conventional" ELSE "loader_code"],
   [p \in Pages |-> "loader_code"]}

McMode(a, d, w) == [answers |-> a, drawable |-> d, wanted |-> w]
McMachine ==
  [type |-> McFree, attr |-> [p \in Pages |-> IF p < 4 THEN {} ELSE {"XP"}],
   key_on_small |-> TRUE, modes |-> <<McMode(TRUE, TRUE, TRUE)>>, mode |-> 1,
   disk |-> TRUE, dtb |-> TRUE, conf |-> 1, image |-> 1, kernel |-> McOneSegment]

\* Every memory, one of them with a firmware that gives no key; and one without
\* graphics.
McKeyless ==
  {[McMachine EXCEPT !.type = [McFree EXCEPT ![1] = "acpi_nvs", ![5] = "boot_code"],
                     !.key_on_small = FALSE]}
McMemories == McKeyless \cup {[McMachine EXCEPT !.type = t] : t \in McTypes \ {McFree}}
McPoor ==
  {McMachine,
   [McMachine EXCEPT !.type = [McFree EXCEPT ![3] = "mmio"], !.modes = <<>>, !.mode = 0]}

\* Every list of up to three modes, of which any is set; the rest is cut short.
McGraphics ==
  UNION {{[McMachine EXCEPT !.type = [p \in Pages |-> "loader_code"], !.disk = FALSE,
                            !.modes = g, !.mode = m] :
            g \in [1 .. n -> [answers : BOOLEAN, drawable : BOOLEAN, wanted : BOOLEAN]],
            m \in 1 .. n} : n \in 1 .. 3}

\* Kernels of several segments and sizes, the last one longer than its pool.
McKernels ==
  {[McMachine EXCEPT !.kernel = k] :
     k \in {McKernel(2, <<McSegment(1, 0, 1, 1), McSegment(2, 1, 1, 2)>>),
            McKernel(2, <<McSegment(2, 1, 0, 1), McSegment(1, 0, 2, 2)>>),
            McKernel(0, <<>>),
            McKernel(3, <<McSegment(1, 1, 2, 2)>>)}}

McMachines == McMemories \cup McPoor \cup McGraphics \cup McKernels
=============================================================================
