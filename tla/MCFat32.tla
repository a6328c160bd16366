------------------------------ MODULE MCFat32 -------------------------------
(***************************************************************************)
(* Instances of Fat32.  A FAT sector has three entries, so that chains of  *)
(* the six clusters 2..7 cross FAT sectors; a sector has two bytes, a run  *)
(* at most four sectors, a short name two characters and an extension one. *)
(***************************************************************************)
EXTENDS Fat32, SequencesExt

McRoot == <<2, 7>>
McName(a, b, c) == <<a, b, c>>

\* Every way a file of one to three clusters can lie on the free clusters.
McChains == {x \in UNION {[1 .. n -> 3 .. 6] : n \in 1 .. 3} : IsInjective(x)}

McFat(chains) ==
  [c \in 0 .. 8 |->
     LET at == {<<x, k>> \in chains \X (1 .. 4) :
                  k \in DOMAIN x /\ x[k] = c}
         x == CHOOSE y \in at : TRUE
     IN IF at = {} THEN 0
        ELSE IF x[2] = Len(x[1]) THEN EndMark ELSE x[1][x[2] + 1]]

McEnd == [first |-> "end", name |-> McName(" ", " ", " "), cluster |-> 0, size |-> 0]
McUsed(name, c, size) ==
  [first |-> "used", name |-> name, cluster |-> c, size |-> size]
McDeleted(name) == [McUsed(name, 6, 1) EXCEPT !.first = "deleted"]

McVolume(spc, chains, dir) ==
  [superfloppy |-> FALSE, start |-> 5,
   partitions |-> <<[type |-> "other", lba |-> 3], [type |-> "fat32", lba |-> 5],
                    [type |-> "fat32", lba |-> 9]>>,
   reserved_sectors |-> 1, fat_count |-> 2, sectors_per_fat |-> 3,
   sectors_per_cluster |-> spc, chains |-> chains, root |-> McRoot,
   fat |-> McFat(chains), dir |-> dir]

McTarget == McName("A", "B", "C")
McKernel == McName("B", "A", " ")

\* Volumes for reading: every chain, every size that needs all its clusters,
\* one and two sectors to a cluster, the entry in the second directory cluster.
McReadVolumes ==
  UNION {{LET chains == {McRoot, x}
              pad == [k \in 1 .. 2 * spc |-> McDeleted(McKernel)]
              rest == [k \in 1 .. 2 * spc - 1 |-> McEnd]
          IN McVolume(spc, chains,
               pad \o <<McUsed(McKernel, x[1],
                               (Len(x) - 1) * spc * SectorBytes + b)>> \o rest) :
            x \in McChains, b \in 1 .. spc * SectorBytes} : spc \in {1, 2}}

\* Volumes for searching: every directory of up to three entries, in two clusters.
McEntries ==
  {McUsed(McTarget, 3, 2), McUsed(McName("A", "~", "C"), 4, 2),
   McUsed(McName("A", " ", "C"), 5, 1), McUsed(McKernel, 6, 1),
   McDeleted(McTarget), McEnd}

\* Unused entries are at the end, as a file system leaves them.
McEndLast(dir) ==
  /\ dir[4] = McEnd
  /\ \A k \in 1 .. 3 : dir[k].first = "end" => dir[k + 1].first = "end"

McDirVolumes(dirs) ==
  {McVolume(1, {McRoot, <<3>>, <<4>>, <<5>>, <<6>>}, dir) : dir \in dirs}

McSearchVolumes == McDirVolumes({d \in [1 .. 4 -> McEntries] : McEndLast(d)})

\* A volume without partition table, cluster 2 right behind one table.
McFloppy ==
  {[McVolume(1, {McRoot, <<3, 4>>},
             <<McUsed(McKernel, 3, 4), McEnd, McEnd, McEnd>>)
     EXCEPT !.superfloppy = TRUE, !.start = 0, !.fat_count = 1]}

McAllVolumes == McReadVolumes \cup McFloppy \cup McSearchVolumes
McAllNames ==
  {<<"a", "b", ".", "c">>, <<"a", ".", "c">>, <<"b", "A">>, <<"a", "b", "a", ".", "c", "c">>}
=============================================================================
