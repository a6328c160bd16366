---------------------------- MODULE Fat32Proofs ----------------------------
(***************************************************************************)
(* Proofs about the FAT32 reader, for every volume, file name and number   *)
(* of calls, and whichever requests to the disk fail.                      *)
(***************************************************************************)
EXTENDS Fat32, TLAPS, SequenceTheorems, FiniteSetTheorems,
        WellFoundedInduction

-----------------------------------------------------------------------------
(* Division, as sectors, clusters and sizes are counted with.              *)

LEMMA TimesMonotone ==
  ASSUME NEW a \in Nat, NEW b \in Nat, NEW c \in Nat, a <= b
  PROVE  a * c <= b * c
<1>1. PICK d \in Nat : b = a + d
  <2>1. b - a \in Nat /\ b = a + (b - a)
    OBVIOUS
  <2> QED
    BY <2>1
<1>2. b * c = a * c + d * c /\ a * c \in Nat /\ d * c \in Nat
  BY <1>1
<1> QED
  BY <1>2

LEMMA TimesAdd ==
  ASSUME NEW a \in Nat, NEW b \in Nat, NEW c \in Nat
  PROVE  (a + b) * c = a * c + b * c
  OBVIOUS

\* The quotient and the remainder, and that they are the only ones.
LEMMA DivMod ==
  ASSUME NEW S \in Nat \ {0}, NEW x \in Nat
  PROVE  /\ x \div S \in Nat /\ x % S \in 0 .. S - 1
         /\ x = S * (x \div S) + (x % S)
  OBVIOUS

LEMMA DivModUnique ==
  ASSUME NEW S \in Nat \ {0}, NEW y \in Nat, NEW r \in 0 .. S - 1
  PROVE  (S * y + r) \div S = y /\ (S * y + r) % S = r
<1> DEFINE x == S * y + r
           q == x \div S
           t == x % S
<1>1. x \in Nat /\ q \in Nat /\ t \in 0 .. S - 1 /\ x = S * q + t
  BY DivMod
<1> HIDE DEF q, t
<1>2. S * y + r = S * q + t
  BY <1>1
<1> HIDE DEF x
<1>3. ~(q < y)
  <2> SUFFICES ASSUME q < y PROVE FALSE
    OBVIOUS
  <2>1. S * (q + 1) <= S * y
    BY <1>1
  <2> QED
    BY <2>1, <1>1, <1>2
<1>4. ~(y < q)
  <2> SUFFICES ASSUME y < q PROVE FALSE
    OBVIOUS
  <2>1. S * (y + 1) <= S * q
    BY <1>1
  <2> QED
    BY <2>1, <1>1, <1>2
<1>5. q = y
  BY <1>1, <1>3, <1>4
<1>6. t = r
  BY <1>1, <1>2, <1>5
<1> QED
  BY <1>5, <1>6 DEF q, t, x

\* d sectors behind the first one of cluster q.
LEMMA DivAdd ==
  ASSUME NEW S \in Nat \ {0}, NEW q \in Nat, NEW d \in Nat
  PROVE  (q * S + d) \div S = q + d \div S /\ (q * S + d) % S = d % S
<1> DEFINE y == d \div S
           r == d % S
<1>1. y \in Nat /\ r \in 0 .. S - 1 /\ d = S * y + r
  BY DivMod
<1> HIDE DEF y, r
<1>2. q * S + d = S * (q + y) + r
  BY <1>1
<1>3. (S * (q + y) + r) \div S = q + y /\ (S * (q + y) + r) % S = r
  BY <1>1, DivModUnique
<1> QED
  BY <1>2, <1>3 DEF y, r

\* Less than n clusters' sectors lie in the first n clusters.
LEMMA DivBound ==
  ASSUME NEW S \in Nat \ {0}, NEW n \in Nat, NEW d \in Nat, d < n * S
  PROVE  d \div S < n
<1> DEFINE y == d \div S
           r == d % S
<1>1. y \in Nat /\ r \in 0 .. S - 1 /\ d = S * y + r
  BY DivMod
<1> HIDE DEF y, r
<1>2. ASSUME n <= y PROVE FALSE
  <2>1. S * n <= S * y
    BY <1>1, <1>2
  <2> QED
    BY <2>1, <1>1
<1> QED
  BY <1>1, <1>2 DEF y

\* The sectors that z bytes need.
LEMMA SectorsNeeded ==
  ASSUME NEW B \in Nat \ {0}, NEW z \in Nat, NEW k \in Nat
  PROVE  /\ (z + B - 1) \div B \in Nat
         /\ k < (z + B - 1) \div B <=> k * B < z
<1> DEFINE q == (z + B - 1) \div B
           t == (z + B - 1) % B
<1>1. q \in Nat /\ t \in 0 .. B - 1 /\ z + B - 1 = B * q + t
  <2>1. z + B - 1 \in Nat
    OBVIOUS
  <2> QED
    BY <2>1, DivMod
<1> HIDE DEF q, t
<1>2. ASSUME k < q PROVE k * B < z
  <2>1. B * (k + 1) <= B * q
    BY <1>1, <1>2
  <2> QED
    BY <2>1, <1>1
<1>3. ASSUME ~(k < q) PROVE ~(k * B < z)
  <2>1. B * q <= B * k
    BY <1>1, <1>3
  <2> QED
    BY <2>1, <1>1
<1> QED
  BY <1>1, <1>2, <1>3 DEF q

-----------------------------------------------------------------------------
(* get_next_cluster keeps the cached sector equal to the disk's.           *)

\* One call: a hit leaves the cache alone, a miss replaces number and contents
\* together, a failed read neither.
LEMMA GetNextClusterCoherent ==
  ASSUME CacheCoherent, vol' = vol,
         NEW c, NEW value, GetNextCluster(c, value)
  PROVE  CacheCoherent'
<1>1. CASE UNCHANGED cache
  BY <1>1 DEF cache, CacheCoherent, FatEntry
<1>2. CASE /\ cached_sec' = c \div EntPerSec
           /\ cache_buf' = [o \in 0 .. EntPerSec - 1 |->
                              FatEntry((c \div EntPerSec) * EntPerSec + o)]
  BY <1>2 DEF CacheCoherent, FatEntry
<1> QED
  BY <1>1, <1>2 DEF GetNextCluster, FatReadFails, cache

\* CacheCoherent, the module's hazard of a stale or half-replaced FAT sector:
\* the statics of get_next_cluster always hold what the disk has under their
\* sector number.
THEOREM CacheSafe == Spec => []CacheCoherent
<1>1. Init => CacheCoherent
  <2> SUFFICES ASSUME Init PROVE CacheCoherent
    OBVIOUS
  <2> QED
    BY DEF Init, CacheCoherent
<1>2. CacheCoherent /\ [Next]_vars => CacheCoherent'
  <2> SUFFICES ASSUME CacheCoherent, [Next]_vars PROVE CacheCoherent'
    OBVIOUS
  <2>1. ASSUME ReadSectorZero \/ ReadVbr \/ ScanSector \/ NotFound \/ ReadFile
               \/ ReadDone \/ TransferRun \/ TransferTail \/ TransferSector
               \/ SlowDone
        PROVE  vol' = vol /\ UNCHANGED cache
    BY <2>1 DEF ReadSectorZero, ReadVbr, ScanSector, NotFound, ReadFile,
       ReadDone, TransferRun, TransferTail, TransferSector, SlowDone, fixed
  <2>2. CASE vol' = vol /\ UNCHANGED cache
    BY <2>2 DEF CacheCoherent, cache, FatEntry
  <2>3. CASE NextDirCluster
    BY <2>3, GetNextClusterCoherent DEF NextDirCluster, fixed
  <2>4. CASE StartRun
    BY <2>4, GetNextClusterCoherent DEF StartRun, fixed
  <2>5. CASE ExtendRun
    BY <2>5, GetNextClusterCoherent DEF ExtendRun, fixed
  <2>6. CASE \E f \in Filenames : FindFile(f)
    BY <2>6, <2>2 DEF FindFile, fixed
  <2>7. CASE UNCHANGED vars
    BY <2>7, <2>2 DEF vars, fixed
  <2> QED
    BY <2>1, <2>2, <2>3, <2>4, <2>5, <2>6, <2>7 DEF Next, Working, Done
<1> QED
  BY <1>1, <1>2, PTL DEF Spec

-----------------------------------------------------------------------------
(* Types, and the volume. *)

TypeInv ==
  /\ pc \in {"init", "read_vbr", "halted", "idle", "dir", "found", "read",
             "run", "slow"}
  /\ vol \in Volumes
  /\ pc \in {"init", "read_vbr"} => calls = 0
  /\ pc \notin {"init", "halted"} => partition_lba = vol.start
  /\ calls \in Nat /\ s \in Nat /\ out_size \in Nat
  /\ remaining \in Nat /\ out \in Nat /\ cluster_count \in Nat
  /\ DOMAIN buffer = 0 .. MaxSectors - 1

LEMMA VolumeFacts ==
  ASSUME vol \in Volumes
  PROVE  /\ vol.start \in Nat /\ vol.reserved_sectors \in Nat \ {0}
         /\ vol.fat_count \in Nat \ {0} /\ vol.sectors_per_fat \in Nat \ {0}
         /\ Spc \in Nat \ {0} /\ DataStart \in Nat
         /\ vol.start + vol.reserved_sectors + vol.sectors_per_fat <= DataStart
<1>1. WellFormed(vol)
  BY FatAssumption
<1>2. /\ vol.start \in Nat /\ vol.reserved_sectors \in Nat \ {0}
      /\ vol.fat_count \in Nat \ {0} /\ vol.sectors_per_fat \in Nat \ {0}
      /\ Spc \in Nat \ {0}
  BY <1>1 DEF WellFormed, Spc
<1>3. vol.sectors_per_fat <= vol.fat_count * vol.sectors_per_fat
  BY <1>2
<1> QED
  BY <1>2, <1>3 DEF DataStart

\* A chain's clusters, and what the table says of each.
LEMMA ChainFacts ==
  ASSUME vol \in Volumes, NEW chain \in vol.chains
  PROVE  /\ Len(chain) \in Nat \ {0} /\ DOMAIN chain = 1 .. Len(chain)
         /\ \A k \in 1 .. Len(chain) :
              /\ chain[k] \in Nat /\ 2 <= chain[k] /\ chain[k] + 2 <= EndMark
              /\ chain[k] < vol.sectors_per_fat * EntPerSec
              /\ FatEntry(chain[k]) =
                   IF k = Len(chain) THEN EndMark ELSE chain[k + 1]
<1>1. WellFormed(vol)
  BY FatAssumption
<1>2. chain \in Seq(2 .. EndMark - 2) /\ chain # <<>>
  BY <1>1 DEF WellFormed
<1>3. Len(chain) \in Nat \ {0} /\ DOMAIN chain = 1 .. Len(chain)
  BY <1>2, EmptySeq
<1>4. \A k \in 1 .. Len(chain) :
        chain[k] \in Nat /\ 2 <= chain[k] /\ chain[k] + 2 <= EndMark
  BY <1>2, FatAssumption
<1>5. \A k \in DOMAIN chain :
        /\ chain[k] \in DOMAIN vol.fat
        /\ chain[k] < vol.sectors_per_fat * EntPerSec
        /\ vol.fat[chain[k]] = IF k = Len(chain) THEN EndMark ELSE chain[k + 1]
  BY <1>1 DEF WellFormed
<1> QED
  BY <1>3, <1>4, <1>5 DEF FatEntry

\* A cluster is in one chain, once.
LEMMA ChainsDisjoint ==
  ASSUME vol \in Volumes, NEW x \in vol.chains, NEW y \in vol.chains,
         NEW j \in 1 .. Len(x), NEW k \in 1 .. Len(y), x[j] = y[k]
  PROVE  x = y /\ j = k
<1>1. WellFormed(vol)
  BY FatAssumption
<1>2. j \in DOMAIN x /\ k \in DOMAIN y
  BY ChainFacts
<1> QED
  BY <1>1, <1>2 DEF WellFormed

\* The partition that fat32_init takes.
FirstAt(k) ==
  /\ vol.partitions[k].type = "fat32"
  /\ \A j \in 1 .. k - 1 : vol.partitions[j].type # "fat32"

LEMMA PartitionFound ==
  ASSUME vol \in Volumes, ~vol.superfloppy
  PROVE  FirstPartition = vol.start
<1>1. WellFormed(vol)
  BY FatAssumption
<1>2. PICK k \in DOMAIN vol.partitions :
        /\ vol.partitions[k] = [type |-> "fat32", lba |-> vol.start]
        /\ \A j \in 1 .. k - 1 : vol.partitions[j].type # "fat32"
  BY <1>1, Zenon DEF WellFormed
<1>3. DOMAIN vol.partitions = 1 .. Len(vol.partitions) /\ Len(vol.partitions) \in Nat
  BY SMTT(30), <1>1 DEF WellFormed
<1>4. FirstAt(k) /\ \A j \in DOMAIN vol.partitions : FirstAt(j) => j = k
  BY <1>2, <1>3 DEF FirstAt
<1>5. (CHOOSE j \in DOMAIN vol.partitions : FirstAt(j)) = k
  BY <1>2, <1>4
<1>6. FirstPartition =
        vol.partitions[CHOOSE j \in DOMAIN vol.partitions : FirstAt(j)].lba
  BY DEF FirstPartition, FirstAt
<1>7. vol.partitions[k].lba = vol.start
  BY <1>2
<1> QED
  BY <1>5, <1>6, <1>7

\* n neighbouring clusters from c on are those behind the first p of a chain.
SideBySide(chain, p, n, c) ==
  p + n <= Len(chain) /\ \A j \in 0 .. n - 1 : chain[p + 1 + j] = c + j

LEMMA DataSector ==
  ASSUME NEW lba, lba - DataStart \in Nat
  PROVE  SectorAt(lba) =
           <<"data", (lba - DataStart) \div Spc + 2, (lba - DataStart) % Spc>>
  BY DEF SectorAt

\* A sector of a run of neighbouring clusters is the chain's sector.
LEMMA RunOfChain ==
  ASSUME vol \in Volumes, partition_lba = vol.start,
         NEW chain \in vol.chains, NEW p \in Nat, NEW n \in Nat, NEW c \in Nat,
         SideBySide(chain, p, n, c),
         NEW d \in Nat, d < n * Spc
  PROVE  /\ SectorAt(ClusterLba(c) + d) =
              <<"data", chain[(p * Spc + d) \div Spc + 1], (p * Spc + d) % Spc>>
         /\ (p * Spc + d) \div Spc + 1 \in DOMAIN chain
<1> DEFINE y == d \div Spc
           r == d % Spc
           data == (c - 2) * Spc + d
<1>1. /\ Spc \in Nat \ {0} /\ DataStart \in Nat
      /\ ClusterLba(c) = DataStart + (c - 2) * Spc
  BY VolumeFacts DEF ClusterLba, DataStart
<1>2. /\ y \in Nat /\ y < n
      /\ (p * Spc + d) \div Spc = p + y /\ (p * Spc + d) % Spc = r
  BY <1>1, DivMod, DivAdd, DivBound
<1>3. /\ p + y + 1 \in 1 .. Len(chain) /\ Len(chain) \in Nat
      /\ DOMAIN chain = 1 .. Len(chain)
  BY <1>2, ChainFacts DEF SideBySide
<1>4. chain[p + y + 1] = c + y
  BY SMTT(30), <1>2 DEF SideBySide
<1>5. c - 2 \in Nat
  <2>1. 0 \in 0 .. n - 1 /\ p + 1 \in 1 .. Len(chain)
    BY <1>2, <1>3
  <2>2. \A j \in 0 .. n - 1 : j = 0 => chain[p + 1] = c
    BY DEF SideBySide
  <2> QED
    BY <2>1, <2>2, ChainFacts
<1>6. data \div Spc = c - 2 + y /\ data % Spc = r
  BY <1>1, <1>5, DivAdd
<1>7. data \in Nat
  BY <1>1, <1>5
<1> HIDE DEF y, r
<1>8. (ClusterLba(c) + d) - DataStart = data
  BY <1>1, <1>5
<1> HIDE DEF data
<1>9. SectorAt(ClusterLba(c) + d) = <<"data", data \div Spc + 2, data % Spc>>
  BY <1>7, <1>8, DataSector
<1>10. data \div Spc + 2 = c + y
  BY <1>2, <1>5, <1>6
<1> QED
  BY <1>2, <1>3, <1>4, <1>6, <1>9, <1>10

LEMMA ClusterOfChain ==
  ASSUME vol \in Volumes, partition_lba = vol.start, NEW chain \in vol.chains,
         NEW k \in 1 .. Len(chain), NEW d \in Nat, d < Spc
  PROVE  SectorAt(ClusterLba(chain[k]) + d) = <<"data", chain[k], d>>
<1>1. Len(chain) \in Nat /\ Spc \in Nat \ {0} /\ chain[k] \in Nat
  BY ChainFacts, VolumeFacts
<1>2. PICK p \in Nat : k = p + 1
  <2>1. k - 1 \in Nat /\ k = (k - 1) + 1
    BY <1>1
  <2> QED
    BY <2>1
<1>3. PICK n \in Nat : n = 1
  OBVIOUS
<1>4. PICK c \in Nat : c = chain[k]
  BY <1>1
<1>5. SideBySide(chain, p, n, c) /\ d < n * Spc
  BY <1>1, <1>2, <1>3, <1>4 DEF SideBySide
<1>6. SectorAt(ClusterLba(c) + d) =
        <<"data", chain[(p * Spc + d) \div Spc + 1], (p * Spc + d) % Spc>>
  BY <1>5, RunOfChain
<1>7. d \div Spc = 0 /\ d % Spc = d
  <2>1. Spc * 0 + d = d /\ d \in 0 .. Spc - 1
    BY <1>1
  <2> QED
    BY <1>1, <2>1, DivModUnique
<1>8. (p * Spc + d) \div Spc = p + d \div Spc /\ (p * Spc + d) % Spc = d % Spc
  BY <1>1, DivAdd
<1> QED
  BY <1>2, <1>4, <1>6, <1>7, <1>8

-----------------------------------------------------------------------------
(* The directory. *)

\* Where the search stands: at a cluster of the directory, or at its end.
DirInv ==
  pc = "dir" =>
    /\ s <= Spc
    /\ \/ cluster \in {EndMark, NoCluster}
       \/ \E k \in DOMAIN vol.root : cluster = vol.root[k]

\* A size and the first cluster it was found with.
Fits(c, size) ==
  size > 0 => \E chain \in vol.chains :
                chain[1] = c /\ size <= Len(chain) * Spc * SectorBytes

\* The least of some numbers.
LEMMA Least ==
  ASSUME NEW T \in SUBSET Nat, T # {}
  PROVE  \E x \in T : \A y \in T : x <= y
<1> DEFINE R == OpToRel(<, Nat)
<1>1. IsWellFoundedOn(R, Nat)
  BY NatLessThanWellFounded
<1>2. \A x, y \in Nat : x < y => <<x, y>> \in R
  BY DEF OpToRel
<1> HIDE DEF R
<1>3. PICK x \in T : \A y \in T : ~ (<<y, x>> \in R)
  BY <1>1, WFMin
<1>4. ASSUME NEW y \in T PROVE x <= y
  <2>1. x \in Nat /\ y \in Nat
    OBVIOUS
  <2>2. ~ (y < x)
    BY <1>2, <1>3, <2>1
  <2> QED
    BY <2>1, <2>2
<1> QED
  BY <1>4

\* The entries of one sector are DirPerSec in a row of the directory's.
LEMMA EntriesOfSector ==
  ASSUME vol \in Volumes, NEW k \in 1 .. Len(vol.root), NEW sec \in Nat,
         sec < Spc
  PROVE  /\ DOMAIN EntriesAt(vol.root[k], sec) = 1 .. DirPerSec
         /\ \A i \in 1 .. DirPerSec :
              /\ ((k - 1) * Spc + sec) * DirPerSec + i \in DOMAIN vol.dir
              /\ EntriesAt(vol.root[k], sec)[i] =
                   vol.dir[((k - 1) * Spc + sec) * DirPerSec + i]
<1> DEFINE row == (k - 1) * Spc + sec
<1>1. WellFormed(vol) /\ DirPerSec \in Nat \ {0}
  BY FatAssumption
<1>2. /\ vol.root \in vol.chains /\ Spc \in Nat \ {0}
      /\ Len(vol.dir) = Len(vol.root) * Spc * DirPerSec
      /\ DOMAIN vol.dir = 1 .. Len(vol.dir)
  BY <1>1 DEF WellFormed, Spc
<1>3. Len(vol.root) \in Nat /\ DOMAIN vol.root = 1 .. Len(vol.root)
  BY <1>2, ChainFacts
<1>4. (CHOOSE j \in DOMAIN vol.root : vol.root[j] = vol.root[k]) = k
  <2>1. \A j \in DOMAIN vol.root : vol.root[j] = vol.root[k] => j = k
    BY <1>2, <1>3, ChainsDisjoint
  <2> QED
    BY <1>3, <2>1
<1>5. row \in Nat /\ row + 1 <= Len(vol.root) * Spc
  <2>1. (k - 1) * Spc + Spc = k * Spc /\ k * Spc <= Len(vol.root) * Spc
    BY <1>2, <1>3
  <2> QED
    BY <1>2, <1>3, <2>1
<1>6. EntriesAt(vol.root[k], sec) =
        SubSeq(vol.dir, row * DirPerSec + 1, row * DirPerSec + DirPerSec)
  BY <1>4 DEF EntriesAt
<1> HIDE DEF row
<1>7. row * DirPerSec \in Nat /\ row * DirPerSec + DirPerSec <= Len(vol.dir)
  <2>1. (row + 1) * DirPerSec <= (Len(vol.root) * Spc) * DirPerSec
    BY <1>1, <1>2, <1>3, <1>5
  <2> QED
    BY <1>1, <1>2, <1>5, <2>1
<1>8. EntriesAt(vol.root[k], sec) =
        [i \in 1 .. DirPerSec |-> vol.dir[row * DirPerSec + i]]
  BY SMTT(30), <1>1, <1>6, <1>7
<1>9. \A i \in 1 .. DirPerSec : row * DirPerSec + i \in DOMAIN vol.dir
  BY <1>1, <1>2, <1>7
<1>10. \A i \in 1 .. DirPerSec :
         EntriesAt(vol.root[k], sec)[i] = vol.dir[row * DirPerSec + i]
  BY <1>8
<1> QED
  BY <1>8, <1>9, <1>10 DEF row

LEMMA DirCluster ==
  ASSUME TypeInv, DirInv, pc = "dir", cluster < EndMark
  PROVE  \E k \in 1 .. Len(vol.root) : cluster = vol.root[k]
<1>1. WellFormed(vol)
  BY FatAssumption DEF TypeInv
<1>2. DOMAIN vol.root = 1 .. Len(vol.root)
  BY <1>1, ChainFacts DEF TypeInv, WellFormed
<1>3. cluster \notin {EndMark, NoCluster}
  BY FatAssumption
<1> QED
  BY <1>2, <1>3 DEF DirInv

\* Entry n of the directory is in use and has the name asked for.
Hit(n) == Live(vol.dir[n]) /\ Matches(vol.dir[n].name, Tag(asked))

\* A look at one sector: the directory's next DirPerSec entries behind the
\* first row ones, and the first hit among them.
LEMMA ScanRow ==
  ASSUME TypeInv, ScanSector, NEW k \in 1 .. Len(vol.root),
         cluster = vol.root[k],
         NEW row, row = ((k - 1) * Spc + s) * DirPerSec
  PROVE  \/ /\ pc' = "dir" /\ s' = s + 1 /\ UNCHANGED <<out_cluster, out_size>>
            /\ \A i \in 1 .. DirPerSec : ~Hit(row + i)
         \/ /\ pc' = "found" /\ s' = s
            /\ \E i \in 1 .. DirPerSec :
                 /\ Hit(row + i) /\ \A j \in 1 .. DirPerSec : Hit(row + j) => i <= j
                 /\ row + i \in DOMAIN vol.dir
                 /\ out_cluster' = vol.dir[row + i].cluster
                 /\ out_size' = vol.dir[row + i].size
         \/ /\ pc' = "idle" /\ result' = -1
            /\ UNCHANGED <<s, out_cluster, out_size>>
<1>1. WellFormed(vol) /\ DirPerSec \in Nat \ {0}
  BY FatAssumption DEF TypeInv
<1>2. vol.root \in vol.chains /\ Spc \in Nat \ {0}
  BY <1>1 DEF WellFormed, Spc
<1>3. s \in Nat /\ s < Spc /\ partition_lba = vol.start /\ vol \in Volumes
  BY <1>2 DEF ScanSector, TypeInv
<1>4. SectorAt(ClusterLba(cluster) + s) = <<"data", cluster, s>>
  BY <1>2, <1>3, ClusterOfChain
<1>5. \E j \in DOMAIN vol.root : vol.root[j] = cluster
  BY <1>2, <1>3, ChainFacts
<1> DEFINE found == SectorAt(ClusterLba(cluster) + s)
           entries == IF \E j \in DOMAIN vol.root : vol.root[j] = found[2]
                        THEN EntriesAt(found[2], found[3]) ELSE <<>>
           hits == {i \in DOMAIN entries :
                      Live(entries[i]) /\ Matches(entries[i].name, Tag(asked))}
           first == CHOOSE j \in hits : \A i \in hits : j <= i
<1>6. entries = EntriesAt(vol.root[k], s)
  BY <1>4, <1>5
<1>7. \/ /\ hits = {} /\ s' = s + 1 /\ pc' = pc
         /\ UNCHANGED <<out_cluster, out_size>>
      \/ /\ hits # {} /\ pc' = "found" /\ s' = s
         /\ out_cluster' = entries[first].cluster
         /\ out_size' = entries[first].size
      \/ /\ pc' = "idle" /\ result' = -1
         /\ UNCHANGED <<s, out_cluster, out_size>>
  BY DEF ScanSector, Return
<1>8. pc = "dir"
  BY DEF ScanSector
<1> HIDE DEF entries, found
<1>9. /\ DOMAIN entries = 1 .. DirPerSec
      /\ \A i \in 1 .. DirPerSec :
           row + i \in DOMAIN vol.dir /\ entries[i] = vol.dir[row + i]
  BY <1>3, <1>6, EntriesOfSector
<1>10. \A i : i \in hits <=> i \in 1 .. DirPerSec /\ Hit(row + i)
  BY <1>9 DEF Hit
<1>11. ASSUME hits # {}
       PROVE  first \in hits /\ \A i \in hits : first <= i
  <2>1. hits \in SUBSET Nat
    BY <1>9
  <2> HIDE DEF hits
  <2>2. \E j \in hits : \A i \in hits : j <= i
    BY <1>11, <2>1, Least
  <2> QED
    BY <2>2
<1> HIDE DEF hits, first
<1>12. CASE /\ hits # {} /\ pc' = "found" /\ s' = s
            /\ out_cluster' = entries[first].cluster
            /\ out_size' = entries[first].size
  BY <1>9, <1>10, <1>11, <1>12
<1> QED
  BY <1>7, <1>8, <1>10, <1>12

\* A hit is an entry in use, and the sectors are looked at in order.
LEMMA ScanFinds ==
  ASSUME TypeInv, DirInv, ScanSector
  PROVE  /\ pc' \in {"dir", "found", "idle"} /\ s' \in Nat
         /\ pc' = "dir" => s' = s + 1
         /\ pc' # "found" => UNCHANGED <<out_cluster, out_size>>
         /\ pc' = "found" =>
              out_size' \in Nat /\ Fits(out_cluster', out_size')
<1>1. PICK k \in 1 .. Len(vol.root) : cluster = vol.root[k]
  BY DirCluster DEF ScanSector
<1> DEFINE row == ((k - 1) * Spc + s) * DirPerSec
<1>2. \/ pc' = "dir" /\ s' = s + 1 /\ UNCHANGED <<out_cluster, out_size>>
      \/ /\ pc' = "found" /\ s' = s
         /\ \E i \in 1 .. DirPerSec :
              /\ Hit(row + i) /\ row + i \in DOMAIN vol.dir
              /\ out_cluster' = vol.dir[row + i].cluster
              /\ out_size' = vol.dir[row + i].size
      \/ pc' = "idle" /\ UNCHANGED <<s, out_cluster, out_size>>
  BY <1>1, ScanRow
<1>3. s \in Nat /\ WellFormed(vol)
  BY FatAssumption DEF TypeInv
<1>4. ASSUME NEW n \in DOMAIN vol.dir, Hit(n)
      PROVE  vol.dir[n].size \in Nat /\ Fits(vol.dir[n].cluster, vol.dir[n].size)
  <2>1. vol.dir[n].first = "used"
    BY <1>4 DEF Hit, Live
  <2>2. vol.dir[n].size \in Nat
    <3> DEFINE Slot == [first : {"used", "deleted", "end"}, cluster : Nat,
                        name : [1 .. NameLen + ExtLen -> STRING], size : Nat]
    <3>1. vol.dir \in Seq(Slot)
      BY <1>3 DEF WellFormed
    <3>2. \A e \in Slot : e.size \in Nat
      OBVIOUS
    <3> HIDE DEF Slot
    <3>3. vol.dir[n] \in Slot
      BY <3>1
    <3> QED
      BY <3>2, <3>3
  <2>3. Fits(vol.dir[n].cluster, vol.dir[n].size)
    BY <1>3, <2>1 DEF WellFormed, Fits, Spc
  <2> QED
    BY <2>2, <2>3
<1> HIDE DEF row
<1>5. pc' = "found" => out_size' \in Nat /\ Fits(out_cluster', out_size')
  <2>1. CASE pc' = "found"
    <3>1. PICK i \in 1 .. DirPerSec :
            /\ Hit(row + i) /\ row + i \in DOMAIN vol.dir
            /\ out_cluster' = vol.dir[row + i].cluster
            /\ out_size' = vol.dir[row + i].size
      BY <1>2, <2>1
    <3> QED
      BY <1>4, <3>1
  <2> QED
    BY <2>1
<1> QED
  BY <1>2, <1>3, <1>5

LEMMA VolumeStays ==
  ASSUME [Next]_vars
  PROVE  vol' = vol
  BY DEF Next, Working, Done, vars, fixed, FindFile, ReadSectorZero, ReadVbr,
     ScanSector, NextDirCluster, NotFound, ReadFile, StartRun, ReadDone,
     ExtendRun, TransferRun, TransferTail, TransferSector, SlowDone

-----------------------------------------------------------------------------
(* The chain's next cluster. *)

NextOf(chain, k) == IF k = Len(chain) THEN EndMark ELSE chain[k + 1]

\* One sector in front of the data area.
BeforeData(request) ==
  \E lba \in Nat : request = [lba |-> lba, count |-> 1] /\ lba < DataStart

\* get_next_cluster returns the successor or, after a failed read, its error.
LEMMA NextInChain ==
  ASSUME TypeInv, partition_lba = vol.start, CacheCoherent,
         NEW chain \in vol.chains, NEW k \in 1 .. Len(chain),
         NEW c, c = chain[k], NEW value, GetNextCluster(c, value)
  PROVE  /\ \/ value = NextOf(chain, k) /\ fat_failed' = fat_failed
            \/ value = NoCluster /\ fat_failed' = TRUE
         /\ io' = io \/ BeforeData(io')
<1> DEFINE sec == c \div EntPerSec
<1> USE FatAssumption
<1>1. /\ c \in Nat /\ FatEntry(c) = NextOf(chain, k)
      /\ c < vol.sectors_per_fat * EntPerSec
  BY ChainFacts DEF TypeInv, NextOf
<1>2. /\ vol.sectors_per_fat \in Nat /\ vol.start \in Nat
      /\ vol.reserved_sectors \in Nat /\ DataStart \in Nat
      /\ vol.start + vol.reserved_sectors + vol.sectors_per_fat <= DataStart
  BY VolumeFacts DEF TypeInv
<1>3. /\ sec \in Nat /\ c % EntPerSec \in 0 .. EntPerSec - 1
      /\ c = EntPerSec * sec + (c % EntPerSec)
  BY <1>1, DivMod
<1>4. sec < vol.sectors_per_fat
  BY <1>1, <1>2, DivBound
<1> DEFINE o == c % EntPerSec
<1> HIDE DEF sec, o
<1>5. c = sec * EntPerSec + o
  BY <1>3 DEF o
<1>6. CASE cached_sec = sec /\ value = cache_buf[o]
           /\ UNCHANGED <<io, fat_failed>>
  <2>1. cache_buf[o] = FatEntry(sec * EntPerSec + o)
    BY SMTT(30), <1>3, <1>6 DEF CacheCoherent, NoSector, o
  <2> QED
    BY <1>1, <1>5, <1>6, <2>1
<1>7. CASE /\ Request(partition_lba + vol.reserved_sectors + sec, 1)
           /\ \/ value = FatEntry(c) /\ UNCHANGED fat_failed
              \/ value = NoCluster /\ fat_failed' = TRUE
  <2> DEFINE lba == partition_lba + vol.reserved_sectors + sec
  <2>1. lba \in Nat /\ lba < DataStart
    <3>1. sec \in Nat
      BY <1>3
    <3> QED
      BY <1>2, <1>4, <3>1
  <2>2. io' = [lba |-> lba, count |-> 1]
    BY <1>7 DEF Request
  <2>3. BeforeData(io')
    BY <2>1, <2>2 DEF BeforeData
  <2> QED
    BY <1>1, <1>7, <2>3
<1> QED
  BY <1>6, <1>7 DEF GetNextCluster, cache, sec, o


\* A step keeps the types; the search needs DirInv for it.
LEMMA TypeStep ==
  ASSUME TypeInv, DirInv, [Next]_vars
  PROVE  TypeInv'
<1> USE FatAssumption
<1>1. Spc \in Nat \ {0} /\ SectorBytes \in Nat \ {0}
  BY VolumeFacts DEF TypeInv
<1>2. CASE ReadSectorZero
  <2>1. ~vol.superfloppy => FirstPartition = vol.start
    BY PartitionFound DEF TypeInv
  <2>2. vol.superfloppy => vol.start = 0
    BY DEF TypeInv, WellFormed
  <2>3. UNCHANGED <<vol, calls, s, out_size, remaining, out, cluster_count, buffer>>
    BY <1>2 DEF ReadSectorZero, dirvars, run, sink
  <2> QED
    BY <1>2, <2>1, <2>2, <2>3 DEF ReadSectorZero, Return, TypeInv
<1>3. CASE ReadVbr
  BY <1>3 DEF ReadVbr, Return, TypeInv, dirvars, run, sink
<1>4. CASE \E f \in Filenames : FindFile(f)
  BY <1>4 DEF FindFile, TypeInv, fixed, run, sink
<1>5. CASE ScanSector
  <2>1. out_size' \in Nat /\ s' \in Nat /\ pc' \in {"dir", "found", "idle"}
    BY <1>5, ScanFinds DEF TypeInv
  <2> QED
    BY <1>5, <2>1 DEF ScanSector, TypeInv, fixed, run, sink
<1>6. CASE NextDirCluster
  BY <1>6 DEF NextDirCluster, TypeInv, fixed, run, sink
<1>7. CASE NotFound
  BY <1>7 DEF NotFound, Return, TypeInv, fixed, dirvars, run, sink
<1>8. CASE ReadFile
  BY <1>8 DEF ReadFile, TypeInv, fixed, dirvars, run, EmptyBuffer
<1>9. CASE StartRun
  BY <1>9 DEF StartRun, TypeInv, fixed, dirvars, sink
<1>10. CASE ReadDone
  BY <1>10 DEF ReadDone, Return, TypeInv, fixed, dirvars, run, sink
<1>11. CASE ExtendRun
  BY <1>11 DEF ExtendRun, TypeInv, fixed, dirvars, sink
<1>12. CASE TransferRun
  <2>1. RunSectors \in Nat /\ RunSectors * SectorBytes \in Nat
    BY <1>1 DEF RunSectors, TypeInv
  <2>2. out' \in Nat /\ remaining' \in Nat
    BY <1>12, <2>1 DEF TransferRun, TypeInv
  <2>3. DOMAIN buffer' = 0 .. MaxSectors - 1
    BY <1>12 DEF TransferRun, Stored
  <2> QED
    BY <1>12, <2>2, <2>3 DEF TransferRun, Return, TypeInv, fixed, dirvars, run
<1>13. CASE TransferTail
  <2>1. DOMAIN buffer' = 0 .. MaxSectors - 1
    BY <1>13 DEF TransferTail, Stored
  <2> QED
    BY <1>13, <2>1 DEF TransferTail, TypeInv, fixed, run
<1>14. CASE TransferSector
  <2>1. DOMAIN buffer' = 0 .. MaxSectors - 1
    BY <1>14 DEF TransferSector, Stored, TypeInv
  <2> QED
    BY <1>14, <2>1 DEF TransferSector, Return, TypeInv, fixed, run
<1>15. CASE SlowDone
  BY <1>15 DEF SlowDone, TypeInv, fixed, dirvars, run, sink
<1>16. CASE UNCHANGED vars
  BY <1>16 DEF vars, TypeInv, fixed, dirvars, run, sink
<1> QED
  BY <1>2, <1>3, <1>4, <1>5, <1>6, <1>7, <1>8, <1>9, <1>10, <1>11, <1>12,
     <1>13, <1>14, <1>15, <1>16 DEF Next, Working, Done

LEMMA DirStep ==
  ASSUME TypeInv, DirInv, CacheCoherent, [Next]_vars
  PROVE  DirInv'
<1> USE FatAssumption
<1>1. vol' = vol /\ Spc \in Nat \ {0} /\ vol.root \in vol.chains
  <2>1. vol' = vol
    BY VolumeStays
  <2> QED
    BY <2>1, VolumeFacts DEF TypeInv, WellFormed
<1>2. CASE pc' = "dir" /\ pc = "dir" /\ UNCHANGED <<s, cluster>>
  BY <1>1, <1>2 DEF DirInv, Spc
<1>3. CASE \E f \in Filenames : FindFile(f)
  <2>1. 1 \in DOMAIN vol.root
    BY <1>1, ChainFacts DEF TypeInv
  <2> QED
    BY <1>1, <1>3, <2>1 DEF FindFile, DirInv, Spc
<1>4. CASE ScanSector
  <2>1. pc' # "dir" \/ s' = s + 1
    BY <1>4, ScanFinds
  <2>2. s < Spc /\ cluster' = cluster /\ pc = "dir"
    BY <1>4 DEF ScanSector
  <2> QED
    BY <1>1, <2>1, <2>2 DEF DirInv, TypeInv, Spc
<1>5. CASE NextDirCluster
  <2>1. PICK k \in 1 .. Len(vol.root) : cluster = vol.root[k]
    BY <1>1, <1>5, DirCluster DEF NextDirCluster
  <2>2. cluster' = NextOf(vol.root, k) \/ cluster' = NoCluster
    <3>1. partition_lba = vol.start /\ GetNextCluster(cluster, cluster')
      BY <1>5 DEF NextDirCluster, TypeInv
    <3>2. \/ cluster' = NextOf(vol.root, k) /\ fat_failed' = fat_failed
          \/ cluster' = NoCluster /\ fat_failed' = TRUE
      BY <1>1, <2>1, <3>1, NextInChain
    <3> QED
      BY <3>2
  <2>3. /\ Len(vol.root) \in Nat /\ DOMAIN vol.root = 1 .. Len(vol.root)
    BY <1>1, ChainFacts DEF TypeInv
  <2>4. \/ cluster' \in {EndMark, NoCluster}
        \/ \E j \in DOMAIN vol.root : cluster' = vol.root[j]
    BY <2>2, <2>3 DEF NextOf
  <2> QED
    BY <1>1, <1>5, <2>4 DEF NextDirCluster, DirInv, Spc
<1>6. CASE pc' # "dir"
  BY <1>6 DEF DirInv
<1>7. \/ pc' # "dir" \/ (pc = "dir" /\ UNCHANGED <<s, cluster>>)
      \/ (\E f \in Filenames : FindFile(f)) \/ ScanSector \/ NextDirCluster
  BY DEF Next, Working, Done, vars, dirvars, ReadSectorZero, ReadVbr, NotFound,
     ReadFile, StartRun, ReadDone, ExtendRun, TransferRun, TransferTail,
     TransferSector, SlowDone, Return
<1> QED
  BY <1>2, <1>3, <1>4, <1>5, <1>6, <1>7

LEMMA TypeInvariant == Spec => [](TypeInv /\ DirInv)
<1>1. Init => TypeInv /\ DirInv
  BY FatAssumption DEF Init, TypeInv, DirInv, EmptyBuffer
<1> QED
  BY <1>1, TypeStep, DirStep, CacheSafe, PTL DEF Spec

-----------------------------------------------------------------------------
(* The file that is read. *)

FileChain == CHOOSE x \in vol.chains : x[1] = out_cluster

\* Everything in the caller's memory belongs there.
InPlace ==
  \A k \in DOMAIN buffer :
    buffer[k] # Unwritten => k < FileSectors /\ buffer[k] = FileSector(k)

\* What was counted off is there.
Written ==
  \A k \in DOMAIN buffer :
    (IF remaining > 0 THEN k < out ELSE k < FileSectors) =>
      buffer[k] # Unwritten

\* c follows the first k clusters of the file, or the table could not be read.
Follows(k, c) ==
  \/ c = NextOf(FileChain, k)
  \/ c = NoCluster /\ fat_failed = TRUE

\* A run: neighbouring clusters of the file behind the first p, not more than
\* one transfer may have, and what comes next.
RunAt(p) ==
  /\ start_cluster \in Nat /\ cluster_count > 0
  /\ SideBySide(FileChain, p, cluster_count, start_cluster)
  /\ cluster_count = 1 \/ RunSectors <= MaxRunSectors
  /\ cluster = start_cluster + cluster_count - 1
  /\ Follows(p + cluster_count, next)
  /\ pc = "run" => remaining > 0 /\ out = p * Spc
  /\ pc = "slow" /\ remaining > 0 =>
       /\ out = p * Spc + s
       /\ remaining + s * SectorBytes < RunSectors * SectorBytes

\* The position in the memory, in the file and in its chain are the same, as
\* long as anything remains to be read.
ReadInv ==
  /\ pc # "found" => InPlace
  /\ pc \in {"found", "read", "run", "slow"} => Fits(out_cluster, out_size)
  /\ pc \in {"read", "run", "slow"} =>
       Written /\ (remaining > 0 => remaining + out * SectorBytes = out_size)
  /\ pc = "read" /\ remaining > 0 =>
       \E p \in Nat : /\ p <= Len(FileChain) /\ out = p * Spc
                      /\ Follows(p, cluster)
  /\ pc \in {"run", "slow"} => \E p \in Nat : RunAt(p)
  /\ ReadComplete

LEMMA FileChainFits ==
  ASSUME vol \in Volumes, Fits(out_cluster, out_size), out_size \in Nat \ {0}
  PROVE  /\ FileChain \in vol.chains /\ FileChain[1] = out_cluster
         /\ out_size <= Len(FileChain) * Spc * SectorBytes
<1>1. PICK x \in vol.chains :
        x[1] = out_cluster /\ out_size <= Len(x) * Spc * SectorBytes
  BY DEF Fits
<1>2. FileChain \in vol.chains /\ FileChain[1] = out_cluster
  BY <1>1 DEF FileChain
<1>3. FileChain = x
  <2>1. 1 \in 1 .. Len(x) /\ 1 \in 1 .. Len(FileChain)
    BY <1>2, ChainFacts
  <2> QED
    BY <1>1, <1>2, <2>1, ChainsDisjoint
<1> QED
  BY <1>1, <1>2, <1>3

\* d sectors into a run is the file's sector d behind those already there.
LEMMA RunOfFile ==
  ASSUME vol \in Volumes, partition_lba = vol.start, FileChain \in vol.chains,
         NEW p \in Nat, NEW n \in Nat, NEW c \in Nat,
         SideBySide(FileChain, p, n, c), NEW d \in Nat, d < n * Spc
  PROVE  SectorAt(ClusterLba(c) + d) = FileSector(p * Spc + d)
<1>1. SectorAt(ClusterLba(c) + d) =
        <<"data", FileChain[(p * Spc + d) \div Spc + 1], (p * Spc + d) % Spc>>
  BY RunOfChain
<1> QED
  BY <1>1 DEF FileSector, FileChain

\* Storing the right sectors keeps the memory right, and puts all of them there.
LEMMA StoredInPlace ==
  ASSUME InPlace, DOMAIN buffer = 0 .. MaxSectors - 1, vol' = vol,
         UNCHANGED <<out_cluster, out_size>>,
         NEW at \in Nat, NEW lba, NEW m \in Nat,
         buffer' = Stored(at, lba, m),
         \A k \in at .. at + m - 1 :
           k < FileSectors /\ SectorAt(lba + k - at) = FileSector(k)
  PROVE  /\ InPlace'
         /\ \A k \in 0 .. MaxSectors - 1 :
              k < at + m /\ (k < at => buffer[k] # Unwritten) =>
                buffer'[k] # Unwritten
<1>1. /\ FileSectors' = FileSectors /\ \A k : FileSector(k)' = FileSector(k)
  BY DEF FileSectors, FileSector, Spc
<1>2. /\ DOMAIN buffer' = 0 .. MaxSectors - 1
      /\ \A k \in 0 .. MaxSectors - 1 :
           buffer'[k] = IF k \in at .. at + m - 1 THEN FileSector(k)
                        ELSE buffer[k]
  BY DEF Stored
<1>3. \A k : FileSector(k) # Unwritten
  BY DEF FileSector, Unwritten
<1>4. InPlace'
  BY <1>1, <1>2 DEF InPlace
<1>5. ASSUME NEW k \in 0 .. MaxSectors - 1, k < at + m,
             k < at => buffer[k] # Unwritten
      PROVE  buffer'[k] # Unwritten
  <2>1. CASE k < at
    BY <1>2, <1>3, <1>5, <2>1
  <2>2. CASE ~(k < at)
    <3>1. k \in at .. at + m - 1
      BY <1>5, <2>2, FatAssumption
    <3> QED
      BY <1>2, <1>3, <3>1
  <2> QED
    BY <2>1, <2>2
<1> QED
  BY <1>4, <1>5

\* While the file is the same, so is all that was said of it.
LEMMA SameFile ==
  ASSUME vol' = vol, UNCHANGED <<out_cluster, out_size>>
  PROVE  /\ FileChain' = FileChain /\ Spc' = Spc /\ FileSectors' = FileSectors
         /\ \A k : FileSector(k)' = FileSector(k)
         /\ Fits(out_cluster, out_size)' <=> Fits(out_cluster, out_size)
  BY DEF FileChain, Spc, FileSectors, FileSector, Fits

\* Steps outside fat32_read_file.
LEMMA OutsideStep ==
  ASSUME TypeInv, DirInv, ReadInv,
         \/ ReadSectorZero \/ ReadVbr \/ ScanSector \/ NextDirCluster
         \/ NotFound \/ \E f \in Filenames : FindFile(f)
  PROVE  ReadInv'
<1>1. CASE ScanSector /\ pc' = "found"
  <2>1. Fits(out_cluster', out_size') /\ vol' = vol
    BY <1>1, ScanFinds DEF ScanSector, fixed
  <2> QED
    BY <1>1, <2>1 DEF ReadInv, ReadComplete, Fits, Spc
<1>2. CASE /\ pc \notin {"found", "read", "run", "slow"}
           /\ pc' \in {"idle", "dir", "halted", "read_vbr"}
           /\ pc' = "idle" => result' = -1 \/ calls' = 0
           /\ UNCHANGED <<vol, out_cluster, out_size, buffer>>
  BY <1>2, SameFile DEF ReadInv, ReadComplete, InPlace
<1>3. CASE ReadSectorZero
  BY <1>2, <1>3 DEF ReadSectorZero, Return, dirvars, sink, TypeInv
<1>4. CASE ReadVbr
  BY <1>2, <1>4 DEF ReadVbr, Return, fixed, dirvars, sink, TypeInv
<1>5. CASE ScanSector /\ pc' # "found"
  <2>1. /\ pc' \in {"dir", "idle"} /\ pc = "dir"
        /\ pc' = "idle" => result' = -1
        /\ UNCHANGED <<vol, out_cluster, out_size, buffer>>
    BY <1>5 DEF ScanSector, Return, fixed, sink
  <2> QED
    BY <1>2, <2>1
<1>6. CASE NextDirCluster
  BY <1>2, <1>6 DEF NextDirCluster, fixed, sink
<1>7. CASE NotFound
  BY <1>2, <1>7 DEF NotFound, Return, fixed, dirvars, sink
<1>8. CASE \E f \in Filenames : FindFile(f)
  BY <1>2, <1>8 DEF FindFile, fixed, sink
<1> QED
  BY <1>1, <1>3, <1>4, <1>5, <1>6, <1>7, <1>8

\* The buffer is new, and the chain's first cluster comes first.
LEMMA ReadFileStep ==
  ASSUME TypeInv, ReadInv, ReadFile
  PROVE  ReadInv'
<1>1. /\ pc = "found" /\ pc' = "read" /\ cluster' = out_cluster
      /\ remaining' = out_size /\ out' = 0 /\ buffer' = EmptyBuffer
      /\ UNCHANGED <<vol, out_cluster, out_size>>
  BY DEF ReadFile, fixed, dirvars
<1>2. Fits(out_cluster, out_size) /\ out_size \in Nat /\ vol \in Volumes
  BY <1>1 DEF ReadInv, TypeInv
<1>3. SectorBytes \in Nat \ {0} /\ Spc \in Nat \ {0}
  BY <1>2, FatAssumption, VolumeFacts
<1>4. InPlace'
  BY <1>1 DEF InPlace, EmptyBuffer
<1>5. Written'
  <2>1. CASE out_size > 0
    BY <1>1, <2>1, FatAssumption DEF Written, EmptyBuffer
  <2>2. CASE out_size = 0
    <3>1. \A k \in Nat : ~(k < FileSectors)
      <4>1. ASSUME NEW k \in Nat
            PROVE  ~(k < (out_size + SectorBytes - 1) \div SectorBytes)
        <5>1. ~(k * SectorBytes < out_size)
          BY <1>3, <2>2
        <5> QED
          BY <1>2, <1>3, <5>1, SectorsNeeded
      <4> QED
        BY <4>1 DEF FileSectors
    <3>2. FileSectors' = FileSectors
      BY <1>1, SameFile
    <3> QED
      BY <1>1, <2>2, <3>1, <3>2, FatAssumption DEF Written, EmptyBuffer
  <2> QED
    BY <1>2, <2>1, <2>2
<1>6. remaining' > 0 => remaining' + out' * SectorBytes = out_size'
  BY <1>1, <1>2, <1>3
<1>7. ASSUME remaining' > 0
      PROVE  \E p \in Nat : /\ p <= Len(FileChain') /\ out' = p * Spc'
                             /\ Follows(p, cluster)'
  <2>1. /\ FileChain \in vol.chains /\ FileChain[1] = out_cluster
        /\ Len(FileChain) \in Nat \ {0}
    BY <1>1, <1>2, <1>7, FileChainFits, ChainFacts
  <2>2. NextOf(FileChain, 0) = out_cluster
    BY <2>1 DEF NextOf
  <2>3. Follows(0, cluster)'
    BY <1>1, <2>2, SameFile DEF Follows
  <2> QED
    BY <1>1, <1>3, <2>1, <2>3, SameFile
<1> QED
  BY <1>1, <1>2, <1>4, <1>5, <1>6, <1>7, SameFile DEF ReadInv, ReadComplete

\* The end of the chain is met before the end of the file only after an error.
LEMMA ReadDoneStep ==
  ASSUME TypeInv, ReadInv, ReadDone
  PROVE  ReadInv'
<1>1. /\ pc = "read" /\ pc' = "idle"
      /\ remaining = 0 \/ cluster >= EndMark
      /\ UNCHANGED <<vol, out_cluster, out_size, buffer, fat_failed>>
  BY DEF ReadDone, Return, fixed, dirvars, sink
<1>2. /\ Fits(out_cluster, out_size) /\ out_size \in Nat /\ vol \in Volumes
      /\ remaining \in Nat /\ out \in Nat /\ InPlace /\ Written
  BY <1>1 DEF ReadInv, TypeInv
<1>3. SectorBytes \in Nat \ {0} /\ Spc \in Nat \ {0} /\ EndMark \in Nat
  BY <1>2, FatAssumption, VolumeFacts
<1>4. ASSUME remaining > 0 PROVE fat_failed = TRUE
  <2>1. PICK p \in Nat : /\ p <= Len(FileChain) /\ out = p * Spc
                         /\ Follows(p, cluster)
    BY <1>1, <1>4 DEF ReadInv
  <2>2. remaining + out * SectorBytes = out_size
    BY <1>1, <1>4 DEF ReadInv
  <2>3. out_size \in Nat \ {0}
    BY <1>2, <1>3, <1>4, <2>2
  <2>4. /\ FileChain \in vol.chains
        /\ out_size <= Len(FileChain) * Spc * SectorBytes
    BY <1>2, <2>3, FileChainFits
  <2>5. p # Len(FileChain)
    <3>1. p = Len(FileChain) => out_size <= out * SectorBytes
      BY <2>1, <2>4
    <3> QED
      BY <1>2, <1>3, <1>4, <2>2, <3>1
  <2>6. p + 1 \in 1 .. Len(FileChain)
    BY <1>2, <2>1, <2>4, <2>5, ChainFacts
  <2>7. FileChain[p + 1] \in Nat /\ FileChain[p + 1] + 2 <= EndMark
    BY <1>2, <2>4, <2>6, ChainFacts
  <2>8. cluster >= EndMark
    BY <1>1, <1>2, <1>4
  <2>9. cluster # FileChain[p + 1]
    BY <1>3, <2>7, <2>8
  <2> QED
    BY <2>1, <2>5, <2>9 DEF Follows, NextOf
<1>5. InPlace'
  BY <1>1, <1>2, SameFile DEF InPlace
<1>6. ReadComplete'
  BY <1>1, <1>2, <1>4, SameFile DEF ReadComplete, Written
<1> QED
  BY <1>1, <1>5, <1>6 DEF ReadInv

\* As long as anything remains, the file has a chain.
LEMMA Reading ==
  ASSUME TypeInv, ReadInv, pc \in {"read", "run", "slow"}, remaining > 0
  PROVE  /\ vol \in Volumes /\ partition_lba = vol.start
         /\ Spc \in Nat \ {0} /\ SectorBytes \in Nat \ {0}
         /\ EndMark \in Nat /\ NoCluster \in Nat /\ NoCluster > EndMark
         /\ remaining + out * SectorBytes = out_size
         /\ FileChain \in vol.chains /\ Len(FileChain) \in Nat \ {0}
         /\ InPlace /\ Written /\ Fits(out_cluster, out_size)
         /\ DOMAIN buffer = 0 .. MaxSectors - 1
<1>1. /\ vol \in Volumes /\ partition_lba = vol.start
      /\ remaining \in Nat /\ out \in Nat /\ out_size \in Nat
      /\ DOMAIN buffer = 0 .. MaxSectors - 1
  BY DEF TypeInv
<1>2. /\ remaining + out * SectorBytes = out_size
      /\ InPlace /\ Written /\ Fits(out_cluster, out_size)
  BY DEF ReadInv
<1>3. Spc \in Nat \ {0} /\ SectorBytes \in Nat \ {0}
  BY <1>1, VolumeFacts, FatAssumption
<1>4. out_size \in Nat \ {0}
  BY <1>1, <1>2, <1>3
<1>5. FileChain \in vol.chains
  BY <1>1, <1>2, <1>4, FileChainFits
<1> QED
  BY <1>1, <1>2, <1>3, <1>5, ChainFacts, FatAssumption

\* Where a cluster that is not the end stands in the file's chain.
LEMMA FollowsInChain ==
  ASSUME vol \in Volumes, FileChain \in vol.chains,
         NEW k \in Nat, k <= Len(FileChain), NEW c, Follows(k, c),
         c < EndMark
  PROVE  k + 1 \in 1 .. Len(FileChain) /\ c = FileChain[k + 1]
<1>1. c # EndMark /\ c # NoCluster
  BY FatAssumption
<1>2. Len(FileChain) \in Nat
  BY ChainFacts
<1> QED
  BY <1>1, <1>2 DEF Follows, NextOf

LEMMA StartRunStep ==
  ASSUME TypeInv, CacheCoherent, ReadInv, StartRun
  PROVE  ReadInv'
<1>1. /\ pc = "read" /\ pc' = "run" /\ remaining > 0 /\ cluster < EndMark
      /\ start_cluster' = cluster /\ cluster_count' = 1 /\ cluster' = cluster
      /\ GetNextCluster(cluster, next')
      /\ UNCHANGED <<vol, out_cluster, out_size, remaining, out, buffer>>
  BY DEF StartRun, fixed, dirvars, sink
<1>2. PICK p \in Nat : /\ p <= Len(FileChain) /\ out = p * Spc
                       /\ Follows(p, cluster)
  BY <1>1 DEF ReadInv
<1>3. /\ vol \in Volumes /\ partition_lba = vol.start
      /\ FileChain \in vol.chains /\ Len(FileChain) \in Nat
      /\ InPlace /\ Written /\ Fits(out_cluster, out_size)
      /\ remaining + out * SectorBytes = out_size
  BY <1>1, Reading
<1>4. p + 1 \in 1 .. Len(FileChain) /\ cluster = FileChain[p + 1]
  BY <1>1, <1>2, <1>3, FollowsInChain
<1>5. cluster \in Nat
  BY <1>3, <1>4, ChainFacts
<1>6. \/ next' = NextOf(FileChain, p + 1) /\ fat_failed' = fat_failed
      \/ next' = NoCluster /\ fat_failed' = TRUE
  BY <1>1, <1>3, <1>4, NextInChain
<1>7. Follows(p + 1, next)'
  BY <1>1, <1>6, SameFile DEF Follows
<1>8. SideBySide(FileChain, p, 1, cluster)
  BY <1>3, <1>4, <1>5 DEF SideBySide
<1>9. RunAt(p)'
  BY <1>1, <1>2, <1>5, <1>7, <1>8, SameFile DEF RunAt
<1>10. InPlace' /\ Written' /\ Fits(out_cluster, out_size)'
  BY <1>1, <1>3, SameFile DEF InPlace, Written
<1> QED
  BY <1>1, <1>3, <1>9, <1>10 DEF ReadInv, ReadComplete

\* A successor that lies behind the run is the file's next cluster.
LEMMA NextOfRun ==
  ASSUME TypeInv, ReadInv, pc = "run", next = cluster + 1,
         NEW p \in Nat, RunAt(p)
  PROVE  /\ next = start_cluster + cluster_count
         /\ p + cluster_count + 1 \in 1 .. Len(FileChain)
         /\ next = FileChain[p + cluster_count + 1]
<1>1. remaining > 0 /\ cluster_count \in Nat \ {0}
  BY DEF RunAt, TypeInv
<1>2. /\ vol \in Volumes /\ FileChain \in vol.chains
      /\ Len(FileChain) \in Nat /\ EndMark \in Nat
  BY <1>1, Reading
<1>3. PICK n \in Nat \ {0} : n = cluster_count
  BY <1>1
<1> DEFINE k == p + n
<1>4. /\ start_cluster \in Nat /\ cluster = start_cluster + n - 1
      /\ k \in 1 .. Len(FileChain) /\ Follows(k, next)
      /\ \A j \in 0 .. n - 1 : FileChain[p + 1 + j] = start_cluster + j
  BY <1>2, <1>3 DEF RunAt, SideBySide
<1>5. next = start_cluster + n
  BY <1>4
<1>6. next < EndMark
  <2>1. PICK j \in 0 .. n - 1 : j = n - 1
    OBVIOUS
  <2>2. p + 1 + j = k
    BY <2>1
  <2>3. FileChain[k] = start_cluster + j
    BY <1>4, <2>2
  <2>4. FileChain[k] \in Nat /\ FileChain[k] + 2 <= EndMark
    BY <1>2, <1>4, ChainFacts
  <2> QED
    BY <1>2, <1>4, <1>5, <2>1, <2>3, <2>4
<1>7. k + 1 \in 1 .. Len(FileChain) /\ next = FileChain[k + 1]
  BY <1>2, <1>4, <1>6, FollowsInChain
<1> QED
  BY <1>3, <1>5, <1>7

\* The next cluster lies behind the run and there is room for it.
LEMMA ExtendRunStep ==
  ASSUME TypeInv, CacheCoherent, ReadInv, ExtendRun
  PROVE  ReadInv'
<1>1. /\ pc = "run" /\ pc' = "run" /\ cluster' = next /\ next = cluster + 1
      /\ (cluster_count + 1) * Spc <= MaxRunSectors
      /\ cluster_count' = cluster_count + 1 /\ start_cluster' = start_cluster
      /\ GetNextCluster(next, next')
      /\ UNCHANGED <<vol, out_cluster, out_size, remaining, out, buffer>>
  BY DEF ExtendRun, RunGrows, fixed, dirvars, sink
<1>2. PICK p \in Nat : RunAt(p)
  BY <1>1 DEF ReadInv
<1>3. remaining > 0 /\ out = p * Spc /\ cluster_count \in Nat \ {0}
  BY <1>1, <1>2 DEF RunAt, TypeInv
<1>4. /\ vol \in Volumes /\ partition_lba = vol.start
      /\ FileChain \in vol.chains /\ Len(FileChain) \in Nat
      /\ EndMark \in Nat /\ NoCluster \in Nat /\ NoCluster > EndMark
      /\ InPlace /\ Written /\ Fits(out_cluster, out_size)
      /\ remaining + out * SectorBytes = out_size
  BY <1>1, <1>3, Reading
<1>5. PICK n \in Nat \ {0} : n = cluster_count
  BY <1>3
<1> DEFINE k == p + n
<1>6. /\ start_cluster \in Nat /\ cluster = start_cluster + n - 1
      /\ k \in 1 .. Len(FileChain) /\ Follows(k, next)
      /\ \A j \in 0 .. n - 1 : FileChain[p + 1 + j] = start_cluster + j
  BY <1>2, <1>4, <1>5 DEF RunAt, SideBySide
<1>7. next = start_cluster + n
  BY <1>1, <1>2, <1>5, NextOfRun
<1>9. k + 1 \in 1 .. Len(FileChain) /\ next = FileChain[k + 1]
  BY <1>1, <1>2, <1>5, NextOfRun
<1>10. \/ next' = NextOf(FileChain, k + 1) /\ fat_failed' = fat_failed
       \/ next' = NoCluster /\ fat_failed' = TRUE
  BY <1>1, <1>4, <1>9, NextInChain
<1>11. Follows(k + 1, next)'
  BY <1>1, <1>10, SameFile DEF Follows
<1>12. SideBySide(FileChain, p, n + 1, start_cluster)
  <2>1. ASSUME NEW j \in 0 .. n, j = n
        PROVE  FileChain[p + 1 + j] = start_cluster + j
    <3>1. p + 1 + j = k + 1
      BY <2>1
    <3> QED
      BY <1>7, <1>9, <2>1, <3>1
  <2>2. \A j \in 0 .. n : j = n \/ j \in 0 .. n - 1
    OBVIOUS
  <2>3. p + (n + 1) <= Len(FileChain) /\ (n + 1) - 1 = n
    BY <1>4, <1>9
  <2> QED
    BY <1>6, <2>1, <2>2, <2>3 DEF SideBySide
<1>13. cluster_count' = n + 1 /\ p + (n + 1) = k + 1
  BY <1>1, <1>5
<1>14. RunSectors' = (n + 1) * Spc /\ (n + 1) * Spc <= MaxRunSectors
  BY <1>1, <1>5, <1>13, SameFile DEF RunSectors
<1>15. cluster' = start_cluster' + cluster_count' - 1
  BY <1>1, <1>6, <1>7, <1>13
<1>16. RunAt(p)'
  <2>1. SideBySide(FileChain, p, cluster_count, start_cluster)'
    BY <1>1, <1>12, <1>13, SameFile DEF SideBySide
  <2>2. Follows(p + cluster_count, next)'
    BY <1>11, <1>13 DEF Follows
  <2>3. out' = p * Spc' /\ remaining' > 0
    BY <1>1, <1>3, SameFile
  <2> QED
    BY <1>1, <1>6, <1>13, <1>14, <1>15, <2>1, <2>2, <2>3 DEF RunAt
<1>17. InPlace' /\ Written' /\ Fits(out_cluster, out_size)'
  BY <1>1, <1>4, SameFile DEF InPlace, Written
<1> QED
  BY <1>1, <1>4, <1>16, <1>17 DEF ReadInv, ReadComplete

\* The next m sectors of a run, as far as the file needs them, belong at the
\* next m places of the memory; base of the run's sectors are there already.
LEMMA SectorsOfRun ==
  ASSUME TypeInv, ReadInv, pc \in {"run", "slow"}, remaining > 0,
         NEW p \in Nat, RunAt(p), NEW base \in Nat, out = p * Spc + base,
         NEW m \in Nat, base + m <= RunSectors,
         \A d \in 0 .. m - 1 : d * SectorBytes < remaining,
         NEW lba, lba = ClusterLba(start_cluster) + base
  PROVE  \A k \in out .. out + m - 1 :
           k < FileSectors /\ SectorAt(lba + k - out) = FileSector(k)
<1>1. /\ vol \in Volumes /\ partition_lba = vol.start
      /\ Spc \in Nat \ {0} /\ SectorBytes \in Nat \ {0}
      /\ remaining + out * SectorBytes = out_size
      /\ FileChain \in vol.chains
  BY Reading
<1>2. /\ out \in Nat /\ remaining \in Nat /\ out_size \in Nat
      /\ cluster_count \in Nat /\ start_cluster \in Nat
      /\ SideBySide(FileChain, p, cluster_count, start_cluster)
  BY DEF RunAt, TypeInv
<1>3. ClusterLba(start_cluster) \in Int
  <2>1. /\ vol.start \in Nat /\ vol.reserved_sectors \in Nat
        /\ vol.fat_count \in Nat /\ vol.sectors_per_fat \in Nat
    BY <1>1, VolumeFacts
  <2> QED
    BY <1>1, <1>2, <2>1 DEF ClusterLba
<1>4. ASSUME NEW k \in out .. out + m - 1
      PROVE  k < FileSectors /\ SectorAt(lba + k - out) = FileSector(k)
  <2>1. PICK d \in 0 .. m - 1 : k = out + d
    <3>1. k - out \in 0 .. m - 1 /\ k = out + (k - out)
      BY <1>2
    <3> QED
      BY <3>1
  <2>2. k < FileSectors
    <3>1. k * SectorBytes = out * SectorBytes + d * SectorBytes
      BY <1>1, <1>2, <2>1
    <3>2. d * SectorBytes < remaining /\ d * SectorBytes \in Nat
      BY <1>1
    <3>3. k * SectorBytes < out_size /\ k \in Nat
      BY <1>1, <1>2, <2>1, <3>1, <3>2
    <3> QED
      BY <1>1, <1>2, <3>3, SectorsNeeded DEF FileSectors
  <2>3. lba + k - out = ClusterLba(start_cluster) + (base + d)
    BY <1>2, <1>3, <2>1
  <2>4. base + d \in Nat /\ base + d < cluster_count * Spc
    BY <1>1, <1>2 DEF RunSectors
  <2>5. k = p * Spc + (base + d)
    BY <1>1, <2>1
  <2>6. SectorAt(ClusterLba(start_cluster) + (base + d)) =
          FileSector(p * Spc + (base + d))
    BY <1>1, <1>2, <2>4, RunOfFile
  <2> QED
    BY <2>2, <2>3, <2>5, <2>6
<1> QED
  BY <1>4

\* u sectors are there, and what is counted off does not go further.
LEMMA WrittenUpTo ==
  ASSUME vol' = vol, UNCHANGED <<out_cluster, out_size>>, out_size \in Nat,
         DOMAIN buffer' = 0 .. MaxSectors - 1,
         NEW u \in Nat, \A k \in 0 .. MaxSectors - 1 :
                          k < u => buffer'[k] # Unwritten,
         remaining' \in Nat, out' \in Nat,
         IF remaining' > 0 THEN out' <= u ELSE out_size <= u * SectorBytes
  PROVE  Written'
<1> USE FatAssumption
<1>1. FileSectors' = FileSectors
  BY SameFile
<1>2. CASE remaining' > 0
  BY <1>2 DEF Written
<1>3. CASE ~(remaining' > 0)
  <2>1. ASSUME NEW k \in 0 .. MaxSectors - 1, k < FileSectors
        PROVE  k < u
    <3>1. k \in Nat /\ k * SectorBytes < out_size
      BY <2>1, SectorsNeeded DEF FileSectors
    <3>2. ~(u <= k)
      <4>1. u <= k => u * SectorBytes <= k * SectorBytes
        BY <3>1
      <4> QED
        BY <1>3, <3>1, <4>1
    <3> QED
      BY <3>1, <3>2
  <2> QED
    BY <1>1, <1>3, <2>1 DEF Written
<1> QED
  BY <1>2, <1>3

LEMMA TransferRunStep ==
  ASSUME TypeInv, TypeInv', ReadInv, TransferRun
  PROVE  ReadInv'
<1>1. /\ pc = "run" /\ remaining >= RunSectors * SectorBytes
      /\ UNCHANGED <<vol, out_cluster, out_size, next, cluster_count,
                     start_cluster, fat_failed>>
  BY DEF TransferRun, fixed, dirvars, run
<1>2. PICK p \in Nat : RunAt(p)
  BY <1>1 DEF ReadInv
<1>3. remaining > 0 /\ out = p * Spc /\ cluster_count \in Nat \ {0}
  BY <1>1, <1>2 DEF RunAt, TypeInv
<1>4. /\ vol \in Volumes /\ Spc \in Nat \ {0} /\ SectorBytes \in Nat \ {0}
      /\ remaining + out * SectorBytes = out_size
      /\ InPlace /\ Written /\ Fits(out_cluster, out_size)
      /\ DOMAIN buffer = 0 .. MaxSectors - 1
      /\ remaining \in Nat /\ out \in Nat /\ out_size \in Nat
      /\ RunSectors \in Nat \ {0} /\ ClusterLba(start_cluster) \in Int
      /\ FileChain \in vol.chains /\ Len(FileChain) \in Nat
  <2>1. /\ vol \in Volumes /\ partition_lba = vol.start
        /\ Spc \in Nat \ {0} /\ SectorBytes \in Nat \ {0}
        /\ remaining + out * SectorBytes = out_size
        /\ InPlace /\ Written /\ Fits(out_cluster, out_size)
        /\ DOMAIN buffer = 0 .. MaxSectors - 1
        /\ FileChain \in vol.chains /\ Len(FileChain) \in Nat
    BY <1>1, <1>3, Reading
  <2>2. /\ vol.start \in Nat /\ vol.reserved_sectors \in Nat
        /\ vol.fat_count \in Nat /\ vol.sectors_per_fat \in Nat
    BY <2>1, VolumeFacts
  <2>3. start_cluster \in Nat
    BY <1>2 DEF RunAt
  <2>4. ClusterLba(start_cluster) \in Int
    BY <2>1, <2>2, <2>3 DEF ClusterLba
  <2>5. RunSectors \in Nat \ {0}
    BY <1>3, <2>1 DEF RunSectors
  <2> QED
    BY <2>1, <2>4, <2>5 DEF TypeInv
<1>5. ASSUME NEW m \in Nat, m <= RunSectors,
             buffer' = Stored(out, ClusterLba(start_cluster), m)
      PROVE  /\ InPlace'
             /\ \A k \in 0 .. MaxSectors - 1 :
                  k < out + m => buffer'[k] # Unwritten
  <2>1. \A d \in 0 .. m - 1 : d * SectorBytes < remaining
    <3>1. ASSUME NEW d \in 0 .. m - 1
          PROVE  d * SectorBytes < remaining
      <4>1. d + 1 \in Nat /\ d \in Nat /\ d + 1 <= RunSectors
        BY <1>4, <1>5
      <4>2. (d + 1) * SectorBytes <= RunSectors * SectorBytes
        BY <1>4, <4>1, TimesMonotone
      <4>3. (d + 1) * SectorBytes = d * SectorBytes + 1 * SectorBytes
        BY <1>4, <4>1, TimesAdd
      <4>4. d * SectorBytes \in Nat /\ RunSectors * SectorBytes \in Nat
        BY <1>4, <4>1
      <4> QED
        BY SMTT(30), <1>1, <1>4, <4>2, <4>3, <4>4
    <3> QED
      BY <3>1
  <2>2. \A k \in out .. out + m - 1 :
          /\ k < FileSectors
          /\ SectorAt(ClusterLba(start_cluster) + k - out) = FileSector(k)
    <3>1. /\ out = p * Spc + 0 /\ 0 + m <= RunSectors
          /\ ClusterLba(start_cluster) = ClusterLba(start_cluster) + 0
      BY <1>3, <1>4, <1>5
    <3>2. 0 \in Nat /\ pc \in {"run", "slow"}
      BY <1>1
    <3> QED
      BY <1>2, <1>3, <2>1, <3>1, <3>2, SectorsOfRun
  <2>3. \A k \in 0 .. MaxSectors - 1 : k < out => buffer[k] # Unwritten
    BY <1>3, <1>4 DEF Written
  <2> QED
    BY <1>1, <1>4, <1>5, <2>2, <2>3, StoredInPlace
<1>6. Fits(out_cluster, out_size)'
  BY <1>1, <1>4, SameFile
<1>7. CASE /\ buffer' = Stored(out, ClusterLba(start_cluster), RunSectors)
           /\ out' = out + RunSectors
           /\ remaining' = remaining - RunSectors * SectorBytes
           /\ cluster' = next /\ pc' = "read"
  <2>1. /\ InPlace'
        /\ \A k \in 0 .. MaxSectors - 1 :
             k < out + RunSectors => buffer'[k] # Unwritten
    BY <1>4, <1>5, <1>7
  <2>2. remaining' + out' * SectorBytes = out_size'
    BY <1>1, <1>4, <1>7
  <2>3. Written'
    <3>1. /\ out + RunSectors \in Nat /\ remaining' \in Nat /\ out' \in Nat
          /\ DOMAIN buffer' = 0 .. MaxSectors - 1
      BY <1>4, <1>7 DEF TypeInv
    <3>2. IF remaining' > 0 THEN out' <= out + RunSectors
          ELSE out_size <= (out + RunSectors) * SectorBytes
      <4>1. out' = out + RunSectors /\ out_size' = out_size
        BY <1>1, <1>7
      <4>2. ~(remaining' > 0) => remaining' = 0
        BY <3>1
      <4>3. remaining' = 0 => out_size = (out + RunSectors) * SectorBytes
        BY <1>4, <2>2, <4>1
      <4>4. out_size <= out_size /\ out + RunSectors <= out + RunSectors
        BY <1>4
      <4> QED
        BY <4>1, <4>2, <4>3, <4>4
    <3> QED
      BY <1>1, <1>4, <2>1, <3>1, <3>2, WrittenUpTo
  <2>4. \E q \in Nat : /\ q <= Len(FileChain)' /\ out' = q * Spc'
                       /\ Follows(q, cluster)'
    <3>1. PICK n \in Nat \ {0} : n = cluster_count
      BY <1>3
    <3>2. p + n <= Len(FileChain) /\ Follows(p + n, next)
      BY <1>2, <3>1 DEF RunAt, SideBySide
    <3>3. out' = (p + n) * Spc
      <4>1. out' = p * Spc + n * Spc
        BY <1>3, <1>7, <3>1 DEF RunSectors
      <4> QED
        BY <1>4, <3>1, <4>1, TimesAdd
    <3>4. Follows(p + n, cluster)'
      BY <1>1, <1>7, <3>2, SameFile DEF Follows
    <3>5. p + n \in Nat
      OBVIOUS
    <3> QED
      BY <1>1, <3>2, <3>3, <3>4, <3>5, SameFile
  <2> QED
    BY <1>6, <1>7, <2>1, <2>2, <2>3, <2>4 DEF ReadInv, ReadComplete
<1>8. CASE /\ \E n \in 0 .. RunSectors - 1 :
                buffer' = Stored(out, ClusterLba(start_cluster), n)
           /\ pc' = "idle" /\ result' = -1
  <2>1. InPlace'
    BY <1>4, <1>5, <1>8
  <2> QED
    BY <1>8, <2>1 DEF ReadInv, ReadComplete
<1> QED
  BY <1>7, <1>8 DEF TransferRun, Return

\* What a run at p gives to the transfers of its end.
LEMMA RunFacts ==
  ASSUME TypeInv, ReadInv, pc \in {"run", "slow"}, remaining > 0
  PROVE  /\ vol \in Volumes /\ Spc \in Nat \ {0} /\ SectorBytes \in Nat \ {0}
         /\ remaining + out * SectorBytes = out_size
         /\ InPlace /\ Written /\ Fits(out_cluster, out_size)
         /\ DOMAIN buffer = 0 .. MaxSectors - 1
         /\ remaining \in Nat /\ out \in Nat /\ out_size \in Nat /\ s \in Nat
         /\ RunSectors \in Nat /\ ClusterLba(start_cluster) \in Int
<1>1. /\ vol \in Volumes /\ partition_lba = vol.start
      /\ Spc \in Nat \ {0} /\ SectorBytes \in Nat \ {0}
      /\ remaining + out * SectorBytes = out_size
      /\ InPlace /\ Written /\ Fits(out_cluster, out_size)
      /\ DOMAIN buffer = 0 .. MaxSectors - 1
  BY Reading
<1>2. /\ vol.start \in Nat /\ vol.reserved_sectors \in Nat
      /\ vol.fat_count \in Nat /\ vol.sectors_per_fat \in Nat
  BY <1>1, VolumeFacts
<1>3. start_cluster \in Nat
  BY DEF RunAt, ReadInv
<1>4. ClusterLba(start_cluster) \in Int
  BY <1>1, <1>2, <1>3 DEF ClusterLba
<1>5. RunSectors \in Nat
  BY <1>1 DEF RunSectors, TypeInv
<1> QED
  BY <1>1, <1>4, <1>5 DEF TypeInv

LEMMA TailInRun ==
  ASSUME TypeInv, ReadInv, pc \in {"run", "slow"}, remaining > 0,
         remaining < RunSectors * SectorBytes
  PROVE  /\ TailSectors \in Nat \ {0} /\ TailSectors <= RunSectors
         /\ \A d \in Nat : d < TailSectors <=> d * SectorBytes < remaining
<1>1. /\ SectorBytes \in Nat \ {0} /\ remaining \in Nat /\ RunSectors \in Nat
  BY RunFacts
<1>2. /\ TailSectors \in Nat
      /\ \A d \in Nat : d < TailSectors <=> d * SectorBytes < remaining
  BY <1>1, SectorsNeeded DEF TailSectors
<1>3. ~(RunSectors < TailSectors)
  BY <1>1, <1>2
<1>4. 0 < TailSectors
  BY <1>1, <1>2
<1> QED
  BY <1>1, <1>2, <1>3, <1>4

LEMMA SlowInRun ==
  ASSUME TypeInv, ReadInv, pc = "slow", remaining > 0,
         NEW p \in Nat, RunAt(p)
  PROVE  s + 1 <= RunSectors
<1>1. remaining + s * SectorBytes < RunSectors * SectorBytes
  BY DEF RunAt
<1>2. /\ SectorBytes \in Nat \ {0} /\ remaining \in Nat /\ s \in Nat
      /\ RunSectors \in Nat
  BY RunFacts
<1>3. RunSectors <= s => RunSectors * SectorBytes <= s * SectorBytes
  BY <1>2
<1>4. s * SectorBytes \in Nat /\ RunSectors * SectorBytes \in Nat
  BY <1>2
<1> QED
  BY <1>1, <1>2, <1>3, <1>4

LEMMA TransferTailStep ==
  ASSUME TypeInv, TypeInv', ReadInv, TransferTail
  PROVE  ReadInv'
<1>1. /\ pc = "run" /\ remaining < RunSectors * SectorBytes
      /\ UNCHANGED <<vol, out_cluster, out_size, out, next, cluster_count,
                     start_cluster, fat_failed>>
  BY DEF TransferTail, fixed, run
<1>2. PICK p \in Nat : RunAt(p)
  BY <1>1 DEF ReadInv
<1>3. remaining > 0 /\ out = p * Spc
  BY <1>1, <1>2 DEF RunAt
<1>4. /\ vol \in Volumes /\ Spc \in Nat \ {0} /\ SectorBytes \in Nat \ {0}
      /\ remaining + out * SectorBytes = out_size
      /\ InPlace /\ Written /\ Fits(out_cluster, out_size)
      /\ DOMAIN buffer = 0 .. MaxSectors - 1
      /\ remaining \in Nat /\ out \in Nat /\ out_size \in Nat
      /\ RunSectors \in Nat /\ ClusterLba(start_cluster) \in Int
  BY <1>1, <1>3, RunFacts
<1>5. /\ TailSectors \in Nat
      /\ \A d \in Nat : d < TailSectors <=> d * SectorBytes < remaining
  BY <1>1, <1>3, TailInRun
<1>6. TailSectors <= RunSectors
  BY <1>1, <1>3, TailInRun
<1>7. ASSUME NEW m \in Nat, m <= TailSectors,
             buffer' = Stored(out, ClusterLba(start_cluster), m)
      PROVE  /\ InPlace'
             /\ \A k \in 0 .. MaxSectors - 1 :
                  k < out + m => buffer'[k] # Unwritten
  <2>1. \A d \in 0 .. m - 1 : d * SectorBytes < remaining
    BY <1>5, <1>7
  <2>2. \A k \in out .. out + m - 1 :
          /\ k < FileSectors
          /\ SectorAt(ClusterLba(start_cluster) + k - out) = FileSector(k)
    <3>1. /\ out = p * Spc + 0 /\ 0 + m <= RunSectors
          /\ ClusterLba(start_cluster) = ClusterLba(start_cluster) + 0
      BY <1>3, <1>4, <1>5, <1>6, <1>7
    <3>2. 0 \in Nat /\ pc \in {"run", "slow"}
      BY <1>1
    <3> QED
      BY <1>2, <1>3, <2>1, <3>1, <3>2, SectorsOfRun
  <2>3. \A k \in 0 .. MaxSectors - 1 : k < out => buffer[k] # Unwritten
    BY <1>3, <1>4 DEF Written
  <2> QED
    BY <1>1, <1>4, <1>7, <2>2, <2>3, StoredInPlace
<1>8. Fits(out_cluster, out_size)'
  BY <1>1, <1>4, SameFile
<1>9. CASE /\ buffer' = Stored(out, ClusterLba(start_cluster), TailSectors)
           /\ remaining' = 0 /\ pc' = "read"
  <2>1. /\ InPlace'
        /\ \A k \in 0 .. MaxSectors - 1 :
             k < out + TailSectors => buffer'[k] # Unwritten
    BY <1>4, <1>5, <1>7, <1>9
  <2>2. Written'
    <3>1. /\ out + TailSectors \in Nat /\ remaining' \in Nat /\ out' \in Nat
          /\ DOMAIN buffer' = 0 .. MaxSectors - 1
      BY <1>1, <1>4, <1>5, <1>9 DEF TypeInv
    <3>2. remaining <= TailSectors * SectorBytes
      BY <1>4, <1>5
    <3>3. out_size <= (out + TailSectors) * SectorBytes
      BY <1>4, <1>5, <3>2
    <3>4. IF remaining' > 0 THEN out' <= out + TailSectors
          ELSE out_size <= (out + TailSectors) * SectorBytes
      BY <1>9, <3>3
    <3> QED
      BY <1>1, <1>4, <2>1, <3>1, <3>4, WrittenUpTo
  <2> QED
    BY <1>8, <1>9, <2>1, <2>2 DEF ReadInv, ReadComplete
<1>10. CASE /\ \E n \in 0 .. TailSectors - 1 :
                 buffer' = Stored(out, ClusterLba(start_cluster), n)
            /\ s' = 0 /\ pc' = "slow" /\ UNCHANGED <<remaining, cluster>>
  <2>1. PICK n \in 0 .. TailSectors - 1 :
          buffer' = Stored(out, ClusterLba(start_cluster), n)
    BY <1>10
  <2>2. n \in Nat /\ n <= TailSectors
    BY <1>5
  <2>3. /\ InPlace'
        /\ \A k \in 0 .. MaxSectors - 1 :
             k < out + n => buffer'[k] # Unwritten
    BY <1>7, <2>1, <2>2
  <2>4. Written'
    <3>1. /\ out + n \in Nat /\ remaining' \in Nat /\ out' \in Nat
          /\ DOMAIN buffer' = 0 .. MaxSectors - 1
      BY <1>1, <1>4, <1>10, <2>2 DEF TypeInv
    <3>2. remaining' > 0 /\ out' <= out + n
      BY <1>1, <1>3, <1>4, <1>10, <2>2
    <3> QED
      BY <1>1, <1>4, <2>3, <3>1, <3>2, WrittenUpTo
  <2>5. remaining' + out' * SectorBytes = out_size'
    BY <1>1, <1>4, <1>10
  <2>6. RunAt(p)'
    <3>1. /\ out' = p * Spc' + s' /\ RunSectors' = RunSectors
          /\ remaining' + s' * SectorBytes < RunSectors * SectorBytes
      BY <1>1, <1>3, <1>4, <1>10, SameFile DEF RunSectors
    <3> QED
      BY <1>1, <1>2, <1>10, <3>1, SameFile DEF RunAt, Follows
  <2> QED
    BY <1>8, <1>10, <2>3, <2>4, <2>5, <2>6 DEF ReadInv, ReadComplete
<1> QED
  BY <1>9, <1>10 DEF TransferTail

LEMMA TransferSectorStep ==
  ASSUME TypeInv, TypeInv', ReadInv, TransferSector
  PROVE  ReadInv'
<1>1. /\ pc = "slow" /\ remaining > 0
      /\ UNCHANGED <<vol, out_cluster, out_size, next, cluster, cluster_count,
                     start_cluster, fat_failed>>
  BY DEF TransferSector, fixed, run
<1>2. PICK p \in Nat : RunAt(p)
  BY <1>1 DEF ReadInv
<1>3. /\ out = p * Spc + s
      /\ remaining + s * SectorBytes < RunSectors * SectorBytes
  BY <1>1, <1>2 DEF RunAt
<1>4. /\ vol \in Volumes /\ Spc \in Nat \ {0} /\ SectorBytes \in Nat \ {0}
      /\ remaining + out * SectorBytes = out_size
      /\ InPlace /\ Written /\ Fits(out_cluster, out_size)
      /\ DOMAIN buffer = 0 .. MaxSectors - 1
      /\ remaining \in Nat /\ out \in Nat /\ out_size \in Nat /\ s \in Nat
      /\ RunSectors \in Nat /\ ClusterLba(start_cluster) \in Int
  BY <1>1, RunFacts
<1>5. Fits(out_cluster, out_size)'
  BY <1>1, <1>4, SameFile
<1>6. CASE pc' = "idle" /\ result' = -1 /\ UNCHANGED buffer
  <2>1. InPlace'
    BY <1>1, <1>4, <1>6, SameFile DEF InPlace
  <2> QED
    BY <1>6, <2>1 DEF ReadInv, ReadComplete
<1>7. CASE /\ pc' = "slow" /\ s' = s + 1 /\ buffer' = Stored(out, SlowLba, 1)
           /\ IF remaining >= SectorBytes
                THEN out' = out + 1 /\ remaining' = remaining - SectorBytes
                ELSE remaining' = 0 /\ out' = out
  <2>1. s + 1 <= RunSectors
    BY <1>1, <1>2, SlowInRun
  <2>2. \A k \in out .. out + 1 - 1 :
          k < FileSectors /\ SectorAt(SlowLba + k - out) = FileSector(k)
    <3>1. PICK m \in Nat : m = 1
      OBVIOUS
    <3>2. \A d \in 0 .. m - 1 : d * SectorBytes < remaining
      BY <1>1, <1>4, <3>1
    <3>3. s + m <= RunSectors /\ pc \in {"run", "slow"}
      BY <1>1, <2>1, <3>1
    <3>4. \A k \in out .. out + m - 1 :
            k < FileSectors /\ SectorAt(SlowLba + k - out) = FileSector(k)
      <4>1. SlowLba = ClusterLba(start_cluster) + s
        BY DEF SlowLba
      <4>2. remaining > 0 /\ s \in Nat /\ out = p * Spc + s
        BY <1>1, <1>3, <1>4
      <4> QED
        BY <1>2, <3>2, <3>3, <4>1, <4>2, SectorsOfRun
    <3> QED
      BY <3>1, <3>4
  <2>3. /\ InPlace'
        /\ \A k \in 0 .. MaxSectors - 1 :
             k < out + 1 => buffer'[k] # Unwritten
    <3>1. \A k \in 0 .. MaxSectors - 1 : k < out => buffer[k] # Unwritten
      BY <1>1, <1>4 DEF Written
    <3>2. 1 \in Nat
      OBVIOUS
    <3> QED
      BY <1>1, <1>4, <1>7, <2>2, <3>1, <3>2, StoredInPlace
  <2>4. /\ remaining' \in Nat /\ out' \in Nat /\ out + 1 \in Nat
        /\ DOMAIN buffer' = 0 .. MaxSectors - 1
    BY <1>4 DEF TypeInv
  <2>5. remaining' > 0 => /\ out' = out + 1
                          /\ remaining' = remaining - SectorBytes
    BY <1>7
  <2>6. remaining' > 0 => remaining' + out' * SectorBytes = out_size'
    BY <1>1, <1>4, <2>5
  <2>7. ~(remaining' > 0) => remaining <= SectorBytes
    BY <1>4, <1>7
  <2>8. Written'
    <3>1. ~(remaining' > 0) => out_size <= (out + 1) * SectorBytes
      BY <1>4, <2>7
    <3>2. IF remaining' > 0 THEN out' <= out + 1
          ELSE out_size <= (out + 1) * SectorBytes
      BY <1>4, <2>5, <3>1
    <3> QED
      BY <1>1, <1>4, <2>3, <2>4, <3>2, WrittenUpTo
  <2>9. RunAt(p)'
    <3>1. RunSectors' = RunSectors /\ Spc' = Spc
      BY <1>1, SameFile DEF RunSectors
    <3>2. remaining' > 0 =>
            /\ out' = p * Spc + s'
            /\ remaining' + s' * SectorBytes < RunSectors * SectorBytes
      <4>1. (s + 1) * SectorBytes = s * SectorBytes + SectorBytes
        BY <1>4
      <4>2. s * SectorBytes \in Nat /\ RunSectors * SectorBytes \in Nat
        BY <1>4
      <4> QED
        BY <1>3, <1>4, <1>7, <2>5, <4>1, <4>2
    <3> QED
      BY <1>1, <1>2, <1>7, <3>1, <3>2, SameFile DEF RunAt, Follows
  <2> QED
    BY <1>5, <1>7, <2>3, <2>6, <2>8, <2>9 DEF ReadInv, ReadComplete
<1> QED
  BY <1>6, <1>7 DEF TransferSector, Return

\* Nothing remains, so nothing is said of the position.
LEMMA SlowDoneStep ==
  ASSUME TypeInv, ReadInv, SlowDone
  PROVE  ReadInv'
<1>1. /\ pc = "slow" /\ pc' = "read" /\ remaining = 0
      /\ UNCHANGED <<vol, out_cluster, out_size, out, remaining, buffer>>
  BY DEF SlowDone, fixed, dirvars, sink
<1>2. InPlace' /\ Written' /\ Fits(out_cluster, out_size)'
  BY <1>1, SameFile DEF ReadInv, InPlace, Written
<1> QED
  BY <1>1, <1>2 DEF ReadInv, ReadComplete

LEMMA ReadStep ==
  ASSUME TypeInv, TypeInv', DirInv, CacheCoherent, ReadInv, [Next]_vars
  PROVE  ReadInv'
<1>1. CASE UNCHANGED vars
  <2>1. UNCHANGED <<pc, vol, out_cluster, out_size, out, remaining, buffer, next,
                    cluster, cluster_count, start_cluster, s, fat_failed,
                    calls, result>>
    BY <1>1 DEF vars, fixed, dirvars, run, sink
  <2>2. InPlace' <=> InPlace
    BY <2>1, SameFile DEF InPlace
  <2>3. Written' <=> Written
    BY <2>1, SameFile DEF Written
  <2>4. ReadComplete' <=> ReadComplete
    BY <2>1, SameFile DEF ReadComplete
  <2>5. \A p : /\ RunAt(p)' <=> RunAt(p)
               /\ Follows(p, cluster)' <=> Follows(p, cluster)
    BY <2>1, SameFile DEF RunAt, Follows, RunSectors
  <2> QED
    BY <2>1, <2>2, <2>3, <2>4, <2>5, SameFile DEF ReadInv
<1> QED
  BY <1>1, OutsideStep, ReadFileStep, ReadDoneStep, StartRunStep, ExtendRunStep,
     TransferRunStep, TransferTailStep, TransferSectorStep, SlowDoneStep
  DEF Next, Working, Done

LEMMA ReadInvariant == Spec => []ReadInv
<1>1. Init => ReadInv
  BY DEF Init, ReadInv, InPlace, EmptyBuffer, ReadComplete
<1> QED
  BY <1>1, ReadStep, TypeInvariant, CacheSafe, PTL DEF Spec

\* SectorsInPlace, the hazard of shifted, repeated or mixed sectors when runs
\* are coalesced, cut off at 128 sectors, or read again one by one: whatever
\* the chain, the size and the failures, the caller's memory holds the file's
\* own sectors at their own places and nothing behind the last one.
THEOREM FilesReadInPlace == Spec => []SectorsInPlace
<1>1. ReadInv => SectorsInPlace
  BY DEF ReadInv, InPlace, SectorsInPlace
<1> QED
  BY <1>1, ReadInvariant, PTL

\* ReadComplete, the hazard of an error taken for the end of the chain: a read
\* that returns 0 has stored every sector of the file, unless a sector of the
\* table could not be read on the way.
THEOREM ReadsAreComplete == Spec => []ReadComplete
<1>1. ReadInv => ReadComplete
  BY DEF ReadInv
<1> QED
  BY <1>1, ReadInvariant, PTL

-----------------------------------------------------------------------------
(* The requests. *)

\* RequestsInFiles, said of a request.
InFiles(request) ==
  /\ request.count \in 1 .. (IF Spc > MaxRunSectors THEN Spc ELSE MaxRunSectors)
  /\ \A k \in 0 .. request.count - 1 :
       SectorAt(request.lba + k)[1] = "data" =>
         \E chain \in vol.chains : \E j \in DOMAIN chain :
           chain[j] = SectorAt(request.lba + k)[2]

LEMMA FrontInFiles ==
  ASSUME vol \in Volumes, NEW request, BeforeData(request)
  PROVE  InFiles(request)
<1>1. PICK lba \in Nat : request = [lba |-> lba, count |-> 1] /\ lba < DataStart
  BY DEF BeforeData
<1>2. DataStart \in Nat /\ Spc \in Nat \ {0} /\ MaxRunSectors \in Nat \ {0}
  BY VolumeFacts, FatAssumption
<1>3. SectorAt(lba)[1] # "data"
  <2>1. ~(lba - DataStart >= 0)
    BY <1>1, <1>2
  <2>2. SectorAt(lba)[1] \in {"fat", "boot"}
    BY <2>1 DEF SectorAt
  <2> QED
    BY <2>2
<1>4. \A k \in 0 .. request.count - 1 : request.lba + k = lba
  BY <1>1
<1>5. request.count \in 1 .. (IF Spc > MaxRunSectors THEN Spc ELSE MaxRunSectors)
  BY <1>1, <1>2
<1> QED
  BY <1>3, <1>4, <1>5 DEF InFiles

\* A part of a run: m sectors from sector base on.
LEMMA RunInFiles ==
  ASSUME TypeInv, ReadInv, pc \in {"run", "slow"}, remaining > 0,
         NEW p \in Nat, RunAt(p), NEW base \in Nat, NEW m \in Nat \ {0},
         base + m <= RunSectors,
         NEW lba, lba = ClusterLba(start_cluster) + base
  PROVE  InFiles([lba |-> lba, count |-> m])
<1>1. /\ vol \in Volumes /\ partition_lba = vol.start
      /\ Spc \in Nat \ {0} /\ FileChain \in vol.chains
  BY Reading
<1>2. RunSectors \in Nat /\ ClusterLba(start_cluster) \in Int
  BY RunFacts
<1>3. /\ cluster_count \in Nat /\ start_cluster \in Nat
      /\ SideBySide(FileChain, p, cluster_count, start_cluster)
      /\ cluster_count = 1 \/ RunSectors <= MaxRunSectors
  BY DEF RunAt, TypeInv
<1>4. m \in 1 .. (IF Spc > MaxRunSectors THEN Spc ELSE MaxRunSectors)
  <2>1. MaxRunSectors \in Nat /\ m <= RunSectors
    BY <1>2, FatAssumption
  <2>2. RunSectors = Spc \/ RunSectors <= MaxRunSectors
    BY <1>1, <1>3 DEF RunSectors
  <2> QED
    BY <1>1, <1>2, <2>1, <2>2
<1>5. ASSUME NEW k \in 0 .. m - 1
      PROVE  \E j \in DOMAIN FileChain : FileChain[j] = SectorAt(lba + k)[2]
  <2>1. lba + k = ClusterLba(start_cluster) + (base + k)
    BY <1>2
  <2>2. base + k \in Nat /\ base + k < cluster_count * Spc
    BY <1>1, <1>2, <1>3 DEF RunSectors
  <2> DEFINE j == (p * Spc + (base + k)) \div Spc + 1
  <2>3. /\ SectorAt(ClusterLba(start_cluster) + (base + k)) =
             <<"data", FileChain[j], (p * Spc + (base + k)) % Spc>>
        /\ j \in DOMAIN FileChain
    BY <1>1, <1>3, <2>2, RunOfChain
  <2> HIDE DEF j
  <2> QED
    BY <2>1, <2>3
<1> QED
  BY <1>1, <1>4, <1>5 DEF InFiles

LEMMA RequestsStep ==
  ASSUME TypeInv, DirInv, CacheCoherent, ReadInv, RequestsInFiles, [Next]_vars
  PROVE  RequestsInFiles'
<1>1. /\ vol' = vol /\ vol \in Volumes /\ vol.start \in Nat
      /\ Spc \in Nat \ {0} /\ MaxRunSectors \in Nat \ {0}
      /\ DataStart \in Nat /\ vol.start < DataStart
  BY VolumeStays, VolumeFacts, FatAssumption DEF TypeInv
<1>2. /\ InFiles(io)
      /\ InFiles(io') => RequestsInFiles'
  BY <1>1 DEF RequestsInFiles, InFiles, SectorAt, DataStart, Spc
<1>3. CASE io' = io
  BY <1>2, <1>3
<1>4. CASE BeforeData(io')
  BY <1>1, <1>2, <1>4, FrontInFiles
<1>5. CASE ReadSectorZero \/ ReadVbr
  <2>1. io' \in {[lba |-> 0, count |-> 1], [lba |-> vol.start, count |-> 1]}
    BY <1>5 DEF ReadSectorZero, ReadVbr, Request, TypeInv
  <2>2. 0 \in Nat /\ 0 < DataStart
    BY <1>1
  <2> QED
    BY <1>1, <1>4, <2>1, <2>2 DEF BeforeData
<1>6. CASE ScanSector
  <2>1. /\ pc = "dir" /\ cluster < EndMark /\ s < Spc
        /\ io' = [lba |-> ClusterLba(cluster) + s, count |-> 1]
    BY <1>6 DEF ScanSector, Request
  <2>2. /\ partition_lba = vol.start /\ s \in Nat /\ vol.root \in vol.chains
    BY <2>1, FatAssumption DEF TypeInv, WellFormed
  <2>3. PICK k \in 1 .. Len(vol.root) : cluster = vol.root[k]
    BY <2>1, DirCluster
  <2>4. SectorAt(ClusterLba(cluster) + s) = <<"data", cluster, s>>
    BY <1>1, <2>1, <2>2, <2>3, ClusterOfChain
  <2>5. k \in DOMAIN vol.root /\ cluster \in Nat
    BY <1>1, <2>2, <2>3, ChainFacts
  <2>6. ClusterLba(cluster) + s \in Int
    <3>1. /\ vol.reserved_sectors \in Nat /\ vol.fat_count \in Nat
          /\ vol.sectors_per_fat \in Nat
      BY <1>1, VolumeFacts
    <3> QED
      BY SMTT(30), <1>1, <2>2, <2>5, <3>1 DEF ClusterLba
  <2>7. \A i \in 0 .. io'.count - 1 : io'.lba + i = ClusterLba(cluster) + s
    BY <2>1, <2>6
  <2>8. io'.count \in 1 .. (IF Spc > MaxRunSectors THEN Spc ELSE MaxRunSectors)
    BY <1>1, <2>1
  <2>9. InFiles(io')
    BY <2>2, <2>3, <2>4, <2>5, <2>7, <2>8 DEF InFiles
  <2> QED
    BY <1>2, <2>9
<1>7. CASE NextDirCluster
  <2>1. /\ pc = "dir" /\ cluster < EndMark /\ partition_lba = vol.start
        /\ GetNextCluster(cluster, cluster') /\ vol.root \in vol.chains
    BY <1>1, <1>7, FatAssumption DEF NextDirCluster, TypeInv, WellFormed
  <2>2. PICK k \in 1 .. Len(vol.root) : cluster = vol.root[k]
    BY <2>1, DirCluster
  <2>3. io' = io \/ BeforeData(io')
    BY <2>1, <2>2, NextInChain
  <2> QED
    BY <1>3, <1>4, <2>3
<1>8. CASE StartRun
  <2>1. /\ pc = "read" /\ remaining > 0 /\ cluster < EndMark
        /\ GetNextCluster(cluster, next')
    BY <1>8 DEF StartRun
  <2>2. PICK p \in Nat : p <= Len(FileChain) /\ Follows(p, cluster)
    BY <2>1 DEF ReadInv
  <2>3. partition_lba = vol.start /\ FileChain \in vol.chains
    BY <2>1, Reading
  <2>4. p + 1 \in 1 .. Len(FileChain) /\ cluster = FileChain[p + 1]
    BY <1>1, <2>1, <2>2, <2>3, FollowsInChain
  <2>5. io' = io \/ BeforeData(io')
    BY <2>1, <2>3, <2>4, NextInChain
  <2> QED
    BY <1>3, <1>4, <2>5
<1>9. CASE ExtendRun
  <2>1. pc = "run" /\ GetNextCluster(next, next') /\ next = cluster + 1
    BY <1>9 DEF ExtendRun, RunGrows
  <2>2. PICK p \in Nat : RunAt(p)
    BY <2>1 DEF ReadInv
  <2>3. PICK k \in 1 .. Len(FileChain) : next = FileChain[k]
    BY <2>1, <2>2, NextOfRun
  <2>4. partition_lba = vol.start /\ FileChain \in vol.chains
    BY <2>1, <2>2, Reading DEF RunAt
  <2>5. io' = io \/ BeforeData(io')
    BY <2>1, <2>3, <2>4, NextInChain
  <2> QED
    BY <1>3, <1>4, <2>5
<1>10. CASE TransferRun \/ TransferTail
  <2>1. /\ pc = "run"
        /\ \/ io' = [lba |-> ClusterLba(start_cluster), count |-> RunSectors]
           \/ /\ remaining < RunSectors * SectorBytes
              /\ io' = [lba |-> ClusterLba(start_cluster), count |-> TailSectors]
    BY <1>10 DEF TransferRun, TransferTail, Request
  <2>2. PICK p \in Nat : RunAt(p)
    BY <2>1 DEF ReadInv
  <2>3. remaining > 0 /\ cluster_count \in Nat \ {0}
    BY <2>1, <2>2 DEF RunAt, TypeInv
  <2>4. RunSectors \in Nat \ {0} /\ ClusterLba(start_cluster) \in Int
    BY <1>1, <2>1, <2>3, RunFacts DEF RunSectors
  <2>5. ClusterLba(start_cluster) = ClusterLba(start_cluster) + 0
    BY <2>4
  <2>6. ASSUME NEW m \in Nat \ {0}, m <= RunSectors
        PROVE  InFiles([lba |-> ClusterLba(start_cluster), count |-> m])
    <3>1. 0 + m <= RunSectors /\ 0 \in Nat /\ pc \in {"run", "slow"}
      BY <2>1, <2>4, <2>6
    <3> QED
      BY <2>2, <2>3, <2>5, <3>1, RunInFiles
  <2>7. RunSectors <= RunSectors
    BY <2>4
  <2>8. remaining < RunSectors * SectorBytes =>
          TailSectors \in Nat \ {0} /\ TailSectors <= RunSectors
    BY <2>1, <2>3, TailInRun
  <2> QED
    BY <1>2, <2>1, <2>4, <2>6, <2>7, <2>8
<1>11. CASE TransferSector
  <2>1. /\ pc = "slow" /\ remaining > 0
        /\ io' = [lba |-> SlowLba, count |-> 1]
    BY <1>11 DEF TransferSector, Request
  <2>2. PICK p \in Nat : RunAt(p)
    BY <2>1 DEF ReadInv
  <2>3. /\ s + 1 <= RunSectors /\ s \in Nat /\ 1 \in Nat \ {0}
        /\ pc \in {"run", "slow"}
    BY <2>1, <2>2, SlowInRun DEF TypeInv
  <2>4. SlowLba = ClusterLba(start_cluster) + s
    BY DEF SlowLba
  <2> QED
    BY <1>2, <2>1, <2>2, <2>3, <2>4, RunInFiles
<1>12. \/ io' = io \/ ReadSectorZero \/ ReadVbr \/ ScanSector
       \/ NextDirCluster \/ StartRun \/ ExtendRun \/ TransferRun
       \/ TransferTail \/ TransferSector
  BY DEF Next, Working, Done, vars, NotFound, ReadFile, ReadDone, SlowDone,
     FindFile
<1> QED
  BY <1>3, <1>5, <1>6, <1>7, <1>8, <1>9, <1>10, <1>11, <1>12

\* RequestsInFiles, the hazards of a transfer that grows past the drive's
\* sector count and of a chain that is left: every request the reader makes,
\* in any call and after any failure, is one sector in front of the data area
\* or sectors of the directory or of a file, at least one and no more than a
\* cluster or the limit.
THEOREM RequestsStayInFiles == Spec => []RequestsInFiles
<1>1. Init => RequestsInFiles
  <2> SUFFICES ASSUME Init PROVE RequestsInFiles
    OBVIOUS
  <2>1. vol \in Volumes /\ io = [lba |-> 0, count |-> 1]
    BY DEF Init
  <2>2. 0 \in Nat /\ 0 < DataStart
    <3>1. /\ vol.start \in Nat /\ vol.reserved_sectors \in Nat \ {0}
          /\ vol.sectors_per_fat \in Nat /\ DataStart \in Nat
          /\ vol.start + vol.reserved_sectors + vol.sectors_per_fat <= DataStart
      BY <2>1, VolumeFacts
    <3> QED
      BY <3>1
  <2>3. InFiles(io)
    BY <2>1, <2>2, FrontInFiles DEF BeforeData
  <2> QED
    BY <2>3 DEF InFiles, RequestsInFiles
<1> QED
  BY <1>1, RequestsStep, ReadInvariant, TypeInvariant, CacheSafe, PTL DEF Spec

-----------------------------------------------------------------------------
(* The search. *)

\* A name's dots, its first one or else its end, and its characters.
Dots(filename) == {k \in DOMAIN filename : filename[k] = "."}
Dot(filename) ==
  IF Dots(filename) = {} THEN Len(filename) + 1
  ELSE CHOOSE k \in Dots(filename) : \A j \in Dots(filename) : k <= j
CharAt(filename, k) ==
  IF k \in DOMAIN filename THEN Upper(filename[k]) ELSE Blank

LEMMA UpperNotBlank ==
  ASSUME NEW c, c # Blank
  PROVE  Upper(c) # Blank
<1>1. DOMAIN LowerCase = {"a", "b", "c"}
  BY DEF LowerCase
<1>2. LowerCase["a"] = "A" /\ LowerCase["b"] = "B" /\ LowerCase["c"] = "C"
  BY DEF LowerCase
<1>3. "A" # Blank /\ "B" # Blank /\ "C" # Blank
  BY Zenon DEF Blank
<1> QED
  BY <1>1, <1>2, <1>3 DEF Upper

LEMMA NameFacts ==
  ASSUME NEW filename, NoBlanks(filename)
  PROVE  /\ Len(filename) \in Nat /\ DOMAIN filename = 1 .. Len(filename)
         /\ \A k \in 1 .. Len(filename) : Upper(filename[k]) # Blank
         /\ Dots(filename) \subseteq 1 .. Len(filename)
         /\ Dot(filename) \in 1 .. Len(filename) + 1
         /\ \A k \in Dots(filename) : Dot(filename) <= k
         /\ \/ Dot(filename) \in Dots(filename)
            \/ Dots(filename) = {} /\ Dot(filename) = Len(filename) + 1
<1>1. Len(filename) \in Nat /\ DOMAIN filename = 1 .. Len(filename)
  BY DEF NoBlanks
<1>2. \A k \in 1 .. Len(filename) : Upper(filename[k]) # Blank
  BY <1>1, UpperNotBlank DEF NoBlanks
<1>3. Dots(filename) \subseteq 1 .. Len(filename) /\ Dots(filename) \in SUBSET Nat
  BY <1>1 DEF Dots
<1>4. CASE Dots(filename) = {}
  BY <1>1, <1>2, <1>3, <1>4 DEF Dot
<1>5. CASE Dots(filename) # {}
  <2>1. \E k \in Dots(filename) : \A j \in Dots(filename) : k <= j
    BY <1>3, <1>5, Least
  <2>2. /\ Dot(filename) \in Dots(filename)
        /\ \A j \in Dots(filename) : Dot(filename) <= j
    BY <1>5, <2>1 DEF Dot
  <2>3. Dot(filename) \in 1 .. Len(filename) + 1
    BY <1>1, <1>3, <2>2
  <2> QED
    BY <1>1, <1>2, <1>3, <2>2, <2>3
<1> QED
  BY <1>4, <1>5

\* The tag is the name up to the dot and what follows it, in capital letters.
LEMMA TagIs ==
  ASSUME NEW filename
  PROVE  /\ \A j \in 1 .. NameLen :
              Tag(filename)[j] =
                IF j < Dot(filename) THEN CharAt(filename, j) ELSE Blank
         /\ \A j \in NameLen + 1 .. NameLen + ExtLen :
              Tag(filename)[j] = CharAt(filename, Dot(filename) + j - NameLen)
<1> USE FatAssumption
<1>1. Tag(filename) =
        [j \in 1 .. NameLen + ExtLen |->
           IF j <= NameLen
             THEN (IF j < Dot(filename) THEN CharAt(filename, j) ELSE Blank)
             ELSE CharAt(filename, Dot(filename) + j - NameLen)]
  BY DEF Tag, Dot, Dots, CharAt
<1> QED
  BY <1>1

\* Comparing with the padded tag is comparing with the name as it was given.
LEMMA MatchesDenotes ==
  ASSUME NEW filename, NoBlanks(filename), NEW name
  PROVE  Matches(name, Tag(filename)) <=> Denotes(filename, name)
<1> DEFINE dots == Dots(filename)
           dot == Dot(filename)
           len == Len(filename)
           tag == Tag(filename)
           Base == {k \in DOMAIN filename : \A d \in dots : k < d}
           Ext == {k \in DOMAIN filename :
                     \E d \in dots : d < k /\ \A e \in dots : d <= e}
           tildes == {k \in 1 .. NameLen : name[k] = "~"}
<1> USE FatAssumption
<1>1. /\ len \in Nat /\ DOMAIN filename = 1 .. len
      /\ \A k \in 1 .. len : Upper(filename[k]) # Blank
      /\ dots \subseteq 1 .. len /\ dot \in 1 .. len + 1
      /\ \A k \in dots : dot <= k
      /\ \/ dot \in dots
         \/ dots = {} /\ dot = len + 1
  BY NameFacts
<1>2. Denotes(filename, name) <=>
        /\ \A k \in Base : k <= NameLen /\ (\A d \in tildes : k < d) =>
             name[k] = Upper(filename[k])
        /\ \A k \in Ext : k - Cardinality(Base) - 1 <= ExtLen =>
             name[NameLen + (k - Cardinality(Base) - 1)] = Upper(filename[k])
  BY DEF Denotes, Dots
<1>3. /\ \A j \in 1 .. NameLen :
           tag[j] = IF j < dot THEN CharAt(filename, j) ELSE Blank
      /\ \A j \in NameLen + 1 .. NameLen + ExtLen :
           tag[j] = CharAt(filename, dot + j - NameLen)
  BY TagIs
<1>4. Matches(name, tag) <=>
        /\ \A j \in 1 .. NameLen :
             \/ name[j] = tag[j]
             \/ \E k \in 1 .. j : tag[k] = Blank \/ name[k] = "~"
        /\ \A j \in NameLen + 1 .. NameLen + ExtLen :
             tag[j] = Blank \/ name[j] = tag[j]
  BY DEF Matches
<1> HIDE DEF dots, dot, tag, len
<1>5. Base = 1 .. dot - 1
  BY <1>1
<1>6. Ext = {k \in 1 .. len : dot < k}
  <2>1. \A k \in 1 .. len :
          (\E d \in dots : d < k /\ \A e \in dots : d <= e) <=> dot < k
    BY <1>1
  <2> QED
    BY <1>1, <2>1
<1>7. Cardinality(Base) = dot - 1
  <2>1. dot - 1 \in Nat
    BY <1>1
  <2>2. Cardinality(1 .. dot - 1) = dot - 1
    BY <2>1, FS_Interval
  <2> QED
    BY <1>5, <2>2, Zenon
<1> HIDE DEF Base, Ext
<1>8. \A k \in 1 .. len : CharAt(filename, k) = Upper(filename[k])
  BY <1>1 DEF CharAt
<1>9. \A k : k \notin 1 .. len => CharAt(filename, k) = Blank
  BY <1>1 DEF CharAt
<1>10. (\A j \in 1 .. NameLen :
          \/ name[j] = tag[j]
          \/ \E k \in 1 .. j : tag[k] = Blank \/ name[k] = "~")
       <=> (\A k \in Base : k <= NameLen /\ (\A d \in tildes : k < d) =>
              name[k] = Upper(filename[k]))
  <2>1. \A j \in 1 .. NameLen :
          /\ j < dot => tag[j] = Upper(filename[j]) /\ tag[j] # Blank
          /\ ~(j < dot) => tag[j] = Blank
    BY <1>1, <1>3, <1>8
  <2>2. \A j \in 1 .. NameLen : j < dot <=> j \in Base
    BY <1>1, <1>5
  <2>3. \A j \in 1 .. NameLen :
          (\E k \in 1 .. j : tag[k] = Blank) <=> ~(j < dot)
    BY <1>1, <2>1
  <2>4. \A j \in 1 .. NameLen :
          (\E k \in 1 .. j : name[k] = "~") <=> ~(\A d \in tildes : j < d)
    OBVIOUS
  <2>5. \A k \in Base : k <= NameLen => k \in 1 .. NameLen
    BY <1>1, <1>5
  <2> QED
    BY <2>1, <2>2, <2>3, <2>4, <2>5
<1>11. (\A j \in NameLen + 1 .. NameLen + ExtLen :
          tag[j] = Blank \/ name[j] = tag[j])
       <=> (\A k \in Ext : k - Cardinality(Base) - 1 <= ExtLen =>
              name[NameLen + (k - Cardinality(Base) - 1)] = Upper(filename[k]))
  <2>1. ASSUME NEW j \in NameLen + 1 .. NameLen + ExtLen, NEW k,
               k = dot + j - NameLen
        PROVE  /\ k - Cardinality(Base) - 1 = j - NameLen
               /\ NameLen + (k - Cardinality(Base) - 1) = j
               /\ k \in Ext => tag[j] = Upper(filename[k]) /\ tag[j] # Blank
               /\ k \notin Ext => tag[j] = Blank
    <3>1. k \in Int /\ dot < k
      BY <1>1, <2>1
    <3>2. k \in Ext <=> k \in 1 .. len
      BY <1>1, <1>6, <3>1
    <3> QED
      BY <1>1, <1>3, <1>7, <1>8, <1>9, <2>1, <3>2
  <2>2. ASSUME NEW k \in Ext, k - Cardinality(Base) - 1 <= ExtLen
        PROVE  \E j \in NameLen + 1 .. NameLen + ExtLen : k = dot + j - NameLen
    <3> DEFINE j == k - dot + NameLen
    <3>1. j \in NameLen + 1 .. NameLen + ExtLen /\ k = dot + j - NameLen
      BY <1>1, <1>6, <1>7, <2>2
    <3> QED
      BY <3>1
  <2>3. \A j \in NameLen + 1 .. NameLen + ExtLen : j - NameLen <= ExtLen
    OBVIOUS
  <2> QED
    BY <2>1, <2>2, <2>3
<1> QED
  BY <1>2, <1>4, <1>10, <1>11, Zenon DEF tag

\* The first so many entries of the directory were looked at in vain.
Searched(n) == \A i \in DOMAIN vol.dir : Hit(i) => n < i

\* Where the search stands, it has passed over no hit; only a table that could
\* not be read lets it end early.
SearchInv ==
  pc = "dir" =>
    /\ asked \in Filenames
    /\ \/ cluster = NoCluster /\ fat_failed = TRUE
       \/ cluster = EndMark /\ \A i \in DOMAIN vol.dir : ~Hit(i)
       \/ \E k \in 1 .. Len(vol.root) :
            /\ cluster = vol.root[k]
            /\ Searched(((k - 1) * Spc + s) * DirPerSec)

LEMMA SearchingIn ==
  ASSUME TypeInv, DirInv, SearchInv, pc = "dir", cluster < EndMark
  PROVE  /\ asked \in Filenames
         /\ \E k \in 1 .. Len(vol.root) :
              /\ cluster = vol.root[k]
              /\ Searched(((k - 1) * Spc + s) * DirPerSec)
  BY FatAssumption DEF SearchInv

\* The directory's size, and the counts that lead through it.
LEMMA DirFacts ==
  ASSUME TypeInv, NEW k \in 1 .. Len(vol.root)
  PROVE  /\ Spc \in Nat \ {0} /\ DirPerSec \in Nat \ {0}
         /\ vol.root \in vol.chains /\ Len(vol.root) \in Nat
         /\ DOMAIN vol.dir = 1 .. Len(vol.root) * Spc * DirPerSec
         /\ \A t \in Nat : /\ ((k - 1) * Spc + t) * DirPerSec \in Nat
                           /\ ((k - 1) * Spc + (t + 1)) * DirPerSec =
                                ((k - 1) * Spc + t) * DirPerSec + DirPerSec
         /\ ((k - 1) * Spc + Spc) * DirPerSec = k * Spc * DirPerSec
<1>1. WellFormed(vol) /\ DirPerSec \in Nat \ {0}
  BY FatAssumption DEF TypeInv
<1>2. /\ vol.root \in vol.chains /\ Spc \in Nat \ {0}
      /\ Len(vol.dir) = Len(vol.root) * Spc * DirPerSec
      /\ DOMAIN vol.dir = 1 .. Len(vol.dir)
  BY <1>1 DEF WellFormed, Spc
<1>3. Len(vol.root) \in Nat
  BY <1>2, ChainFacts DEF TypeInv
<1>4. ASSUME NEW t \in Nat
      PROVE  /\ ((k - 1) * Spc + t) * DirPerSec \in Nat
             /\ ((k - 1) * Spc + (t + 1)) * DirPerSec =
                  ((k - 1) * Spc + t) * DirPerSec + DirPerSec
  <2> DEFINE row == (k - 1) * Spc + t
  <2>1. row \in Nat /\ (k - 1) * Spc + (t + 1) = row + 1
    <3>1. (k - 1) * Spc \in Nat
      BY <1>2, <1>3
    <3> QED
      BY <3>1
  <2>2. (row + 1) * DirPerSec = row * DirPerSec + DirPerSec
        /\ row * DirPerSec \in Nat
    BY <1>1, <2>1
  <2> QED
    BY <2>1, <2>2
<1>5. (k - 1) * Spc + Spc = k * Spc
  BY <1>2, <1>3
<1> QED
  BY <1>1, <1>2, <1>3, <1>4, <1>5

\* A look at one sector, in what was searched and what is found.
LEMMA ScanStep ==
  ASSUME TypeInv, DirInv, SearchInv, ScanSector
  PROVE  /\ pc' = "dir" =>
              \E k \in 1 .. Len(vol.root) :
                /\ cluster = vol.root[k]
                /\ Searched(((k - 1) * Spc + s') * DirPerSec)
         /\ pc' = "found" =>
              \E n \in DOMAIN vol.dir :
                /\ Hit(n) /\ \A j \in DOMAIN vol.dir : Hit(j) => n <= j
                /\ out_cluster' = vol.dir[n].cluster
                /\ out_size' = vol.dir[n].size
<1>1. PICK k \in 1 .. Len(vol.root) :
        /\ cluster = vol.root[k]
        /\ Searched(((k - 1) * Spc + s) * DirPerSec)
  BY SearchingIn DEF ScanSector
<1> DEFINE row == ((k - 1) * Spc + s) * DirPerSec
<1>2. /\ row \in Nat /\ DirPerSec \in Nat
      /\ ((k - 1) * Spc + (s + 1)) * DirPerSec = row + DirPerSec
      /\ DOMAIN vol.dir = 1 .. Len(vol.root) * Spc * DirPerSec
  <2>1. s \in Nat
    BY DEF TypeInv
  <2> QED
    BY <2>1, DirFacts
<1>3. DOMAIN vol.dir \subseteq Nat
  <2>1. Spc \in Nat /\ DirPerSec \in Nat /\ Len(vol.root) \in Nat
    BY DirFacts
  <2>2. Len(vol.root) * Spc * DirPerSec \in Int
    BY <2>1
  <2> QED
    BY <1>2, <2>2
<1>4. \/ /\ pc' = "dir" /\ s' = s + 1
         /\ \A i \in 1 .. DirPerSec : ~Hit(row + i)
      \/ /\ pc' = "found"
         /\ \E i \in 1 .. DirPerSec :
              /\ Hit(row + i) /\ \A j \in 1 .. DirPerSec : Hit(row + j) => i <= j
              /\ row + i \in DOMAIN vol.dir
              /\ out_cluster' = vol.dir[row + i].cluster
              /\ out_size' = vol.dir[row + i].size
      \/ pc' = "idle"
  BY <1>1, ScanRow
<1>5. Searched(row)
  BY <1>1
<1> HIDE DEF row
<1>6. \A n \in DOMAIN vol.dir :
        \/ n <= row \/ row + DirPerSec < n
        \/ \E i \in 1 .. DirPerSec : n = row + i
  <2> TAKE n \in DOMAIN vol.dir
  <2>1. n \in Nat
    BY <1>3
  <2>2. n - row \in 1 .. DirPerSec \/ n <= row \/ row + DirPerSec < n
    BY <1>2, <2>1
  <2>3. n = row + (n - row)
    BY <1>2, <2>1
  <2> QED
    BY <2>2, <2>3
<1>7. \A n \in DOMAIN vol.dir : Hit(n) => ~(n <= row)
  BY <1>2, <1>3, <1>5 DEF Searched
<1>8. CASE /\ pc' = "dir" /\ s' = s + 1
           /\ \A i \in 1 .. DirPerSec : ~Hit(row + i)
  <2>1. Searched(row + DirPerSec)
    BY <1>6, <1>7, <1>8 DEF Searched
  <2>2. ((k - 1) * Spc + s') * DirPerSec = row + DirPerSec
    BY <1>2, <1>8
  <2> QED
    BY <1>1, <1>8, <2>1, <2>2
<1>9. CASE /\ pc' = "found"
           /\ \E i \in 1 .. DirPerSec :
                /\ Hit(row + i)
                /\ \A j \in 1 .. DirPerSec : Hit(row + j) => i <= j
                /\ row + i \in DOMAIN vol.dir
                /\ out_cluster' = vol.dir[row + i].cluster
                /\ out_size' = vol.dir[row + i].size
  <2>1. PICK i \in 1 .. DirPerSec :
          /\ Hit(row + i)
          /\ \A j \in 1 .. DirPerSec : Hit(row + j) => i <= j
          /\ row + i \in DOMAIN vol.dir
          /\ out_cluster' = vol.dir[row + i].cluster
          /\ out_size' = vol.dir[row + i].size
    BY <1>9
  <2>2. ASSUME NEW n \in DOMAIN vol.dir, Hit(n)
        PROVE  row + i <= n
    <3>1. CASE row + DirPerSec < n
      BY <1>2, <1>3, <3>1
    <3>2. CASE \E j \in 1 .. DirPerSec : n = row + j
      BY <1>2, <2>1, <2>2, <3>2
    <3> QED
      BY <1>6, <1>7, <2>2, <3>1, <3>2
  <2> QED
    BY <1>9, <2>1, <2>2
<1> QED
  BY <1>4, <1>8, <1>9

\* The chain of the directory leads the search on: a last cluster searched to
\* its end was the end of the directory.
LEMMA NextDirStep ==
  ASSUME TypeInv, DirInv, SearchInv, CacheCoherent, NextDirCluster
  PROVE  \/ cluster' = NoCluster /\ fat_failed' = TRUE
         \/ cluster' = EndMark /\ \A i \in DOMAIN vol.dir : ~Hit(i)
         \/ \E k \in 1 .. Len(vol.root) :
              /\ cluster' = vol.root[k]
              /\ Searched(((k - 1) * Spc + s') * DirPerSec)
<1>1. PICK k \in 1 .. Len(vol.root) :
        /\ cluster = vol.root[k]
        /\ Searched(((k - 1) * Spc + s) * DirPerSec)
  BY SearchingIn DEF NextDirCluster
<1>2. s = Spc /\ s' = 0
  BY DEF NextDirCluster
<1>3. /\ Spc \in Nat \ {0} /\ DirPerSec \in Nat \ {0}
      /\ vol.root \in vol.chains /\ Len(vol.root) \in Nat
      /\ DOMAIN vol.dir = 1 .. Len(vol.root) * Spc * DirPerSec
      /\ ((k - 1) * Spc + Spc) * DirPerSec = k * Spc * DirPerSec
  BY DirFacts
<1>4. Searched(k * Spc * DirPerSec)
  BY <1>1, <1>2, <1>3
<1>5. \/ cluster' = NextOf(vol.root, k)
      \/ cluster' = NoCluster /\ fat_failed' = TRUE
  <2>1. partition_lba = vol.start /\ GetNextCluster(cluster, cluster')
    BY DEF NextDirCluster, TypeInv
  <2>2. \/ cluster' = NextOf(vol.root, k) /\ fat_failed' = fat_failed
        \/ cluster' = NoCluster /\ fat_failed' = TRUE
    BY <1>1, <1>3, <2>1, NextInChain
  <2> QED
    BY <2>2
<1>6. CASE k = Len(vol.root) /\ cluster' = NextOf(vol.root, k)
  <2>1. \A i \in DOMAIN vol.dir : ~Hit(i)
    <3> DEFINE size == Len(vol.root) * Spc * DirPerSec
    <3>1. size \in Int
      BY <1>3
    <3>2. Searched(size) /\ DOMAIN vol.dir = 1 .. size
      BY <1>3, <1>4, <1>6
    <3> HIDE DEF size
    <3> QED
      BY <3>1, <3>2 DEF Searched
  <2> QED
    BY <1>6, <2>1 DEF NextOf
<1>7. CASE k # Len(vol.root) /\ cluster' = NextOf(vol.root, k)
  <2>1. cluster' = vol.root[k + 1] /\ k + 1 \in 1 .. Len(vol.root)
    BY <1>3, <1>7 DEF NextOf
  <2>2. (((k + 1) - 1) * Spc + s') * DirPerSec = k * Spc * DirPerSec
    BY <1>2, <1>3
  <2>3. Searched((((k + 1) - 1) * Spc + s') * DirPerSec)
    BY <1>4, <2>2
  <2> QED
    BY <2>1, <2>3
<1> QED
  BY <1>5, <1>6, <1>7

LEMMA SearchStep ==
  ASSUME TypeInv, DirInv, SearchInv, CacheCoherent, [Next]_vars
  PROVE  SearchInv'
<1>1. vol' = vol
  BY VolumeStays
<1>2. ASSUME asked' = asked
      PROVE  \A i : Hit(i)' <=> Hit(i)
  BY <1>1, <1>2 DEF Hit
<1>3. ASSUME asked' = asked, NEW n
      PROVE  Searched(n)' <=> Searched(n)
  BY <1>1, <1>2, <1>3 DEF Searched
<1>4. CASE pc' = "dir" /\ pc = "dir" /\ UNCHANGED <<asked, s, cluster, fat_failed>>
  <2>1. \A k \in 1 .. Len(vol.root) :
          Searched(((k - 1) * Spc + s) * DirPerSec) =>
            Searched(((k - 1) * Spc + s) * DirPerSec)'
    BY <1>1, <1>4 DEF Searched, Hit, Spc
  <2> QED
    BY <1>1, <1>2, <1>4, <2>1 DEF SearchInv
<1>5. CASE \E f \in Filenames : FindFile(f)
  <2>1. asked' \in Filenames /\ cluster' = vol.root[1] /\ s' = 0
    BY <1>5 DEF FindFile
  <2>2. vol.root \in vol.chains
    BY FatAssumption DEF TypeInv, WellFormed
  <2>3. 1 \in 1 .. Len(vol.root)
    BY <2>2, ChainFacts DEF TypeInv
  <2>4. /\ ((1 - 1) * Spc + 0) * DirPerSec = 0
        /\ DOMAIN vol.dir = 1 .. Len(vol.root) * Spc * DirPerSec
        /\ Len(vol.root) * Spc * DirPerSec \in Int
    <3>1. /\ Spc \in Nat /\ DirPerSec \in Nat /\ Len(vol.root) \in Nat
          /\ DOMAIN vol.dir = 1 .. Len(vol.root) * Spc * DirPerSec
      BY <2>3, DirFacts
    <3> QED
      BY <3>1
  <2>5. \A i \in DOMAIN vol.dir : 0 < i
    BY <2>4
  <2>6. Searched(((1 - 1) * Spc + s) * DirPerSec)'
    BY <1>1, <2>1, <2>4, <2>5 DEF Searched, Spc
  <2> QED
    BY <1>1, <2>1, <2>3, <2>6 DEF SearchInv
<1>6. CASE ScanSector
  <2>1. /\ pc = "dir" /\ cluster < EndMark
        /\ UNCHANGED <<asked, cluster, fat_failed>>
    BY <1>6 DEF ScanSector
  <2>2. asked \in Filenames
    BY <2>1, SearchingIn
  <2>3. CASE pc' = "dir"
    <3>1. PICK k \in 1 .. Len(vol.root) :
            /\ cluster = vol.root[k]
            /\ Searched(((k - 1) * Spc + s') * DirPerSec)
      BY <1>6, <2>3, ScanStep
    <3>2. Searched(((k - 1) * Spc + s) * DirPerSec)'
      BY <1>1, <2>1, <3>1 DEF Searched, Hit, Spc
    <3> QED
      BY <1>1, <2>1, <2>2, <3>1, <3>2 DEF SearchInv
  <2> QED
    BY <2>3 DEF SearchInv
<1>7. CASE NextDirCluster
  <2>1. /\ pc = "dir" /\ cluster < EndMark /\ asked' = asked
    BY <1>7 DEF NextDirCluster, fixed
  <2>2. asked \in Filenames
    BY <2>1, SearchingIn
  <2>3. CASE cluster' = NoCluster /\ fat_failed' = TRUE
    BY <2>1, <2>2, <2>3 DEF SearchInv
  <2>4. CASE cluster' = EndMark /\ \A i \in DOMAIN vol.dir : ~Hit(i)
    BY <1>1, <1>2, <2>1, <2>2, <2>4 DEF SearchInv
  <2>5. CASE \E k \in 1 .. Len(vol.root) :
               /\ cluster' = vol.root[k]
               /\ Searched(((k - 1) * Spc + s') * DirPerSec)
    <3>1. PICK k \in 1 .. Len(vol.root) :
            /\ cluster' = vol.root[k]
            /\ Searched(((k - 1) * Spc + s') * DirPerSec)
      BY <2>5
    <3>2. Searched(((k - 1) * Spc + s) * DirPerSec)'
      BY <1>1, <2>1, <3>1 DEF Searched, Hit, Spc
    <3> QED
      BY <1>1, <2>1, <2>2, <3>1, <3>2 DEF SearchInv
  <2> QED
    BY <1>7, <2>3, <2>4, <2>5, NextDirStep
<1>8. CASE pc' # "dir"
  BY <1>8 DEF SearchInv
<1>9. \/ pc' # "dir"
      \/ pc = "dir" /\ UNCHANGED <<asked, s, cluster, fat_failed>>
      \/ (\E f \in Filenames : FindFile(f)) \/ ScanSector \/ NextDirCluster
  BY DEF Next, Working, Done, vars, dirvars, ReadSectorZero, ReadVbr, NotFound,
     ReadFile, StartRun, ReadDone, ExtendRun, TransferRun, TransferTail,
     TransferSector, SlowDone, Return
<1> QED
  BY <1>4, <1>5, <1>6, <1>7, <1>8, <1>9

LEMMA HitsAre ==
  ASSUME asked \in Filenames
  PROVE  \A n : n \in Hits(asked) <=> n \in DOMAIN vol.dir /\ Hit(n)
<1>1. NoBlanks(asked)
  BY FatAssumption
<1>2. \A name : Matches(name, Tag(asked)) <=> Denotes(asked, name)
  BY <1>1, MatchesDenotes
<1> QED
  BY <1>2 DEF Hits, Hit, Live

\* What FindsFirst says of a step.
FirstHit ==
  /\ pc = "dir" /\ pc' = "found" =>
       \E k \in Hits(asked) :
         /\ \A j \in Hits(asked) : k <= j
         /\ out_cluster' = vol.dir[k].cluster /\ out_size' = vol.dir[k].size
  /\ NotFound => fat_failed \/ Hits(asked) = {}

\* FindsFirst, the hazards of a search that goes on over sectors, clusters and
\* failed reads: it finds the first of all entries that the name stands for,
\* and it ends in vain only when there is none or the table could not be read.
THEOREM SearchFindsFirst == Spec => FindsFirst
<1>1. ASSUME TypeInv, DirInv, SearchInv, [Next]_vars,
             pc = "dir", pc' = "found"
      PROVE  \E k \in Hits(asked) :
               /\ \A j \in Hits(asked) : k <= j
               /\ out_cluster' = vol.dir[k].cluster
               /\ out_size' = vol.dir[k].size
  <2>1. ScanSector
    BY <1>1 DEF Next, Working, Done, vars, dirvars, ReadSectorZero, ReadVbr,
       FindFile, NextDirCluster, NotFound, ReadFile, StartRun, ReadDone,
       ExtendRun, TransferRun, TransferTail, TransferSector, SlowDone, Return
  <2>2. PICK n \in DOMAIN vol.dir :
          /\ Hit(n) /\ \A j \in DOMAIN vol.dir : Hit(j) => n <= j
          /\ out_cluster' = vol.dir[n].cluster
          /\ out_size' = vol.dir[n].size
    BY <1>1, <2>1, ScanStep
  <2>3. asked \in Filenames
    BY <1>1, <2>1, SearchingIn DEF ScanSector
  <2> QED
    BY <2>2, <2>3, HitsAre
<1>2. ASSUME TypeInv, DirInv, SearchInv, NotFound
      PROVE  fat_failed \/ Hits(asked) = {}
  <2>1. pc = "dir" /\ ~(cluster < EndMark)
    <3>1. pc = "dir" /\ cluster >= EndMark
      BY <1>2 DEF NotFound
    <3>2. \/ cluster \in {EndMark, NoCluster}
          \/ \E k \in DOMAIN vol.root : cluster = vol.root[k]
      BY <1>2, <3>1 DEF DirInv
    <3>3. cluster \in Nat
      <4>1. vol.root \in vol.chains
        BY <1>2, FatAssumption DEF TypeInv, WellFormed
      <4> QED
        BY <1>2, <3>2, <4>1, ChainFacts, FatAssumption DEF TypeInv
    <3> QED
      BY <3>1, <3>3, FatAssumption
  <2>2. asked \in Filenames
    BY <1>2, <2>1 DEF SearchInv
  <2>3. \/ fat_failed = TRUE
        \/ \A i \in DOMAIN vol.dir : ~Hit(i)
    <3>1. vol.root \in vol.chains
      BY <1>2, FatAssumption DEF TypeInv, WellFormed
    <3>2. \A k \in 1 .. Len(vol.root) : vol.root[k] < EndMark
      BY <1>2, <3>1, ChainFacts, FatAssumption DEF TypeInv
    <3> QED
      BY <1>2, <2>1, <3>2 DEF SearchInv
  <2> QED
    BY <2>2, <2>3, HitsAre
<1>3. ASSUME TypeInv, DirInv, SearchInv, [Next]_vars
      PROVE  [FirstHit]_vars
  <2>1. pc = "dir" /\ pc' = "found" =>
          \E k \in Hits(asked) :
            /\ \A j \in Hits(asked) : k <= j
            /\ out_cluster' = vol.dir[k].cluster
            /\ out_size' = vol.dir[k].size
    BY <1>1, <1>3, Zenon
  <2>2. NotFound => fat_failed \/ Hits(asked) = {}
    BY <1>2, <1>3, Zenon
  <2> QED
    BY <2>1, <2>2, Zenon DEF FirstHit
<1>4. Init => SearchInv
  BY DEF Init, SearchInv
<1> QED
  <2>1. Spec => [][FirstHit]_vars
    BY <1>3, <1>4, SearchStep, TypeInvariant, CacheSafe, PTL DEF Spec
  <2>2. [][FirstHit]_vars <=> FindsFirst
    BY DEF FirstHit, FindsFirst
  <2> QED
    BY <2>1, <2>2, PTL
=============================================================================
