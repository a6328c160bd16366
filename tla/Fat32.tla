------------------------------- MODULE Fat32 --------------------------------
(***************************************************************************)
(* The FAT32 reader of src/common/fs/fat32.c: fat32_init, fat32_find_file, *)
(* fat32_read_file, and get_next_cluster with its one-sector FAT cache.    *)
(*                                                                         *)
(* Every call of disk->read_sectors is a step of its own and may fail, as  *)
(* ata_read_sectors does when a timeout runs out; a failed transfer of     *)
(* several sectors has stored the first ones.  A sector is identified by   *)
(* what mkfs.vfat put there, not by its number.                            *)
(***************************************************************************)
EXTENDS Integers, Sequences, FiniteSets

CONSTANTS
  Volumes,        \* the disks, see WellFormed
  Filenames,      \* names asked for, sequences of characters
  Calls,          \* files the loader opens; stage2_main opens up to four
  SectorBytes,    \* 512
  EntPerSec,      \* cluster numbers in a FAT sector, 128
  DirPerSec,      \* directory entries in a sector, 16
  MaxRunSectors,  \* 128, the limit of one coalesced transfer
  NameLen, ExtLen, \* 8 and 3
  EndMark,        \* 0x0FFFFFF8: from here on a number ends the chain
  NoCluster,      \* 0xFFFFFFFF: get_next_cluster's error
  MaxSectors      \* sectors of the largest buffer that is looked at

\* A FAT32 volume with its directory: the table leads through every chain to
\* the end mark, the chains (the root directory's and those of the files)
\* share no cluster, the directory fills its chain, and an entry in use that
\* is not empty names the first cluster of a chain with room for its size.
WellFormed(v) ==
  /\ v.start \in Nat /\ v.superfloppy \in BOOLEAN
  /\ v.superfloppy => v.start = 0
  /\ v.partitions \in Seq([type : STRING, lba : Nat])
  /\ ~v.superfloppy => \E k \in DOMAIN v.partitions :
       /\ v.partitions[k] = [type |-> "fat32", lba |-> v.start]
       /\ \A j \in 1 .. k - 1 : v.partitions[j].type # "fat32"
  /\ {v.reserved_sectors, v.fat_count, v.sectors_per_fat,
      v.sectors_per_cluster} \subseteq Nat \ {0}
  /\ v.chains \subseteq Seq(2 .. EndMark - 2) \ {<<>>} /\ v.root \in v.chains
  /\ \A chain \in v.chains : \A k \in DOMAIN chain :
       /\ chain[k] \in DOMAIN v.fat /\ chain[k] < v.sectors_per_fat * EntPerSec
       /\ v.fat[chain[k]] = IF k = Len(chain) THEN EndMark ELSE chain[k + 1]
  /\ \A x, y \in v.chains : \A j \in DOMAIN x, k \in DOMAIN y :
       x[j] = y[k] => x = y /\ j = k
  /\ v.dir \in Seq([first : {"used", "deleted", "end"}, cluster : Nat,
                    name : [1 .. NameLen + ExtLen -> STRING], size : Nat])
  /\ Len(v.dir) = Len(v.root) * v.sectors_per_cluster * DirPerSec
  /\ \A k \in DOMAIN v.dir : v.dir[k].first = "used" /\ v.dir[k].size > 0 =>
       \E chain \in v.chains :
         /\ chain[1] = v.dir[k].cluster
         /\ v.dir[k].size <= Len(chain) * v.sectors_per_cluster * SectorBytes

\* The character that pads a short name.
Blank == " "

\* The tag ends at its first blank: the names asked for have none.
NoBlanks(filename) ==
  /\ filename \in Seq(STRING)
  /\ \A k \in DOMAIN filename : filename[k] # Blank

ASSUME FatAssumption ==
  /\ SectorBytes \in Nat \ {0} /\ EntPerSec \in Nat \ {0}
  /\ DirPerSec \in Nat \ {0} /\ MaxRunSectors \in Nat \ {0}
  /\ NameLen \in Nat \ {0} /\ ExtLen \in Nat
  /\ EndMark \in Nat /\ NoCluster \in Nat /\ NoCluster > EndMark
  /\ Calls \in Nat \ {0} /\ MaxSectors \in Nat
  /\ \A v \in Volumes : WellFormed(v)
  /\ \A f \in Filenames : NoBlanks(f)

VARIABLES
  pc,             \* where the reader is
  vol,            \* the disk, which nobody writes
  partition_lba,  \* g_partition_lba
  vbr,            \* g_vbr: is it the volume's boot record?
  cached_sec, cache_buf,       \* statics of get_next_cluster
  asked,          \* the file name of this call
  cluster, next,  \* the cluster at hand and its successor
  s,              \* sector of the directory cluster, or of the slow transfer
  out_cluster, out_size,       \* what fat32_find_file found
  start_cluster, cluster_count, remaining, out,   \* fat32_read_file's locals
  buffer,         \* the caller's memory, by sectors
  result,         \* the value the last call returned
  io,             \* the last request to the disk
  calls,          \* files opened so far
  fat_failed      \* ghost: a FAT sector could not be read in this call

cache == <<cached_sec, cache_buf>>
dirvars == <<asked, s, out_cluster, out_size>>
run == <<start_cluster, cluster_count>>
sink == <<remaining, out, buffer>>
fixed == <<vol, partition_lba, vbr>>
vars == <<pc, fixed, cache, dirvars, cluster, next, run, sink, result, io,
          calls, fat_failed>>

NoSector == 0 - 1
Unwritten == <<"unwritten">>
Spc == vol.sectors_per_cluster
EmptyBuffer == [k \in 0 .. MaxSectors - 1 |-> Unwritten]

-----------------------------------------------------------------------------
(* The disk *)

\* The file allocation table on the disk.
FatEntry(c) == IF c \in DOMAIN vol.fat THEN vol.fat[c] ELSE 0

DataStart ==
  vol.start + vol.reserved_sectors + vol.fat_count * vol.sectors_per_fat

\* What mkfs.vfat put at a sector of the disk.
SectorAt(lba) ==
  LET fat == lba - vol.start - vol.reserved_sectors
      data == lba - DataStart
  IN IF data >= 0 THEN <<"data", data \div Spc + 2, data % Spc>>
     ELSE IF fat >= 0 THEN <<"fat", fat % vol.sectors_per_fat>>
     ELSE <<"boot", lba>>

Request(lba, count) == io' = [lba |-> lba, count |-> count]

\* The sectors lba, lba + 1, ... stored in the buffer from sector at on.
Stored(at, lba, count) ==
  [k \in 0 .. MaxSectors - 1 |->
     IF k \in at .. at + count - 1 THEN SectorAt(lba + k - at) ELSE buffer[k]]

-----------------------------------------------------------------------------
(* fat32_init *)

Init ==
  /\ pc = "init" /\ vol \in Volumes
  /\ partition_lba = 0 /\ vbr = "none"
  /\ cached_sec = NoSector
  /\ cache_buf = [o \in 0 .. EntPerSec - 1 |-> 0]
  /\ asked = <<>> /\ cluster = 0 /\ next = 0 /\ s = 0
  /\ out_cluster = 0 /\ out_size = 0
  /\ start_cluster = 0 /\ cluster_count = 0 /\ remaining = 0 /\ out = 0
  /\ buffer = EmptyBuffer
  /\ result = 0 /\ io = [lba |-> 0, count |-> 1] /\ calls = 0
  /\ fat_failed = FALSE

Return(value) == pc' = "idle" /\ result' = value

\* The first partition with type 0x0B or 0x0C.
FirstPartition ==
  vol.partitions[CHOOSE k \in DOMAIN vol.partitions :
    /\ vol.partitions[k].type = "fat32"
    /\ \A j \in 1 .. k - 1 : vol.partitions[j].type # "fat32"].lba

\* Sector 0 is the volume's boot record, or it has a partition table.  (Disks
\* without a FAT32 partition are not modelled.)
ReadSectorZero ==
  /\ pc = "init"
  /\ Request(0, 1)
  /\ \/ /\ vol.superfloppy
        /\ partition_lba' = 0 /\ vbr' = "valid" /\ Return(0)
     \/ /\ ~vol.superfloppy
        /\ partition_lba' = FirstPartition
        /\ pc' = "read_vbr" /\ UNCHANGED <<vbr, result>>
     \/ pc' = "halted" /\ result' = -1 /\ UNCHANGED <<partition_lba, vbr>>
  /\ UNCHANGED <<vol, cache, dirvars, cluster, next, run, sink, calls,
                 fat_failed>>

ReadVbr ==
  /\ pc = "read_vbr"
  /\ Request(partition_lba, 1)
  /\ \/ /\ vbr' = IF partition_lba = vol.start THEN "valid" ELSE "wrong"
        /\ Return(0)
     \/ pc' = "halted" /\ result' = -1 /\ UNCHANGED vbr
  /\ UNCHANGED <<vol, partition_lba, cache, dirvars, cluster, next, run, sink,
                 calls, fat_failed>>

-----------------------------------------------------------------------------
(* Clusters *)

\* get_cluster_lba: clusters count from 2, behind all copies of the table.
ClusterLba(c) ==
  partition_lba + vol.reserved_sectors + vol.fat_count * vol.sectors_per_fat
    + (c - 2) * Spc

\* Mutant: the cached sector number is set although the read failed.
FatReadFailsLate(sec) == cached_sec' = sec /\ UNCHANGED cache_buf

FatReadFails(sec) == UNCHANGED cache

\* get_next_cluster: value is what it returns.
GetNextCluster(c, value) ==
  LET sec == c \div EntPerSec
  IN \/ /\ cached_sec = sec
        /\ value = cache_buf[c % EntPerSec]
        /\ UNCHANGED <<cache, io, fat_failed>>
     \/ /\ cached_sec # sec
        /\ Request(partition_lba + vol.reserved_sectors + sec, 1)
        /\ \/ /\ cached_sec' = sec
              /\ cache_buf' = [o \in 0 .. EntPerSec - 1 |->
                                 FatEntry(sec * EntPerSec + o)]
              /\ value = FatEntry(c)
              /\ UNCHANGED fat_failed
           \/ value = NoCluster /\ fat_failed' = TRUE /\ FatReadFails(sec)

-----------------------------------------------------------------------------
(* fat32_find_file *)

LowerCase == [a |-> "A", b |-> "B", c |-> "C"]
Upper(c) == IF c \in DOMAIN LowerCase THEN LowerCase[c] ELSE c

\* The 8.3 form of a file name, padded with blanks.
Tag(filename) ==
  LET dots == {k \in DOMAIN filename : filename[k] = "."}
      dot == IF dots = {} THEN Len(filename) + 1
             ELSE CHOOSE k \in dots : \A j \in dots : k <= j
      At(k) == IF k \in DOMAIN filename THEN Upper(filename[k]) ELSE Blank
  IN [j \in 1 .. NameLen + ExtLen |->
        IF j <= NameLen THEN (IF j < dot THEN At(j) ELSE Blank)
        ELSE At(dot + j - NameLen)]

\* Mutant: a blank does not end the comparison, only a tilde does.
MatchesToTilde(name, tag) ==
  /\ \A j \in 1 .. NameLen :
       name[j] = tag[j] \/ \E k \in 1 .. j : name[k] = "~"
  /\ \A j \in NameLen + 1 .. NameLen + ExtLen :
       tag[j] = Blank \/ name[j] = tag[j]

\* The name is compared up to the first blank of the tag or tilde of the
\* entry, the extension where the tag has one.
Matches(name, tag) ==
  /\ \A j \in 1 .. NameLen :
       \/ name[j] = tag[j]
       \/ \E k \in 1 .. j : tag[k] = Blank \/ name[k] = "~"
  /\ \A j \in NameLen + 1 .. NameLen + ExtLen :
       tag[j] = Blank \/ name[j] = tag[j]

\* The directory entries of sector s of a cluster, in order.
EntriesAt(c, sec) ==
  LET k == CHOOSE j \in DOMAIN vol.root : vol.root[j] = c
      first == ((k - 1) * Spc + sec) * DirPerSec
  IN SubSeq(vol.dir, first + 1, first + DirPerSec)

Live(e) == e.first = "used"

FindFile(filename) ==
  /\ pc = "idle" /\ calls < Calls
  /\ calls' = calls + 1
  /\ asked' = filename /\ fat_failed' = FALSE
  /\ cluster' = vol.root[1] /\ s' = 0
  /\ pc' = "dir"
  /\ UNCHANGED <<fixed, cache, out_cluster, out_size, next, run, sink, result,
                 io>>

\* One sector of the directory: the first entry that matches is taken.
\* Unused entries are passed over, the end mark among them.
ScanSector ==
  /\ pc = "dir" /\ cluster < EndMark /\ s < Spc
  /\ Request(ClusterLba(cluster) + s, 1)
  /\ \/ /\ SectorAt(ClusterLba(cluster) + s)[1] = "data"
        /\ LET found == SectorAt(ClusterLba(cluster) + s)
               entries == IF \E j \in DOMAIN vol.root : vol.root[j] = found[2]
                            THEN EntriesAt(found[2], found[3]) ELSE <<>>
               hits == {k \in DOMAIN entries :
                          Live(entries[k]) /\ Matches(entries[k].name, Tag(asked))}
           IN IF hits = {}
                THEN s' = s + 1 /\ UNCHANGED <<pc, out_cluster, out_size, result>>
                ELSE LET k == CHOOSE j \in hits : \A i \in hits : j <= i
                     IN /\ out_cluster' = entries[k].cluster
                        /\ out_size' = entries[k].size
                        /\ pc' = "found" /\ result' = 0 /\ UNCHANGED s
     \/ Return(-1) /\ UNCHANGED <<s, out_cluster, out_size>>
  /\ UNCHANGED <<fixed, cache, asked, cluster, next, run, sink, calls,
                 fat_failed>>

\* Mutant: the successor is looked up and not used.
NextDirClusterDropped ==
  /\ pc = "dir" /\ cluster < EndMark /\ s = Spc
  /\ s' = 0
  /\ UNCHANGED <<pc, fixed, cache, asked, out_cluster, out_size, cluster, next,
                 run, sink, result, io, calls, fat_failed>>

NextDirCluster ==
  /\ pc = "dir" /\ cluster < EndMark /\ s = Spc
  /\ GetNextCluster(cluster, cluster')
  /\ s' = 0
  /\ UNCHANGED <<pc, fixed, asked, out_cluster, out_size, next, run, sink,
                 result, calls>>

NotFound ==
  /\ pc = "dir" /\ cluster >= EndMark
  /\ Return(-1)
  /\ UNCHANGED <<fixed, cache, dirvars, cluster, next, run, sink, io, calls,
                 fat_failed>>

-----------------------------------------------------------------------------
(* fat32_read_file *)

\* Every caller goes on to read what was found, into memory of its own.
ReadFile ==
  /\ pc = "found"
  /\ pc' = "read" /\ cluster' = out_cluster
  /\ remaining' = out_size /\ out' = 0 /\ buffer' = EmptyBuffer
  /\ UNCHANGED <<fixed, cache, dirvars, next, run, result, io, calls,
                 fat_failed>>

\* while (remaining > 0 && cluster < 0x0FFFFFF8)
StartRun ==
  /\ pc = "read" /\ remaining > 0 /\ cluster < EndMark
  /\ start_cluster' = cluster /\ cluster_count' = 1
  /\ GetNextCluster(cluster, next')
  /\ pc' = "run"
  /\ UNCHANGED <<fixed, dirvars, cluster, sink, result, calls>>

ReadDone ==
  /\ pc = "read" /\ (remaining = 0 \/ cluster >= EndMark)
  /\ Return(0)
  /\ UNCHANGED <<fixed, cache, dirvars, cluster, next, run, sink, io, calls,
                 fat_failed>>

RunSectors == cluster_count * Spc

\* Mutant: a run has no limit.
RunGrowsUnlimited ==
  next = cluster + 1 /\ remaining > RunSectors * SectorBytes

RunGrows ==
  /\ next = cluster + 1
  /\ remaining > RunSectors * SectorBytes
  /\ (cluster_count + 1) * Spc <= MaxRunSectors

ExtendRun ==
  /\ pc = "run" /\ RunGrows
  /\ cluster_count' = cluster_count + 1 /\ cluster' = next
  /\ GetNextCluster(next, next')
  /\ UNCHANGED <<pc, fixed, dirvars, start_cluster, sink, result, calls>>

\* All clusters of the run are needed as a whole: one transfer.
TransferRun ==
  /\ pc = "run" /\ ~RunGrows /\ remaining >= RunSectors * SectorBytes
  /\ Request(ClusterLba(start_cluster), RunSectors)
  /\ \/ /\ buffer' = Stored(out, ClusterLba(start_cluster), RunSectors)
        /\ out' = out + RunSectors
        /\ remaining' = remaining - RunSectors * SectorBytes
        /\ cluster' = next /\ pc' = "read" /\ UNCHANGED result
     \/ /\ \E n \in 0 .. RunSectors - 1 :
             buffer' = Stored(out, ClusterLba(start_cluster), n)
        /\ Return(-1) /\ UNCHANGED <<out, remaining, cluster>>
  /\ UNCHANGED <<fixed, cache, dirvars, next, run, calls, fat_failed>>

\* Mutant: a sector that is only partly needed is not read.
TailSectorsDown == remaining \div SectorBytes

TailSectors == (remaining + SectorBytes - 1) \div SectorBytes

\* The end of the file lies in the run: only the sectors up to it are read.
TransferTail ==
  /\ pc = "run" /\ ~RunGrows /\ remaining < RunSectors * SectorBytes
  /\ Request(ClusterLba(start_cluster), TailSectors)
  /\ \/ /\ buffer' = Stored(out, ClusterLba(start_cluster), TailSectors)
        /\ remaining' = 0
        /\ cluster' = next /\ pc' = "read" /\ UNCHANGED s
     \/ /\ \E n \in 0 .. TailSectors - 1 :
             buffer' = Stored(out, ClusterLba(start_cluster), n)
        /\ s' = 0 /\ pc' = "slow" /\ UNCHANGED <<remaining, cluster>>
  /\ UNCHANGED <<fixed, cache, asked, out_cluster, out_size, next, run, out,
                 result, calls, fat_failed>>

\* Mutant: the slow transfer always reads the run's first sector.
SlowLbaStuck == ClusterLba(start_cluster)

SlowLba == ClusterLba(start_cluster) + s

\* That failed: the same sectors again, one by one.
TransferSector ==
  /\ pc = "slow" /\ remaining > 0
  /\ Request(SlowLba, 1)
  /\ \/ /\ buffer' = Stored(out, SlowLba, 1)
        /\ s' = s + 1
        /\ IF remaining >= SectorBytes
             THEN out' = out + 1 /\ remaining' = remaining - SectorBytes
             ELSE remaining' = 0 /\ UNCHANGED out
        /\ UNCHANGED <<pc, result>>
     \/ Return(-1) /\ UNCHANGED <<s, buffer, out, remaining>>
  /\ UNCHANGED <<fixed, cache, asked, out_cluster, out_size, cluster, next, run,
                 calls, fat_failed>>

SlowDone ==
  /\ pc = "slow" /\ remaining = 0
  /\ cluster' = next /\ pc' = "read"
  /\ UNCHANGED <<fixed, cache, dirvars, next, run, sink, result, io, calls,
                 fat_failed>>

-----------------------------------------------------------------------------

Stopped == pc = "halted" \/ (pc = "idle" /\ calls = Calls)
Done == Stopped /\ UNCHANGED vars

Working ==
  \/ ReadSectorZero \/ ReadVbr
  \/ ScanSector \/ NextDirCluster \/ NotFound
  \/ ReadFile \/ StartRun \/ ReadDone \/ ExtendRun \/ TransferRun
  \/ TransferTail \/ TransferSector \/ SlowDone

Next == Working \/ (\E f \in Filenames : FindFile(f)) \/ Done

\* A call that was started goes on; nothing says that there is another one.
Spec == Init /\ [][Next]_vars /\ WF_vars(Working)

-----------------------------------------------------------------------------
(* Properties *)

\* The one cached FAT sector is what the disk has under its number, whatever
\* failed in between: a stale or half-replaced sector would send the reader
\* into another file's chain.
CacheCoherent ==
  cached_sec # NoSector =>
    \A o \in 0 .. EntPerSec - 1 :
      cache_buf[o] = FatEntry(cached_sec * EntPerSec + o)

\* Sector k of the file that starts at out_cluster.
FileSector(k) ==
  LET chain == CHOOSE x \in vol.chains : x[1] = out_cluster
  IN <<"data", chain[k \div Spc + 1], k % Spc>>

FileSectors == (out_size + SectorBytes - 1) \div SectorBytes

\* Wherever a read stands, and however it ended, the caller's memory has the
\* file's own sectors at their own places: coalescing, the slow path and the
\* two ways of counting what remains never shift, repeat or mix sectors, and
\* nothing is stored behind the last sector of the file.
SectorsInPlace ==
  pc \in {"read", "run", "slow", "idle"} =>
    \A k \in DOMAIN buffer :
      buffer[k] # Unwritten => k < FileSectors /\ buffer[k] = FileSector(k)

\* A read that returns 0 has delivered the whole file, unless a sector of the
\* FAT could not be read: that error is taken for the end of the chain.
ReadComplete ==
  pc = "idle" /\ calls > 0 /\ result = 0 /\ ~fat_failed =>
    \A k \in DOMAIN buffer : k < FileSectors => buffer[k] # Unwritten

\* No request leaves the files: each names between one sector and the larger of
\* 128 and a cluster (the drive's sector count has 8 bits), and each sector of
\* the data area it covers belongs to the directory or to a file.
RequestsInFiles ==
  /\ io.count \in 1 .. (IF Spc > MaxRunSectors THEN Spc ELSE MaxRunSectors)
  /\ \A k \in 0 .. io.count - 1 :
       LET x == SectorAt(io.lba + k)
       IN x[1] = "data" =>
            \E chain \in vol.chains : \E j \in DOMAIN chain : chain[j] = x[2]

\* What a name stands for: an entry whose name begins with the given one, as
\* far as eight characters and a tilde of the entry allow, and whose extension
\* begins with the given one.
Denotes(filename, name) ==
  LET dots == {k \in DOMAIN filename : filename[k] = "."}
      Base == {k \in DOMAIN filename : \A d \in dots : k < d}
      Ext == {k \in DOMAIN filename : \E d \in dots : d < k /\ \A e \in dots : d <= e}
      tildes == {k \in 1 .. NameLen : name[k] = "~"}
  IN /\ \A k \in Base : k <= NameLen /\ (\A d \in tildes : k < d) =>
          name[k] = Upper(filename[k])
     /\ \A k \in Ext :
          LET j == k - Cardinality(Base) - 1
          IN j <= ExtLen => name[NameLen + j] = Upper(filename[k])

Hits(filename) ==
  {k \in DOMAIN vol.dir :
     vol.dir[k].first = "used" /\ Denotes(filename, vol.dir[k].name)}

\* The search finds the first entry of the whole directory that the name stands
\* for, across sectors and clusters, and gives up without an answer only when
\* there is none or the disk failed.
FindsFirst ==
  [][/\ pc = "dir" /\ pc' = "found" =>
          \E k \in Hits(asked) :
            /\ \A j \in Hits(asked) : k <= j
            /\ out_cluster' = vol.dir[k].cluster /\ out_size' = vol.dir[k].size
     /\ NotFound => fat_failed \/ Hits(asked) = {}]_vars

\* Every call returns, with or without a working disk.
Returns == pc \in {"dir", "found", "read", "run", "slow"} ~> pc = "idle"
=============================================================================
