----------------------------- MODULE Partitions -----------------------------
(***************************************************************************)
(* What diskmanager_mbr_check() makes of the partition table in the first  *)
(* sector of a drive: the volumes its used entries describe, or nothing    *)
(* when they cannot all be partitions of one disk.                         *)
(***************************************************************************)
EXTENDS Integers, Sequences, FiniteSets

CONSTANTS
    WORD,       \* 2^32, scaled down
    ENTRIES,    \* entries of a partition table, 4 in the code
    UNUSED      \* the partition type MBR_PARTITION_UNUSED

\* The size of the table, and words that hold some sector number.
ASSUME PartitionsAssumption == WORD \in Nat \ {0} /\ ENTRIES \in Nat \ {0}

Words == 0..WORD - 1

\* lba_end is a sum of two 32-bit words, taken before it is widened.
EndOf(entry) == (entry.lba_partition_start + entry.lba_num_sectors) % WORD

Used(table) == {k \in 1..ENTRIES : table[k].partition_type # UNUSED}

\* lba_end - lba_start <= 0, in unsigned arithmetic.
NoSectors(entry) == EndOf(entry) = entry.lba_partition_start

\* Only an entry that starts before the other is tested against it.
OverlapOneWay(e, f) ==
    e.lba_partition_start < f.lba_partition_start /\ EndOf(e) > f.lba_partition_start

\* Entry e against an earlier entry f.
Overlap(e, f) ==
    IF e.lba_partition_start < f.lba_partition_start
    THEN EndOf(e) > f.lba_partition_start
    ELSE EndOf(f) > e.lba_partition_start

\* The table describes volumes; if not, the caller takes the drive for one
\* volume.
Accepted(table) ==
    /\ Used(table) # {}
    /\ \A k \in Used(table) : ~NoSectors(table[k])
    /\ \A k, j \in Used(table) : j < k => ~Overlap(table[k], table[j])

\* Where the table has its n-th used entry.
Nth(table, n) == CHOOSE k \in Used(table) : Cardinality({j \in Used(table) : j <= k}) = n

\* may_be_used_entries[], in the order of the table.
Volumes(table) ==
    [n \in 1..Cardinality(Used(table)) |->
        [lba_start |-> table[Nth(table, n)].lba_partition_start,
         lba_end |-> EndOf(table[Nth(table, n)])]]
=============================================================================
