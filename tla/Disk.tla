-------------------------------- MODULE Disk --------------------------------
(***************************************************************************)
(* Block devices and the disk manager above the IDE driver: the boot       *)
(* registers the drives that answer, makes volumes of their partitions and *)
(* reads the first sector of each; from then on callers read volumes.      *)
(***************************************************************************)
EXTENDS Ide, Partitions, SequencesExt

CONSTANTS
    all_drives,         \* the drives in the order they are looked at
    Machines,           \* what may be attached
    DSK_MAX_VOLUMES,
    LBA_MOD,            \* 2^64, scaled down
    Lbas, Counts        \* what callers ask of a volume: uint64_t and uint32_t

VolumeType == [parent_disk : Drives, lba_start : Nat, lba_end : Nat]

\* A partition table may hold any words.
ASSUME DiskAssumption ==
    /\ all_drives \in Seq(Drives) /\ IsInjective(all_drives)
    /\ DSK_MAX_VOLUMES \in Nat /\ ENTRIES * Len(all_drives) <= DSK_MAX_VOLUMES
    /\ \A m \in Machines : \A d \in Drives :
          /\ m[d].kind \in {"absent", "packet", "disk"}
          /\ m[d].size \in Words
          /\ m[d].signed \in BOOLEAN
          /\ m[d].table \in Seq([partition_type : STRING, lba_partition_start : Words, lba_num_sectors : Words])
          /\ Len(m[d].table) = ENTRIES
    /\ NULL \notin [vol : VolumeType, lba : Nat, count : Nat]
    /\ LBA_MOD \in Nat /\ 2 * WORD <= LBA_MOD
    /\ Lbas \subseteq 0..LBA_MOD - 1 /\ Counts \subseteq Words

VARIABLES
    pc,                     \* where the boot has come to
    i,                      \* the loop counter there
    block_drives,           \* with block_drives_count its length
    diskmanager_volumes,    \* with diskmanager_volume_counts its length
    asked                   \* the latest read of a volume

vars == <<ideVars, pc, i, block_drives, diskmanager_volumes, asked>>

Init ==
    /\ machine \in Machines
    /\ IdeInit
    /\ pc = "probe" /\ i = 1
    /\ block_drives = <<>> /\ diskmanager_volumes = <<>>
    /\ asked = NULL
-----------------------------------------------------------------------------
(* block_device.c *)

\* block_devices_validate_and_add() looks at the next drive.
ProbeDrive ==
    /\ pc = "probe" /\ i <= Len(all_drives)
    /\ LET d == all_drives[i]
       IN  IF ProbeOk(d)
           THEN StartCount(d) /\ pc' = "counted" /\ UNCHANGED i
           ELSE /\ Select(d) /\ i' = i + 1
                /\ UNCHANGED <<machine, ata, failed, sector_count, call, ret, unread, pc>>
    /\ UNCHANGED <<block_drives, diskmanager_volumes, asked>>

\* A drive is kept whatever it answered.
AddUnchecked(d) == Append(block_drives, d)

\* A drive that does not tell its size is left out.
Added(d) == IF ret.res = BLD_SIZE_ERR THEN block_drives ELSE Append(block_drives, d)

\* The first drive that fails ends the search.
CountedBreaking ==
    /\ pc = "counted" /\ call = NULL
    /\ block_drives' = Added(all_drives[i])
    /\ i' = (IF ret.res = BLD_SIZE_ERR THEN Len(all_drives) ELSE i) + 1
    /\ pc' = "probe"
    /\ UNCHANGED <<ideVars, diskmanager_volumes, asked>>

Counted ==
    /\ pc = "counted" /\ call = NULL
    /\ block_drives' = Added(all_drives[i])
    /\ i' = i + 1 /\ pc' = "probe"
    /\ UNCHANGED <<ideVars, diskmanager_volumes, asked>>

\* The next loop of the boot: diskmanager_init().
NextLoop(from, bound, to) ==
    /\ pc = from /\ i > bound
    /\ pc' = to /\ i' = 1
    /\ UNCHANGED <<ideVars, block_drives, diskmanager_volumes, asked>>
-----------------------------------------------------------------------------
(* diskmanager.c *)

\* diskmanager_setup_drive() reads the first sector.
ReadFirst ==
    /\ pc = "setup" /\ i <= Len(block_drives)
    /\ StartRead(block_drives[i], 0, 1)
    /\ pc' = "first"
    /\ UNCHANGED <<i, block_drives, diskmanager_volumes, asked>>

\* What it finds there, in the sector the read delivered.
Found(d) ==
    LET first == machine[ret.data[1][1]]
    IN  IF ret.res # 1 \/ ~first.signed THEN <<>>
        ELSE IF Accepted(first.table)
        THEN [k \in DOMAIN Volumes(first.table) |->
                 [parent_disk |-> d,
                  lba_start |-> Volumes(first.table)[k].lba_start,
                  lba_end |-> Volumes(first.table)[k].lba_end]]
        ELSE <<[parent_disk |-> d, lba_start |-> 0, lba_end |-> sector_count[d]]>>

SetupDrive ==
    /\ pc = "first" /\ call = NULL
    /\ diskmanager_volumes' = diskmanager_volumes \o Found(block_drives[i])
    /\ i' = i + 1 /\ pc' = "setup"
    /\ UNCHANGED <<ideVars, block_drives, asked>>

\* The sum of two words of 64 bits.
ActualLba(vol, lba) == (lba + vol.lba_start) % LBA_MOD

\* The end of the request is not cut at the end of the volume.
CountUnclamped(vol, lba, count) == count

\* actual_end - actual_lba
CountInside(vol, lba, count) ==
    LET actual_end == (ActualLba(vol, lba) + count) % LBA_MOD
    IN  (IF actual_end > vol.lba_end THEN vol.lba_end ELSE actual_end) - ActualLba(vol, lba)

\* diskmanager_read_volume()
ReadVolume(vol, lba, count) ==
    /\ asked' = [vol |-> vol, lba |-> lba, count |-> count]
    /\ IF ActualLba(vol, lba) > vol.lba_end
       THEN Return(0, <<>>) /\ UNCHANGED <<machine, ata, unit, failed, sector_count, unread>>
       ELSE StartRead(vol.parent_disk, ActualLba(vol, lba), CountInside(vol, lba, count))

\* diskmanager_setup_partitions()
SetupPartitions ==
    /\ pc = "partitions" /\ call = NULL
    /\ i <= Len(diskmanager_volumes)
    /\ ReadVolume(diskmanager_volumes[i], 0, 1)
    /\ i' = i + 1
    /\ UNCHANGED <<pc, block_drives, diskmanager_volumes>>

\* Any caller after the boot, one at a time: the driver has no lock, and the
\* kernel no second thread that reads volumes.
ClientRead ==
    /\ pc = "ready" /\ call = NULL
    /\ \E vol \in Range(diskmanager_volumes), lba \in Lbas, count \in Counts :
          ReadVolume(vol, lba, count)
    /\ UNCHANGED <<pc, i, block_drives, diskmanager_volumes>>

Boot ==
    \/ ProbeDrive \/ Counted \/ NextLoop("probe", Len(all_drives), "setup")
    \/ ReadFirst \/ SetupDrive \/ NextLoop("setup", Len(block_drives), "partitions")
    \/ SetupPartitions
    \/ call = NULL /\ NextLoop("partitions", Len(diskmanager_volumes), "ready")

Below == (Driver \/ Controller) /\ UNCHANGED <<pc, i, block_drives, diskmanager_volumes, asked>>

Next == Boot \/ ClientRead \/ Below

Spec == Init /\ [][Next]_vars

\* The kernel is alone with the controller: nothing stops the boot or a call
\* but a controller that no longer answers.
FairSpec == Spec /\ WF_vars(Boot) /\ WF_vars(Below)
-----------------------------------------------------------------------------
(* Properties *)

\* Every variable keeps its type, only drives of known size are registered,
\* each once, and the table of volumes does not overflow.
TypeOK ==
    /\ pc \in {"probe", "counted", "setup", "first", "partitions", "ready"} /\ i \in Nat \ {0}
    /\ IsInjective(block_drives)
    /\ \A d \in Range(block_drives) : sector_count[d] = machine[d].size /\ sector_count[d] > 0
    /\ Range(diskmanager_volumes) \subseteq VolumeType
    /\ Len(diskmanager_volumes) <= DSK_MAX_VOLUMES
    /\ call # NULL => call.limit < MAX_COUNT /\ Len(call.got) <= call.limit
    /\ failed \subseteq Drives

\* Whatever words the tables of the drives hold, no volume is empty and no two
\* volumes of a drive overlap.  (An entry whose end wraps past 32 bits gives a
\* volume that ends before it begins, which the test for empty ones lets by.)
VolumesApart ==
    \A j, k \in DOMAIN diskmanager_volumes :
        LET v == diskmanager_volumes[j]
            w == diskmanager_volumes[k]
        IN  /\ v.lba_start # v.lba_end
            /\ j # k /\ v.parent_disk = w.parent_disk =>
                  v.lba_end <= w.lba_start \/ w.lba_end <= v.lba_start

\* A read of a volume delivers, in order, the sectors asked for, none of them
\* past the end of the volume, and none before its start unless the address
\* itself wraps past 64 bits, which nothing tests.
VolumeReadsStayInside ==
    asked # NULL /\ call = NULL /\ asked.vol.parent_disk \notin unread =>
        \A k \in DOMAIN ret.data :
            LET lba == ActualLba(asked.vol, asked.lba) + k - 1
            IN  /\ ret.data[k] = <<asked.vol.parent_disk, lba>>
                /\ lba < asked.vol.lba_end
                /\ lba < asked.vol.lba_start => asked.lba + asked.vol.lba_start >= LBA_MOD

\* The disk manager announces a volume as lba[start-end) and refuses what is
\* "out of bounds": a read that it hands to the driver begins in the volume.
ReadsBeginInVolume ==
    asked # NULL /\ call # NULL =>
        asked.vol.lba_start <= call.lba /\ call.lba < asked.vol.lba_end

Healthy(d) ==
    machine[d].kind = "disk" /\ machine[d].size > 0 /\ machine[d].signed /\ d \notin failed

\* The boot ends, and a drive that fails or is missing does not keep the
\* others from their volumes.
HealthyDrivesServed ==
    <>(/\ pc = "ready"
       /\ \A d \in Drives : Healthy(d) =>
             \E v \in Range(diskmanager_volumes) : v.parent_disk = d)
=============================================================================
