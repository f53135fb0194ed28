----------------------------- MODULE DiskProofs -----------------------------
(***************************************************************************)
(* Proofs about Disk, for every set of drives, every partition table and   *)
(* every controller that behaves as Ide says.                              *)
(***************************************************************************)
EXTENDS Disk, FiniteSetTheorems, SequenceTheorems, TLAPS

(* Numbers *)

\* A nonempty set of numbers up to a bound has a least element: the intervals
\* up to its elements are finite sets, and one of them is contained in all.
LEMMA LeastNumber ==
    ASSUME NEW bound \in Nat, NEW S \in SUBSET (0..bound), S # {}
    PROVE  \E n \in S : \A k \in S : n <= k
<1> DEFINE All == 0..bound
           Intervals == {0..k : k \in S}
<1>1. Intervals \subseteq FiniteSubsetsOf(All)
    <2>1. IsFiniteSet(All)
        BY FS_Interval
    <2>2. \A k \in S : 0..k \in SUBSET All
        OBVIOUS
    <2> QED
        BY <2>1, <2>2, FS_FiniteSubsetsOfFinite
<1>2. IsWellFoundedOn(StrictSubsetOrdering(All), FiniteSubsetsOf(All))
    BY FS_StrictSubsetOrderingWellFounded
<1>3. PICK least \in Intervals : \A other \in Intervals : <<other, least>> \notin StrictSubsetOrdering(All)
    <2>1. Intervals # {}
        OBVIOUS
    <2> HIDE DEF Intervals, All
    <2> QED
        BY <1>1, <1>2, <2>1, WFMin
<1>4. PICK n \in S : least = 0..n
    OBVIOUS
<1>5. ASSUME NEW k \in S, k < n
      PROVE  FALSE
    <2>1. 0..k \subseteq 0..n /\ 0..k # 0..n /\ 0..k \in SUBSET All /\ 0..n \in SUBSET All
        <3>1. n \in 0..n /\ n \notin 0..k
            BY <1>5
        <3> QED
            BY <1>5, <3>1
    <2>2. <<0..k, least>> \in StrictSubsetOrdering(All)
        BY <1>4, <2>1 DEF StrictSubsetOrdering
    <2> QED
        BY <1>3, <2>2
<1> QED
    BY <1>5

\* The used entries are numbered without a gap.
LEMMA NthIsUsed ==
    ASSUME NEW table, NEW n \in 1..Cardinality(Used(table))
    PROVE  /\ Nth(table, n) \in Used(table)
           /\ Cardinality({j \in Used(table) : j <= Nth(table, n)}) = n
<1> DEFINE U == Used(table)
           Upto(k) == {j \in U : j <= k}
           Full == {k \in 1..ENTRIES : Cardinality(Upto(k)) >= n}
<1>1. IsFiniteSet(U) /\ U \subseteq 1..ENTRIES
    <2>1. IsFiniteSet(1..ENTRIES)
        BY FS_Interval, PartitionsAssumption
    <2>2. U \subseteq 1..ENTRIES
        BY DEF Used
    <2> QED
        BY <2>1, <2>2, FS_Subset
<1>2. \A k \in Nat : IsFiniteSet(Upto(k)) /\ Cardinality(Upto(k)) \in Nat
    <2> TAKE k \in Nat
    <2>1. Upto(k) \subseteq U
        OBVIOUS
    <2> QED
        BY <1>1, <2>1, FS_Subset, FS_CardinalityType
<1>3. Full # {}
    <2>1. Upto(ENTRIES) = U
        BY <1>1, PartitionsAssumption
    <2>2. Cardinality(U) \in Nat
        BY <1>1, FS_CardinalityType
    <2> QED
        BY <2>1, <2>2, PartitionsAssumption
<1>4. PICK k \in Full : \A j \in Full : k <= j
    <2>1. ENTRIES \in Nat /\ Full \subseteq 0..ENTRIES
        BY PartitionsAssumption
    <2> QED
        BY <1>3, <2>1, LeastNumber
<1>5. k \in Nat \ {0} /\ k - 1 \in Nat /\ k - 1 \notin Full
    BY <1>4, PartitionsAssumption
<1>6. Cardinality(Upto(k - 1)) < n
    <2>1. CASE k = 1
        <3>1. Upto(0) = {}
            BY <1>1
        <3> QED
            BY <2>1, <3>1, FS_EmptySet
    <2>2. CASE k # 1
        <3>1. k - 1 \in 1..ENTRIES
            BY <1>4, <1>5, <2>2, PartitionsAssumption
        <3> QED
            BY <1>2, <1>5, <3>1
    <2> QED
        BY <2>1, <2>2
<1>7. CASE k \in U
    <2>1. Upto(k) = Upto(k - 1) \cup {k} /\ k \notin Upto(k - 1)
        BY <1>1, <1>5, <1>7
    <2>2. Cardinality(Upto(k)) = Cardinality(Upto(k - 1)) + 1
        BY <1>2, <1>5, <2>1, FS_AddElement
    <2>3. Cardinality(Upto(k)) = n
        BY <1>2, <1>4, <1>5, <1>6, <2>2
    <2> QED
        BY <1>7, <2>3 DEF Nth
<1>8. CASE k \notin U
    <2>1. Upto(k) = Upto(k - 1)
        BY <1>1, <1>5, <1>8
    <2> QED
        BY <1>2, <1>4, <1>5, <1>6, <2>1
<1> QED
    BY <1>7, <1>8

-----------------------------------------------------------------------------
(* Partition tables *)

\* The entries are words.
WordTable(table) ==
    \A k \in Used(table) :
        table[k].lba_partition_start \in Words /\ table[k].lba_num_sectors \in Words

\* The end of an entry is a word, and the sum itself when that is one.
LEMMA EndIsWord ==
    ASSUME NEW table, WordTable(table), NEW k \in Used(table)
    PROVE  /\ EndOf(table[k]) \in Words
           /\ table[k].lba_partition_start + table[k].lba_num_sectors < WORD =>
                 EndOf(table[k]) = table[k].lba_partition_start + table[k].lba_num_sectors
<1>1. \A x \in Nat, w \in Nat \ {0} : x % w \in 0..w - 1 /\ (x < w => x % w = x)
    OBVIOUS
<1> DEFINE a == table[k].lba_partition_start
           b == table[k].lba_num_sectors
<1>2. a \in Nat /\ b \in Nat /\ a + b \in Nat /\ WORD \in Nat \ {0}
    BY PartitionsAssumption DEF WordTable, Words
<1>3. EndOf(table[k]) = (a + b) % WORD
    BY DEF EndOf
<1> HIDE DEF a, b
<1>4. EndOf(table[k]) \in 0..WORD - 1 /\ (a + b < WORD => EndOf(table[k]) = a + b)
    BY <1>1, <1>2, <1>3
<1> QED
    BY <1>4 DEF a, b, Words

\* diskmanager_mbr_check(): whatever words a table holds, what an accepted one
\* describes are volumes of which none is empty and no two overlap.  An entry
\* whose end does not wrap gives a volume that begins before it ends.
THEOREM AcceptedTablesAreDisjoint ==
    ASSUME NEW table, WordTable(table), Accepted(table),
           NEW m \in DOMAIN Volumes(table), NEW n \in DOMAIN Volumes(table)
    PROVE  LET v == Volumes(table)[m]
               w == Volumes(table)[n]
           IN  /\ v.lba_start \in Words /\ v.lba_end \in Words
               /\ v.lba_start # v.lba_end
               /\ v.lba_start + table[Nth(table, m)].lba_num_sectors < WORD => v.lba_start < v.lba_end
               /\ m # n => v.lba_end <= w.lba_start \/ w.lba_end <= v.lba_start
<1> DEFINE j == Nth(table, m)
           k == Nth(table, n)
           v == Volumes(table)[m]
           w == Volumes(table)[n]
<1>1. m \in 1..Cardinality(Used(table)) /\ n \in 1..Cardinality(Used(table))
    BY DEF Volumes
<1>2. /\ j \in Used(table) /\ k \in Used(table)
      /\ m # n => j # k
    <2>1. j \in Used(table) /\ Cardinality({e \in Used(table) : e <= j}) = m
        BY <1>1, NthIsUsed
    <2>2. k \in Used(table) /\ Cardinality({e \in Used(table) : e <= k}) = n
        BY <1>1, NthIsUsed
    <2> HIDE DEF j, k
    <2> QED
        BY <2>1, <2>2
<1>3. /\ v.lba_start = table[j].lba_partition_start /\ v.lba_end = EndOf(table[j])
      /\ w.lba_start = table[k].lba_partition_start /\ w.lba_end = EndOf(table[k])
    BY <1>1 DEF Volumes
<1> HIDE DEF j, k, v, w
<1>4. \A e \in {j, k} :
        /\ table[e].lba_partition_start \in Words /\ table[e].lba_num_sectors \in Words
        /\ EndOf(table[e]) \in Words
        /\ table[e].lba_partition_start + table[e].lba_num_sectors < WORD =>
              EndOf(table[e]) = table[e].lba_partition_start + table[e].lba_num_sectors
    BY <1>2, EndIsWord DEF WordTable
<1>5. EndOf(table[j]) # table[j].lba_partition_start
    BY <1>2 DEF Accepted, NoSectors
<1>6. m # n => ~Overlap(table[j], table[k]) \/ ~Overlap(table[k], table[j])
    <2>1. j \in Nat /\ k \in Nat
        BY <1>2, PartitionsAssumption DEF Used
    <2> QED
        BY <1>2, <2>1 DEF Accepted
<1>7. \A x \in Words : x \in Nat
    BY PartitionsAssumption DEF Words
<1>8. v.lba_start + table[j].lba_num_sectors < WORD => v.lba_start < v.lba_end
    BY <1>3, <1>4, <1>5, <1>7
<1>9. m # n => v.lba_end <= w.lba_start \/ w.lba_end <= v.lba_start
    BY <1>3, <1>4, <1>6, <1>7 DEF Overlap
<1>10. /\ v.lba_start \in Words /\ v.lba_end \in Words
       /\ v.lba_start # v.lba_end
    BY <1>3, <1>4, <1>5
<1> QED
    BY <1>8, <1>9, <1>10 DEF v, w, j

-----------------------------------------------------------------------------
(* The invariant *)

AtaStates == [st : {"idle", "busy", "data", "error"}, op : {"none", "identify", "read", "reset"},
              next : Nat, left : Nat]

IdeTypes ==
    /\ machine \in Machines
    /\ ata \in [Drives -> AtaStates]
    /\ unit \in [{Channel[d] : d \in Drives} -> Drives]
    /\ failed \subseteq Drives
    /\ sector_count \in [Drives -> Int]
    /\ call \in Calls \cup {NULL}
    /\ ret \in [res : Int, data : Seq(Drives \X Nat)]
    /\ unread \subseteq Drives

\* A drive whose size is in the cache has told it.
Known(d) ==
    /\ machine[d].kind = "disk" /\ machine[d].size > 0
    /\ sector_count[d] = machine[d].size

CacheInv == \A d \in Drives : sector_count[d] # BLD_SIZE_UNK => Known(d)

\* A drive without a command.
Quiet(d) == ata[d].st \in {"idle", "error"} /\ ata[d].op # "reset"

\* A drive still on the command that a read of no sectors has left.
Backlog(d) ==
    /\ ata[d].st \in {"busy", "data"} /\ ata[d].op = "read" /\ ata[d].left > 0
    /\ ata[d].st = "data" => CanServe(d)

\* A drive that does not work for the call in progress.
Free(d) == Quiet(d) \/ (d \in unread /\ Backlog(d))

\* The drive of the call works on what is left of it.
Serving ==
    /\ ata[call.drive].st \in {"busy", "data"}
    /\ ata[call.drive].st = "data" => CanServe(call.drive)
    /\ call.op = "count" => ata[call.drive].op = "identify" /\ ata[call.drive].left = 1
    /\ call.op = "read" =>
          /\ ata[call.drive].op = "read"
          /\ ata[call.drive].next = call.lba + Len(call.got)
          /\ ata[call.drive].left = Register(call.limit) - Len(call.got)

\* The channel of the call is in a reset, or through with it.
Recovering ==
    \/ \A d \in Drives : IF d \in OnChannel(call.drive) THEN Quiet(d) ELSE Free(d)
    \/ \A d \in Drives : IF d \in OnChannel(call.drive) THEN ata[d] = Resetting ELSE Free(d)

ControllerInv ==
    /\ call = NULL => \A d \in Drives : Free(d)
    /\ call # NULL =>
          /\ unit[Channel[call.drive]] = call.drive
          /\ machine[call.drive].kind # "absent"
          /\ call.at = "reset" => Recovering
          /\ call.at # "reset" =>
                /\ \A d \in Drives : d # call.drive => Free(d)
                /\ \/ ata[call.drive].st = "error" /\ Quiet(call.drive)
                   \/ call.drive \notin unread /\ Serving
                   \/ call.drive \in unread /\ Free(call.drive)

\* What a read takes are the sectors it asked for, all of them on the drive.
CallInv ==
    call # NULL =>
        /\ call.at = "transfer" => call.op = "read"
        /\ call.at # "transfer" => call.got = <<>>
        /\ call.op = "count" => call.limit = 0 /\ call.drive \notin unread
        /\ call.op = "read" =>
              /\ Known(call.drive)
              /\ call.lba <= machine[call.drive].size
              /\ call.limit = Limit(call.drive, call.lba, call.count)
              /\ call.at = "transfer" => Len(call.got) < call.limit
              /\ call.drive \notin unread =>
                    \A k \in 1..Len(call.got) : call.got[k] = <<call.drive, call.lba + k - 1>>

\* What a read takes of a drive with unread data follows from where the drive is.
Follows(from) ==
    /\ \A k \in 1..Len(call.got) : call.got[k] = <<call.drive, from + k - 1>>
    /\ Backlog(call.drive) => ata[call.drive].next = from + Len(call.got)

UnreadInv ==
    call # NULL /\ call.drive \in unread /\ call.at = "transfer" /\ call.got # <<>> =>
        \E from \in 0..machine[call.drive].size : Follows(from)

IdeInv == IdeTypes /\ CacheInv /\ ControllerInv /\ CallInv /\ UnreadInv

DiskTypes ==
    /\ pc \in {"probe", "counted", "setup", "first", "partitions", "ready"}
    /\ i \in Nat \ {0}
    /\ block_drives \in Seq(Drives)
    /\ diskmanager_volumes \in Seq(VolumeType)
    /\ asked \in [vol : VolumeType, lba : Nat, count : Nat] \cup {NULL}

\* The drives registered are some of those looked at, each once.
DrivesInv ==
    /\ \A k \in 1..Len(block_drives) : sector_count[block_drives[k]] # BLD_SIZE_UNK
    /\ \A j, k \in 1..Len(block_drives) : block_drives[j] = block_drives[k] => j = k
    /\ Len(block_drives) <= Len(all_drives)
    /\ pc \in {"probe", "counted"} =>
          /\ Len(block_drives) < i /\ i <= Len(all_drives) + 1
          /\ \A k \in 1..Len(block_drives) : \E j \in 1..i - 1 : block_drives[k] = all_drives[j]

\* What the boot waits for, and what it gets.
WaitInv ==
    /\ pc \in {"probe", "setup"} => call = NULL
    /\ pc \in {"probe", "counted", "setup", "first"} => unread = {}
    /\ pc = "counted" =>
          /\ i <= Len(all_drives)
          /\ call # NULL => call.op = "count" /\ call.drive = all_drives[i]
          /\ call = NULL => ret.res = BLD_SIZE_ERR \/ sector_count[all_drives[i]] # BLD_SIZE_UNK
    /\ pc = "first" =>
          /\ i <= Len(block_drives)
          /\ call # NULL => call.op = "read" /\ call.drive = block_drives[i] /\ call.lba = 0 /\ call.count = 1
          /\ call = NULL /\ ret.res = 1 => ret.data[1] = <<block_drives[i], 0>>

\* A volume of a drive whose size is known.
Mounted(v) == sector_count[v.parent_disk] # BLD_SIZE_UNK /\ v.lba_end \in Words

\* Volumes are on drives that have been set up, at most ENTRIES on each.
VolumesInv ==
    /\ \A k \in 1..Len(diskmanager_volumes) : Mounted(diskmanager_volumes[k])
    /\ VolumesApart
    /\ Len(diskmanager_volumes) <= DSK_MAX_VOLUMES
    /\ pc \in {"probe", "counted"} => diskmanager_volumes = <<>>
    /\ pc \in {"setup", "first"} =>
          /\ i <= Len(block_drives) + 1
          /\ Len(diskmanager_volumes) <= ENTRIES * (i - 1)
          /\ \A k \in 1..Len(diskmanager_volumes) :
                \E j \in 1..i - 1 : diskmanager_volumes[k].parent_disk = block_drives[j]

\* The call in progress is the latest read of a volume.
AskedInv ==
    /\ pc \in {"probe", "counted", "setup", "first"} => asked = NULL
    /\ pc \in {"partitions", "ready"} => (asked = NULL => call = NULL)
    /\ asked # NULL =>
          /\ Mounted(asked.vol)
          /\ call # NULL =>
                /\ call.op = "read" /\ call.drive = asked.vol.parent_disk
                /\ call.lba = ActualLba(asked.vol, asked.lba)
                /\ call.lba + call.count <= asked.vol.lba_end
    /\ VolumeReadsStayInside

BootInv == DiskTypes /\ DrivesInv /\ WaitInv /\ VolumesInv /\ AskedInv

IInv == IdeInv /\ BootInv

-----------------------------------------------------------------------------
(* The controller *)

\* The drives of a channel make up the same channel.
LEMMA SameChannel ==
    ASSUME NEW d \in Drives, NEW e \in OnChannel(d)
    PROVE  e \in Drives /\ OnChannel(e) = OnChannel(d)
BY DEF OnChannel

\* A drive stays free, or at rest, whatever the controller does with it.
LEMMA FreeAnswered ==
    ASSUME IdeTypes, NEW d \in Drives, Free(d), Answer(d)
    PROVE  Free(d)' /\ d \in unread /\ Backlog(d)
           /\ (Backlog(d)' => ata'[d].next = ata[d].next)
<1>1. ata[d].st = "busy" /\ d \in unread /\ Backlog(d) /\ unread' = unread /\ machine' = machine
    BY DEF Answer, Free, Quiet
<1>2. ata[d] \in AtaStates
    BY DEF IdeTypes
<1>3. CASE CanServe(d) /\ ata' = [ata EXCEPT ![d].st = "data"]
    <2>1. ata'[d] = [ata[d] EXCEPT !.st = "data"]
        BY <1>2, <1>3 DEF IdeTypes
    <2>2. /\ ata'[d].st = "data" /\ ata'[d].op = ata[d].op
          /\ ata'[d].next = ata[d].next /\ ata'[d].left = ata[d].left
        BY <1>2, <2>1 DEF AtaStates
    <2> QED
        BY <1>1, <1>3, <2>2 DEF Free, Backlog, CanServe
<1>4. CASE ata' = [ata EXCEPT ![d] = [NoCommand EXCEPT !.st = "error"]]
    <2>1. ata'[d].st = "error" /\ ata'[d].op = "none"
        BY <1>4 DEF IdeTypes, NoCommand
    <2> QED
        BY <1>1, <2>1 DEF Free, Quiet, Backlog
<1> QED
    BY <1>3, <1>4 DEF Answer

\* A drive that nothing happens to.
LEMMA FreeKept ==
    ASSUME NEW d \in Drives, ata'[d] = ata[d], machine' = machine, d \in unread <=> d \in unread'
    PROVE  /\ Free(d) <=> Free(d)'
           /\ Quiet(d) <=> Quiet(d)'
           /\ Backlog(d) <=> Backlog(d)'
BY DEF Free, Quiet, Backlog, CanServe

LEMMA Answered ==
    ASSUME IdeTypes, NEW d \in Drives, Answer(d)
    PROVE  /\ ata' \in [Drives -> AtaStates] /\ failed' \subseteq Drives
           /\ \A e \in Drives : e # d => ata'[e] = ata[e]
<1>1. \A x \in AtaStates : [x EXCEPT !.st = "data"] \in AtaStates
    BY DEF AtaStates
<1>2. [NoCommand EXCEPT !.st = "error"] \in AtaStates
    BY DEF AtaStates, NoCommand
<1>3. CASE ata' = [ata EXCEPT ![d].st = "data"] /\ failed' = failed
    BY <1>1, <1>3 DEF IdeTypes
<1>4. CASE ata' = [ata EXCEPT ![d] = [NoCommand EXCEPT !.st = "error"]] /\ failed' = failed \cup {d}
    BY <1>2, <1>4 DEF IdeTypes
<1> QED
    BY <1>3, <1>4 DEF Answer

\* The drive of the call is served, or has given up.
LEMMA ServingAnswered ==
    ASSUME IdeTypes, call # NULL, call.drive \in Drives, call.op \in {"count", "read"},
           Serving, Answer(call.drive)
    PROVE  Serving' \/ (ata'[call.drive].st = "error" /\ Quiet(call.drive)')
<1> DEFINE d == call.drive
<1>1. call' = call /\ machine' = machine /\ ata[d] \in AtaStates
    BY DEF Answer, IdeTypes
<1>2. CASE CanServe(d) /\ ata' = [ata EXCEPT ![d].st = "data"]
    <2>1. ata'[d] = [ata[d] EXCEPT !.st = "data"]
        BY <1>1, <1>2 DEF IdeTypes
    <2>2. /\ ata'[d].st = "data" /\ ata'[d].op = ata[d].op
          /\ ata'[d].next = ata[d].next /\ ata'[d].left = ata[d].left
        BY <1>1, <2>1 DEF AtaStates
    <2>3. CanServe(d)'
        BY <1>1, <1>2, <2>2 DEF CanServe
    <2> QED
        BY <1>1, <2>2, <2>3 DEF Serving, Register
<1>3. CASE ata' = [ata EXCEPT ![d] = [NoCommand EXCEPT !.st = "error"]]
    <2>1. ata'[d].st = "error" /\ ata'[d].op = "none"
        BY <1>3 DEF IdeTypes, NoCommand
    <2> QED
        BY <1>1, <2>1 DEF Quiet
<1> QED
    BY <1>2, <1>3 DEF Answer

\* Every drive serves the call in progress or none, whatever the controller does.
LEMMA ControllerPreserves == IdeInv /\ Controller => IdeInv'
<1> SUFFICES ASSUME IdeInv, NEW d \in Drives, Answer(d) \/ ResetDone(d)
             PROVE  IdeInv'
    BY DEF Controller
<1> USE DEF IdeInv
<1>0. UNCHANGED <<machine, unit, sector_count, call, ret, unread>>
    BY DEF Answer, ResetDone
<1>1. CacheInv' /\ CallInv'
    BY <1>0 DEF CacheInv, CallInv, Known, Limit
<1>2. call # NULL => call \in Calls /\ call.drive \in Drives /\ call.op \in {"count", "read"}
    BY DEF IdeTypes, Calls
<1>3. CASE Answer(d)
    <2>1. /\ ata[d].st = "busy" /\ ata[d].op # "reset"
          /\ \A e \in Drives : e # d => ata'[e] = ata[e]
          /\ ata' \in [Drives -> AtaStates] /\ failed' \subseteq Drives
        BY <1>3, Answered DEF Answer
    <2>2. \A e \in Drives : Free(e) => Free(e)'
        <3>1. \A e \in Drives : e # d /\ Free(e) => Free(e)'
            BY <1>0, <2>1, FreeKept
        <3>2. Free(d) => Free(d)'
            BY <1>3, FreeAnswered
        <3> QED
            BY <3>1, <3>2
    <2>3. CASE call = NULL
        <3>1. ControllerInv'
            BY <1>0, <2>2, <2>3 DEF ControllerInv
        <3>2. UnreadInv'
            BY <1>0, <2>3 DEF UnreadInv
        <3> QED
            BY <1>0, <1>1, <2>1, <3>1, <3>2 DEF IdeTypes
    <2>4. CASE call # NULL /\ call.at = "reset"
        <3>1. OnChannel(call.drive)' = OnChannel(call.drive)
            BY <1>0 DEF OnChannel
        <3>2. d \notin OnChannel(call.drive)
            BY <2>1, <2>4 DEF ControllerInv, Recovering, Quiet, Resetting
        <3>3. \A e \in OnChannel(call.drive) : e \in Drives /\ e # d /\ ata'[e] = ata[e]
            BY <2>1, <3>2 DEF OnChannel
        <3>4. \A e \in OnChannel(call.drive) : Quiet(e) => Quiet(e)'
            BY <3>3 DEF Quiet
        <3>5. Recovering'
            BY <1>0, <2>2, <2>4, <3>1, <3>3, <3>4 DEF ControllerInv, Recovering
        <3>6. ControllerInv'
            BY <1>0, <2>4, <3>5 DEF ControllerInv
        <3>7. UnreadInv'
            BY <1>0, <2>4 DEF UnreadInv
        <3> QED
            BY <1>0, <1>1, <2>1, <3>6, <3>7 DEF IdeTypes
    <2>5. CASE call # NULL /\ call.at # "reset"
        <3>1. \/ ata'[call.drive].st = "error" /\ Quiet(call.drive)'
              \/ call.drive \notin unread /\ Serving'
              \/ call.drive \in unread /\ Free(call.drive)'
            <4>1. CASE d # call.drive
                <5>1. ata'[call.drive] = ata[call.drive]
                    BY <1>2, <2>1, <2>5, <4>1
                <5>2. Serving => Serving'
                    BY <1>0, <5>1 DEF Serving, CanServe, Register
                <5>3. Quiet(call.drive) => Quiet(call.drive)'
                    BY <1>0, <5>1 DEF Quiet
                <5> QED
                    BY <1>0, <1>2, <2>2, <2>5, <5>1, <5>2, <5>3 DEF ControllerInv
            <4>2. CASE d = call.drive
                <5>1. ata[call.drive].st # "error"
                    BY <2>1, <4>2
                <5>2. CASE call.drive \notin unread /\ Serving
                    <6>1. Serving' \/ (ata'[call.drive].st = "error" /\ Quiet(call.drive)')
                        BY <1>2, <1>3, <2>5, <4>2, <5>2, ServingAnswered
                    <6> QED
                        BY <5>2, <6>1
                <5>3. CASE call.drive \in unread /\ Free(call.drive)
                    <6>1. Free(d) => Free(d)'
                        BY <2>2
                    <6>2. call' = call
                        BY <1>0
                    <6>3. Free(call.drive)'
                        BY <4>2, <5>3, <6>1, <6>2 DEF Free, Quiet, Backlog, CanServe
                    <6> QED
                        BY <5>3, <6>3
                <5> QED
                    BY <2>5, <5>1, <5>2, <5>3 DEF ControllerInv
            <4> QED
                BY <4>1, <4>2
        <3>2. ControllerInv'
            BY <1>0, <2>2, <2>5, <3>1 DEF ControllerInv
        <3>3. UnreadInv'
            <4>1. call.drive \in unread => (Backlog(call.drive)' =>
                     Backlog(call.drive) /\ ata'[call.drive].next = ata[call.drive].next)
                <5> SUFFICES ASSUME call.drive \in unread, Backlog(call.drive)'
                             PROVE  Backlog(call.drive) /\ ata'[call.drive].next = ata[call.drive].next
                    OBVIOUS
                <5>1. CASE d # call.drive
                    <6>1. ata'[call.drive] = ata[call.drive]
                        BY <1>2, <2>1, <2>5, <5>1
                    <6> QED
                        BY <1>0, <6>1 DEF Backlog, CanServe
                <5>2. CASE d = call.drive
                    <6>1. Free(d)
                        BY <2>1, <2>5, <5>2 DEF ControllerInv
                    <6>2. Backlog(d) /\ (Backlog(d)' => ata'[d].next = ata[d].next)
                        BY <1>3, <6>1, FreeAnswered
                    <6>3. Backlog(d)'
                        BY <1>0, <5>2 DEF Backlog, CanServe
                    <6> QED
                        BY <5>2, <6>2, <6>3
                <5> QED
                    BY <5>1, <5>2
            <4>2. \A from : call.drive \in unread /\ Follows(from) => Follows(from)'
                BY <1>0, <4>1 DEF Follows
            <4> QED
                BY <1>0, <4>2 DEF UnreadInv
        <3> QED
            BY <1>0, <1>1, <2>1, <3>2, <3>3 DEF IdeTypes
    <2> QED
        BY <2>3, <2>4, <2>5
<1>4. CASE ResetDone(d)
    <2>1. ata[d].op = "reset"
        BY <1>4 DEF ResetDone
    <2>2. ~Quiet(d) /\ ~Free(d)
        BY <2>1 DEF Quiet, Free, Backlog
    <2>3. call # NULL /\ call.at = "reset"
        BY <1>2, <2>1, <2>2 DEF ControllerInv, Serving
    <2>4. /\ d \in OnChannel(call.drive)
          /\ \A e \in Drives : IF e \in OnChannel(call.drive) THEN ata[e] = Resetting ELSE Free(e)
        BY <2>2, <2>3 DEF ControllerInv, Recovering
    <2>5. OnChannel(d) = OnChannel(call.drive)
        BY <1>2, <2>3, <2>4, SameChannel
    <2>6. \A e \in Drives : ata'[e] = IF e \in OnChannel(call.drive) THEN NoCommand ELSE ata[e]
        BY <1>4, <2>5 DEF ResetDone
    <2>7. ata' \in [Drives -> AtaStates]
        BY <1>4 DEF ResetDone, IdeTypes, AtaStates, NoCommand
    <2>8. \A e \in Drives : IF e \in OnChannel(call.drive) THEN Quiet(e)' ELSE Free(e)'
        <3>1. \A e \in OnChannel(call.drive) : Quiet(e)'
            BY <2>6 DEF Quiet, NoCommand, OnChannel
        <3>2. \A e \in Drives \ OnChannel(call.drive) : Free(e)'
            BY <1>0, <2>4, <2>6, FreeKept
        <3> QED
            BY <3>1, <3>2
    <2>9. OnChannel(call.drive)' = OnChannel(call.drive)
        BY <1>0 DEF OnChannel
    <2>10. Recovering'
        BY <2>8, <2>9 DEF Recovering
    <2>11. ControllerInv' /\ UnreadInv'
        BY <1>0, <2>3, <2>10 DEF ControllerInv, UnreadInv
    <2> QED
        BY <1>0, <1>1, <1>4, <2>7, <2>11 DEF IdeTypes, ResetDone
<1> QED
    BY <1>3, <1>4

-----------------------------------------------------------------------------
(* The driver *)

\* What ide_read() asks for is what is there; only nothing is misunderstood.
LEMMA LimitBounds ==
    ASSUME IdeTypes, NEW d \in Drives, Known(d), NEW lba \in Nat, NEW count \in Nat,
           lba <= machine[d].size
    PROVE  /\ Limit(d, lba, count) \in Nat
           /\ Limit(d, lba, count) < MAX_COUNT /\ Limit(d, lba, count) <= count
           /\ lba + Limit(d, lba, count) <= machine[d].size
           /\ Register(Limit(d, lba, count)) \in Nat
           /\ Limit(d, lba, count) > 0 => Register(Limit(d, lba, count)) = Limit(d, lba, count)
<1>1. machine[d].size \in Nat /\ sector_count[d] = machine[d].size /\ MAX_COUNT \in Nat /\ MAX_COUNT > 1
    BY DiskAssumption, PartitionsAssumption, IdeAssumption DEF IdeTypes, Words, Known
<1> DEFINE limit == Limit(d, lba, count)
<1>2. /\ limit \in Nat /\ limit < MAX_COUNT /\ limit <= count
      /\ lba + limit <= machine[d].size
    BY <1>1 DEF Limit
<1>3. \A x \in Nat, w \in Nat \ {0} : x < w => x % w = x
    OBVIOUS
<1> HIDE DEF limit
<1>4. Register(limit) \in Nat /\ (limit > 0 => Register(limit) = limit)
    <2>1. limit % MAX_COUNT = limit
        BY <1>1, <1>2, <1>3
    <2> QED
        BY <1>1, <1>2, <2>1 DEF Register
<1> QED
    BY <1>2, <1>4 DEF limit

\* How a call moves on, and the ways it returns.
GoesOn ==
    /\ call' # NULL
    /\ call'.op = call.op /\ call'.drive = call.drive
    /\ call'.lba = call.lba /\ call'.count = call.count
    /\ UNCHANGED <<ret, sector_count, unread>>

Fails ==
    /\ call' = NULL /\ ret' = [res |-> BLD_SIZE_ERR, data |-> <<>>]
    /\ unread' \subseteq unread \ {call.drive}
    /\ UNCHANGED sector_count

Tells ==
    /\ call.op = "count" /\ call' = NULL
    /\ ret' = [res |-> machine[call.drive].size, data |-> <<>>]
    /\ sector_count' = [sector_count EXCEPT ![call.drive] = machine[call.drive].size]
    /\ machine[call.drive].kind = "disk" /\ machine[call.drive].size > 0
    /\ UNCHANGED unread

Block(from, n) == [k \in 1..n |-> <<call.drive, from + k - 1>>]

Delivers ==
    /\ call.op = "read" /\ call' = NULL
    /\ call.drive \notin unread /\ call.limit > 0
    /\ ret' = [res |-> call.limit, data |-> Block(call.lba, call.limit)]
    /\ UNCHANGED <<sector_count, unread>>

DeliversNothing ==
    /\ call.op = "read" /\ call' = NULL
    /\ call.limit = 0
    /\ ret' = [res |-> 0, data |-> <<>>]
    /\ unread' = unread \cup {call.drive}
    /\ UNCHANGED sector_count

DeliversOthers ==
    /\ call.op = "read" /\ call' = NULL
    /\ call.drive \in unread
    /\ \E from \in 0..machine[call.drive].size :
          ret' = [res |-> call.limit, data |-> Block(from, call.limit)]
    /\ UNCHANGED <<sector_count, unread>>

Effect ==
    /\ call # NULL /\ UNCHANGED machine
    /\ GoesOn \/ Fails \/ Tells \/ Delivers \/ DeliversNothing \/ DeliversOthers

\* The fields of a call, and the drive whose registers it reads: its own.
LEMMA CallFields ==
    ASSUME IdeTypes, ControllerInv, call # NULL
    PROVE  /\ call \in Calls /\ call.op \in {"count", "read"} /\ call.drive \in Drives
           /\ call.lba \in Nat /\ call.count \in Nat /\ call.limit \in Nat
           /\ call.at \in {"poll", "transfer", "reset"} /\ call.got \in Seq(Drives \X Nat)
           /\ Polled = call.drive /\ ata[Polled] \in AtaStates
           /\ call.drive \in OnChannel(call.drive)
BY DEF IdeTypes, Calls, ControllerInv, Polled, OnChannel

\* An error before the first sector resets the channel.
LEMMA PollErrorStep == IdeInv /\ PollError => IdeInv' /\ Effect
<1> SUFFICES ASSUME IdeInv, PollError
             PROVE  IdeInv' /\ Effect
    OBVIOUS
<1> USE DEF IdeInv
<1>0. /\ call # NULL /\ call.at = "poll"
      /\ call' = [call EXCEPT !.at = "reset"]
      /\ UNCHANGED <<machine, unit, failed, sector_count, ret, unread>>
    BY DEF PollError
<1>1. call' \in Calls /\ call' # NULL
    BY <1>0, CallFields, IdeAssumption DEF Calls
<1>2. /\ call'.op = call.op /\ call'.drive = call.drive /\ call'.lba = call.lba
      /\ call'.count = call.count /\ call'.limit = call.limit /\ call'.got = call.got
      /\ call'.at = "reset"
    BY <1>0, CallFields DEF Calls
<1>3. ata' = [d \in Drives |-> IF d \in OnChannel(call.drive) THEN Resetting ELSE ata[d]]
    BY <1>0, CallFields DEF PollError
<1>4. ata' \in [Drives -> AtaStates]
    BY <1>3 DEF IdeTypes, AtaStates, Resetting
<1>5. OnChannel(call.drive)' = OnChannel(call.drive)
    BY <1>0, <1>2 DEF OnChannel
<1>6. \A d \in Drives : IF d \in OnChannel(call.drive) THEN ata'[d] = Resetting ELSE Free(d)'
    <2> SUFFICES ASSUME NEW d \in Drives, d \notin OnChannel(call.drive)
                 PROVE  Free(d)'
        BY <1>3
    <2>1. d # call.drive /\ ata'[d] = ata[d]
        BY <1>0, <1>3, CallFields
    <2>2. Free(d)
        BY <1>0, <2>1 DEF ControllerInv
    <2> QED
        BY <1>0, <2>1, <2>2, FreeKept
<1>7. ControllerInv'
    BY <1>0, <1>1, <1>2, <1>5, <1>6 DEF ControllerInv, Recovering
<1>8. CallInv' /\ UnreadInv'
    BY <1>0, <1>1, <1>2 DEF CallInv, UnreadInv, Known, Limit
<1>9. IdeTypes' /\ CacheInv'
    BY <1>0, <1>1, <1>4 DEF IdeTypes, CacheInv, Known
<1> QED
    BY <1>0, <1>1, <1>2, <1>7, <1>8, <1>9 DEF Effect, GoesOn

\* A call that ends leaves every drive free.
LEMMA CallEnds ==
    ASSUME IdeTypes, CacheInv', call' = NULL, \A d \in Drives : Free(d)',
           UNCHANGED <<machine, unit, failed>>, ata' \in [Drives -> AtaStates],
           sector_count' \in [Drives -> Int], ret' \in [res : Int, data : Seq(Drives \X Nat)],
           unread' \subseteq Drives
    PROVE  IdeInv'
BY DEF IdeInv, IdeTypes, ControllerInv, CallInv, UnreadInv

LEMMA ResetWaitStep == IdeInv /\ ResetWait => IdeInv' /\ Effect
<1> SUFFICES ASSUME IdeInv, ResetWait
             PROVE  IdeInv' /\ Effect
    OBVIOUS
<1> USE DEF IdeInv
<1>0. /\ call # NULL /\ call.at = "reset" /\ call' = NULL
      /\ ret' = [res |-> BLD_SIZE_ERR, data |-> <<>>]
      /\ UNCHANGED <<machine, ata, unit, failed, sector_count>>
    BY DEF ResetWait, Return
<1>1. /\ ata[call.drive].st # "busy" /\ call.drive \in OnChannel(call.drive) /\ call.drive \in Drives
      /\ unread' = unread \ OnChannel(call.drive)
    BY <1>0, CallFields DEF ResetWait
<1>2. \A d \in Drives : IF d \in OnChannel(call.drive) THEN Quiet(d) ELSE Free(d)
    BY <1>0, <1>1 DEF ControllerInv, Recovering, Resetting
<1>3. \A d \in Drives : Free(d)'
    <2>1. \A d \in Drives : Quiet(d) => Free(d)'
        BY <1>0 DEF Quiet, Free
    <2>2. \A d \in Drives \ OnChannel(call.drive) : Free(d) => Free(d)'
        BY <1>0, <1>1, FreeKept
    <2> QED
        BY <1>2, <2>1, <2>2
<1>4. ret' \in [res : Int, data : Seq(Drives \X Nat)]
    BY <1>0, IdeAssumption
<1>5. unread' \subseteq Drives /\ unread' \subseteq unread \ {call.drive}
    BY <1>1 DEF IdeTypes
<1>6. IdeInv'
    BY <1>0, <1>3, <1>4, <1>5, CallEnds DEF IdeTypes, CacheInv, Known
<1> QED
    BY <1>0, <1>5, <1>6 DEF Effect, Fails

LEMMA TakeIdentityStep == IdeInv /\ TakeIdentity => IdeInv' /\ Effect
<1> SUFFICES ASSUME IdeInv, TakeIdentity
             PROVE  IdeInv' /\ Effect
    OBVIOUS
<1> USE DEF IdeInv
<1>0. /\ call # NULL /\ call.op = "count" /\ call.at = "poll"
      /\ UNCHANGED <<machine, unit, failed, unread>> /\ call' = NULL
      /\ call.drive \notin unread /\ unread \subseteq Drives
    BY DEF TakeIdentity, Return, CallInv, IdeTypes
<1>1. Polled = call.drive /\ call.drive \in Drives
    BY <1>0, CallFields
<1>2. ata[call.drive].st = "data" /\ Serving
    BY <1>0, <1>1 DEF ControllerInv, TakeIdentity
<1>3. ata' = [ata EXCEPT ![call.drive] = NoCommand]
    BY <1>0, <1>1, <1>2 DEF TakeIdentity, Advanced, Serving
<1>4. /\ ata' \in [Drives -> AtaStates]
      /\ \A d \in Drives : Free(d)'
    <2>1. ata' \in [Drives -> AtaStates]
        BY <1>1, <1>3 DEF IdeTypes, AtaStates, NoCommand
    <2>2. \A d \in Drives : d = call.drive => Free(d)'
        BY <1>1, <1>3 DEF Free, Quiet, NoCommand, IdeTypes
    <2>3. \A d \in Drives : d # call.drive => ata'[d] = ata[d] /\ Free(d)
        BY <1>0, <1>3 DEF ControllerInv, IdeTypes
    <2>4. \A d \in Drives : d # call.drive => Free(d)'
        BY <1>0, <2>3, FreeKept
    <2> QED
        BY <2>1, <2>2, <2>4
<1>5. machine[call.drive].size \in Nat /\ machine[call.drive].kind = "disk"
    BY <1>1, <1>2, DiskAssumption, PartitionsAssumption DEF Serving, CanServe, IdeTypes, Words
<1>6. CASE machine[call.drive].size <= 0
    <2>1. ret' = [res |-> BLD_SIZE_ERR, data |-> <<>>] /\ sector_count' = sector_count
        BY <1>1, <1>5, <1>6 DEF TakeIdentity, Return
    <2>2. ret' \in [res : Int, data : Seq(Drives \X Nat)]
        BY <2>1, IdeAssumption
    <2>3. IdeInv'
        BY <1>0, <1>4, <2>1, <2>2, CallEnds DEF IdeTypes, CacheInv, Known
    <2> QED
        BY <1>0, <2>1, <2>3 DEF Effect, Fails
<1>7. CASE machine[call.drive].size > 0
    <2>1. /\ ret' = [res |-> machine[call.drive].size, data |-> <<>>]
          /\ sector_count' = [sector_count EXCEPT ![call.drive] = machine[call.drive].size]
        BY <1>1, <1>5, <1>7 DEF TakeIdentity, Return
    <2>2. /\ ret' \in [res : Int, data : Seq(Drives \X Nat)]
          /\ sector_count' \in [Drives -> Int]
        <3>1. sector_count \in [Drives -> Int] /\ machine[call.drive].size \in Int
            BY <1>5 DEF IdeTypes
        <3>2. <<>> \in Seq(Drives \X Nat)
            OBVIOUS
        <3> QED
            BY <1>1, <2>1, <3>1, <3>2
    <2>3. CacheInv'
        BY <1>0, <1>1, <1>5, <1>7, <2>1 DEF CacheInv, Known, IdeTypes
    <2>4. IdeInv'
        BY <1>0, <1>4, <2>2, <2>3, CallEnds
    <2> QED
        BY <1>0, <1>5, <1>7, <2>1, <2>4 DEF Effect, Tells
<1> QED
    BY <1>5, <1>6, <1>7

\* A call for no sectors leaves its drive with data.
LEMMA PollDataStep == IdeInv /\ PollData => IdeInv' /\ Effect
<1> SUFFICES ASSUME IdeInv, PollData
             PROVE  IdeInv' /\ Effect
    OBVIOUS
<1> USE DEF IdeInv
<1>0. /\ call # NULL /\ call.op = "read" /\ call.at = "poll" /\ call.got = <<>>
      /\ UNCHANGED <<machine, ata, unit, failed, sector_count>>
    BY DEF PollData, CallInv
<1>1. CASE call.limit = 0
    <2>1. /\ call' = NULL /\ ret' = [res |-> 0, data |-> <<>>]
          /\ unread' = unread \cup {call.drive} /\ call.drive \in Drives
          /\ ata[call.drive].st = "data"
        BY <1>0, <1>1, CallFields DEF PollData, Return
    <2>2. Backlog(call.drive)
        <3>1. Register(0) > 0
            BY IdeAssumption DEF Register
        <3>2. Len(call.got) = 0
            BY <1>0, EmptySeq
        <3> QED
            BY <1>0, <1>1, <2>1, <3>1, <3>2, IdeAssumption
               DEF ControllerInv, Serving, Free, Quiet, Backlog, Register
    <2>3. \A d \in Drives : d = call.drive => Free(d)'
        BY <1>0, <2>1, <2>2 DEF Free, Backlog, CanServe
    <2>4. \A d \in Drives : d # call.drive => Free(d)'
        <3>1. \A d \in Drives : d # call.drive => Free(d) /\ (d \in unread <=> d \in unread')
            BY <1>0, <2>1 DEF ControllerInv
        <3> QED
            BY <1>0, <3>1, FreeKept
    <2>5. ret' \in [res : Int, data : Seq(Drives \X Nat)]
        BY <2>1
    <2>6. unread' \subseteq Drives
        BY <2>1 DEF IdeTypes
    <2>7. IdeInv'
        BY <1>0, <2>1, <2>3, <2>4, <2>5, <2>6, CallEnds DEF IdeTypes, CacheInv, Known
    <2> QED
        BY <1>0, <1>1, <2>1, <2>7 DEF Effect, DeliversNothing
<1>2. CASE call.limit # 0
    <2>1. call' = [call EXCEPT !.at = "transfer"] /\ ret' = ret /\ unread' = unread
        BY <1>2 DEF PollData
    <2>2. call' \in Calls /\ call' # NULL
        BY <1>0, <2>1, CallFields, IdeAssumption DEF Calls
    <2>3. /\ call'.op = call.op /\ call'.drive = call.drive /\ call'.lba = call.lba
          /\ call'.count = call.count /\ call'.limit = call.limit /\ call'.got = call.got
          /\ call'.at = "transfer"
        BY <1>0, <2>1, CallFields DEF Calls
    <2>4. ControllerInv'
        BY <1>0, <2>1, <2>2, <2>3 DEF ControllerInv, Quiet, Free, Backlog, CanServe, Serving, Register
    <2>5. CallInv' /\ UnreadInv'
        <3>1. Len(call.got) = 0 /\ call.limit > 0
            BY <1>0, <1>2, CallFields, EmptySeq
        <3> QED
            BY <1>0, <2>1, <2>2, <2>3, <3>1 DEF CallInv, UnreadInv, Known, Limit
    <2>6. IdeTypes' /\ CacheInv'
        BY <1>0, <2>1, <2>2 DEF IdeTypes, CacheInv, Known
    <2> QED
        BY <1>0, <2>1, <2>2, <2>3, <2>4, <2>5, <2>6 DEF Effect, GoesOn
<1> QED
    BY <1>1, <1>2

Taken == Append(call.got, <<call.drive, ata[call.drive].next>>)

\* A sector more: the next of those taken before.
LEMMA TakenSector ==
    ASSUME IdeTypes, call \in Calls, call.drive \in Drives, ata[call.drive] \in AtaStates,
           NEW from \in Nat, ata[call.drive].next = from + Len(call.got),
           \A k \in 1..Len(call.got) : call.got[k] = <<call.drive, from + k - 1>>
    PROVE  /\ Taken \in Seq(Drives \X Nat) /\ Len(Taken) = Len(call.got) + 1
           /\ \A k \in 1..Len(Taken) : Taken[k] = <<call.drive, from + k - 1>>
           /\ Taken = Block(from, Len(Taken))
<1>1. call.got \in Seq(Drives \X Nat) /\ Len(call.got) \in Nat
    BY DEF Calls
<1>2. /\ Taken \in Seq(Drives \X Nat) /\ Len(Taken) = Len(call.got) + 1
      /\ \A k \in 1..Len(call.got) : Taken[k] = call.got[k]
      /\ Taken[Len(call.got) + 1] = <<call.drive, from + Len(call.got)>>
    BY <1>1 DEF Taken
<1>3. \A k \in 1..Len(Taken) : Taken[k] = <<call.drive, from + k - 1>>
    <2> SUFFICES ASSUME NEW k \in 1..Len(Taken)
                 PROVE  Taken[k] = <<call.drive, from + k - 1>>
        OBVIOUS
    <2>1. CASE k = Len(call.got) + 1
        <3>1. from + k - 1 = from + Len(call.got)
            BY <1>1, <2>1
        <3> QED
            BY <1>2, <2>1, <3>1
    <2>2. CASE k \in 1..Len(call.got)
        BY <1>2, <2>2
    <2> QED
        BY <1>1, <1>2, <2>1, <2>2
<1>4. Taken \in [1..Len(Taken) -> Drives \X Nat]
    BY <1>2, LenProperties
<1>5. Taken = Block(from, Len(Taken))
    BY <1>3, <1>4 DEF Block
<1> QED
    BY <1>2, <1>3, <1>5

\* The drive whose sector has been taken.
LEMMA AdvancedDrive ==
    ASSUME IdeTypes, NEW d \in Drives, ata[d].st = "data", ata[d].op = "read",
           ata[d].left \in Nat \ {0}, ata' = [ata EXCEPT ![d] = Advanced(ata[d])]
    PROVE  /\ ata' \in [Drives -> AtaStates]
           /\ \A e \in Drives : e # d => ata'[e] = ata[e]
           /\ ata[d].left = 1 => ata'[d] = NoCommand
           /\ ata[d].left # 1 =>
                 /\ ata'[d].st = "busy" /\ ata'[d].op = "read"
                 /\ ata'[d].next = ata[d].next + 1 /\ ata'[d].left = ata[d].left - 1
<1>1. ata[d] \in AtaStates /\ ata[d].next \in Nat
    BY DEF IdeTypes, AtaStates
<1>2. ata'[d] = Advanced(ata[d]) /\ \A e \in Drives : e # d => ata'[e] = ata[e]
    BY DEF IdeTypes
<1>3. CASE ata[d].left = 1
    <2>1. Advanced(ata[d]) = NoCommand /\ NoCommand \in AtaStates
        BY <1>3 DEF Advanced, NoCommand, AtaStates
    <2> QED
        BY <1>2, <1>3, <2>1 DEF IdeTypes
<1>4. CASE ata[d].left # 1
    <2>1. Advanced(ata[d]) = [ata[d] EXCEPT !.st = "busy", !.next = @ + 1, !.left = @ - 1]
        BY <1>4 DEF Advanced
    <2>2. ata[d].next + 1 \in Nat /\ ata[d].left - 1 \in Nat
        BY <1>1
    <2>3. Advanced(ata[d]) \in AtaStates
        BY <1>1, <2>1, <2>2 DEF AtaStates
    <2>4. /\ Advanced(ata[d]).st = "busy" /\ Advanced(ata[d]).op = ata[d].op
          /\ Advanced(ata[d]).next = ata[d].next + 1 /\ Advanced(ata[d]).left = ata[d].left - 1
        BY <1>1, <2>1 DEF AtaStates
    <2> HIDE DEF Advanced
    <2> QED
        BY <1>2, <1>4, <2>3, <2>4 DEF IdeTypes
<1> QED
    BY <1>3, <1>4

\* A sector is the next one asked for, from the drive of the call, unless that
\* had data of an earlier command.
LEMMA TakeSectorStep == IdeInv /\ TakeSector => IdeInv' /\ Effect
<1> SUFFICES ASSUME IdeInv, TakeSector
             PROVE  IdeInv' /\ Effect
    OBVIOUS
<1> USE DEF IdeInv
<1>0. /\ call # NULL /\ call.at = "transfer" /\ call.op = "read"
      /\ UNCHANGED <<machine, unit, failed, sector_count, unread>>
    BY DEF TakeSector, CallInv
<1>d. PICK d \in Drives : d = call.drive
    BY <1>0, CallFields
<1>1. Polled = d /\ ata[d] \in AtaStates /\ call \in Calls
    BY <1>0, <1>d, CallFields
<1>2. ata[d].st = "data" /\ ata' = [ata EXCEPT ![d] = Advanced(ata[d])]
    BY <1>0, <1>d, <1>1 DEF TakeSector
<1>3. /\ call.got \in Seq(Drives \X Nat) /\ Len(call.got) \in Nat
      /\ call.lba \in Nat /\ call.count \in Nat /\ call.limit \in Nat /\ Len(call.got) < call.limit
      /\ Known(d) /\ machine[d].size \in Nat
    BY <1>0, <1>d, CallFields, DiskAssumption, PartitionsAssumption DEF CallInv, IdeTypes, Words
<1>4. \A e \in Drives : e # d => Free(e)
    BY <1>d, <1>0 DEF ControllerInv
<1>5. CASE d \notin unread
    <2>0. Register(call.limit) = call.limit
        <3>1. call.limit = Limit(d, call.lba, call.count) /\ call.lba <= machine[d].size
            BY <1>0, <1>d DEF CallInv
        <3>2. Limit(d, call.lba, call.count) > 0 =>
                 Register(Limit(d, call.lba, call.count)) = Limit(d, call.lba, call.count)
            BY <1>3, <3>1, LimitBounds
        <3>3. call.limit > 0
            BY <1>3
        <3> QED
            BY <3>1, <3>2, <3>3
    <2>1. Serving
        BY <1>0, <1>d, <1>2, <1>5 DEF ControllerInv
    <2>2. /\ ata[d].op = "read" /\ ata[d].next = call.lba + Len(call.got)
          /\ ata[d].left = call.limit - Len(call.got) /\ ata[d].left \in Nat \ {0}
        <3>1. /\ ata[d].op = "read" /\ ata[d].next = call.lba + Len(call.got)
              /\ ata[d].left = Register(call.limit) - Len(call.got)
            BY <1>0, <1>d, <2>1 DEF Serving
        <3>2. ata[d].left = call.limit - Len(call.got)
            BY <2>0, <3>1
        <3> QED
            BY <1>3, <3>1, <3>2
    <2>3. \A k \in 1..Len(call.got) : call.got[k] = <<d, call.lba + k - 1>>
        BY <1>0, <1>d, <1>5 DEF CallInv
    <2>4. /\ Taken \in Seq(Drives \X Nat) /\ Len(Taken) = Len(call.got) + 1
          /\ \A k \in 1..Len(Taken) : Taken[k] = <<d, call.lba + k - 1>>
          /\ Taken = Block(call.lba, Len(Taken))
        BY <1>d, <1>1, <1>3, <2>2, <2>3, TakenSector
    <2>5. /\ ata' \in [Drives -> AtaStates]
          /\ \A e \in Drives : e # d => ata'[e] = ata[e]
          /\ ata[d].left = 1 => ata'[d] = NoCommand
          /\ ata[d].left # 1 =>
                /\ ata'[d].st = "busy" /\ ata'[d].op = "read"
                /\ ata'[d].next = ata[d].next + 1 /\ ata'[d].left = ata[d].left - 1
        BY <1>d, <1>1, <1>2, <2>2, AdvancedDrive
    <2>6. \A e \in Drives : e # d => Free(e)'
        BY <1>0, <1>d, <1>4, <2>5, FreeKept
    <2>7. CASE Len(Taken) = call.limit
        <3>1. call' = NULL /\ ret' = [res |-> call.limit, data |-> Taken]
            BY <1>d, <1>1, <2>7 DEF TakeSector, Return, Taken
        <3>2. ata'[d] = NoCommand
            BY <1>d, <1>3, <2>2, <2>4, <2>5, <2>7
        <3>3. Free(d)'
            BY <3>2 DEF Free, Quiet, NoCommand
        <3>4. ret' \in [res : Int, data : Seq(Drives \X Nat)]
            BY <1>d, <1>3, <2>4, <3>1
        <3>5. unread' \subseteq Drives
            BY <1>d, <1>0 DEF IdeTypes
        <3>6. IdeInv'
            BY <1>0, <1>d, <2>5, <2>6, <3>1, <3>3, <3>4, <3>5, CallEnds DEF IdeTypes, CacheInv, Known
        <3> QED
            BY <1>0, <1>d, <1>3, <1>5, <2>4, <2>7, <3>1, <3>6 DEF Effect, Delivers
    <2>8. CASE Len(Taken) # call.limit
        <3>1. call' = [call EXCEPT !.got = Taken] /\ ret' = ret
            BY <1>d, <1>1, <2>8 DEF TakeSector, Taken
        <3>2. call' \in Calls /\ call' # NULL
            BY <1>0, <1>d, <1>1, <2>4, <3>1, IdeAssumption DEF Calls
        <3>3. /\ call'.op = call.op /\ call'.drive = d /\ call'.lba = call.lba
              /\ call'.count = call.count /\ call'.limit = call.limit /\ call'.got = Taken
              /\ call'.at = "transfer"
            BY <1>0, <1>d, <1>1, <3>1 DEF Calls
        <3>4. /\ ata'[d].st = "busy" /\ ata'[d].op = "read"
              /\ ata'[d].next = call.lba + Len(Taken) /\ ata'[d].left = call.limit - Len(Taken)
            <4>1. ata[d].left # 1
                BY <1>3, <2>2, <2>4, <2>8
            <4>2. /\ ata[d].next + 1 = call.lba + Len(Taken)
                  /\ ata[d].left - 1 = call.limit - Len(Taken)
                <5>1. PICK n \in Nat : n = Len(call.got)
                    BY <1>3
                <5>2. PICK lba \in Nat, limit \in Nat : lba = call.lba /\ limit = call.limit
                    BY <1>3
                <5>3. Len(Taken) = n + 1 /\ ata[d].next = lba + n /\ ata[d].left = limit - n
                    BY <2>2, <2>4, <5>1, <5>2
                <5>4. (lba + n) + 1 = lba + (n + 1) /\ (limit - n) - 1 = limit - (n + 1)
                    OBVIOUS
                <5> HIDE DEF Taken
                <5> QED
                    BY <5>2, <5>3, <5>4
            <4> QED
                BY <2>5, <4>1, <4>2
        <3>5. Register(call.limit)' = call.limit /\ Len(Taken) < call.limit
            <4>1. Register(call.limit)' = Register(call.limit)
                BY <3>3 DEF Register
            <4>2. Len(Taken) < call.limit
                BY <1>3, <2>4, <2>8
            <4> QED
                BY <2>0, <4>1, <4>2
        <3>6. Serving'
            BY <1>0, <1>d, <3>3, <3>4, <3>5 DEF Serving
        <3>7. ControllerInv'
            BY <1>0, <1>d, <1>5, <2>6, <3>2, <3>3, <3>6 DEF ControllerInv
        <3>8. CallInv' /\ UnreadInv'
            <4>1. Limit(call.drive, call.lba, call.count)' = Limit(call.drive, call.lba, call.count)
                BY <1>0, <1>d, <3>3 DEF Limit
            <4>2. call'.drive \notin unread'
                BY <1>0, <1>5, <3>3
            <4>3. Known(call.drive)' /\ call'.lba <= machine'[call'.drive].size
                BY <1>0, <1>d, <1>3, <3>3 DEF CallInv, Known
            <4> QED
                BY <1>0, <1>d, <2>4, <3>3, <3>5, <4>1, <4>2, <4>3 DEF CallInv, UnreadInv
        <3>9. IdeTypes' /\ CacheInv'
            BY <1>0, <1>d, <2>5, <3>1, <3>2 DEF IdeTypes, CacheInv, Known
        <3> QED
            BY <1>0, <1>d, <3>1, <3>2, <3>3, <3>7, <3>8, <3>9 DEF Effect, GoesOn
    <2> QED
        BY <2>7, <2>8
<1>6. CASE d \in unread
    <2>1. Backlog(d) /\ CanServe(d) /\ ata[d].op = "read"
        BY <1>0, <1>d, <1>2, <1>6 DEF ControllerInv, Free, Quiet, Backlog
    <2>2. PICK from \in 0..machine[d].size : /\ ata[d].next = from + Len(call.got)
                                             /\ \A k \in 1..Len(call.got) : call.got[k] = <<d, from + k - 1>>
        <3>1. CASE call.got = <<>>
            <4>1. Len(call.got) = 0
                BY <3>1, EmptySeq
            <4>2. ata[d].next \in Nat /\ ata[d].next < machine[d].size
                BY <1>d, <1>1, <2>1 DEF CanServe, AtaStates
            <4>3. ata[d].next \in 0..machine[d].size /\ ata[d].next = ata[d].next + Len(call.got)
                BY <1>3, <4>1, <4>2
            <4>4. \A k \in 1..Len(call.got) : call.got[k] = <<d, ata[d].next + k - 1>>
                BY <4>1
            <4> QED
                BY <4>3, <4>4
        <3>2. CASE call.got # <<>>
            <4>1. PICK at \in 0..machine[d].size : Follows(at)
                BY <1>0, <1>d, <1>6, <3>2 DEF UnreadInv
            <4> QED
                BY <1>d, <2>1, <4>1 DEF Follows
        <3> QED
            BY <3>1, <3>2
    <2>3. from \in Nat /\ ata[d].next < machine[d].size
        BY <1>d, <1>3, <2>1, <2>2 DEF CanServe
    <2>4. /\ Taken \in Seq(Drives \X Nat) /\ Len(Taken) = Len(call.got) + 1
          /\ \A k \in 1..Len(Taken) : Taken[k] = <<d, from + k - 1>>
          /\ Taken = Block(from, Len(Taken))
        BY <1>d, <1>1, <2>2, <2>3, TakenSector
    <2>5. ata[d].left \in Nat \ {0}
        BY <1>d, <1>1, <2>1 DEF Backlog, AtaStates
    <2>6. /\ ata' \in [Drives -> AtaStates]
          /\ \A e \in Drives : e # d => ata'[e] = ata[e]
          /\ ata[d].left = 1 => ata'[d] = NoCommand
          /\ ata[d].left # 1 =>
                /\ ata'[d].st = "busy" /\ ata'[d].op = "read"
                /\ ata'[d].next = ata[d].next + 1 /\ ata'[d].left = ata[d].left - 1
        BY <1>d, <1>1, <1>2, <2>1, <2>5, AdvancedDrive
    <2>7. \A e \in Drives : e # d => Free(e)'
        BY <1>0, <1>d, <1>4, <2>6, FreeKept
    <2>8. Free(d)' /\ (Backlog(d)' => ata'[d].next = from + Len(Taken))
        <3>1. CASE ata[d].left = 1
            <4>1. ata'[d].st = "idle" /\ ata'[d].op = "none"
                BY <2>6, <3>1 DEF NoCommand
            <4> QED
                BY <4>1 DEF Free, Quiet, Backlog
        <3>2. CASE ata[d].left # 1
            <4>1. ata'[d].next = from + Len(Taken)
                BY <1>d, <1>3, <2>2, <2>3, <2>4, <2>6, <3>2
            <4>2. ata'[d].left > 0 /\ ata'[d].st = "busy" /\ ata'[d].op = "read"
                BY <2>5, <2>6, <3>2
            <4> QED
                BY <1>0, <1>6, <4>1, <4>2 DEF Free, Backlog
        <3> QED
            BY <3>1, <3>2
    <2>9. CASE Len(Taken) = call.limit
        <3>1. call' = NULL /\ ret' = [res |-> call.limit, data |-> Taken]
            BY <1>d, <1>1, <2>9 DEF TakeSector, Return, Taken
        <3>2. ret' \in [res : Int, data : Seq(Drives \X Nat)]
            BY <1>d, <1>3, <2>4, <3>1
        <3>3. unread' \subseteq Drives
            BY <1>d, <1>0 DEF IdeTypes
        <3>4. IdeInv'
            BY <1>0, <1>d, <2>6, <2>7, <2>8, <3>1, <3>2, <3>3, CallEnds DEF IdeTypes, CacheInv, Known
        <3> QED
            BY <1>0, <1>d, <1>6, <2>2, <2>4, <2>9, <3>1, <3>4 DEF Effect, DeliversOthers
    <2>10. CASE Len(Taken) # call.limit
        <3>1. call' = [call EXCEPT !.got = Taken] /\ ret' = ret
            BY <1>d, <1>1, <2>10 DEF TakeSector, Taken
        <3>2. call' \in Calls /\ call' # NULL
            BY <1>0, <1>d, <1>1, <2>4, <3>1, IdeAssumption DEF Calls
        <3>3. /\ call'.op = call.op /\ call'.drive = d /\ call'.lba = call.lba
              /\ call'.count = call.count /\ call'.limit = call.limit /\ call'.got = Taken
              /\ call'.at = "transfer"
            BY <1>0, <1>d, <1>1, <3>1 DEF Calls
        <3>4. ControllerInv'
            BY <1>0, <1>d, <1>6, <2>7, <2>8, <3>2, <3>3 DEF ControllerInv
        <3>5. CallInv'
            BY <1>0, <1>d, <1>3, <1>6, <2>4, <2>10, <3>2, <3>3 DEF CallInv, Known, Limit
        <3>6. UnreadInv'
            <4>1. Follows(from)'
                BY <2>4, <2>8, <3>3 DEF Follows
            <4> QED
                BY <1>0, <1>d, <2>2, <3>3, <4>1 DEF UnreadInv
        <3>7. IdeTypes' /\ CacheInv'
            BY <1>0, <1>d, <2>6, <3>1, <3>2 DEF IdeTypes, CacheInv, Known
        <3> QED
            BY <1>0, <1>d, <3>1, <3>2, <3>3, <3>4, <3>5, <3>6, <3>7 DEF Effect, GoesOn
    <2> QED
        BY <2>9, <2>10
<1> QED
    BY <1>5, <1>6

LEMMA TransferErrorStep == IdeInv /\ TransferError => IdeInv' /\ Effect
<1> SUFFICES ASSUME IdeInv, TransferError
             PROVE  IdeInv' /\ Effect
    OBVIOUS
<1> USE DEF IdeInv
<1>0. /\ call # NULL /\ call.at = "transfer" /\ call' = NULL
      /\ ret' = [res |-> BLD_SIZE_ERR, data |-> <<>>]
      /\ UNCHANGED <<machine, ata, unit, failed, sector_count>>
    BY DEF TransferError, Return
<1>1. ata[call.drive].st = "error" /\ unread' = unread \ {call.drive} /\ call.drive \in Drives
    BY <1>0, CallFields DEF TransferError
<1>2. Quiet(call.drive) /\ \A d \in Drives : d # call.drive => Free(d)
    BY <1>0, <1>1 DEF ControllerInv, Serving, Free, Backlog
<1>3. \A d \in Drives : Free(d)'
    <2>1. \A d \in Drives : d = call.drive => Free(d)'
        BY <1>0, <1>1, <1>2 DEF Quiet, Free
    <2>2. \A d \in Drives : d # call.drive => Free(d)'
        BY <1>0, <1>1, <1>2, FreeKept
    <2> QED
        BY <2>1, <2>2
<1>4. ret' \in [res : Int, data : Seq(Drives \X Nat)]
    BY <1>0, IdeAssumption
<1>5. unread' \subseteq Drives
    BY <1>1 DEF IdeTypes
<1>6. IdeInv'
    BY <1>0, <1>3, <1>4, <1>5, CallEnds DEF IdeTypes, CacheInv, Known
<1> QED
    BY <1>0, <1>1, <1>6 DEF Effect, Fails

LEMMA DriverStep == IdeInv /\ Driver => IdeInv' /\ Effect
BY PollErrorStep, ResetWaitStep, TakeIdentityStep, PollDataStep, TakeSectorStep, TransferErrorStep
   DEF Driver

\* A call selects its drive.
LEMMA Selected ==
    ASSUME IdeInv, NEW d \in Drives, Select(d)
    PROVE  unit' \in [{Channel[e] : e \in Drives} -> Drives] /\ unit'[Channel[d]] = d
BY DEF IdeInv, IdeTypes, Select

\* A drive that listens takes the command.
LEMMA CallStarts ==
    ASSUME IdeInv, NEW d \in Drives, Listens(d),
           NEW op \in {"identify", "read"}, NEW lba \in Nat, NEW n \in Nat
    PROVE  /\ Commanded(d, op, lba, n) \in [Drives -> AtaStates]
           /\ Commanded(d, op, lba, n)[d] = [st |-> "busy", op |-> op, next |-> lba, left |-> n]
           /\ \A e \in Drives : e # d => Commanded(d, op, lba, n)[e] = ata[e]
<1> DEFINE new == [st |-> "busy", op |-> op, next |-> lba, left |-> n]
<1>1. Commanded(d, op, lba, n) = [ata EXCEPT ![d] = new]
    BY DEF Commanded
<1>2. new \in AtaStates
    BY DEF AtaStates
<1>3. ata \in [Drives -> AtaStates]
    BY DEF IdeInv, IdeTypes
<1> HIDE DEF new
<1>4. /\ [ata EXCEPT ![d] = new] \in [Drives -> AtaStates]
      /\ [ata EXCEPT ![d] = new][d] = new
      /\ \A e \in Drives : e # d => [ata EXCEPT ![d] = new][e] = ata[e]
    BY <1>2, <1>3
<1> QED
    BY <1>1, <1>4 DEF new

\* A call that has got nothing yet.
LEMMA NewCall ==
    ASSUME NEW op \in {"count", "read"}, NEW d \in Drives, NEW lba \in Nat, NEW count \in Nat,
           NEW limit \in Nat
    PROVE  LET new == [op |-> op, drive |-> d, lba |-> lba, count |-> count, limit |-> limit,
                       at |-> "poll", got |-> <<>>]
           IN  new \in Calls /\ new # NULL
<1>1. <<>> \in Seq(Drives \X Nat)
    BY EmptySeq
<1>2. \A got \in Seq(Drives \X Nat) :
         [op |-> op, drive |-> d, lba |-> lba, count |-> count, limit |-> limit,
          at |-> "poll", got |-> got] \in Calls
    BY DEF Calls
<1>3. NULL \notin Calls
    BY IdeAssumption
<1> QED
    BY <1>1, <1>2, <1>3, Zenon

\* A call in progress, with its drive at work.
Started(op, d, lba, count) ==
    /\ call' # NULL
    /\ call'.op = op /\ call'.drive = d /\ call'.lba = lba /\ call'.count = count
    /\ unread' \in {unread, unread \ {d}}
    /\ UNCHANGED <<machine, sector_count, ret>>

\* What a step of the boot or of a caller does to the driver: nothing, or the
\* start of a call, or one that is refused.
Starts == \E op \in {"count", "read"}, d \in Drives, lba \in Nat, count \in Nat : Started(op, d, lba, count)

Refused == call' = NULL /\ ret' = [res |-> 0, data |-> <<>>] /\ UNCHANGED <<machine, sector_count, unread>>

Uses == (call = NULL /\ (Starts \/ Refused)) \/ UNCHANGED <<machine, call, ret, unread>>

LEMMA StartCountStep ==
    ASSUME IdeInv, call = NULL, NEW d \in Drives, d \notin unread, ProbeOk(d), StartCount(d)
    PROVE  IdeInv' /\ Started("count", d, 0, 0) /\ unread' = unread
<1>1. /\ Select(d) /\ machine[d].kind # "absent"
      /\ call' = [op |-> "count", drive |-> d, lba |-> 0, count |-> 0, limit |-> 0,
                  at |-> "poll", got |-> <<>>]
      /\ UNCHANGED <<machine, failed, sector_count, ret, unread>>
    BY DEF StartCount, ProbeOk
<1>2. call' \in Calls /\ call' # NULL
    <2>1. "count" \in {"count", "read"} /\ 0 \in Nat
        OBVIOUS
    <2> QED
        BY <1>1, <2>1, NewCall
<1>3. unit' \in [{Channel[e] : e \in Drives} -> Drives] /\ unit'[Channel[d]] = d
    BY <1>1, Selected
<1>4. /\ ata' \in [Drives -> AtaStates]
      /\ ata'[d] = [st |-> "busy", op |-> "identify", next |-> 0, left |-> 1]
      /\ \A e \in Drives : e # d => ata'[e] = ata[e]
    <2>1. ata' = Commanded(d, "identify", 0, 1)
        BY <1>3 DEF StartCount
    <2>2. "identify" \in {"identify", "read"} /\ 0 \in Nat /\ 1 \in Nat
        OBVIOUS
    <2>3. /\ Commanded(d, "identify", 0, 1) \in [Drives -> AtaStates]
          /\ Commanded(d, "identify", 0, 1)[d]
                = [st |-> "busy", op |-> "identify", next |-> 0, left |-> 1]
          /\ \A e \in Drives : e # d => Commanded(d, "identify", 0, 1)[e] = ata[e]
        <3>1. Listens(d)
            BY DEF IdeInv, ControllerInv, Free, Quiet, Listens
        <3> QED
            BY <2>2, <3>1, CallStarts
    <2> QED
        BY <2>1, <2>3
<1>5. ControllerInv'
    <2>1. \A e \in Drives : e # d => Free(e)'
        <3>1. \A e \in Drives : Free(e)
            BY DEF IdeInv, ControllerInv
        <3> QED
            BY <1>1, <1>4, <3>1, FreeKept
    <2>2. call'.drive = d /\ call'.op = "count" /\ call'.at = "poll"
        BY <1>1
    <2>3. Serving'
        BY <1>4, <2>2 DEF Serving
    <2> QED
        BY <1>1, <1>2, <1>3, <2>1, <2>2, <2>3 DEF ControllerInv
<1>6. CallInv' /\ UnreadInv'
    BY <1>1 DEF CallInv, UnreadInv
<1>7. IdeTypes' /\ CacheInv'
    BY <1>1, <1>2, <1>3, <1>4 DEF IdeInv, IdeTypes, CacheInv, Known
<1> QED
    BY <1>1, <1>2, <1>5, <1>6, <1>7 DEF IdeInv, Started

\* A read that does not begin past the end of the drive starts a call.  A drive
\* with unread data stays on its old command.
LEMMA StartReadStep ==
    ASSUME IdeInv, call = NULL, NEW d \in Drives, Known(d),
           NEW lba \in Nat, NEW count \in Nat, lba <= machine[d].size,
           StartRead(d, lba, count)
    PROVE  IdeInv' /\ Started("read", d, lba, count)
<1> DEFINE limit == Limit(d, lba, count)
<1>1. /\ limit \in Nat /\ Register(limit) \in Nat
      /\ ~(lba > sector_count[d]) /\ machine[d].kind # "absent"
    <2>1. machine[d].size \in Nat /\ sector_count[d] = machine[d].size /\ machine[d].kind = "disk"
        BY DiskAssumption, PartitionsAssumption DEF IdeInv, IdeTypes, Words, Known
    <2> QED
        BY <2>1, LimitBounds DEF IdeInv
<1>2. /\ Select(d)
      /\ call' = [op |-> "read", drive |-> d, lba |-> lba, count |-> count, limit |-> limit,
                  at |-> "poll", got |-> <<>>]
      /\ unread' = IF Listens(d) THEN unread \ {d} ELSE unread
      /\ UNCHANGED <<machine, failed, sector_count, ret>>
    BY <1>1 DEF StartRead
<1>3. /\ unit' \in [{Channel[e] : e \in Drives} -> Drives] /\ unit'[Channel[d]] = d
      /\ ata' = Commanded(d, "read", lba, Register(limit))
    <2>1. unit' \in [{Channel[e] : e \in Drives} -> Drives] /\ unit'[Channel[d]] = d
        BY <1>2, Selected
    <2> QED
        BY <1>1, <2>1 DEF StartRead
<1>4. limit' = limit
    BY <1>2 DEF Limit
<1> HIDE DEF limit
<1>5. call' \in Calls /\ call' # NULL
    <2>1. "read" \in {"count", "read"}
        OBVIOUS
    <2> QED
        BY <1>1, <1>2, <2>1, NewCall
<1>6. /\ call'.limit = limit /\ call'.drive = d /\ call'.lba = lba /\ call'.count = count
      /\ call'.op = "read" /\ call'.at = "poll" /\ call'.got = <<>>
    BY <1>2
<1>7. \A e \in Drives : Free(e)
    BY DEF IdeInv, ControllerInv
<1>8. ata' \in [Drives -> AtaStates] /\ ControllerInv'
    <2>1. CASE Listens(d)
        <3>1. /\ ata' \in [Drives -> AtaStates]
              /\ ata'[d] = [st |-> "busy", op |-> "read", next |-> lba, left |-> Register(limit)]
              /\ \A e \in Drives : e # d => ata'[e] = ata[e]
            BY <1>1, <1>3, <2>1, CallStarts
        <3>2. Serving'
            <4>1. Len(call'.got) = 0
                BY <1>6
            <4>2. Register(call.limit)' = Register(limit)
                BY <1>6 DEF Register
            <4> QED
                BY <1>1, <1>6, <3>1, <4>1, <4>2 DEF Serving
        <3>3. \A e \in Drives : e # d => Free(e)'
            BY <1>2, <1>7, <2>1, <3>1, FreeKept
        <3>4. d \notin unread'
            BY <1>2, <2>1
        <3> QED
            BY <1>1, <1>2, <1>3, <1>5, <1>6, <3>1, <3>2, <3>3, <3>4 DEF ControllerInv
    <2>2. CASE ~Listens(d)
        <3>1. ata' = ata /\ unread' = unread
            BY <1>2, <1>3, <2>2 DEF Commanded
        <3>2. \A e \in Drives : Free(e)'
            BY <1>2, <1>7, <3>1, FreeKept
        <3>3. d \in unread'
            BY <1>7, <2>2, <3>1 DEF Listens, Free, Quiet
        <3>4. Free(call.drive)'
            BY <1>6, <3>2 DEF Free, Quiet, Backlog, CanServe
        <3>5. ata' \in [Drives -> AtaStates]
            BY <3>1 DEF IdeInv, IdeTypes
        <3> QED
            BY <1>1, <1>2, <1>3, <1>5, <1>6, <3>2, <3>3, <3>4, <3>5 DEF ControllerInv
    <2> QED
        BY <2>1, <2>2
<1>9. CallInv' /\ UnreadInv'
    <2>1. Limit(call.drive, call.lba, call.count)' = limit
        BY <1>2 DEF Limit, limit
    <2>2. Len(call'.got) = 0
        BY <1>6
    <2>3. Known(call.drive)' /\ call'.lba <= machine'[call'.drive].size
        BY <1>2, <1>6 DEF Known
    <2> QED
        BY <1>6, <2>1, <2>2, <2>3 DEF CallInv, UnreadInv
<1>10. unread' \subseteq Drives /\ unread' \in {unread, unread \ {d}}
    BY <1>2 DEF IdeInv, IdeTypes
<1>11. IdeTypes' /\ CacheInv'
    BY <1>2, <1>3, <1>5, <1>8, <1>10 DEF IdeInv, IdeTypes, CacheInv, Known
<1> QED
    BY <1>2, <1>5, <1>6, <1>8, <1>9, <1>10, <1>11 DEF IdeInv, Started

-----------------------------------------------------------------------------
(* The initial states *)

LEMMA InitEstablishes == Init => IInv
<1> SUFFICES ASSUME Init
             PROVE  IInv
    OBVIOUS
<1>1. /\ machine \in Machines
      /\ ata = [d \in Drives |-> NoCommand]
      /\ unit \in [{Channel[d] : d \in Drives} -> Drives]
      /\ failed = {}
      /\ sector_count = [d \in Drives |-> BLD_SIZE_UNK]
      /\ call = NULL
      /\ ret.res = 0 /\ ret.data = <<>> /\ unread = {}
      /\ pc = "probe" /\ i = 1 /\ asked = NULL
    BY DEF Init, IdeInit
<1>2. ret \in [res : Int, data : Seq(Drives \X Nat)]
    <2>1. <<>> \in Seq(Drives \X Nat) /\ 0 \in Int
        BY EmptySeq
    <2>2. \A n \in Int, got \in Seq(Drives \X Nat) :
             [res |-> n, data |-> got] \in [res : Int, data : Seq(Drives \X Nat)]
        OBVIOUS
    <2>3. ret = [res |-> 0, data |-> <<>>]
        BY DEF Init, IdeInit
    <2> QED
        BY <2>1, <2>2, <2>3, Zenon
<1>3. IdeTypes
    <2>1. ata \in [Drives -> AtaStates]
        BY <1>1 DEF AtaStates, NoCommand
    <2>2. sector_count \in [Drives -> Int]
        BY <1>1, IdeAssumption
    <2> QED
        BY <1>1, <1>2, <2>1, <2>2 DEF IdeTypes
<1>4. CacheInv /\ ControllerInv /\ CallInv /\ UnreadInv
    BY <1>1 DEF CacheInv, ControllerInv, CallInv, UnreadInv, Free, Quiet, NoCommand
<1>5. /\ block_drives \in Seq(Drives) /\ diskmanager_volumes \in Seq(VolumeType)
      /\ Len(block_drives) = 0 /\ Len(diskmanager_volumes) = 0
      /\ diskmanager_volumes = <<>>
    <2>1. block_drives = <<>> /\ diskmanager_volumes = <<>>
        BY DEF Init
    <2> QED
        BY <2>1, EmptySeq, Zenon
<1>6. Len(all_drives) \in Nat /\ DSK_MAX_VOLUMES \in Nat
    BY DiskAssumption, LenProperties
<1>7. DiskTypes /\ DrivesInv
    BY <1>1, <1>5, <1>6 DEF DiskTypes, DrivesInv
<1>8. WaitInv
    BY <1>1 DEF WaitInv
<1>9. VolumesInv
    <2>1. DOMAIN diskmanager_volumes = {}
        BY <1>5, LenProperties
    <2> QED
        BY <1>1, <1>5, <1>6, <2>1 DEF VolumesInv, VolumesApart
<1>10. AskedInv
    BY <1>1 DEF AskedInv, VolumeReadsStayInside
<1> QED
    BY <1>3, <1>4, <1>7, <1>8, <1>9, <1>10 DEF IInv, IdeInv, BootInv

-----------------------------------------------------------------------------
(* Steps of the driver and of the controller, seen from the boot *)

\* Sizes are not forgotten.
LEMMA SizesStay ==
    ASSUME IdeInv, Effect
    PROVE  \A d \in Drives : sector_count[d] # BLD_SIZE_UNK => sector_count'[d] # BLD_SIZE_UNK
<1>1. CASE UNCHANGED sector_count
    BY <1>1
<1>2. CASE Tells
    <2>1. machine[call.drive].size # BLD_SIZE_UNK
        <3>1. call.drive \in Drives
            BY CallFields DEF IdeInv, Effect
        <3> QED
            BY <1>2, <3>1, IdeAssumption, DiskAssumption, PartitionsAssumption
               DEF Tells, IdeInv, IdeTypes, Words
    <2> QED
        BY <1>2, <2>1 DEF Tells, IdeInv, IdeTypes
<1> QED
    BY <1>1, <1>2 DEF Effect, GoesOn, Fails, Delivers, DeliversNothing, DeliversOthers

\* A sum that does not wrap is the sum.
LEMMA InRange ==
    ASSUME NEW x \in Nat
    PROVE  x % LBA_MOD \in Nat /\ (x < LBA_MOD => x % LBA_MOD = x)
<1>1. \A y \in Nat, w \in Nat \ {0} : y % w \in Nat /\ (y < w => y % w = y)
    OBVIOUS
<1>2. LBA_MOD \in Nat \ {0}
    BY DiskAssumption, PartitionsAssumption
<1> QED
    BY <1>1, <1>2

\* What the controller moves concerns neither the boot nor the volumes.
LEMMA ControllerStep ==
    ASSUME IInv, Controller, UNCHANGED <<pc, i, block_drives, diskmanager_volumes, asked>>
    PROVE  IInv'
<1>1. IdeInv'
    BY ControllerPreserves DEF IInv
<1>2. UNCHANGED <<machine, sector_count, call, ret, unread>>
    BY DEF Controller, Answer, ResetDone
<1>3. DiskTypes' /\ DrivesInv' /\ WaitInv'
    BY <1>2 DEF IInv, BootInv, DiskTypes, DrivesInv, WaitInv
<1>4. VolumesInv' /\ AskedInv'
    BY <1>2 DEF IInv, BootInv, VolumesInv, VolumesApart, AskedInv, VolumeReadsStayInside, Mounted, ActualLba
<1> QED
    BY <1>1, <1>3, <1>4 DEF IInv, BootInv

\* A call that returns has told a size, or delivered what the boot or the
\* caller of the volume asked for, or failed.
LEMMA DriverInDisk ==
    ASSUME IInv, Driver, UNCHANGED <<pc, i, block_drives, diskmanager_volumes, asked>>
    PROVE  IInv'
<1>1. IdeInv' /\ Effect
    BY DriverStep DEF IInv
<1>2. /\ call # NULL /\ UNCHANGED machine
      /\ GoesOn \/ Fails \/ Tells \/ Delivers \/ DeliversNothing \/ DeliversOthers
    BY <1>1 DEF Effect
<1>3. \A d \in Drives : sector_count[d] # BLD_SIZE_UNK => sector_count'[d] # BLD_SIZE_UNK
    BY <1>1, SizesStay DEF IInv
<1>4. DiskTypes'
    BY DEF IInv, BootInv, DiskTypes
<1>5. /\ call.op \in {"count", "read"} /\ call.drive \in Drives /\ call.limit \in Nat
      /\ call.lba \in Nat /\ call.count \in Nat
    BY <1>2, CallFields DEF IInv, IdeInv
<1>6. Len(block_drives) \in Nat /\ \A k \in 1..Len(block_drives) : block_drives[k] \in Drives
    BY LenProperties DEF IInv, BootInv, DiskTypes
<1>7. DrivesInv'
    BY <1>3, <1>6 DEF IInv, BootInv, DrivesInv
<1>8. WaitInv'
    <2>1. pc \notin {"probe", "setup"}
        BY <1>2 DEF IInv, BootInv, WaitInv
    <2>2. CASE pc = "counted"
        <3>1. i <= Len(all_drives) /\ call.op = "count" /\ call.drive = all_drives[i] /\ unread = {}
            BY <1>2, <2>2 DEF IInv, BootInv, WaitInv
        <3>2. CASE GoesOn
            BY <2>2, <3>1, <3>2 DEF GoesOn, WaitInv
        <3>3. CASE Fails
            <4>1. unread' = {}
                BY <3>1, <3>3 DEF Fails
            <4> QED
                BY <2>2, <3>1, <3>3, <4>1 DEF Fails, WaitInv
        <3>4. CASE Tells
            <4>1. sector_count'[call.drive] # BLD_SIZE_UNK
                BY <1>5, <3>4, IdeAssumption, DiskAssumption, PartitionsAssumption
                   DEF Tells, IInv, IdeInv, IdeTypes, Words
            <4> QED
                BY <2>2, <3>1, <3>4, <4>1 DEF Tells, WaitInv
        <3> QED
            BY <1>2, <3>1, <3>2, <3>3, <3>4 DEF Delivers, DeliversNothing, DeliversOthers
    <2>3. CASE pc = "first"
        <3>1. /\ i <= Len(block_drives) /\ call.op = "read" /\ call.drive = block_drives[i]
              /\ call.lba = 0 /\ call.count = 1 /\ unread = {}
            BY <1>2, <2>3 DEF IInv, BootInv, WaitInv
        <3>2. CASE GoesOn
            BY <2>3, <3>1, <3>2 DEF GoesOn, WaitInv
        <3>3. CASE Fails
            <4>1. BLD_SIZE_ERR # 1 /\ unread' = {}
                BY <3>1, <3>3, IdeAssumption DEF Fails
            <4> QED
                BY <2>3, <3>1, <3>3, <4>1 DEF Fails, WaitInv
        <3>4. CASE Delivers
            <4>1. ret'.res = 1 => ret'.data[1] = <<block_drives[i], 0>>
                BY <1>5, <3>1, <3>4 DEF Delivers, Block
            <4> QED
                BY <2>3, <3>1, <3>4, <4>1 DEF Delivers, WaitInv
        <3>5. call.limit # 0
            <4>1. Known(call.drive) /\ call.limit = Limit(call.drive, 0, 1)
                BY <1>2, <3>1 DEF IInv, IdeInv, CallInv
            <4>2. /\ sector_count[call.drive] \in Nat /\ sector_count[call.drive] > 0
                  /\ MAX_COUNT \in Nat /\ MAX_COUNT > 1
                BY <1>5, <4>1, DiskAssumption, PartitionsAssumption, IdeAssumption
                   DEF Known, IInv, IdeInv, IdeTypes, Words
            <4> QED
                BY <4>1, <4>2 DEF Limit
        <3> QED
            BY <1>2, <3>1, <3>2, <3>3, <3>4, <3>5 DEF Tells, DeliversNothing, DeliversOthers
    <2> QED
        BY <2>1, <2>2, <2>3 DEF WaitInv
<1>9. \A v \in VolumeType : Mounted(v) => Mounted(v)'
    BY <1>2, <1>3 DEF Mounted, VolumeType
<1>10. VolumesInv'
    <2>1. \A k \in 1..Len(diskmanager_volumes) : diskmanager_volumes[k] \in VolumeType
        BY LenProperties DEF IInv, BootInv, DiskTypes
    <2> QED
        BY <1>9, <2>1 DEF IInv, BootInv, VolumesInv, VolumesApart
<1>11. AskedInv'
    <2>1. CASE asked = NULL
        <3>1. pc \in {"probe", "counted", "setup", "first"}
            BY <1>2, <2>1 DEF IInv, BootInv, AskedInv, DiskTypes
        <3> QED
            BY <2>1, <3>1 DEF AskedInv, VolumeReadsStayInside
    <2>2. CASE asked # NULL
        <3>1. /\ asked.vol \in VolumeType /\ asked.lba \in Nat
              /\ pc \notin {"probe", "counted", "setup", "first"}
            BY <2>2 DEF IInv, BootInv, AskedInv, DiskTypes
        <3>2. /\ Mounted(asked.vol) /\ call.op = "read" /\ call.drive = asked.vol.parent_disk
              /\ call.lba = ActualLba(asked.vol, asked.lba)
              /\ call.lba + call.count <= asked.vol.lba_end
            BY <1>2, <2>2 DEF IInv, BootInv, AskedInv
        <3>3. Mounted(asked.vol)'
            BY <1>9, <3>1, <3>2
        <3>4. CASE GoesOn
            BY <2>2, <3>1, <3>2, <3>3, <3>4 DEF GoesOn, AskedInv, VolumeReadsStayInside, ActualLba
        <3>5. CASE Fails \/ DeliversNothing
            <4>1. DOMAIN ret'.data = {} /\ call' = NULL
                BY <3>5 DEF Fails, DeliversNothing
            <4> QED
                BY <2>2, <3>1, <3>3, <4>1 DEF AskedInv, VolumeReadsStayInside
        <3>6. CASE Delivers
            <4>1. call.limit <= call.count
                BY <1>2, <1>5, <3>2, LimitBounds DEF IInv, IdeInv, CallInv
            <4>2. asked.vol.lba_start \in Nat /\ asked.vol.lba_end \in Nat
                BY <3>1 DEF VolumeType
            <4>3. \A k \in 1..call.limit :
                    /\ ret'.data[k] = <<asked.vol.parent_disk, call.lba + k - 1>>
                    /\ call.lba + k - 1 < asked.vol.lba_end
                BY <1>5, <3>1, <3>2, <3>6, <4>1, <4>2 DEF Delivers, Block
            <4>4. DOMAIN ret'.data = 1..call.limit
                BY <3>6 DEF Delivers, Block
            <4>5. asked.lba + asked.vol.lba_start < LBA_MOD => call.lba = asked.lba + asked.vol.lba_start
                BY <3>1, <3>2, <4>2, InRange DEF ActualLba
            <4>6. \A k \in 1..call.limit :
                    call.lba + k - 1 < asked.vol.lba_start => asked.lba + asked.vol.lba_start >= LBA_MOD
                BY <1>5, <3>1, <4>2, <4>5, DiskAssumption
            <4>7. ActualLba(asked.vol, asked.lba)' = call.lba
                BY <3>2 DEF ActualLba
            <4>8. VolumeReadsStayInside'
                BY <4>3, <4>4, <4>6, <4>7 DEF VolumeReadsStayInside
            <4> QED
                BY <2>2, <3>1, <3>3, <3>6, <4>8 DEF Delivers, AskedInv
        <3>7. CASE DeliversOthers
            <4>1. call' = NULL /\ asked'.vol.parent_disk \in unread'
                BY <3>2, <3>7 DEF DeliversOthers
            <4> QED
                BY <2>2, <3>1, <3>3, <4>1 DEF AskedInv, VolumeReadsStayInside
        <3> QED
            BY <1>2, <3>2, <3>4, <3>5, <3>6, <3>7 DEF Tells
    <2> QED
        BY <2>1, <2>2
<1> QED
    BY <1>1, <1>4, <1>7, <1>8, <1>10, <1>11 DEF IInv, BootInv

-----------------------------------------------------------------------------
(* Steps of the boot *)

LEMMA BootFields ==
    ASSUME IInv
    PROVE  /\ Len(all_drives) \in Nat /\ \A k \in 1..Len(all_drives) : all_drives[k] \in Drives
           /\ \A j, k \in 1..Len(all_drives) : all_drives[j] = all_drives[k] => j = k
           /\ Len(block_drives) \in Nat /\ \A k \in 1..Len(block_drives) : block_drives[k] \in Drives
           /\ Len(diskmanager_volumes) \in Nat
           /\ \A k \in 1..Len(diskmanager_volumes) : diskmanager_volumes[k] \in VolumeType
           /\ i \in Nat \ {0}
<1>1. /\ all_drives \in Seq(Drives) /\ block_drives \in Seq(Drives)
      /\ diskmanager_volumes \in Seq(VolumeType) /\ i \in Nat \ {0}
      /\ IsInjective(all_drives)
    BY DiskAssumption DEF IInv, BootInv, DiskTypes
<1>2. \A j, k \in 1..Len(all_drives) : all_drives[j] = all_drives[k] => j = k
    BY <1>1, LenProperties DEF IsInjective
<1> QED
    BY <1>1, <1>2, LenProperties

\* The driver rests: what holds of it goes on to hold.
LEMMA IdeRests ==
    ASSUME IdeInv, UNCHANGED ideVars
    PROVE  IdeInv'
<1>1. \A d \in Drives : Free(d)' <=> Free(d)
    BY DEF ideVars, Free, Quiet, Backlog, CanServe
<1>2. ControllerInv'
    BY <1>1 DEF ideVars, IdeInv, ControllerInv, Quiet, Serving, Recovering, OnChannel, CanServe, Register, Free,
       Backlog
<1>3. IdeTypes' /\ CacheInv' /\ CallInv'
    BY DEF ideVars, IdeInv, IdeTypes, CacheInv, CallInv, Known, Limit
<1>4. UnreadInv'
    BY DEF ideVars, IdeInv, UnreadInv, Follows, Backlog, CanServe
<1> QED
    BY <1>2, <1>3, <1>4 DEF IdeInv

LEMMA ProbeDriveStep ==
    ASSUME IInv, ProbeDrive
    PROVE  IInv' /\ Uses
<1> DEFINE d == all_drives[i]
<1>1. /\ pc = "probe" /\ i <= Len(all_drives) /\ i \in 1..Len(all_drives) /\ d \in Drives
      /\ UNCHANGED <<block_drives, diskmanager_volumes, asked>> /\ call = NULL /\ asked = NULL
      /\ unread = {}
    BY BootFields DEF ProbeDrive, IInv, BootInv, WaitInv, AskedInv
<1>2. CASE ProbeOk(d)
    <2>1. StartCount(d) /\ pc' = "counted" /\ i' = i
        BY <1>2 DEF ProbeDrive
    <2>2. IdeInv' /\ Started("count", d, 0, 0) /\ unread' = unread
        BY <1>1, <1>2, <2>1, StartCountStep DEF IInv
    <2>3. DiskTypes' /\ DrivesInv'
        BY <1>1, <2>1, <2>2 DEF IInv, BootInv, DiskTypes, DrivesInv, Started
    <2>4. WaitInv'
        BY <1>1, <2>1, <2>2 DEF WaitInv, Started
    <2>5. VolumesInv' /\ AskedInv'
        BY <1>1, <2>1, <2>2
           DEF IInv, BootInv, VolumesInv, VolumesApart, AskedInv, VolumeReadsStayInside, Mounted, Started
    <2>6. Uses
        <3>1. "count" \in {"count", "read"} /\ 0 \in Nat
            OBVIOUS
        <3> QED
            BY <1>1, <2>2, <3>1 DEF Uses, Starts
    <2> QED
        BY <2>2, <2>3, <2>4, <2>5, <2>6 DEF IInv, BootInv
<1>3. CASE ~ProbeOk(d)
    <2>1. /\ Select(d) /\ i' = i + 1 /\ pc' = pc
          /\ UNCHANGED <<machine, ata, failed, sector_count, call, ret, unread>>
        BY <1>3 DEF ProbeDrive
    <2>2. IdeInv'
        <3>1. unit' \in [{Channel[e] : e \in Drives} -> Drives]
            BY <1>1, <2>1 DEF IInv, IdeInv, IdeTypes, Select
        <3>2. \A e \in Drives : Free(e)'
            <4>1. \A e \in Drives : Free(e)
                BY <1>1 DEF IInv, IdeInv, ControllerInv
            <4> QED
                BY <2>1, <4>1, FreeKept
        <3> QED
            BY <1>1, <2>1, <3>1, <3>2
               DEF IInv, IdeInv, IdeTypes, CacheInv, Known, ControllerInv, CallInv, UnreadInv
    <2>3. DiskTypes'
        BY <1>1, <2>1 DEF IInv, BootInv, DiskTypes
    <2>4. DrivesInv'
        BY <1>1, <2>1, BootFields DEF IInv, BootInv, DrivesInv
    <2>5. WaitInv'
        BY <1>1, <2>1 DEF WaitInv
    <2>6. VolumesInv' /\ AskedInv'
        BY <1>1, <2>1
           DEF IInv, BootInv, VolumesInv, VolumesApart, AskedInv, VolumeReadsStayInside, Mounted
    <2> QED
        BY <2>1, <2>2, <2>3, <2>4, <2>5, <2>6 DEF IInv, BootInv, Uses
<1> QED
    BY <1>2, <1>3

\* The drive added is none of those added before.
LEMMA CountedStep ==
    ASSUME IInv, Counted
    PROVE  IInv'
<1> DEFINE d == all_drives[i]
           new == Append(block_drives, d)
<1>1. /\ pc = "counted" /\ call = NULL /\ i' = i + 1 /\ pc' = "probe"
      /\ block_drives' = Added(d)
      /\ UNCHANGED <<ideVars, diskmanager_volumes, asked>>
    BY DEF Counted
<1>2. UNCHANGED <<machine, sector_count, call, ret, unread>>
    BY <1>1 DEF ideVars
<1>3. /\ i <= Len(all_drives) /\ i \in 1..Len(all_drives) /\ d \in Drives
      /\ ret.res = BLD_SIZE_ERR \/ sector_count[d] # BLD_SIZE_UNK
    BY <1>1, BootFields DEF IInv, BootInv, WaitInv
<1>4. /\ Len(block_drives) < i
      /\ \A k \in 1..Len(block_drives) : \E j \in 1..i - 1 : block_drives[k] = all_drives[j]
      /\ \A k \in 1..Len(block_drives) : sector_count[block_drives[k]] # BLD_SIZE_UNK
      /\ \A j, k \in 1..Len(block_drives) : block_drives[j] = block_drives[k] => j = k
    BY <1>1 DEF IInv, BootInv, DrivesInv
<1>5. IdeInv'
    BY <1>1, IdeRests DEF IInv
<1>6. WaitInv'
    BY <1>1, <1>2 DEF IInv, BootInv, WaitInv
<1>7. VolumesInv' /\ AskedInv'
    BY <1>1, <1>2
       DEF IInv, BootInv, VolumesInv, VolumesApart, AskedInv, VolumeReadsStayInside, Mounted
<1>8. CASE block_drives' = block_drives
    <2>1. DiskTypes'
        BY <1>1, <1>8 DEF IInv, BootInv, DiskTypes
    <2>2. \A k \in 1..Len(block_drives) : \E j \in 1..i : block_drives[k] = all_drives[j]
        <3>1. \A j \in 1..i - 1 : j \in 1..i
            BY BootFields
        <3> QED
            BY <1>4, <3>1
    <2>3. /\ (i + 1) - 1 = i /\ Len(block_drives) < i + 1 /\ i + 1 <= Len(all_drives) + 1
          /\ Len(block_drives) <= Len(all_drives)
        BY <1>3, <1>4, BootFields
    <2>4. DrivesInv'
        BY <1>1, <1>2, <1>4, <1>8, <2>2, <2>3 DEF DrivesInv
    <2> QED
        BY <1>5, <1>6, <1>7, <2>1, <2>4 DEF IInv, BootInv
<1>9. CASE block_drives' = new /\ sector_count[d] # BLD_SIZE_UNK
    <2>1. block_drives \in Seq(Drives)
        BY DEF IInv, BootInv, DiskTypes
    <2>2. /\ new \in Seq(Drives) /\ Len(new) = Len(block_drives) + 1
          /\ \A k \in 1..Len(block_drives) : new[k] = block_drives[k]
          /\ new[Len(block_drives) + 1] = d
        BY <1>3, <2>1
    <2>3. \A k \in 1..Len(block_drives) : block_drives[k] # d
        BY <1>3, <1>4, BootFields
    <2> HIDE DEF new, d
    <2>4. DiskTypes'
        BY <1>1, <1>9, <2>2 DEF IInv, BootInv, DiskTypes
    <2>5. \A k \in 1..Len(new) : k \in 1..Len(block_drives) \/ k = Len(block_drives) + 1
        BY <2>2, BootFields
    <2>6. \A j, k \in 1..Len(new) : new[j] = new[k] => j = k
        BY <1>4, <2>2, <2>3, <2>5
    <2>7. \A k \in 1..Len(new) : sector_count[new[k]] # BLD_SIZE_UNK
        BY <1>4, <1>9, <2>2, <2>5
    <2>8. \A k \in 1..Len(new) : \E j \in 1..i : new[k] = all_drives[j]
        <3>1. i \in 1..i /\ \A j \in 1..i - 1 : j \in 1..i
            BY <1>3, BootFields
        <3>2. new[Len(block_drives) + 1] = all_drives[i]
            BY <2>2 DEF d
        <3> QED
            BY <1>4, <2>2, <2>5, <3>1, <3>2
    <2>9. (i + 1) - 1 = i /\ Len(new) < i + 1 /\ i + 1 <= Len(all_drives) + 1 /\ Len(new) <= Len(all_drives)
        BY <1>3, <1>4, <2>2, BootFields
    <2>10. DrivesInv'
        BY <1>1, <1>2, <1>9, <2>6, <2>7, <2>8, <2>9 DEF DrivesInv
    <2> QED
        BY <1>5, <1>6, <1>7, <2>4, <2>10 DEF IInv, BootInv
<1> QED
    BY <1>1, <1>3, <1>8, <1>9 DEF Added

LEMMA NextLoopStep ==
    ASSUME IInv,
           \/ NextLoop("probe", Len(all_drives), "setup")
           \/ NextLoop("setup", Len(block_drives), "partitions")
           \/ call = NULL /\ NextLoop("partitions", Len(diskmanager_volumes), "ready")
    PROVE  IInv'
<1>1. /\ i' = 1 /\ UNCHANGED <<ideVars, block_drives, diskmanager_volumes, asked>>
      /\ \/ pc = "probe" /\ pc' = "setup"
         \/ pc = "setup" /\ pc' = "partitions"
         \/ pc = "partitions" /\ pc' = "ready" /\ call = NULL
    BY DEF NextLoop
<1>2. UNCHANGED <<machine, sector_count, call, ret, unread>>
    BY <1>1 DEF ideVars
<1>3. call = NULL
    BY <1>1 DEF IInv, BootInv, WaitInv
<1>4. IdeInv'
    BY <1>1, IdeRests DEF IInv
<1>5. DiskTypes' /\ DrivesInv'
    BY <1>1, <1>2 DEF IInv, BootInv, DiskTypes, DrivesInv
<1>6. WaitInv'
    BY <1>1, <1>2, <1>3 DEF IInv, BootInv, WaitInv
<1>7. VolumesInv'
    <2>1. pc = "probe" => diskmanager_volumes = <<>> /\ Len(diskmanager_volumes) = 0
        BY EmptySeq DEF IInv, BootInv, VolumesInv
    <2>2. pc' \in {"setup", "first"} =>
             /\ i' <= Len(block_drives)' + 1
             /\ Len(diskmanager_volumes)' <= ENTRIES * (i' - 1)
             /\ \A k \in 1..Len(diskmanager_volumes)' :
                   \E j \in 1..i' - 1 : diskmanager_volumes'[k].parent_disk = block_drives'[j]
        <3>1. ENTRIES * (1 - 1) = 0
            BY PartitionsAssumption
        <3> QED
            BY <1>1, <2>1, <3>1, BootFields
    <2> QED
        BY <1>1, <1>2, <2>2 DEF IInv, BootInv, VolumesInv, VolumesApart, Mounted
<1>8. AskedInv'
    BY <1>1, <1>2, <1>3 DEF IInv, BootInv, AskedInv, VolumeReadsStayInside, Mounted, ActualLba
<1> QED
    BY <1>4, <1>5, <1>6, <1>7, <1>8 DEF IInv, BootInv

\* A registered drive has told its size.
LEMMA RegisteredKnown ==
    ASSUME IInv, NEW k \in 1..Len(block_drives)
    PROVE  Known(block_drives[k]) /\ block_drives[k] \in Drives
BY BootFields DEF IInv, IdeInv, CacheInv, BootInv, DrivesInv

LEMMA ReadFirstStep ==
    ASSUME IInv, ReadFirst
    PROVE  IInv' /\ Uses
<1> DEFINE d == block_drives[i]
<1>1. /\ pc = "setup" /\ i <= Len(block_drives) /\ i \in 1..Len(block_drives)
      /\ pc' = "first" /\ UNCHANGED <<i, block_drives, diskmanager_volumes, asked>>
      /\ call = NULL /\ asked = NULL /\ unread = {}
    BY BootFields DEF ReadFirst, IInv, BootInv, WaitInv, AskedInv
<1>2. Known(d) /\ d \in Drives
    BY <1>1, RegisteredKnown
<1>3. IdeInv' /\ Started("read", d, 0, 1)
    <2>1. 0 <= machine[d].size
        BY <1>2, DiskAssumption, PartitionsAssumption DEF Known, IInv, IdeInv, IdeTypes, Words
    <2>2. StartRead(d, 0, 1)
        BY DEF ReadFirst
    <2>3. 0 \in Nat /\ 1 \in Nat
        OBVIOUS
    <2> QED
        BY <1>1, <1>2, <2>1, <2>2, <2>3, StartReadStep DEF IInv
<1>4. DiskTypes' /\ DrivesInv'
    BY <1>1, <1>3 DEF IInv, BootInv, DiskTypes, DrivesInv, Started
<1>5. WaitInv'
    BY <1>1, <1>3 DEF WaitInv, Started
<1>6. VolumesInv'
    BY <1>1, <1>3 DEF IInv, BootInv, VolumesInv, VolumesApart, Mounted, Started
<1>7. AskedInv'
    BY <1>1 DEF AskedInv, VolumeReadsStayInside
<1>8. Uses
    <2>1. "read" \in {"count", "read"} /\ 0 \in Nat /\ 1 \in Nat
        OBVIOUS
    <2> QED
        BY <1>1, <1>2, <1>3, <2>1 DEF Uses, Starts
<1> QED
    BY <1>3, <1>4, <1>5, <1>6, <1>7, <1>8 DEF IInv, BootInv

NotEmpty(v) == v.lba_start # v.lba_end

Apart(v, w) == v.lba_end <= w.lba_start \/ w.lba_end <= v.lba_start

\* The volumes of one drive: of the entries of its table, or the whole of it.
LEMMA FoundVolumes ==
    ASSUME IInv, pc = "first", call = NULL
    PROVE  LET d == block_drives[i]
               F == Found(d)
           IN  /\ F \in Seq(VolumeType) /\ Len(F) \in Nat /\ Len(F) <= ENTRIES
               /\ \A k \in 1..Len(F) : F[k].parent_disk = d /\ Mounted(F[k]) /\ NotEmpty(F[k])
               /\ \A j, k \in 1..Len(F) : j # k => Apart(F[j], F[k])
<1> DEFINE d == block_drives[i]
           F == Found(d)
           first == machine[ret.data[1][1]]
           Goal == /\ F \in Seq(VolumeType) /\ Len(F) \in Nat /\ Len(F) <= ENTRIES
                   /\ \A k \in 1..Len(F) : F[k].parent_disk = d /\ Mounted(F[k]) /\ NotEmpty(F[k])
                   /\ \A j, k \in 1..Len(F) : j # k => Apart(F[j], F[k])
<1>1. /\ i \in 1..Len(block_drives)
      /\ ret.res = 1 => ret.data[1] = <<d, 0>>
      /\ sector_count[d] # BLD_SIZE_UNK
    BY BootFields DEF IInv, BootInv, WaitInv, DrivesInv
<1>2. /\ Known(d) /\ d \in Drives /\ machine[d].size \in Words /\ machine[d].size \in Nat
      /\ ENTRIES \in Nat \ {0}
    <2>1. Known(d) /\ d \in Drives
        BY <1>1, RegisteredKnown
    <2>2. machine \in Machines
        BY DEF IInv, IdeInv, IdeTypes
    <2>3. machine[d].size \in Words
        BY <2>1, <2>2, DiskAssumption
    <2> QED
        BY <2>1, <2>3, PartitionsAssumption DEF Words
<1>3. CASE ret.res # 1 \/ ~first.signed
    <2>1. F = <<>>
        BY <1>3 DEF Found
    <2>2. F \in Seq(VolumeType) /\ Len(F) = 0
        BY <2>1, EmptySeq, Zenon
    <2> HIDE DEF F
    <2>3. Goal
        BY <1>2, <2>2
    <2> QED
        BY <2>3 DEF F
<1>4. CASE ret.res = 1 /\ first.signed
    <2>1. first = machine[d]
        BY <1>1, <1>4
    <2> DEFINE table == machine[d].table
               V == Volumes(table)
               n == Cardinality(Used(table))
    <2>2. CASE Accepted(table)
        <3>1. n \in Nat /\ n <= ENTRIES
            <4>1. IsFiniteSet(1..ENTRIES) /\ Cardinality(1..ENTRIES) = ENTRIES
                BY <1>2, FS_Interval
            <4>2. Used(table) \subseteq 1..ENTRIES
                BY DEF Used
            <4> QED
                BY <4>1, <4>2, FS_Subset, FS_CardinalityType
        <3>2. DOMAIN V = 1..n
            BY DEF Volumes
        <3>3. F = [k \in 1..n |-> [parent_disk |-> d, lba_start |-> V[k].lba_start, lba_end |-> V[k].lba_end]]
            BY <1>4, <2>1, <2>2, <3>2 DEF Found
        <3>4. WordTable(table)
            <4>1. machine \in Machines
                BY DEF IInv, IdeInv, IdeTypes
            <4>2. /\ table \in Seq([partition_type : STRING, lba_partition_start : Words, lba_num_sectors : Words])
                  /\ Len(table) = ENTRIES
                BY <1>2, <4>1, DiskAssumption
            <4>3. \A k \in 1..ENTRIES :
                     table[k] \in [partition_type : STRING, lba_partition_start : Words, lba_num_sectors : Words]
                BY <4>2, LenProperties
            <4> QED
                BY <4>3 DEF WordTable, Used
        <3>5. \A j, k \in 1..n :
                /\ V[j].lba_start \in Words /\ V[j].lba_end \in Words
                /\ V[j].lba_start # V[j].lba_end
                /\ j # k => Apart(V[j], V[k])
            BY <2>2, <3>2, <3>4, AcceptedTablesAreDisjoint DEF Apart
        <3> HIDE DEF F, V, n, d
        <3>6. F \in [1..n -> VolumeType]
            <4>1. \A x \in Words : x \in Nat
                BY PartitionsAssumption DEF Words
            <4> QED
                BY <1>2, <3>3, <3>5, <4>1 DEF VolumeType
        <3>7. F \in Seq(VolumeType) /\ Len(F) = n
            <4>1. F \in Seq(VolumeType)
                BY <3>1, <3>6, SeqDef
            <4> QED
                BY <3>1, <3>6, <4>1, LenProperties
        <3>8. \A k \in 1..n : /\ F[k].parent_disk = d
                              /\ F[k].lba_start = V[k].lba_start /\ F[k].lba_end = V[k].lba_end
            BY <3>3
        <3>9. \A k \in 1..n : Mounted(F[k]) /\ NotEmpty(F[k])
            BY <1>1, <3>5, <3>8 DEF Mounted, NotEmpty
        <3>10. \A j, k \in 1..n : j # k => Apart(F[j], F[k])
            BY <3>5, <3>8 DEF Apart
        <3>11. Goal
            BY <3>1, <3>7, <3>8, <3>9, <3>10
        <3> QED
            BY <3>11 DEF F, d
    <2>3. CASE ~Accepted(table)
        <3> DEFINE whole == [parent_disk |-> d, lba_start |-> 0, lba_end |-> sector_count[d]]
        <3>1. F = <<whole>>
            BY <1>4, <2>1, <2>3 DEF Found
        <3>2. /\ whole \in VolumeType
              /\ whole.parent_disk = d /\ whole.lba_start = 0 /\ whole.lba_end = sector_count[d]
            BY <1>2 DEF Known, VolumeType
        <3>3. Mounted(whole) /\ NotEmpty(whole)
            BY <1>1, <1>2, <3>2 DEF Mounted, NotEmpty, Known
        <3> HIDE DEF whole, F, d
        <3>4. F \in Seq(VolumeType) /\ Len(F) = 1 /\ F[1] = whole
            BY <3>1, <3>2
        <3>5. Goal
            BY <1>2, <3>2, <3>3, <3>4
        <3> QED
            BY <3>5 DEF F, d
    <2> QED
        BY <2>2, <2>3
<1> QED
    BY <1>3, <1>4

\* Volumes of another drive are appended to those of the drives before.
LEMMA SetupDriveStep ==
    ASSUME IInv, SetupDrive
    PROVE  IInv'
<1> DEFINE d == block_drives[i]
           F == Found(d)
           old == diskmanager_volumes
           new == old \o F
           m == Len(old)
           n == Len(F)
<1>1. /\ pc = "first" /\ call = NULL /\ i' = i + 1 /\ pc' = "setup"
      /\ diskmanager_volumes' = new
      /\ UNCHANGED <<ideVars, block_drives, asked>>
    BY DEF SetupDrive
<1>2. UNCHANGED <<machine, sector_count, call, ret, unread>>
    BY <1>1 DEF ideVars
<1>3. /\ F \in Seq(VolumeType) /\ n \in Nat /\ n <= ENTRIES
      /\ \A k \in 1..n : F[k].parent_disk = d /\ Mounted(F[k]) /\ NotEmpty(F[k])
      /\ \A j, k \in 1..n : j # k => Apart(F[j], F[k])
    BY <1>1, FoundVolumes
<1>4. /\ old \in Seq(VolumeType) /\ m \in Nat
      /\ DOMAIN old = 1..m
      /\ \A k \in 1..m : Mounted(old[k]) /\ NotEmpty(old[k])
      /\ \A j, k \in 1..m : j # k /\ old[j].parent_disk = old[k].parent_disk => Apart(old[j], old[k])
    <2>1. old \in Seq(VolumeType) /\ m \in Nat /\ DOMAIN old = 1..m
        BY LenProperties DEF IInv, BootInv, DiskTypes
    <2> QED
        BY <2>1 DEF IInv, BootInv, VolumesInv, VolumesApart, Apart, NotEmpty
<1>5. /\ i \in 1..Len(block_drives) /\ i \in Nat \ {0} /\ m <= ENTRIES * (i - 1)
      /\ \A k \in 1..m : \E j \in 1..i - 1 : old[k].parent_disk = block_drives[j]
    BY <1>1, BootFields DEF IInv, BootInv, WaitInv, VolumesInv
<1>6. \A k \in 1..m : old[k].parent_disk # d
    <2>1. \A j \in 1..i - 1 : j \in 1..Len(block_drives) /\ j # i
        BY <1>5, BootFields
    <2>2. \A j, k \in 1..Len(block_drives) : block_drives[j] = block_drives[k] => j = k
        BY DEF IInv, BootInv, DrivesInv
    <2> QED
        BY <1>5, <2>1, <2>2
<1> HIDE DEF F, d
<1>7. /\ new \in Seq(VolumeType) /\ Len(new) = m + n /\ DOMAIN new = 1..(m + n)
      /\ \A k \in 1..m : new[k] = old[k]
      /\ \A k \in 1..(m + n) : k > m => k - m \in 1..n /\ new[k] = F[k - m]
    <2>1. new \in Seq(VolumeType) /\ Len(new) = m + n
        BY <1>3, <1>4, ConcatProperties
    <2>2. DOMAIN new = 1..(m + n)
        BY <2>1, LenProperties
    <2> QED
        BY <1>3, <1>4, <2>1, <2>2, ConcatProperties
<1> HIDE DEF old, new, m, n
<1>8. \A k \in 1..(m + n) : k \in 1..m \/ k > m
    BY <1>3, <1>4
<1>9. \A k \in 1..(m + n) : Mounted(new[k]) /\ NotEmpty(new[k])
    BY <1>3, <1>4, <1>7, <1>8
<1>10. \A j, k \in 1..(m + n) : j # k /\ new[j].parent_disk = new[k].parent_disk => Apart(new[j], new[k])
    <2> SUFFICES ASSUME NEW j \in 1..(m + n), NEW k \in 1..(m + n), j # k,
                        new[j].parent_disk = new[k].parent_disk
                 PROVE  Apart(new[j], new[k])
        OBVIOUS
    <2>1. CASE j \in 1..m /\ k \in 1..m
        BY <1>4, <1>7, <2>1
    <2>2. CASE j > m /\ k > m
        <3>1. j - m # k - m
            BY <1>4
        <3> QED
            BY <1>3, <1>7, <2>2, <3>1
    <2>3. CASE j \in 1..m /\ k > m
        BY <1>3, <1>6, <1>7, <2>3
    <2>4. CASE j > m /\ k \in 1..m
        BY <1>3, <1>6, <1>7, <2>4
    <2> QED
        BY <1>8, <2>1, <2>2, <2>3, <2>4
<1>11. m + n <= ENTRIES * i /\ ENTRIES * i <= DSK_MAX_VOLUMES
    <2>1. \A e, a, b \in Nat : a <= b => e * a <= e * b
        OBVIOUS
    <2>2. \A e, a \in Nat : e * ((a + 1) - 1) = e * a
        OBVIOUS
    <2>3. /\ ENTRIES \in Nat /\ i \in Nat /\ i - 1 \in Nat /\ i = (i - 1) + 1
          /\ Len(all_drives) \in Nat /\ i <= Len(all_drives)
        BY <1>5, BootFields, PartitionsAssumption DEF IInv, BootInv, DrivesInv
    <2>4. \A e, a \in Nat : e * (a + 1) = e * a + e
        OBVIOUS
    <2>5. ENTRIES * i = ENTRIES * (i - 1) + ENTRIES
        BY <2>3, <2>4
    <2>6. ENTRIES * i <= ENTRIES * Len(all_drives)
        BY <2>1, <2>3
    <2>7. \A e, a \in Nat : e * a \in Nat
        OBVIOUS
    <2>8. ENTRIES * (i - 1) \in Nat /\ ENTRIES * i \in Nat /\ ENTRIES * Len(all_drives) \in Nat
        BY <2>3, <2>7
    <2> QED
        BY <1>3, <1>4, <1>5, <2>3, <2>5, <2>6, <2>8, DiskAssumption
<1>12. \A k \in 1..(m + n) : \E j \in 1..i : new[k].parent_disk = block_drives[j]
    <2>1. i \in 1..i /\ \A j \in 1..i - 1 : j \in 1..i
        BY <1>5
    <2> QED
        BY <1>3, <1>5, <1>7, <1>8, <2>1 DEF d
<1>13. (i + 1) - 1 = i /\ i + 1 <= Len(block_drives) + 1 /\ i + 1 \in Nat \ {0} /\ DSK_MAX_VOLUMES \in Nat
    BY <1>5, BootFields, DiskAssumption
<1>14. m + n <= DSK_MAX_VOLUMES
    <2>1. \A e, a \in Nat : e * a \in Nat
        OBVIOUS
    <2>2. ENTRIES * i \in Nat
        BY <1>5, <2>1, PartitionsAssumption
    <2> QED
        BY <1>3, <1>4, <1>11, <1>13, <2>2
<1>15. IdeInv'
    BY <1>1, IdeRests DEF IInv
<1>16. DiskTypes' /\ DrivesInv'
    BY <1>1, <1>2, <1>7, <1>13 DEF IInv, BootInv, DiskTypes, DrivesInv
<1>17. WaitInv'
    BY <1>1, <1>2 DEF IInv, BootInv, WaitInv
<1>18. VolumesInv'
    <2>1. diskmanager_volumes' = new /\ Len(new) = m + n /\ DOMAIN new = 1..(m + n)
        BY <1>1, <1>7
    <2>2. \A k \in 1..(m + n) : Mounted(diskmanager_volumes[k])'
        BY <1>1, <1>2, <1>9 DEF Mounted
    <2>3. VolumesApart'
        BY <1>9, <1>10, <2>1 DEF VolumesApart, NotEmpty, Apart
    <2> QED
        BY <1>1, <1>11, <1>12, <1>13, <1>14, <2>1, <2>2, <2>3 DEF VolumesInv
<1>19. AskedInv'
    BY <1>1, <1>2 DEF IInv, BootInv, AskedInv, VolumeReadsStayInside
<1> QED
    BY <1>15, <1>16, <1>17, <1>18, <1>19 DEF IInv, BootInv

-----------------------------------------------------------------------------
(* Reads of volumes *)

\* Where a read of a volume begins, and what is left of the volume from there.
LEMMA ReadBounds ==
    ASSUME NEW vol \in VolumeType, vol.lba_end \in Words, NEW lba \in Nat, NEW count \in Nat, count <= WORD,
           ActualLba(vol, lba) <= vol.lba_end
    PROVE  /\ ActualLba(vol, lba) \in Nat /\ CountInside(vol, lba, count) \in Nat
           /\ ActualLba(vol, lba) + CountInside(vol, lba, count) <= vol.lba_end
<1> DEFINE from == ActualLba(vol, lba)
<1>1. vol.lba_start \in Nat /\ vol.lba_end \in Nat /\ vol.lba_end < WORD /\ WORD \in Nat /\ 2 * WORD <= LBA_MOD
    BY DiskAssumption, PartitionsAssumption DEF VolumeType, Words
<1>2. from \in Nat
    <2>1. lba + vol.lba_start \in Nat
        BY <1>1
    <2> QED
        BY <2>1, InRange DEF ActualLba
<1> HIDE DEF from
<1>3. from <= vol.lba_end
    BY DEF from
<1>4. (from + count) % LBA_MOD = from + count
    <2>1. from + count \in Nat /\ from + count < LBA_MOD
        BY <1>1, <1>2, <1>3, DiskAssumption
    <2> QED
        BY <2>1, InRange
<1>5. CountInside(vol, lba, count) = (IF from + count > vol.lba_end THEN vol.lba_end ELSE from + count) - from
    BY <1>4 DEF CountInside, from
<1>6. CountInside(vol, lba, count) \in Nat /\ from + CountInside(vol, lba, count) <= vol.lba_end
    BY <1>1, <1>2, <1>3, <1>5
<1> QED
    BY <1>2, <1>6 DEF from

\* A read that is refused, by the disk manager or by the driver.
LEMMA RefusedStep ==
    ASSUME IInv, call = NULL, call' = NULL, ret' = [res |-> 0, data |-> <<>>],
           UNCHANGED <<machine, ata, unit, failed, sector_count, unread>>
    PROVE  IdeInv' /\ Refused
<1>1. ret' \in [res : Int, data : Seq(Drives \X Nat)]
    <2>1. <<>> \in Seq(Drives \X Nat) /\ 0 \in Int
        BY EmptySeq
    <2>2. \A n \in Int, got \in Seq(Drives \X Nat) :
             [res |-> n, data |-> got] \in [res : Int, data : Seq(Drives \X Nat)]
        OBVIOUS
    <2> QED
        BY <2>1, <2>2, Zenon
<1>2. \A d \in Drives : Free(d)'
    <2>1. \A d \in Drives : Free(d)
        BY DEF IInv, IdeInv, ControllerInv
    <2> QED
        BY <2>1, FreeKept
<1>3. IdeInv'
    BY <1>1, <1>2, CallEnds DEF IInv, IdeInv, IdeTypes, CacheInv, Known
<1> QED
    BY <1>3 DEF Refused

\* What a read of a volume asks of its drive ends in the volume.
LEMMA ReadVolumeStep ==
    ASSUME IInv, call = NULL, NEW vol \in VolumeType, Mounted(vol),
           NEW lba \in Nat, NEW count \in Nat, count <= WORD,
           ReadVolume(vol, lba, count)
    PROVE  /\ IdeInv' /\ UNCHANGED <<machine, sector_count>>
           /\ asked' \in [vol : VolumeType, lba : Nat, count : Nat]
           /\ asked' # NULL
           /\ Mounted(vol)' /\ asked'.vol = vol /\ asked'.lba = lba
           /\ \/ Refused
              \/ /\ Started("read", vol.parent_disk, ActualLba(vol, lba), CountInside(vol, lba, count))
                 /\ ActualLba(vol, lba) \in Nat /\ CountInside(vol, lba, count) \in Nat
                 /\ ActualLba(vol, lba) + CountInside(vol, lba, count) <= vol.lba_end
<1>1. asked' = [vol |-> vol, lba |-> lba, count |-> count]
    BY DEF ReadVolume
<1>2. /\ asked' \in [vol : VolumeType, lba : Nat, count : Nat]
      /\ asked' # NULL /\ asked'.vol = vol /\ asked'.lba = lba
    BY <1>1, DiskAssumption
<1>3. /\ vol.parent_disk \in Drives /\ vol.lba_end \in Words
      /\ Known(vol.parent_disk)
    BY DEF VolumeType, Mounted, IInv, IdeInv, CacheInv
<1>4. machine[vol.parent_disk].size \in Nat
    BY <1>3, DiskAssumption, PartitionsAssumption DEF IInv, IdeInv, IdeTypes, Words
<1> DEFINE n == CountInside(vol, lba, count)
           from == ActualLba(vol, lba)
<1>5. CASE from > vol.lba_end
    <2>1. /\ call' = NULL /\ ret' = [res |-> 0, data |-> <<>>]
          /\ UNCHANGED <<machine, ata, unit, failed, sector_count, unread>>
        BY <1>5 DEF ReadVolume, Return
    <2>2. IdeInv' /\ Refused
        BY <2>1, RefusedStep
    <2> QED
        BY <1>2, <2>1, <2>2 DEF Mounted
<1>6. CASE ~(from > vol.lba_end)
    <2>1. StartRead(vol.parent_disk, from, n)
        BY <1>6 DEF ReadVolume
    <2>2. from \in Nat /\ n \in Nat /\ from + n <= vol.lba_end
        <3>1. lba + vol.lba_start \in Nat /\ vol.lba_end \in Nat
            BY DEF VolumeType
        <3>2. from \in Nat
            BY <3>1, InRange DEF ActualLba
        <3>3. from <= vol.lba_end
            BY <1>6, <3>1, <3>2
        <3> QED
            BY <1>3, <3>3, ReadBounds
    <2> HIDE DEF n, from
    <2>3. CASE from > sector_count[vol.parent_disk]
        <3>1. /\ call' = NULL /\ ret' = [res |-> 0, data |-> <<>>]
              /\ UNCHANGED <<machine, ata, unit, failed, sector_count, unread>>
            BY <2>1, <2>3 DEF StartRead, Return
        <3>2. IdeInv' /\ Refused
            BY <3>1, RefusedStep
        <3> QED
            BY <1>2, <3>1, <3>2 DEF Mounted
    <2>4. CASE ~(from > sector_count[vol.parent_disk])
        <3>1. from <= machine[vol.parent_disk].size
            BY <1>3, <1>4, <2>2, <2>4 DEF Known
        <3>2. IdeInv' /\ Started("read", vol.parent_disk, from, n)
            BY <1>3, <2>1, <2>2, <3>1, StartReadStep DEF IInv
        <3>3. UNCHANGED <<machine, sector_count>>
            BY <3>2 DEF Started
        <3>4. Mounted(vol)'
            BY <3>3 DEF Mounted
        <3> QED
            BY <1>2, <2>2, <3>2, <3>3, <3>4 DEF n, from
    <2> QED
        BY <2>3, <2>4
<1> QED
    BY <1>5, <1>6

\* A read of a volume, of the boot or of a caller.
LEMMA AskingStep ==
    ASSUME IInv, call = NULL, pc \in {"partitions", "ready"},
           NEW vol \in VolumeType, Mounted(vol),
           NEW lba \in Nat, NEW count \in Nat, count <= WORD,
           ReadVolume(vol, lba, count),
           i' \in Nat \ {0}, UNCHANGED <<pc, block_drives, diskmanager_volumes>>
    PROVE  IInv' /\ Uses
<1> DEFINE n == CountInside(vol, lba, count)
           from == ActualLba(vol, lba)
<1>1. /\ IdeInv' /\ UNCHANGED <<machine, sector_count>>
      /\ asked' \in [vol : VolumeType, lba : Nat, count : Nat]
      /\ asked' # NULL
      /\ Mounted(vol)' /\ asked'.vol = vol /\ asked'.lba = lba
      /\ \/ Refused
         \/ /\ Started("read", vol.parent_disk, from, n)
            /\ from \in Nat /\ n \in Nat /\ from + n <= vol.lba_end
    BY ReadVolumeStep
<1>2. from' = from /\ ActualLba(asked.vol, asked.lba)' = from
    BY <1>1 DEF ActualLba
<1> HIDE DEF n, from
<1>3. pc' \notin {"probe", "counted", "setup", "first"}
    OBVIOUS
<1>4. DiskTypes' /\ DrivesInv'
    BY <1>1, <1>3 DEF IInv, BootInv, DiskTypes, DrivesInv
<1>5. WaitInv'
    BY <1>3 DEF WaitInv
<1>6. VolumesInv'
    BY <1>1, <1>3 DEF IInv, BootInv, VolumesInv, VolumesApart, Mounted
<1>7. AskedInv'
    <2>1. CASE Refused
        <3>1. DOMAIN ret'.data = {} /\ call' = NULL
            BY <2>1 DEF Refused
        <3> QED
            BY <1>1, <1>3, <3>1 DEF AskedInv, VolumeReadsStayInside
    <2>2. CASE Started("read", vol.parent_disk, from, n) /\ from + n <= vol.lba_end
        BY <1>1, <1>2, <1>3, <2>2 DEF Started, AskedInv, VolumeReadsStayInside
    <2> QED
        BY <1>1, <2>1, <2>2
<1>8. Uses
    <2>1. "read" \in {"count", "read"} /\ vol.parent_disk \in Drives
        BY DEF VolumeType
    <2> QED
        BY <1>1, <2>1 DEF Uses, Starts
<1> QED
    BY <1>1, <1>4, <1>5, <1>6, <1>7, <1>8 DEF IInv, BootInv

\* diskmanager_setup_partitions() reads the first sector of a volume.
LEMMA SetupPartitionsStep ==
    ASSUME IInv, SetupPartitions
    PROVE  IInv' /\ Uses
<1> DEFINE vol == diskmanager_volumes[i]
<1>1. /\ pc = "partitions" /\ call = NULL /\ i \in 1..Len(diskmanager_volumes)
      /\ i' \in Nat \ {0} /\ UNCHANGED <<pc, block_drives, diskmanager_volumes>>
      /\ ReadVolume(vol, 0, 1)
    BY BootFields DEF SetupPartitions
<1>2. vol \in VolumeType /\ Mounted(vol)
    BY <1>1, BootFields DEF IInv, BootInv, VolumesInv
<1>3. 0 \in Nat /\ 1 \in Nat /\ 1 <= WORD /\ pc \in {"partitions", "ready"}
    BY <1>1, PartitionsAssumption
<1> HIDE DEF vol
<1> QED
    BY <1>1, <1>2, <1>3, AskingStep

LEMMA ClientReadStep ==
    ASSUME IInv, ClientRead
    PROVE  IInv' /\ Uses
<1>1. /\ pc = "ready" /\ call = NULL
      /\ UNCHANGED <<pc, i, block_drives, diskmanager_volumes>>
    BY DEF ClientRead
<1>2. PICK vol \in Range(diskmanager_volumes), lba \in Lbas, count \in Counts : ReadVolume(vol, lba, count)
    BY DEF ClientRead
<1>3. vol \in VolumeType /\ Mounted(vol)
    <2>1. PICK k \in 1..Len(diskmanager_volumes) : vol = diskmanager_volumes[k]
        BY LenProperties DEF Range, IInv, BootInv, DiskTypes
    <2> QED
        BY <2>1, BootFields DEF IInv, BootInv, VolumesInv
<1>4. lba \in Nat /\ count \in Nat /\ count <= WORD
    BY DiskAssumption, PartitionsAssumption DEF Words
<1>5. i' \in Nat \ {0} /\ pc \in {"partitions", "ready"}
    BY <1>1, BootFields
<1> QED
    BY <1>1, <1>2, <1>3, <1>4, <1>5, AskingStep

-----------------------------------------------------------------------------
(* The theorems *)

LEMMA StepPreserves == IInv /\ [Next]_vars => IInv'
<1> SUFFICES ASSUME IInv, [Next]_vars
             PROVE  IInv'
    OBVIOUS
<1>1. CASE Boot
    BY <1>1, ProbeDriveStep, CountedStep, NextLoopStep, ReadFirstStep, SetupDriveStep, SetupPartitionsStep
       DEF Boot
<1>2. CASE ClientRead
    BY <1>2, ClientReadStep
<1>3. CASE Below
    BY <1>3, ControllerStep, DriverInDisk DEF Below
<1>4. CASE UNCHANGED vars
    <2>1. IdeInv'
        BY <1>4, IdeRests DEF vars, IInv
    <2>2. /\ UNCHANGED <<machine, sector_count, call, ret, unread>>
          /\ UNCHANGED <<pc, i, block_drives, diskmanager_volumes, asked>>
        BY <1>4 DEF vars, ideVars
    <2> QED
        BY <2>1, <2>2
           DEF IInv, BootInv, DiskTypes, DrivesInv, WaitInv, VolumesInv, VolumesApart, AskedInv,
               VolumeReadsStayInside, Mounted, ActualLba
<1> QED
    BY <1>1, <1>2, <1>3, <1>4 DEF Next

\* The invariant of the boot, the driver and the controller together: what
\* each knows of the others between two polls of a status register, also of a
\* drive that a read of no sectors has left with data.
THEOREM InductiveInvariant == Spec => []IInv
<1> QED
    BY InitEstablishes, StepPreserves, PTL DEF Spec

\* No drive is left with a command or with data when ide_read() or
\* ide_get_sector_count() has returned, but for the drives of which a call has
\* read no sectors.
THEOREM NothingLeftPending == Spec => []NothingPending
<1>1. IInv => NothingPending
    <2> SUFFICES ASSUME IInv, NEW d \in Drives \ unread, ata[d].st \in {"busy", "data"}
                 PROVE  /\ call # NULL
                        /\ Channel[d] = Channel[call.drive]
                        /\ ata[d].op = "reset" \/ d = call.drive
        BY DEF NothingPending
    <2>1. ~Quiet(d) /\ ~Free(d) /\ call # NULL
        BY DEF IInv, IdeInv, ControllerInv, Free, Quiet
    <2>2. CASE call.at = "reset"
        <3>1. d \in OnChannel(call.drive) /\ ata[d] = Resetting
            BY <2>1, <2>2 DEF IInv, IdeInv, ControllerInv, Recovering
        <3> QED
            BY <2>1, <3>1 DEF OnChannel, Resetting
    <2>3. CASE call.at # "reset"
        BY <2>1, <2>3 DEF IInv, IdeInv, ControllerInv
    <2> QED
        BY <2>2, <2>3
<1> QED
    BY <1>1, InductiveInvariant, PTL

\* Of any tables, with entries that wrap or lie beyond their drive too: no
\* volume of the disk manager is empty, and no sector is in two of them.
THEOREM VolumesStayApart == Spec => []VolumesApart
<1>1. IInv => VolumesApart
    BY DEF IInv, BootInv, VolumesInv
<1> QED
    BY <1>1, InductiveInvariant, PTL

\* diskmanager_read_volume() delivers the sectors it was asked for and none
\* past the end of the volume, none before its start but for an address that
\* wraps, on a drive without unread data.
THEOREM ReadsStayInside == Spec => []VolumeReadsStayInside
<1>1. IInv => VolumeReadsStayInside
    BY DEF IInv, BootInv, AskedInv
<1> QED
    BY <1>1, InductiveInvariant, PTL

\* The sizes, the volumes and the calls keep to their types and bounds.
THEOREM TypeCorrect == Spec => []TypeOK
<1>1. IInv => TypeOK
    <2> SUFFICES ASSUME IInv
                 PROVE  TypeOK
        OBVIOUS
    <2>1. pc \in {"probe", "counted", "setup", "first", "partitions", "ready"} /\ i \in Nat \ {0}
        BY DEF IInv, BootInv, DiskTypes
    <2>2. DOMAIN block_drives = 1..Len(block_drives) /\ DOMAIN diskmanager_volumes = 1..Len(diskmanager_volumes)
        BY LenProperties DEF IInv, BootInv, DiskTypes
    <2>3. IsInjective(block_drives)
        BY <2>2 DEF IsInjective, IInv, BootInv, DrivesInv
    <2>4. \A d \in Range(block_drives) : sector_count[d] = machine[d].size /\ sector_count[d] > 0
        BY <2>2, RegisteredKnown DEF Range, Known
    <2>5. Range(diskmanager_volumes) \subseteq VolumeType
        BY <2>2, BootFields DEF Range
    <2>6. Len(diskmanager_volumes) <= DSK_MAX_VOLUMES
        BY DEF IInv, BootInv, VolumesInv
    <2>7. call # NULL => call.limit < MAX_COUNT /\ Len(call.got) <= call.limit
        <3> SUFFICES ASSUME call # NULL
                     PROVE  call.limit < MAX_COUNT /\ Len(call.got) <= call.limit
            OBVIOUS
        <3>1. /\ call.op \in {"count", "read"} /\ call.drive \in Drives /\ call.lba \in Nat
              /\ call.count \in Nat /\ call.limit \in Nat /\ Len(call.got) \in Nat
            BY CallFields, LenProperties DEF IInv, IdeInv
        <3>2. call.at # "transfer" => Len(call.got) = 0
            BY EmptySeq DEF IInv, IdeInv, CallInv
        <3>3. CASE call.op = "count"
            BY <3>1, <3>2, <3>3, IdeAssumption DEF IInv, IdeInv, CallInv
        <3>4. CASE call.op = "read"
            <4>1. call.limit < MAX_COUNT
                BY <3>1, <3>4, LimitBounds DEF IInv, IdeInv, CallInv
            <4>2. Len(call.got) <= call.limit
                BY <3>1, <3>2, <3>4 DEF IInv, IdeInv, CallInv
            <4> QED
                BY <4>1, <4>2
        <3> QED
            BY <3>1, <3>3, <3>4
    <2>8. failed \subseteq Drives
        BY DEF IInv, IdeInv, IdeTypes
    <2> QED
        BY <2>1, <2>3, <2>4, <2>5, <2>6, <2>7, <2>8 DEF TypeOK
<1> QED
    BY <1>1, InductiveInvariant, PTL

-----------------------------------------------------------------------------
(* The promise of a block driver *)

PromisedCall == IF call = NULL THEN NULL
                ELSE [op |-> call.op, drive |-> call.drive, lba |-> call.lba, count |-> call.count]

\* A call that starts asks, one with nothing to read is refused.
LEMMA UsesArePromised ==
    ASSUME IInv, Uses
    PROVE  Promise!Next \/ UNCHANGED Promise!vars
<1>1. CASE call = NULL /\ Starts
    <2>1. PICK op \in {"count", "read"}, d \in Drives, lba \in Nat, count \in Nat :
             Started(op, d, lba, count)
        BY <1>1 DEF Starts
    <2>2. Promise!Ask /\ UNCHANGED machine
        <3>1. PromisedCall' = [op |-> op, drive |-> d, lba |-> lba, count |-> count] /\ PromisedCall = NULL
            BY <1>1, <2>1 DEF Started, PromisedCall
        <3>2. PromisedCall' \in Promise!Requests /\ PromisedCall'.drive = d
            BY <3>1 DEF Promise!Requests
        <3> QED
            BY <2>1, <3>1, <3>2 DEF Started, PromisedCall, Promise!Ask
    <2> QED
        BY <2>2 DEF Promise!Next
<1>2. CASE call = NULL /\ Refused
    BY <1>2 DEF Refused, Promise!Next, Promise!Refuse
<1>3. CASE UNCHANGED <<machine, call, ret, unread>>
    BY <1>3 DEF Promise!vars
<1> QED
    BY <1>1, <1>2, <1>3 DEF Uses

\* The driver counts as the promise does.
LEMMA LimitIsPromised ==
    ASSUME IInv, call # NULL, call.op = "read"
    PROVE  /\ call.drive \in Drives /\ call.lba \in Nat /\ call.limit \in Nat
           /\ PromisedCall = [op |-> "read", drive |-> call.drive, lba |-> call.lba, count |-> call.count]
           /\ Promise!Readable(PromisedCall) = call.limit
<1>1. call.drive \in Drives /\ call.lba \in Nat /\ call.count \in Nat /\ call.limit \in Nat
    BY CallFields DEF IInv, IdeInv
<1>2. /\ Known(call.drive) /\ call.lba <= machine[call.drive].size
      /\ call.limit = Limit(call.drive, call.lba, call.count)
      /\ machine[call.drive].size \in Nat
    BY <1>1, DiskAssumption, PartitionsAssumption DEF IInv, IdeInv, CallInv, IdeTypes, Words
<1>3. MAX_COUNT \in Nat /\ MAX_COUNT > 1
    BY IdeAssumption
<1>4. Promise!Readable(PromisedCall) = call.limit
    BY <1>1, <1>2, <1>3 DEF Promise!Readable, Promise!Smaller, Limit, Known, PromisedCall
<1> QED
    BY <1>1, <1>4 DEF PromisedCall

\* What ide_read() returns is what the drive promises.
LEMMA DeliveredIsPromised ==
    ASSUME IInv, call # NULL, call.op = "read", NEW from,
           ret' = [res |-> call.limit, data |-> Block(from, call.limit)]
    PROVE  ret' = [res |-> Promise!Readable(PromisedCall),
                   data |-> Promise!Sectors(PromisedCall.drive, from, Promise!Readable(PromisedCall))]
<1>1. /\ PromisedCall = [op |-> "read", drive |-> call.drive, lba |-> call.lba, count |-> call.count]
      /\ Promise!Readable(PromisedCall) = call.limit
    BY LimitIsPromised
<1>2. PromisedCall.drive = call.drive
    BY <1>1
<1>3. Promise!Sectors(call.drive, from, call.limit) = Block(from, call.limit)
    BY DEF Block, Promise!Sectors
<1> QED
    BY <1>1, <1>2, <1>3

\* A step of the driver goes on with the call, or answers it as promised.
LEMMA EffectIsPromised ==
    ASSUME IInv, Effect
    PROVE  Promise!Next \/ UNCHANGED Promise!vars
<1>1. call # NULL /\ UNCHANGED machine
    BY DEF Effect
<1>2. CASE GoesOn
    BY <1>1, <1>2 DEF GoesOn, Promise!vars
<1>3. PromisedCall # NULL /\ PromisedCall.drive = call.drive /\ PromisedCall.op = call.op
    <2>1. /\ call.op \in {"count", "read"} /\ call.drive \in Drives
          /\ call.lba \in Nat /\ call.count \in Nat
        BY <1>1, CallFields DEF IInv, IdeInv
    <2>2. [op |-> call.op, drive |-> call.drive, lba |-> call.lba, count |-> call.count]
             \in [op : {"count", "read"}, drive : Drives, lba : Nat, count : Nat]
        BY <2>1
    <2> QED
        BY <1>1, <2>2, IdeAssumption DEF PromisedCall
<1>4. ASSUME call' = NULL, ret' = Promise!Success(PromisedCall),
             PromisedCall.op = "read" => PromisedCall.drive \notin unread,
             unread' = IF Promise!ReadsNothing(PromisedCall) THEN unread \cup {PromisedCall.drive} ELSE unread
      PROVE  Promise!Next
    BY <1>1, <1>3, <1>4 DEF PromisedCall, Promise!Next, Promise!Answer
<1>5. ASSUME call' = NULL, PromisedCall.op = "read", PromisedCall.drive \in unread, unread' = unread,
             NEW from \in 0..machine[call.drive].size,
             ret' = [res |-> Promise!Readable(PromisedCall),
                     data |-> Promise!Sectors(PromisedCall.drive, from, Promise!Readable(PromisedCall))]
      PROVE  Promise!Next
    <2>1. call.drive \in Drives
        BY <1>1, CallFields DEF IInv, IdeInv
    <2>2. Promise!AnswerStale
        BY <1>1, <1>3, <1>5, <2>1 DEF PromisedCall, Promise!AnswerStale
    <2> QED
        BY <1>1, <2>2 DEF Promise!Next
<1>6. CASE Fails
    <2>1. Promise!Fail
        BY <1>3, <1>6 DEF Fails, PromisedCall, Promise!Fail, Promise!Failure
    <2> QED
        BY <1>1, <2>1 DEF Promise!Next
<1>7. CASE Tells
    <2>1. call.drive \in Drives
        BY <1>1, CallFields DEF IInv, IdeInv
    <2>2. ret' = Promise!Success(PromisedCall)
        BY <1>1, <1>7, <2>1 DEF Tells, PromisedCall, Promise!Success
    <2>3. PromisedCall.op # "read" /\ ~Promise!ReadsNothing(PromisedCall)
        BY <1>3, <1>7 DEF Tells, Promise!ReadsNothing
    <2> QED
        BY <1>4, <1>7, <2>2, <2>3 DEF Tells
<1>8. CASE Delivers
    <2>1. /\ PromisedCall = [op |-> "read", drive |-> call.drive, lba |-> call.lba, count |-> call.count]
          /\ Promise!Readable(PromisedCall) = call.limit /\ call.limit \in Nat /\ call.limit > 0
        BY <1>1, <1>8, LimitIsPromised DEF Delivers
    <2>2. ret' = [res |-> Promise!Readable(PromisedCall),
                  data |-> Promise!Sectors(PromisedCall.drive, call.lba, Promise!Readable(PromisedCall))]
        BY <1>1, <1>8, DeliveredIsPromised DEF Delivers
    <2>3. PromisedCall.op = "read" /\ PromisedCall.lba = call.lba
        BY <2>1
    <2>4. ret' = Promise!Success(PromisedCall) /\ ~Promise!ReadsNothing(PromisedCall)
        BY <2>1, <2>2, <2>3 DEF Promise!Success, Promise!ReadsNothing
    <2> QED
        BY <1>3, <1>4, <1>8, <2>4 DEF Delivers
<1>9. CASE DeliversNothing
    <2>1. /\ PromisedCall = [op |-> "read", drive |-> call.drive, lba |-> call.lba, count |-> call.count]
          /\ Promise!Readable(PromisedCall) = 0 /\ call.drive \in Drives /\ call.lba \in Nat
        BY <1>1, <1>9, LimitIsPromised DEF DeliversNothing
    <2>2. PromisedCall.op = "read" /\ PromisedCall.lba = call.lba
        BY <2>1
    <2>3. \A d, from : Promise!Sectors(d, from, 0) = <<>>
        BY DEF Promise!Sectors
    <2>4. CASE call.drive \notin unread
        <3>1. ret' = Promise!Success(PromisedCall) /\ Promise!ReadsNothing(PromisedCall)
            BY <1>9, <2>1, <2>2, <2>3 DEF DeliversNothing, Promise!Success, Promise!ReadsNothing
        <3> QED
            BY <1>3, <1>4, <1>9, <2>4, <3>1 DEF DeliversNothing
    <2>5. CASE call.drive \in unread
        <3>1. 0 \in 0..machine[call.drive].size
            BY <2>1, DiskAssumption, PartitionsAssumption DEF IInv, IdeInv, IdeTypes, Words
        <3>2. ret' = [res |-> Promise!Readable(PromisedCall),
                      data |-> Promise!Sectors(PromisedCall.drive, 0, Promise!Readable(PromisedCall))]
            BY <1>9, <2>1, <2>3 DEF DeliversNothing
        <3>3. unread' = unread
            BY <1>9, <2>5 DEF DeliversNothing
        <3> QED
            BY <1>3, <1>5, <1>9, <2>5, <3>1, <3>2, <3>3 DEF DeliversNothing
    <2> QED
        BY <2>4, <2>5
<1>10. CASE DeliversOthers
    <2>1. PICK from \in 0..machine[call.drive].size :
             ret' = [res |-> call.limit, data |-> Block(from, call.limit)]
        BY <1>10 DEF DeliversOthers
    <2>2. ret' = [res |-> Promise!Readable(PromisedCall),
                  data |-> Promise!Sectors(PromisedCall.drive, from, Promise!Readable(PromisedCall))]
        BY <1>1, <1>10, <2>1, DeliveredIsPromised DEF DeliversOthers
    <2> QED
        BY <1>3, <1>5, <1>10, <2>1, <2>2 DEF DeliversOthers
<1> QED
    BY <1>2, <1>6, <1>7, <1>8, <1>9, <1>10 DEF Effect

LEMMA StepIsPromised == IInv /\ [Next]_vars => [Promise!Next]_(Promise!vars)
<1> SUFFICES ASSUME IInv, [Next]_vars
             PROVE  Promise!Next \/ UNCHANGED Promise!vars
    OBVIOUS
<1>1. ASSUME UNCHANGED <<machine, call, ret, unread>>
      PROVE  UNCHANGED Promise!vars
    BY <1>1 DEF Promise!vars
<1>2. CASE ProbeDrive
    BY <1>2, ProbeDriveStep, UsesArePromised
<1>3. CASE ReadFirst
    BY <1>3, ReadFirstStep, UsesArePromised
<1>4. CASE SetupPartitions
    BY <1>4, SetupPartitionsStep, UsesArePromised
<1>5. CASE ClientRead
    BY <1>5, ClientReadStep, UsesArePromised
<1>6. CASE UNCHANGED ideVars
    BY <1>1, <1>6 DEF ideVars
<1>7. CASE Controller
    BY <1>1, <1>7 DEF Controller, Answer, ResetDone
<1>8. CASE Driver
    BY <1>8, DriverStep, EffectIsPromised DEF IInv
<1>9. Counted \/ SetupDrive => UNCHANGED ideVars
    BY DEF Counted, SetupDrive
<1>10. ASSUME NEW from, NEW bound, NEW to, NextLoop(from, bound, to)
       PROVE  UNCHANGED ideVars
    BY <1>10 DEF NextLoop
<1>11. Boot => ProbeDrive \/ ReadFirst \/ SetupPartitions \/ UNCHANGED ideVars
    BY <1>9, <1>10 DEF Boot
<1> QED
    BY <1>2, <1>3, <1>4, <1>5, <1>6, <1>7, <1>8, <1>11 DEF Next, Below, vars

\* Seen from a caller, the driver and the controller are the block drive of
\* BlockDrive: polls, errors, resets and the other drive of the channel do not
\* show, and a read of no sectors spoils no other drive.
THEOREM BlockDriveImplemented == Spec => ImplementsBlockDrive
<1>1. Init => Promise!Init
    BY DEF Init, IdeInit, Promise!Init
<1> QED
    BY <1>1, InductiveInvariant, StepIsPromised, PTL DEF Spec, ImplementsBlockDrive, Promise!Spec
=============================================================================
