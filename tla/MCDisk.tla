------------------------------- MODULE MCDisk -------------------------------
(* Instances of Disk: a channel with master and slave, one with a master.  Tables have two *)
(* entries, drives six sectors at most, and 4 stands for 256.               *)
EXTENDS Disk, TLC

CONSTANTS hda, hdb, hdc, primary, secondary

MCDrives == {hda, hdb, hdc}
MCAllDrives == <<hda, hdb, hdc>>
MCChannel == [d \in MCDrives |-> IF d = hdc THEN secondary ELSE primary]

Entry(type, start, sectors) ==
    [partition_type |-> type, lba_partition_start |-> start, lba_num_sectors |-> sectors]

\* Entries of every relation: disjoint, touching, nested, crossing, empty; one
\* that begins at the end of the drive, one that goes past it, and one whose end
\* wraps to 0.
Entries ==
    {Entry("unused", 0, 0)} \cup
    {Entry("fat32", e[1], e[2]) : e \in {<<1, 0>>, <<1, 2>>, <<1, 5>>, <<2, 2>>, <<3, 1>>, <<3, 3>>,
                                        <<5, 1>>, <<6, 1>>, <<5, 2>>, <<1, 7>>}}

Tables == Entries \X Entries
NoPartitions == <<Entry("unused", 0, 0), Entry("unused", 0, 0)>>

Drive(kind, size, signed, table) == [kind |-> kind, size |-> size, signed |-> signed, table |-> table]
Absent == Drive("absent", 0, FALSE, NoPartitions)
Packet == Drive("packet", 0, FALSE, NoPartitions)
Empty == Drive("disk", 0, FALSE, NoPartitions)
Blank == Drive("disk", 2, FALSE, NoPartitions)
Floppy == Drive("disk", 5, TRUE, NoPartitions)
Partitioned == {Drive("disk", 6, TRUE, t) : t \in Tables}

Attached(a, b, c) == (hda :> a) @@ (hdb :> b) @@ (hdc :> c)

MCMachines ==
    {Attached(a, Absent, Absent) : a \in Partitioned} \cup
    {Attached(a, b, Absent) : a \in {Absent, Packet, Empty, Blank, Floppy},
                              b \in {Absent, Packet, Floppy}} \cup
    {Attached(a, b, Floppy) : a \in {Absent, Packet, Floppy}, b \in {Absent, Packet}}

SizeErr == -1
SizeUnk == -3

\* An address of 31 is -1: the sum with the start of a volume wraps.
MCLbas == {0, 3, 31}
FewLbas == {0, 2}
MCCounts == {0, 2, 5}
=============================================================================
