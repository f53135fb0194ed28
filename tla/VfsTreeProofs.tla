--------------------------- MODULE VfsTreeProofs ---------------------------
(***************************************************************************)
(* Proofs about Vfs for callers that create with O_EXCL only: the tree     *)
(* stays whole, so that after the mount no call faults, what was opened    *)
(* can be opened again, and a call that fails changes nothing.  Then, for  *)
(* any flags: what a step does to the tree, and why the listing of a       *)
(* directory that grows meanwhile is complete.                             *)
(***************************************************************************)
EXTENDS VfsProofs

\* O_EXCL wherever O_CREAT.
CreatorsInsist == \A flags \in OpenFlags : "CREAT" \in flags => "EXCL" \in flags

\* Inode p lists inode i.
Lists(p, i) == Attached(p) /\ \E k \in DOMAIN Children(p) : Children(p)[k] = i

\* Every inode has its private node, and the parent named there lists it.
AllLinked ==
    \A i \in Inos : Exists(i) /\ i # Root =>
        /\ Attached(i)
        /\ inode[i].private_field.parent \in Inos
        /\ Lists(inode[i].private_field.parent, i)

\* Nothing but the root exists before the mount, which gives it its node.
MountInv == IF mounted THEN Attached(Root) ELSE \A i \in Inos : Exists(i) => i = Root

TreeInv == AllLinked /\ MountInv /\ NoFaultOnceMounted

LEMMA InitWhole == Init => TreeInv
<1> SUFFICES ASSUME Init
             PROVE  TreeInv
    OBVIOUS
<1>1. \A i \in Inos : Exists(i) => i = Root
    BY DEF Init, Exists
<1>2. ~mounted
    BY DEF Init
<1> QED
    BY <1>1, <1>2 DEF TreeInv, AllLinked, MountInv, NoFaultOnceMounted

-----------------------------------------------------------------------------
(* Lookups and walks in a whole tree *)

LEMMA AllAttached ==
    ASSUME TreeInv, mounted, NEW i \in Inos, Exists(i)
    PROVE  Attached(i)
BY DEF TreeInv, AllLinked, MountInv

LEMMA LookupNeverFaults ==
    ASSUME TreeInv, mounted, NEW i \in Inos, Exists(i), NEW name
    PROVE  RamfsLookup(i, name).res # FAULT
<1>1. inode[i].private_field # NULL
    BY AllAttached DEF Attached
<1>2. OK # FAULT /\ ENOENT # FAULT
    BY DEF OK, ENOENT, FAULT
<1> QED
    BY <1>1, <1>2 DEF RamfsLookup

\* A walk meets only what exists, hence no null pointer; before the mount it
\* does not look anything up.
LEMMA WalkNeverFaults ==
    ASSUME IInv, TreeInv, NEW path \in Seq(Names), path # <<>>
    PROVE  WalkParent(path).res # FAULT
<1> DEFINE m == Len(path) - 1
<1>1. m \in Nat
    BY WalkParentIsWalk
<1>2. PICK f : IsWalk(f, path, m) /\ WalkParent(path) = f[m]
    BY WalkParentIsWalk
<1> HIDE DEF m
<1> DEFINE Good(k) == f[k].res # FAULT /\ (f[k].res = OK => Exists(f[k].ino))
           Bad == {k \in 0..m : ~Good(k)}
<1>3. Bad = {}
    <2>1. SUFFICES ASSUME Bad # {}
                   PROVE  FALSE
        OBVIOUS
    <2>2. PICK k \in Bad : \A j \in Bad : k <= j
        <3>1. Bad \subseteq 0..m
            OBVIOUS
        <3> HIDE DEF Bad
        <3> QED
            BY <1>1, <2>1, <3>1, LeastNumber
    <2>3. f[k] = IF k = 0 THEN Start ELSE WalkStep(f[k - 1], path[k])
        BY <1>2, <2>2 DEF IsWalk
    <2>4. OK # FAULT /\ EINVAL # FAULT /\ OK # EINVAL
        BY DEF OK, FAULT, EINVAL
    <2>5. CASE k = 0
        BY <2>2, <2>3, <2>4, <2>5 DEF Start, IInv, RootIsDirectory
    <2>6. CASE k > 0
        <3>1. k - 1 \in 0..m /\ k - 1 \notin Bad
            BY <1>1, <2>2, <2>6
        <3>2. Good(k - 1)
            BY <3>1
        <3>3. f[k] = WalkStep(f[k - 1], path[k]) /\ ~Good(k)
            BY <2>2, <2>3, <2>6
        <3>4. CASE f[k - 1].res # OK
            <4>1. f[k] = f[k - 1]
                BY <3>3, <3>4 DEF WalkStep
            <4> QED
                BY <3>2, <3>3, <4>1
        <3>5. CASE f[k - 1].res = OK /\ ~mounted
            <4>1. f[k] = [res |-> EINVAL, ino |-> NULL]
                BY <3>3, <3>5 DEF WalkStep
            <4> QED
                BY <2>4, <3>3, <4>1
        <3>6. CASE f[k - 1].res = OK /\ mounted
            <4>1. f[k] = RamfsLookup(f[k - 1].ino, path[k])
                BY <3>3, <3>6 DEF WalkStep
            <4>2. Exists(f[k - 1].ino) /\ f[k - 1].ino \in Inos
                BY <3>2, <3>6 DEF Exists
            <4>3. Good(k)
                BY <3>6, <4>1, <4>2, LookupFacts, LookupNeverFaults
            <4> QED
                BY <3>3, <4>3
        <3> QED
            BY <3>4, <3>5, <3>6
    <2> QED
        BY <2>2, <2>5, <2>6
<1>4. m \in 0..m
    BY <1>1
<1> QED
    BY <1>2, <1>3, <1>4

-----------------------------------------------------------------------------
(* The two kinds of steps *)

\* What a call that may not fault answers; before the mount anything goes.
NoFaultStep == mounted' = mounted /\ (mounted => last'.res # FAULT)

\* Names and private nodes stay: sizes may change.
LEMMA WholeWhenKept ==
    ASSUME TreeInv, NoFaultStep,
           \A i \in Inos : Exists(i)' <=> Exists(i),
           \A i \in Inos : Exists(i) => inode'[i].private_field = inode[i].private_field
    PROVE  TreeInv'
<1>1. \A i \in Inos : Exists(i) => (Attached(i)' <=> Attached(i)) /\ Children(i)' = Children(i)
    BY DEF Attached, Children
<1>2. Root \in Inos
    BY VfsAssumption DEF Root
<1>3. AllLinked'
    <2> SUFFICES ASSUME NEW i \in Inos, Exists(i)', i # Root
                 PROVE  /\ Attached(i)'
                        /\ inode'[i].private_field.parent \in Inos
                        /\ Lists(inode[i].private_field.parent, i)'
        BY DEF AllLinked
    <2>1. Exists(i) /\ Attached(i)
        BY DEF TreeInv, AllLinked
    <2>2. PICK p \in Inos : p = inode[i].private_field.parent
        BY <2>1 DEF TreeInv, AllLinked
    <2>3. Attached(p) /\ Exists(p) /\ \E k \in DOMAIN Children(p) : Children(p)[k] = i
        BY <2>1, <2>2 DEF TreeInv, AllLinked, Lists, Attached
    <2>4. inode'[i].private_field.parent = p
        BY <2>1, <2>2
    <2>5. Attached(p)' /\ Children(p)' = Children(p)
        BY <1>1, <2>3
    <2>6. \E k \in DOMAIN Children(p)' : Children(p)'[k] = i
        BY <2>3, <2>5
    <2>7. Lists(p, i)'
        BY <2>5, <2>6 DEF Lists
    <2>8. Attached(i)'
        BY <1>1, <2>1
    <2>9. Lists(inode[i].private_field.parent, i)'
        BY <2>4, <2>7 DEF Lists, Attached, Exists, Children
    <2> QED
        BY <2>4, <2>8, <2>9
<1>4. MountInv'
    BY <1>1, <1>2 DEF TreeInv, MountInv, NoFaultStep, Attached
<1>5. NoFaultOnceMounted'
    BY DEF NoFaultStep, NoFaultOnceMounted, Running
<1> QED
    BY <1>3, <1>4, <1>5 DEF TreeInv

\* A new inode, attached to a directory that had no entry of its name.
LEMMA WholeWhenAttached ==
    ASSUME Types, TreeInv, NoFaultStep, mounted, NEW d \in Inos, Attached(d),
           NEW c \in Inos, inode[c] = NULL,
           NEW name \in Names, NEW mode \in {DIR, REG}, NEW file \in Nat,
           inode' = Attach(d, c, NewInode(name, mode), NewPrivate(file, d))
    PROVE  TreeInv'
<1>1. /\ \A i \in Inos : Exists(i)' <=> Exists(i) \/ i = c
      /\ \A i \in Inos : Exists(i) =>
            /\ Attached(i)' <=> Attached(i)
            /\ Attached(i) => /\ inode'[i].private_field.parent = inode[i].private_field.parent
                              /\ i # d => Children(i)' = Children(i)
      /\ DOMAIN Children(d)' = 1..Len(Children(d)) + 1
      /\ Children(d)'[Len(Children(d)) + 1] = c
      /\ \A k \in 1..Len(Children(d)) : Children(d)'[k] = Children(d)[k]
      /\ Attached(c)' /\ inode'[c].private_field.parent = d
    BY AttachFacts
<1>2. Len(Children(d)) \in Nat /\ DOMAIN Children(d) = 1..Len(Children(d))
    BY NodeFacts
<1>3. \A p \in Inos : Attached(p) => Attached(p)'
    BY <1>1 DEF Attached
<1>4. \A p \in Inos, i \in Inos : Lists(p, i) =>
          Attached(p)' /\ \E k \in DOMAIN Children(p)' : Children(p)'[k] = i
    <2> SUFFICES ASSUME NEW p \in Inos, NEW i \in Inos, Lists(p, i)
                 PROVE  Attached(p)' /\ \E k \in DOMAIN Children(p)' : Children(p)'[k] = i
        OBVIOUS
    <2>1. PICK k \in DOMAIN Children(p) : Children(p)[k] = i
        BY DEF Lists
    <2>2. Attached(p) /\ Exists(p)
        BY DEF Lists, Attached
    <2>3. CASE p = d
        <3>1. k \in 1..Len(Children(d)) /\ k \in 1..Len(Children(d)) + 1
            BY <1>2, <2>1, <2>3
        <3> QED
            BY <1>1, <1>3, <2>1, <2>2, <2>3, <3>1
    <2>4. CASE p # d
        BY <1>1, <1>3, <2>1, <2>2, <2>4
    <2> QED
        BY <2>3, <2>4
<1>5. AllLinked'
    <2> SUFFICES ASSUME NEW i \in Inos, Exists(i)', i # Root
                 PROVE  /\ Attached(i)'
                        /\ inode'[i].private_field.parent \in Inos
                        /\ Lists(inode[i].private_field.parent, i)'
        BY DEF AllLinked
    <2>1. PICK p \in Inos : p = inode'[i].private_field.parent /\ Attached(i)'
                            /\ Attached(p)' /\ \E k \in DOMAIN Children(p)' : Children(p)'[k] = i
        <3>1. CASE i = c
            <4>1. Attached(d)' /\ Len(Children(d)) + 1 \in DOMAIN Children(d)'
                BY <1>1, <1>2, <1>3
            <4> QED
                BY <1>1, <3>1, <4>1
        <3>2. CASE i # c
            <4>1. Exists(i) /\ Attached(i) /\ inode[i].private_field.parent \in Inos
                  /\ Lists(inode[i].private_field.parent, i)
                BY <1>1, <3>2 DEF TreeInv, AllLinked
            <4>2. inode'[i].private_field.parent = inode[i].private_field.parent
                BY <1>1, <4>1
            <4> QED
                BY <1>3, <1>4, <4>1, <4>2
        <3> QED
            BY <3>1, <3>2
    <2>2. Lists(inode[i].private_field.parent, i)'
        BY <2>1 DEF Lists, Attached, Exists, Children
    <2> QED
        BY <2>1, <2>2
<1>6. MountInv'
    <2>1. Root \in Inos /\ Attached(Root) /\ mounted'
        BY VfsAssumption DEF Root, TreeInv, MountInv, NoFaultStep
    <2>2. Attached(Root)'
        BY <1>3, <2>1
    <2> QED
        BY <2>1, <2>2 DEF MountInv, Attached, Exists, Root
<1>7. NoFaultOnceMounted'
    BY DEF NoFaultStep, NoFaultOnceMounted, Running
<1> QED
    BY <1>5, <1>6, <1>7 DEF TreeInv

\* The first mount, of a tree that is only its root.
LEMMA WholeAtMount ==
    ASSUME Types, RootIsDirectory, TreeInv, NEW path, Mount(path)
    PROVE  TreeInv'
<1>1. OK # FAULT /\ EINVAL # FAULT /\ ERROR # FAULT
    BY DEF OK, EINVAL, ERROR, FAULT
<1>2. CASE inode' = inode /\ mounted' = mounted /\ \E res \in {EINVAL, ERROR} : last' = Call("mount", NULL, res)
    <2>1. NoFaultStep
        BY <1>1, <1>2 DEF NoFaultStep, Call
    <2> QED
        BY <1>2, <2>1, WholeWhenKept DEF Exists
<1>3. CASE /\ ~mounted /\ mounted' = TRUE /\ last' = Call("mount", Root, OK)
           /\ inode' = [inode EXCEPT ![Root].private_field = RootPrivate]
    <2>1. \A i \in Inos : Exists(i) <=> i = Root
        BY <1>3, VfsAssumption DEF TreeInv, MountInv, RootIsDirectory, Root
    <2>2. Root \in Inos /\ inode[Root] \in Node /\ inode[Root] # NULL
        BY <2>1, VfsAssumption, NodeFacts DEF Root, Exists
    <2> DEFINE node == [inode[Root] EXCEPT !.private_field = RootPrivate]
    <2>3. node \in Node /\ node.private_field = RootPrivate /\ RootPrivate \in Private
        <3>1. RootPrivate \in Private
            BY EmptySeq DEF RootPrivate, NewPrivate, Private
        <3> QED
            BY <2>2, <3>1 DEF Node
    <2>4. inode' = [inode EXCEPT ![Root] = node]
        BY <1>3
    <2> HIDE DEF node
    <2>5. inode'[Root] = node /\ \A i \in Inos : i # Root => inode'[i] = inode[i]
        BY <2>2, <2>4 DEF Types
    <2>6. inode'[Root] # NULL /\ inode'[Root].private_field # NULL
        BY <2>3, <2>5, RamfsAssumption
    <2>7. \A i \in Inos : i # Root => ~Exists(i)'
        BY <2>1, <2>5 DEF Exists
    <2>8. AllLinked'
        BY <2>7 DEF AllLinked
    <2>9. MountInv'
        BY <1>3, <2>2, <2>6 DEF MountInv, Attached, Exists, Root
    <2>10. NoFaultOnceMounted'
        BY <1>1, <1>3 DEF NoFaultOnceMounted, Running, Call
    <2> QED
        BY <2>8, <2>9, <2>10 DEF TreeInv
<1> QED
    BY <1>2, <1>3 DEF Mount

-----------------------------------------------------------------------------
(* The calls *)

\* What a failure leaves behind.
FailureIsClean == last'.res # OK => UNCHANGED <<inode, data, fds>>

LEMMA FailWhole ==
    ASSUME TreeInv, NEW op, NEW res, Fail(op, res), mounted' = mounted, data' = data,
           mounted => res # FAULT
    PROVE  TreeInv' /\ FailureIsClean
<1>1. NoFaultStep
    BY DEF NoFaultStep, Fail, Call
<1>2. FailureIsClean
    BY DEF FailureIsClean, Fail, UNCHANGED_TREE
<1>3. inode' = inode
    BY DEF Fail, UNCHANGED_TREE
<1> QED
    BY <1>1, <1>2, <1>3, WholeWhenKept DEF Exists

LEMMA MkdirWhole ==
    ASSUME IInv, TreeInv, NEW path \in Seq(Names), Mkdir(path)
    PROVE  TreeInv' /\ FailureIsClean
<1>1. mounted' = mounted /\ data' = data /\ Types
    BY DEF Mkdir, IInv
<1>2. OK # FAULT /\ EEXIST # FAULT /\ ENOENT # FAULT /\ EINVAL # FAULT /\ ENOSPC # FAULT
    BY DEF OK, EEXIST, ENOENT, EINVAL, ENOSPC, FAULT
<1>3. CASE Fail("mkdir", EEXIST)
    BY <1>1, <1>2, <1>3, FailWhole
<1>4. CASE path # <<>> /\ Fail("mkdir", WalkParent(path).res)
    BY <1>1, <1>4, FailWhole, WalkNeverFaults
<1>5. CASE path # <<>> /\ WalkParent(path).res = OK /\ MkdirIn(WalkParent(path).ino, path)
    <2> DEFINE d == WalkParent(path).ino
               leaf == LookupLeaf(d, path)
               c == vfs_inode_count
               name == LeafName(path)
               new == RamfsMkdir(d, c, name)
    <2>1. Exists(d) /\ d \in Inos /\ name \in Names
        BY <1>5, WalkParentExists, LeafFacts DEF Exists
    <2> HIDE DEF d, name
    <2>2. mounted => leaf = RamfsLookup(d, path[Len(path)]) /\ leaf.res # FAULT
        BY <2>1, LookupNeverFaults DEF LookupLeaf
    <2>3. CASE leaf.res = FAULT /\ Fail("mkdir", FAULT)
        BY <1>1, <2>2, <2>3, FailWhole
    <2>4. CASE /\ leaf.res \notin {OK, FAULT} /\ RoomForInode
               /\ inode' = new.inode /\ last' = Call("mkdir", c, new.res)
               /\ UNCHANGED <<ramfs_file_count, fds>>
        <3> DEFINE res == IF inode[d].mode # DIR THEN EINVAL ELSE RamfsPutchild(d, name)
        <3>1. mounted /\ Attached(d)
            <4>1. mounted
                BY <2>4 DEF LookupLeaf
            <4> QED
                BY <2>1, <4>1, AllAttached
        <3>2. /\ new.res = res
              /\ inode' = IF res # OK THEN inode ELSE Attach(d, c, NewInode(name, DIR), NewPrivate(0, d))
            BY <2>4 DEF RamfsMkdir
        <3>3. last'.res = res
            BY <2>4, <3>2 DEF Call
        <3>4. res # FAULT
            BY <1>2 DEF RamfsPutchild
        <3> HIDE DEF res
        <3>5. NoFaultStep
            BY <1>1, <3>3, <3>4 DEF NoFaultStep
        <3>6. FailureIsClean
            BY <1>1, <2>4, <3>2, <3>3 DEF FailureIsClean
        <3>7. CASE res # OK
            BY <3>2, <3>5, <3>6, <3>7, WholeWhenKept DEF Exists
        <3>8. CASE res = OK
            <4>1. c \in Inos /\ inode[c] = NULL
                <5>1. c \in Inos /\ c \in Nat
                    BY <1>1, <2>4 DEF RoomForInode, Types
                <5> QED
                    BY <5>1 DEF IInv, Fresh
            <4>2. inode' = Attach(d, c, NewInode(name, DIR), NewPrivate(0, d))
                BY <3>2, <3>8
            <4>3. DIR \in {DIR, REG} /\ 0 \in Nat
                OBVIOUS
            <4> HIDE DEF c
            <4>4. TreeInv'
                BY <1>1, <2>1, <3>1, <3>5, <4>1, <4>2, <4>3, WholeWhenAttached
            <4> QED
                BY <3>6, <4>4
        <3> QED
            BY <3>7, <3>8
    <2> QED
        BY <1>3, <1>5, <2>3, <2>4 DEF MkdirIn, d, name
<1> QED
    BY <1>3, <1>4, <1>5 DEF Mkdir

LEMMA OpenMissingWhole ==
    ASSUME IInv, TreeInv, mounted, NEW d \in Inos, Exists(d), NEW path \in Seq(Names), path # <<>>,
           NEW flags, OpenMissing(d, path, flags), mounted' = mounted, data' = data
    PROVE  TreeInv' /\ FailureIsClean
<1> DEFINE c == vfs_inode_count
           name == LeafName(path)
           res == RamfsPutchild(d, name)
           new == RamfsCreate(d, c, name)
<1>1. Types /\ name \in Names /\ REG \in {DIR, REG} /\ ramfs_file_count \in Nat /\ Attached(d)
    BY LeafFacts, AllAttached DEF IInv, Types
<1>2. OK # FAULT /\ EEXIST # FAULT /\ ENOENT # FAULT /\ ENOSPC # FAULT
    BY DEF OK, EEXIST, ENOENT, ENOSPC, FAULT
<1>3. CASE Fail("open", ENOENT)
    BY <1>2, <1>3, FailWhole
<1>4. CASE RoomForInode /\ inode' = new.inode /\ Opened(new.res, c, flags)
    <2>1. /\ new.res = res
          /\ inode' = IF res # OK THEN inode
                      ELSE Attach(d, c, NewInode(name, REG), NewPrivate(ramfs_file_count, d))
        BY <1>4 DEF RamfsCreate
    <2>2. last'.res = res /\ (res # OK => fds' = fds)
        BY <1>4, <2>1 DEF Opened, Call
    <2>3. res # FAULT
        BY <1>2 DEF RamfsPutchild
    <2>4. c \in Inos /\ inode[c] = NULL
        <3>1. c \in Inos /\ c \in Nat
            BY <1>1, <1>4 DEF RoomForInode, Types
        <3> QED
            BY <3>1 DEF IInv, Fresh
    <2> HIDE DEF res, c, name
    <2>5. NoFaultStep
        BY <2>2, <2>3 DEF NoFaultStep
    <2>6. FailureIsClean
        BY <2>1, <2>2 DEF FailureIsClean
    <2>7. CASE res # OK
        BY <2>1, <2>5, <2>6, <2>7, WholeWhenKept DEF Exists
    <2>8. CASE res = OK
        BY <1>1, <2>1, <2>4, <2>5, <2>6, <2>8, WholeWhenAttached
    <2> QED
        BY <2>7, <2>8
<1> QED
    BY <1>3, <1>4 DEF OpenMissing

LEMMA OpenExistingWhole ==
    ASSUME IInv, TreeInv, mounted, NEW d, NEW c \in Inos, Exists(c),
           NEW flags, "CREAT" \in flags => "EXCL" \in flags,
           OpenExisting(d, c, flags), mounted' = mounted, data' = data
    PROVE  TreeInv' /\ FailureIsClean
<1>1. OK # FAULT /\ EEXIST # FAULT
    BY DEF OK, EEXIST, FAULT
<1>2. CASE Fail("open", EEXIST)
    BY <1>1, <1>2, FailWhole
<1>3. CASE /\ inode' = Truncated(inode, c, flags)
           /\ Opened(RamfsOpen(c), c, flags)
    <2>1. RamfsOpen(c) = OK
        BY AllAttached DEF RamfsOpen, Attached
    <2>2. last'.res = OK
        BY <1>3, <2>1 DEF Opened, Call
    <2>3. NoFaultStep /\ FailureIsClean
        BY <1>1, <2>2 DEF NoFaultStep, FailureIsClean
    <2>4. /\ inode \in [Inos -> Node \cup {NULL}] /\ inode[c] \in Node
        BY NodeFacts DEF IInv, Types
    <2>5. /\ \A i \in Inos \ {c} : inode'[i] = inode[i]
          /\ inode'[c] \in Node /\ inode'[c].private_field = inode[c].private_field
        BY <1>3, <2>4, TruncatedFacts
    <2>6. \A i \in Inos : Exists(i)' <=> Exists(i)
        BY <2>4, <2>5, RamfsAssumption DEF Exists
    <2>7. \A i \in Inos : inode'[i].private_field = inode[i].private_field
        BY <2>5
    <2> QED
        BY <2>3, <2>6, <2>7, WholeWhenKept
<1> QED
    BY <1>2, <1>3 DEF OpenExisting

LEMMA OpenWhole ==
    ASSUME IInv, TreeInv, NEW path \in Seq(Names), NEW flags, "CREAT" \in flags => "EXCL" \in flags,
           Open(path, flags)
    PROVE  TreeInv' /\ FailureIsClean
<1>1. mounted' = mounted /\ data' = data
    BY DEF Open
<1>2. OK # FAULT
    BY DEF OK, FAULT
<1>3. CASE Opened(OK, Root, flags) /\ inode' = inode
    <2>1. last'.res = OK
        BY <1>3 DEF Opened, Call
    <2>2. NoFaultStep /\ FailureIsClean
        BY <1>1, <1>2, <2>1 DEF NoFaultStep, FailureIsClean
    <2> QED
        BY <1>3, <2>2, WholeWhenKept DEF Exists
<1>4. CASE path # <<>> /\ Fail("open", WalkParent(path).res)
    BY <1>1, <1>4, FailWhole, WalkNeverFaults
<1>5. CASE path # <<>> /\ WalkParent(path).res = OK /\ OpenIn(WalkParent(path).ino, path, flags)
    <2> DEFINE d == WalkParent(path).ino
               leaf == LookupLeaf(d, path)
    <2>1. Exists(d) /\ d \in Inos
        BY <1>5, WalkParentExists DEF Exists
    <2>2. OpenIn(d, path, flags)
        BY <1>5
    <2> HIDE DEF d
    <2>3. mounted => leaf = RamfsLookup(d, path[Len(path)]) /\ leaf.res # FAULT
        BY <2>1, LookupNeverFaults DEF LookupLeaf
    <2>4. leaf.res # FAULT => mounted
        BY DEF LookupLeaf
    <2>5. CASE leaf.res = FAULT
        <3>1. Fail("open", FAULT) /\ ~mounted
            BY <1>2, <2>2, <2>3, <2>5 DEF OpenIn
        <3> QED
            BY <1>1, <3>1, FailWhole
    <2>6. CASE leaf.res = OK
        <3>1. OpenExisting(d, leaf.ino, flags) /\ mounted
            BY <1>2, <2>2, <2>4, <2>6 DEF OpenIn
        <3>2. Exists(leaf.ino) /\ leaf.ino \in Inos
            BY <2>1, <2>3, <2>6, <3>1, LookupFacts DEF Exists
        <3> HIDE DEF leaf
        <3> QED
            BY <1>1, <3>1, <3>2, OpenExistingWhole
    <2>7. CASE leaf.res \notin {OK, FAULT}
        <3>1. OpenMissing(d, path, flags) /\ mounted
            BY <2>2, <2>4, <2>7 DEF OpenIn
        <3> QED
            BY <1>1, <1>5, <2>1, <3>1, OpenMissingWhole
    <2> QED
        BY <2>5, <2>6, <2>7
<1> QED
    BY <1>3, <1>4, <1>5 DEF Open

LEMMA WriteWhole ==
    ASSUME IInv, TreeInv, NEW i \in fds, NEW offset \in Offsets, NEW bytes \in Payloads, Write(i, offset, bytes)
    PROVE  TreeInv' /\ FailureIsClean
<1>1. i \in Inos /\ Exists(i) /\ inode[i] \in Node /\ fds' = fds /\ mounted' = mounted
      /\ inode \in [Inos -> Node \cup {NULL}]
    BY NodeFacts DEF IInv, DescriptorsExist, Exists, Write, Types
<1>2. OK # FAULT /\ ERR # FAULT
    BY DEF OK, ERR, FAULT
<1>3. CASE inode' = inode /\ data' = data /\ last' = Call("write", i, ERR)
    <2>1. NoFaultStep /\ FailureIsClean
        BY <1>1, <1>2, <1>3 DEF NoFaultStep, FailureIsClean, Call
    <2> QED
        BY <1>3, <2>1, WholeWhenKept DEF Exists
<1>4. CASE \E size \in Nat : /\ inode' = [inode EXCEPT ![i].size = size]
                            /\ last' = [Call("write", i, OK) EXCEPT !.offset = offset, !.arg = bytes]
    <2>1. last'.res = OK
        BY <1>4 DEF Call
    <2>2. NoFaultStep /\ FailureIsClean
        BY <1>1, <1>2, <2>1 DEF NoFaultStep, FailureIsClean
    <2>3. PICK size \in Nat : inode' = [inode EXCEPT ![i].size = size]
        BY <1>4
    <2> DEFINE node == [inode[i] EXCEPT !.size = size]
    <2>4. node.private_field = inode[i].private_field /\ node # NULL
        <3>1. node \in Node /\ node.private_field = inode[i].private_field
            BY <1>1 DEF Node
        <3> QED
            BY <3>1, RamfsAssumption
    <2>5. inode' = [inode EXCEPT ![i] = node]
        BY <2>3
    <2> HIDE DEF node
    <2>6. /\ \A j \in Inos : j # i => inode'[j] = inode[j]
          /\ inode'[i] = node
        BY <1>1, <2>5
    <2>7. \A j \in Inos : Exists(j)' <=> Exists(j)
        BY <1>1, <2>4, <2>6 DEF Exists
    <2>8. \A j \in Inos : inode'[j].private_field = inode[j].private_field
        BY <2>4, <2>6
    <2> QED
        BY <2>2, <2>7, <2>8, WholeWhenKept
<1>5. SizeAfterWrite(i, (offset + Len(bytes)) % SIZE_MOD) \in Nat
    <2>1. offset \in Nat /\ Len(bytes) \in Nat /\ SIZE_MOD \in Nat \ {0}
        BY VfsAssumption, LenProperties
    <2>2. (offset + Len(bytes)) % SIZE_MOD \in Nat
        BY <2>1
    <2> QED
        BY <1>1, <2>2 DEF SizeAfterWrite, Node
<1> QED
    BY <1>3, <1>4, <1>5 DEF Write

LEMMA StepWhole == CreatorsInsist /\ IInv /\ TreeInv /\ [Next]_vars => TreeInv' /\ FailureIsClean
<1> SUFFICES ASSUME CreatorsInsist, IInv, TreeInv, [Next]_vars
             PROVE  TreeInv' /\ FailureIsClean
    OBVIOUS
<1>1. Paths \subseteq Seq(Names) /\ Types /\ RootIsDirectory
    BY VfsAssumption DEF IInv
<1>2. OK # FAULT /\ ERR # FAULT /\ EINVAL # FAULT /\ ERROR # FAULT
    BY DEF OK, ERR, EINVAL, ERROR, FAULT
<1>3. ASSUME UNCHANGED <<inode, mounted>>, mounted => last'.res # FAULT
      PROVE  TreeInv'
    BY <1>3, WholeWhenKept DEF NoFaultStep, Exists
<1>4. ASSUME NEW path \in Paths, Mount(path)
      PROVE  TreeInv' /\ FailureIsClean
    <2>1. TreeInv'
        BY <1>1, <1>4, WholeAtMount
    <2>2. last'.res = OK \/ (inode' = inode /\ data' = data /\ fds' = fds)
        BY <1>4 DEF Mount, Call
    <2> QED
        BY <2>1, <2>2 DEF FailureIsClean
<1>5. ASSUME NEW path \in Paths, Mkdir(path)
      PROVE  TreeInv' /\ FailureIsClean
    BY <1>1, <1>5, MkdirWhole
<1>6. ASSUME NEW path \in Paths, NEW flags \in OpenFlags, Open(path, flags)
      PROVE  TreeInv' /\ FailureIsClean
    BY <1>1, <1>6, OpenWhole DEF CreatorsInsist
<1>7. ASSUME NEW i \in fds, NEW offset \in Offsets, NEW bytes \in Payloads, Write(i, offset, bytes)
      PROVE  TreeInv' /\ FailureIsClean
    BY <1>7, WriteWhole
<1>8. ASSUME UNCHANGED <<inode, data, fds, mounted>>, last'.res \in {OK, ERR, EINVAL} \/ last' = last
      PROVE  TreeInv' /\ FailureIsClean
    <2>1. mounted => last'.res # FAULT
        BY <1>2, <1>8 DEF TreeInv, NoFaultOnceMounted, Running
    <2> QED
        BY <1>3, <1>8, <2>1 DEF FailureIsClean
<1>9. ASSUME NEW i \in fds, NEW offset \in Offsets, NEW limit \in Limits, Read(i, offset, limit)
      PROVE  TreeInv' /\ FailureIsClean
    <2>1. last'.res \in {OK, ERR}
        BY <1>9 DEF Read, ReadBytes, Call
    <2> QED
        BY <1>8, <1>9, <2>1 DEF Read
<1>10. ASSUME NEW i \in fds, Close(i) \/ StartListing(i)
       PROVE  TreeInv' /\ FailureIsClean
    <2>1. last'.res \in {OK, EINVAL} \/ last' = last
        BY <1>10 DEF Close, StartListing, Call
    <2> QED
        BY <1>8, <1>10, <2>1 DEF Close, StartListing
<1>11. ASSUME NEW size \in BufferSizes, Readdir(size)
       PROVE  TreeInv' /\ FailureIsClean
    <2>1. last'.res \in {OK, ERR}
        BY <1>11 DEF Readdir, Call
    <2> QED
        BY <1>8, <1>11, <2>1 DEF Readdir
<1>12. CASE UNCHANGED vars
    BY <1>8, <1>12 DEF vars
<1> QED
    BY <1>4, <1>5, <1>6, <1>7, <1>9, <1>10, <1>11, <1>12 DEF Next

-----------------------------------------------------------------------------
(* The theorems *)

\* The tree is whole: nothing loses its private node.
THEOREM TreeStaysWhole ==
    ASSUME CreatorsInsist
    PROVE  Spec => [](IInv /\ TreeInv)
<1>1. Init => IInv /\ TreeInv
    BY InitEstablishes, InitWhole
<1>2. IInv /\ TreeInv /\ [Next]_vars => (IInv /\ TreeInv)'
    BY StepKeeps, StepWhole
<1> QED
    BY <1>1, <1>2, PTL DEF Spec

\* After the mount no call dereferences a null pointer, whatever the paths.
THEOREM NoFaultAfterMount ==
    ASSUME CreatorsInsist
    PROVE  Spec => []NoFaultOnceMounted
<1>1. TreeInv => NoFaultOnceMounted
    BY DEF TreeInv
<1> QED
    BY <1>1, TreeStaysWhole, PTL

\* A call that fails leaves no trace in inodes, buffers or descriptors.
THEOREM FailuresLeaveNoTrace ==
    ASSUME CreatorsInsist
    PROVE  Spec => FailedCallsChangeNothing
<1>1. IInv /\ TreeInv /\ [Next]_vars => [last'.res # OK => UNCHANGED <<inode, data, fds>>]_vars
    BY StepWhole DEF FailureIsClean
<1> QED
    BY <1>1, TreeStaysWhole, PTL DEF Spec, FailedCallsChangeNothing

\* What a descriptor was handed out for is found again under its parent.
THEOREM OpenedStaysReachable ==
    ASSUME CreatorsInsist
    PROVE  Spec => []OpenedIsReachable
<1>1. IInv /\ TreeInv => OpenedIsReachable
    <2> SUFFICES ASSUME IInv, TreeInv, NEW i \in fds \ {Root}, NEW p, p = inode[i].private_field.parent,
                        inode[p].mode = DIR
                 PROVE  RamfsLookup(p, inode[i].name) = [res |-> OK, ino |-> i]
        BY DEF OpenedIsReachable
    <2>1. Exists(i) /\ i \in Inos /\ p \in Inos /\ Lists(p, i)
        BY DEF IInv, DescriptorsExist, TreeInv, AllLinked, Exists
    <2>2. PICK k \in DOMAIN Children(p) : Children(p)[k] = i
        BY <2>1 DEF Lists
    <2>3. Attached(p) /\ inode[p].private_field # NULL /\ Types
        BY <2>1 DEF Lists, Attached, IInv
    <2> DEFINE found == ChildNamed(p, inode[i].name)
    <2>4. found \in 0..Len(Children(p)) /\ found # 0
        BY <2>1, <2>2, <2>3, ChildNamedFacts
    <2>5. found > 0 /\ found \in DOMAIN Children(p)
        BY <2>1, <2>3, <2>4, NodeFacts
    <2>6. inode[Children(p)[found]].name = inode[i].name
        BY <2>1, <2>3, <2>4, ChildNamedFacts
    <2>7. found = k
        BY <2>1, <2>2, <2>3, <2>5, <2>6 DEF IInv, NamesIdentify
    <2> QED
        BY <2>2, <2>3, <2>5, <2>7 DEF RamfsLookup
<1> QED
    BY <1>1, TreeStaysWhole, PTL

-----------------------------------------------------------------------------
(* What any step does to the tree *)

\* Inodes keep name and mode, and their private node or lose it.
Keeps ==
    \A i \in Inos :
        /\ Exists(i)' <=> Exists(i)
        /\ Exists(i) => /\ inode'[i].name = inode[i].name /\ inode'[i].mode = inode[i].mode
                        /\ inode'[i].private_field \in {inode[i].private_field, NULL}

\* One inode that was free becomes the last child of d.
Attaches ==
    \E d, c \in Inos, name \in Names, mode \in {DIR, REG}, file \in Nat :
        /\ Attached(d) /\ inode[c] = NULL
        /\ inode' = Attach(d, c, NewInode(name, mode), NewPrivate(file, d))

\* The root gets its private node.
MountsRoot == ~mounted /\ inode' = [inode EXCEPT ![Root].private_field = RootPrivate]

TreeStep ==
    \/ mounted' = mounted /\ (Keeps \/ (mounted /\ Attaches))
    \/ MountsRoot /\ mounted'

LEMMA SameKeeps ==
    ASSUME inode' = inode, mounted' = mounted
    PROVE  TreeStep
BY DEF TreeStep, Keeps, Exists

LEMMA MkdirTree ==
    ASSUME IInv, NEW path \in Seq(Names), Mkdir(path)
    PROVE  TreeStep
<1>1. mounted' = mounted /\ Types
    BY DEF Mkdir, IInv
<1>2. CASE \E res : Fail("mkdir", res)
    BY <1>1, <1>2, SameKeeps DEF Fail, UNCHANGED_TREE
<1>3. CASE path # <<>> /\ WalkParent(path).res = OK /\ MkdirIn(WalkParent(path).ino, path)
    <2> DEFINE d == WalkParent(path).ino
               leaf == LookupLeaf(d, path)
               c == vfs_inode_count
               name == LeafName(path)
               new == RamfsMkdir(d, c, name)
               res == IF inode[d].mode # DIR THEN EINVAL ELSE RamfsPutchild(d, name)
    <2>1. Exists(d) /\ d \in Inos /\ name \in Names
        BY <1>3, WalkParentExists, LeafFacts DEF Exists
    <2> HIDE DEF d, name
    <2>2. CASE \E r : Fail("mkdir", r)
        BY <1>2, <2>2
    <2>3. CASE leaf.res \notin {OK, FAULT} /\ RoomForInode /\ inode' = new.inode
        <3>1. mounted /\ leaf = RamfsLookup(d, path[Len(path)])
            BY <2>3 DEF LookupLeaf
        <3>2. Attached(d)
            BY <2>1, <2>3, <3>1, LookupFacts
        <3>3. inode' = IF res # OK THEN inode ELSE Attach(d, c, NewInode(name, DIR), NewPrivate(0, d))
            BY <2>3 DEF RamfsMkdir
        <3>4. c \in Inos /\ inode[c] = NULL
            <4>1. c \in Inos /\ c \in Nat
                BY <1>1, <2>3 DEF RoomForInode, Types
            <4> QED
                BY <4>1 DEF IInv, Fresh
        <3>5. DIR \in {DIR, REG} /\ 0 \in Nat
            OBVIOUS
        <3> HIDE DEF res, c
        <3>6. CASE res # OK
            BY <1>1, <3>3, <3>6, SameKeeps
        <3>7. CASE res = OK
            <4>1. inode' = Attach(d, c, NewInode(name, DIR), NewPrivate(0, d))
                BY <3>3, <3>7
            <4>2. Attaches
                BY <2>1, <3>2, <3>4, <3>5, <4>1 DEF Attaches
            <4> QED
                BY <1>1, <3>1, <4>2 DEF TreeStep
        <3> QED
            BY <3>6, <3>7
    <2> QED
        BY <1>3, <2>2, <2>3 DEF MkdirIn, d, name
<1> QED
    BY <1>2, <1>3 DEF Mkdir

LEMMA OpenMissingTree ==
    ASSUME IInv, mounted, NEW d \in Inos, Attached(d), NEW path \in Seq(Names), path # <<>>,
           NEW flags, OpenMissing(d, path, flags), mounted' = mounted
    PROVE  TreeStep
<1> DEFINE c == vfs_inode_count
           name == LeafName(path)
           res == RamfsPutchild(d, name)
           new == RamfsCreate(d, c, name)
<1>1. Types /\ name \in Names /\ REG \in {DIR, REG} /\ ramfs_file_count \in Nat
    BY LeafFacts DEF IInv, Types
<1>2. CASE Fail("open", ENOENT)
    BY <1>2, SameKeeps DEF Fail, UNCHANGED_TREE
<1>3. CASE RoomForInode /\ inode' = new.inode
    <2>1. inode' = IF res # OK THEN inode
                   ELSE Attach(d, c, NewInode(name, REG), NewPrivate(ramfs_file_count, d))
        BY <1>3 DEF RamfsCreate
    <2>2. c \in Inos /\ inode[c] = NULL
        <3>1. c \in Inos /\ c \in Nat
            BY <1>1, <1>3 DEF RoomForInode, Types
        <3> QED
            BY <3>1 DEF IInv, Fresh
    <2> HIDE DEF res, c, name
    <2>3. CASE res # OK
        BY <2>1, <2>3, SameKeeps
    <2>4. CASE res = OK
        <3>1. Attaches
            BY <1>1, <2>1, <2>2, <2>4 DEF Attaches
        <3> QED
            BY <3>1 DEF TreeStep
    <2> QED
        BY <2>3, <2>4
<1> QED
    BY <1>2, <1>3 DEF OpenMissing

LEMMA OpenTree ==
    ASSUME IInv, NEW path \in Seq(Names), NEW flags, Open(path, flags)
    PROVE  TreeStep
<1>1. mounted' = mounted /\ Types
    BY DEF Open, IInv
<1>2. CASE inode' = inode
    BY <1>1, <1>2, SameKeeps
<1>3. CASE path # <<>> /\ WalkParent(path).res = OK /\ OpenIn(WalkParent(path).ino, path, flags)
    <2> DEFINE d == WalkParent(path).ino
               leaf == LookupLeaf(d, path)
    <2>1. Exists(d) /\ d \in Inos
        BY <1>3, WalkParentExists DEF Exists
    <2>2. OpenIn(d, path, flags)
        BY <1>3
    <2> HIDE DEF d
    <2>3. OK # FAULT
        BY DEF OK, FAULT
    <2>4. leaf.res # FAULT => mounted /\ leaf = RamfsLookup(d, path[Len(path)])
        BY DEF LookupLeaf
    <2>5. CASE leaf.res = OK
        <3>1. OpenExisting(d, leaf.ino, flags)
            BY <2>2, <2>3, <2>5 DEF OpenIn
        <3>2. PICK c \in Inos : c = leaf.ino /\ Exists(c)
            BY <2>1, <2>3, <2>4, <2>5, LookupFacts DEF Exists
        <3>3. /\ \A i \in Inos \ {c} : inode'[i] = inode[i]
              /\ inode'[c] \in Node
              /\ inode'[c].name = inode[c].name /\ inode'[c].mode = inode[c].mode
              /\ inode'[c].private_field = inode[c].private_field \/ inode'[c].private_field = NULL
            BY <3>1, <3>2, OpenExistingTree
        <3>4. Keeps
            BY <3>2, <3>3, RamfsAssumption DEF Keeps, Exists
        <3> QED
            BY <1>1, <3>4 DEF TreeStep
    <2>6. CASE leaf.res = FAULT
        <3>1. Fail("open", FAULT)
            BY <2>2, <2>3, <2>6 DEF OpenIn
        <3> QED
            BY <1>2, <3>1 DEF Fail, UNCHANGED_TREE
    <2>7. CASE leaf.res \notin {OK, FAULT}
        <3>1. OpenMissing(d, path, flags)
            BY <2>2, <2>7 DEF OpenIn
        <3>2. Attached(d) /\ mounted
            BY <2>1, <2>4, <2>7, LookupFacts
        <3> QED
            BY <1>1, <1>3, <2>1, <3>1, <3>2, OpenMissingTree
    <2> QED
        BY <2>5, <2>6, <2>7
<1> QED
    BY <1>2, <1>3 DEF Open, Fail, UNCHANGED_TREE

LEMMA WriteTree ==
    ASSUME IInv, NEW i \in fds, NEW offset \in Offsets, NEW bytes \in Payloads, Write(i, offset, bytes)
    PROVE  TreeStep
<1> DEFINE size == SizeAfterWrite(i, (offset + Len(bytes)) % SIZE_MOD)
           node == [inode[i] EXCEPT !.size = size]
<1>1. /\ Types /\ Exists(i) /\ i \in Inos /\ inode[i] \in Node /\ mounted' = mounted
    BY NodeFacts DEF IInv, DescriptorsExist, Exists, Write
<1>2. CASE inode' = inode
    BY <1>1, <1>2, SameKeeps
<1>3. CASE inode' = [inode EXCEPT ![i].size = size]
    <2>1. size \in Nat
        <3>1. offset \in Nat /\ Len(bytes) \in Nat /\ SIZE_MOD \in Nat \ {0}
            BY VfsAssumption, LenProperties
        <3>2. (offset + Len(bytes)) % SIZE_MOD \in Nat
            BY <3>1
        <3> QED
            BY <1>1, <3>2 DEF SizeAfterWrite, Node
    <2> HIDE DEF size
    <2>2. /\ node \in Node /\ node.name = inode[i].name /\ node.mode = inode[i].mode
          /\ node.private_field = inode[i].private_field /\ node # NULL
        BY <1>1, <2>1, RamfsAssumption DEF Node
    <2>3. inode' = [inode EXCEPT ![i] = node]
        BY <1>3
    <2> HIDE DEF node
    <2>4. Keeps
        BY <1>1, <2>2, <2>3 DEF Types, Keeps, Exists
    <2> QED
        BY <1>1, <2>4 DEF TreeStep
<1> QED
    BY <1>2, <1>3 DEF Write

\* Every step keeps the tree, but for one new leaf or for the mount.
LEMMA StepTree == IInv /\ [Next]_vars => TreeStep
<1> SUFFICES ASSUME IInv, [Next]_vars
             PROVE  TreeStep
    OBVIOUS
<1>1. Paths \subseteq Seq(Names)
    BY VfsAssumption
<1>2. ASSUME NEW path \in Paths, Mount(path)
      PROVE  TreeStep
    BY <1>2, SameKeeps DEF Mount, TreeStep, MountsRoot
<1>3. ASSUME NEW path \in Paths, Mkdir(path)
      PROVE  TreeStep
    BY <1>1, <1>3, MkdirTree
<1>4. ASSUME NEW path \in Paths, NEW flags \in OpenFlags, Open(path, flags)
      PROVE  TreeStep
    BY <1>1, <1>4, OpenTree
<1>5. ASSUME NEW i \in fds, NEW offset \in Offsets, NEW bytes \in Payloads, Write(i, offset, bytes)
      PROVE  TreeStep
    BY <1>5, WriteTree
<1>6. ASSUME NEW i \in fds, NEW offset \in Offsets, NEW limit \in Limits, Read(i, offset, limit)
      PROVE  TreeStep
    BY <1>6, SameKeeps DEF Read
<1>7. ASSUME NEW i \in fds, Close(i) \/ StartListing(i)
      PROVE  TreeStep
    BY <1>7, SameKeeps DEF Close, StartListing
<1>8. ASSUME NEW size \in BufferSizes, Readdir(size)
      PROVE  TreeStep
    BY <1>8, SameKeeps DEF Readdir
<1>9. CASE UNCHANGED vars
    BY <1>9, SameKeeps DEF vars
<1> QED
    BY <1>2, <1>3, <1>4, <1>5, <1>6, <1>7, <1>8, <1>9 DEF Next

-----------------------------------------------------------------------------
(* Listing a directory *)

\* A directory that is attached has "." and ".." and its children.
Entries(d) == Len(DirEntries(d))

Listed(d, parent, children) == <<d, IF parent = NULL THEN d ELSE parent>> \o children

\* Entry by entry.
HasEntries(list, d, parent, children) ==
    /\ list \in Seq(Inos) /\ Len(list) = 2 + Len(children) /\ Len(children) \in Nat
    /\ list[1] = d /\ list[2] = IF parent = NULL THEN d ELSE parent
    /\ \A k \in 1..Len(children) : list[2 + k] = children[k]

LEMMA ListedFacts ==
    ASSUME NEW d \in Inos, NEW parent \in Inos \cup {NULL}, NEW children \in Seq(Inos)
    PROVE  HasEntries(Listed(d, parent, children), d, parent, children)
<1> DEFINE up == IF parent = NULL THEN d ELSE parent
           dots == <<d, up>>
<1>1. dots \in Seq(Inos) /\ Len(dots) = 2 /\ dots[1] = d /\ dots[2] = up
    OBVIOUS
<1>2. Len(children) \in Nat
    BY LenProperties
<1>3. Listed(d, parent, children) = dots \o children
    BY DEF Listed
<1> HIDE DEF dots
<1>4. /\ dots \o children \in Seq(Inos)
      /\ Len(dots \o children) = Len(dots) + Len(children)
      /\ \A k \in 1..Len(dots) + Len(children) :
            (dots \o children)[k] = IF k <= Len(dots) THEN dots[k] ELSE children[k - Len(dots)]
    BY <1>1, <1>2, ConcatProperties
<1>5. /\ Listed(d, parent, children)[1] = dots[1] /\ Listed(d, parent, children)[2] = dots[2]
      /\ \A k \in 1..Len(children) : Listed(d, parent, children)[2 + k] = children[k]
    BY <1>1, <1>2, <1>3, <1>4
<1> QED
    BY <1>1, <1>2, <1>3, <1>4, <1>5 DEF HasEntries

LEMMA EntryFacts ==
    ASSUME Types, NEW d \in Inos, Attached(d)
    PROVE  /\ DirEntries(d) \in Seq(Inos) /\ Entries(d) \in Nat
           /\ Entries(d) = 2 + Len(Children(d)) /\ Len(Children(d)) \in Nat
           /\ \A k \in 1..Len(Children(d)) : DirEntries(d)[2 + k] = Children(d)[k]
<1>1. inode[d].private_field.parent \in Inos \cup {NULL} /\ Children(d) \in Seq(Inos)
    BY NodeFacts DEF Private
<1>2. DirEntries(d) = Listed(d, inode[d].private_field.parent, Children(d))
    BY DEF DirEntries, Listed
<1>3. PICK parent \in Inos \cup {NULL}, children \in Seq(Inos) :
          parent = inode[d].private_field.parent /\ children = Children(d)
    BY <1>1
<1>4. HasEntries(Listed(d, parent, children), d, parent, children)
    BY ListedFacts
<1> QED
    BY <1>2, <1>3, <1>4 DEF Entries, HasEntries

\* Every inode but the root has a name.
NamedInv == \A i \in Inos : Exists(i) /\ i # Root => inode[i].name \in Names

\* Nothing is attached before the mount.
BeforeMount == ~mounted => \A i \in Inos : ~Attached(i)

\* No directory loses an entry while it is attached, or has one moved.
EntriesStay ==
    \A d \in Inos : Attached(d) /\ Attached(d)' =>
        /\ Entries(d)' >= Entries(d)
        /\ \A k \in 1..Entries(d) : DirEntries(d)'[k] = DirEntries(d)[k]

LEMMA EntriesStayWhenKept ==
    ASSUME Keeps
    PROVE  EntriesStay
<1> SUFFICES ASSUME NEW d \in Inos, Attached(d), Attached(d)'
             PROVE  DirEntries(d)' = DirEntries(d)
    <2>1. \A d \in Inos : Attached(d) /\ Attached(d)' => DirEntries(d)' = DirEntries(d)
        OBVIOUS
    <2>2. \A d \in Inos : Len(DirEntries(d)) >= Len(DirEntries(d))
        BY LenProperties
    <2> QED
        BY <2>1 DEF EntriesStay, Entries
<1>1. inode'[d].private_field = inode[d].private_field
    BY DEF Keeps, Attached
<1> QED
    BY <1>1 DEF DirEntries, Children

LEMMA EntriesStayWhenAttached ==
    ASSUME IInv, Attaches
    PROVE  EntriesStay
<1>1. PICK d, c \in Inos, name \in Names, mode \in {DIR, REG}, file \in Nat :
          /\ Attached(d) /\ inode[c] = NULL
          /\ inode' = Attach(d, c, NewInode(name, mode), NewPrivate(file, d))
    BY DEF Attaches
<1>2. Types
    BY DEF IInv
<1>3. /\ \A i \in Inos : Exists(i) /\ Attached(i) =>
            /\ inode'[i].private_field.parent = inode[i].private_field.parent
            /\ i # d => Children(i)' = Children(i)
      /\ DOMAIN Children(d)' = 1..Len(Children(d)) + 1
      /\ \A k \in 1..Len(Children(d)) : Children(d)'[k] = Children(d)[k]
    BY <1>1, <1>2, AttachFacts
<1> SUFFICES ASSUME NEW e \in Inos, Attached(e), Attached(e)'
             PROVE  /\ Entries(e)' >= Entries(e)
                    /\ \A k \in 1..Entries(e) : DirEntries(e)'[k] = DirEntries(e)[k]
    BY DEF EntriesStay
<1>4. inode'[e].private_field.parent = inode[e].private_field.parent
    BY <1>3 DEF Attached
<1>5. CASE e # d
    <2>1. DirEntries(e)' = DirEntries(e)
        BY <1>3, <1>4, <1>5 DEF DirEntries, Attached
    <2>2. Entries(e) \in Nat
        BY <1>2, EntryFacts
    <2> QED
        BY <2>1, <2>2 DEF Entries
<1>6. CASE e = d
    <2>1. PICK parent \in Inos \cup {NULL}, children \in Seq(Inos) :
              parent = inode[d].private_field.parent /\ children = Children(d)
        BY <1>1, <1>2, NodeFacts DEF Private
    <2>2. Children(d)' = Append(children, c)
        <3>1. inode \in [Inos -> Node \cup {NULL}] /\ c # d
            BY <1>1, <1>2 DEF Types, Attached, Exists
        <3> QED
            BY <1>1, <2>1, <3>1 DEF Attach, Children
    <2>3. /\ DirEntries(d) = Listed(d, parent, children)
          /\ DirEntries(d)' = Listed(d, parent, Append(children, c))
        BY <1>4, <1>6, <2>1, <2>2 DEF DirEntries, Listed
    <2>4. PICK longer \in Seq(Inos) : longer = Append(children, c)
        BY AppendProperties
    <2>5. /\ Len(longer) = Len(children) + 1 /\ Len(children) \in Nat
          /\ \A k \in 1..Len(children) : longer[k] = children[k]
        BY <2>4, AppendProperties, LenProperties
    <2>6. PICK old : old = Listed(d, parent, children)
        OBVIOUS
    <2>7. PICK new : new = Listed(d, parent, longer)
        OBVIOUS
    <2>8. HasEntries(old, d, parent, children) /\ HasEntries(new, d, parent, longer)
        BY <2>6, <2>7, ListedFacts
    <2>9. \A k \in 1..2 + Len(children) :
              k = 1 \/ k = 2 \/ (k - 2 \in 1..Len(children) /\ k - 2 \in 1..Len(longer) /\ 2 + (k - 2) = k)
        BY <2>5
    <2>10. \A k \in 1..2 + Len(children) : new[k] = old[k]
        BY <2>5, <2>8, <2>9 DEF HasEntries
    <2>11. Len(old) = 2 + Len(children) /\ Len(new) = 2 + Len(longer)
        BY <2>8 DEF HasEntries
    <2>12. DirEntries(e) = old /\ DirEntries(e)' = new
        BY <1>6, <2>3, <2>4, <2>6, <2>7
    <2> QED
        BY <2>5, <2>10, <2>11, <2>12 DEF Entries
<1> QED
    BY <1>5, <1>6

\* A caller's buffer holds the longest entry.
EveryEntryFits ==
    \A size \in BufferSizes :
        RecLen(1) <= size /\ RecLen(2) <= size /\ \A name \in Names : RecLen(NameLen[name]) <= size

LEMMA RecLenFacts ==
    ASSUME NEW len \in Nat
    PROVE  RecLen(len) \in Nat
<1>1. (16 + len + 1 + 7) \div 8 \in Nat
    OBVIOUS
<1> QED
    BY <1>1 DEF RecLen

LEMMA EntryLenFacts ==
    ASSUME IInv, NamedInv, EveryEntryFits, NEW size \in BufferSizes,
           NEW d \in Inos, Attached(d), NEW k \in 1..Entries(d)
    PROVE  EntryLen(d, k) \in Nat /\ EntryLen(d, k) <= size
<1>1. Types /\ ChildrenExist /\ ParentsAgree
    BY DEF IInv
<1>2. k = 1 => EntryLen(d, k) = RecLen(1)
    BY DEF EntryLen
<1>3. k = 2 => EntryLen(d, k) = RecLen(2)
    BY DEF EntryLen
<1>4. ASSUME k # 1, k # 2
      PROVE  \E name \in Names : EntryLen(d, k) = RecLen(NameLen[name])
    <2>1. k - 2 \in 1..Len(Children(d)) /\ 2 + (k - 2) = k
        BY <1>1, <1>4, EntryFacts
    <2>2. PICK j \in 1..Len(Children(d)) : j = k - 2
        BY <2>1
    <2>3. PICK i : i = Children(d)[j]
        OBVIOUS
    <2>4. DirEntries(d)[k] = i
        <3>1. DirEntries(d)[2 + j] = Children(d)[j]
            BY <1>1, EntryFacts
        <3> QED
            BY <2>1, <2>2, <2>3, <3>1
    <2>5. j \in DOMAIN Children(d)
        BY <1>1, NodeFacts
    <2>6. Exists(i) /\ i \in Inos
        BY <1>1, <2>3, <2>5 DEF ChildrenExist, Exists
    <2>7. i > d /\ i # Root
        <3>1. i \in Range(Children(d))
            BY <2>3, <2>5 DEF Range
        <3>2. i > d
            BY <1>1, <3>1 DEF ParentsAgree
        <3> QED
            BY <2>6, <3>2, RamfsAssumption DEF Root
    <2>8. inode[i].name \in Names
        BY <2>6, <2>7 DEF NamedInv
    <2>9. EntryLen(d, k) = RecLen(NameLen[inode[i].name])
        BY <1>4, <2>4 DEF EntryLen
    <2> QED
        BY <2>8, <2>9
<1>5. \A name \in Names : NameLen[name] \in Nat
    BY VfsAssumption
<1>6. RecLen(1) \in Nat /\ RecLen(2) \in Nat /\ \A name \in Names : RecLen(NameLen[name]) \in Nat
    BY <1>5, RecLenFacts
<1>7. RecLen(1) <= size /\ RecLen(2) <= size /\ \A name \in Names : RecLen(NameLen[name]) <= size
    BY DEF EveryEntryFits
<1> QED
    BY <1>2, <1>3, <1>4, <1>6, <1>7

\* The bytes of no entry, and of the next one.
LEMMA ChunkLenFacts ==
    ASSUME NEW d, NEW offset \in Nat
    PROVE  /\ ChunkLen(d, offset, 0) = 0
           /\ EntryLen(d, offset + 1) \in Nat => ChunkLen(d, offset, 1) = EntryLen(d, offset + 1)
<1> DEFINE step(n, g) == [k \in 0..n |-> IF k = 0 THEN 0 ELSE g[k - 1] + EntryLen(d, offset + k)]
<1>1. ChunkLen(d, offset, 0) = 0
    <2> DEFINE sum == CHOOSE g : g = step(0, g)
    <2>1. ChunkLen(d, offset, 0) = sum[0]
        BY DEF ChunkLen
    <2>2. \E g : g = step(0, g)
        <3> DEFINE f == [k \in 0..0 |-> 0]
        <3>1. f = step(0, f)
            OBVIOUS
        <3> QED
            BY <3>1
    <2>3. sum = step(0, sum)
        BY <2>2
    <2> HIDE DEF sum
    <2> QED
        BY <2>1, <2>3
<1>2. ASSUME EntryLen(d, offset + 1) \in Nat
      PROVE  ChunkLen(d, offset, 1) = EntryLen(d, offset + 1)
    <2> DEFINE sum == CHOOSE g : g = step(1, g)
    <2>1. ChunkLen(d, offset, 1) = sum[1]
        BY DEF ChunkLen
    <2>2. \E g : g = step(1, g)
        <3> DEFINE f == [k \in 0..1 |-> IF k = 0 THEN 0 ELSE 0 + EntryLen(d, offset + k)]
        <3>1. f[0] = 0
            OBVIOUS
        <3>2. \A k \in 0..1 : k = 0 \/ (k = 1 /\ k - 1 = 0)
            OBVIOUS
        <3>3. f = step(1, f)
            BY <3>1, <3>2
        <3> QED
            BY <3>3
    <2>3. sum = step(1, sum)
        BY <2>2
    <2> HIDE DEF sum
    <2>4. sum[0] = 0 /\ sum[1] = sum[0] + EntryLen(d, offset + 1)
        BY <2>3
    <2> QED
        BY <1>2, <2>1, <2>4
<1> QED
    BY <1>1, <1>2

\* A call returns at least one entry, unless there is none left.
LEMMA ChunkFacts ==
    ASSUME IInv, NamedInv, EveryEntryFits, NEW size \in BufferSizes,
           NEW d \in Inos, Attached(d), NEW offset \in 0..Entries(d)
    PROVE  /\ Chunk(d, offset, size) \in 0..Entries(d) - offset
           /\ Chunk(d, offset, size) = 0 => offset = Entries(d)
<1>1. Entries(d) \in Nat /\ offset \in Nat /\ size \in Nat
    BY EntryFacts, VfsAssumption DEF IInv
<1>2. PICK rest \in Nat : rest = Entries(d) - offset
    BY <1>1
<1> DEFINE fit == {n \in 0..rest : ChunkLen(d, offset, n) <= size}
           best == CHOOSE n \in fit : \A m \in fit : m <= n
<1>3. Chunk(d, offset, size) = best
    BY <1>2 DEF Chunk, Entries
<1>4. 0 \in fit
    BY <1>1, ChunkLenFacts
<1>5. rest > 0 => 1 \in fit
    <2>1. SUFFICES ASSUME rest > 0
                   PROVE  ChunkLen(d, offset, 1) <= size
        OBVIOUS
    <2>2. offset + 1 \in 1..Entries(d)
        BY <1>1, <1>2, <2>1
    <2>3. EntryLen(d, offset + 1) \in Nat /\ EntryLen(d, offset + 1) <= size
        BY <2>2, EntryLenFacts
    <2> QED
        BY <1>1, <2>3, ChunkLenFacts
<1>6. fit \subseteq 0..rest
    OBVIOUS
<1> HIDE DEF fit
<1>7. \E n \in fit : \A m \in fit : m <= n
    <2> DEFINE left == {rest - n : n \in fit}
    <2>1. left \subseteq 0..rest /\ left # {}
        BY <1>4, <1>6
    <2>2. PICK j \in left : \A k \in left : j <= k
        <3> HIDE DEF left
        <3> QED
            BY <2>1, LeastNumber
    <2>3. PICK n \in fit : j = rest - n
        OBVIOUS
    <2>4. \A m \in fit : rest - n <= rest - m
        BY <2>2, <2>3
    <2>5. \A m \in fit : m \in Nat
        BY <1>6
    <2>6. \A m \in fit : m <= n
        BY <2>4, <2>5
    <2> QED
        BY <2>6
<1>8. best \in fit /\ \A m \in fit : m <= best
    BY <1>7
<1> HIDE DEF best
<1>9. best \in 0..rest
    BY <1>6, <1>8
<1>10. best = 0 => rest = 0
    BY <1>5, <1>8
<1> QED
    BY <1>1, <1>2, <1>3, <1>9, <1>10

\* What the caller has seen are the first entries of the directory.
SeenSoFar(d, seen) ==
    Len(seen) <= Entries(d) /\ \A k \in 1..Len(seen) : seen[k] = DirEntries(d)[k]

Readers == [dir : Inos, offset : Nat, seen : Seq(Inos), done : BOOLEAN]

ReaderInv ==
    reader # NULL =>
        /\ reader \in Readers /\ Exists(reader.dir) /\ reader.offset = Len(reader.seen)
        /\ ~reader.done /\ reader.offset > 0 =>
              mounted /\ (Attached(reader.dir) => SeenSoFar(reader.dir, reader.seen))

ListingInv == NamedInv /\ BeforeMount /\ ReaderInv

LEMMA InitLists == Init => ListingInv
<1> SUFFICES ASSUME Init
             PROVE  ListingInv
    OBVIOUS
<1>1. \A i \in Inos : Exists(i) => i = Root
    BY DEF Init, Exists
<1>2. \A i \in Inos : ~Attached(i)
    <2>1. NewInode(NULL, DIR).private_field = NULL
        BY DEF NewInode
    <2>2. inode = [i \in Inos |-> IF i = Root THEN NewInode(NULL, DIR) ELSE NULL]
        BY DEF Init
    <2> QED
        BY <1>1, <2>1, <2>2 DEF Attached
<1>3. reader = NULL
    BY DEF Init
<1> QED
    BY <1>1, <1>2, <1>3 DEF ListingInv, NamedInv, BeforeMount, ReaderInv

\* What a step of the tree keeps.
LEMMA TreeKeepsListing ==
    ASSUME IInv, IInv', ListingInv, TreeStep
    PROVE  /\ NamedInv' /\ BeforeMount'
           /\ mounted => mounted' /\ EntriesStay /\ \A i \in Inos : Exists(i) /\ Attached(i)' => Attached(i)
           /\ \A i \in Inos : Exists(i) => Exists(i)'
<1>1. Types /\ RootIsDirectory /\ Root \in Inos
    BY VfsAssumption DEF IInv, Root
<1>2. CASE mounted' = mounted /\ Keeps
    <2>1. NamedInv'
        BY <1>2 DEF ListingInv, NamedInv, Keeps
    <2>2. \A i \in Inos : Attached(i)' => Attached(i)
        BY <1>2 DEF Keeps, Attached
    <2>3. BeforeMount'
        BY <1>2, <2>2 DEF ListingInv, BeforeMount
    <2>4. \A i \in Inos : Exists(i) => Exists(i)'
        BY <1>2 DEF Keeps
    <2> QED
        BY <1>2, <2>1, <2>2, <2>3, <2>4, EntriesStayWhenKept
<1>3. CASE mounted' = mounted /\ mounted /\ Attaches
    <2>1. PICK d, c \in Inos, name \in Names, mode \in {DIR, REG}, file \in Nat :
              /\ Attached(d) /\ inode[c] = NULL
              /\ inode' = Attach(d, c, NewInode(name, mode), NewPrivate(file, d))
        BY <1>3 DEF Attaches
    <2>2. /\ \A i \in Inos : Exists(i)' <=> Exists(i) \/ i = c
          /\ \A i \in Inos : Exists(i) =>
                inode'[i].name = inode[i].name /\ (Attached(i)' <=> Attached(i))
          /\ inode'[c].name = name
        BY <1>1, <2>1, AttachFacts
    <2>3. NamedInv'
        BY <2>2 DEF ListingInv, NamedInv
    <2>4. BeforeMount'
        BY <1>3 DEF BeforeMount
    <2> QED
        BY <1>3, <2>2, <2>3, <2>4, EntriesStayWhenAttached
<1>4. CASE MountsRoot /\ mounted'
    <2>1. inode' = [inode EXCEPT ![Root].private_field = RootPrivate] /\ inode[Root] \in Node
        BY <1>1, <1>4, NodeFacts DEF MountsRoot, RootIsDirectory
    <2>2. \A i \in Inos : i # Root => inode'[i] = inode[i]
        BY <1>1, <2>1 DEF Types
    <2>3. NamedInv'
        BY <2>2 DEF ListingInv, NamedInv, Exists
    <2>4. \A i \in Inos : Exists(i) => Exists(i)'
        BY <2>2 DEF IInv, RootIsDirectory, Exists
    <2> QED
        BY <1>4, <2>3, <2>4 DEF BeforeMount, MountsRoot
<1> QED
    BY <1>2, <1>3, <1>4 DEF TreeStep

\* Others may create entries between two calls of a listing.
LEMMA OthersKeepReader ==
    ASSUME IInv, IInv', ListingInv, TreeStep, reader' = reader
    PROVE  ListingInv'
<1>1. NamedInv' /\ BeforeMount'
    BY TreeKeepsListing
<1>2. ReaderInv'
    <2> SUFFICES ASSUME reader # NULL
                 PROVE  /\ reader \in Readers /\ Exists(reader.dir)' /\ reader.offset = Len(reader.seen)
                        /\ ~reader.done /\ reader.offset > 0 =>
                              mounted' /\ (Attached(reader.dir)' => SeenSoFar(reader.dir, reader.seen)')
        BY DEF ReaderInv, Exists, Attached, SeenSoFar, Entries, DirEntries, Children
    <2>1. PICK d \in Inos, seen \in Seq(Inos) : d = reader.dir /\ seen = reader.seen
        BY DEF ListingInv, ReaderInv, Readers
    <2>2. reader \in Readers /\ Exists(d) /\ reader.offset = Len(seen)
        BY <2>1 DEF ListingInv, ReaderInv
    <2>3. Exists(d)'
        BY <2>2, TreeKeepsListing
    <2>4. ASSUME ~reader.done, reader.offset > 0
          PROVE  mounted' /\ (Attached(d)' => SeenSoFar(d, seen)')
        <3>1. mounted /\ (Attached(d) => SeenSoFar(d, seen))
            BY <2>1, <2>4 DEF ListingInv, ReaderInv
        <3>2. mounted' /\ EntriesStay /\ (Attached(d)' => Attached(d))
            BY <2>2, <3>1, TreeKeepsListing
        <3>3. ASSUME Attached(d)'
              PROVE  SeenSoFar(d, seen)'
            <4>1. Entries(d)' >= Entries(d) /\ \A k \in 1..Entries(d) : DirEntries(d)'[k] = DirEntries(d)[k]
                BY <3>2, <3>3 DEF EntriesStay
            <4>2. Len(seen) <= Entries(d) /\ \A k \in 1..Len(seen) : seen[k] = DirEntries(d)[k]
                BY <3>1, <3>2, <3>3 DEF SeenSoFar
            <4>3. Entries(d) \in Nat /\ Len(seen) \in Nat
                BY <3>2, <3>3, EntryFacts, LenProperties DEF IInv
            <4>4. Len(seen) <= Entries(d)'
                <5>1. DirEntries(d)' = DirEntries(d)' /\ Entries(d)' = Len(DirEntries(d)')
                    BY DEF Entries
                <5>2. Len(DirEntries(d)') \in Nat
                    <6>1. inode'[d].private_field \in Private
                        BY <3>3 DEF IInv, Types, Attached, Exists, Node
                    <6>2. Children(d)' \in Seq(Inos) /\ inode'[d].private_field.parent \in Inos \cup {NULL}
                        BY <6>1 DEF Private, Children
                    <6>3. PICK parent \in Inos \cup {NULL}, children \in Seq(Inos) :
                              parent = inode'[d].private_field.parent /\ children = Children(d)'
                        BY <6>2
                    <6>4. DirEntries(d)' = Listed(d, parent, children)
                        BY <6>3 DEF DirEntries, Listed
                    <6>5. PICK list : list = Listed(d, parent, children)
                        OBVIOUS
                    <6>6. HasEntries(list, d, parent, children)
                        BY <6>5, ListedFacts
                    <6> QED
                        BY <6>4, <6>5, <6>6 DEF HasEntries
                <5> QED
                    BY <4>1, <4>2, <4>3, <5>1, <5>2
            <4>5. \A k \in 1..Len(seen) : seen[k] = DirEntries(d)'[k]
                BY <4>1, <4>2, <4>3
            <4> QED
                BY <4>4, <4>5 DEF SeenSoFar
        <3> QED
            BY <3>2, <3>3
    <2> QED
        BY <2>1, <2>2, <2>3, <2>4 DEF Exists, Attached, SeenSoFar, Entries, DirEntries, Children
<1> QED
    BY <1>1, <1>2 DEF ListingInv

\* The listing that ends with this step is complete.
EndsComplete ==
    reader' # NULL /\ reader'.done /\ ~(reader # NULL /\ reader.done)
        => reader'.seen = DirEntries(reader'.dir)

LEMMA StartListingLists ==
    ASSUME IInv, ListingInv, NEW d \in fds, StartListing(d)
    PROVE  ListingInv' /\ EndsComplete
<1>1. inode' = inode /\ mounted' = mounted
      /\ reader' = [dir |-> d, offset |-> 0, seen |-> <<>>, done |-> FALSE]
    BY DEF StartListing
<1>2. Exists(d) /\ d \in Inos
    BY DEF IInv, DescriptorsExist, Exists
<1>3. NamedInv' /\ BeforeMount'
    BY <1>1 DEF ListingInv, NamedInv, BeforeMount, Exists, Attached
<1>4. ReaderInv'
    <2>1. reader' \in Readers /\ reader'.dir = d /\ reader'.offset = 0 /\ reader'.seen = <<>>
        BY <1>1, <1>2 DEF Readers
    <2>2. Len(<<>>) = 0
        OBVIOUS
    <2> QED
        BY <1>1, <1>2, <2>1, <2>2 DEF ReaderInv, Exists
<1>5. EndsComplete
    BY <1>1 DEF EndsComplete
<1> QED
    BY <1>3, <1>4, <1>5 DEF ListingInv

LEMMA ReaddirLists ==
    ASSUME IInv, ListingInv, EveryEntryFits, NEW size \in BufferSizes, Readdir(size)
    PROVE  ListingInv' /\ EndsComplete
<1>1. inode' = inode /\ mounted' = mounted /\ reader # NULL /\ ~reader.done
    BY DEF Readdir
<1>2. NamedInv' /\ BeforeMount'
    BY <1>1 DEF ListingInv, NamedInv, BeforeMount, Exists, Attached
<1>3. PICK d \in Inos, offset \in Nat, seen \in Seq(Inos) :
          d = reader.dir /\ offset = reader.offset /\ seen = reader.seen
    BY <1>1 DEF ListingInv, ReaderInv, Readers
<1>4. /\ reader \in Readers /\ Exists(d) /\ offset = Len(seen)
      /\ offset > 0 => mounted /\ (Attached(d) => SeenSoFar(d, seen))
    BY <1>1, <1>3 DEF ListingInv, ReaderInv
<1>5. CASE reader' = NULL
    BY <1>2, <1>5 DEF ListingInv, ReaderInv, EndsComplete
<1>6. CASE /\ ~(~HasOps(d) \/ inode[d].mode # DIR \/ inode[d].private_field = NULL)
           /\ reader' = [reader EXCEPT !.offset = @ + Chunk(d, offset, size),
                             !.seen = @ \o SubSeq(DirEntries(d), offset + 1, offset + Chunk(d, offset, size)),
                             !.done = (Chunk(d, offset, size) = 0)]
    <2>1. Attached(d) /\ Types
        BY <1>4, <1>6 DEF Attached, IInv
    <2>2. PICK list \in Seq(Inos) : list = DirEntries(d)
        BY <2>1, EntryFacts
    <2>3. PICK total \in Nat : total = Entries(d) /\ total = Len(list)
        BY <2>1, <2>2, EntryFacts DEF Entries
    <2>4. offset \in 0..total /\ \A k \in 1..offset : seen[k] = list[k]
        BY <1>4, <2>1, <2>2, <2>3 DEF SeenSoFar
    <2>5. total > 0
        <3>1. Entries(d) = 2 + Len(Children(d)) /\ Len(Children(d)) \in Nat
            BY <2>1, EntryFacts
        <3>2. PICK k \in Nat : k = Len(Children(d)) /\ total = 2 + k
            BY <2>3, <3>1
        <3> QED
            BY <3>2
    <2>6. PICK n \in Nat : n = Chunk(d, offset, size)
        <3>1. Chunk(d, offset, size) \in 0..Entries(d) - offset
            BY <2>1, <2>3, <2>4, ChunkFacts DEF ListingInv
        <3>2. Chunk(d, offset, size) \in 0..total - offset
            BY <2>3, <3>1
        <3>3. \A m \in 0..total - offset : m \in Nat
            OBVIOUS
        <3> QED
            BY <3>2, <3>3
    <2>7. n \in 0..total - offset /\ (n = 0 => offset = total)
        BY <2>1, <2>3, <2>4, <2>6, ChunkFacts DEF ListingInv
    <2>8. PICK part : part = SubSeq(list, offset + 1, offset + n)
        OBVIOUS
    <2>9. /\ part \in Seq(Inos) /\ Len(part) = n
          /\ \A k \in 1..n : part[k] = list[offset + k]
        <3>1. \A k \in 1..total : list[k] \in Inos
            BY <2>3, LenProperties
        <3>2. \A k \in offset + 1..offset + n : list[k] \in Inos
            BY <2>4, <2>7, <3>1
        <3>3. (IF offset + 1 <= offset + n THEN offset + n - (offset + 1) + 1 ELSE 0) = n
            BY <2>6
        <3>4. \A k \in 1..n : offset + 1 + k - 1 = offset + k
            OBVIOUS
        <3> QED
            BY <2>8, <3>2, <3>3, <3>4, SubSeqProperties
    <2>10. PICK all : all = seen \o part
        OBVIOUS
    <2>11. /\ all \in Seq(Inos) /\ Len(all) = offset + n
           /\ \A k \in 1..offset + n : all[k] = IF k <= offset THEN seen[k] ELSE part[k - offset]
        BY <1>4, <2>9, <2>10, ConcatProperties
    <2>12. \A k \in 1..offset + n : all[k] = list[k]
        <3>1. \A k \in 1..offset + n : k \in 1..offset \/ (k - offset \in 1..n /\ offset + (k - offset) = k
                                                             /\ ~(k <= offset))
            BY <2>6
        <3>2. SUFFICES ASSUME NEW k \in 1..offset + n
                       PROVE  all[k] = list[k]
            OBVIOUS
        <3>3. CASE k \in 1..offset
            <4>1. k <= offset
                BY <3>3
            <4>2. all[k] = seen[k]
                BY <2>11, <4>1
            <4> QED
                BY <2>4, <3>3, <4>2
        <3>4. CASE k - offset \in 1..n /\ offset + (k - offset) = k /\ ~(k <= offset)
            <4>1. all[k] = part[k - offset]
                BY <2>11, <3>4
            <4>2. part[k - offset] = list[offset + (k - offset)]
                BY <2>9, <3>4
            <4> QED
                BY <3>4, <4>1, <4>2
        <3> QED
            BY <3>1, <3>3, <3>4
    <2>13. reader' = [reader EXCEPT !.offset = @ + n, !.seen = @ \o part, !.done = (n = 0)]
        BY <1>6, <2>2, <2>6, <2>8
    <2>14. /\ reader' \in Readers /\ reader'.dir = d /\ reader'.offset = offset + n
           /\ reader'.seen = all /\ reader'.done = (n = 0)
        <3>1. reader = [dir |-> d, offset |-> offset, seen |-> seen, done |-> FALSE]
            BY <1>1, <1>3, <1>4 DEF Readers
        <3>2. reader' = [dir |-> d, offset |-> offset + n, seen |-> all, done |-> (n = 0)]
            BY <2>10, <2>13, <3>1
        <3>3. offset + n \in Nat
            OBVIOUS
        <3> QED
            BY <2>11, <3>2, <3>3 DEF Readers
    <2>15. ReaderInv'
        <3>1. Exists(d)'
            BY <1>1, <1>4 DEF Exists
        <3>2. reader'.offset = Len(reader'.seen)
            BY <2>11, <2>14
        <3>3. offset + n > 0 => mounted
            <4>1. CASE offset > 0
                BY <1>4, <4>1
            <4>2. CASE offset = 0
                BY <2>1, <4>2 DEF ListingInv, BeforeMount
            <4> QED
                BY <4>1, <4>2
        <3>4. SeenSoFar(d, all)
            <4>1. Len(all) <= Entries(d)
                BY <2>3, <2>4, <2>7, <2>11
            <4>2. \A k \in 1..Len(all) : all[k] = DirEntries(d)[k]
                BY <2>2, <2>11, <2>12
            <4> QED
                BY <4>1, <4>2 DEF SeenSoFar
        <3>5. SeenSoFar(d, all)'
            BY <1>1, <3>4 DEF SeenSoFar, Entries, DirEntries, Children
        <3>6. SeenSoFar(reader.dir, reader.seen)'
            BY <2>14, <3>5 DEF SeenSoFar, Entries, DirEntries, Children
        <3>7. Exists(reader.dir)'
            BY <2>14, <3>1 DEF Exists
        <3> QED
            BY <1>1, <2>14, <3>2, <3>3, <3>6, <3>7 DEF ReaderInv
    <2>16. EndsComplete
        <3>1. SUFFICES ASSUME n = 0
                       PROVE  all = list
            BY <2>2, <2>14 DEF EndsComplete
        <3>2. Len(all) = Len(list) /\ \A k \in 1..Len(all) : all[k] = list[k]
            BY <2>3, <2>7, <2>11, <2>12, <3>1
        <3> QED
            BY <2>11, <3>2, SeqEqual
    <2> QED
        BY <1>2, <2>15, <2>16 DEF ListingInv
<1> QED
    BY <1>3, <1>5, <1>6 DEF Readdir

LEMMA StepLists == EveryEntryFits /\ IInv /\ ListingInv /\ [Next]_vars => ListingInv' /\ EndsComplete
<1> SUFFICES ASSUME EveryEntryFits, IInv, ListingInv, [Next]_vars
             PROVE  ListingInv' /\ EndsComplete
    OBVIOUS
<1>1. IInv' /\ TreeStep
    BY StepKeeps, StepTree
<1>2. ASSUME reader' = reader
      PROVE  ListingInv' /\ EndsComplete
    BY <1>1, <1>2, OthersKeepReader DEF EndsComplete
<1>3. ASSUME NEW i \in fds, StartListing(i)
      PROVE  ListingInv' /\ EndsComplete
    BY <1>3, StartListingLists
<1>4. ASSUME NEW size \in BufferSizes, Readdir(size)
      PROVE  ListingInv' /\ EndsComplete
    BY <1>4, ReaddirLists
<1>5. \/ reader' = reader
      \/ \E i \in fds : StartListing(i)
      \/ \E size \in BufferSizes : Readdir(size)
    BY DEF Next, Mount, Mkdir, Open, Read, Write, Close, vars
<1> QED
    BY <1>2, <1>3, <1>4, <1>5

\* A caller that lists a directory call by call, while others create entries in
\* it, has at the end every entry once and in order. Its buffer must hold the
\* longest entry: ramfs_readdir() answers 0 when it does not.
THEOREM ListingsAreComplete ==
    ASSUME EveryEntryFits
    PROVE  Spec => ListingIsComplete
<1>1. Init => IInv /\ ListingInv
    BY InitEstablishes, InitLists
<1>2. IInv /\ ListingInv /\ [Next]_vars => (IInv /\ ListingInv)'
    BY StepKeeps, StepLists
<1>3. Spec => [](IInv /\ ListingInv)
    BY <1>1, <1>2, PTL DEF Spec
<1>4. IInv /\ ListingInv /\ [Next]_vars =>
          [reader' # NULL /\ reader'.done /\ ~(reader # NULL /\ reader.done)
              => reader'.seen = DirEntries(reader'.dir)]_vars
    BY StepLists DEF EndsComplete
<1> QED
    BY <1>3, <1>4, PTL DEF Spec, ListingIsComplete
=============================================================================
