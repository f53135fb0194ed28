--------------------------- MODULE VfsStoreProofs ---------------------------
(***************************************************************************)
(* Proofs about the bytes of files.  For callers that use any flags: a     *)
(* file never claims more bytes than its buffer has, however its writes    *)
(* make it grow, and every variable keeps its type.  For callers that      *)
(* create with O_EXCL only: the file system implements the store of named  *)
(* byte sequences of FileStore.                                            *)
(***************************************************************************)
EXTENDS VfsTreeProofs, VfsStore


(* kbuf_grow() *)

\* The sizes of a buffer that is doubled m times.
IsDoubling(f, allocated, m) ==
    f = [k \in 0..m |-> IF k = 0 THEN allocated ELSE DoubledFrom(f[k - 1])]

LEMMA DoublingExists ==
    ASSUME NEW allocated, NEW m \in Nat
    PROVE  \E f : IsDoubling(f, allocated, m)
<1> DEFINE Bad == {j \in 0..m : ~\E f : IsDoubling(f, allocated, j)}
<1>1. SUFFICES ASSUME Bad # {}
               PROVE  FALSE
    OBVIOUS
<1>2. PICK j \in Bad : \A k \in Bad : j <= k
    <2>1. Bad \subseteq 0..m
        OBVIOUS
    <2> HIDE DEF Bad
    <2> QED
        BY <1>1, <2>1, LeastNumber
<1>3. CASE j = 0
    <2> DEFINE f == [k \in 0..0 |-> allocated]
    <2>1. f = [k \in 0..0 |-> IF k = 0 THEN allocated ELSE DoubledFrom(f[k - 1])]
        <3>1. \A k \in 0..0 : k = 0
            OBVIOUS
        <3> QED
            BY <3>1
    <2>2. IsDoubling(f, allocated, j)
        BY <1>3, <2>1 DEF IsDoubling
    <2> QED
        BY <2>2
<1>4. CASE j > 0
    <2>1. PICK g : IsDoubling(g, allocated, j - 1)
        BY <1>2, <1>4
    <2> DEFINE f == [k \in 0..j |-> IF k = j THEN DoubledFrom(g[j - 1]) ELSE g[k]]
    <2>2. \A k \in 0..j - 1 : f[k] = g[k]
        OBVIOUS
    <2>3. \A k \in 0..j - 1 : g[k] = IF k = 0 THEN allocated ELSE DoubledFrom(g[k - 1])
        BY <2>1 DEF IsDoubling
    <2>4. \A k \in 0..j : f[k] = IF k = 0 THEN allocated ELSE DoubledFrom(f[k - 1])
        <3>1. f[j] = DoubledFrom(g[j - 1])
            BY <1>4
        <3>2. \A k \in 0..j : k = j \/ (k = 0 /\ k \in 0..j - 1) \/ (k \in 0..j - 1 /\ k # 0 /\ k - 1 \in 0..j - 1)
            BY <1>4
        <3>3. j - 1 \in 0..j - 1 /\ j # 0
            BY <1>4
        <3> HIDE DEF f
        <3> QED
            BY <2>2, <2>3, <3>1, <3>2, <3>3
    <2>5. f = [k \in 0..j |-> IF k = 0 THEN allocated ELSE DoubledFrom(f[k - 1])]
        <3>1. f = [k \in 0..j |-> f[k]]
            OBVIOUS
        <3> HIDE DEF f
        <3> QED
            BY <2>4, <3>1
    <2>6. IsDoubling(f, allocated, j)
        BY <2>5 DEF IsDoubling
    <2> QED
        BY <2>6
<1> QED
    BY <1>2, <1>3, <1>4

\* Each call makes the buffer larger, also one of size 0.
LEMMA DoublingGrows ==
    ASSUME NEW allocated \in Nat, NEW m \in Nat, NEW f, IsDoubling(f, allocated, m)
    PROVE  \A k \in 0..m : f[k] \in Nat /\ f[k] >= allocated + k
<1> DEFINE Bad == {k \in 0..m : ~(f[k] \in Nat /\ f[k] >= allocated + k)}
<1>1. SUFFICES ASSUME Bad # {}
               PROVE  FALSE
    OBVIOUS
<1>2. PICK k \in Bad : \A j \in Bad : k <= j
    <2>1. Bad \subseteq 0..m
        OBVIOUS
    <2> HIDE DEF Bad
    <2> QED
        BY <1>1, <2>1, LeastNumber
<1>3. f[k] = IF k = 0 THEN allocated ELSE DoubledFrom(f[k - 1])
    BY <1>2 DEF IsDoubling
<1>4. k # 0
    BY <1>2, <1>3
<1>5. f[k - 1] \in Nat /\ f[k - 1] >= allocated + (k - 1)
    BY <1>2, <1>4
<1>6. f[k] = DoubledFrom(f[k - 1])
    BY <1>3, <1>4
<1>7. DoubledFrom(f[k - 1]) \in Nat /\ DoubledFrom(f[k - 1]) >= f[k - 1] + 1
    BY <1>5 DEF DoubledFrom
<1> QED
    BY <1>2, <1>5, <1>6, <1>7

\* kbuf_grow(), called until end bytes fit, stops, and loses nothing.
LEMMA GrownSizeFits ==
    ASSUME NEW allocated \in Nat, NEW end \in Nat
    PROVE  /\ GrownSize(allocated, end) \in Nat
           /\ GrownSize(allocated, end) >= allocated
           /\ GrownSize(allocated, end) >= end
<1> DEFINE step(g) == [k \in 0..end + 1 |-> IF k = 0 THEN allocated ELSE DoubledFrom(g[k - 1])]
           size == CHOOSE g : g = step(g)
           enough(k) == size[k] >= end /\ \A j \in 0..k - 1 : size[j] < end
<1>1. GrownSize(allocated, end) = size[CHOOSE k \in 0..end + 1 : enough(k)]
    BY DEF GrownSize
<1>2. IsDoubling(size, allocated, end + 1)
    <2>1. \E g : g = step(g)
        <3>1. PICK g : IsDoubling(g, allocated, end + 1)
            BY DoublingExists
        <3>2. g = step(g)
            BY <3>1 DEF IsDoubling
        <3> QED
            BY <3>2
    <2>2. size = step(size)
        BY <2>1
    <2> QED
        BY <2>2 DEF IsDoubling
<1> HIDE DEF size
<1>3. \A k \in 0..end + 1 : size[k] \in Nat /\ size[k] >= allocated + k
    BY <1>2, DoublingGrows
<1> DEFINE Enough == {k \in 0..end + 1 : size[k] >= end}
<1>4. PICK k \in Enough : \A j \in Enough : k <= j
    <2>1. end + 1 \in Enough
        BY <1>3
    <2>2. Enough \subseteq 0..end + 1 /\ end + 1 \in Nat
        OBVIOUS
    <2> HIDE DEF Enough
    <2> QED
        BY <2>1, <2>2, LeastNumber
<1>5. k \in 0..end + 1 /\ enough(k)
    <2>1. \A j \in 0..k - 1 : j \in 0..end + 1 /\ j \notin Enough
        BY <1>4
    <2>2. \A j \in 0..k - 1 : size[j] < end
        BY <1>3, <2>1
    <2> QED
        BY <1>4, <2>2
<1> DEFINE first == CHOOSE j \in 0..end + 1 : enough(j)
<1>6. first \in 0..end + 1 /\ enough(first)
    BY <1>5
<1> HIDE DEF first
<1>7. size[first] \in Nat /\ size[first] >= allocated + first /\ size[first] >= end /\ first \in Nat
    BY <1>3, <1>6
<1>8. GrownSize(allocated, end) = size[first]
    BY <1>1 DEF first
<1> QED
    BY <1>7, <1>8

-----------------------------------------------------------------------------
(* The bytes of a buffer *)

Buffer == [allocated : Nat, bytes : Seq(Bytes \cup {Junk})]

\* As long as it says.
WellSized(buf) == buf \in Buffer /\ Len(buf.bytes) = buf.allocated

LEMMA JunkIsBytes ==
    ASSUME NEW n \in Nat
    PROVE  JunkBytes(n) \in Seq(Bytes \cup {Junk}) /\ Len(JunkBytes(n)) = n
<1>1. JunkBytes(n) \in [1..n -> Bytes \cup {Junk}]
    BY DEF JunkBytes
<1>2. JunkBytes(n) \in Seq(Bytes \cup {Junk})
    BY <1>1, SeqDef
<1>3. DOMAIN JunkBytes(n) = 1..n
    BY DEF JunkBytes
<1> QED
    BY <1>2, <1>3, LenProperties

LEMMA GrownIsSized ==
    ASSUME NEW buf, WellSized(buf), NEW end \in Nat
    PROVE  /\ WellSized(Grown(buf, end))
           /\ Grown(buf, end).allocated >= buf.allocated
           /\ Grown(buf, end).allocated >= end
<1> DEFINE size == GrownSize(buf.allocated, end)
<1>1. buf.allocated \in Nat /\ buf.bytes \in Seq(Bytes \cup {Junk}) /\ Len(buf.bytes) = buf.allocated
    BY DEF WellSized, Buffer
<1>2. size \in Nat /\ size >= buf.allocated /\ size >= end
    BY <1>1, GrownSizeFits
<1>3. Grown(buf, end) = [allocated |-> size, bytes |-> buf.bytes \o JunkBytes(size - buf.allocated)]
    BY DEF Grown
<1> HIDE DEF size
<1>4. size - buf.allocated \in Nat
    BY <1>1, <1>2
<1> DEFINE more == JunkBytes(size - buf.allocated)
<1>5. more \in Seq(Bytes \cup {Junk}) /\ Len(more) = size - buf.allocated
    BY <1>4, JunkIsBytes
<1> HIDE DEF more
<1>6. buf.bytes \o more \in Seq(Bytes \cup {Junk}) /\ Len(buf.bytes \o more) = Len(buf.bytes) + Len(more)
    BY <1>1, <1>5, ConcatProperties
<1>7. Len(buf.bytes \o more) = size
    BY <1>1, <1>2, <1>5, <1>6
<1> QED
    BY <1>2, <1>3, <1>6, <1>7 DEF WellSized, Buffer, more

LEMMA CopyInIsSized ==
    ASSUME NEW buf, WellSized(buf), NEW offset \in Nat, NEW bytes \in Seq(Bytes)
    PROVE  WellSized(CopyIn(buf, offset, bytes)) /\ CopyIn(buf, offset, bytes).allocated = buf.allocated
<1> DEFINE n == Len(buf.bytes)
           copied == [k \in DOMAIN buf.bytes |->
                         IF k \in offset + 1..offset + Len(bytes) THEN bytes[k - offset] ELSE buf.bytes[k]]
<1>1. /\ buf \in Buffer /\ buf.allocated \in Nat /\ buf.bytes \in Seq(Bytes \cup {Junk})
      /\ n = buf.allocated /\ n \in Nat
    BY DEF WellSized, Buffer
<1>2. DOMAIN buf.bytes = 1..n /\ \A k \in 1..n : buf.bytes[k] \in Bytes \cup {Junk}
    BY <1>1, LenProperties
<1>3. Len(bytes) \in Nat /\ \A k \in 1..Len(bytes) : bytes[k] \in Bytes
    BY LenProperties
<1> HIDE DEF n
<1>4. \A k \in offset + 1..offset + Len(bytes) : bytes[k - offset] \in Bytes
    <2> SUFFICES ASSUME NEW k \in offset + 1..offset + Len(bytes)
                 PROVE  bytes[k - offset] \in Bytes
        OBVIOUS
    <2>1. k - offset \in 1..Len(bytes)
        BY <1>3
    <2> QED
        BY <1>3, <2>1
<1>5. copied \in [1..n -> Bytes \cup {Junk}]
    BY <1>2, <1>4
<1>6. copied \in Seq(Bytes \cup {Junk}) /\ DOMAIN copied = 1..n
    BY <1>1, <1>5, SeqDef
<1>7. Len(copied) = n
    BY <1>1, <1>6, LenProperties
<1>8. CopyIn(buf, offset, bytes) = [buf EXCEPT !.bytes = copied]
    BY DEF CopyIn
<1> HIDE DEF copied
<1> QED
    BY <1>1, <1>6, <1>7, <1>8 DEF WellSized, Buffer

-----------------------------------------------------------------------------
(* The invariant *)

BuffersSized == data \in [Files -> Buffer] /\ \A f \in Files : WellSized(data[f])

\* A private node has a buffer of the table, and a file fits it.
NodesFit ==
    \A i \in Inos : Attached(i) =>
        /\ BufferOf(i) \in Files
        /\ inode[i].mode = REG => inode[i].size <= data[BufferOf(i)].allocated

BufferInv == BuffersSized /\ NodesFit

LEMMA InitSized == Init => BufferInv
<1> SUFFICES ASSUME Init
             PROVE  BufferInv
    OBVIOUS
<1>1. data = [f \in Files |-> EmptyBuffer]
    BY DEF Init
<1>2. WellSized(EmptyBuffer)
    BY JunkIsBytes, RamfsAssumption DEF EmptyBuffer, WellSized, Buffer
<1>3. \A i \in Inos : ~Attached(i)
    BY DEF Init, Attached, Exists, NewInode
<1> QED
    BY <1>1, <1>2, <1>3 DEF BufferInv, BuffersSized, NodesFit, WellSized

\* What happens to a node when no byte is written: it stays, with its size or
\* none, or is new and empty.
Settled(i) ==
    \/ /\ Attached(i) /\ BufferOf(i)' = BufferOf(i) /\ inode'[i].mode = inode[i].mode
       /\ inode'[i].size \in {inode[i].size, 0}
    \/ BufferOf(i)' \in Files /\ (inode'[i].mode = REG => inode'[i].size = 0)

LEMMA SizedWhenSettled ==
    ASSUME BufferInv, data' = data, \A i \in Inos : Attached(i)' => Settled(i)
    PROVE  BufferInv'
<1>1. BuffersSized /\ BuffersSized' /\ NodesFit
    BY DEF BufferInv, BuffersSized, WellSized
<1>2. \A f \in Files : 0 <= data[f].allocated
    BY <1>1 DEF BuffersSized, Buffer
<1>3. NodesFit'
    <2> SUFFICES ASSUME NEW i \in Inos, Attached(i)'
                 PROVE  /\ BufferOf(i)' \in Files
                        /\ inode'[i].mode = REG => inode'[i].size <= data'[BufferOf(i)'].allocated
        BY DEF NodesFit
    <2>1. CASE /\ Attached(i) /\ BufferOf(i)' = BufferOf(i) /\ inode'[i].mode = inode[i].mode
               /\ inode'[i].size \in {inode[i].size, 0}
        BY <1>1, <1>2, <2>1 DEF NodesFit
    <2>2. CASE BufferOf(i)' \in Files /\ (inode'[i].mode = REG => inode'[i].size = 0)
        BY <1>2, <2>2
    <2> QED
        BY <2>1, <2>2 DEF Settled
<1> QED
    BY <1>1, <1>3 DEF BufferInv

LEMMA SizedWhenSame ==
    ASSUME BufferInv, data' = data, inode' = inode
    PROVE  BufferInv'
<1>1. \A i \in Inos : Attached(i)' => Settled(i)
    BY DEF Attached, Exists, Settled, BufferOf
<1> QED
    BY <1>1, SizedWhenSettled

-----------------------------------------------------------------------------
(* Answers *)

Answered == last'.res \in Codes

LEMMA LookupAnswers == \A d, name : RamfsLookup(d, name).res \in {OK, ENOENT, FAULT}
BY DEF RamfsLookup

LEMMA WalkAnswers ==
    ASSUME NEW path \in Seq(Names), path # <<>>
    PROVE  WalkParent(path).res \in Codes
<1> DEFINE m == Len(path) - 1
<1>1. m \in Nat
    BY WalkParentIsWalk
<1>2. PICK f : IsWalk(f, path, m) /\ WalkParent(path) = f[m]
    BY WalkParentIsWalk
<1> HIDE DEF m
<1> DEFINE Bad == {k \in 0..m : f[k].res \notin Codes}
<1>3. Bad = {}
    <2>1. SUFFICES ASSUME Bad # {}
                   PROVE  FALSE
        OBVIOUS
    <2>2. PICK k \in Bad : \A j \in Bad : k <= j
        <3>1. Bad \subseteq 0..m
            OBVIOUS
        <3> HIDE DEF Bad
        <3> QED
            BY <1>1, <2>1, <3>1, LeastNumber
    <2>3. f[k] = IF k = 0 THEN Start ELSE WalkStep(f[k - 1], path[k])
        BY <1>2, <2>2 DEF IsWalk
    <2>4. k # 0
        BY <2>2, <2>3 DEF Start, Codes
    <2>5. f[k - 1].res \in Codes
        <3>1. k - 1 \in 0..m /\ k - 1 \notin Bad
            BY <1>1, <2>2, <2>4
        <3> QED
            BY <3>1
    <2>6. WalkStep(f[k - 1], path[k]).res \in Codes
        <3>1. RamfsLookup(f[k - 1].ino, path[k]).res \in Codes
            BY LookupAnswers DEF Codes
        <3>2. EINVAL \in Codes
            BY DEF Codes
        <3> QED
            BY <2>5, <3>1, <3>2 DEF WalkStep
    <2> QED
        BY <2>2, <2>3, <2>4, <2>6
<1>4. m \in 0..m
    BY <1>1
<1> QED
    BY <1>2, <1>3, <1>4

LEMMA PutchildAnswers == \A d, name : RamfsPutchild(d, name) \in Codes
BY DEF RamfsPutchild, Codes

-----------------------------------------------------------------------------
(* The calls *)

LEMMA FailSized ==
    ASSUME BufferInv, data' = data, NEW op, NEW res \in Codes, Fail(op, res)
    PROVE  BufferInv' /\ Answered
<1>1. inode' = inode /\ last'.res = res
    BY DEF Fail, UNCHANGED_TREE, Call
<1> QED
    BY <1>1, SizedWhenSame DEF Answered

LEMMA MountSized ==
    ASSUME Types, RootIsDirectory, BufferInv, NEW path, Mount(path)
    PROVE  BufferInv' /\ Answered
<1>1. data' = data /\ Answered
    BY DEF Mount, Call, Answered, Codes
<1>2. CASE inode' = inode
    BY <1>1, <1>2, SizedWhenSame
<1>3. CASE inode' = [inode EXCEPT ![Root].private_field = RootPrivate]
    <2>1. Root \in Inos /\ inode[Root] \in Node /\ inode[Root].mode = DIR
        BY NodeFacts DEF RootIsDirectory, Exists
    <2> DEFINE node == [inode[Root] EXCEPT !.private_field = RootPrivate]
    <2>2. node.mode = DIR /\ node.private_field = RootPrivate
        BY <2>1 DEF Node
    <2>3. inode' = [inode EXCEPT ![Root] = node]
        BY <1>3
    <2> HIDE DEF node
    <2>4. inode'[Root] = node /\ \A i \in Inos : i # Root => inode'[i] = inode[i]
        BY <2>1, <2>3 DEF Types
    <2>5. RootPrivate.file = 0 /\ 0 \in Files /\ DIR # REG
        BY RamfsAssumption DEF RootPrivate, NewPrivate, DIR, REG
    <2>6. Settled(Root)
        BY <2>2, <2>4, <2>5 DEF Settled, BufferOf
    <2>7. \A i \in Inos : i # Root /\ Attached(i)' => Settled(i)
        BY <2>4 DEF Settled, Attached, Exists, BufferOf
    <2> QED
        BY <1>1, <2>6, <2>7, SizedWhenSettled
<1> QED
    BY <1>2, <1>3 DEF Mount

\* A new inode with a buffer of the table.
LEMMA AttachSized ==
    ASSUME Types, BufferInv, data' = data, NEW d \in Inos, Attached(d),
           NEW c \in Inos, inode[c] = NULL,
           NEW name \in Names, NEW mode \in {DIR, REG}, NEW file \in Files,
           inode' = Attach(d, c, NewInode(name, mode), NewPrivate(file, d))
    PROVE  BufferInv'
<1>1. file \in Nat
    BY RamfsAssumption
<1>2. /\ \A i \in Inos : Exists(i)' <=> Exists(i) \/ i = c
      /\ \A i \in Inos : Exists(i) =>
            /\ inode'[i].mode = inode[i].mode /\ inode'[i].size = inode[i].size
            /\ Attached(i)' <=> Attached(i)
            /\ Attached(i) => BufferOf(i)' = BufferOf(i)
      /\ inode'[c].size = 0 /\ BufferOf(c)' = file
    BY <1>1, AttachFacts
<1>3. ASSUME NEW i \in Inos, Attached(i)'
      PROVE  Settled(i)
    <2>1. CASE i = c
        BY <1>2, <2>1 DEF Settled
    <2>2. CASE i # c
        <3>1. Exists(i) /\ Attached(i)
            BY <1>2, <1>3, <2>2 DEF Attached
        <3> QED
            BY <1>2, <3>1 DEF Settled
    <2> QED
        BY <2>1, <2>2
<1> QED
    BY <1>3, SizedWhenSettled

LEMMA MkdirSized ==
    ASSUME IInv, BufferInv, NEW path \in Seq(Names), Mkdir(path)
    PROVE  BufferInv' /\ Answered
<1>1. data' = data /\ Types /\ {OK, EEXIST, FAULT, EINVAL} \subseteq Codes
    BY DEF Mkdir, IInv, Codes
<1>2. CASE Fail("mkdir", EEXIST) \/ Fail("mkdir", FAULT)
    BY <1>1, <1>2, FailSized
<1>3. CASE path # <<>> /\ Fail("mkdir", WalkParent(path).res)
    BY <1>1, <1>3, FailSized, WalkAnswers
<1>4. CASE path # <<>> /\ WalkParent(path).res = OK /\ MkdirIn(WalkParent(path).ino, path)
    <2> DEFINE d == WalkParent(path).ino
               leaf == LookupLeaf(d, path)
               c == vfs_inode_count
               name == LeafName(path)
               new == RamfsMkdir(d, c, name)
               res == IF inode[d].mode # DIR THEN EINVAL ELSE RamfsPutchild(d, name)
    <2>1. Exists(d) /\ d \in Inos /\ name \in Names
        BY <1>4, WalkParentExists, LeafFacts DEF Exists
    <2> HIDE DEF d, name
    <2>2. CASE /\ leaf.res \notin {OK, FAULT} /\ RoomForInode
               /\ inode' = new.inode /\ last' = Call("mkdir", c, new.res)
        <3>1. Attached(d)
            <4>1. leaf = RamfsLookup(d, path[Len(path)])
                BY <2>2 DEF LookupLeaf
            <4> QED
                BY <2>1, <2>2, <4>1, LookupFacts
        <3>2. /\ new.res = res
              /\ inode' = IF res # OK THEN inode ELSE Attach(d, c, NewInode(name, DIR), NewPrivate(0, d))
            BY <2>2 DEF RamfsMkdir
        <3>3. Answered
            BY <1>1, <2>2, <3>2, PutchildAnswers DEF Call, Answered
        <3> HIDE DEF res
        <3>4. CASE inode' = inode
            BY <1>1, <3>3, <3>4, SizedWhenSame
        <3>5. CASE inode' = Attach(d, c, NewInode(name, DIR), NewPrivate(0, d))
            <4>1. c \in Inos /\ inode[c] = NULL
                <5>1. c \in Inos /\ c \in Nat
                    BY <1>1, <2>2 DEF RoomForInode, Types
                <5> QED
                    BY <5>1 DEF IInv, Fresh
            <4>2. DIR \in {DIR, REG} /\ 0 \in Files
                BY RamfsAssumption
            <4> HIDE DEF c
            <4>3. BufferInv'
                BY <1>1, <2>1, <3>1, <3>5, <4>1, <4>2, AttachSized
            <4> QED
                BY <3>3, <4>3
        <3> QED
            BY <3>2, <3>4, <3>5
    <2> QED
        BY <1>2, <1>4, <2>2 DEF MkdirIn, d, name
<1> QED
    BY <1>2, <1>3, <1>4 DEF Mkdir

LEMMA OpenMissingSized ==
    ASSUME IInv, BufferInv, data' = data, NEW d \in Inos, Attached(d),
           NEW path \in Seq(Names), path # <<>>, NEW flags, OpenMissing(d, path, flags)
    PROVE  BufferInv' /\ Answered
<1> DEFINE c == vfs_inode_count
           name == LeafName(path)
           res == RamfsPutchild(d, name)
           new == RamfsCreate(d, c, name)
<1>1. Types /\ name \in Names /\ REG \in {DIR, REG} /\ ENOENT \in Codes
    BY LeafFacts DEF IInv, Codes
<1>2. CASE Fail("open", ENOENT)
    BY <1>1, <1>2, FailSized
<1>3. CASE RoomForInode /\ RoomForFile /\ inode' = new.inode /\ Opened(new.res, c, flags)
    <2>1. /\ new.res = res
          /\ inode' = IF res # OK THEN inode
                      ELSE Attach(d, c, NewInode(name, REG), NewPrivate(ramfs_file_count, d))
        BY <1>3 DEF RamfsCreate
    <2>2. Answered
        BY <1>3, <2>1, PutchildAnswers DEF Opened, Call, Answered
    <2>3. c \in Inos /\ inode[c] = NULL /\ ramfs_file_count \in Files
        <3>1. c \in Inos /\ c \in Nat /\ ramfs_file_count \in Files
            BY <1>1, <1>3 DEF RoomForInode, RoomForFile, Types
        <3> QED
            BY <3>1 DEF IInv, Fresh
    <2> HIDE DEF res, c, name
    <2>4. CASE inode' = inode
        BY <2>2, <2>4, SizedWhenSame
    <2>5. CASE inode' = Attach(d, c, NewInode(name, REG), NewPrivate(ramfs_file_count, d))
        BY <1>1, <2>2, <2>3, <2>5, AttachSized
    <2> QED
        BY <2>1, <2>4, <2>5
<1> QED
    BY <1>2, <1>3 DEF OpenMissing

LEMMA OpenExistingSized ==
    ASSUME IInv, BufferInv, data' = data, NEW d, NEW c \in Inos, Exists(c), NEW flags,
           OpenExisting(d, c, flags)
    PROVE  BufferInv' /\ Answered
<1>1. /\ \A i \in Inos \ {c} : inode'[i] = inode[i]
      /\ inode'[c].mode = inode[c].mode /\ inode'[c].size \in {inode[c].size, 0}
      /\ inode'[c].private_field = inode[c].private_field \/ inode'[c].private_field = NULL
    BY OpenExistingTree
<1>2. Attached(c)' => Settled(c)
    BY <1>1 DEF Settled, Attached, BufferOf
<1>3. \A i \in Inos : i # c /\ Attached(i)' => Settled(i)
    BY <1>1 DEF Settled, Attached, Exists, BufferOf
<1>4. BufferInv'
    BY <1>2, <1>3, SizedWhenSettled
<1>5. Answered
    <2>1. RamfsRecreate(d, c).res \in Codes
        BY PutchildAnswers DEF RamfsRecreate
    <2>2. RamfsOpen(c) \in Codes /\ EEXIST \in Codes
        BY DEF RamfsOpen, Codes
    <2> QED
        BY <2>1, <2>2 DEF OpenExisting, Opened, Fail, Call, Answered
<1> QED
    BY <1>4, <1>5

LEMMA OpenSized ==
    ASSUME IInv, BufferInv, NEW path \in Seq(Names), NEW flags, Open(path, flags)
    PROVE  BufferInv' /\ Answered
<1>1. data' = data /\ {OK, FAULT} \subseteq Codes /\ OK # FAULT
    BY DEF Open, Codes, OK, FAULT
<1>2. CASE Opened(OK, Root, flags) /\ inode' = inode
    <2>1. Answered
        BY <1>1, <1>2 DEF Opened, Call, Answered
    <2> QED
        BY <1>1, <1>2, <2>1, SizedWhenSame
<1>3. CASE path # <<>> /\ Fail("open", WalkParent(path).res)
    BY <1>1, <1>3, FailSized, WalkAnswers
<1>4. CASE path # <<>> /\ WalkParent(path).res = OK /\ OpenIn(WalkParent(path).ino, path, flags)
    <2> DEFINE d == WalkParent(path).ino
               leaf == LookupLeaf(d, path)
    <2>1. Exists(d) /\ d \in Inos /\ OpenIn(d, path, flags)
        BY <1>4, WalkParentExists DEF Exists
    <2> HIDE DEF d
    <2>2. leaf.res # FAULT => leaf = RamfsLookup(d, path[Len(path)])
        BY DEF LookupLeaf
    <2>3. CASE leaf.res = OK
        <3>1. OpenExisting(d, leaf.ino, flags)
            BY <1>1, <2>1, <2>3 DEF OpenIn
        <3>2. Exists(leaf.ino) /\ leaf.ino \in Inos
            BY <1>1, <2>1, <2>2, <2>3, LookupFacts DEF Exists
        <3> HIDE DEF leaf
        <3> QED
            BY <1>1, <3>1, <3>2, OpenExistingSized
    <2>4. CASE leaf.res = FAULT
        <3>1. Fail("open", FAULT)
            BY <1>1, <2>1, <2>4 DEF OpenIn
        <3> QED
            BY <1>1, <3>1, FailSized
    <2>5. CASE leaf.res \notin {OK, FAULT}
        <3>1. OpenMissing(d, path, flags)
            BY <2>1, <2>5 DEF OpenIn
        <3>2. Attached(d)
            BY <2>1, <2>2, <2>5, LookupFacts
        <3> QED
            BY <1>1, <1>4, <2>1, <3>1, <3>2, OpenMissingSized
    <2> QED
        BY <2>3, <2>4, <2>5
<1> QED
    BY <1>2, <1>3, <1>4 DEF Open

\* The buffer written grows to the end of the write, the others stay.
LEMMA WriteSized ==
    ASSUME IInv, BufferInv, NEW i \in fds, NEW offset \in Offsets, NEW bytes \in Payloads,
           Write(i, offset, bytes)
    PROVE  BufferInv' /\ Answered
<1> DEFINE stop == offset + Len(bytes)
           end == stop % SIZE_MOD
           size == SizeAfterWrite(i, end)
           f == BufferOf(i)
           grown == Grown(data[f], stop)
           written == CopyIn(grown, offset, bytes)
           node == [inode[i] EXCEPT !.size = size]
<1>1. /\ Types /\ i \in Inos /\ Exists(i) /\ inode[i] \in Node
      /\ inode \in [Inos -> Node \cup {NULL}]
    BY NodeFacts DEF IInv, DescriptorsExist, Exists, Types
<1>2. {OK, ERR} \subseteq Codes
    BY DEF Codes
<1>3. CASE data' = data /\ inode' = inode /\ last' = Call("write", i, ERR)
    <2>1. Answered
        BY <1>2, <1>3 DEF Answered, Call
    <2> QED
        BY <1>3, <2>1, SizedWhenSame
<1>4. CASE /\ IsFile(i)
           /\ data' = [data EXCEPT ![f] = written]
           /\ inode' = [inode EXCEPT ![i].size = size]
           /\ last' = [Call("write", i, OK) EXCEPT !.offset = offset, !.arg = bytes]
    <2>1. Answered
        BY <1>2, <1>4 DEF Answered, Call
    <2>2. /\ offset \in Nat /\ bytes \in Seq(Bytes) /\ Len(bytes) \in Nat /\ stop \in Nat
          /\ SIZE_MOD \in Nat \ {0}
        BY VfsAssumption, LenProperties
    <2>3. end \in Nat /\ end <= stop
        BY <2>2
    <2>4. /\ f \in Files /\ WellSized(data[f]) /\ data \in [Files -> Buffer]
          /\ inode[i].mode = REG /\ inode[i].size <= data[f].allocated
        BY <1>1, <1>4 DEF BufferInv, BuffersSized, NodesFit, IsFile, Attached
    <2> HIDE DEF stop, f
    <2>5. WellSized(grown) /\ grown.allocated >= data[f].allocated /\ grown.allocated >= stop
        BY <2>2, <2>4, GrownIsSized
    <2> HIDE DEF grown
    <2>6. WellSized(written) /\ written.allocated = grown.allocated
        BY <2>2, <2>5, CopyInIsSized
    <2> HIDE DEF written, end
    <2>7. /\ inode[i].size \in Nat /\ data[f].allocated \in Nat /\ grown.allocated \in Nat
          /\ written.allocated \in Nat
        BY <1>1, <2>4, <2>5, <2>6 DEF Node, WellSized, Buffer
    <2>8. size \in Nat /\ size <= written.allocated
        <3>1. size = end \/ size = inode[i].size
            BY DEF SizeAfterWrite
        <3> HIDE DEF size
        <3> QED
            BY <2>2, <2>3, <2>4, <2>5, <2>6, <2>7, <3>1
    <2> HIDE DEF size
    <2>9. /\ node.mode = inode[i].mode /\ node.private_field = inode[i].private_field
          /\ node.size = size
        BY <1>1 DEF Node
    <2>10. inode' = [inode EXCEPT ![i] = node]
        BY <1>4
    <2> HIDE DEF node
    <2>11. inode'[i] = node /\ \A j \in Inos : j # i => inode'[j] = inode[j]
        BY <1>1, <2>10
    <2>12. data' \in [Files -> Buffer] /\ data'[f] = written /\ \A g \in Files : g # f => data'[g] = data[g]
        BY <1>4, <2>4, <2>6 DEF WellSized
    <2>13. BuffersSized'
        <3>1. \A g \in Files : WellSized(data'[g])
            BY <2>6, <2>12 DEF BufferInv, BuffersSized
        <3> QED
            BY <2>12, <3>1 DEF BuffersSized, WellSized
    <2>14. \A g \in Files : data[g].allocated \in Nat /\ data'[g].allocated \in Nat
                            /\ data[g].allocated <= data'[g].allocated
        <3> SUFFICES ASSUME NEW g \in Files
                     PROVE  data[g].allocated \in Nat /\ data'[g].allocated \in Nat
                            /\ data[g].allocated <= data'[g].allocated
            OBVIOUS
        <3>1. data[g].allocated \in Nat
            BY <2>4 DEF Buffer
        <3>2. CASE g = f
            BY <2>5, <2>6, <2>7, <2>12, <3>2
        <3>3. CASE g # f
            BY <2>12, <3>1, <3>3
        <3> QED
            BY <3>1, <3>2, <3>3
    <2>15. NodesFit'
        <3> SUFFICES ASSUME NEW j \in Inos, Attached(j)'
                     PROVE  /\ BufferOf(j)' \in Files
                            /\ inode'[j].mode = REG => inode'[j].size <= data'[BufferOf(j)'].allocated
            BY DEF NodesFit
        <3>1. CASE j = i
            <4>1. BufferOf(j)' = f
                BY <2>9, <2>11, <3>1 DEF BufferOf, f
            <4> QED
                BY <2>4, <2>8, <2>9, <2>11, <2>12, <3>1, <4>1
        <3>2. CASE j # i
            <4>1. inode'[j] = inode[j] /\ Attached(j) /\ BufferOf(j)' = BufferOf(j)
                BY <2>11, <3>2 DEF Attached, Exists, BufferOf
            <4>2. /\ BufferOf(j) \in Files
                  /\ inode[j].mode = REG => inode[j].size <= data[BufferOf(j)].allocated
                BY <4>1 DEF BufferInv, NodesFit
            <4>3. inode[j].size \in Nat
                BY <1>1, <4>1, NodeFacts DEF Attached, Node
            <4>4. data[BufferOf(j)].allocated <= data'[BufferOf(j)].allocated
                  /\ data[BufferOf(j)].allocated \in Nat /\ data'[BufferOf(j)].allocated \in Nat
                BY <2>14, <4>2
            <4>5. inode[j].mode = REG => inode[j].size <= data'[BufferOf(j)].allocated
                BY <4>2, <4>3, <4>4
            <4> QED
                BY <4>1, <4>2, <4>5
        <3> QED
            BY <3>1, <3>2
    <2> QED
        BY <2>1, <2>13, <2>15 DEF BufferInv
<1> QED
    BY <1>3, <1>4 DEF Write, RamfsWriteBuffer

LEMMA StepSized == IInv /\ BufferInv /\ last.res \in Codes /\ [Next]_vars => BufferInv' /\ Answered
<1> SUFFICES ASSUME IInv, BufferInv, last.res \in Codes, [Next]_vars
             PROVE  BufferInv' /\ Answered
    OBVIOUS
<1>1. Paths \subseteq Seq(Names) /\ Types /\ RootIsDirectory
    BY VfsAssumption DEF IInv
<1>2. {OK, ERR, EINVAL} \subseteq Codes
    BY DEF Codes
<1>3. ASSUME NEW path \in Paths, Mount(path)
      PROVE  BufferInv' /\ Answered
    BY <1>1, <1>3, MountSized
<1>4. ASSUME NEW path \in Paths, Mkdir(path)
      PROVE  BufferInv' /\ Answered
    BY <1>1, <1>4, MkdirSized
<1>5. ASSUME NEW path \in Paths, NEW flags \in OpenFlags, Open(path, flags)
      PROVE  BufferInv' /\ Answered
    BY <1>1, <1>5, OpenSized
<1>6. ASSUME NEW i \in fds, NEW offset \in Offsets, NEW bytes \in Payloads, Write(i, offset, bytes)
      PROVE  BufferInv' /\ Answered
    BY <1>6, WriteSized
<1>7. ASSUME UNCHANGED <<inode, data>>, last'.res \in {OK, ERR, EINVAL} \/ last' = last
      PROVE  BufferInv' /\ Answered
    BY <1>2, <1>7, SizedWhenSame DEF Answered
<1>8. ASSUME NEW i \in fds, NEW offset \in Offsets, NEW limit \in Limits, Read(i, offset, limit)
      PROVE  BufferInv' /\ Answered
    <2>1. last'.res \in {OK, ERR}
        BY <1>8 DEF Read, ReadBytes, Call
    <2> QED
        BY <1>7, <1>8, <2>1 DEF Read
<1>9. ASSUME NEW i \in fds, Close(i) \/ StartListing(i)
      PROVE  BufferInv' /\ Answered
    <2>1. last'.res \in {OK, EINVAL} \/ last' = last
        BY <1>9 DEF Close, StartListing, Call
    <2> QED
        BY <1>7, <1>9, <2>1 DEF Close, StartListing
<1>10. ASSUME NEW size \in BufferSizes, Readdir(size)
       PROVE  BufferInv' /\ Answered
    <2>1. last'.res \in {OK, ERR}
        BY <1>10 DEF Readdir, Call
    <2> QED
        BY <1>7, <1>10, <2>1 DEF Readdir
<1>11. CASE UNCHANGED vars
    BY <1>7, <1>11 DEF vars
<1> QED
    BY <1>3, <1>4, <1>5, <1>6, <1>8, <1>9, <1>10, <1>11 DEF Next

-----------------------------------------------------------------------------
(* What holds of the buffers *)

\* Every buffer is as long as it says, and every node has one that its size
\* fits; every call answers with a code of the system or faults.
THEOREM BuffersInvariant == Spec => [](IInv /\ BufferInv /\ last.res \in Codes)
<1>1. Init => IInv /\ BufferInv /\ last.res \in Codes
    <2>1. Init => last.res \in Codes
        BY DEF Init, Call, Codes
    <2> QED
        BY <2>1, InitEstablishes, InitSized
<1>2. IInv /\ BufferInv /\ last.res \in Codes /\ [Next]_vars => (IInv /\ BufferInv /\ last.res \in Codes)'
    BY StepKeeps, StepSized DEF Answered
<1> QED
    BY <1>1, <1>2, PTL DEF Spec

\* The bytes a file claims lie inside its buffer, after any sequence of writes,
\* truncations and opens: the doublings of kbuf_grow() always suffice.
THEOREM SizesFitBuffers == Spec => []SizeFitsBuffer
<1>1. IInv /\ BufferInv => SizeFitsBuffer
    BY DEF BufferInv, NodesFit, SizeFitsBuffer, IsFile, Attached
<1> QED
    BY <1>1, BuffersInvariant, PTL

\* Every variable keeps its type.
THEOREM TypeCorrect == Spec => []TypeOK
<1>1. ASSUME IInv, BufferInv, last.res \in Codes
      PROVE  TypeOK
    <2>1. Types /\ \A f \in Files : Len(data[f].bytes) = data[f].allocated
        BY <1>1 DEF IInv, BufferInv, BuffersSized, WellSized
    <2>2. fds \subseteq Inos
        BY <1>1 DEF IInv, DescriptorsExist, Exists
    <2>3. ASSUME NEW i \in Inos, inode[i] # NULL
          PROVE  /\ inode[i].name \in Names \cup {NULL}
                 /\ inode[i].mode \in {DIR, REG}
                 /\ inode[i].size \in Nat
                 /\ inode[i].private_field # NULL =>
                       /\ inode[i].private_field.file \in Files
                       /\ inode[i].private_field.parent \in Inos \cup {NULL}
                       /\ Range(inode[i].private_field.children) \subseteq Inos
        <3>1. inode[i] \in Node
            BY <2>1, <2>3, NodeFacts DEF Exists
        <3>2. ASSUME inode[i].private_field # NULL
              PROVE  /\ inode[i].private_field.file \in Files
                     /\ inode[i].private_field.parent \in Inos \cup {NULL}
                     /\ Range(inode[i].private_field.children) \subseteq Inos
            <4>1. Attached(i)
                BY <2>3, <3>2 DEF Attached, Exists
            <4>2. inode[i].private_field \in Private /\ \A k \in DOMAIN Children(i) : Children(i)[k] \in Inos
                BY <2>1, <4>1, NodeFacts
            <4>3. inode[i].private_field.file \in Files
                BY <1>1, <4>1 DEF BufferInv, NodesFit, BufferOf
            <4> QED
                BY <4>2, <4>3 DEF Private, Range, Children
        <3> QED
            BY <3>1, <3>2 DEF Node
    <2> QED
        BY <1>1, <2>1, <2>2, <2>3 DEF TypeOK, Types
<1> QED
    BY <1>1, BuffersInvariant, PTL

-----------------------------------------------------------------------------
(* Paths: the recursive function PathOf is defined by exists, for a parent   *)
(* is older than its child                                                   *)

Up(i) == inode[i].private_field.parent

Grounded(i) == i = Root \/ ~Attached(i)

WellRooted == \A i \in Inos : ~Grounded(i) => Up(i) \in Inos /\ Up(i) < i

LEMMA TreeIsRooted == IInv /\ TreeInv => WellRooted
<1> SUFFICES ASSUME IInv, TreeInv, NEW i \in Inos, ~Grounded(i)
             PROVE  Up(i) \in Inos /\ Up(i) < i
    BY DEF WellRooted
<1>1. Up(i) \in Inos /\ Lists(Up(i), i)
    BY DEF TreeInv, AllLinked, Grounded, Attached, Up
<1>2. PICK k \in DOMAIN Children(Up(i)) : Attached(Up(i)) /\ Children(Up(i))[k] = i
    BY <1>1 DEF Lists
<1>3. i \in Range(Children(Up(i)))
    BY <1>2 DEF Range
<1>4. i > Up(i)
    BY <1>1, <1>2, <1>3 DEF IInv, ParentsAgree
<1>5. i \in Nat /\ Up(i) \in Nat
    BY <1>1, RamfsAssumption
<1> QED
    BY <1>1, <1>4, <1>5

Upto(n) == {k \in Inos : k <= n} \cup {NULL}

PathStep(f, i) == IF Grounded(i) THEN <<>> ELSE Append(f[Up(i)], inode[i].name)

IsNaming(f, n) == f = [i \in Upto(n) |-> PathStep(f, i)]

LEMMA NullIsGrounded == Grounded(NULL)
BY RamfsAssumption DEF Grounded, Attached, Exists

LEMMA UptoParent ==
    ASSUME WellRooted, NEW n \in Nat, NEW i \in Upto(n), ~Grounded(i)
    PROVE  /\ i \in Inos /\ Up(i) \in Upto(n)
           /\ \A m \in Nat : i <= m + 1 => Up(i) \in Upto(m)
<1>1. i \in Inos /\ i <= n
    BY NullIsGrounded DEF Upto
<1>2. Up(i) \in Inos /\ Up(i) < i
    BY <1>1 DEF WellRooted
<1>3. i \in Nat /\ Up(i) \in Nat
    BY <1>1, <1>2, RamfsAssumption
<1> QED
    BY <1>1, <1>2, <1>3 DEF Upto

LEMMA NamingExists ==
    ASSUME WellRooted, NEW n \in Nat
    PROVE  \E f : IsNaming(f, n)
<1> DEFINE Bad == {k \in 0..n : ~\E f : IsNaming(f, k)}
<1>1. SUFFICES ASSUME Bad # {}
               PROVE  FALSE
    OBVIOUS
<1>2. PICK k \in Bad : \A j \in Bad : k <= j
    <2>1. Bad \subseteq 0..n
        OBVIOUS
    <2> HIDE DEF Bad
    <2> QED
        BY <1>1, <2>1, LeastNumber
<1>3. k \in 0..n /\ ~\E f : IsNaming(f, k)
    BY <1>2
<1>4. CASE k = 0
    <2>1. Upto(k) = {NULL}
        <3>1. \A i \in Inos : ~(i <= 0)
            BY RamfsAssumption
        <3> QED
            BY <1>4, <3>1 DEF Upto
    <2> DEFINE f == [i \in {NULL} |-> <<>>]
    <2>2. f = [i \in Upto(k) |-> PathStep(f, i)]
        BY <2>1, NullIsGrounded DEF PathStep
    <2> QED
        BY <1>3, <2>2 DEF IsNaming
<1>5. CASE k > 0
    <2>1. k - 1 \in 0..n /\ k - 1 \in Nat /\ k - 1 \notin Bad
        BY <1>2, <1>3, <1>5
    <2>2. PICK g : IsNaming(g, k - 1)
        BY <2>1
    <2>3. \A i \in Upto(k - 1) : g[i] = PathStep(g, i)
        BY <2>2 DEF IsNaming
    <2> DEFINE f == [i \in Upto(k) |-> PathStep(g, i)]
    <2>4. \A i \in Upto(k - 1) : i \in Upto(k) /\ f[i] = g[i]
        <3>1. \A i \in Upto(k - 1) : i \in Upto(k)
            BY <1>3, RamfsAssumption DEF Upto
        <3> QED
            BY <2>3, <3>1
    <2>5. \A i \in Upto(k) : PathStep(g, i) = PathStep(f, i)
        <3> SUFFICES ASSUME NEW i \in Upto(k), ~Grounded(i)
                     PROVE  f[Up(i)] = g[Up(i)]
            BY DEF PathStep
        <3>1. i \in Inos /\ i <= k /\ i \in Nat
            BY UptoParent, NullIsGrounded, RamfsAssumption DEF Upto
        <3>2. k \in Nat /\ i <= (k - 1) + 1
            BY <1>3, <3>1
        <3>3. Up(i) \in Upto(k - 1)
            BY <2>1, <3>2, UptoParent
        <3> QED
            BY <2>4, <3>3
    <2>6. f = [i \in Upto(k) |-> PathStep(f, i)]
        BY <2>5
    <2> QED
        BY <1>3, <2>6 DEF IsNaming
<1> QED
    BY <1>3, <1>4, <1>5

LEMMA NamingsAgree ==
    ASSUME WellRooted, NEW m \in Nat, NEW n \in Nat, m <= n,
           NEW f, IsNaming(f, m), NEW g, IsNaming(g, n)
    PROVE  \A i \in Upto(m) : f[i] = g[i]
<1> DEFINE Bad == {i \in 0..m : i \in Inos /\ f[i] # g[i]}
<1>1. /\ \A i \in Upto(m) : f[i] = PathStep(f, i)
      /\ \A i \in Upto(n) : g[i] = PathStep(g, i)
    BY DEF IsNaming
<1>2. \A i \in Upto(m) : i \in Upto(n)
    BY RamfsAssumption DEF Upto
<1>3. ASSUME NEW i \in Upto(m), Grounded(i)
      PROVE  f[i] = g[i]
    BY <1>1, <1>2, <1>3 DEF PathStep
<1>4. Bad = {}
    <2>1. SUFFICES ASSUME Bad # {}
                   PROVE  FALSE
        OBVIOUS
    <2>2. PICK i \in Bad : \A j \in Bad : i <= j
        <3>1. Bad \subseteq 0..m
            OBVIOUS
        <3> HIDE DEF Bad
        <3> QED
            BY <2>1, <3>1, LeastNumber
    <2>3. i \in Inos /\ i \in 0..m /\ f[i] # g[i]
        BY <2>2
    <2>4. i \in Upto(m)
        BY <2>3 DEF Upto
    <2>5. ~Grounded(i)
        BY <1>3, <2>3, <2>4
    <2>6. Up(i) \in Inos /\ Up(i) < i /\ Up(i) \in Nat /\ i \in Nat
        BY <2>3, <2>5, RamfsAssumption DEF WellRooted
    <2>7. Up(i) \in 0..m /\ Up(i) \notin Bad
        BY <2>2, <2>3, <2>6
    <2>8. f[Up(i)] = g[Up(i)]
        BY <2>6, <2>7
    <2> QED
        BY <1>1, <1>2, <2>3, <2>4, <2>8 DEF PathStep
<1>5. \A i \in Inos : i <= m => i \in 0..m
    BY RamfsAssumption
<1> QED
    BY <1>3, <1>4, <1>5, NullIsGrounded DEF Upto

PathRule ==
    \A i \in Inos \cup {NULL} :
        PathOf(i) = IF Grounded(i) THEN <<>> ELSE Append(PathOf(Up(i)), inode[i].name)

LEMMA PathsFollowParents == WellRooted => PathRule
<1> SUFFICES ASSUME WellRooted
             PROVE  PathRule
    OBVIOUS
<1> DEFINE All == Inos \cup {NULL}
           Chain(n) == CHOOSE f : IsNaming(f, n)
           paths == [i \in All |-> IF i = NULL THEN <<>> ELSE Chain(i)[i]]
<1>1. \A n \in Inos : n \in Nat /\ n \in Upto(n) /\ NULL # n
    BY RamfsAssumption DEF Upto
<1>2. \A n \in Inos : IsNaming(Chain(n), n)
    BY <1>1, NamingExists
<1> HIDE DEF Chain
<1>3. paths = [i \in All |-> PathStep(paths, i)]
    <2> SUFFICES ASSUME NEW i \in All
                 PROVE  paths[i] = PathStep(paths, i)
        OBVIOUS
    <2>1. CASE i = NULL
        BY <2>1, NullIsGrounded DEF PathStep
    <2>2. CASE i \in Inos
        <3>1. Chain(i)[i] = PathStep(Chain(i), i)
            <4>1. PICK f : f = Chain(i)
                OBVIOUS
            <4>2. f = [j \in Upto(i) |-> PathStep(f, j)]
                BY <1>2, <2>2, <4>1 DEF IsNaming
            <4> QED
                BY <1>1, <2>2, <4>1, <4>2
        <3>2. paths[i] = PathStep(Chain(i), i)
            BY <1>1, <2>2, <3>1
        <3>3. ASSUME ~Grounded(i)
              PROVE  paths[Up(i)] = Chain(i)[Up(i)]
            <4>1. Up(i) \in Inos /\ Up(i) < i /\ Up(i) \in Nat /\ i \in Nat
                BY <2>2, <3>3, RamfsAssumption DEF WellRooted
            <4>2. PICK u \in Nat : u = Up(i)
                BY <4>1
            <4>3. PICK n \in Nat : n = i
                BY <4>1
            <4>4. u <= n /\ u \in Upto(u)
                BY <1>1, <4>1, <4>2, <4>3
            <4>5. PICK f, g : f = Chain(u) /\ g = Chain(n) /\ IsNaming(f, u) /\ IsNaming(g, n)
                BY <1>2, <2>2, <4>1, <4>2, <4>3
            <4>6. f[u] = g[u]
                BY <4>4, <4>5, NamingsAgree
            <4>7. paths[u] = Chain(u)[u]
                BY <1>1, <4>1, <4>2
            <4> QED
                BY <4>2, <4>3, <4>5, <4>6, <4>7
        <3> HIDE DEF paths
        <3> QED
            BY <3>2, <3>3 DEF PathStep
    <2> QED
        BY <2>1, <2>2
<1> DEFINE step(g) == [j \in Inos \cup {NULL} |->
                IF j = Root \/ ~Attached(j) THEN <<>>
                ELSE Append(g[inode[j].private_field.parent], inode[j].name)]
           up == CHOOSE g : g = step(g)
<1>4. paths = step(paths)
    BY <1>3 DEF PathStep, Grounded, Up
<1> HIDE DEF paths
<1>5. up = step(up)
    BY <1>4
<1>6. \A i : PathOf(i) = up[i]
    BY DEF PathOf
<1> HIDE DEF up
<1> QED
    BY <1>5, <1>6 DEF PathRule, Grounded, Up

LEMMA OldestInode ==
    ASSUME NEW S \in SUBSET Inos, S # {}
    PROVE  \E i \in S : \A j \in S : i <= j
<1>1. S \subseteq Nat
    BY RamfsAssumption
<1>2. PICK n \in S : n \in Nat
    BY <1>1
<1> DEFINE T == {k \in S : k <= n}
<1>3. T \in SUBSET (0..n) /\ T # {}
    <2>1. n \in T
        BY <1>2
    <2>2. \A k \in T : k \in 0..n
        BY <1>1, <1>2
    <2> QED
        BY <2>1, <2>2
<1> HIDE DEF T
<1>4. PICK i \in T : \A j \in T : i <= j
    BY <1>2, <1>3, LeastNumber
<1>5. \A j \in S : i <= j
    BY <1>1, <1>2, <1>4 DEF T
<1> QED
    BY <1>4, <1>5 DEF T

LEMMA ParentFacts ==
    ASSUME IInv, TreeInv, NEW i \in Inos, Exists(i), i # Root
    PROVE  /\ ~Grounded(i) /\ Up(i) \in Inos /\ Up(i) < i /\ Exists(Up(i)) /\ Attached(Up(i))
           /\ \E k \in DOMAIN Children(Up(i)) : Children(Up(i))[k] = i
<1>1. ~Grounded(i) /\ Lists(Up(i), i)
    BY DEF TreeInv, AllLinked, Grounded, Up
<1>2. Up(i) \in Inos /\ Up(i) < i
    BY <1>1, TreeIsRooted DEF WellRooted
<1> QED
    BY <1>1, <1>2 DEF Lists, Attached

\* Every path is a sequence of names, and no two inodes have the same.
PathsAreNames == \A i \in Inos : Exists(i) => PathOf(i) \in Seq(Names)

PathsDiffer == \A i, j \in Inos : Exists(i) /\ Exists(j) /\ PathOf(i) = PathOf(j) => i = j

\* A path is that of the parent and a name.
ChildPaths ==
    \A i, parent \in Inos : Exists(i) /\ i # Root /\ parent = Up(i) =>
        PathOf(i) = Append(PathOf(parent), inode[i].name)

PathInv == PathOf(Root) = <<>> /\ PathOf(NULL) = <<>> /\ ChildPaths /\ PathsAreNames /\ PathsDiffer

\* The path of a child, in terms that stay put.
IsChildOf(path, parent, name) == path = Append(parent, name)

LEMMA ChildPath ==
    ASSUME IInv, TreeInv, PathRule, NEW i \in Inos, Exists(i), i # Root
    PROVE  IsChildOf(PathOf(i), PathOf(Up(i)), inode[i].name)
BY ParentFacts DEF PathRule, IsChildOf

LEMMA RootPath == PathRule => PathOf(Root) = <<>> /\ PathOf(NULL) = <<>>
BY NullIsGrounded, VfsAssumption DEF PathRule, Grounded, Root

LEMMA NamesOfTree == IInv /\ TreeInv /\ NamedInv /\ PathRule => PathsAreNames
<1> SUFFICES ASSUME IInv, TreeInv, NamedInv, PathRule
             PROVE  PathsAreNames
    OBVIOUS
<1> DEFINE Bad == {i \in Inos : Exists(i) /\ PathOf(i) \notin Seq(Names)}
<1>1. SUFFICES ASSUME Bad # {}
               PROVE  FALSE
    BY DEF PathsAreNames
<1>2. PICK i \in Bad : \A j \in Bad : i <= j
    <2>1. Bad \in SUBSET Inos
        OBVIOUS
    <2> HIDE DEF Bad
    <2> QED
        BY <1>1, <2>1, OldestInode
<1>3. i \in Inos /\ Exists(i) /\ PathOf(i) \notin Seq(Names)
    BY <1>2
<1>4. i # Root
    <2>1. <<>> \in Seq(Names)
        BY EmptySeq
    <2> QED
        BY <1>3, <2>1, RootPath
<1>5. Up(i) \in Inos /\ Up(i) < i /\ Exists(Up(i)) /\ i \in Nat /\ Up(i) \in Nat
    BY <1>3, <1>4, ParentFacts, RamfsAssumption
<1>6. PathOf(Up(i)) \in Seq(Names)
    <2>1. ~(i <= Up(i))
        BY <1>5
    <2> QED
        BY <1>2, <1>5, <2>1
<1>7. inode[i].name \in Names
    BY <1>3, <1>4 DEF NamedInv
<1>8. PathOf(i) = Append(PathOf(Up(i)), inode[i].name)
    BY <1>3, <1>4, ChildPath DEF IsChildOf
<1> QED
    BY <1>3, <1>6, <1>7, <1>8, AppendProperties

\* Two children of one name in one directory are one.
LEMMA SiblingsDiffer ==
    ASSUME IInv, TreeInv, NEW i \in Inos, NEW j \in Inos, Exists(i), Exists(j), i # Root, j # Root,
           Up(i) = Up(j), inode[i].name = inode[j].name
    PROVE  i = j
<1>1. PICK d \in Inos : d = Up(i) /\ Attached(d)
    BY ParentFacts
<1>2. PICK k \in DOMAIN Children(d) : Children(d)[k] = i
    BY <1>1, ParentFacts
<1>3. PICK l \in DOMAIN Children(d) : Children(d)[l] = j
    BY <1>1, ParentFacts
<1>4. k = l
    BY <1>1, <1>2, <1>3 DEF IInv, NamesIdentify
<1> QED
    BY <1>2, <1>3, <1>4

LEMMA SameAppended ==
    ASSUME NEW s \in Seq(Names), NEW t \in Seq(Names), NEW x \in Names, NEW y \in Names,
           Append(s, x) = Append(t, y)
    PROVE  s = t /\ x = y
<1>1. /\ Len(s) \in Nat /\ Len(t) \in Nat
      /\ Len(Append(s, x)) = Len(s) + 1 /\ Len(Append(t, y)) = Len(t) + 1
    BY AppendProperties, LenProperties
<1>2. Len(s) = Len(t)
    BY <1>1
<1>3. x = Append(s, x)[Len(s) + 1] /\ y = Append(t, y)[Len(t) + 1]
    BY AppendProperties
<1>4. \A k \in 1..Len(s) : s[k] = Append(s, x)[k]
    BY AppendProperties
<1>5. \A k \in 1..Len(t) : t[k] = Append(t, y)[k]
    BY AppendProperties
<1>6. s = t
    BY <1>2, <1>4, <1>5, SeqEqual
<1> QED
    BY <1>2, <1>3, <1>6

LEMMA PathsAreDifferent == IInv /\ TreeInv /\ NamedInv /\ PathRule => PathsDiffer
<1> SUFFICES ASSUME IInv, TreeInv, NamedInv, PathRule
             PROVE  PathsDiffer
    OBVIOUS
<1> DEFINE Bad == {i \in Inos : Exists(i) /\ \E j \in Inos : Exists(j) /\ PathOf(i) = PathOf(j) /\ i # j}
<1>1. SUFFICES ASSUME Bad # {}
               PROVE  FALSE
    BY DEF PathsDiffer
<1>2. PICK i \in Bad : \A j \in Bad : i <= j
    <2>1. Bad \in SUBSET Inos
        OBVIOUS
    <2> HIDE DEF Bad
    <2> QED
        BY <1>1, <2>1, OldestInode
<1>3. i \in Inos /\ Exists(i)
    BY <1>2
<1>4. PICK j \in Inos : Exists(j) /\ PathOf(i) = PathOf(j) /\ i # j
    BY <1>2
<1>5. PathsAreNames
    BY NamesOfTree
<1>6. \A m \in Inos : Exists(m) /\ m # Root =>
          /\ PathOf(m) = Append(PathOf(Up(m)), inode[m].name)
          /\ PathOf(m) # <<>>
          /\ Up(m) \in Inos /\ Exists(Up(m)) /\ PathOf(Up(m)) \in Seq(Names) /\ inode[m].name \in Names
    <2> SUFFICES ASSUME NEW m \in Inos, Exists(m), m # Root
                 PROVE  /\ PathOf(m) = Append(PathOf(Up(m)), inode[m].name)
                        /\ PathOf(m) # <<>>
                        /\ Up(m) \in Inos /\ Exists(Up(m)) /\ PathOf(Up(m)) \in Seq(Names) /\ inode[m].name \in Names
        OBVIOUS
    <2>1. PathOf(m) = Append(PathOf(Up(m)), inode[m].name)
        BY ChildPath DEF IsChildOf
    <2>2. Up(m) \in Inos /\ Exists(Up(m))
        BY ParentFacts
    <2>3. PathOf(Up(m)) \in Seq(Names) /\ inode[m].name \in Names
        BY <1>5, <2>2 DEF PathsAreNames, NamedInv
    <2>4. PathOf(m) # <<>>
        BY <2>1, <2>3, AppendProperties
    <2> QED
        BY <2>1, <2>2, <2>3, <2>4
<1>7. i # Root /\ j # Root
    BY <1>3, <1>4, <1>6, RootPath
<1>8. PathOf(Up(i)) = PathOf(Up(j)) /\ inode[i].name = inode[j].name
    <2>1. PICK s \in Seq(Names), t \in Seq(Names), x \in Names, y \in Names :
              s = PathOf(Up(i)) /\ t = PathOf(Up(j)) /\ x = inode[i].name /\ y = inode[j].name
        BY <1>3, <1>4, <1>6, <1>7
    <2>2. Append(s, x) = Append(t, y)
        BY <1>3, <1>4, <1>6, <1>7, <2>1
    <2> QED
        BY <2>1, <2>2, SameAppended
<1>9. Up(i) = Up(j)
    <2>1. Up(i) < i /\ i \in Nat /\ Up(i) \in Nat
        BY <1>3, <1>6, <1>7, ParentFacts, RamfsAssumption
    <2>2. ~(i <= Up(i))
        BY <2>1
    <2>3. Up(i) \notin Bad
        BY <1>2, <2>2
    <2> QED
        BY <1>3, <1>4, <1>6, <1>7, <1>8, <2>3
<1> QED
    BY <1>3, <1>4, <1>7, <1>8, <1>9, SiblingsDiffer

LEMMA TreeHasPaths == IInv /\ TreeInv /\ NamedInv => PathInv
<1> SUFFICES ASSUME IInv, TreeInv, NamedInv
             PROVE  PathInv
    OBVIOUS
<1>1. PathRule
    BY TreeIsRooted, PathsFollowParents
<1>2. ChildPaths
    BY <1>1, ChildPath DEF ChildPaths, IsChildOf
<1> QED
    BY <1>1, <1>2, RootPath, NamesOfTree, PathsAreDifferent DEF PathInv

-----------------------------------------------------------------------------
(* Paths in the next state *)

LEMMA NamedStays ==
    ASSUME IInv, NamedInv, TreeStep
    PROVE  NamedInv'
<1>1. Types /\ RootIsDirectory /\ Root \in Inos
    BY VfsAssumption DEF IInv, Root
<1>2. CASE Keeps
    BY <1>2 DEF NamedInv, Keeps
<1>3. CASE Attaches
    <2>1. PICK d, c \in Inos, name \in Names, mode \in {DIR, REG}, file \in Nat :
              /\ Attached(d) /\ inode[c] = NULL
              /\ inode' = Attach(d, c, NewInode(name, mode), NewPrivate(file, d))
        BY <1>3 DEF Attaches
    <2>2. /\ \A i \in Inos : Exists(i)' <=> Exists(i) \/ i = c
          /\ \A i \in Inos : Exists(i) => inode'[i].name = inode[i].name
          /\ inode'[c].name = name
        BY <1>1, <2>1, AttachFacts
    <2> QED
        BY <2>2 DEF NamedInv
<1>4. CASE MountsRoot
    <2>1. \A i \in Inos : i # Root => inode'[i] = inode[i]
        BY <1>1, <1>4 DEF MountsRoot, Types
    <2> QED
        BY <2>1 DEF NamedInv, Exists
<1> QED
    BY <1>2, <1>3, <1>4 DEF TreeStep

\* What there is stays where it is.
Stays(i) ==
    /\ Exists(i)' /\ inode'[i].mode = inode[i].mode
    /\ i # Root => Up(i)' = Up(i) /\ inode'[i].name = inode[i].name

LEMMA TreeStays ==
    ASSUME IInv, TreeInv, IInv', TreeInv', TreeStep
    PROVE  \A i \in Inos : Exists(i) => Stays(i)
<1> SUFFICES ASSUME NEW i \in Inos, Exists(i)
             PROVE  Stays(i)
    OBVIOUS
<1>1. Types /\ RootIsDirectory /\ Root \in Inos
    BY VfsAssumption DEF IInv, Root
<1>2. CASE Keeps
    <2>1. Exists(i)' /\ inode'[i].mode = inode[i].mode /\ inode'[i].name = inode[i].name
        BY <1>2 DEF Keeps
    <2>2. i # Root => inode'[i].private_field # NULL
        BY <2>1 DEF TreeInv, AllLinked, Attached
    <2>3. i # Root => inode'[i].private_field = inode[i].private_field
        BY <1>2, <2>2 DEF Keeps
    <2> QED
        BY <2>1, <2>3 DEF Stays, Up
<1>3. CASE Attaches
    <2>1. PICK d, c \in Inos, name \in Names, mode \in {DIR, REG}, file \in Nat :
              /\ Attached(d) /\ inode[c] = NULL
              /\ inode' = Attach(d, c, NewInode(name, mode), NewPrivate(file, d))
        BY <1>3 DEF Attaches
    <2>2. /\ \A j \in Inos : Exists(j)' <=> Exists(j) \/ j = c
          /\ \A j \in Inos : Exists(j) =>
                /\ inode'[j].name = inode[j].name /\ inode'[j].mode = inode[j].mode
                /\ Attached(j) => inode'[j].private_field.parent = inode[j].private_field.parent
        BY <1>1, <2>1, AttachFacts
    <2>3. i # Root => Attached(i)
        BY DEF TreeInv, AllLinked
    <2> QED
        BY <2>2, <2>3 DEF Stays, Up
<1>4. CASE MountsRoot
    <2>1. inode' = [inode EXCEPT ![Root].private_field = RootPrivate] /\ inode[Root] \in Node
        BY <1>1, <1>4, NodeFacts DEF MountsRoot, RootIsDirectory
    <2>2. i # Root => inode'[i] = inode[i]
        BY <1>1, <2>1 DEF Types
    <2>3. inode'[Root].mode = inode[Root].mode /\ Exists(Root)'
        <3>1. inode'[Root] = [inode[Root] EXCEPT !.private_field = RootPrivate]
            BY <1>1, <2>1 DEF Types
        <3>2. inode'[Root].mode = inode[Root].mode
            BY <2>1, <3>1 DEF Node
        <3>3. Exists(Root)'
            BY DEF IInv, RootIsDirectory, Root
        <3> QED
            BY <3>2, <3>3
    <2> QED
        BY <2>2, <2>3 DEF Stays, Up, Exists
<1> QED
    BY <1>2, <1>3, <1>4 DEF TreeStep

\* All that a step needs.
StoreInv == IInv /\ TreeInv /\ NamedInv /\ BufferInv

LEMMA PathsStay ==
    ASSUME StoreInv, StoreInv', PathInv, PathInv', TreeStep
    PROVE  \A i \in Inos : Exists(i) => PathOf(i)' = PathOf(i)
<1> DEFINE Bad == {i \in Inos : Exists(i) /\ PathOf(i)' # PathOf(i)}
<1>1. SUFFICES ASSUME Bad # {}
               PROVE  FALSE
    OBVIOUS
<1>2. PICK i \in Bad : \A j \in Bad : i <= j
    <2>1. Bad \in SUBSET Inos
        OBVIOUS
    <2> HIDE DEF Bad
    <2> QED
        BY <1>1, <2>1, OldestInode
<1>3. i \in Inos /\ Exists(i) /\ PathOf(i)' # PathOf(i)
    BY <1>2
<1>4. i # Root
    BY <1>3 DEF PathInv, Root
<1>5. PICK u \in Inos : u = Up(i) /\ u < i /\ Exists(u)
    BY <1>3, <1>4, ParentFacts DEF StoreInv
<1>6. Stays(i)
    BY <1>3, TreeStays DEF StoreInv
<1>7. u \notin Bad
    <2>1. ~(i <= u)
        BY <1>3, <1>5, RamfsAssumption
    <2> QED
        BY <1>2, <2>1
<1>8. PathOf(u)' = PathOf(u)
    BY <1>5, <1>7
<1>9. PathOf(i) = Append(PathOf(u), inode[i].name)
    BY <1>3, <1>4, <1>5 DEF PathInv, ChildPaths
<1>10. PathOf(i)' = Append(PathOf(u)', inode'[i].name)
    BY <1>3, <1>4, <1>5, <1>6 DEF PathInv, ChildPaths, Stays
<1> QED
    BY <1>3, <1>4, <1>6, <1>8, <1>9, <1>10 DEF Stays

-----------------------------------------------------------------------------
(* Directories and contents *)

RegularFiles == \A i \in Inos : i \in StoredFiles <=> Exists(i) /\ inode[i].mode = REG

LEMMA FilesAreRegular == StoreInv => RegularFiles
<1> SUFFICES ASSUME StoreInv
             PROVE  RegularFiles
    OBVIOUS
<1>1. Exists(Root) /\ inode[Root].mode = DIR /\ DIR # REG
    BY DEF StoreInv, IInv, RootIsDirectory, DIR, REG
<1>2. \A i \in Inos : Exists(i) /\ i # Root => inode[i].private_field # NULL
    BY DEF StoreInv, TreeInv, AllLinked, Attached
<1> QED
    BY <1>1, <1>2 DEF RegularFiles, StoredFiles, IsFile

ContentRule ==
    /\ Content = [p \in DOMAIN Content |-> Content[p]]
    /\ DOMAIN Content = {PathOf(i) : i \in StoredFiles}
    /\ \A i \in StoredFiles : Content[PathOf(i)] = BytesOf(i)

LEMMA ContentFacts == PathInv => ContentRule
<1> SUFFICES ASSUME PathInv
             PROVE  ContentRule
    OBVIOUS
<1>1. Content = [p \in {PathOf(i) : i \in StoredFiles} |-> BytesOf(CHOOSE i \in StoredFiles : PathOf(i) = p)]
    BY DEF Content
<1>2. ASSUME NEW i \in StoredFiles
      PROVE  Content[PathOf(i)] = BytesOf(i)
    <2> DEFINE j == CHOOSE k \in StoredFiles : PathOf(k) = PathOf(i)
    <2>1. j \in StoredFiles /\ PathOf(j) = PathOf(i)
        OBVIOUS
    <2>2. Content[PathOf(i)] = BytesOf(j)
        BY <1>1, <1>2
    <2> HIDE DEF j
    <2>3. j = i
        BY <1>2, <2>1 DEF PathInv, PathsDiffer, StoredFiles
    <2> QED
        BY <2>2, <2>3
<1> HIDE DEF Content
<1> QED
    BY <1>1, <1>2 DEF ContentRule

LEMMA InvHasPaths == StoreInv => PathInv /\ ContentRule
BY TreeHasPaths, ContentFacts DEF StoreInv

\* What a step that makes no inode leaves: directories and the paths of files.
SameEntries ==
    /\ Dirs' = Dirs /\ StoredFiles' = StoredFiles /\ DOMAIN Content' = DOMAIN Content
    /\ \A i \in StoredFiles : PathOf(i)' = PathOf(i)
    /\ \A i \in StoredFiles : Content[PathOf(i)] = BytesOf(i) /\ Content'[PathOf(i)] = BytesOf(i)'

LEMMA NoNewEntry ==
    ASSUME StoreInv, StoreInv', TreeStep, \A i \in Inos : Exists(i)' => Exists(i)
    PROVE  SameEntries
<1>1. PathInv /\ ContentRule
    BY InvHasPaths
<1>2. PathInv' /\ ContentRule'
    BY InvHasPaths, PTL
<1>3. \A i \in Inos : Exists(i) => PathOf(i)' = PathOf(i) /\ Stays(i)
    BY <1>1, <1>2, PathsStay, TreeStays DEF StoreInv
<1>4. \A i \in Inos : (Exists(i)' <=> Exists(i)) /\ (Exists(i) => inode'[i].mode = inode[i].mode)
    BY <1>3 DEF Stays
<1>5. Dirs' = Dirs
    BY <1>3, <1>4 DEF Dirs
<1>6. StoredFiles' = StoredFiles
    <2>1. RegularFiles /\ RegularFiles'
        BY FilesAreRegular, PTL
    <2>2. /\ \A i \in Inos : i \in StoredFiles <=> Exists(i) /\ inode[i].mode = REG
          /\ \A i \in Inos : i \in StoredFiles' <=> Exists(i)' /\ inode'[i].mode = REG
        BY <2>1 DEF RegularFiles
    <2>3. StoredFiles \subseteq Inos /\ StoredFiles' \subseteq Inos
        BY DEF StoredFiles
    <2> QED
        BY <1>4, <2>2, <2>3
<1>7. \A i \in StoredFiles : PathOf(i)' = PathOf(i)
    BY <1>3 DEF StoredFiles
<1>8. DOMAIN Content' = DOMAIN Content
    BY <1>1, <1>2, <1>6, <1>7 DEF ContentRule
<1>9. \A i \in StoredFiles : Content[PathOf(i)] = BytesOf(i) /\ Content'[PathOf(i)] = BytesOf(i)'
    BY <1>1, <1>2, <1>6, <1>7 DEF ContentRule
<1> QED
    BY <1>5, <1>6, <1>7, <1>8, <1>9 DEF SameEntries

\* Functions by their values.
LEMMA SameContent ==
    ASSUME StoreInv, StoreInv', SameEntries, \A i \in StoredFiles : BytesOf(i)' = BytesOf(i)
    PROVE  Content' = Content
<1>1. ContentRule
    BY InvHasPaths
<1>2. ContentRule'
    BY InvHasPaths, PTL
<1>3. \A p \in DOMAIN Content : Content'[p] = Content[p]
    <2>1. \A p \in DOMAIN Content : \E i \in StoredFiles : p = PathOf(i)
        BY <1>1 DEF ContentRule
    <2> QED
        BY <2>1 DEF SameEntries
<1>4. Content' = [p \in DOMAIN Content |-> Content'[p]]
    BY <1>2 DEF ContentRule, SameEntries
<1>5. Content = [p \in DOMAIN Content |-> Content[p]]
    BY <1>1 DEF ContentRule
<1>6. [p \in DOMAIN Content |-> Content'[p]] = [p \in DOMAIN Content |-> Content[p]]
    BY <1>3
<1> QED
    BY <1>4, <1>5, <1>6

LEMMA NothingStored ==
    ASSUME StoreInv, StoreInv', TreeStep, \A i \in Inos : Exists(i)' => Exists(i),
           \A i \in StoredFiles : BytesOf(i)' = BytesOf(i)
    PROVE  Dirs' = Dirs /\ Content' = Content
BY NoNewEntry, SameContent DEF SameEntries

-----------------------------------------------------------------------------
(* Calls that store nothing *)

\* The call of a step, once the inode it is about is known.
Seen(i) ==
    [op |-> IF last'.res = OK THEN last'.op ELSE "failed", path |-> PathOf(i)',
     offset |-> last'.offset, limit |-> last'.limit, arg |-> last'.arg, truncate |-> last'.truncate]

LEMMA CallSeen ==
    ASSUME NEW i, last'.ino = i
    PROVE  LatestCall' = Seen(i)
BY DEF LatestCall, Seen, PathOf, Attached, Exists

\* A call that fails, or that the store takes no notice of.
LEMMA Unnoticed ==
    ASSUME Dirs' = Dirs, Content' = Content, last'.bytes = <<>>,
           last'.res # OK \/ last'.op \in {"mount", "close", "readdir"}
    PROVE  Store!Next
<1>1. LatestCall'.op \in {"mount", "close", "readdir", "failed"}
    BY DEF LatestCall
<1> QED
    BY <1>1 DEF Store!Next, Store!Answers

LEMMA SameState ==
    ASSUME StoreInv, StoreInv', TreeStep, inode' = inode, data' = data
    PROVE  Dirs' = Dirs /\ Content' = Content
<1>1. \A i \in Inos : Exists(i)' => Exists(i)
    BY DEF Exists
<1>2. \A i \in StoredFiles : BytesOf(i)' = BytesOf(i)
    BY DEF BytesOf, BufferOf
<1> QED
    BY <1>1, <1>2, NothingStored

\* A slice of what a file holds is a slice of its buffer.
LEMMA SliceOfPrefix ==
    ASSUME NEW S, NEW s \in Seq(S), NEW size \in 0..Len(s), NEW m \in Nat, NEW n \in Nat, n <= size
    PROVE  SubSeq(SubSeq(s, 1, size), m + 1, n) = SubSeq(s, m + 1, n)
<1>1. Len(s) \in Nat /\ \A k \in 1..Len(s) : s[k] \in S
    BY LenProperties
<1>2. PICK t : t = SubSeq(s, 1, size)
    OBVIOUS
<1>3. \A k \in 1..size : s[k] \in S
    BY <1>1
<1>4. Len(t) = size /\ \A k \in 1..size : t[k] = s[k]
    <2>1. /\ Len(t) = IF 1 <= size THEN size - 1 + 1 ELSE 0
          /\ \A k \in 1..size - 1 + 1 : t[k] = s[1 + k - 1]
        BY <1>2, <1>3, SubSeqProperties
    <2> QED
        BY <1>1, <2>1
<1>5. PICK u, v : u = SubSeq(t, m + 1, n) /\ v = SubSeq(s, m + 1, n)
    OBVIOUS
<1>6. \A k \in m + 1..n : s[k] \in S /\ t[k] = s[k]
    BY <1>3, <1>4
<1>7. /\ u \in Seq(S) /\ Len(u) = IF m + 1 <= n THEN n - (m + 1) + 1 ELSE 0
      /\ \A k \in 1..n - (m + 1) + 1 : u[k] = t[m + 1 + k - 1]
    BY <1>5, <1>6, SubSeqProperties
<1>8. /\ v \in Seq(S) /\ Len(v) = IF m + 1 <= n THEN n - (m + 1) + 1 ELSE 0
      /\ \A k \in 1..n - (m + 1) + 1 : v[k] = s[m + 1 + k - 1]
    BY <1>5, <1>6, SubSeqProperties
<1>9. \A k \in 1..Len(u) : u[k] = v[k]
    <2> SUFFICES ASSUME NEW k \in 1..Len(u)
                 PROVE  u[k] = v[k]
        OBVIOUS
    <2>1. k \in 1..n - (m + 1) + 1 /\ m + 1 + k - 1 \in m + 1..n
        BY <1>7
    <2> QED
        BY <1>6, <1>7, <1>8, <2>1
<1>10. u = v
    BY <1>7, <1>8, <1>9, SeqEqual
<1> QED
    BY <1>2, <1>5, <1>10

\* Where the bytes of a file are.
LEMMA FileFacts ==
    ASSUME StoreInv, NEW i \in StoredFiles
    PROVE  /\ i \in Inos /\ Exists(i) /\ IsFile(i) /\ inode[i] \in Node /\ inode[i].size \in Nat
           /\ BufferOf(i) \in Files
           /\ WellSized(data[BufferOf(i)])
           /\ data[BufferOf(i)].bytes \in Seq(Bytes \cup {Junk})
           /\ inode[i].size \in 0..Len(data[BufferOf(i)].bytes)
<1>1. i \in Inos /\ Exists(i) /\ IsFile(i)
    BY DEF StoredFiles
<1>2. inode[i] \in Node /\ inode[i].size \in Nat
    BY <1>1, NodeFacts DEF StoreInv, IInv, Node
<1>3. Attached(i) /\ inode[i].mode = REG
    BY <1>1 DEF Attached, IsFile
<1>4. BufferOf(i) \in Files /\ inode[i].size <= data[BufferOf(i)].allocated
    BY <1>1, <1>3 DEF StoreInv, BufferInv, NodesFit
<1>5. WellSized(data[BufferOf(i)])
    BY <1>4 DEF StoreInv, BufferInv, BuffersSized
<1>6. PICK b : b = data[BufferOf(i)]
    OBVIOUS
<1>7. /\ b.bytes \in Seq(Bytes \cup {Junk}) /\ Len(b.bytes) = b.allocated /\ b.allocated \in Nat
    BY <1>5, <1>6 DEF WellSized, Buffer
<1>8. inode[i].size \in 0..Len(b.bytes)
    BY <1>2, <1>4, <1>6, <1>7
<1> QED
    BY <1>1, <1>2, <1>4, <1>5, <1>6, <1>7, <1>8

LEMMA ReadStores ==
    ASSUME StoreInv, StoreInv', TreeStep, NEW i \in fds, NEW offset \in Offsets, NEW limit \in Limits,
           Read(i, offset, limit)
    PROVE  Store!Next
<1>1. last' = ReadBytes(i, offset, limit) /\ inode' = inode /\ data' = data
    BY DEF Read
<1>2. Dirs' = Dirs /\ Content' = Content
    BY <1>1, SameState
<1>3. i \in Inos /\ Exists(i) /\ Exists(Root) /\ inode[Root].mode = DIR
    BY DEF StoreInv, IInv, DescriptorsExist, RootIsDirectory, Exists
<1>4. OK # ERR /\ DIR # REG
    BY DEF OK, ERR, DIR, REG
<1>5. offset \in Nat /\ limit \in Nat
    BY VfsAssumption
<1>6. CASE ~IsFile(i)
    <2>1. last'.bytes = <<>>
        BY <1>1, <1>6 DEF ReadBytes, Call
    <2>2. CASE last'.res # OK
        BY <1>2, <2>1, <2>2, Unnoticed
    <2>3. CASE last'.res = OK
        <3>1. inode[i].mode = REG
            BY <1>1, <1>4, <2>3 DEF ReadBytes, Call
        <3>2. RegularFiles
            BY FilesAreRegular
        <3> QED
            BY <1>3, <1>6, <3>1, <3>2 DEF RegularFiles, StoredFiles
    <2> QED
        BY <2>2, <2>3
<1>7. CASE IsFile(i)
    <2>1. i \in StoredFiles /\ i # Root /\ inode[i].mode = REG /\ inode[i].private_field # NULL
        BY <1>3, <1>4, <1>7 DEF StoredFiles, IsFile
    <2> PICK size, b : size = inode[i].size /\ b = data[BufferOf(i)]
        OBVIOUS
    <2>2. /\ size = inode[i].size /\ b = data[BufferOf(i)] /\ size \in Nat
          /\ b.bytes \in Seq(Bytes \cup {Junk}) /\ size \in 0..Len(b.bytes)
        BY <2>1, FileFacts
    <2>3. /\ last'.op = "read" /\ last'.ino = i /\ last'.res = OK /\ last'.offset = offset
          /\ last'.limit = limit
          /\ last'.bytes = IF offset >= size THEN <<>> ELSE RamfsRead(i, offset, limit)
        BY <1>1, <1>7, <2>1, <2>2 DEF ReadBytes, Call, HasOps
    <2> DEFINE stop == IF offset + limit < size THEN offset + limit ELSE size
    <2>4. last'.bytes = SubSeq(b.bytes, offset + 1, stop)
        <3>1. CASE offset >= size
            <4>1. stop < offset + 1 /\ stop \in Int
                BY <1>5, <2>2, <3>1
            <4> QED
                BY <1>5, <2>3, <3>1, <4>1, SubSeqEmpty
        <3>2. CASE offset < size
            <4>1. ~(size - offset <= 0) /\ ~(offset >= size)
                BY <1>5, <2>2, <3>2
            <4>2. RamfsRead(i, offset, limit) =
                      SubSeq(b.bytes, offset + 1, offset + IF limit < size - offset THEN limit ELSE size - offset)
                BY <2>2, <4>1 DEF RamfsRead, CopyOut
            <4>3. offset + (IF limit < size - offset THEN limit ELSE size - offset) = stop
                BY <1>5, <2>2, <3>2
            <4> QED
                BY <2>3, <4>1, <4>2, <4>3
        <3> QED
            BY <1>5, <2>2, <3>1, <3>2
    <2>5. PICK path : path = PathOf(i)
        OBVIOUS
    <2>6. Content[path] = SubSeq(b.bytes, 1, size)
        BY <2>1, <2>2, <2>5, InvHasPaths DEF ContentRule, BytesOf
    <2>7. Len(Content[path]) = size
        <3>1. Len(b.bytes) \in Nat /\ \A k \in 1..Len(b.bytes) : b.bytes[k] \in Bytes \cup {Junk}
            BY <2>2, LenProperties
        <3>2. \A k \in 1..size : b.bytes[k] \in Bytes \cup {Junk}
            BY <2>2, <3>1
        <3>3. Len(SubSeq(b.bytes, 1, size)) = IF 1 <= size THEN size - 1 + 1 ELSE 0
            BY <2>2, <3>2, SubSeqProperties
        <3> QED
            BY <2>2, <2>6, <3>3
    <2>8. stop \in Nat /\ stop <= size
        BY <1>5, <2>2
    <2>9. SubSeq(SubSeq(b.bytes, 1, size), offset + 1, stop) = SubSeq(b.bytes, offset + 1, stop)
        BY <1>5, <2>2, <2>8, SliceOfPrefix
    <2>10. Store!Slice(path, offset, limit) = last'.bytes
        BY <2>4, <2>6, <2>7, <2>9 DEF Store!Slice
    <2>11. PathOf(i)' = PathOf(i)
        <3>1. PathInv /\ PathInv'
            BY InvHasPaths, PTL
        <3> QED
            BY <1>3, <3>1, PathsStay
    <2>12. /\ LatestCall'.op = "read" /\ LatestCall'.path = path /\ LatestCall'.offset = offset
           /\ LatestCall'.limit = limit
        <3>1. LatestCall' = Seen(i)
            BY <2>3, CallSeen
        <3> QED
            BY <2>3, <2>5, <2>11, <3>1 DEF Seen
    <2> QED
        BY <1>2, <2>10, <2>12 DEF Store!Next, Store!Answers
<1> QED
    BY <1>6, <1>7

-----------------------------------------------------------------------------
(* Calls that make an entry or change a file *)

\* The store with one more path: of a directory or of an empty file.
OneMorePath(path, mode) ==
    /\ path \notin Dirs \cup DOMAIN Content
    /\ Dirs' = IF mode = DIR THEN Dirs \cup {path} ELSE Dirs
    /\ Content' = IF mode = DIR THEN Content
                  ELSE [p \in DOMAIN Content \cup {path} |-> IF p = path THEN <<>> ELSE Content[p]]

LEMMA EntryPaths ==
    ASSUME StoreInv, NEW i \in Inos, Exists(i)
    PROVE  /\ inode[i].mode = DIR => PathOf(i) \in Dirs
           /\ inode[i].mode # DIR => PathOf(i) \in DOMAIN Content
<1>1. inode[i].mode \in {DIR, REG}
    BY NodeFacts DEF StoreInv, IInv, Node
<1>2. inode[i].mode = DIR => PathOf(i) \in Dirs
    BY DEF Dirs
<1>3. inode[i].mode = REG => PathOf(i) \in DOMAIN Content
    BY FilesAreRegular, InvHasPaths DEF RegularFiles, ContentRule
<1> QED
    BY <1>1, <1>2, <1>3

LEMMA NewEntry ==
    ASSUME StoreInv, StoreInv', TreeStep, data' = data,
           NEW d \in Inos, Attached(d), NEW c \in Inos, inode[c] = NULL,
           NEW name \in Names, NEW mode \in {DIR, REG}, NEW file \in Nat,
           inode' = Attach(d, c, NewInode(name, mode), NewPrivate(file, d)),
           NEW path, path = PathOf(c)'
    PROVE  OneMorePath(path, mode) /\ path = Append(PathOf(d), name) /\ path \in Seq(Names)
<1>1. PathInv /\ ContentRule
    BY InvHasPaths
<1>2. PathInv' /\ ContentRule'
    BY InvHasPaths, PTL
<1>3. RegularFiles /\ RegularFiles'
    BY FilesAreRegular, PTL
<1>4. /\ \A i \in Inos : Exists(i)' <=> Exists(i) \/ i = c
      /\ \A i \in Inos : Exists(i) =>
            /\ inode'[i].mode = inode[i].mode /\ inode'[i].size = inode[i].size
            /\ Attached(i) => BufferOf(i)' = BufferOf(i)
      /\ inode'[c].name = name /\ inode'[c].mode = mode /\ inode'[c].size = 0
      /\ inode'[c].private_field.parent = d
    BY AttachFacts DEF StoreInv, IInv
<1>5. ~Exists(c) /\ Exists(d) /\ Exists(c)' /\ c # Root /\ DIR # REG
    BY <1>4 DEF Exists, Attached, StoreInv, IInv, RootIsDirectory, DIR, REG
<1>6. \A i \in Inos : Exists(i) => PathOf(i)' = PathOf(i)
    BY <1>1, <1>2, PathsStay
<1>7. path = Append(PathOf(d), name)
    <2>1. d = Up(c)'
        BY <1>4 DEF Up
    <2>2. PathOf(c)' = Append(PathOf(d)', name)
        BY <1>2, <1>4, <1>5, <2>1 DEF PathInv, ChildPaths
    <2> QED
        BY <1>5, <1>6, <2>2
<1>8. path \in Seq(Names)
    BY <1>2, <1>5 DEF PathInv, PathsAreNames
<1>9. \A i \in Inos : Exists(i) => PathOf(i) # path
    <2> SUFFICES ASSUME NEW i \in Inos, Exists(i), PathOf(i) = path
                 PROVE  FALSE
        OBVIOUS
    <2>1. PathOf(i)' = PathOf(c)' /\ Exists(i)' /\ Exists(c)'
        BY <1>4, <1>5, <1>6
    <2>2. i = c
        BY <1>2, <2>1 DEF PathInv, PathsDiffer
    <2> QED
        BY <1>5, <2>2
<1>10. path \notin Dirs \cup DOMAIN Content
    BY <1>1, <1>9 DEF Dirs, ContentRule, StoredFiles
<1>11. \A i \in Inos : i \in StoredFiles' <=> i \in StoredFiles \/ (i = c /\ mode = REG)
    BY <1>3, <1>4, <1>5 DEF RegularFiles
<1>12. StoredFiles \subseteq Inos /\ StoredFiles' \subseteq Inos
    BY DEF StoredFiles
<1>13. DOMAIN Content' = IF mode = DIR THEN DOMAIN Content ELSE DOMAIN Content \cup {path}
    <2>1. CASE mode = DIR
        <3>1. StoredFiles' = StoredFiles
            BY <1>5, <1>11, <1>12, <2>1
        <3>2. \A i \in StoredFiles : PathOf(i)' = PathOf(i)
            BY <1>6 DEF StoredFiles
        <3> QED
            BY <1>1, <1>2, <2>1, <3>1, <3>2 DEF ContentRule
    <2>2. CASE mode = REG
        <3>1. StoredFiles' = StoredFiles \cup {c}
            BY <1>11, <1>12, <2>2
        <3>2. \A i \in StoredFiles : PathOf(i)' = PathOf(i)
            BY <1>6 DEF StoredFiles
        <3>3. DOMAIN Content' = {PathOf(i)' : i \in StoredFiles \cup {c}}
            BY <1>2, <3>1 DEF ContentRule
        <3>4. DOMAIN Content = {PathOf(i) : i \in StoredFiles}
            BY <1>1 DEF ContentRule
        <3> QED
            BY <1>5, <2>2, <3>2, <3>3, <3>4
    <2> QED
        BY <2>1, <2>2
<1>14. Dirs' = IF mode = DIR THEN Dirs \cup {path} ELSE Dirs
    <2>1. \A i \in Inos : (Exists(i)' /\ inode'[i].mode = DIR)
                              <=> ((Exists(i) /\ inode[i].mode = DIR) \/ (i = c /\ mode = DIR))
        BY <1>4, <1>5
    <2> DEFINE D == {i \in Inos : Exists(i) /\ inode[i].mode = DIR}
               E == {i \in Inos : Exists(i)' /\ inode'[i].mode = DIR}
    <2>2. Dirs = {PathOf(i) : i \in D} /\ Dirs' = {PathOf(i)' : i \in E}
        BY DEF Dirs
    <2>3. \A i \in D : PathOf(i)' = PathOf(i)
        BY <1>6
    <2>4. E = IF mode = DIR THEN D \cup {c} ELSE D
        BY <2>1
    <2> HIDE DEF D, E
    <2>5. CASE mode = DIR
        BY <2>2, <2>3, <2>4, <2>5
    <2>6. CASE mode # DIR
        BY <2>2, <2>3, <2>4, <2>6
    <2> QED
        BY <2>5, <2>6
<1>15. \A p \in DOMAIN Content : Content'[p] = Content[p]
    <2> SUFFICES ASSUME NEW i \in StoredFiles
                 PROVE  Content'[PathOf(i)] = Content[PathOf(i)]
        BY <1>1 DEF ContentRule
    <2>1. i \in Inos /\ Exists(i) /\ Attached(i) /\ i \in StoredFiles'
        BY <1>11, <1>12 DEF StoredFiles, IsFile, Attached
    <2>2. Content'[PathOf(i)'] = BytesOf(i)' /\ Content[PathOf(i)] = BytesOf(i)
        BY <1>1, <1>2, <2>1 DEF ContentRule
    <2>3. BytesOf(i)' = BytesOf(i)
        BY <1>4, <2>1 DEF BytesOf
    <2> QED
        BY <1>6, <2>1, <2>2, <2>3
<1>16. mode = REG => Content'[path] = <<>>
    <2> SUFFICES ASSUME mode = REG
                 PROVE  Content'[path] = <<>>
        OBVIOUS
    <2>1. Content'[path] = BytesOf(c)'
        BY <1>2, <1>11 DEF ContentRule
    <2>2. BytesOf(c)' = SubSeq(data'[BufferOf(c)'].bytes, 1, 0)
        BY <1>4 DEF BytesOf
    <2> QED
        BY <2>1, <2>2, SubSeqEmpty
<1>17. Content = [p \in DOMAIN Content |-> Content[p]] /\ Content' = [p \in DOMAIN Content' |-> Content'[p]]
    BY <1>1, <1>2 DEF ContentRule
<1>18. CASE mode = DIR
    <2>1. DOMAIN Content' = DOMAIN Content
        BY <1>13, <1>18
    <2>2. Content' = Content
        BY <1>15, <1>17, <2>1
    <2> QED
        BY <1>7, <1>8, <1>10, <1>14, <1>18, <2>2 DEF OneMorePath
<1>19. CASE mode = REG
    <2>1. DOMAIN Content' = DOMAIN Content \cup {path}
        BY <1>5, <1>13, <1>19
    <2>2. \A p \in DOMAIN Content \cup {path} : Content'[p] = IF p = path THEN <<>> ELSE Content[p]
        BY <1>15, <1>16, <1>19
    <2>3. Content' = [p \in DOMAIN Content \cup {path} |-> Content'[p]]
        BY <1>17, <2>1
    <2>4. Content' = [p \in DOMAIN Content \cup {path} |-> IF p = path THEN <<>> ELSE Content[p]]
        BY <2>2, <2>3
    <2>5. mode # DIR
        BY <1>5, <1>19
    <2> QED
        BY <1>7, <1>8, <1>10, <1>14, <2>4, <2>5 DEF OneMorePath
<1> QED
    BY <1>18, <1>19

\* The bytes of one file change.
LEMMA OneFileChanges ==
    ASSUME StoreInv, StoreInv', TreeStep, \A i \in Inos : Exists(i)' => Exists(i),
           NEW i \in StoredFiles, \A j \in StoredFiles : j # i => BytesOf(j)' = BytesOf(j)
    PROVE  /\ PathOf(i) \in DOMAIN Content /\ PathOf(i)' = PathOf(i) /\ Dirs' = Dirs
           /\ Content' = [Content EXCEPT ![PathOf(i)] = BytesOf(i)']
           /\ Content[PathOf(i)] = BytesOf(i)
<1>1. ContentRule /\ SameEntries /\ PathInv
    BY InvHasPaths, NoNewEntry
<1>2. ContentRule'
    BY InvHasPaths, PTL
<1>3. PICK path : path = PathOf(i) /\ path \in DOMAIN Content
    BY <1>1 DEF ContentRule
<1>4. \A p \in DOMAIN Content : Content'[p] = IF p = path THEN BytesOf(i)' ELSE Content[p]
    <2> SUFFICES ASSUME NEW j \in StoredFiles
                 PROVE  Content'[PathOf(j)] = IF PathOf(j) = path THEN BytesOf(i)' ELSE Content[PathOf(j)]
        BY <1>1 DEF ContentRule
    <2>1. CASE j = i
        BY <1>1, <1>3, <2>1 DEF SameEntries
    <2>2. CASE j # i
        <3>1. PathOf(j) # path
            BY <1>1, <1>3, <2>2 DEF PathInv, PathsDiffer, StoredFiles
        <3> QED
            BY <1>1, <2>2, <3>1 DEF SameEntries
    <2> QED
        BY <2>1, <2>2
<1>5. Content' = [p \in DOMAIN Content |-> Content'[p]] /\ Content = [p \in DOMAIN Content |-> Content[p]]
    BY <1>1, <1>2 DEF ContentRule, SameEntries
<1>6. Content' = [p \in DOMAIN Content |-> IF p = path THEN BytesOf(i)' ELSE Content[p]]
    BY <1>4, <1>5
<1>7. Content' = [Content EXCEPT ![path] = BytesOf(i)']
    BY <1>3, <1>5, <1>6
<1> QED
    BY <1>1, <1>3, <1>7 DEF SameEntries

LEMMA FrontOfAppend ==
    ASSUME NEW s \in Seq(Names), NEW x \in Names
    PROVE  Store!ParentOf(Append(s, x)) = s /\ Append(s, x) # <<>>
<1>1. PICK t : t = Append(s, x)
    OBVIOUS
<1>2. /\ t \in Seq(Names) /\ Len(t) = Len(s) + 1 /\ Len(s) \in Nat /\ t # <<>>
      /\ \A k \in 1..Len(s) : t[k] = s[k]
    BY <1>1, AppendProperties, LenProperties
<1>3. \A k \in 1..Len(s) : s[k] \in Names
    BY LenProperties
<1>4. \A k \in 1..Len(t) - 1 : t[k] \in Names
    BY <1>2, <1>3
<1>5. PICK u : u = SubSeq(t, 1, Len(t) - 1)
    OBVIOUS
<1>6. Len(t) - 1 \in Int /\ 1 \in Int
    BY <1>2
<1>7. /\ u \in Seq(Names) /\ Len(u) = IF 1 <= Len(t) - 1 THEN Len(t) - 1 - 1 + 1 ELSE 0
      /\ \A k \in 1..Len(t) - 1 - 1 + 1 : u[k] = t[1 + k - 1]
    BY <1>4, <1>5, <1>6, SubSeqProperties
<1>8. Len(u) = Len(s)
    BY <1>2, <1>7
<1>9. \A k \in 1..Len(u) : u[k] = s[k]
    <2> SUFFICES ASSUME NEW k \in 1..Len(u)
                 PROVE  u[k] = s[k]
        OBVIOUS
    <2>1. k \in 1..Len(t) - 1 - 1 + 1 /\ 1 + k - 1 = k /\ k \in 1..Len(s)
        BY <1>2, <1>8
    <2> QED
        BY <1>2, <1>7, <2>1
<1>10. u = s
    BY <1>7, <1>8, <1>9, SeqEqual
<1> QED
    BY <1>1, <1>2, <1>5, <1>10 DEF Store!ParentOf

LEMMA FailureStores ==
    ASSUME StoreInv, StoreInv', TreeStep, FailureIsClean, last'.res # OK, last'.bytes = <<>>
    PROVE  Store!Next
<1>1. inode' = inode /\ data' = data
    BY DEF FailureIsClean
<1> QED
    BY <1>1, SameState, Unnoticed

LEMMA FailStores ==
    ASSUME StoreInv, StoreInv', TreeStep, FailureIsClean, NEW op, NEW res, res # OK, Fail(op, res)
    PROVE  Store!Next
<1>1. last'.res # OK /\ last'.bytes = <<>>
    BY DEF Fail, Call
<1> QED
    BY <1>1, FailureStores

\* A new entry of d, made by mkdir or open.
LEMMA EntryStored ==
    ASSUME StoreInv, StoreInv', TreeStep, data' = data,
           NEW d \in Inos, Attached(d), NEW c \in Inos, inode[c] = NULL,
           NEW name \in Names, NEW mode \in {DIR, REG}, NEW file \in Nat,
           inode' = Attach(d, c, NewInode(name, mode), NewPrivate(file, d)),
           last'.ino = c, last'.res = OK, last'.bytes = <<>>,
           IF mode = DIR THEN last'.op = "mkdir" /\ inode[d].mode = DIR ELSE last'.op = "open"
    PROVE  Store!Next
<1>1. PICK path : path = PathOf(c)'
    OBVIOUS
<1>2. OneMorePath(path, mode) /\ path = Append(PathOf(d), name) /\ path \in Seq(Names)
    BY <1>1, NewEntry
<1>3. Exists(d)
    BY DEF Attached
<1>4. PICK parent \in Seq(Names) : parent = PathOf(d)
    BY <1>3, InvHasPaths DEF PathInv, PathsAreNames
<1>5. Store!ParentOf(path) = parent /\ path # <<>>
    BY <1>2, <1>4, FrontOfAppend
<1>6. parent \in Dirs \cup DOMAIN Content /\ (inode[d].mode = DIR => parent \in Dirs)
    BY <1>3, <1>4, EntryPaths
<1>7. Store!Free(path)
    BY <1>2, <1>5 DEF Store!Free, OneMorePath
<1>8. LatestCall'.path = path /\ LatestCall'.op = last'.op
    <2>1. LatestCall' = Seen(c)
        BY CallSeen
    <2> QED
        BY <1>1, <2>1 DEF Seen
<1>9. CASE mode = DIR
    <2>1. Store!Mkdir(path)
        BY <1>2, <1>5, <1>6, <1>7, <1>9 DEF Store!Mkdir, OneMorePath
    <2> QED
        BY <1>8, <1>9, <2>1 DEF Store!Next, Store!Answers
<1>10. CASE mode # DIR
    <2>1. Store!Create(path)
        BY <1>2, <1>5, <1>6, <1>7, <1>10 DEF Store!Create, OneMorePath
    <2> QED
        BY <1>8, <1>10, <2>1 DEF Store!Next, Store!Answers
<1> QED
    BY <1>9, <1>10

LEMMA MkdirStores ==
    ASSUME StoreInv, StoreInv', TreeStep, FailureIsClean, NEW path \in Seq(Names), Mkdir(path)
    PROVE  Store!Next
<1>1. data' = data /\ Types /\ IInv /\ EEXIST # OK /\ FAULT # OK
    BY DEF Mkdir, StoreInv, IInv, EEXIST, FAULT, OK
<1>2. CASE Fail("mkdir", EEXIST) \/ Fail("mkdir", FAULT)
    BY <1>1, <1>2, FailStores
<1>3. CASE WalkParent(path).res # OK /\ Fail("mkdir", WalkParent(path).res)
    BY <1>3, FailStores
<1>4. CASE path # <<>> /\ WalkParent(path).res = OK /\ MkdirIn(WalkParent(path).ino, path)
    <2> DEFINE d == WalkParent(path).ino
               leaf == LookupLeaf(d, path)
               c == vfs_inode_count
               name == LeafName(path)
               new == RamfsMkdir(d, c, name)
               res == IF inode[d].mode # DIR THEN EINVAL ELSE RamfsPutchild(d, name)
    <2>1. Exists(d) /\ d \in Inos /\ name \in Names
        BY <1>1, <1>4, WalkParentExists, LeafFacts DEF Exists
    <2> HIDE DEF d, name
    <2>2. CASE /\ leaf.res \notin {OK, FAULT} /\ RoomForInode
               /\ inode' = new.inode /\ last' = Call("mkdir", c, new.res)
        <3>1. Attached(d)
            <4>1. leaf = RamfsLookup(d, path[Len(path)])
                BY <2>2 DEF LookupLeaf
            <4> QED
                BY <1>1, <2>1, <2>2, <4>1, LookupFacts
        <3>2. /\ new.res = res
              /\ inode' = IF res # OK THEN inode ELSE Attach(d, c, NewInode(name, DIR), NewPrivate(0, d))
            BY <2>2 DEF RamfsMkdir
        <3>3. last'.op = "mkdir" /\ last'.ino = c /\ last'.res = res /\ last'.bytes = <<>>
            BY <2>2, <3>2 DEF Call
        <3>4. res = OK => inode[d].mode = DIR
            BY DEF EINVAL, OK
        <3>5. c \in Inos /\ inode[c] = NULL
            <4>1. c \in Inos /\ c \in Nat
                BY <1>1, <2>2 DEF RoomForInode, Types
            <4> QED
                BY <1>1, <4>1 DEF IInv, Fresh
        <3> HIDE DEF res, c
        <3>6. CASE res # OK
            BY <3>3, <3>6, FailureStores
        <3>7. CASE res = OK
            <4>1. inode' = Attach(d, c, NewInode(name, DIR), NewPrivate(0, d)) /\ DIR \in {DIR, REG} /\ 0 \in Nat
                BY <3>2, <3>7
            <4> QED
                BY <1>1, <2>1, <3>1, <3>3, <3>4, <3>5, <3>7, <4>1, EntryStored
        <3> QED
            BY <3>6, <3>7
    <2> QED
        BY <1>2, <1>4, <2>2 DEF MkdirIn, d, name
<1> QED
    BY <1>2, <1>3, <1>4 DEF Mkdir

LEMMA OpenMissingStores ==
    ASSUME StoreInv, StoreInv', TreeStep, FailureIsClean, data' = data, NEW d \in Inos, Attached(d),
           NEW path \in Seq(Names), path # <<>>, NEW flags, OpenMissing(d, path, flags)
    PROVE  Store!Next
<1> DEFINE c == vfs_inode_count
           name == LeafName(path)
           res == RamfsPutchild(d, name)
           new == RamfsCreate(d, c, name)
<1>1. IInv /\ Types /\ name \in Names /\ REG \in {DIR, REG} /\ REG # DIR /\ ENOENT # OK
    BY LeafFacts DEF StoreInv, IInv, ENOENT, OK, REG, DIR
<1>2. CASE Fail("open", ENOENT)
    BY <1>1, <1>2, FailStores
<1>3. CASE RoomForInode /\ RoomForFile /\ inode' = new.inode /\ Opened(new.res, c, flags)
    <2>1. /\ new.res = res
          /\ inode' = IF res # OK THEN inode
                      ELSE Attach(d, c, NewInode(name, REG), NewPrivate(ramfs_file_count, d))
        BY <1>3 DEF RamfsCreate
    <2>2. last'.op = "open" /\ last'.ino = c /\ last'.res = res /\ last'.bytes = <<>>
        BY <1>3, <2>1 DEF Opened, Call
    <2>3. c \in Inos /\ inode[c] = NULL /\ ramfs_file_count \in Nat
        <3>1. c \in Inos /\ c \in Nat /\ ramfs_file_count \in Nat
            BY <1>1, <1>3 DEF RoomForInode, Types
        <3> QED
            BY <1>1, <3>1 DEF IInv, Fresh
    <2> HIDE DEF res, c, name
    <2>4. CASE res # OK
        BY <2>2, <2>4, FailureStores
    <2>5. CASE res = OK
        <3>1. inode' = Attach(d, c, NewInode(name, REG), NewPrivate(ramfs_file_count, d))
            BY <2>1, <2>5
        <3> QED
            BY <1>1, <2>2, <2>3, <2>5, <3>1, EntryStored
    <2> QED
        BY <2>4, <2>5
<1> QED
    BY <1>2, <1>3 DEF OpenMissing

LEMMA OpenExistingStores ==
    ASSUME StoreInv, StoreInv', TreeStep, FailureIsClean, data' = data, NEW d, NEW c \in Inos, Exists(c),
           NEW flags, "CREAT" \in flags => "EXCL" \in flags, OpenExisting(d, c, flags)
    PROVE  Store!Next
<1>1. Types /\ inode \in [Inos -> Node \cup {NULL}] /\ inode[c] \in Node /\ EEXIST # OK
    BY NodeFacts DEF StoreInv, IInv, Types, EEXIST, OK
<1>2. CASE Fail("open", EEXIST)
    BY <1>1, <1>2, FailStores
<1>3. CASE inode' = Truncated(inode, c, flags) /\ Opened(RamfsOpen(c), c, flags)
    <2>1. /\ last'.op = "open" /\ last'.ino = c /\ last'.res = RamfsOpen(c) /\ last'.bytes = <<>>
          /\ last'.truncate = ("TRUNC" \in flags)
        BY <1>3 DEF Opened, Call
    <2>2. CASE last'.res # OK
        BY <2>1, <2>2, FailureStores
    <2>3. CASE last'.res = OK
        <3>1. /\ \A i \in Inos : i # c => inode'[i] = inode[i]
              /\ inode'[c].mode = inode[c].mode /\ inode'[c].private_field = inode[c].private_field
            BY <1>1, <1>3, TruncatedFacts
        <3>2. /\ "TRUNC" \in flags => inode'[c].size = 0
              /\ "TRUNC" \notin flags => inode'[c] = inode[c]
            BY <1>1, <1>3 DEF Truncated, Node
        <3>3. \A i \in Inos : Exists(i)' => Exists(i)
            BY <3>1 DEF Exists
        <3>4. \A i \in StoredFiles : i # c => BytesOf(i)' = BytesOf(i)
            BY <3>1 DEF BytesOf, BufferOf, StoredFiles
        <3>5. PICK path : path = PathOf(c) /\ path = PathOf(c)'
            <4>1. PathInv /\ PathInv'
                BY InvHasPaths, PTL
            <4> QED
                BY <4>1, PathsStay
        <3>6. /\ LatestCall'.op = "open" /\ LatestCall'.path = path
              /\ LatestCall'.truncate = ("TRUNC" \in flags)
            <4>1. LatestCall' = Seen(c)
                BY <2>1, CallSeen
            <4> QED
                BY <2>1, <2>3, <3>5, <4>1 DEF Seen
        <3>7. CASE c \in StoredFiles /\ "TRUNC" \in flags
            <4>1. BytesOf(c)' = <<>>
                <5>1. BytesOf(c)' = SubSeq(data'[BufferOf(c)'].bytes, 1, 0)
                    BY <3>2, <3>7 DEF BytesOf
                <5> QED
                    BY <5>1, SubSeqEmpty
            <4>2. path \in DOMAIN Content /\ Dirs' = Dirs /\ Content' = [Content EXCEPT ![path] = <<>>]
                BY <3>3, <3>4, <3>5, <3>7, <4>1, OneFileChanges
            <4>3. Store!Truncate(path)
                BY <4>2 DEF Store!Truncate
            <4> QED
                BY <2>1, <3>6, <3>7, <4>3 DEF Store!Next, Store!Answers
        <3>8. CASE ~(c \in StoredFiles /\ "TRUNC" \in flags)
            <4>1. \A i \in StoredFiles : BytesOf(i)' = BytesOf(i)
                <5>1. c \in StoredFiles => BytesOf(c)' = BytesOf(c)
                    BY <3>2, <3>8 DEF BytesOf, BufferOf
                <5> QED
                    BY <3>4, <5>1
            <4>2. Dirs' = Dirs /\ Content' = Content
                BY <3>3, <4>1, NothingStored
            <4>3. path \in Dirs \cup DOMAIN Content /\ (inode[c].mode = DIR => path \in Dirs)
                BY <3>5, EntryPaths
            <4>4. "TRUNC" \in flags => path \in Dirs
                <5>1. inode[c].mode \in {DIR, REG} /\ (c \in StoredFiles <=> inode[c].mode = REG)
                    BY <1>1, FilesAreRegular DEF RegularFiles, Node
                <5> QED
                    BY <3>8, <4>3, <5>1
            <4>5. Store!Reopen(path)
                BY <4>2, <4>3 DEF Store!Reopen
            <4> QED
                BY <2>1, <3>6, <4>4, <4>5 DEF Store!Next, Store!Answers
        <3> QED
            BY <3>7, <3>8
    <2> QED
        BY <2>2, <2>3
<1> QED
    BY <1>2, <1>3 DEF OpenExisting

LEMMA OpenStores ==
    ASSUME StoreInv, StoreInv', TreeStep, FailureIsClean, NEW path \in Seq(Names), NEW flags,
           "CREAT" \in flags => "EXCL" \in flags, Open(path, flags)
    PROVE  Store!Next
<1>1. data' = data /\ IInv /\ OK # FAULT
    BY DEF Open, StoreInv, OK, FAULT
<1>2. CASE Opened(OK, Root, flags) /\ inode' = inode
    <2>1. last'.op = "open" /\ last'.ino = Root /\ last'.res = OK /\ last'.bytes = <<>>
        BY <1>2 DEF Opened, Call
    <2>2. PathOf(Root)' = <<>> /\ PathOf(Root) = <<>>
        <3>1. PathInv /\ PathInv'
            BY InvHasPaths, PTL
        <3> QED
            BY <3>1 DEF PathInv, Root
    <2>3. LatestCall'.op = "open" /\ LatestCall'.path = <<>>
        <3>1. LatestCall' = Seen(Root)
            BY <2>1, CallSeen
        <3> QED
            BY <2>1, <2>2, <3>1 DEF Seen
    <2>4. <<>> \in Dirs
        BY <1>1, <2>2, EntryPaths DEF IInv, RootIsDirectory, Exists
    <2>5. Dirs' = Dirs /\ Content' = Content
        BY <1>1, <1>2, SameState
    <2>6. Store!Reopen(<<>>)
        BY <2>4, <2>5 DEF Store!Reopen
    <2> QED
        BY <2>1, <2>3, <2>4, <2>6 DEF Store!Next, Store!Answers
<1>3. CASE WalkParent(path).res # OK /\ Fail("open", WalkParent(path).res)
    BY <1>3, FailStores
<1>4. CASE path # <<>> /\ WalkParent(path).res = OK /\ OpenIn(WalkParent(path).ino, path, flags)
    <2> DEFINE d == WalkParent(path).ino
               leaf == LookupLeaf(d, path)
    <2>1. Exists(d) /\ d \in Inos /\ OpenIn(d, path, flags)
        BY <1>1, <1>4, WalkParentExists DEF Exists
    <2> HIDE DEF d
    <2>2. leaf.res # FAULT => leaf = RamfsLookup(d, path[Len(path)])
        BY DEF LookupLeaf
    <2>3. CASE leaf.res = OK
        <3>1. OpenExisting(d, leaf.ino, flags)
            BY <1>1, <2>1, <2>3 DEF OpenIn
        <3>2. Exists(leaf.ino) /\ leaf.ino \in Inos
            BY <1>1, <2>1, <2>2, <2>3, LookupFacts DEF Exists
        <3> HIDE DEF leaf
        <3> QED
            BY <1>1, <3>1, <3>2, OpenExistingStores
    <2>4. CASE leaf.res = FAULT
        <3>1. Fail("open", FAULT)
            BY <1>1, <2>1, <2>4 DEF OpenIn
        <3> QED
            BY <1>1, <3>1, FailStores
    <2>5. CASE leaf.res \notin {OK, FAULT}
        <3>1. OpenMissing(d, path, flags)
            BY <2>1, <2>5 DEF OpenIn
        <3>2. Attached(d)
            BY <1>1, <2>1, <2>2, <2>5, LookupFacts
        <3> QED
            BY <1>1, <1>4, <2>1, <3>1, <3>2, OpenMissingStores
    <2> QED
        BY <2>3, <2>4, <2>5
<1> QED
    BY <1>2, <1>3, <1>4 DEF Open

-----------------------------------------------------------------------------
(* Write *)

\* Where offset + length does not come out below offset, it did not wrap.
LEMMA NoWrap ==
    ASSUME NEW M \in Nat \ {0}, NEW m \in 0..M - 1, NEW n \in 0..M - 1, (m + n) % M >= m
    PROVE  (m + n) % M = m + n
<1>1. CASE m + n < M
    BY <1>1
<1>2. CASE m + n >= M
    <2>1. (m + n) % M = m + n - M
        BY <1>2
    <2> QED
        BY <1>2, <2>1
<1> QED
    BY <1>1, <1>2

LEMMA PrefixFacts ==
    ASSUME NEW S, NEW s \in Seq(S), NEW n \in 0..Len(s)
    PROVE  /\ SubSeq(s, 1, n) \in Seq(S) /\ Len(SubSeq(s, 1, n)) = n
           /\ DOMAIN SubSeq(s, 1, n) = 1..n
           /\ \A k \in 1..n : SubSeq(s, 1, n)[k] = s[k]
<1>1. Len(s) \in Nat /\ \A k \in 1..Len(s) : s[k] \in S
    BY LenProperties
<1>2. \A k \in 1..n : s[k] \in S
    BY <1>1
<1>3. PICK t : t = SubSeq(s, 1, n)
    OBVIOUS
<1>4. /\ t \in Seq(S) /\ Len(t) = IF 1 <= n THEN n - 1 + 1 ELSE 0
      /\ \A k \in 1..n - 1 + 1 : t[k] = s[1 + k - 1]
    BY <1>1, <1>2, <1>3, SubSeqProperties
<1>5. Len(t) = n /\ \A k \in 1..n : t[k] = s[k]
    BY <1>1, <1>4
<1>6. DOMAIN t = 1..n
    BY <1>4, <1>5, LenProperties
<1> QED
    BY <1>3, <1>4, <1>5, <1>6

\* kbuf_grow() copies what was there.
LEMMA GrownKeepsBytes ==
    ASSUME NEW buf, WellSized(buf), NEW end \in Nat
    PROVE  \A k \in 1..buf.allocated : Grown(buf, end).bytes[k] = buf.bytes[k]
<1> DEFINE size == GrownSize(buf.allocated, end)
           more == JunkBytes(size - buf.allocated)
<1>1. buf.allocated \in Nat /\ buf.bytes \in Seq(Bytes \cup {Junk}) /\ Len(buf.bytes) = buf.allocated
    BY DEF WellSized, Buffer
<1>2. size \in Nat /\ size >= buf.allocated
    BY <1>1, GrownSizeFits
<1>3. Grown(buf, end).bytes = buf.bytes \o more
    BY DEF Grown
<1> HIDE DEF size
<1>4. more \in Seq(Bytes \cup {Junk}) /\ Len(more) \in Nat
    <2>1. size - buf.allocated \in Nat
        BY <1>1, <1>2
    <2> QED
        BY <2>1, JunkIsBytes
<1> HIDE DEF more
<1>5. \A k \in 1..Len(buf.bytes) + Len(more) :
          (buf.bytes \o more)[k] = IF k <= Len(buf.bytes) THEN buf.bytes[k] ELSE more[k - Len(buf.bytes)]
    BY <1>1, <1>4, ConcatProperties
<1> QED
    BY <1>1, <1>3, <1>4, <1>5

LEMMA CopiedBytes ==
    ASSUME NEW buf, WellSized(buf), NEW offset \in Nat, NEW bytes \in Seq(Bytes),
           NEW k \in 1..buf.allocated
    PROVE  CopyIn(buf, offset, bytes).bytes[k] =
               IF k \in offset + 1..offset + Len(bytes) THEN bytes[k - offset] ELSE buf.bytes[k]
<1>1. buf \in Buffer /\ DOMAIN buf.bytes = 1..buf.allocated
    BY LenProperties DEF WellSized, Buffer
<1> DEFINE copied == [j \in DOMAIN buf.bytes |->
                         IF j \in offset + 1..offset + Len(bytes) THEN bytes[j - offset] ELSE buf.bytes[j]]
<1>2. CopyIn(buf, offset, bytes).bytes = copied
    <2>1. CopyIn(buf, offset, bytes) = [buf EXCEPT !.bytes = copied]
        BY DEF CopyIn
    <2> HIDE DEF copied
    <2> QED
        BY <1>1, <2>1 DEF Buffer
<1> QED
    BY <1>1, <1>2

\* What a file of size bytes holds before and after a write, in terms of its
\* buffer.
HeldBy(buf, size, newsize, offset, stop, bytes, old, new) ==
    /\ old = SubSeq(buf.bytes, 1, size)
    /\ new = SubSeq(CopyIn(Grown(buf, stop), offset, bytes).bytes, 1, newsize)

\* Only the bytes written differ.
Overwritten(size, newsize, offset, stop, bytes, old, new) ==
    /\ Len(old) = size /\ Len(new) = newsize /\ SubSeq(new, offset + 1, stop) = bytes
    /\ \A k \in DOMAIN old \ (offset + 1..stop) : new[k] = old[k]

LEMMA WrittenBytes ==
    ASSUME NEW buf, WellSized(buf), NEW size \in 0..buf.allocated,
           NEW offset \in Nat, NEW bytes \in Seq(Bytes), NEW stop \in Nat, stop = offset + Len(bytes),
           NEW newsize \in Nat, newsize = IF stop > size THEN stop ELSE size,
           NEW old, NEW new, HeldBy(buf, size, newsize, offset, stop, bytes, old, new)
    PROVE  Overwritten(size, newsize, offset, stop, bytes, old, new)
<1>1. buf.allocated \in Nat /\ buf.bytes \in Seq(Bytes \cup {Junk}) /\ Len(buf.bytes) = buf.allocated
    BY DEF WellSized, Buffer
<1>2. Len(bytes) \in Nat /\ \A k \in 1..Len(bytes) : bytes[k] \in Bytes
    BY LenProperties
<1>3. PICK grown : grown = Grown(buf, stop)
    OBVIOUS
<1>4. /\ WellSized(grown) /\ grown.allocated >= buf.allocated /\ grown.allocated >= stop
      /\ \A k \in 1..buf.allocated : grown.bytes[k] = buf.bytes[k]
    BY <1>3, GrownIsSized, GrownKeepsBytes
<1>5. PICK w : w = CopyIn(grown, offset, bytes)
    OBVIOUS
<1>6. WellSized(w) /\ w.allocated = grown.allocated
    BY <1>4, <1>5, CopyInIsSized
<1>7. /\ grown.allocated \in Nat /\ w.bytes \in Seq(Bytes \cup {Junk})
      /\ Len(w.bytes) = grown.allocated
    BY <1>4, <1>6 DEF WellSized, Buffer
<1>8. \A k \in 1..grown.allocated :
          w.bytes[k] = IF k \in offset + 1..stop THEN bytes[k - offset] ELSE grown.bytes[k]
    BY <1>4, <1>5, CopiedBytes
<1>9. /\ Len(old) = size /\ DOMAIN old = 1..size /\ \A k \in 1..size : old[k] = buf.bytes[k]
    BY <1>1, PrefixFacts DEF HeldBy
<1>10. newsize \in 0..grown.allocated /\ newsize >= stop /\ newsize >= size
    BY <1>1, <1>4, <1>7
<1>11. /\ Len(new) = newsize /\ \A k \in 1..newsize : new[k] = w.bytes[k]
    BY <1>3, <1>5, <1>7, <1>10, PrefixFacts DEF HeldBy
<1>12. \A k \in DOMAIN old \ (offset + 1..stop) : new[k] = old[k]
    <2> SUFFICES ASSUME NEW k \in 1..size, k \notin offset + 1..stop
                 PROVE  new[k] = old[k]
        BY <1>9
    <2>1. k \in 1..newsize /\ k \in 1..grown.allocated /\ k \in 1..buf.allocated
        BY <1>1, <1>7, <1>10
    <2> QED
        BY <1>4, <1>8, <1>9, <1>11, <2>1
<1>13. \A k \in offset + 1..stop : new[k] = bytes[k - offset] /\ bytes[k - offset] \in Bytes
    <2> SUFFICES ASSUME NEW k \in offset + 1..stop
                 PROVE  new[k] = bytes[k - offset] /\ bytes[k - offset] \in Bytes
        OBVIOUS
    <2>1. k \in 1..newsize /\ k \in 1..grown.allocated /\ k - offset \in 1..Len(bytes)
        BY <1>2, <1>7, <1>10
    <2> QED
        BY <1>2, <1>8, <1>11, <2>1
<1>14. PICK u : u = SubSeq(new, offset + 1, stop)
    OBVIOUS
<1>15. /\ u \in Seq(Bytes) /\ Len(u) = IF offset + 1 <= stop THEN stop - (offset + 1) + 1 ELSE 0
       /\ \A k \in 1..stop - (offset + 1) + 1 : u[k] = new[offset + 1 + k - 1]
    <2>1. \A k \in offset + 1..stop : new[k] \in Bytes
        BY <1>13
    <2> QED
        BY <1>14, <2>1, SubSeqProperties
<1>16. Len(u) = Len(bytes)
    BY <1>2, <1>15
<1>17. \A k \in 1..Len(u) : u[k] = bytes[k]
    <2> SUFFICES ASSUME NEW k \in 1..Len(u)
                 PROVE  u[k] = bytes[k]
        OBVIOUS
    <2>1. PICK j : j = offset + 1 + k - 1
        OBVIOUS
    <2>2. k \in 1..stop - (offset + 1) + 1 /\ j \in offset + 1..stop /\ j - offset = k
        BY <1>2, <1>16, <2>1
    <2>3. u[k] = new[j]
        BY <1>15, <2>1, <2>2
    <2> QED
        BY <1>13, <2>2, <2>3
<1>18. u = bytes
    BY <1>15, <1>16, <1>17, SeqEqual
<1> QED
    BY <1>9, <1>11, <1>12, <1>14, <1>18 DEF Overwritten

LEMMA WriteStores ==
    ASSUME StoreInv, StoreInv', TreeStep, FailureIsClean, NEW i \in fds,
           NEW offset \in Offsets, NEW bytes \in Payloads, Write(i, offset, bytes)
    PROVE  Store!Next
<1> DEFINE end == (offset + Len(bytes)) % SIZE_MOD
           node == [inode[i] EXCEPT !.size = SizeAfterWrite(i, end)]
<1>1. OK # ERR /\ i \in Inos /\ Exists(i) /\ Types /\ OneBufferPerFile
    BY DEF OK, ERR, StoreInv, IInv, DescriptorsExist, Exists
<1>2. CASE data' = data /\ inode' = inode /\ last' = Call("write", i, ERR)
    <2>1. last'.res # OK /\ last'.bytes = <<>>
        BY <1>1, <1>2 DEF Call
    <2> QED
        BY <2>1, FailureStores
<1>3. CASE /\ IsFile(i) /\ end >= offset
           /\ data' = [data EXCEPT ![BufferOf(i)] = RamfsWriteBuffer(i, offset, bytes)]
           /\ inode' = [inode EXCEPT ![i].size = SizeAfterWrite(i, end)]
           /\ last' = [Call("write", i, OK) EXCEPT !.offset = offset, !.arg = bytes]
    <2>1. /\ offset \in 0..SIZE_MOD - 1 /\ bytes \in Seq(Bytes) /\ Len(bytes) \in 0..SIZE_MOD - 1
          /\ SIZE_MOD \in Nat \ {0}
        BY VfsAssumption, PayloadAssumption, LenProperties
    <2>2. PICK stop \in Nat : stop = offset + Len(bytes) /\ stop = end
        <3>1. end = offset + Len(bytes)
            BY <1>3, <2>1, NoWrap
        <3> QED
            BY <2>1, <3>1
    <2>3. i \in StoredFiles
        BY <1>1, <1>3 DEF StoredFiles
    <2>4. PICK f \in Files, size \in Nat :
              /\ f = BufferOf(i) /\ WellSized(data[f]) /\ size = inode[i].size
              /\ size \in 0..data[f].allocated /\ inode[i] \in Node
        BY <2>3, FileFacts DEF WellSized
    <2> PICK buf : buf = data[f]
        OBVIOUS
    <2>5. PICK newsize \in Nat : /\ newsize = IF stop > size THEN stop ELSE size
                                 /\ newsize = SizeAfterWrite(i, end)
        BY <2>2, <2>4 DEF SizeAfterWrite
    <2>6. /\ inode'[i].size = newsize /\ inode'[i].private_field = inode[i].private_field
          /\ \A j \in Inos : j # i => inode'[j] = inode[j]
        <3>1. inode \in [Inos -> Node \cup {NULL}]
            BY <1>1 DEF Types
        <3>2. inode' = [inode EXCEPT ![i] = [inode[i] EXCEPT !.size = newsize]]
            BY <1>3, <2>5
        <3>3. inode'[i] = [inode[i] EXCEPT !.size = newsize]
            BY <1>1, <3>1, <3>2
        <3> QED
            BY <1>1, <2>4, <3>1, <3>2, <3>3 DEF Node
    <2>7. PICK written : written = CopyIn(Grown(buf, stop), offset, bytes)
        OBVIOUS
    <2>8. data' = [data EXCEPT ![f] = written]
        BY <1>3, <2>2, <2>4, <2>7 DEF RamfsWriteBuffer
    <2>9. data'[f] = written /\ \A g \in Files : g # f => data'[g] = data[g]
        BY <2>8 DEF StoreInv, BufferInv, BuffersSized
    <2>10. PICK old, new : old = SubSeq(buf.bytes, 1, size) /\ new = SubSeq(written.bytes, 1, newsize)
        OBVIOUS
    <2>11. BytesOf(i) = old /\ BytesOf(i)' = new
        <3>1. BufferOf(i)' = f
            BY <2>4, <2>6 DEF BufferOf
        <3> QED
            BY <2>4, <2>6, <2>9, <2>10, <3>1 DEF BytesOf
    <2>12. \A j \in StoredFiles : j # i => BytesOf(j)' = BytesOf(j)
        <3> SUFFICES ASSUME NEW j \in StoredFiles, j # i
                     PROVE  BytesOf(j)' = BytesOf(j)
            OBVIOUS
        <3>1. j \in Inos /\ Exists(j) /\ IsFile(j) /\ BufferOf(j) \in Files
            BY FileFacts
        <3>2. BufferOf(j) # f
            BY <1>1, <1>3, <2>4, <3>1 DEF OneBufferPerFile
        <3>3. inode'[j] = inode[j] /\ data'[BufferOf(j)] = data[BufferOf(j)] /\ BufferOf(j)' = BufferOf(j)
            BY <2>6, <2>9, <3>1, <3>2 DEF BufferOf
        <3> QED
            BY <3>3 DEF BytesOf
    <2>13. \A j \in Inos : Exists(j)' => Exists(j)
        BY <1>1, <2>6 DEF Exists
    <2>14. PICK path : path = PathOf(i)
        OBVIOUS
    <2>15. /\ path \in DOMAIN Content /\ PathOf(i)' = path /\ Dirs' = Dirs
           /\ Content' = [Content EXCEPT ![path] = new] /\ Content[path] = old
        BY <2>3, <2>11, <2>12, <2>13, <2>14, OneFileChanges
    <2>16. Overwritten(size, newsize, offset, stop, bytes, old, new)
        <3>1. WellSized(buf) /\ size \in 0..buf.allocated
            BY <2>4
        <3>2. offset \in Nat /\ bytes \in Seq(Bytes) /\ stop = offset + Len(bytes)
            BY <2>1, <2>2
        <3>3. newsize = IF stop > size THEN stop ELSE size
            BY <2>5
        <3>4. HeldBy(buf, size, newsize, offset, stop, bytes, old, new)
            BY <2>7, <2>10 DEF HeldBy
        <3> QED
            BY <3>1, <3>2, <3>3, <3>4, WrittenBytes
    <2>17. /\ DOMAIN Content' = DOMAIN Content /\ Content'[path] = new
           /\ \A p \in DOMAIN Content \ {path} : Content'[p] = Content[p]
        BY <2>15
    <2>18. Store!Write(path, offset, bytes)
        BY <2>2, <2>5, <2>15, <2>16, <2>17 DEF Store!Write, Overwritten
    <2>19. /\ last'.op = "write" /\ last'.ino = i /\ last'.res = OK /\ last'.offset = offset
           /\ last'.arg = bytes /\ last'.bytes = <<>>
        BY <1>3 DEF Call
    <2>20. /\ LatestCall'.op = "write" /\ LatestCall'.path = path /\ LatestCall'.offset = offset
           /\ LatestCall'.arg = bytes
        <3>1. LatestCall' = Seen(i)
            BY <2>19, CallSeen
        <3> QED
            BY <2>15, <2>19, <3>1 DEF Seen
    <2> QED
        BY <2>18, <2>19, <2>20 DEF Store!Next, Store!Answers
<1> QED
    BY <1>2, <1>3 DEF Write

-----------------------------------------------------------------------------
(* The other calls *)

LEMMA MountStores ==
    ASSUME StoreInv, StoreInv', TreeStep, NEW path, Mount(path)
    PROVE  Store!Next
<1>1. data' = data /\ last'.op = "mount" /\ last'.bytes = <<>>
    BY DEF Mount, Call
<1>2. CASE inode' = inode
    BY <1>1, <1>2, SameState, Unnoticed
<1>3. CASE inode' = [inode EXCEPT ![Root].private_field = RootPrivate]
    <2>1. Types /\ inode[Root] # NULL /\ Root \in Inos /\ inode[Root].mode = DIR
        BY VfsAssumption DEF StoreInv, IInv, RootIsDirectory, Exists, Root
    <2>2. \A i \in Inos : i # Root => inode'[i] = inode[i]
        BY <1>3, <2>1 DEF Types
    <2>3. \A i \in Inos : Exists(i)' => Exists(i)
        BY <2>1, <2>2 DEF Exists
    <2>4. \A i \in StoredFiles : BytesOf(i)' = BytesOf(i)
        <3> SUFFICES ASSUME NEW i \in StoredFiles
                     PROVE  BytesOf(i)' = BytesOf(i)
            OBVIOUS
        <3>1. i \in Inos /\ i # Root
            BY <2>1 DEF StoredFiles, IsFile, DIR, REG
        <3> QED
            BY <1>1, <2>2, <3>1 DEF BytesOf, BufferOf
    <2> QED
        BY <1>1, <2>3, <2>4, NothingStored, Unnoticed
<1> QED
    BY <1>2, <1>3 DEF Mount

\* The abstract store does not see that a listing starts.
LEMMA UnseenStep ==
    ASSUME StoreInv, StoreInv', TreeStep, UNCHANGED <<inode, data, last>>
    PROVE  UNCHANGED Store!vars
<1>1. Dirs' = Dirs /\ Content' = Content
    BY SameState
<1>2. \A i : PathOf(i)' = PathOf(i)
    BY DEF PathOf, Attached, Exists
<1>3. LatestCall' = LatestCall
    BY <1>2 DEF LatestCall
<1> QED
    BY <1>1, <1>3 DEF Store!vars

LEMMA StepStored ==
    ASSUME StoreInv, StoreInv', TreeStep, FailureIsClean, CreatorsInsist, [Next]_vars
    PROVE  [Store!Next]_(Store!vars)
<1>1. Paths \subseteq Seq(Names)
    BY VfsAssumption
<1>2. ASSUME NEW path \in Paths, Mount(path)
      PROVE  Store!Next
    BY <1>2, MountStores
<1>3. ASSUME NEW path \in Paths, Mkdir(path)
      PROVE  Store!Next
    BY <1>1, <1>3, MkdirStores
<1>4. ASSUME NEW path \in Paths, NEW flags \in OpenFlags, Open(path, flags)
      PROVE  Store!Next
    BY <1>1, <1>4, OpenStores DEF CreatorsInsist
<1>5. ASSUME NEW i \in fds, NEW offset \in Offsets, NEW limit \in Limits, Read(i, offset, limit)
      PROVE  Store!Next
    BY <1>5, ReadStores
<1>6. ASSUME NEW i \in fds, NEW offset \in Offsets, NEW bytes \in Payloads, Write(i, offset, bytes)
      PROVE  Store!Next
    BY <1>6, WriteStores
<1>7. ASSUME inode' = inode, data' = data, last'.bytes = <<>>, last'.op \in {"close", "readdir"}
      PROVE  Store!Next
    BY <1>7, SameState, Unnoticed
<1>8. ASSUME NEW i \in fds, Close(i)
      PROVE  Store!Next
    BY <1>7, <1>8 DEF Close, Call
<1>9. ASSUME NEW size \in BufferSizes, Readdir(size)
      PROVE  Store!Next
    BY <1>7, <1>9 DEF Readdir, Call
<1>10. ASSUME NEW i \in fds, StartListing(i)
       PROVE  UNCHANGED Store!vars
    BY <1>10, UnseenStep DEF StartListing
<1>11. CASE UNCHANGED vars
    BY <1>11, UnseenStep DEF vars
<1> QED
    BY <1>2, <1>3, <1>4, <1>5, <1>6, <1>8, <1>9, <1>10, <1>11 DEF Next

LEMMA StartsEmpty ==
    ASSUME StoreInv, Init
    PROVE  Store!Init
<1>1. \A i \in Inos : Exists(i) <=> i = Root
    BY VfsAssumption DEF Init, Exists, Root, StoreInv, IInv, RootIsDirectory
<1>2. PathInv /\ RegularFiles /\ Exists(Root) /\ inode[Root].mode = DIR /\ Root \in Inos
    BY <1>1, InvHasPaths, FilesAreRegular DEF StoreInv, IInv, RootIsDirectory, Exists
<1>3. Dirs = {<<>>}
    <2>1. {j \in Inos : Exists(j) /\ inode[j].mode = DIR} = {Root}
        BY <1>1, <1>2
    <2>2. PathOf(Root) = <<>>
        BY <1>2 DEF PathInv
    <2> QED
        BY <2>1, <2>2 DEF Dirs
<1>4. StoredFiles = {}
    BY <1>1, <1>2 DEF RegularFiles, StoredFiles, DIR, REG
<1>5. Content = [p \in {} |-> <<>>]
    BY <1>4 DEF Content
<1>6. LatestCall.op = "init" /\ last.bytes = <<>>
    BY DEF Init, Call, LatestCall
<1> QED
    BY <1>3, <1>5, <1>6 DEF Store!Init

\* Callers that create with O_EXCL only see a store of named byte sequences:
\* whatever the order of their calls, and whichever fail, a read gives the bytes
\* last written to the file of that path, a write changes that file only, and
\* nothing else changes a byte but truncation.
THEOREM StoreImplemented ==
    ASSUME CreatorsInsist
    PROVE  Spec => ImplementsFileStore
<1> DEFINE Inv == StoreInv /\ last.res \in Codes
<1>1. Init => Inv
    <2>1. Init => NamedInv
        BY InitLists DEF ListingInv
    <2>2. Init => last.res \in Codes
        BY DEF Init, Call, Codes
    <2> QED
        BY <2>1, <2>2, InitEstablishes, InitWhole, InitSized DEF StoreInv
<1>2. Inv /\ [Next]_vars => Inv' /\ TreeStep /\ FailureIsClean
    <2> SUFFICES ASSUME Inv, [Next]_vars
                 PROVE  Inv' /\ TreeStep /\ FailureIsClean
        OBVIOUS
    <2>1. IInv' /\ TreeStep
        BY StepKeeps, StepTree DEF StoreInv
    <2>2. TreeInv' /\ FailureIsClean
        BY StepWhole DEF StoreInv
    <2>3. NamedInv'
        BY <2>1, NamedStays DEF StoreInv
    <2>4. BufferInv' /\ last'.res \in Codes
        BY StepSized DEF StoreInv, Answered
    <2> QED
        BY <2>1, <2>2, <2>3, <2>4 DEF StoreInv
<1>3. Inv /\ [Next]_vars => Inv' /\ [Store!Next]_(Store!vars)
    BY <1>2, StepStored
<1>4. Init => Store!Init
    BY <1>1, StartsEmpty
<1> QED
    BY <1>1, <1>3, <1>4, PTL DEF Spec, Store!Spec, ImplementsFileStore
=============================================================================
