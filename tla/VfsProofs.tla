----------------------------- MODULE VfsProofs -----------------------------
(***************************************************************************)
(* Proofs about Vfs, for every set of names, flags and paths, every bound  *)
(* on the inodes and every sequence of calls.                              *)
(***************************************************************************)
EXTENDS Vfs, FiniteSetTheorems, WellFoundedInduction, SequenceTheorems, TLAPS

(* Sequences and numbers *)

\* A nonempty set of numbers that is bounded has a least element.
LEMMA LeastNumber ==
    ASSUME NEW bound \in Nat, NEW S \in SUBSET (0..bound), S # {}
    PROVE  \E n \in S : \A k \in S : n <= k
<1> DEFINE All == 0..bound
           Intervals == {0..k : k \in S}
<1>1. Intervals \subseteq FiniteSubsetsOf(All)
    <2>1. IsFiniteSet(All)
        BY FS_Interval
    <2>2. \A k \in S : 0..k \in SUBSET All
        OBVIOUS
    <2> QED
        BY <2>1, <2>2, FS_FiniteSubsetsOfFinite
<1>2. IsWellFoundedOn(StrictSubsetOrdering(All), FiniteSubsetsOf(All))
    BY FS_StrictSubsetOrderingWellFounded
<1>3. PICK least \in Intervals : \A other \in Intervals : <<other, least>> \notin StrictSubsetOrdering(All)
    <2>1. Intervals # {}
        OBVIOUS
    <2> HIDE DEF Intervals, All
    <2> QED
        BY <1>1, <1>2, <2>1, WFMin
<1>4. PICK n \in S : least = 0..n
    OBVIOUS
<1>5. ASSUME NEW k \in S, k < n
      PROVE  FALSE
    <2>1. 0..k \subseteq 0..n /\ 0..k # 0..n /\ 0..k \in SUBSET All /\ 0..n \in SUBSET All
        <3>1. n \in 0..n /\ n \notin 0..k
            BY <1>5
        <3> QED
            BY <1>5, <3>1
    <2>2. <<0..k, least>> \in StrictSubsetOrdering(All)
        BY <1>4, <2>1 DEF StrictSubsetOrdering
    <2> QED
        BY <1>3, <2>2
<1> QED
    BY <1>5

-----------------------------------------------------------------------------
(* The invariant *)

Types ==
    /\ inode \in [Inos -> Node \cup {NULL}]
    /\ ramfs_file_count \in Nat \ {0}
    /\ vfs_inode_count \in Nat
    /\ mounted \in BOOLEAN

RootIsDirectory == Exists(Root) /\ inode[Root].mode = DIR /\ vfs_inode_count > Root

\* Inode numbers are handed out upwards.
Fresh == \A i \in Inos : i >= vfs_inode_count => inode[i] = NULL

DescriptorsExist == \A i \in fds : Exists(i)

ChildrenExist ==
    \A d \in {i \in Inos : Attached(i)} : \A k \in DOMAIN Children(d) : Exists(Children(d)[k])

\* Indices of buffers are handed out upwards, too, from 1 on.
BuffersHandedOut ==
    \A i \in Inos : Exists(i) /\ IsFile(i) => BufferOf(i) > 0 /\ BufferOf(i) < ramfs_file_count

IInv ==
    /\ Types /\ RootIsDirectory /\ Fresh /\ DescriptorsExist /\ ChildrenExist
    /\ NamesIdentify /\ ParentsAgree /\ OneBufferPerFile /\ BuffersHandedOut

LEMMA NodeFacts ==
    ASSUME Types
    PROVE  /\ \A i \in Inos : Exists(i) => inode[i] \in Node
           /\ \A i \in Inos : Attached(i) =>
                 /\ inode[i].private_field \in Private /\ Children(i) \in Seq(Inos)
                 /\ DOMAIN Children(i) = 1..Len(Children(i)) /\ Len(Children(i)) \in Nat
                 /\ \A k \in DOMAIN Children(i) : Children(i)[k] \in Inos
<1>1. \A i \in Inos : Exists(i) => inode[i] \in Node
    BY DEF Types, Exists
<1>2. \A i \in Inos : Attached(i) => inode[i].private_field \in Private
    BY <1>1 DEF Attached, Node
<1>3. \A i \in Inos : Attached(i) => Children(i) \in Seq(Inos)
    BY <1>2 DEF Private, Children
<1>4. \A s \in Seq(Inos) : DOMAIN s = 1..Len(s) /\ Len(s) \in Nat /\ \A k \in DOMAIN s : s[k] \in Inos
    BY LenProperties
<1> QED
    BY <1>1, <1>2, <1>3, <1>4

LEMMA InitEstablishes == Init => IInv
<1> SUFFICES ASSUME Init
             PROVE  IInv
    OBVIOUS
<1>1. /\ inode = [i \in Inos |-> IF i = Root THEN NewInode(NULL, DIR) ELSE NULL]
      /\ ramfs_file_count = 1 /\ vfs_inode_count = 2 /\ mounted = FALSE /\ fds = {}
    BY DEF Init
<1>2. NewInode(NULL, DIR) \in Node /\ NewInode(NULL, DIR).mode = DIR
      /\ NewInode(NULL, DIR).private_field = NULL
    BY DEF NewInode, Node
<1>3. NewInode(NULL, DIR) # NULL /\ Root \in Inos /\ Inos \subseteq Nat
    BY <1>2, RamfsAssumption, VfsAssumption DEF Root
<1>4. Types
    <2>1. inode \in [Inos -> Node \cup {NULL}]
        BY <1>1, <1>2
    <2>2. ramfs_file_count \in Nat \ {0} /\ vfs_inode_count \in Nat
        BY <1>1
    <2>3. mounted \in BOOLEAN
        BY <1>1
    <2> QED
        BY <2>1, <2>2, <2>3 DEF Types
<1>5. \A i \in Inos : Exists(i) => i = Root
    BY <1>1 DEF Exists
<1>6. \A i \in Inos : ~Attached(i)
    BY <1>1, <1>2, <1>3, <1>5 DEF Attached
<1>7. RootIsDirectory
    BY <1>1, <1>2, <1>3 DEF RootIsDirectory, Exists, Root
<1>8. Fresh
    BY <1>1, <1>3 DEF Fresh, Root
<1>9. \A i \in Inos : Exists(i) => ~IsFile(i)
    BY <1>6 DEF Attached, IsFile
<1> QED
    BY <1>1, <1>4, <1>6, <1>7, <1>8, <1>9
    DEF IInv, DescriptorsExist, ChildrenExist, NamesIdentify, ParentsAgree, OneBufferPerFile,
        BuffersHandedOut

-----------------------------------------------------------------------------
(* Steps that attach nothing *)

\* Nodes keep name and mode; a private field stays, is lost, or is the empty
\* one of the root.
Kept(i) ==
    /\ inode'[i] # NULL /\ inode'[i].name = inode[i].name /\ inode'[i].mode = inode[i].mode
    /\ \/ inode'[i].private_field = inode[i].private_field
       \/ inode'[i].private_field = NULL
       \/ i = Root /\ inode'[i].private_field = RootPrivate

LEMMA KeepingStep ==
    ASSUME IInv,
           inode' \in [Inos -> Node \cup {NULL}],
           \A i \in Inos : inode[i] = NULL => inode'[i] = NULL,
           \A i \in Inos : Exists(i) => Kept(i),
           vfs_inode_count' \in Nat, vfs_inode_count' >= vfs_inode_count,
           ramfs_file_count' \in Nat, ramfs_file_count' >= ramfs_file_count,
           mounted' \in BOOLEAN,
           \A i \in fds' : Exists(i)
    PROVE  IInv'
<1>1. Types /\ RootIsDirectory /\ Fresh /\ DescriptorsExist /\ ChildrenExist
      /\ NamesIdentify /\ ParentsAgree /\ OneBufferPerFile /\ BuffersHandedOut
    BY DEF IInv
<1>2. Types'
    BY <1>1 DEF Types
<1>3. \A i \in Inos : Exists(i)' <=> Exists(i)
    BY DEF Exists, Kept
<1>4. Root \in Inos /\ Inos \subseteq Nat \ {0}
    BY RamfsAssumption, VfsAssumption DEF Root
<1>5. RootIsDirectory'
    <2>1. Exists(Root) /\ inode[Root].mode = DIR /\ vfs_inode_count > Root
        BY <1>1 DEF RootIsDirectory
    <2>2. Kept(Root) /\ Exists(Root)'
        BY <1>3, <1>4, <2>1
    <2>3. inode'[Root].mode = DIR
        BY <2>1, <2>2 DEF Kept
    <2>4. vfs_inode_count' > Root
        BY <1>1, <1>4, <2>1 DEF Types
    <2> QED
        BY <2>2, <2>3, <2>4 DEF RootIsDirectory
<1>6. Fresh'
    BY <1>1, <1>4 DEF Fresh, Types
<1>7. DescriptorsExist'
    BY <1>3 DEF DescriptorsExist, Exists
<1>8. \A i \in Inos : Attached(i)' =>
          \/ /\ Attached(i) /\ inode'[i].private_field = inode[i].private_field
             /\ Children(i)' = Children(i)
          \/ i = Root /\ Children(i)' = <<>>
    <2> SUFFICES ASSUME NEW i \in Inos, Attached(i)'
                 PROVE  \/ /\ Attached(i) /\ inode'[i].private_field = inode[i].private_field
                           /\ Children(i)' = Children(i)
                        \/ i = Root /\ Children(i)' = <<>>
        OBVIOUS
    <2>1. Exists(i) /\ inode'[i].private_field # NULL
        BY <1>3 DEF Attached
    <2>2. Kept(i)
        BY <2>1
    <2>3. CASE inode'[i].private_field = inode[i].private_field
        BY <2>1, <2>3 DEF Attached, Children
    <2>4. CASE i = Root /\ inode'[i].private_field = RootPrivate
        BY <2>4 DEF Children, RootPrivate, NewPrivate
    <2> QED
        BY <2>1, <2>2, <2>3, <2>4 DEF Kept
<1>9. DOMAIN <<>> = {}
    OBVIOUS
<1>10. ChildrenExist'
    <2> SUFFICES ASSUME NEW d \in Inos, Attached(d)', NEW k \in DOMAIN Children(d)'
                 PROVE  Exists(Children(d)[k])'
        BY DEF ChildrenExist
    <2>1. Attached(d) /\ Children(d)' = Children(d)
        BY <1>8, <1>9
    <2>2. Exists(Children(d)[k])
        BY <1>1, <2>1 DEF ChildrenExist
    <2>3. Children(d)[k] \in Inos /\ inode'[Children(d)[k]] # NULL
        BY <1>3, <2>2 DEF Exists
    <2> QED
        BY <2>1, <2>3 DEF Exists
<1>11. NamesIdentify'
    <2> SUFFICES ASSUME NEW d \in Inos, NEW e \in Inos, Attached(d)', Attached(e)',
                        NEW j \in DOMAIN Children(d)', NEW k \in DOMAIN Children(e)'
                 PROVE  /\ Children(d)'[j] = Children(e)'[k] => d = e /\ j = k
                        /\ d = e /\ inode'[Children(d)'[j]].name = inode'[Children(d)'[k]].name => j = k
        BY DEF NamesIdentify
    <2>1. Attached(d) /\ Attached(e) /\ Children(d)' = Children(d) /\ Children(e)' = Children(e)
        BY <1>8, <1>9
    <2>2. /\ Children(d)[j] = Children(e)[k] => d = e /\ j = k
          /\ d = e /\ inode[Children(d)[j]].name = inode[Children(d)[k]].name => j = k
        BY <1>1, <2>1 DEF NamesIdentify
    <2>3. Exists(Children(d)[j]) /\ Exists(Children(e)[k])
        BY <1>1, <2>1 DEF ChildrenExist
    <2>4. /\ inode'[Children(d)[j]].name = inode[Children(d)[j]].name
          /\ inode'[Children(e)[k]].name = inode[Children(e)[k]].name
        BY <2>3 DEF Kept, Exists
    <2> QED
        BY <2>1, <2>2, <2>4
<1>12. ParentsAgree'
    <2> SUFFICES ASSUME NEW d \in Inos, Attached(d)', NEW k \in DOMAIN Children(d)'
                 PROVE  /\ Children(d)'[k] > d
                        /\ Attached(Children(d)[k])' => inode'[Children(d)'[k]].private_field.parent = d
        BY DEF ParentsAgree, Range
    <2>1. Attached(d) /\ Children(d)' = Children(d)
        BY <1>8, <1>9
    <2>2. Exists(Children(d)[k]) /\ Children(d)[k] \in Inos /\ Children(d)[k] \in Range(Children(d))
        BY <1>1, <2>1 DEF ChildrenExist, Exists, Range
    <2>3. Children(d)[k] > d /\ Children(d)[k] # Root
        BY <1>1, <1>4, <2>1, <2>2 DEF ParentsAgree, Root
    <2>4. Attached(Children(d)[k]) => inode[Children(d)[k]].private_field.parent = d
        BY <1>1, <2>1, <2>2 DEF ParentsAgree
    <2>5. Attached(Children(d)[k])' => inode'[Children(d)[k]].private_field.parent = d
        BY <1>8, <2>1, <2>2, <2>3, <2>4
    <2> QED
        BY <2>1, <2>3, <2>5
<1>13. \A i \in Inos : Exists(i)' /\ IsFile(i)' =>
          Exists(i) /\ IsFile(i) /\ BufferOf(i)' = BufferOf(i)
    <2> SUFFICES ASSUME NEW i \in Inos, Exists(i)', IsFile(i)'
                 PROVE  Exists(i) /\ IsFile(i) /\ BufferOf(i)' = BufferOf(i)
        OBVIOUS
    <2>1. Exists(i) /\ Kept(i) /\ inode'[i].mode = REG /\ inode'[i].private_field # NULL
        BY <1>3 DEF IsFile
    <2>2. DIR # REG
        BY DEF DIR, REG
    <2>3. i # Root
        BY <1>1, <2>1, <2>2 DEF RootIsDirectory, Kept
    <2> QED
        BY <2>1, <2>3 DEF Kept, IsFile, BufferOf
<1>14. OneBufferPerFile'
    BY <1>1, <1>13 DEF OneBufferPerFile, Exists
<1>15. BuffersHandedOut'
    <2> SUFFICES ASSUME NEW i \in Inos, Exists(i)', IsFile(i)'
                 PROVE  BufferOf(i)' > 0 /\ BufferOf(i)' < ramfs_file_count'
        BY DEF BuffersHandedOut
    <2>1. Exists(i) /\ IsFile(i) /\ BufferOf(i)' = BufferOf(i)
        BY <1>13
    <2>2. BufferOf(i) > 0 /\ BufferOf(i) < ramfs_file_count
        BY <1>1, <2>1 DEF BuffersHandedOut
    <2>3. BufferOf(i) \in Nat
        <3>1. inode[i].private_field \in Private
            BY <1>1, <2>1, NodeFacts DEF Attached, IsFile
        <3> QED
            BY <3>1 DEF Private, BufferOf
    <2> QED
        BY <1>1, <2>1, <2>2, <2>3 DEF Types
<1> QED
    BY <1>2, <1>5, <1>6, <1>7, <1>10, <1>11, <1>12, <1>14, <1>15 DEF IInv

-----------------------------------------------------------------------------
(* Steps that attach a new inode *)

\* What attaching an inode that was free changes.
LEMMA AttachFacts ==
    ASSUME Types, NEW d \in Inos, Attached(d), NEW c \in Inos, inode[c] = NULL,
           NEW name \in Names, NEW mode \in {DIR, REG}, NEW file \in Nat,
           inode' = Attach(d, c, NewInode(name, mode), NewPrivate(file, d))
    PROVE  /\ inode' \in [Inos -> Node \cup {NULL}]
           /\ \A i \in Inos : Exists(i)' <=> Exists(i) \/ i = c
           /\ \A i \in Inos \ {c, d} : inode'[i] = inode[i]
           /\ \A i \in Inos : Exists(i) =>
                 /\ inode'[i].name = inode[i].name /\ inode'[i].mode = inode[i].mode
                 /\ inode'[i].size = inode[i].size
                 /\ Attached(i)' <=> Attached(i)
                 /\ Attached(i) => /\ BufferOf(i)' = BufferOf(i)
                                   /\ inode'[i].private_field.parent = inode[i].private_field.parent
                                   /\ i # d => Children(i)' = Children(i)
           /\ DOMAIN Children(d)' = 1..Len(Children(d)) + 1
           /\ Children(d)'[Len(Children(d)) + 1] = c
           /\ \A k \in 1..Len(Children(d)) : Children(d)'[k] = Children(d)[k]
           /\ Attached(c)' /\ Children(c)' = <<>>
           /\ inode'[c].name = name /\ inode'[c].mode = mode /\ inode'[c].size = 0
           /\ inode'[c].private_field.parent = d /\ BufferOf(c)' = file
<1> DEFINE new == [NewInode(name, mode) EXCEPT !.private_field = NewPrivate(file, d)]
           longer == Append(Children(d), c)
           dirp == [inode[d].private_field EXCEPT !.children = longer]
           n == Len(Children(d))
<1>2. NULL \notin Inos \cup Private \cup Node
    BY RamfsAssumption
<1>3. /\ ~Exists(c) /\ c # d /\ Exists(d)
      /\ inode[d] \in Node /\ inode[d].private_field \in Private
    BY NodeFacts DEF Exists, Attached
<1>4. /\ n \in Nat /\ Children(d) \in Seq(Inos) /\ DOMAIN Children(d) = 1..n
    BY NodeFacts
<1>5. /\ longer \in Seq(Inos) /\ DOMAIN longer = 1..n + 1 /\ longer[n + 1] = c
      /\ \A k \in 1..n : longer[k] = Children(d)[k]
    <2>1. /\ longer \in Seq(Inos) /\ Len(longer) = n + 1 /\ longer[n + 1] = c
          /\ \A k \in 1..n : longer[k] = Children(d)[k]
        BY <1>4, AppendProperties
    <2>2. DOMAIN longer = 1..Len(longer)
        BY <2>1, LenProperties
    <2> QED
        BY <2>1, <2>2
<1>6. /\ new \in Node /\ new.name = name /\ new.mode = mode /\ new.size = 0
      /\ new.private_field = NewPrivate(file, d)
      /\ NewPrivate(file, d) \in Private /\ NewPrivate(file, d).children = <<>>
      /\ NewPrivate(file, d).parent = d /\ NewPrivate(file, d).file = file
    <2>1. <<>> \in Seq(Inos)
        BY EmptySeq
    <2>2. NewPrivate(file, d) \in Private
        BY <2>1 DEF NewPrivate, Private
    <2> QED
        BY <2>2 DEF NewPrivate, NewInode, Node
<1>7. /\ inode'[c] = new
      /\ inode'[d] = [inode[d] EXCEPT !.private_field = dirp]
      /\ \A i \in Inos \ {c, d} : inode'[i] = inode[i]
    BY <1>3 DEF Attach, Types
<1> HIDE DEF new, longer, n
<1>8. /\ dirp \in Private /\ dirp.children = longer
      /\ dirp.file = inode[d].private_field.file /\ dirp.parent = inode[d].private_field.parent
    BY <1>3, <1>5 DEF Private
<1> HIDE DEF dirp
<1>9. /\ inode'[d] \in Node /\ inode'[d].private_field = dirp
      /\ inode'[d].name = inode[d].name /\ inode'[d].mode = inode[d].mode
      /\ inode'[d].size = inode[d].size
    BY <1>3, <1>7, <1>8 DEF Node
<1>10. inode' \in [Inos -> Node \cup {NULL}]
    <2>1. inode' = [i \in Inos |-> inode'[i]]
        BY DEF Attach, Types
    <2>2. \A i \in Inos : inode'[i] \in Node \cup {NULL}
        BY <1>6, <1>7, <1>9 DEF Types
    <2> QED
        BY <2>1, <2>2
<1>12. \A i \in Inos : Exists(i)' <=> Exists(i) \/ i = c
    BY <1>2, <1>3, <1>6, <1>7, <1>9 DEF Exists
<1>13. \A i \in Inos : Exists(i) =>
          /\ inode'[i].name = inode[i].name /\ inode'[i].mode = inode[i].mode
          /\ inode'[i].size = inode[i].size
          /\ Attached(i)' <=> Attached(i)
          /\ Attached(i) => /\ BufferOf(i)' = BufferOf(i)
                            /\ inode'[i].private_field.parent = inode[i].private_field.parent
                            /\ i # d => Children(i)' = Children(i)
    <2> SUFFICES ASSUME NEW i \in Inos, Exists(i)
                 PROVE  /\ inode'[i].name = inode[i].name /\ inode'[i].mode = inode[i].mode
                        /\ inode'[i].size = inode[i].size
                        /\ Attached(i)' <=> Attached(i)
                        /\ Attached(i) =>
                              /\ BufferOf(i)' = BufferOf(i)
                              /\ inode'[i].private_field.parent = inode[i].private_field.parent
                              /\ i # d => Children(i)' = Children(i)
        OBVIOUS
    <2>1. i # c /\ Exists(i)'
        BY <1>3, <1>12
    <2>2. CASE i = d
        <3>1. inode'[i].private_field = dirp /\ dirp # NULL
            BY <1>2, <1>8, <1>9, <2>2
        <3>2. Attached(i)' /\ Attached(i)
            BY <2>1, <2>2, <3>1 DEF Attached
        <3> QED
            BY <1>8, <1>9, <2>2, <3>1, <3>2 DEF BufferOf
    <2>3. CASE i # d
        <3>1. inode'[i] = inode[i]
            BY <1>7, <2>1, <2>3
        <3> QED
            BY <2>1, <3>1 DEF Attached, BufferOf, Children
    <2> QED
        BY <2>2, <2>3
<1>14. Children(d)' = longer /\ Attached(c)' /\ Children(c)' = <<>>
    BY <1>2, <1>6, <1>7, <1>8, <1>9, <1>12 DEF Children, Attached
<1>15. /\ inode'[c].name = name /\ inode'[c].mode = mode /\ inode'[c].size = 0
       /\ inode'[c].private_field.parent = d /\ BufferOf(c)' = file
    BY <1>6, <1>7 DEF BufferOf
<1> QED
    BY <1>5, <1>7, <1>10, <1>12, <1>13, <1>14, <1>15 DEF n

\* An inode that was free becomes the last child of d, under a name that d
\* has not given yet.
LEMMA AttachingStep ==
    ASSUME IInv, NEW d \in Inos, Attached(d),
           NEW c \in Inos, c = vfs_inode_count,
           NEW name \in Names, NEW mode \in {DIR, REG}, NEW file \in Nat,
           \A k \in DOMAIN Children(d) : inode[Children(d)[k]].name # name,
           inode' = Attach(d, c, NewInode(name, mode), NewPrivate(file, d)),
           vfs_inode_count' = c + 1,
           ramfs_file_count' \in Nat, ramfs_file_count' >= ramfs_file_count,
           mode = REG => file = ramfs_file_count /\ ramfs_file_count' = ramfs_file_count + 1,
           mounted' \in BOOLEAN,
           fds' \subseteq fds \cup {c}
    PROVE  IInv'
<1> DEFINE n == Len(Children(d))
<1>1. Types /\ RootIsDirectory /\ Fresh /\ DescriptorsExist /\ ChildrenExist
      /\ NamesIdentify /\ ParentsAgree /\ OneBufferPerFile /\ BuffersHandedOut
    BY DEF IInv
<1>2. /\ Inos \subseteq Nat \ {0} /\ NULL \notin Inos \cup Private \cup Node /\ Root \in Inos /\ DIR # REG
    BY RamfsAssumption, VfsAssumption DEF Root, DIR, REG
<1>3. /\ ~Exists(c) /\ c # d /\ d < c /\ Exists(d) /\ inode[c] = NULL
      /\ inode[d] \in Node /\ inode[d].private_field \in Private
    BY <1>1, <1>2, NodeFacts DEF Fresh, Exists, Attached, Types
<1>4. /\ n \in Nat /\ DOMAIN Children(d) = 1..n
    BY <1>1, NodeFacts
<1>5. /\ DOMAIN Children(d)' = 1..n + 1 /\ Children(d)'[n + 1] = c
      /\ \A k \in 1..n : Children(d)'[k] = Children(d)[k]
    BY <1>1, <1>3, AttachFacts
<1>6. /\ inode'[c].name = name /\ inode'[c].mode = mode /\ inode'[c].private_field.parent = d
      /\ BufferOf(c)' = file
    BY <1>1, <1>3, AttachFacts
<1>7. \A i \in Inos \ {c, d} : inode'[i] = inode[i]
    BY <1>1, <1>3, AttachFacts
<1> HIDE DEF n
<1>10. inode' \in [Inos -> Node \cup {NULL}]
    BY <1>1, <1>3, AttachFacts
<1>11. Types'
    BY <1>1, <1>2, <1>10 DEF Types
<1>12. \A i \in Inos : Exists(i)' <=> Exists(i) \/ i = c
    BY <1>1, <1>3, AttachFacts
<1>13. \A i \in Inos : Exists(i) =>
          /\ inode'[i].name = inode[i].name /\ inode'[i].mode = inode[i].mode
          /\ Attached(i)' <=> Attached(i)
          /\ Attached(i) => /\ BufferOf(i)' = BufferOf(i)
                            /\ inode'[i].private_field.parent = inode[i].private_field.parent
                            /\ i # d => Children(i)' = Children(i)
    BY <1>1, <1>3, AttachFacts
<1>14. Attached(c)' /\ Children(c)' = <<>>
    BY <1>1, <1>3, AttachFacts
<1>15. \A i \in Inos : Attached(i)' => (Attached(i) /\ i # c) \/ i = c
    BY <1>12, <1>13 DEF Attached
\* A child after the step is one from before it, or the new one.
<1>16. ASSUME NEW i \in Inos, Attached(i)', NEW k \in DOMAIN Children(i)'
       PROVE  \/ /\ Attached(i) /\ k \in DOMAIN Children(i) /\ Children(i)'[k] = Children(i)[k]
                 /\ Children(i)[k] \in Inos /\ Exists(Children(i)[k]) /\ Children(i)[k] # c
              \/ i = d /\ k = n + 1 /\ Children(i)'[k] = c
    <2>1. i # c
        <3>1. DOMAIN <<>> = {}
            OBVIOUS
        <3> QED
            BY <1>14, <1>16, <3>1
    <2>2. Attached(i) /\ Exists(i)
        BY <1>15, <1>16, <2>1 DEF Attached
    <2>3. \A j \in DOMAIN Children(i) : /\ Children(i)[j] \in Inos
                                        /\ Exists(Children(i)[j]) /\ Children(i)[j] # c
        BY <1>1, <1>3, <2>2 DEF ChildrenExist, Exists
    <2>4. CASE i # d
        BY <1>13, <1>16, <2>2, <2>3, <2>4
    <2>5. CASE i = d
        <3>1. k \in 1..n \/ k = n + 1
            BY <1>4, <1>5, <1>14, <1>16, <2>5
        <3> QED
            BY <1>4, <1>5, <1>14, <2>2, <2>3, <2>5, <3>1
    <2> QED
        BY <2>4, <2>5
<1>17. RootIsDirectory'
    BY <1>1, <1>2, <1>12, <1>13 DEF RootIsDirectory, Types
<1>18. Fresh'
    <2> SUFFICES ASSUME NEW i \in Inos, i >= c + 1
                 PROVE  inode'[i] = NULL
        BY DEF Fresh
    <2>1. i # c /\ i # d /\ i >= vfs_inode_count
        BY <1>2, <1>3
    <2> QED
        BY <1>1, <1>7, <2>1 DEF Fresh
<1>19. DescriptorsExist'
    <2>1. \A i \in fds' : i \in Inos /\ (Exists(i) \/ i = c)
        BY <1>1 DEF DescriptorsExist, Exists
    <2> QED
        BY <1>12, <2>1 DEF DescriptorsExist
<1>20. ChildrenExist'
    <2> SUFFICES ASSUME NEW i \in Inos, Attached(i)', NEW k \in DOMAIN Children(i)'
                 PROVE  Exists(Children(i)[k])'
        BY DEF ChildrenExist
    <2>1. Children(i)'[k] \in Inos /\ (Exists(Children(i)'[k]) \/ Children(i)'[k] = c)
        BY <1>16
    <2>2. inode'[Children(i)'[k]] # NULL
        BY <1>12, <2>1 DEF Exists
    <2> QED
        BY <2>1, <2>2 DEF Exists
<1>21. NamesIdentify'
    <2> SUFFICES ASSUME NEW i \in Inos, NEW e \in Inos, Attached(i)', Attached(e)',
                        NEW j \in DOMAIN Children(i)', NEW k \in DOMAIN Children(e)'
                 PROVE  /\ Children(i)'[j] = Children(e)'[k] => i = e /\ j = k
                        /\ i = e /\ inode'[Children(i)'[j]].name = inode'[Children(i)'[k]].name => j = k
        BY DEF NamesIdentify
    <2> DEFINE Old(v, m) == /\ Attached(v) /\ m \in DOMAIN Children(v)
                            /\ Children(v)'[m] = Children(v)[m]
                            /\ Children(v)[m] \in Inos /\ Exists(Children(v)[m])
                            /\ Children(v)[m] # c
               New(v, m) == v = d /\ m = n + 1 /\ Children(v)'[m] = c
    <2>1. Old(i, j) \/ New(i, j)
        BY <1>16
    <2>2. Old(e, k) \/ New(e, k)
        BY <1>16
    <2>3. inode'[c].name = name
        BY <1>6, <1>7
    <2>4. CASE Old(i, j) /\ Old(e, k)
        <3>1. /\ inode'[Children(i)[j]].name = inode[Children(i)[j]].name
              /\ inode'[Children(e)[k]].name = inode[Children(e)[k]].name
            BY <1>13, <2>4
        <3>2. /\ Children(i)[j] = Children(e)[k] => i = e /\ j = k
              /\ i = e /\ inode[Children(i)[j]].name = inode[Children(i)[k]].name => j = k
            BY <1>1, <2>4 DEF NamesIdentify
        <3> QED
            BY <2>4, <3>1, <3>2
    <2>5. CASE Old(i, j) /\ New(e, k)
        <3>1. Children(i)'[j] # Children(e)'[k]
            BY <2>5
        <3>2. ASSUME i = e
              PROVE  inode'[Children(i)'[j]].name # inode'[Children(i)'[k]].name
            <4>1. inode'[Children(d)[j]].name = inode[Children(d)[j]].name
                BY <1>13, <2>5, <3>2
            <4> QED
                BY <2>3, <2>5, <3>2, <4>1
        <3> QED
            BY <3>1, <3>2
    <2>6. CASE New(i, j) /\ Old(e, k)
        <3>1. Children(i)'[j] # Children(e)'[k]
            BY <2>6
        <3>2. ASSUME i = e
              PROVE  inode'[Children(i)'[j]].name # inode'[Children(i)'[k]].name
            <4>1. inode'[Children(d)[k]].name = inode[Children(d)[k]].name
                BY <1>13, <2>6, <3>2
            <4> QED
                BY <2>3, <2>6, <3>2, <4>1
        <3> QED
            BY <3>1, <3>2
    <2>7. CASE New(i, j) /\ New(e, k)
        BY <2>7
    <2> QED
        BY <2>1, <2>2, <2>4, <2>5, <2>6, <2>7
<1>22. ParentsAgree'
    <2> SUFFICES ASSUME NEW i \in Inos, Attached(i)', NEW k \in DOMAIN Children(i)'
                 PROVE  /\ Children(i)'[k] > i
                        /\ Attached(Children(i)[k])' => inode'[Children(i)'[k]].private_field.parent = i
        BY DEF ParentsAgree, Range
    <2>1. CASE /\ Attached(i) /\ k \in DOMAIN Children(i) /\ Children(i)'[k] = Children(i)[k]
               /\ Children(i)[k] \in Inos /\ Exists(Children(i)[k]) /\ Children(i)[k] # c
        <3>1. Children(i)[k] \in Range(Children(i))
            BY <2>1 DEF Range
        <3>2. /\ Children(i)[k] > i
              /\ Attached(Children(i)[k]) => inode[Children(i)[k]].private_field.parent = i
            BY <1>1, <2>1, <3>1 DEF ParentsAgree
        <3> DEFINE x == Children(i)[k]
        <3>3. x \in Inos /\ Exists(x) /\ Children(i)'[k] = x
            BY <2>1
        <3>4. Attached(Children(i)[k])' => inode'[x].private_field # NULL /\ Exists(x)'
            BY <1>12, <3>3 DEF Attached
        <3>5. inode'[x].private_field # NULL /\ Exists(x) => Attached(x)
            <4>1. x = d => Attached(x)
                OBVIOUS
            <4>2. x # d => inode'[x] = inode[x]
                BY <1>7, <2>1
            <4> QED
                BY <4>1, <4>2 DEF Attached
        <3>6. Attached(x) => inode'[x].private_field.parent = inode[x].private_field.parent
            BY <1>13, <3>3
        <3> QED
            BY <3>2, <3>3, <3>4, <3>5, <3>6
    <2>2. CASE i = d /\ k = n + 1 /\ Children(i)'[k] = c
        BY <1>3, <1>6, <1>7, <2>2
    <2> QED
        BY <1>16, <2>1, <2>2
<1>23. ASSUME NEW i \in Inos, Exists(i)', IsFile(i)'
       PROVE  \/ Exists(i) /\ IsFile(i) /\ BufferOf(i)' = BufferOf(i) /\ i # c
              \/ i = c /\ mode = REG /\ BufferOf(i)' = file
    <2>1. CASE i = c
        BY <1>6, <1>7, <1>23, <2>1 DEF IsFile, BufferOf
    <2>2. CASE i # c
        <3>1. Exists(i)
            BY <1>12, <1>23, <2>2
        <3>2. Attached(i)' /\ inode'[i].mode = REG
            BY <1>23 DEF Attached, IsFile
        <3> QED
            BY <1>13, <2>2, <3>1, <3>2 DEF Attached, IsFile
    <2> QED
        BY <2>1, <2>2
<1>24. \A i \in Inos : Exists(i) /\ IsFile(i) =>
          BufferOf(i) \in Nat /\ BufferOf(i) > 0 /\ BufferOf(i) < ramfs_file_count
    <2> SUFFICES ASSUME NEW i \in Inos, Exists(i), IsFile(i)
                 PROVE  BufferOf(i) \in Nat
        BY <1>1 DEF BuffersHandedOut
    <2>1. inode[i].private_field \in Private
        BY <1>1, NodeFacts DEF Attached, IsFile
    <2> QED
        BY <2>1 DEF Private, BufferOf
<1>25. ramfs_file_count \in Nat \ {0} /\ ramfs_file_count' \in Nat
    BY <1>1 DEF Types
<1>26. BuffersHandedOut'
    <2> SUFFICES ASSUME NEW i \in Inos, Exists(i)', IsFile(i)'
                 PROVE  BufferOf(i)' > 0 /\ BufferOf(i)' < ramfs_file_count'
        BY DEF BuffersHandedOut
    <2>1. CASE Exists(i) /\ IsFile(i) /\ BufferOf(i)' = BufferOf(i)
        BY <1>24, <1>25, <2>1
    <2>2. CASE mode = REG /\ BufferOf(i)' = file
        BY <1>25, <2>2
    <2> QED
        BY <1>23, <2>1, <2>2
<1>27. OneBufferPerFile'
    <2> SUFFICES ASSUME NEW i \in Inos, NEW j \in Inos, Exists(i)', Exists(j)', IsFile(i)'
                 PROVE  /\ BufferOf(i)' > 0
                        /\ IsFile(j)' /\ BufferOf(i)' = BufferOf(j)' => i = j
        BY DEF OneBufferPerFile
    <2>1. BufferOf(i)' > 0
        BY <1>26 DEF BuffersHandedOut
    <2>2. ASSUME IsFile(j)', BufferOf(i)' = BufferOf(j)'
          PROVE  i = j
        <3>1. CASE /\ Exists(i) /\ IsFile(i) /\ BufferOf(i)' = BufferOf(i)
                   /\ Exists(j) /\ IsFile(j) /\ BufferOf(j)' = BufferOf(j)
            BY <1>1, <2>2, <3>1 DEF OneBufferPerFile
        <3>2. CASE /\ Exists(i) /\ IsFile(i) /\ BufferOf(i)' = BufferOf(i)
                   /\ mode = REG /\ BufferOf(j)' = file
            <4>1. BufferOf(i) \in Nat /\ BufferOf(i) < ramfs_file_count /\ file = ramfs_file_count
                BY <1>24, <3>2
            <4>2. BufferOf(i) # file
                BY <1>25, <4>1
            <4> QED
                BY <2>2, <3>2, <4>2
        <3>3. CASE /\ Exists(j) /\ IsFile(j) /\ BufferOf(j)' = BufferOf(j)
                   /\ mode = REG /\ BufferOf(i)' = file
            <4>1. BufferOf(j) \in Nat /\ BufferOf(j) < ramfs_file_count /\ file = ramfs_file_count
                BY <1>24, <3>3
            <4>2. BufferOf(j) # file
                BY <1>25, <4>1
            <4> QED
                BY <2>2, <3>3, <4>2
        <3> QED
            BY <1>23, <2>2, <3>1, <3>2, <3>3
    <2> QED
        BY <2>1, <2>2
<1> QED
    BY <1>11, <1>17, <1>18, <1>19, <1>20, <1>21, <1>22, <1>26, <1>27 DEF IInv

-----------------------------------------------------------------------------
(* Lookups and walks *)

LEMMA ChildNamedFacts ==
    ASSUME Types, NEW d \in Inos, Attached(d), NEW name
    PROVE  /\ ChildNamed(d, name) \in 0..Len(Children(d))
           /\ ChildNamed(d, name) = 0 =>
                 \A k \in DOMAIN Children(d) : inode[Children(d)[k]].name # name
           /\ ChildNamed(d, name) # 0 => inode[Children(d)[ChildNamed(d, name)]].name = name
<1> DEFINE n == Len(Children(d))
           I == {k \in 1..n : inode[Children(d)[k]].name = name}
<1>1. n \in Nat /\ DOMAIN Children(d) = 1..n
    BY NodeFacts
<1>2. ChildNamed(d, name) = IF I # {} THEN CHOOSE x \in I : \A y \in I : x <= y ELSE 0
    BY DEF ChildNamed, SelectInSeq, Min
<1>3. I # {} => \E x \in I : \A y \in I : x <= y
    <2>1. I \subseteq 0..n
        BY <1>1
    <2> HIDE DEF I, n
    <2> QED
        BY <1>1, <2>1, LeastNumber
<1>4. CASE I = {}
    BY <1>1, <1>2, <1>4
<1>5. CASE I # {}
    <2>1. ChildNamed(d, name) \in I
        BY <1>2, <1>3, <1>5
    <2> QED
        BY <1>1, <2>1
<1> QED
    BY <1>4, <1>5

LEMMA LookupFacts ==
    ASSUME IInv, NEW d \in Inos, Exists(d), NEW name
    PROVE  /\ RamfsLookup(d, name).res = OK =>
                 Exists(RamfsLookup(d, name).ino) /\ RamfsLookup(d, name).ino > Root
           /\ RamfsLookup(d, name).res \notin {OK, FAULT} => Attached(d)
<1>1. Types /\ ChildrenExist /\ ParentsAgree /\ OK # FAULT /\ OK # ENOENT
    BY DEF IInv, OK, FAULT, ENOENT
<1>2. CASE inode[d].private_field = NULL
    <2>1. RamfsLookup(d, name) = [res |-> FAULT, ino |-> NULL]
        BY <1>2 DEF RamfsLookup
    <2> QED
        BY <1>1, <2>1
<1>3. CASE inode[d].private_field # NULL
    <2>1. Attached(d)
        BY <1>3 DEF Attached
    <2>2. CASE inode[d].mode = DIR /\ ChildNamed(d, name) > 0
        <3>1. RamfsLookup(d, name) = [res |-> OK, ino |-> Children(d)[ChildNamed(d, name)]]
            BY <1>3, <2>2 DEF RamfsLookup
        <3>2. ChildNamed(d, name) \in DOMAIN Children(d)
            BY <1>1, <2>1, <2>2, ChildNamedFacts, NodeFacts
        <3>3. Exists(Children(d)[ChildNamed(d, name)])
            BY <1>1, <2>1, <3>2 DEF ChildrenExist
        <3>4. Children(d)[ChildNamed(d, name)] > d
            BY <1>1, <2>1, <3>2 DEF ParentsAgree, Range
        <3>5. Children(d)[ChildNamed(d, name)] > Root
            <4>1. \A x, y \in Inos : x > y => x > 1
                BY RamfsAssumption
            <4> QED
                BY <3>3, <3>4, <4>1 DEF Exists, Root
        <3> QED
            BY <2>1, <3>1, <3>3, <3>5
    <2>3. CASE ~(inode[d].mode = DIR /\ ChildNamed(d, name) > 0)
        <3>1. RamfsLookup(d, name) = [res |-> ENOENT, ino |-> NULL]
            BY <1>3, <2>3 DEF RamfsLookup
        <3> QED
            BY <1>1, <2>1, <3>1
    <2> QED
        BY <2>2, <2>3
<1> QED
    BY <1>2, <1>3

\* One component of a walk, and walks of m components along a path.
WalkStep(prev, name) ==
    CASE prev.res # OK -> prev
      [] prev.res = OK /\ ~mounted -> [res |-> EINVAL, ino |-> NULL]
      [] OTHER -> RamfsLookup(prev.ino, name)

Start == [res |-> OK, ino |-> Root]

IsWalk(f, path, m) == f = [k \in 0..m |-> IF k = 0 THEN Start ELSE WalkStep(f[k - 1], path[k])]

LEMMA WalkExists ==
    ASSUME NEW path, NEW m \in Nat
    PROVE  \E f : IsWalk(f, path, m)
<1> DEFINE Bad == {j \in 0..m : ~\E f : IsWalk(f, path, j)}
<1>1. SUFFICES ASSUME Bad # {}
               PROVE  FALSE
    OBVIOUS
<1>2. PICK j \in Bad : \A k \in Bad : j <= k
    <2>1. Bad \subseteq 0..m
        OBVIOUS
    <2> HIDE DEF Bad
    <2> QED
        BY <1>1, <2>1, LeastNumber
<1>3. CASE j = 0
    <2> DEFINE f == [k \in 0..0 |-> Start]
    <2>1. \A k \in 0..0 : k = 0
        OBVIOUS
    <2>2. f = [k \in 0..0 |-> IF k = 0 THEN Start ELSE WalkStep(f[k - 1], path[k])]
        BY <2>1
    <2>3. IsWalk(f, path, j)
        BY <1>3, <2>2 DEF IsWalk
    <2> QED
        BY <2>3
<1>4. CASE j > 0
    <2>1. j - 1 \in 0..m /\ j - 1 \notin Bad
        BY <1>2, <1>4
    <2>2. PICK g : IsWalk(g, path, j - 1)
        BY <2>1
    <2> DEFINE f == [k \in 0..j |-> IF k = j THEN WalkStep(g[j - 1], path[j]) ELSE g[k]]
    <2>3. \A k \in 0..j - 1 : f[k] = g[k]
        OBVIOUS
    <2>4. \A k \in 0..j - 1 : g[k] = IF k = 0 THEN Start ELSE WalkStep(g[k - 1], path[k])
        BY <2>2 DEF IsWalk
    <2>5. \A k \in 0..j : f[k] = IF k = 0 THEN Start ELSE WalkStep(f[k - 1], path[k])
        <3>1. f[j] = WalkStep(g[j - 1], path[j])
            BY <1>4
        <3>2. \A k \in 0..j : k = j \/ (k = 0 /\ k \in 0..j - 1) \/ (k \in 0..j - 1 /\ k # 0 /\ k - 1 \in 0..j - 1)
            BY <1>4
        <3>3. j - 1 \in 0..j - 1 /\ j # 0
            BY <1>4
        <3> HIDE DEF f
        <3> QED
            BY <2>3, <2>4, <3>1, <3>2, <3>3
    <2>6. f = [k \in 0..j |-> IF k = 0 THEN Start ELSE WalkStep(f[k - 1], path[k])]
        <3>1. f = [k \in 0..j |-> f[k]]
            OBVIOUS
        <3> HIDE DEF f
        <3> QED
            BY <2>5, <3>1
    <2>7. IsWalk(f, path, j)
        BY <2>6 DEF IsWalk
    <2> QED
        BY <2>7
<1> QED
    BY <1>2, <1>3, <1>4

\* vfs_walk_parent() takes one step for each name but the last.
LEMMA WalkParentIsWalk ==
    ASSUME NEW path \in Seq(Names), path # <<>>, NEW m, m = Len(path) - 1
    PROVE  m \in Nat /\ \E f : IsWalk(f, path, m) /\ WalkParent(path) = f[m]
<1>1. m \in Nat
    <2>1. Len(path) \in Nat /\ Len(path) # 0
        BY EmptySeq, LenProperties
    <2> QED
        BY <2>1
<1> DEFINE step(g) == [k \in 0..m |->
               CASE k = 0 -> [res |-> OK, ino |-> Root]
                 [] k > 0 /\ g[k - 1].res # OK -> g[k - 1]
                 [] k > 0 /\ g[k - 1].res = OK /\ ~mounted -> [res |-> EINVAL, ino |-> NULL]
                 [] OTHER -> RamfsLookup(g[k - 1].ino, path[k])]
           at == CHOOSE g : g = step(g)
<1>2. WalkParent(path) = at[m]
    BY DEF WalkParent
<1>3. ASSUME NEW g
      PROVE  step(g) = [k \in 0..m |-> IF k = 0 THEN Start ELSE WalkStep(g[k - 1], path[k])]
    BY <1>1 DEF WalkStep, Start
<1>4. \E g : g = step(g)
    <2>1. PICK g : IsWalk(g, path, m)
        BY <1>1, WalkExists
    <2>2. g = step(g)
        BY <1>3, <2>1 DEF IsWalk
    <2> QED
        BY <2>2
<1>5. at = step(at)
    BY <1>4
<1>6. IsWalk(at, path, m)
    BY <1>3, <1>5 DEF IsWalk
<1> QED
    BY <1>1, <1>2, <1>6

\* A walk that succeeds ends at an inode.
LEMMA WalkParentExists ==
    ASSUME IInv, NEW path \in Seq(Names), path # <<>>
    PROVE  WalkParent(path).res = OK => Exists(WalkParent(path).ino)
<1> DEFINE m == Len(path) - 1
<1>1. m \in Nat
    BY WalkParentIsWalk
<1>2. PICK f : IsWalk(f, path, m) /\ WalkParent(path) = f[m]
    BY WalkParentIsWalk
<1> HIDE DEF m
<1> DEFINE Bad == {k \in 0..m : f[k].res = OK /\ ~Exists(f[k].ino)}
<1>3. Bad = {}
    <2>1. SUFFICES ASSUME Bad # {}
                   PROVE  FALSE
        OBVIOUS
    <2>2. PICK k \in Bad : \A j \in Bad : k <= j
        <3>1. Bad \subseteq 0..m
            OBVIOUS
        <3> HIDE DEF Bad
        <3> QED
            BY <1>1, <2>1, <3>1, LeastNumber
    <2>3. f[k] = IF k = 0 THEN Start ELSE WalkStep(f[k - 1], path[k])
        BY <1>2, <2>2 DEF IsWalk
    <2>4. CASE k = 0
        BY <2>2, <2>3, <2>4 DEF Start, IInv, RootIsDirectory
    <2>5. CASE k > 0
        <3>1. f[k] = WalkStep(f[k - 1], path[k]) /\ f[k].res = OK /\ ~Exists(f[k].ino)
            BY <2>2, <2>3, <2>5
        <3>2. k - 1 \in 0..m /\ k - 1 \notin Bad
            BY <1>1, <2>2, <2>5
        <3>3. f[k - 1].res = OK => Exists(f[k - 1].ino)
            BY <3>2
        <3>4. f[k - 1].res = OK
            BY <3>1 DEF WalkStep
        <3>5. OK # EINVAL
            BY DEF OK, EINVAL
        <3>6. f[k] = RamfsLookup(f[k - 1].ino, path[k])
            BY <3>1, <3>4, <3>5 DEF WalkStep
        <3> QED
            BY <3>1, <3>3, <3>4, <3>6, LookupFacts DEF Exists
    <2> QED
        BY <2>2, <2>4, <2>5
<1>4. m \in 0..m
    BY <1>1
<1> QED
    BY <1>2, <1>3, <1>4

-----------------------------------------------------------------------------
(* The calls *)

\* A step that changes no inode, and what else it may change.
LEMMA SameTree ==
    ASSUME IInv, inode' = inode, ramfs_file_count' = ramfs_file_count,
           vfs_inode_count' = vfs_inode_count, mounted' \in BOOLEAN,
           \A i \in fds' : Exists(i)
    PROVE  IInv'
<1>1. \A i \in Inos : Exists(i) => Kept(i)
    BY DEF Exists, Kept
<1>2. /\ inode \in [Inos -> Node \cup {NULL}] /\ ramfs_file_count \in Nat /\ vfs_inode_count \in Nat
    BY DEF IInv, Types
<1> QED
    BY <1>1, <1>2, KeepingStep

LEMMA FailKeeps ==
    ASSUME IInv, NEW op, NEW res, Fail(op, res), mounted' = mounted
    PROVE  IInv'
<1>1. \A i \in fds' : Exists(i)
    BY DEF Fail, UNCHANGED_TREE, IInv, DescriptorsExist
<1>2. mounted' \in BOOLEAN
    BY DEF IInv, Types
<1> QED
    BY <1>1, <1>2, SameTree DEF Fail, UNCHANGED_TREE

LEMMA MountKeeps ==
    ASSUME IInv, NEW path, Mount(path)
    PROVE  IInv'
<1>1. /\ Types /\ \A i \in fds : Exists(i)
      /\ fds' = fds /\ ramfs_file_count' = ramfs_file_count /\ vfs_inode_count' = vfs_inode_count
    BY DEF Mount, IInv, DescriptorsExist
<1>2. CASE inode' = inode /\ mounted' = mounted
    BY <1>1, <1>2, SameTree DEF Types
<1>3. CASE inode' = [inode EXCEPT ![Root].private_field = RootPrivate] /\ mounted' = TRUE
    <2>1. Exists(Root) /\ inode[Root] \in Node
        BY <1>1, NodeFacts DEF IInv, RootIsDirectory, Exists
    <2>2. RootPrivate \in Private
        BY EmptySeq DEF RootPrivate, NewPrivate, Private
    <2> DEFINE node == [inode[Root] EXCEPT !.private_field = RootPrivate]
    <2>3. /\ node \in Node /\ node # NULL /\ node.name = inode[Root].name
          /\ node.mode = inode[Root].mode /\ node.private_field = RootPrivate
        BY <2>1, <2>2, RamfsAssumption DEF Node
    <2>4. inode' = [inode EXCEPT ![Root] = node]
        BY <1>3
    <2> HIDE DEF node
    <2>5. inode' \in [Inos -> Node \cup {NULL}]
        BY <1>1, <2>3, <2>4 DEF Types
    <2>6. \A i \in Inos : inode[i] = NULL => inode'[i] = NULL
        BY <1>1, <2>1, <2>4 DEF Types, Exists
    <2>7. \A i \in Inos : Exists(i) => Kept(i)
        BY <1>1, <2>3, <2>4 DEF Types, Kept, Exists
    <2>8. ramfs_file_count' \in Nat /\ vfs_inode_count' \in Nat
          /\ ramfs_file_count' >= ramfs_file_count /\ vfs_inode_count' >= vfs_inode_count
        BY <1>1 DEF Types
    <2> QED
        BY <1>1, <1>3, <2>5, <2>6, <2>7, <2>8, KeepingStep
<1> QED
    BY <1>2, <1>3 DEF Mount

\* What an answer of the driver says of the directory.
LEMMA PutchildFacts ==
    ASSUME Types, NEW d \in Inos, Attached(d), NEW name, RamfsPutchild(d, name) = OK
    PROVE  \A k \in DOMAIN Children(d) : inode[Children(d)[k]].name # name
<1>1. OK # ENOSPC /\ OK # EEXIST
    BY DEF OK, ENOSPC, EEXIST
<1>2. ChildNamed(d, name) \in 0..Len(Children(d)) /\ Len(Children(d)) \in Nat
    BY ChildNamedFacts, NodeFacts
<1>3. RAMFS_MAX_CHILD \in Nat
    BY RamfsAssumption
<1>4. ~(Len(Children(d)) >= RAMFS_MAX_CHILD)
    BY <1>1 DEF RamfsPutchild
<1>5. ~(ChildNamed(d, name) > 0)
    BY <1>1, <1>2, <1>3, <1>4 DEF RamfsPutchild
<1>6. ChildNamed(d, name) = 0
    BY <1>2, <1>5
<1> QED
    BY <1>6, ChildNamedFacts

LEMMA LeafFacts ==
    ASSUME NEW path \in Seq(Names), path # <<>>
    PROVE  LeafName(path) \in Names
<1>1. Len(path) \in Nat /\ Len(path) # 0 /\ \A k \in 1..Len(path) : path[k] \in Names
    BY EmptySeq, LenProperties
<1> QED
    BY <1>1 DEF LeafName

LEMMA MkdirKeeps ==
    ASSUME IInv, NEW path \in Seq(Names), Mkdir(path)
    PROVE  IInv'
<1>1. mounted' = mounted /\ mounted \in BOOLEAN /\ Types
    BY DEF Mkdir, IInv, Types
<1>2. CASE \E res : Fail("mkdir", res)
    BY <1>1, <1>2, FailKeeps
<1>3. CASE path # <<>> /\ WalkParent(path).res = OK /\ MkdirIn(WalkParent(path).ino, path)
    <2> DEFINE d == WalkParent(path).ino
               leaf == LookupLeaf(d, path)
               c == vfs_inode_count
               name == LeafName(path)
               new == RamfsMkdir(d, c, name)
    <2>1. Exists(d) /\ d \in Inos /\ name \in Names
        BY <1>3, WalkParentExists, LeafFacts DEF Exists
    <2> HIDE DEF d, name
    <2>2. CASE leaf.res = OK /\ Fail("mkdir", EEXIST)
        BY <1>2, <2>2
    <2>3. CASE leaf.res = FAULT /\ Fail("mkdir", FAULT)
        BY <1>2, <2>3
    <2>4. CASE /\ leaf.res \notin {OK, FAULT} /\ RoomForInode /\ vfs_inode_count' = c + 1
               /\ inode' = new.inode /\ UNCHANGED <<ramfs_file_count, fds>>
        <3>1. leaf = RamfsLookup(d, path[Len(path)])
            BY <2>4 DEF LookupLeaf, FAULT
        <3>2. Attached(d)
            BY <2>1, <2>4, <3>1, LookupFacts
        <3>3. c \in Inos /\ c \in Nat /\ c + 1 \in Nat /\ c + 1 >= c
            BY <1>1, <2>4 DEF RoomForInode, Types
        <3>4. \A i \in fds' : Exists(i)
            BY <2>4 DEF IInv, DescriptorsExist
        <3>5. ramfs_file_count \in Nat
            BY <1>1 DEF Types
        <3> DEFINE res == IF inode[d].mode # DIR THEN EINVAL ELSE RamfsPutchild(d, name)
        <3>6. inode' = IF res # OK THEN inode ELSE Attach(d, c, NewInode(name, DIR), NewPrivate(0, d))
            BY <2>4 DEF RamfsMkdir
        <3>7. CASE res # OK
            <4>1. inode' = inode
                BY <3>6, <3>7
            <4>2. \A i \in Inos : Exists(i) => Kept(i)
                BY <4>1 DEF Exists, Kept
            <4> QED
                BY <1>1, <2>4, <3>3, <3>4, <3>5, <4>1, <4>2, KeepingStep DEF Types
        <3>8. CASE res = OK
            <4>1. RamfsPutchild(d, name) = OK
                BY <3>8 DEF OK, EINVAL
            <4>2. \A k \in DOMAIN Children(d) : inode[Children(d)[k]].name # name
                BY <1>1, <2>1, <3>2, <4>1, PutchildFacts
            <4>3. inode' = Attach(d, c, NewInode(name, DIR), NewPrivate(0, d))
                BY <3>6, <3>8
            <4>4. DIR # REG /\ DIR \in {DIR, REG} /\ 0 \in Nat
                BY DEF DIR, REG
            <4>5. fds' \subseteq fds \cup {c} /\ ramfs_file_count' = ramfs_file_count
                BY <2>4
            <4>6. ramfs_file_count' \in Nat /\ ramfs_file_count' >= ramfs_file_count
                BY <3>5, <4>5
            <4> HIDE DEF c
            <4>7. c = vfs_inode_count /\ vfs_inode_count' = c + 1
                BY <2>4 DEF c
            <4>8. mounted' \in BOOLEAN
                BY <1>1
            <4> QED
                BY <2>1, <3>2, <3>3, <4>2, <4>3, <4>4, <4>5, <4>6, <4>7, <4>8, AttachingStep
        <3> QED
            BY <3>7, <3>8
    <2> QED
        BY <1>3, <2>2, <2>3, <2>4 DEF MkdirIn, d, name
<1> QED
    BY <1>2, <1>3 DEF Mkdir

LEMMA OpenMissingKeeps ==
    ASSUME IInv, NEW d \in Inos, Attached(d), NEW path \in Seq(Names), path # <<>>, NEW flags,
           OpenMissing(d, path, flags), mounted' = mounted
    PROVE  IInv'
<1> DEFINE c == vfs_inode_count
           name == LeafName(path)
           res == RamfsPutchild(d, name)
           new == RamfsCreate(d, c, name)
<1>1. Types /\ mounted' \in BOOLEAN /\ name \in Names /\ REG \in {DIR, REG}
    BY LeafFacts DEF IInv, Types
<1>2. CASE "CREAT" \notin flags /\ Fail("open", ENOENT)
    BY <1>2, FailKeeps
<1>3. CASE /\ RoomForInode /\ vfs_inode_count' = c + 1 /\ ramfs_file_count' = NextFileCount
           /\ inode' = new.inode /\ Opened(new.res, c, flags)
    <2>1. /\ c \in Inos /\ c \in Nat /\ c + 1 \in Nat /\ c + 1 >= c /\ ramfs_file_count \in Nat
          /\ ramfs_file_count' = ramfs_file_count + 1
          /\ ramfs_file_count' \in Nat /\ ramfs_file_count' >= ramfs_file_count
        BY <1>1, <1>3 DEF RoomForInode, Types, NextFileCount
    <2>2. /\ new.res = res
          /\ inode' = IF res # OK THEN inode
                      ELSE Attach(d, c, NewInode(name, REG), NewPrivate(ramfs_file_count, d))
        BY <1>3 DEF RamfsCreate
    <2>3. fds' = IF res = OK THEN fds \cup {c} ELSE fds
        BY <1>3, <2>2 DEF Opened
    <2>4. CASE res # OK
        <3>1. inode' = inode /\ fds' = fds
            BY <2>2, <2>3, <2>4
        <3>2. /\ \A i \in Inos : Exists(i) => Kept(i)
              /\ \A i \in fds' : Exists(i)
            BY <3>1 DEF Exists, Kept, IInv, DescriptorsExist
        <3> QED
            BY <1>1, <1>3, <2>1, <3>1, <3>2, KeepingStep DEF Types
    <2>5. CASE res = OK
        <3>1. \A k \in DOMAIN Children(d) : inode[Children(d)[k]].name # name
            BY <1>1, <2>5, PutchildFacts
        <3>2. inode' = Attach(d, c, NewInode(name, REG), NewPrivate(ramfs_file_count, d))
            BY <2>2, <2>5
        <3>3. fds' \subseteq fds \cup {c}
            BY <2>3
        <3> HIDE DEF c, name
        <3>4. c = vfs_inode_count /\ vfs_inode_count' = c + 1
            BY <1>3 DEF c
        <3> QED
            BY <1>1, <2>1, <3>1, <3>2, <3>3, <3>4, AttachingStep
    <2> QED
        BY <2>4, <2>5
<1> QED
    BY <1>2, <1>3 DEF OpenMissing

LEMMA TruncatedFacts ==
    ASSUME NEW table \in [Inos -> Node \cup {NULL}], NEW c \in Inos, table[c] \in Node, NEW flags
    PROVE  /\ Truncated(table, c, flags) \in [Inos -> Node \cup {NULL}]
           /\ \A i \in Inos \ {c} : Truncated(table, c, flags)[i] = table[i]
           /\ Truncated(table, c, flags)[c] \in Node
           /\ Truncated(table, c, flags)[c].name = table[c].name
           /\ Truncated(table, c, flags)[c].mode = table[c].mode
           /\ Truncated(table, c, flags)[c].size \in {table[c].size, 0}
           /\ Truncated(table, c, flags)[c].private_field = table[c].private_field
<1> DEFINE node == [table[c] EXCEPT !.size = 0]
<1>1. /\ node \in Node /\ node.name = table[c].name /\ node.mode = table[c].mode
      /\ node.size = 0
      /\ node.private_field = table[c].private_field
    BY DEF Node
<1>2. CASE "TRUNC" \in flags
    <2>1. Truncated(table, c, flags) = [table EXCEPT ![c] = node]
        BY <1>2 DEF Truncated
    <2> HIDE DEF node
    <2> QED
        BY <1>1, <2>1
<1>3. CASE "TRUNC" \notin flags
    BY <1>3 DEF Truncated
<1> QED
    BY <1>2, <1>3

\* Opening what exists: the inode keeps its name and mode, and its private
\* field unless it is created again.
LEMMA OpenExistingTree ==
    ASSUME IInv, NEW d, NEW c \in Inos, Exists(c), NEW flags, OpenExisting(d, c, flags)
    PROVE  /\ inode' \in [Inos -> Node \cup {NULL}]
           /\ \A i \in Inos \ {c} : inode'[i] = inode[i]
           /\ inode'[c] \in Node
           /\ inode'[c].name = inode[c].name /\ inode'[c].mode = inode[c].mode
           /\ inode'[c].size \in {inode[c].size, 0}
           /\ \/ inode'[c].private_field = inode[c].private_field
              \/ inode'[c].private_field = NULL /\ "CREAT" \in flags /\ "EXCL" \notin flags
           /\ vfs_inode_count' = vfs_inode_count
           /\ ramfs_file_count' \in {ramfs_file_count, ramfs_file_count + 1}
           /\ \A i \in fds' : i \in fds \/ i = c
<1>1. inode \in [Inos -> Node \cup {NULL}] /\ inode[c] \in Node
    BY NodeFacts DEF IInv, Types
<1>2. CASE Fail("open", EEXIST)
    BY <1>1, <1>2 DEF Fail, UNCHANGED_TREE
<1>3. CASE /\ "CREAT" \in flags /\ "EXCL" \notin flags
           /\ ramfs_file_count' = NextFileCount
           /\ inode' = Truncated(RamfsRecreate(d, c).inode, c, flags)
           /\ Opened(RamfsRecreate(d, c).res, c, flags)
           /\ UNCHANGED vfs_inode_count
    <2> DEFINE node == [inode[c] EXCEPT !.private_field = NULL]
               table == [inode EXCEPT ![c] = node]
    <2>1. /\ node \in Node /\ node.name = inode[c].name /\ node.mode = inode[c].mode
          /\ node.private_field = NULL /\ node.size = inode[c].size
        BY <1>1 DEF Node
    <2>2. inode' = Truncated(table, c, flags)
        BY <1>3 DEF RamfsRecreate
    <2> HIDE DEF node
    <2>3. /\ table \in [Inos -> Node \cup {NULL}] /\ table[c] = node
          /\ \A i \in Inos \ {c} : table[i] = inode[i]
        BY <1>1, <2>1
    <2> HIDE DEF table
    <2>4. /\ inode' \in [Inos -> Node \cup {NULL}]
          /\ \A i \in Inos \ {c} : inode'[i] = inode[i]
          /\ inode'[c] \in Node
          /\ inode'[c].name = inode[c].name /\ inode'[c].mode = inode[c].mode
          /\ inode'[c].private_field = NULL /\ inode'[c].size \in {inode[c].size, 0}
        BY <2>1, <2>2, <2>3, TruncatedFacts
    <2>5. \A i \in fds' : i \in fds \/ i = c
        BY <1>3 DEF Opened
    <2> QED
        BY <1>3, <2>4, <2>5 DEF NextFileCount
<1>4. CASE /\ inode' = Truncated(inode, c, flags)
           /\ Opened(RamfsOpen(c), c, flags)
           /\ UNCHANGED <<ramfs_file_count, vfs_inode_count>>
    <2>1. \A i \in fds' : i \in fds \/ i = c
        BY <1>4 DEF Opened
    <2> QED
        BY <1>1, <1>4, <2>1, TruncatedFacts
<1> QED
    BY <1>2, <1>3, <1>4 DEF OpenExisting

LEMMA OpenExistingKeeps ==
    ASSUME IInv, NEW d, NEW c \in Inos, Exists(c), NEW flags, OpenExisting(d, c, flags),
           mounted' = mounted
    PROVE  IInv'
<1>1. Types /\ \A i \in fds : Exists(i)
    BY DEF IInv, DescriptorsExist
<1>2. /\ inode' \in [Inos -> Node \cup {NULL}]
      /\ \A i \in Inos \ {c} : inode'[i] = inode[i]
      /\ inode'[c] \in Node
      /\ inode'[c].name = inode[c].name /\ inode'[c].mode = inode[c].mode
      /\ inode'[c].private_field = inode[c].private_field \/ inode'[c].private_field = NULL
      /\ vfs_inode_count' = vfs_inode_count
      /\ ramfs_file_count' \in {ramfs_file_count, ramfs_file_count + 1}
      /\ \A i \in fds' : i \in fds \/ i = c
    BY OpenExistingTree
<1>3. \A i \in Inos : Exists(i) => Kept(i)
    BY <1>2, RamfsAssumption DEF Exists, Kept
<1>4. \A i \in Inos : inode[i] = NULL => inode'[i] = NULL
    BY <1>2 DEF Exists
<1>5. \A i \in fds' : Exists(i)
    BY <1>1, <1>2
<1>6. /\ ramfs_file_count' \in Nat /\ ramfs_file_count' >= ramfs_file_count
      /\ vfs_inode_count' \in Nat /\ vfs_inode_count' >= vfs_inode_count /\ mounted' \in BOOLEAN
    BY <1>1, <1>2 DEF Types
<1> QED
    BY <1>2, <1>3, <1>4, <1>5, <1>6, KeepingStep

LEMMA OpenKeeps ==
    ASSUME IInv, NEW path \in Seq(Names), NEW flags, Open(path, flags)
    PROVE  IInv'
<1>1. mounted' = mounted /\ mounted' \in BOOLEAN /\ Types /\ \A i \in fds : Exists(i)
    BY DEF Open, IInv, Types, DescriptorsExist
<1>2. CASE \E res : Fail("open", res)
    BY <1>1, <1>2, FailKeeps
<1>3. CASE /\ Opened(OK, Root, flags) /\ UNCHANGED <<inode, ramfs_file_count, vfs_inode_count>>
    <2>1. \A i \in fds' : Exists(i)
        BY <1>1, <1>3 DEF Opened, IInv, RootIsDirectory
    <2> QED
        BY <1>1, <1>3, <2>1, SameTree
<1>4. CASE path # <<>> /\ WalkParent(path).res = OK /\ OpenIn(WalkParent(path).ino, path, flags)
    <2> DEFINE d == WalkParent(path).ino
               leaf == LookupLeaf(d, path)
    <2>1. Exists(d) /\ d \in Inos
        BY <1>4, WalkParentExists DEF Exists
    <2>2. OpenIn(d, path, flags)
        BY <1>4
    <2> HIDE DEF d
    <2>3. OK # FAULT
        BY DEF OK, FAULT
    <2>4. leaf.res # FAULT => leaf = RamfsLookup(d, path[Len(path)])
        BY DEF LookupLeaf
    <2>5. CASE leaf.res = OK
        <3>1. OpenExisting(d, leaf.ino, flags)
            BY <2>2, <2>3, <2>5 DEF OpenIn
        <3>2. Exists(leaf.ino) /\ leaf.ino \in Inos
            BY <2>1, <2>3, <2>4, <2>5, LookupFacts DEF Exists
        <3> HIDE DEF leaf
        <3> QED
            BY <1>1, <3>1, <3>2, OpenExistingKeeps
    <2>6. CASE leaf.res = FAULT
        <3>1. Fail("open", FAULT)
            BY <2>2, <2>3, <2>6 DEF OpenIn
        <3> QED
            BY <1>2, <3>1
    <2>7. CASE leaf.res \notin {OK, FAULT}
        <3>1. OpenMissing(d, path, flags)
            BY <2>2, <2>7 DEF OpenIn
        <3>2. Attached(d)
            BY <2>1, <2>4, <2>7, LookupFacts
        <3> QED
            BY <1>1, <1>4, <2>1, <3>1, <3>2, OpenMissingKeeps
    <2> QED
        BY <2>5, <2>6, <2>7
<1> QED
    BY <1>2, <1>3, <1>4 DEF Open

LEMMA WriteKeeps ==
    ASSUME IInv, NEW i \in fds, NEW offset \in Offsets, NEW bytes \in Payloads, Write(i, offset, bytes)
    PROVE  IInv'
<1> DEFINE end == (offset + Len(bytes)) % SIZE_MOD
           size == SizeAfterWrite(i, end)
           node == [inode[i] EXCEPT !.size = size]
<1>1. /\ Types /\ (\A j \in fds : Exists(j)) /\ Exists(i) /\ i \in Inos /\ inode[i] \in Node
      /\ fds' = fds /\ ramfs_file_count' = ramfs_file_count
      /\ vfs_inode_count' = vfs_inode_count /\ mounted' = mounted
    BY NodeFacts DEF IInv, DescriptorsExist, Exists, Write
<1>2. CASE inode' = inode
    BY <1>1, <1>2, SameTree DEF Types
<1>3. CASE inode' = [inode EXCEPT ![i].size = size]
    <2>1. end \in Nat
        <3>1. offset \in Nat /\ Len(bytes) \in Nat /\ SIZE_MOD \in Nat \ {0}
            BY VfsAssumption, LenProperties
        <3> QED
            BY <3>1
    <2>2. size \in Nat
        BY <1>1, <2>1 DEF SizeAfterWrite, Node
    <2> HIDE DEF size, end
    <2>3. /\ node \in Node /\ node.name = inode[i].name /\ node.mode = inode[i].mode
          /\ node.private_field = inode[i].private_field /\ node # NULL
        BY <1>1, <2>2, RamfsAssumption DEF Node
    <2>4. inode' = [inode EXCEPT ![i] = node]
        BY <1>3
    <2> HIDE DEF node
    <2>5. inode' \in [Inos -> Node \cup {NULL}]
        BY <1>1, <2>3, <2>4 DEF Types
    <2>6. \A j \in Inos : inode[j] = NULL => inode'[j] = NULL
        BY <1>1, <2>4 DEF Types, Exists
    <2>7. \A j \in Inos : Exists(j) => Kept(j)
        BY <1>1, <2>3, <2>4 DEF Types, Kept, Exists
    <2>8. ramfs_file_count' \in Nat /\ vfs_inode_count' \in Nat /\ mounted' \in BOOLEAN
          /\ ramfs_file_count' >= ramfs_file_count /\ vfs_inode_count' >= vfs_inode_count
        BY <1>1 DEF Types
    <2> QED
        BY <1>1, <2>5, <2>6, <2>7, <2>8, KeepingStep
<1> QED
    BY <1>2, <1>3 DEF Write

LEMMA StepKeeps == IInv /\ [Next]_vars => IInv'
<1> SUFFICES ASSUME IInv, [Next]_vars
             PROVE  IInv'
    OBVIOUS
<1>1. Paths \subseteq Seq(Names) /\ mounted \in BOOLEAN /\ \A i \in fds : Exists(i)
    BY VfsAssumption DEF IInv, Types, DescriptorsExist
<1>2. ASSUME NEW path \in Paths, Mount(path)
      PROVE  IInv'
    BY <1>2, MountKeeps
<1>3. ASSUME NEW path \in Paths, Mkdir(path)
      PROVE  IInv'
    BY <1>1, <1>3, MkdirKeeps
<1>4. ASSUME NEW path \in Paths, NEW flags \in OpenFlags, Open(path, flags)
      PROVE  IInv'
    BY <1>1, <1>4, OpenKeeps
<1>5. ASSUME NEW i \in fds, NEW offset \in Offsets, NEW bytes \in Payloads, Write(i, offset, bytes)
      PROVE  IInv'
    BY <1>5, WriteKeeps
<1>6. CASE UNCHANGED <<inode, ramfs_file_count, vfs_inode_count, mounted, fds>>
    BY <1>1, <1>6, SameTree
<1>7. ASSUME NEW i \in fds, NEW offset \in Offsets, NEW limit \in Limits, Read(i, offset, limit)
      PROVE  IInv'
    BY <1>6, <1>7 DEF Read
<1>8. ASSUME NEW i \in fds, Close(i) \/ StartListing(i)
      PROVE  IInv'
    BY <1>6, <1>8 DEF Close, StartListing
<1>9. ASSUME NEW size \in BufferSizes, Readdir(size)
      PROVE  IInv'
    BY <1>6, <1>9 DEF Readdir
<1>10. CASE UNCHANGED vars
    BY <1>6, <1>10 DEF vars
<1> QED
    BY <1>2, <1>3, <1>4, <1>5, <1>7, <1>8, <1>9, <1>10 DEF Next

-----------------------------------------------------------------------------
(* The theorems for callers that use any flags *)

\* The tree, the numbers handed out and the descriptors agree.
THEOREM InductiveInvariant == Spec => []IInv
    BY InitEstablishes, StepKeeps, PTL DEF Spec

\* No directory has two children of one name, and no inode two parents.
THEOREM NamesStayUnique == Spec => []NamesIdentify
<1>1. IInv => NamesIdentify
    BY DEF IInv
<1> QED
    BY <1>1, InductiveInvariant, PTL

\* A child's parent is the directory that lists it, and older.
THEOREM ParentsStayTrue == Spec => []ParentsAgree
<1>1. IInv => ParentsAgree
    BY DEF IInv
<1> QED
    BY <1>1, InductiveInvariant, PTL

\* No two files write to the same buffer.
THEOREM BuffersStayApart == Spec => []OneBufferPerFile
<1>1. IInv => OneBufferPerFile
    BY DEF IInv
<1> QED
    BY <1>1, InductiveInvariant, PTL
=============================================================================
