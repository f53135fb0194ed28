------------------------------- MODULE Ramfs -------------------------------
(***************************************************************************)
(* The RAM file system driver: inodes with the driver's private nodes      *)
(* (children, parent, index of a buffer) and the table data[] of growable  *)
(* buffers that hold the bytes of regular files.                           *)
(*                                                                         *)
(* The driver is called by the VFS only, one call at a time, so its        *)
(* handlers are operators that give the state and the answer they produce; *)
(* the module Vfs makes actions of them.                                   *)
(***************************************************************************)
EXTENDS Integers, Sequences, FiniteSets, SequencesExt

CONSTANTS
    Names,          \* names of directory entries
    Bytes,          \* bytes that callers write
    Junk,           \* a byte of memory that nobody wrote: kmalloc() clears nothing
    NULL,           \* the null pointer
    Inos,           \* inode numbers, 1..MaxIno: bounds the number of creations
    Files,          \* indices of data[], 0..RAMDISK_MAX_FILES - 1
    RAMFS_MAX_CHILD,
    RAMDISK_INITIAL_FILE_ALLOC

DIR == "VFS_INODE_DIR"
REG == "VFS_INODE_REG"

\* What a pointer to an inode, and its private field, may lead to.
Private == [file : Nat, children : Seq(Inos), parent : Inos \cup {NULL}]
Node == [name : Names \cup {NULL}, mode : {DIR, REG}, size : Nat,
         private_field : Private \cup {NULL}]

ASSUME RamfsAssumption ==
    /\ Inos \subseteq Nat \ {0}
    /\ NULL \notin Inos \cup Private \cup Node
    /\ Junk \notin Bytes
    /\ Files \subseteq Nat /\ 0 \in Files
    /\ RAMFS_MAX_CHILD \in Nat
    /\ RAMDISK_INITIAL_FILE_ALLOC \in Nat

VARIABLES
    inode,              \* inodes and, with them, the dentry that names each
    data,               \* the kbuf_t of each file
    ramfs_file_count    \* next index of data[] to hand out

ramfsVars == <<inode, data, ramfs_file_count>>

\* Return codes; FAULT stands for the page fault of a null dereference.
OK == "VFS_OK"
ENOENT == "VFS_ENOENT"
EEXIST == "VFS_EEXIST"
ENOSPC == "VFS_ENOSPC"
EINVAL == "VFS_EINVAL"
ERROR == "VFS_ERROR"
ERR == "VFS_SIZE_ERR"
FAULT == "FAULT"
Codes == {OK, ENOENT, EEXIST, ENOSPC, EINVAL, ERROR, ERR, FAULT}

\* An inode with the name of the dentry that leads to it; its private field is
\* NULL or a record of the buffer's index, the children and the parent.
NewInode(name, mode) ==
    [name |-> name, mode |-> mode, size |-> 0, private_field |-> NULL]

NewPrivate(file, parent) == [file |-> file, children |-> <<>>, parent |-> parent]

\* Mount private fields of the root: it has no parent.
RootPrivate == NewPrivate(0, NULL)

Children(i) == inode[i].private_field.children

\* The first child of directory d that has this name.
ChildNamed(d, name) ==
    SelectInSeq(Children(d), LAMBDA c : inode[c].name = name)

\* The last child missed.
LookupShort(d, name) ==
    CASE inode[d].private_field = NULL -> [res |-> FAULT, ino |-> NULL]
      [] /\ inode[d].private_field # NULL /\ inode[d].mode = DIR
         /\ ChildNamed(d, name) \in 1..Len(Children(d)) - 1
            -> [res |-> OK, ino |-> Children(d)[ChildNamed(d, name)]]
      [] OTHER -> [res |-> ENOENT, ino |-> NULL]

RamfsLookup(d, name) ==
    CASE inode[d].private_field = NULL -> [res |-> FAULT, ino |-> NULL]
      [] inode[d].private_field # NULL /\ inode[d].mode = DIR /\ ChildNamed(d, name) > 0
            -> [res |-> OK, ino |-> Children(d)[ChildNamed(d, name)]]
      [] OTHER -> [res |-> ENOENT, ino |-> NULL]

\* The limit alone tested.
PutchildAfterLimit(d, name) ==
    CASE Len(Children(d)) >= RAMFS_MAX_CHILD -> ENOSPC
      [] OTHER -> OK

\* Whether the parent takes one more child of this name.  Nothing asks
\* whether the parent is a directory.
RamfsPutchild(d, name) ==
    CASE Len(Children(d)) >= RAMFS_MAX_CHILD -> ENOSPC
      [] Len(Children(d)) < RAMFS_MAX_CHILD /\ ChildNamed(d, name) > 0 -> EEXIST
      [] OTHER -> OK

\* As the first child.
AttachInFront(d, c, node, private) ==
    [inode EXCEPT ![c] = [node EXCEPT !.private_field = private],
                  ![d].private_field.children = <<c>> \o Children(d)]

\* Without the way back to the parent.
AttachAnywhere(d, c, node, private) ==
    [inode EXCEPT ![c] = [node EXCEPT !.private_field = [private EXCEPT !.parent = NULL]],
                  ![d].private_field.children = Append(Children(d), c)]

\* inode c with its new private node, attached as the last child of d.
Attach(d, c, node, private) ==
    [inode EXCEPT ![c] = [node EXCEPT !.private_field = private],
                  ![d].private_field.children = Append(Children(d), c)]

\* Attached whatever the driver answers.
RamfsMkdirAttachFirst(d, c, name) ==
    [res |-> IF inode[d].mode # DIR THEN EINVAL ELSE RamfsPutchild(d, name),
     inode |-> Attach(d, c, NewInode(name, DIR), NewPrivate(0, d))]

\* A new directory c under d; on failure the VFS frees it again.
RamfsMkdir(d, c, name) ==
    LET res == IF inode[d].mode # DIR THEN EINVAL ELSE RamfsPutchild(d, name)
    IN  [res |-> res,
         inode |-> IF res # OK THEN inode
                   ELSE Attach(d, c, NewInode(name, DIR), NewPrivate(0, d))]

\* The index not advanced.
ReuseFileCount == ramfs_file_count
NextFileCount == ramfs_file_count + 1

\* O_CREAT for a dentry that lookup did not find: a new regular file c.
RamfsCreate(d, c, name) ==
    LET res == RamfsPutchild(d, name)
    IN  [res |-> res,
         inode |-> IF res # OK THEN inode
                   ELSE Attach(d, c, NewInode(name, REG), NewPrivate(ramfs_file_count, d))]

\* O_CREAT for an existing child c of d takes the same branch: c gets a new
\* private node, d already has the name (or is full), and the node of c is
\* left NULL.
RamfsRecreate(d, c) ==
    [res |-> RamfsPutchild(d, inode[c].name),
     inode |-> [inode EXCEPT ![c].private_field = NULL]]

\* No O_CREAT: nothing to do for an inode that is intact.
RamfsOpen(c) == IF inode[c].private_field = NULL THEN EINVAL ELSE OK
-----------------------------------------------------------------------------
(* Buffers *)

JunkBytes(n) == [k \in 1..n |-> Junk]

\* A size that is not what was allocated.
MislabelledBuffer ==
    [allocated |-> RAMDISK_INITIAL_FILE_ALLOC + 1, bytes |-> JunkBytes(RAMDISK_INITIAL_FILE_ALLOC)]

EmptyBuffer ==
    [allocated |-> RAMDISK_INITIAL_FILE_ALLOC, bytes |-> JunkBytes(RAMDISK_INITIAL_FILE_ALLOC)]

DoubledFrom(allocated) == IF allocated = 0 THEN 1 ELSE 2 * allocated

\* The size kbuf_grow() reaches when it is called until end bytes fit; one
\* doubling more than the value of end is always enough.
GrownSize(allocated, end) ==
    LET size[k \in 0..end + 1] == IF k = 0 THEN allocated ELSE DoubledFrom(size[k - 1])
    IN  size[CHOOSE k \in 0..end + 1 : size[k] >= end /\ \A j \in 0..k - 1 : size[j] < end]

\* A single doubling.
GrownOnce(buf, end) ==
    LET size == IF buf.allocated >= end THEN buf.allocated ELSE DoubledFrom(buf.allocated)
    IN  [allocated |-> size, bytes |-> buf.bytes \o JunkBytes(size - buf.allocated)]

\* A buffer that is not copied when it grows.
GrownLosingBytes(buf, end) ==
    LET size == GrownSize(buf.allocated, end)
    IN  [allocated |-> size,
         bytes |-> IF size = buf.allocated THEN buf.bytes ELSE JunkBytes(size)]

\* The buffer after the calls of kbuf_grow() a write up to end makes: the old
\* bytes are copied and the rest is whatever the allocator returned.
Grown(buf, end) ==
    LET size == GrownSize(buf.allocated, end)
    IN  [allocated |-> size, bytes |-> buf.bytes \o JunkBytes(size - buf.allocated)]

CopyIn(buf, offset, bytes) ==
    [buf EXCEPT !.bytes = [k \in DOMAIN buf.bytes |->
        IF k \in offset + 1..offset + Len(bytes) THEN bytes[k - offset] ELSE buf.bytes[k]]]

CopyOut(buf, offset, limit) == SubSeq(buf.bytes, offset + 1, offset + limit)

IsFile(i) == inode[i].mode = REG /\ inode[i].private_field # NULL

BufferOf(i) == inode[i].private_field.file

RamfsWriteBuffer(i, offset, bytes) ==
    CopyIn(Grown(data[BufferOf(i)], offset + Len(bytes)), offset, bytes)

\* The size of a file that is written up to end.
SizeAfterWrite(i, end) == IF end > inode[i].size THEN end ELSE inode[i].size

RamfsRead(i, offset, limit) ==
    LET rest == inode[i].size - offset
    IN  IF rest <= 0 THEN <<>>
        ELSE CopyOut(data[BufferOf(i)], offset, IF limit < rest THEN limit ELSE rest)
-----------------------------------------------------------------------------
(* Directory entries *)

\* The inodes that readdir lists: the directory for ".", its parent (the root
\* is its own) for "..", then the children in the order they were attached.
DirEntries(d) ==
    <<d, IF inode[d].private_field.parent = NULL THEN d ELSE inode[d].private_field.parent>>
        \o Children(d)
=============================================================================
