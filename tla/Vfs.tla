-------------------------------- MODULE Vfs --------------------------------
(***************************************************************************)
(* The virtual file system over the RAM file system: mounting the root,    *)
(* walking a parsed path, mkdir, open with its flags, read, write, readdir *)
(* and close.                                                              *)
(*                                                                         *)
(* Calls are whole steps: nothing in the kernel calls the VFS from two     *)
(* threads (sys_vfs_open() is a stub), so what makes it hard is the        *)
(* sequence of calls, their flags and their failures.  A path is the       *)
(* sequence of names that vfs_aux_parse_path() yields (module PathParse).  *)
(***************************************************************************)
EXTENDS Ramfs

CONSTANTS
    Paths,          \* paths that callers use
    OpenFlags,      \* sets of flags that callers pass to vfs_open()
    Offsets,        \* file offsets that callers use
    Limits,         \* lengths of the reads that callers ask for
    Payloads,       \* what callers write
    SIZE_MOD,       \* 2^64 scaled down: offset + limit wraps there
    BufferSizes,    \* bytes that a caller of vfs_readdir() offers
    NameLen         \* strlen() of each name

ASSUME VfsAssumption ==
    /\ 1 \in Inos
    /\ Paths \subseteq Seq(Names)
    /\ OpenFlags \subseteq SUBSET {"CREAT", "EXCL", "TRUNC"}
    /\ SIZE_MOD \in Nat \ {0}
    /\ Offsets \subseteq 0..SIZE_MOD - 1
    /\ Limits \subseteq 1..SIZE_MOD - 1
    /\ Payloads \subseteq Seq(Bytes) \ {<<>>}
    /\ BufferSizes \subseteq Nat \ {0}
    /\ NameLen \in [Names -> Nat]

\* The length of a write is a size_t.
ASSUME PayloadAssumption == \A bytes \in Payloads : Len(bytes) < SIZE_MOD

VARIABLES
    mounted,            \* vfs_root.inode->ops is set
    vfs_inode_count,    \* next inode number
    fds,                \* inodes for which a file descriptor was handed out
    last,               \* the latest call and its answer
    reader              \* a caller listing a directory chunk by chunk, or NULL

vars == <<inode, data, ramfs_file_count, mounted, vfs_inode_count, fds, last, reader>>

Root == 1
Exists(i) == i \in Inos /\ inode[i] # NULL

\* A call on inode i (the one it made, opened or used) and what it answered.
Call(op, i, res) == [op |-> op, ino |-> i, offset |-> 0, limit |-> 0, arg |-> <<>>,
                     truncate |-> FALSE, res |-> res, bytes |-> <<>>]

\* A kernel that faulted has halted.
Running == last.res # FAULT

\* vfs_init() and ramfs_init().
Init ==
    /\ inode = [i \in Inos |-> IF i = Root THEN NewInode(NULL, DIR) ELSE NULL]
    /\ data = [f \in Files |-> EmptyBuffer]
    /\ ramfs_file_count = 1
    /\ mounted = FALSE
    /\ vfs_inode_count = 2
    /\ fds = {}
    /\ last = Call("init", NULL, OK)
    /\ reader = NULL
-----------------------------------------------------------------------------
(* Walking *)

\* vfs_walk_parent(): the directory a path of at least one name ends in, or
\* the error of the component where the walk stops.  Only the walk tests
\* that a file system is mounted.
WalkParent(path) ==
    LET at[k \in 0..Len(path) - 1] ==
            CASE k = 0 -> [res |-> OK, ino |-> Root]
              [] k > 0 /\ at[k - 1].res # OK -> at[k - 1]
              [] k > 0 /\ at[k - 1].res = OK /\ ~mounted -> [res |-> EINVAL, ino |-> NULL]
              [] OTHER -> RamfsLookup(at[k - 1].ino, path[k])
    IN  at[Len(path) - 1]

\* The lookup of the last name in the directory found by the walk: through a
\* null operations table before the mount.
LookupLeaf(d, path) == IF mounted THEN RamfsLookup(d, path[Len(path)])
                                  ELSE [res |-> FAULT, ino |-> NULL]

LeafName(path) == path[Len(path)]

\* Bound on the inodes created and on the indices of data[] handed out: the
\* code checks neither.
RoomForInode == vfs_inode_count \in Inos
RoomForFile == ramfs_file_count \in Files

UNCHANGED_TREE == UNCHANGED <<inode, ramfs_file_count, vfs_inode_count, fds>>

Fail(op, res) == last' = Call(op, NULL, res) /\ UNCHANGED_TREE
-----------------------------------------------------------------------------
(* Mount *)

\* The first mount on "/" sets the root's operations, a later one is refused;
\* no other mount point is implemented.
Mount(path) ==
    /\ \/ /\ path = <<>> /\ ~mounted
          /\ mounted' = TRUE
          /\ inode' = [inode EXCEPT ![Root].private_field = RootPrivate]
          /\ last' = Call("mount", Root, OK)
       \/ /\ path = <<>> /\ mounted
          /\ last' = Call("mount", NULL, EINVAL)
          /\ UNCHANGED <<mounted, inode>>
       \/ /\ path # <<>>
          /\ last' = Call("mount", NULL, ERROR)
          /\ UNCHANGED <<mounted, inode>>
    /\ UNCHANGED <<data, ramfs_file_count, vfs_inode_count, fds, reader>>
-----------------------------------------------------------------------------
(* Mkdir *)

MkdirIn(d, path) ==
    LET leaf == LookupLeaf(d, path)
        new == RamfsMkdir(d, vfs_inode_count, LeafName(path))
    IN  \/ leaf.res = OK /\ Fail("mkdir", EEXIST)
        \/ leaf.res = FAULT /\ Fail("mkdir", FAULT)
        \/ /\ leaf.res \notin {OK, FAULT}
           /\ RoomForInode
           /\ vfs_inode_count' = vfs_inode_count + 1
           /\ inode' = new.inode
           /\ last' = Call("mkdir", vfs_inode_count, new.res)
           /\ UNCHANGED <<ramfs_file_count, fds>>

Mkdir(path) ==
    /\ \/ path = <<>> /\ Fail("mkdir", EEXIST)
       \/ /\ path # <<>>
          /\ LET walk == WalkParent(path)
             IN  IF walk.res # OK THEN Fail("mkdir", walk.res) ELSE MkdirIn(walk.ino, path)
    /\ UNCHANGED <<data, mounted, reader>>
-----------------------------------------------------------------------------
(* Open *)

\* The descriptor that a successful open returns.
Opened(res, i, flags) ==
    /\ last' = [Call("open", i, res) EXCEPT !.truncate = "TRUNC" \in flags]
    /\ fds' = IF res = OK THEN fds \cup {i} ELSE fds

\* The name is not there: create the file or give up.
OpenMissing(d, path, flags) ==
    LET new == RamfsCreate(d, vfs_inode_count, LeafName(path))
    IN  \/ "CREAT" \notin flags /\ Fail("open", ENOENT)
        \/ /\ "CREAT" \in flags
           /\ RoomForInode /\ RoomForFile
           /\ vfs_inode_count' = vfs_inode_count + 1
           /\ ramfs_file_count' = NextFileCount
           /\ inode' = new.inode
           /\ Opened(new.res, vfs_inode_count, flags)

Truncated(table, c, flags) ==
    IF "TRUNC" \in flags THEN [table EXCEPT ![c].size = 0] ELSE table

\* O_CREAT re-creates what exists, O_EXCL or not.
OpenExistingIgnoringExcl(d, c, flags) ==
    \/ /\ "CREAT" \in flags
       /\ RoomForFile
       /\ ramfs_file_count' = NextFileCount
       /\ LET again == RamfsRecreate(d, c)
          IN  inode' = Truncated(again.inode, c, flags) /\ Opened(again.res, c, flags)
       /\ UNCHANGED vfs_inode_count
    \/ /\ "CREAT" \notin flags
       /\ inode' = Truncated(inode, c, flags)
       /\ Opened(RamfsOpen(c), c, flags)
       /\ UNCHANGED <<ramfs_file_count, vfs_inode_count>>

\* The name is there: child c of d.
OpenExisting(d, c, flags) ==
    \/ {"CREAT", "EXCL"} \subseteq flags /\ Fail("open", EEXIST)
    \/ /\ "CREAT" \in flags /\ "EXCL" \notin flags
       /\ RoomForFile
       /\ ramfs_file_count' = NextFileCount
       /\ LET again == RamfsRecreate(d, c)
          IN  inode' = Truncated(again.inode, c, flags) /\ Opened(again.res, c, flags)
       /\ UNCHANGED vfs_inode_count
    \/ /\ "CREAT" \notin flags
       /\ inode' = Truncated(inode, c, flags)
       /\ Opened(RamfsOpen(c), c, flags)
       /\ UNCHANGED <<ramfs_file_count, vfs_inode_count>>

OpenIn(d, path, flags) ==
    LET leaf == LookupLeaf(d, path)
    IN  \/ leaf.res = OK /\ OpenExisting(d, leaf.ino, flags)
        \/ leaf.res = FAULT /\ Fail("open", FAULT)
        \/ leaf.res \notin {OK, FAULT} /\ OpenMissing(d, path, flags)

Open(path, flags) ==
    /\ \/ path = <<>> /\ Opened(OK, Root, flags) /\ UNCHANGED <<inode, ramfs_file_count, vfs_inode_count>>
       \/ /\ path # <<>>
          /\ LET walk == WalkParent(path)
             IN  IF walk.res # OK THEN Fail("open", walk.res) ELSE OpenIn(walk.ino, path, flags)
    /\ UNCHANGED <<data, mounted, reader>>
-----------------------------------------------------------------------------
(* Read, write, close: of a descriptor that an open returned *)

\* The descriptor's inode has the driver's operations, but for the root before
\* the mount.
HasOps(i) == i # Root \/ mounted

ReadBytes(i, offset, limit) ==
    LET bytes == IF offset >= inode[i].size \/ ~IsFile(i) THEN <<>> ELSE RamfsRead(i, offset, limit)
        failed == \/ ~HasOps(i)
                  \/ inode[i].mode # REG
                  \/ offset < inode[i].size /\ inode[i].private_field = NULL
    IN  [Call("read", i, IF failed THEN ERR ELSE OK) EXCEPT
            !.offset = offset, !.limit = limit, !.bytes = bytes]

Read(i, offset, limit) ==
    /\ last' = ReadBytes(i, offset, limit)
    /\ UNCHANGED <<inode, data, ramfs_file_count, mounted, vfs_inode_count, fds, reader>>

\* bytes is what the caller's buffer holds.
Write(i, offset, bytes) ==
    LET end == (offset + Len(bytes)) % SIZE_MOD
    IN  /\ IF HasOps(i) /\ IsFile(i) /\ end >= offset
           THEN /\ data' = [data EXCEPT ![BufferOf(i)] = RamfsWriteBuffer(i, offset, bytes)]
                /\ inode' = [inode EXCEPT ![i].size = SizeAfterWrite(i, end)]
                /\ last' = [Call("write", i, OK) EXCEPT !.offset = offset, !.arg = bytes]
           ELSE last' = Call("write", i, ERR) /\ UNCHANGED <<data, inode>>
        /\ UNCHANGED <<ramfs_file_count, mounted, vfs_inode_count, fds, reader>>

\* Nothing is freed: the descriptor stays usable.
Close(i) ==
    /\ last' = Call("close", i, IF HasOps(i) THEN OK ELSE EINVAL)
    /\ UNCHANGED <<inode, data, ramfs_file_count, mounted, vfs_inode_count, fds, reader>>
-----------------------------------------------------------------------------
(* Readdir: a caller lists a directory with as many calls as it needs, each *)
(* from the entry where the previous call stopped.                          *)

\* ramfs_emit_entry(): the header is 16 bytes, the name ends in a NUL and the
\* record is padded to 8.
RecLen(len) == ((16 + len + 1 + 7) \div 8) * 8

EntryLen(d, k) == CASE k = 1 -> RecLen(1)
                    [] k = 2 -> RecLen(2)
                    [] OTHER -> RecLen(NameLen[inode[DirEntries(d)[k]].name])

\* Bytes of the n entries after the first offset ones.
ChunkLen(d, offset, n) ==
    LET sum[k \in 0..n] == IF k = 0 THEN 0 ELSE sum[k - 1] + EntryLen(d, offset + k)
    IN  sum[n]

\* The entries that fit: a call stops at the first that does not.
Chunk(d, offset, size) ==
    LET fit == {n \in 0..Len(DirEntries(d)) - offset : ChunkLen(d, offset, n) <= size}
    IN  CHOOSE n \in fit : \A m \in fit : m <= n

StartListing(d) ==
    /\ reader # NULL => reader.done
    /\ reader' = [dir |-> d, offset |-> 0, seen |-> <<>>, done |-> FALSE]
    /\ UNCHANGED <<inode, data, ramfs_file_count, mounted, vfs_inode_count, fds, last>>

\* One vfs_readdir(); an answer of no bytes is what the caller takes for the
\* end of the directory.
Readdir(size) ==
    /\ reader # NULL /\ ~reader.done
    /\ LET d == reader.dir
       IN  IF ~HasOps(d) \/ inode[d].mode # DIR \/ inode[d].private_field = NULL
           THEN /\ last' = Call("readdir", d, ERR)
                /\ reader' = NULL
           ELSE LET n == Chunk(d, reader.offset, size)
                IN  /\ last' = Call("readdir", d, OK)
                    /\ reader' = [reader EXCEPT !.offset = @ + n,
                                       !.seen = @ \o SubSeq(DirEntries(d), reader.offset + 1, reader.offset + n),
                                       !.done = (n = 0)]
    /\ UNCHANGED <<inode, data, ramfs_file_count, mounted, vfs_inode_count, fds>>
-----------------------------------------------------------------------------
Next ==
    /\ Running
    /\ \/ \E path \in Paths :
            \/ Mount(path)
            \/ Mkdir(path)
            \/ \E flags \in OpenFlags : Open(path, flags)
       \/ \E i \in fds :
            \/ \E offset \in Offsets, limit \in Limits : Read(i, offset, limit)
            \/ \E offset \in Offsets, bytes \in Payloads : Write(i, offset, bytes)
            \/ Close(i)
            \/ BufferSizes # {} /\ StartListing(i)
       \/ \E size \in BufferSizes : Readdir(size)

Spec == Init /\ [][Next]_vars
-----------------------------------------------------------------------------
(* Properties *)

\* Every variable keeps its type.
TypeOK ==
    /\ \A i \in Inos : inode[i] # NULL =>
          /\ inode[i].name \in Names \cup {NULL}
          /\ inode[i].mode \in {DIR, REG}
          /\ inode[i].size \in Nat
          /\ inode[i].private_field # NULL =>
                /\ inode[i].private_field.file \in Files
                /\ inode[i].private_field.parent \in Inos \cup {NULL}
                /\ Range(inode[i].private_field.children) \subseteq Inos
    /\ \A f \in Files : Len(data[f].bytes) = data[f].allocated
    /\ ramfs_file_count \in Nat
    /\ mounted \in BOOLEAN
    /\ vfs_inode_count \in Nat
    /\ fds \subseteq Inos
    /\ last.res \in Codes

Attached(i) == Exists(i) /\ inode[i].private_field # NULL

\* The names in a directory differ, and no two attached inodes claim a child:
\* lookup by name and the listing speak of the same tree.
NamesIdentify ==
    \A d, e \in {i \in Inos : Attached(i)} :
        \A j \in DOMAIN Children(d), k \in DOMAIN Children(e) :
            /\ Children(d)[j] = Children(e)[k] => d = e /\ j = k
            /\ d = e /\ inode[Children(d)[j]].name = inode[Children(d)[k]].name => j = k

\* An attached child names as its parent the directory that lists it, so that
\* ".." leads back up and every chain of parents ends at the root.
ParentsAgree ==
    \A d \in {i \in Inos : Attached(i)} : \A c \in Range(Children(d)) :
        /\ c > d
        /\ Attached(c) => inode[c].private_field.parent = d

\* Two files never share a buffer, and none uses buffer 0 of directories.
OneBufferPerFile ==
    \A i, j \in {k \in Inos : Exists(k)} : IsFile(i) =>
        /\ BufferOf(i) > 0
        /\ IsFile(j) /\ BufferOf(i) = BufferOf(j) => i = j

\* The bytes a file claims lie inside its buffer: a read never leaves it.
SizeFitsBuffer ==
    \A i \in Inos : Exists(i) /\ IsFile(i) => inode[i].size <= data[BufferOf(i)].allocated

\* Every inode for which a descriptor was handed out can be opened again by a
\* path, unless it was created under a regular file: ramfs_open(), unlike
\* ramfs_mkdir(), does not look at the mode of the parent.
OpenedIsReachable ==
    \A i \in fds \ {Root} :
        LET parent == inode[i].private_field.parent
        IN  inode[parent].mode = DIR => RamfsLookup(parent, inode[i].name) = [res |-> OK, ino |-> i]

\* Once the root is mounted no call dereferences a null pointer, as long as
\* callers create with O_EXCL only.
NoFaultOnceMounted == mounted => Running

\* A call that fails leaves every inode as it was: names, sizes, private nodes
\* and children.  Creators use O_EXCL.  (The counter of files does move.)
FailedCallsChangeNothing == [][last'.res # OK => UNCHANGED <<inode, data, fds>>]_vars

\* The listing a caller assembles chunk by chunk, while others create entries,
\* has every entry of the directory exactly once when it ends.
ListingIsComplete ==
    [][reader' # NULL /\ reader'.done /\ ~(reader # NULL /\ reader.done)
          => reader'.seen = DirEntries(reader'.dir)]_vars

\* "existing file, basically a no op here": opening an entry that exists
\* leaves its private node as it is.
OpenExistingIsNoOp ==
    [][\A i \in Inos : Exists(i) /\ inode[i].private_field # NULL
          => inode'[i].private_field # NULL]_vars
=============================================================================
