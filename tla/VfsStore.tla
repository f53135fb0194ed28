------------------------------ MODULE VfsStore ------------------------------
(***************************************************************************)
(* The file system seen as an abstract store: directories and files by     *)
(* path, a file a sequence of bytes.                                       *)
(***************************************************************************)
EXTENDS Vfs

\* The names from the root down to an inode, by its chain of parents.
PathOf(i) ==
    LET up[j \in Inos \cup {NULL}] ==
            IF j = Root \/ ~Attached(j) THEN <<>>
            ELSE Append(up[inode[j].private_field.parent], inode[j].name)
    IN  up[i]

Dirs == {PathOf(i) : i \in {j \in Inos : Exists(j) /\ inode[j].mode = DIR}}

StoredFiles == {i \in Inos : Exists(i) /\ IsFile(i)}

\* What a file holds: the rest of its buffer is not part of it.
BytesOf(i) == SubSeq(data[BufferOf(i)].bytes, 1, inode[i].size)

Content == [p \in {PathOf(i) : i \in StoredFiles} |->
               BytesOf(CHOOSE i \in StoredFiles : PathOf(i) = p)]

LatestCall == [op |-> IF last.res = OK THEN last.op ELSE "failed", path |-> PathOf(last.ino),
               offset |-> last.offset, limit |-> last.limit, arg |-> last.arg,
               truncate |-> last.truncate]

Store == INSTANCE FileStore WITH
    dirs <- Dirs, content <- Content, call <- LatestCall, answer <- last.bytes

\* The file system implements the store of named byte sequences: a read gives
\* the bytes that the file of that path holds, a write changes one file only
\* and there only the bytes written, creation and truncation nothing else.
ImplementsFileStore == Store!Spec
=============================================================================
