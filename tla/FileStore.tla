----------------------------- MODULE FileStore -----------------------------
(***************************************************************************)
(* What the file system promises its callers: a tree of directories and    *)
(* files that only grows, where each file is a sequence of bytes.  The     *)
(* effect of a step is determined by the call it answers.  A directory is  *)
(* created in a directory; a file also below a file, where no path leads.  *)
(***************************************************************************)
EXTENDS Naturals, Sequences

CONSTANT Names

VARIABLES
    dirs,       \* paths of the directories
    content,    \* the bytes of each file, by path
    call,       \* the latest call
    answer      \* the bytes it answered

vars == <<dirs, content, call, answer>>

ParentOf(path) == SubSeq(path, 1, Len(path) - 1)

Init ==
    /\ dirs = {<<>>}
    /\ content = [p \in {} |-> <<>>]
    /\ call.op = "init"
    /\ answer = <<>>

Free(path) ==
    /\ path \in Seq(Names) \ {<<>>}
    /\ path \notin dirs \cup DOMAIN content

Mkdir(path) ==
    /\ Free(path) /\ ParentOf(path) \in dirs
    /\ dirs' = dirs \cup {path}
    /\ UNCHANGED content

Create(path) ==
    /\ Free(path) /\ ParentOf(path) \in dirs \cup DOMAIN content
    /\ content' = [p \in DOMAIN content \cup {path} |-> IF p = path THEN <<>> ELSE content[p]]
    /\ UNCHANGED dirs

Truncate(path) ==
    /\ path \in DOMAIN content
    /\ content' = [content EXCEPT ![path] = <<>>]
    /\ UNCHANGED dirs

Reopen(path) ==
    /\ path \in dirs \cup DOMAIN content
    /\ UNCHANGED <<dirs, content>>

\* The bytes replace what was at offset; a gap before offset may hold anything.
Write(path, offset, bytes) ==
    LET old == content[path]
        new == content'[path]
        end == offset + Len(bytes)
    IN  /\ DOMAIN content' = DOMAIN content
        /\ \A p \in DOMAIN content \ {path} : content'[p] = content[p]
        /\ Len(new) = IF end > Len(old) THEN end ELSE Len(old)
        /\ SubSeq(new, offset + 1, end) = bytes
        /\ \A k \in DOMAIN old \ (offset + 1..end) : new[k] = old[k]
        /\ UNCHANGED dirs

Slice(path, offset, limit) ==
    LET size == Len(content[path])
    IN  SubSeq(content[path], offset + 1, IF offset + limit < size THEN offset + limit ELSE size)

\* A read is the only call that answers bytes.
Answers(bytes) ==
    answer' = IF call'.op = "read" THEN bytes ELSE <<>>

Next ==
    LET path == call'.path
    IN  \/ call'.op = "mkdir" /\ Mkdir(path) /\ Answers(<<>>)
        \/ /\ call'.op = "open" /\ Answers(<<>>)
           /\ \/ Create(path)
              \/ call'.truncate /\ Truncate(path)
              \/ (call'.truncate => path \in dirs) /\ Reopen(path)
        \/ call'.op = "write" /\ Write(path, call'.offset, call'.arg) /\ Answers(<<>>)
        \/ /\ call'.op = "read"
           /\ Answers(Slice(path, call'.offset, call'.limit))
           /\ UNCHANGED <<dirs, content>>
        \/ /\ call'.op \in {"mount", "close", "readdir", "failed"}
           /\ Answers(<<>>)
           /\ UNCHANGED <<dirs, content>>

Spec == Init /\ [][Next]_vars
=============================================================================
