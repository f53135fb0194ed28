----------------------------- MODULE PathParse -----------------------------
(***************************************************************************)
(* vfs_aux_parse_path(): one pass over the characters of a path that        *)
(* splits it into names, drops "." and resolves "..", writing the names    *)
(* into the rows of vfs_path_t.                                            *)
(*                                                                         *)
(* The table is modelled as the memory it is: row d starts at cell         *)
(* d * VFS_MAX_FILE_FOLDER_NAME and the field depth follows the last row,  *)
(* so a name that outgrows its row runs into what follows.                 *)
(***************************************************************************)
EXTENDS Integers, Sequences, SequencesExt

CONSTANTS
    SEP,            \* the character '/'
    DOT,            \* the character '.'
    NUL,            \* the end of a string
    Letters,        \* the other characters
    Junk,           \* what an unwritten cell, or one of field depth, holds
    Lengths,        \* lengths of the paths parsed
    VFS_MAX_FILE_FOLDER_NAME

ASSUME PathAssumption ==
    /\ VFS_MAX_FILE_FOLDER_NAME \in Nat
    /\ VFS_MAX_FILE_FOLDER_NAME % 2 = 0 /\ VFS_MAX_FILE_FOLDER_NAME >= 4
    /\ Lengths \subseteq Nat
    /\ {SEP, DOT, NUL, Junk} \cap Letters = {}
    /\ SEP # DOT /\ NUL \notin {SEP, DOT, Junk} /\ Junk \notin {SEP, DOT}

VFS_MAX_DEPTH == VFS_MAX_FILE_FOLDER_NAME \div 2

Chars == Letters \cup {SEP, DOT}

VARIABLES
    path,               \* the argument, without its NUL
    read_ptr,
    write_depth_ptr,
    write_ptr,
    out,                \* cells of out->path and what follows it
    depth,              \* out->depth
    res                 \* NULL-like "running" until the function returns

vars == <<path, read_ptr, write_depth_ptr, write_ptr, out, depth, res>>

Running == "running"
OK == "VFS_OK"
ENAMETOOLONG == "VFS_ENAMETOOLONG"

\* path[k], counted from 0 as in C.
At(k) == IF k < Len(path) THEN path[k + 1] ELSE NUL

Row(d) == d * VFS_MAX_FILE_FOLDER_NAME
DepthField == Row(VFS_MAX_DEPTH)
Cells == 0..Row(VFS_MAX_DEPTH + 2)

Init ==
    /\ path \in UNION {[1..n -> Chars] : n \in Lengths}
    /\ read_ptr = 0
    /\ write_depth_ptr = 0
    /\ write_ptr = 0
    /\ out = [c \in Cells |-> Junk]
    /\ depth = 0
    /\ res = Running

Put(char) == out' = [out EXCEPT ![Row(write_depth_ptr) + write_ptr] = char]

\* The guards at the head of the loop.
PathTooLong == read_ptr > VFS_MAX_FILE_FOLDER_NAME
TooDeep == write_depth_ptr > VFS_MAX_DEPTH

Refuse ==
    /\ At(read_ptr) # NUL
    /\ PathTooLong \/ TooDeep
    /\ res' = ENAMETOOLONG
    /\ UNCHANGED <<path, read_ptr, write_depth_ptr, write_ptr, out, depth>>

InLoop == res = Running /\ At(read_ptr) # NUL /\ ~PathTooLong /\ ~TooDeep

Advance == read_ptr' = read_ptr + 1 /\ UNCHANGED <<path, depth, res>>

\* A separator that closes even an empty name.
SeparatorAlwaysCloses ==
    /\ InLoop /\ At(read_ptr) = SEP
    /\ Put(NUL)
    /\ write_depth_ptr' = write_depth_ptr + 1
    /\ write_ptr' = 0
    /\ Advance

\* A separator closes the name before it, if there is one.
Separator ==
    /\ InLoop /\ At(read_ptr) = SEP
    /\ IF write_ptr > 0
       THEN Put(NUL) /\ write_depth_ptr' = write_depth_ptr + 1 /\ write_ptr' = 0
       ELSE UNCHANGED <<out, write_depth_ptr, write_ptr>>
    /\ Advance

AfterDot == read_ptr > 0 /\ At(read_ptr - 1) = DOT

\* A second dot at the root.
DotDotBelowRoot ==
    /\ InLoop /\ At(read_ptr) = DOT /\ AfterDot
    /\ write_depth_ptr' = write_depth_ptr - 1
    /\ write_ptr' = 0
    /\ UNCHANGED out
    /\ Advance

\* The second of two dots drops the name before and restarts the row.
DotDot ==
    /\ InLoop /\ At(read_ptr) = DOT /\ AfterDot
    /\ write_depth_ptr' = IF write_depth_ptr = 0 THEN 0 ELSE write_depth_ptr - 1
    /\ write_ptr' = 0
    /\ UNCHANGED out
    /\ Advance

HasCharOnLeft == read_ptr > 0 /\ At(read_ptr - 1) # SEP
HasCharOnRight == At(read_ptr + 1) \notin {SEP, NUL}
LoneDot == At(read_ptr) = DOT /\ ~AfterDot /\ ~HasCharOnLeft /\ ~HasCharOnRight

SkipDotInPlace ==
    /\ InLoop /\ LoneDot
    /\ UNCHANGED vars

\* A dot that stands alone between separators is dropped.
SkipDot ==
    /\ InLoop /\ LoneDot
    /\ UNCHANGED <<out, write_depth_ptr, write_ptr>>
    /\ Advance

\* Any other character, and a dot that belongs to a name, is copied.
Copy ==
    /\ InLoop
    /\ \/ At(read_ptr) \in Letters
       \/ At(read_ptr) = DOT /\ ~AfterDot /\ ~LoneDot
    /\ Put(At(read_ptr))
    /\ write_ptr' = write_ptr + 1
    /\ UNCHANGED write_depth_ptr
    /\ Advance

\* The end of the path closes the last name; storing the depth overwrites the
\* cells that follow the table.
Finish ==
    /\ At(read_ptr) = NUL
    /\ out' = [c \in Cells |->
                  CASE c \in DepthField..DepthField + 3 -> Junk
                    [] c = Row(write_depth_ptr) + write_ptr /\ write_ptr > 0
                          /\ c \notin DepthField..DepthField + 3 -> NUL
                    [] OTHER -> out[c]]
    /\ depth' = IF write_ptr > 0 THEN write_depth_ptr + 1 ELSE write_depth_ptr
    /\ write_ptr' = IF write_ptr > 0 THEN write_ptr + 1 ELSE write_ptr
    /\ res' = OK
    /\ UNCHANGED <<path, read_ptr, write_depth_ptr>>

Next == res = Running /\ (Refuse \/ Separator \/ DotDot \/ SkipDot \/ Copy \/ Finish)

\* The loop is sequential code: it keeps running.
Spec == Init /\ [][Next]_vars /\ WF_vars(Next)
-----------------------------------------------------------------------------
(* What the path means *)

\* What a whole name does to the names before it.
Resolve(names, name) ==
    CASE name \in {<<>>, <<DOT>>} -> names
      [] name = <<DOT, DOT>> -> SubSeq(names, 1, Len(names) - 1)
      [] OTHER -> Append(names, name)

\* The names that n characters of the path mean, and the one they stop in.
Reading ==
    LET after[n \in 0..Len(path)] ==
            CASE n = 0 -> [names |-> <<>>, name |-> <<>>]
              [] n > 0 /\ path[n] = SEP ->
                    [names |-> Resolve(after[n - 1].names, after[n - 1].name), name |-> <<>>]
              [] OTHER -> [after[n - 1] EXCEPT !.name = Append(@, path[n])]
    IN  after

\* Names with ".." resolved and "." dropped.
Meaning == Resolve(Reading[Len(path)].names, Reading[Len(path)].name)

\* The parser takes two dots in a row for ".." wherever they stand in a name:
\* here they always stand alone.
PlainDots ==
    \A k \in 1..Len(path) - 1 : path[k] = DOT /\ path[k + 1] = DOT =>
        /\ k = 1 \/ path[k - 1] = SEP
        /\ k + 1 = Len(path) \/ path[k + 2] = SEP

\* Row d as the C string its readers see.
NameAt(d) ==
    LET end == CHOOSE c \in Cells : c >= Row(d) /\ out[c] = NUL
                   /\ \A b \in Row(d)..c - 1 : out[b] # NUL
    IN  [k \in 1..end - Row(d) |-> out[Row(d) + k - 1]]

\* Every counter stays in the table and the answer is one of the codes.
TypeOK ==
    /\ read_ptr \in 0..Len(path)
    /\ write_depth_ptr \in 0..VFS_MAX_DEPTH + 1
    /\ write_ptr \in 0..VFS_MAX_FILE_FOLDER_NAME + 2
    /\ Range(out) \subseteq Chars \cup {NUL, Junk}
    /\ depth \in Nat
    /\ res \in {Running, OK, ENAMETOOLONG}

\* Whatever the mixture of separators and dots, a path that is accepted yields
\* the names it means, each a closed string from the start of its row on (of a
\* name that fills the row, the NUL is in the next).
NamesAreTheMeaning ==
    res = OK /\ PlainDots =>
        /\ depth = Len(Meaning)
        /\ \A d \in 0..depth - 1 : NameAt(d) = Meaning[d + 1]

\* A path that fits is accepted, and writes nothing past the last row.
ShortPathsFit ==
    Len(path) <= VFS_MAX_FILE_FOLDER_NAME =>
        /\ res # ENAMETOOLONG
        /\ \A c \in Cells : c >= DepthField => out[c] = Junk

\* The parser returns.
Returns == <>(res # Running)

\* "max depth of the filesystem": no accepted path is deeper than the table.
DepthWithinMax == res = OK => depth <= VFS_MAX_DEPTH
=============================================================================
