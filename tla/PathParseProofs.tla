-------------------------- MODULE PathParseProofs --------------------------
(***************************************************************************)
(* Proofs about PathParse, for every path and every even size of a row.    *)
(***************************************************************************)
EXTENDS PathParse, FiniteSetTheorems, WellFoundedInduction, SequenceTheorems, TLAPS

\* The longest path that the parser is meant for.
Longest == VFS_MAX_FILE_FOLDER_NAME

Types ==
    /\ Len(path) \in Nat
    /\ \A k \in 1..Len(path) : path[k] \in Chars
    /\ read_ptr \in Nat /\ write_depth_ptr \in Nat /\ write_ptr \in Nat /\ depth \in Nat
    /\ out \in [Cells -> Chars \cup {NUL, Junk}]
    /\ res \in {Running, OK, ENAMETOOLONG}

\* Each name written took a character and a separator of the path, so the
\* counters that write stay behind the one that reads.
Behind ==
    /\ read_ptr <= Len(path) /\ read_ptr <= Longest + 1
    /\ 2 * write_depth_ptr + write_ptr <= read_ptr + (IF res = OK THEN 1 ELSE 0)

IInv == Types /\ Behind /\ ShortPathsFit

LEMMA Sizes ==
    /\ Longest \in Nat /\ VFS_MAX_DEPTH \in Nat /\ Longest = 2 * VFS_MAX_DEPTH /\ VFS_MAX_DEPTH >= 2
BY PathAssumption DEF Longest, VFS_MAX_DEPTH

LEMMA Codes == Running # OK /\ Running # ENAMETOOLONG /\ OK # ENAMETOOLONG
BY DEF Running, OK, ENAMETOOLONG

\* Where a write of a path that fits lands: in a row, or in the next one's
\* first cell.
LEMMA WriteInTable ==
    ASSUME NEW d \in Nat, NEW w \in Nat, 2 * d + w <= Longest, d < VFS_MAX_DEPTH
    PROVE  Row(d) + w < DepthField
<1> DEFINE M == VFS_MAX_FILE_FOLDER_NAME
           D == VFS_MAX_DEPTH
<1>1. M \in Nat /\ D \in Nat /\ M = 2 * D /\ D >= 2 /\ d < D /\ 2 * d + w <= M
    BY Sizes DEF Longest
<1>2. Row(d) = d * M /\ DepthField = D * M
    BY DEF Row, DepthField
<1> HIDE DEF M, D
<1>3. \A x, y \in Nat : x <= y => x * M <= y * M
    BY <1>1
<1>4. CASE d = 0
    <2>1. 2 * M <= D * M
        BY <1>1, <1>3
    <2>2. d * M = 0
        BY <1>1, <1>4
    <2> QED
        BY <1>1, <1>2, <1>4, <2>1, <2>2
<1>5. CASE d > 0
    <2>1. (d + 1) * M <= D * M
        BY <1>1, <1>3
    <2>2. (d + 1) * M = d * M + M
        BY <1>1
    <2>3. w < M
        BY <1>1, <1>5
    <2>4. d * M \in Nat /\ D * M \in Nat
        BY <1>1
    <2> QED
        BY <1>1, <1>2, <2>1, <2>2, <2>3, <2>4
<1> QED
    BY <1>4, <1>5

LEMMA CellNumbers == Cells \subseteq Nat /\ DepthField \in Nat
<1>1. \A d \in Nat : Row(d) \in Nat
    BY PathAssumption DEF Row
<1> QED
    BY <1>1, Sizes DEF Cells, DepthField

LEMMA InitEstablishes == Init => IInv
<1> SUFFICES ASSUME Init
             PROVE  IInv
    OBVIOUS
<1>1. PICK n \in Lengths : path \in [1..n -> Chars]
    BY DEF Init
<1>2. n \in Nat /\ Len(path) = n /\ \A k \in 1..n : path[k] \in Chars
    <2>1. n \in Nat
        BY PathAssumption
    <2>2. path \in Seq(Chars)
        BY <1>1, <2>1
    <2> QED
        BY <1>1, <2>1, <2>2
<1>3. /\ read_ptr = 0 /\ write_depth_ptr = 0 /\ write_ptr = 0 /\ depth = 0 /\ res = Running
      /\ out = [c \in Cells |-> Junk]
    BY DEF Init
<1>4. Types
    BY <1>2, <1>3 DEF Types
<1>5. Behind
    BY <1>2, <1>3, Codes, Sizes DEF Behind
<1>6. ShortPathsFit
    BY <1>3, Codes DEF ShortPathsFit
<1> QED
    BY <1>4, <1>5, <1>6 DEF IInv

\* A character written inside the loop.
LEMMA PutKeeps ==
    ASSUME IInv, InLoop, NEW char \in Chars \cup {NUL}, Put(char)
    PROVE  /\ out' \in [Cells -> Chars \cup {NUL, Junk}]
           /\ Len(path) <= Longest => \A c \in Cells : c >= DepthField => out'[c] = Junk
<1>1. out' \in [Cells -> Chars \cup {NUL, Junk}]
    BY DEF IInv, Types, Put
<1>2. ASSUME Len(path) <= Longest, NEW c \in Cells, c >= DepthField
      PROVE  out'[c] = Junk
    <2>1. out[c] = Junk
        BY <1>2 DEF IInv, ShortPathsFit, Longest
    <2>2. read_ptr < Len(path)
        BY DEF InLoop, At, IInv, Types, Behind
    <2>3. /\ write_depth_ptr \in Nat /\ write_ptr \in Nat /\ read_ptr \in Nat /\ Len(path) \in Nat
          /\ 2 * write_depth_ptr + write_ptr <= read_ptr
        BY Codes DEF IInv, Types, Behind, InLoop
    <2>4. 2 * write_depth_ptr + write_ptr <= Longest /\ write_depth_ptr < VFS_MAX_DEPTH
        BY <1>2, <2>2, <2>3, Sizes
    <2>5. Row(write_depth_ptr) + write_ptr < DepthField
        BY <2>3, <2>4, WriteInTable
    <2>6. Row(write_depth_ptr) + write_ptr # c
        BY <1>2, <2>3, <2>5, CellNumbers, PathAssumption DEF Row
    <2> QED
        BY <2>1, <2>6 DEF Put, IInv, Types
<1> QED
    BY <1>1, <1>2

\* A turn of the loop reads one character; the counters stay behind it.
LEMMA TurnKeeps ==
    ASSUME IInv, InLoop, Advance,
           write_depth_ptr' \in Nat, write_ptr' \in Nat,
           2 * write_depth_ptr' + write_ptr' <= read_ptr + 1,
           out' \in [Cells -> Chars \cup {NUL, Junk}],
           Len(path) <= Longest => \A c \in Cells : c >= DepthField => out'[c] = Junk
    PROVE  IInv'
<1>1. /\ read_ptr' = read_ptr + 1 /\ path' = path /\ depth' = depth /\ res' = res /\ res = Running
    BY DEF Advance, InLoop
<1>2. read_ptr < Len(path)
    BY DEF InLoop, At, IInv, Types, Behind
<1>3. read_ptr <= Longest
    BY Sizes DEF InLoop, PathTooLong, IInv, Types, Longest
<1>4. read_ptr \in Nat /\ Len(path) \in Nat /\ depth \in Nat
    BY DEF IInv, Types
<1>5. Types'
    BY <1>1, <1>4 DEF IInv, Types
<1>6. Behind'
    <2>1. read_ptr' <= Len(path') /\ read_ptr' <= Longest + 1
        BY <1>1, <1>2, <1>3, <1>4, Sizes
    <2>2. res' # OK
        BY <1>1, Codes
    <2>3. 2 * write_depth_ptr' + write_ptr' <= read_ptr'
        BY <1>1
    <2>4. read_ptr' + 0 = read_ptr'
        BY <1>1, <1>4
    <2> QED
        BY <2>1, <2>2, <2>3, <2>4 DEF Behind
<1>7. ShortPathsFit'
    BY <1>1, Codes DEF ShortPathsFit, Longest
<1> QED
    BY <1>5, <1>6, <1>7 DEF IInv

LEMMA CharAt ==
    ASSUME Types, read_ptr < Len(path)
    PROVE  At(read_ptr) \in Chars
<1>1. read_ptr + 1 \in 1..Len(path)
    BY DEF Types
<1> QED
    BY <1>1 DEF At, Types

LEMMA SomeFacts ==
    ASSUME IInv, InLoop
    PROVE  /\ write_depth_ptr \in Nat /\ write_ptr \in Nat /\ read_ptr \in Nat
           /\ 2 * write_depth_ptr + write_ptr <= read_ptr
           /\ out \in [Cells -> Chars \cup {NUL, Junk}]
           /\ Len(path) <= Longest => \A c \in Cells : c >= DepthField => out[c] = Junk
           /\ At(read_ptr) \in Chars
<1>1. read_ptr < Len(path)
    BY DEF InLoop, At, IInv, Types, Behind
<1>2. At(read_ptr) \in Chars
    BY <1>1, CharAt DEF IInv
<1> QED
    BY <1>2, Codes DEF IInv, Types, Behind, InLoop, ShortPathsFit, Longest

\* The end of the path: the last name is closed and the depth stored.
LEMMA FinishKeeps ==
    ASSUME IInv, res = Running, Finish
    PROVE  IInv'
<1> DEFINE cell == Row(write_depth_ptr) + write_ptr
<1>1. /\ write_depth_ptr \in Nat /\ write_ptr \in Nat /\ read_ptr \in Nat /\ Len(path) \in Nat
      /\ 2 * write_depth_ptr + write_ptr <= read_ptr /\ read_ptr <= Len(path)
      /\ read_ptr <= Longest + 1
      /\ out \in [Cells -> Chars \cup {NUL, Junk}]
    BY Codes DEF IInv, Types, Behind
<1>2. /\ path' = path /\ read_ptr' = read_ptr /\ write_depth_ptr' = write_depth_ptr /\ res' = OK
      /\ depth' = IF write_ptr > 0 THEN write_depth_ptr + 1 ELSE write_depth_ptr
      /\ write_ptr' = IF write_ptr > 0 THEN write_ptr + 1 ELSE write_ptr
    BY DEF Finish
<1>3. \A c \in Cells : \/ out'[c] = out[c]
                       \/ out'[c] = Junk
                       \/ out'[c] = NUL /\ write_ptr > 0 /\ c = cell
    BY DEF Finish
<1>4. out' \in [Cells -> Chars \cup {NUL, Junk}]
    <2>1. out' = [c \in Cells |-> out'[c]]
        BY DEF Finish
    <2>2. \A c \in Cells : out'[c] \in Chars \cup {NUL, Junk}
        BY <1>1, <1>3
    <2> QED
        BY <2>1, <2>2
<1>5. Types'
    BY <1>1, <1>2, <1>4 DEF IInv, Types
<1>6. Behind'
    <2>1. 2 * write_depth_ptr' + write_ptr' <= read_ptr' + 1
        BY <1>1, <1>2
    <2> QED
        BY <1>1, <1>2, <2>1 DEF Behind
<1>7. ShortPathsFit'
    <2>1. ASSUME Len(path) <= Longest, NEW c \in Cells, c >= DepthField
          PROVE  out'[c] = Junk
        <3>1. out[c] = Junk
            BY <2>1 DEF IInv, ShortPathsFit, Longest
        <3>2. CASE write_ptr > 0
            <4>1. 2 * write_depth_ptr + write_ptr <= Longest /\ write_depth_ptr < VFS_MAX_DEPTH
                BY <1>1, <2>1, <3>2, Sizes
            <4>2. cell < DepthField
                BY <1>1, <4>1, WriteInTable
            <4>3. c # cell
                BY <1>1, <2>1, <4>2, CellNumbers, PathAssumption DEF Row
            <4> QED
                BY <1>3, <3>1, <4>3
        <3>3. CASE ~(write_ptr > 0)
            BY <1>3, <3>1, <3>3
        <3> QED
            BY <3>2, <3>3
    <2> QED
        BY <1>2, <2>1, Codes DEF ShortPathsFit, Longest
<1> QED
    BY <1>5, <1>6, <1>7 DEF IInv

\* A path that fits never meets the guards at the head of the loop.
LEMMA RefuseKeeps ==
    ASSUME IInv, res = Running, Refuse
    PROVE  IInv'
<1>1. /\ write_depth_ptr \in Nat /\ write_ptr \in Nat /\ read_ptr \in Nat /\ Len(path) \in Nat
      /\ 2 * write_depth_ptr + write_ptr <= read_ptr /\ read_ptr < Len(path)
    BY Codes DEF IInv, Types, Behind, Refuse, At
<1>2. /\ res' = ENAMETOOLONG /\ path' = path /\ read_ptr' = read_ptr /\ out' = out /\ depth' = depth
      /\ write_depth_ptr' = write_depth_ptr /\ write_ptr' = write_ptr
    BY DEF Refuse
<1>3. ~(Len(path) <= Longest)
    <2>1. read_ptr > Longest \/ write_depth_ptr > VFS_MAX_DEPTH
        BY DEF Refuse, PathTooLong, TooDeep, Longest
    <2> QED
        BY <1>1, <2>1, Sizes
<1>4. Types'
    BY <1>2 DEF IInv, Types
<1>5. Behind'
    BY <1>1, <1>2, Codes DEF IInv, Behind
<1>6. ShortPathsFit'
    BY <1>2, <1>3 DEF ShortPathsFit, Longest
<1> QED
    BY <1>4, <1>5, <1>6 DEF IInv

LEMMA StepKeeps == IInv /\ [Next]_vars => IInv'
<1> SUFFICES ASSUME IInv, [Next]_vars
             PROVE  IInv'
    OBVIOUS
<1>1. CASE res = Running /\ Refuse
    BY <1>1, RefuseKeeps
<1>2. CASE Separator
    <2>1. InLoop /\ Advance
        BY <1>2 DEF Separator
    <2>2. CASE write_ptr > 0
        <3>1. Put(NUL) /\ write_depth_ptr' = write_depth_ptr + 1 /\ write_ptr' = 0
            BY <1>2, <2>2 DEF Separator
        <3>2. /\ write_depth_ptr' \in Nat /\ write_ptr' \in Nat
              /\ 2 * write_depth_ptr' + write_ptr' <= read_ptr + 1
            BY <2>1, <2>2, <3>1, SomeFacts
        <3> QED
            BY <2>1, <3>1, <3>2, PutKeeps, TurnKeeps
    <2>3. CASE ~(write_ptr > 0)
        <3>1. out' = out /\ write_depth_ptr' = write_depth_ptr /\ write_ptr' = write_ptr
            BY <1>2, <2>3 DEF Separator
        <3> QED
            BY <2>1, <3>1, SomeFacts, TurnKeeps
    <2> QED
        BY <2>2, <2>3
<1>3. CASE DotDot
    <2>1. /\ InLoop /\ Advance /\ out' = out /\ write_ptr' = 0
          /\ write_depth_ptr' = IF write_depth_ptr = 0 THEN 0 ELSE write_depth_ptr - 1
        BY <1>3 DEF DotDot
    <2>2. /\ write_depth_ptr' \in Nat /\ write_ptr' \in Nat
          /\ 2 * write_depth_ptr' + write_ptr' <= read_ptr + 1
        BY <2>1, SomeFacts
    <2> QED
        BY <2>1, <2>2, SomeFacts, TurnKeeps
<1>4. CASE SkipDot
    <2>1. /\ InLoop /\ Advance
          /\ out' = out /\ write_depth_ptr' = write_depth_ptr /\ write_ptr' = write_ptr
        BY <1>4 DEF SkipDot
    <2> QED
        BY <2>1, SomeFacts, TurnKeeps
<1>5. CASE Copy
    <2>1. /\ InLoop /\ Advance /\ Put(At(read_ptr))
          /\ write_depth_ptr' = write_depth_ptr /\ write_ptr' = write_ptr + 1
        BY <1>5 DEF Copy
    <2>2. /\ write_depth_ptr' \in Nat /\ write_ptr' \in Nat
          /\ 2 * write_depth_ptr' + write_ptr' <= read_ptr + 1
          /\ At(read_ptr) \in Chars \cup {NUL}
        BY <2>1, SomeFacts
    <2> QED
        BY <2>1, <2>2, PutKeeps, TurnKeeps
<1>6. CASE res = Running /\ Finish
    BY <1>6, FinishKeeps
<1>7. CASE UNCHANGED vars
    BY <1>7 DEF vars, IInv, Types, Behind, ShortPathsFit
<1> QED
    BY <1>1, <1>2, <1>3, <1>4, <1>5, <1>6, <1>7 DEF Next

-----------------------------------------------------------------------------
(* The theorems *)

\* What holds of the counters and of the memory after each character.
THEOREM InductiveInvariant == Spec => []IInv
    BY InitEstablishes, StepKeeps, PTL DEF Spec

\* Every counter stays in the table, whatever the path: "..", however often,
\* never brings the depth below the root, and the guards stop the rest.
THEOREM TypeCorrect == Spec => []TypeOK
<1>1. IInv => TypeOK
    <2> SUFFICES ASSUME IInv
                 PROVE  TypeOK
        OBVIOUS
    <2>1. /\ Len(path) \in Nat /\ read_ptr \in Nat /\ write_depth_ptr \in Nat /\ write_ptr \in Nat
          /\ depth \in Nat /\ res \in {Running, OK, ENAMETOOLONG}
          /\ out \in [Cells -> Chars \cup {NUL, Junk}]
        BY DEF IInv, Types
    <2>2. /\ read_ptr <= Len(path) /\ read_ptr <= Longest + 1
          /\ 2 * write_depth_ptr + write_ptr <= read_ptr + 1
        BY <2>1 DEF IInv, Behind
    <2>3. /\ read_ptr \in 0..Len(path) /\ write_depth_ptr \in 0..VFS_MAX_DEPTH + 1
          /\ write_ptr \in 0..Longest + 2
        BY <2>1, <2>2, Sizes
    <2>4. Range(out) \subseteq Chars \cup {NUL, Junk}
        BY <2>1 DEF Range
    <2> QED
        BY <2>1, <2>3, <2>4 DEF TypeOK, Longest
<1> QED
    BY <1>1, InductiveInvariant, PTL

\* A path of at most VFS_MAX_FILE_FOLDER_NAME characters is accepted and
\* leaves alone what follows the table.
THEOREM ShortPathsAccepted == Spec => []ShortPathsFit
<1>1. IInv => ShortPathsFit
    BY DEF IInv
<1> QED
    BY <1>1, InductiveInvariant, PTL

-----------------------------------------------------------------------------
(* The reference: what a path means, character by character *)

Word == Seq(Chars \ {SEP})
Readings == [names : Seq(Word), name : Word]

Nothing == [names |-> <<>>, name |-> <<>>]

\* What the next character adds to the names read so far.
Turn(r, char) ==
    IF char = SEP THEN [names |-> Resolve(r.names, r.name), name |-> <<>>]
                  ELSE [r EXCEPT !.name = Append(@, char)]

IsReading(f, m) == f = [n \in 0..m |-> IF n = 0 THEN Nothing ELSE Turn(f[n - 1], path[n])]

\* A nonempty set of numbers that is bounded has a least element.
LEMMA LeastNumber ==
    ASSUME NEW bound \in Nat, NEW S \in SUBSET (0..bound), S # {}
    PROVE  \E n \in S : \A k \in S : n <= k
<1> DEFINE All == 0..bound
           Starts == {0..k : k \in S}
<1>1. Starts \subseteq FiniteSubsetsOf(All)
    <2>1. IsFiniteSet(All) /\ \A k \in S : 0..k \in SUBSET All
        BY FS_Interval
    <2> QED
        BY <2>1, FS_FiniteSubsetsOfFinite
<1>2. PICK least \in Starts : \A other \in Starts : <<other, least>> \notin StrictSubsetOrdering(All)
    <2>1. Starts # {} /\ IsWellFoundedOn(StrictSubsetOrdering(All), FiniteSubsetsOf(All))
        BY FS_StrictSubsetOrderingWellFounded
    <2> HIDE DEF Starts, All
    <2> QED
        BY <1>1, <2>1, WFMin
<1>3. PICK n \in S : least = 0..n
    OBVIOUS
<1>4. ASSUME NEW k \in S, k < n
      PROVE  FALSE
    <2>1. n \in 0..n /\ n \notin 0..k
        BY <1>4
    <2>2. 0..k \subseteq 0..n /\ 0..k # 0..n /\ 0..k \in SUBSET All /\ 0..n \in SUBSET All
        BY <1>4, <2>1
    <2>3. <<0..k, least>> \in StrictSubsetOrdering(All)
        BY <1>3, <2>2 DEF StrictSubsetOrdering
    <2> QED
        BY <1>2, <2>3
<1> QED
    BY <1>4

LEMMA ReadingExists ==
    ASSUME NEW m \in Nat
    PROVE  \E f : IsReading(f, m)
<1> DEFINE Bad == {j \in 0..m : ~\E f : IsReading(f, j)}
<1>1. SUFFICES ASSUME Bad # {}
               PROVE  FALSE
    OBVIOUS
<1>2. PICK j \in Bad : \A k \in Bad : j <= k
    <2>1. Bad \subseteq 0..m
        OBVIOUS
    <2> HIDE DEF Bad
    <2> QED
        BY <1>1, <2>1, LeastNumber
<1>3. CASE j = 0
    <2> DEFINE f == [n \in 0..0 |-> Nothing]
    <2>1. f = [n \in 0..0 |-> IF n = 0 THEN Nothing ELSE Turn(f[n - 1], path[n])]
        OBVIOUS
    <2>2. IsReading(f, j)
        BY <1>3, <2>1 DEF IsReading
    <2> QED
        BY <2>2
<1>4. CASE j > 0
    <2>1. j - 1 \in 0..m /\ j - 1 \notin Bad
        BY <1>2, <1>4
    <2>2. PICK g : IsReading(g, j - 1)
        BY <2>1
    <2> DEFINE f == [n \in 0..j |-> IF n = j THEN Turn(g[j - 1], path[j]) ELSE g[n]]
    <2>3. \A n \in 0..j - 1 : f[n] = g[n]
        OBVIOUS
    <2>4. \A n \in 0..j - 1 : g[n] = IF n = 0 THEN Nothing ELSE Turn(g[n - 1], path[n])
        BY <2>2 DEF IsReading
    <2>5. f[j] = Turn(g[j - 1], path[j])
        BY <1>4
    <2>6. f = [n \in 0..j |-> f[n]]
        OBVIOUS
    <2> HIDE DEF f
    <2>7. \A n \in 0..j : f[n] = IF n = 0 THEN Nothing ELSE Turn(f[n - 1], path[n])
        <3>1. \A n \in 0..j : n = j \/ (n = 0 /\ n \in 0..j - 1)
                                    \/ (n \in 0..j - 1 /\ n # 0 /\ n - 1 \in 0..j - 1)
            BY <1>4
        <3>2. j - 1 \in 0..j - 1 /\ j # 0
            BY <1>4
        <3> QED
            BY <2>3, <2>4, <2>5, <3>1, <3>2
    <2>8. IsReading(f, j)
        BY <2>6, <2>7 DEF IsReading
    <2> QED
        BY <2>8
<1> QED
    BY <1>2, <1>3, <1>4

\* Reading takes one turn for each character.
LEMMA ReadingTurns ==
    ASSUME Len(path) \in Nat
    PROVE  /\ Reading[0] = Nothing
           /\ \A n \in 0..Len(path) - 1 : Reading[n + 1] = Turn(Reading[n], path[n + 1])
<1>0. PICK m \in Nat : m = Len(path)
    OBVIOUS
<1> DEFINE step(g) == [n \in 0..m |->
               CASE n = 0 -> [names |-> <<>>, name |-> <<>>]
                 [] n > 0 /\ path[n] = SEP -> [names |-> Resolve(g[n - 1].names, g[n - 1].name), name |-> <<>>]
                 [] OTHER -> [g[n - 1] EXCEPT !.name = Append(@, path[n])]]
           after == CHOOSE g : g = step(g)
<1>1. Reading = after
    BY <1>0 DEF Reading
<1>2. ASSUME NEW g
      PROVE  step(g) = [n \in 0..m |-> IF n = 0 THEN Nothing ELSE Turn(g[n - 1], path[n])]
    BY DEF Turn, Nothing
<1>3. \E g : g = step(g)
    <2>1. PICK g : IsReading(g, m)
        BY ReadingExists
    <2>2. g = step(g)
        BY <1>2, <2>1 DEF IsReading
    <2> QED
        BY <2>2
<1>4. after = step(after)
    BY <1>3
<1>5. IsReading(Reading, m)
    <2>1. IsReading(after, m)
        BY <1>2, <1>4 DEF IsReading
    <2> QED
        BY <1>1, <2>1
<1>6. \A n \in 0..m : Reading[n] = IF n = 0 THEN Nothing ELSE Turn(Reading[n - 1], path[n])
    BY <1>5 DEF IsReading
<1> QED
    BY <1>0, <1>6

-----------------------------------------------------------------------------
(* Names *)

LEMMA WordFacts ==
    ASSUME NEW name \in Word, NEW char \in Chars \ {SEP}
    PROVE  /\ Append(name, char) \in Word /\ Len(Append(name, char)) = Len(name) + 1
           /\ \A k \in 1..Len(name) : Append(name, char)[k] = name[k]
           /\ Append(name, char)[Len(name) + 1] = char
           /\ Append(name, char) # <<>>
           /\ Append(name, char) = <<DOT>> <=> name = <<>> /\ char = DOT
           /\ Append(name, char) = <<DOT, DOT>> <=> name = <<DOT>> /\ char = DOT
<1>1. DOT \in Chars \ {SEP}
    BY PathAssumption DEF Chars
<1>2. <<>> \in Word /\ <<DOT>> \in Word
    BY <1>1, EmptySeq DEF Word
<1>3. Append(<<>>, DOT) = <<DOT>> /\ Append(<<DOT>>, DOT) = <<DOT, DOT>>
    <2>1. /\ <<DOT>> \in Word /\ Len(<<DOT>>) = 1 /\ <<DOT>>[1] = DOT
          /\ <<DOT, DOT>> \in Word /\ Len(<<DOT, DOT>>) = 2
          /\ <<DOT, DOT>>[1] = DOT /\ <<DOT, DOT>>[2] = DOT
        BY <1>1 DEF Word
    <2>2. /\ Append(<<>>, DOT) \in Word /\ Len(Append(<<>>, DOT)) = 1 /\ Append(<<>>, DOT)[1] = DOT
        BY <1>1, <1>2, AppendProperties, EmptySeq DEF Word
    <2>3. /\ Append(<<DOT>>, DOT) \in Word /\ Len(Append(<<DOT>>, DOT)) = 2
          /\ Append(<<DOT>>, DOT)[1] = DOT /\ Append(<<DOT>>, DOT)[2] = DOT
        <3>1. /\ Append(<<DOT>>, DOT) \in Word /\ Len(Append(<<DOT>>, DOT)) = Len(<<DOT>>) + 1
              /\ \A i \in 1..Len(<<DOT>>) : Append(<<DOT>>, DOT)[i] = <<DOT>>[i]
              /\ Append(<<DOT>>, DOT)[Len(<<DOT>>) + 1] = DOT
            BY <1>1, <2>1, AppendProperties DEF Word
        <3> HIDE DEF Word
        <3> QED
            BY <2>1, <3>1
    <2>4. \A s, t \in Word : Len(s) = Len(t) /\ (\A i \in 1..Len(s) : s[i] = t[i]) => s = t
        BY SeqEqual DEF Word
    <2>5. \A s, t \in Word : Len(s) = 1 /\ Len(t) = 1 /\ s[1] = t[1] => s = t
        BY <2>4
    <2>6. \A s, t \in Word : Len(s) = 2 /\ Len(t) = 2 /\ s[1] = t[1] /\ s[2] = t[2] => s = t
        BY <2>4
    <2> QED
        BY <2>1, <2>2, <2>3, <2>5, <2>6
<1>4. \A s \in Word, e \in Chars \ {SEP} : Append(name, char) = Append(s, e) <=> name = s /\ char = e
    BY AppendInjective DEF Word
<1>5. /\ Append(name, char) \in Word /\ Len(Append(name, char)) = Len(name) + 1
      /\ \A k \in 1..Len(name) : Append(name, char)[k] = name[k]
      /\ Append(name, char)[Len(name) + 1] = char
      /\ Append(name, char) # <<>>
    BY AppendProperties DEF Word
<1>6. Append(name, char) = Append(<<>>, DOT) <=> name = <<>> /\ char = DOT
    BY <1>1, <1>2, <1>4
<1>7. Append(name, char) = Append(<<DOT>>, DOT) <=> name = <<DOT>> /\ char = DOT
    BY <1>1, <1>2, <1>4
<1> QED
    BY <1>3, <1>5, <1>6, <1>7

LEMMA ResolveFacts ==
    ASSUME NEW r \in Readings
    PROVE  /\ Resolve(r.names, r.name) \in Seq(Word)
           /\ r.name \in {<<>>, <<DOT>>} => Resolve(r.names, r.name) = r.names
           /\ r.name = <<DOT, DOT>> => Resolve(r.names, r.name) = SubSeq(r.names, 1, Len(r.names) - 1)
           /\ r.name \notin {<<>>, <<DOT>>, <<DOT, DOT>>} =>
                Resolve(r.names, r.name) = Append(r.names, r.name)
<1>1. r.names \in Seq(Word) /\ r.name \in Word
    BY DEF Readings
<1>2. /\ <<DOT, DOT>> # <<>> /\ <<DOT, DOT>> # <<DOT>>
    OBVIOUS
<1>3. /\ r.name \in {<<>>, <<DOT>>} => Resolve(r.names, r.name) = r.names
      /\ r.name = <<DOT, DOT>> => Resolve(r.names, r.name) = SubSeq(r.names, 1, Len(r.names) - 1)
      /\ r.name \notin {<<>>, <<DOT>>, <<DOT, DOT>>} =>
            Resolve(r.names, r.name) = Append(r.names, r.name)
    BY <1>2 DEF Resolve
<1>4. Append(r.names, r.name) \in Seq(Word)
    BY <1>1, AppendProperties
<1>5. SubSeq(r.names, 1, Len(r.names) - 1) \in Seq(Word)
    <2>1. Len(r.names) \in Nat /\ \A k \in 1..Len(r.names) : r.names[k] \in Word
        BY <1>1, LenProperties
    <2>2. \A k \in 1..Len(r.names) - 1 : r.names[k] \in Word
        BY <2>1
    <2> QED
        BY <2>1, <2>2, SubSeqProperties
<1> QED
    BY <1>1, <1>3, <1>4, <1>5

LEMMA TurnFacts ==
    ASSUME NEW r \in Readings, NEW char \in Chars
    PROVE  /\ Turn(r, char) \in Readings
           /\ char = SEP => Turn(r, char).names = Resolve(r.names, r.name) /\ Turn(r, char).name = <<>>
           /\ char # SEP => Turn(r, char).names = r.names /\ Turn(r, char).name = Append(r.name, char)
<1>1. Resolve(r.names, r.name) \in Seq(Word) /\ <<>> \in Word
    BY ResolveFacts, EmptySeq DEF Word
<1>2. char # SEP => Append(r.name, char) \in Word
    BY WordFacts DEF Readings
<1> QED
    BY <1>1, <1>2 DEF Turn, Readings

-----------------------------------------------------------------------------
(* Rows *)

\* Row d is the string s.
RowIs(mem, d, s) ==
    (\A k \in 1..Len(s) : mem[Row(d) + k - 1] = s[k]) /\ mem[Row(d) + Len(s)] = NUL

\* The first rows are the names.
Table(mem, names, limit) ==
    \A d \in 1..Len(names) : RowIs(mem, d - 1, names[d]) /\ Len(names[d]) <= limit

Begun(mem, d, s) == \A k \in 1..Len(s) : mem[Row(d) + k - 1] = s[k]

LEMMA RowsApart ==
    ASSUME NEW d \in Nat, NEW e \in Nat
    PROVE  /\ Row(d) \in Nat
           /\ e < d => Row(e) + Longest <= Row(d)
           /\ e <= d => Row(e) <= Row(d)
<1> DEFINE M == VFS_MAX_FILE_FOLDER_NAME
<1>1. M \in Nat /\ Longest = M
    BY Sizes DEF Longest
<1>2. Row(d) = d * M /\ Row(e) = e * M
    BY DEF Row
<1> HIDE DEF M
<1>3. \A x, y \in Nat : x <= y => x * M <= y * M
    BY <1>1
<1>4. (e + 1) * M = e * M + M /\ e * M \in Nat /\ d * M \in Nat
    BY <1>1
<1>5. e < d => (e + 1) * M <= d * M
    BY <1>3
<1> QED
    BY <1>1, <1>2, <1>3, <1>4, <1>5

LEMMA CellsBelow ==
    ASSUME NEW d \in 0..VFS_MAX_DEPTH, NEW e \in Nat, e < d, NEW k \in Nat, k < Longest
    PROVE  Row(e) + k \in Cells /\ Row(e) + k < Row(d)
<1>1. /\ Row(d) \in Nat /\ Row(e) \in Nat /\ Row(e) + Longest <= Row(d)
      /\ VFS_MAX_DEPTH + 2 \in Nat /\ Row(VFS_MAX_DEPTH + 2) \in Nat
      /\ Row(d) <= Row(VFS_MAX_DEPTH + 2)
    <2>1. d \in Nat /\ VFS_MAX_DEPTH + 2 \in Nat /\ d <= VFS_MAX_DEPTH + 2
        BY Sizes
    <2> QED
        BY <2>1, RowsApart
<1>2. Longest \in Nat
    BY Sizes
<1> QED
    BY <1>1, <1>2 DEF Cells

LEMMA CellAtPointer ==
    ASSUME NEW d \in Nat, NEW w \in Nat, 2 * d + w < Longest
    PROVE  Row(d) + w \in Cells /\ d < VFS_MAX_DEPTH
<1>1. d < VFS_MAX_DEPTH /\ 2 * d + w <= Longest /\ VFS_MAX_DEPTH + 2 \in Nat /\ VFS_MAX_DEPTH \in Nat
    BY Sizes
<1>2. Row(d) + w < DepthField
    BY <1>1, WriteInTable
<1>3. Row(VFS_MAX_DEPTH) <= Row(VFS_MAX_DEPTH + 2) /\ Row(VFS_MAX_DEPTH + 2) \in Nat
      /\ Row(VFS_MAX_DEPTH) \in Nat /\ Row(d) \in Nat
    BY <1>1, RowsApart
<1> QED
    BY <1>1, <1>2, <1>3 DEF Cells, DepthField

\* What is written to row d or later leaves the rows before it.
LEMMA TableBefore ==
    ASSUME NEW names \in Seq(Word), NEW mem, NEW mem2, NEW d \in 0..VFS_MAX_DEPTH, Len(names) <= d,
           Table(mem, names, Longest - 1),
           \A c \in Cells : c < Row(d) => mem2[c] = mem[c]
    PROVE  Table(mem2, names, Longest - 1)
<1> SUFFICES ASSUME NEW e \in 1..Len(names)
             PROVE  RowIs(mem2, e - 1, names[e]) /\ Len(names[e]) <= Longest - 1
    BY DEF Table
<1>1. Len(names) \in Nat /\ e - 1 \in Nat /\ e - 1 < d /\ Longest \in Nat
    BY LenProperties, Sizes
<1>2. names[e] \in Word /\ Len(names[e]) \in Nat
    <2>1. names[e] \in Word
        BY LenProperties
    <2> QED
        BY <2>1, LenProperties DEF Word
<1>3. RowIs(mem, e - 1, names[e]) /\ Len(names[e]) <= Longest - 1
    BY DEF Table
<1> DEFINE s == names[e]
           z == Row(e - 1)
<1>4. \A k \in Nat : k < Longest => z + k \in Cells /\ z + k < Row(d)
    BY <1>1, CellsBelow
<1>5. z \in Nat /\ Len(s) < Longest
    <2>1. Row(e - 1) \in Nat
        BY <1>1, RowsApart
    <2>2. Len(names[e]) \in Nat /\ Len(names[e]) <= Longest - 1
        BY <1>2, <1>3
    <2> QED
        BY <1>1, <2>1, <2>2
<1>6. (\A k \in 1..Len(s) : mem[z + k - 1] = s[k]) /\ mem[z + Len(s)] = NUL
    BY <1>3 DEF RowIs
<1>7. \A k \in 1..Len(s) : z + k - 1 \in Cells /\ z + k - 1 < Row(d)
    <2> SUFFICES ASSUME NEW k \in 1..Len(s)
                 PROVE  z + k - 1 \in Cells /\ z + k - 1 < Row(d)
        OBVIOUS
    <2>1. k - 1 \in Nat /\ k - 1 < Longest /\ z + (k - 1) = z + k - 1
        BY <1>1, <1>2, <1>5
    <2> QED
        BY <1>4, <2>1
<1>8. z + Len(s) \in Cells /\ z + Len(s) < Row(d)
    BY <1>2, <1>4, <1>5
<1> QED
    BY <1>3, <1>6, <1>7, <1>8 DEF RowIs

\* The string that was begun in the row after the table and is closed.
LEMMA TableAppend ==
    ASSUME NEW names \in Seq(Word), NEW s \in Word, NEW mem, NEW limit,
           Table(mem, names, limit), RowIs(mem, Len(names), s), Len(s) <= limit
    PROVE  Table(mem, Append(names, s), limit)
<1> SUFFICES ASSUME NEW e \in 1..Len(Append(names, s))
             PROVE  RowIs(mem, e - 1, Append(names, s)[e]) /\ Len(Append(names, s)[e]) <= limit
    BY DEF Table
<1>1. /\ Len(names) \in Nat /\ Len(Append(names, s)) = Len(names) + 1
      /\ \A k \in 1..Len(names) : Append(names, s)[k] = names[k]
      /\ Append(names, s)[Len(names) + 1] = s
    BY AppendProperties, LenProperties
<1>2. CASE e \in 1..Len(names)
    BY <1>1, <1>2 DEF Table
<1>3. CASE e = Len(names) + 1
    <2>1. e - 1 = Len(names)
        BY <1>1, <1>3
    <2> QED
        BY <1>1, <1>3, <2>1
<1> QED
    BY <1>1, <1>2, <1>3

\* One more character of the string in row d.
LEMMA BegunGrows ==
    ASSUME NEW s \in Word, NEW char \in Chars \ {SEP}, NEW mem, NEW mem2, NEW d \in Nat,
           Begun(mem, d, s), mem2[Row(d) + Len(s)] = char,
           \A k \in 1..Len(s) : mem2[Row(d) + k - 1] = mem[Row(d) + k - 1]
    PROVE  Begun(mem2, d, Append(s, char))
<1> SUFFICES ASSUME NEW k \in 1..Len(Append(s, char))
             PROVE  mem2[Row(d) + k - 1] = Append(s, char)[k]
    BY DEF Begun
<1>1. /\ Len(s) \in Nat /\ Len(Append(s, char)) = Len(s) + 1 /\ Row(d) \in Nat
      /\ \A j \in 1..Len(s) : Append(s, char)[j] = s[j]
      /\ Append(s, char)[Len(s) + 1] = char
    BY WordFacts, LenProperties, RowsApart DEF Word
<1>2. CASE k \in 1..Len(s)
    BY <1>1, <1>2 DEF Begun
<1>3. CASE k = Len(s) + 1
    <2>1. Row(d) + k - 1 = Row(d) + Len(s)
        BY <1>1, <1>3
    <2> QED
        BY <1>1, <1>3, <2>1
<1> QED
    BY <1>1, <1>2, <1>3

Memories == [Cells -> Chars \cup {NUL, Junk}]

\* The character is written in the cell.
Written(mem, mem2, cell, char) == mem2 = [mem EXCEPT ![cell] = char]

\* A write behind the w characters of row d leaves them and the rows before.
WroteBehind(mem, mem2, d, w, char) ==
    /\ mem2[Row(d) + w] = char
    /\ \A k \in 1..w : mem2[Row(d) + k - 1] = mem[Row(d) + k - 1]
    /\ \A c \in Cells : c < Row(d) => mem2[c] = mem[c]

\* The cells of a string in row d other than the one behind it.
LEMMA OtherCells ==
    ASSUME NEW d \in Nat, NEW w \in Nat, 2 * d + w < Longest, NEW char, NEW mem \in Memories,
           NEW mem2, Written(mem, mem2, Row(d) + w, char)
    PROVE  WroteBehind(mem, mem2, d, w, char)
<1>1. Row(d) + w \in Cells /\ Row(d) \in Nat /\ DOMAIN mem = Cells
    BY CellAtPointer, RowsApart DEF Memories
<1>2. \A k \in 1..w : Row(d) + k - 1 \in Cells /\ Row(d) + k - 1 # Row(d) + w
    <2>1. VFS_MAX_DEPTH + 2 \in Nat
        BY Sizes
    <2>2. Row(VFS_MAX_DEPTH + 2) \in Nat
        BY <2>1, RowsApart
    <2>3. PICK top \in Nat : Cells = 0..top
        BY <2>2 DEF Cells
    <2>4. PICK start \in Nat : start = Row(d)
        BY <1>1
    <2>5. start + w <= top
        BY <1>1, <2>3, <2>4
    <2> QED
        BY <2>3, <2>4, <2>5
<1>3. \A c \in Cells : c < Row(d) => c # Row(d) + w
    BY <1>1, CellNumbers
<1> QED
    BY <1>1, <1>2, <1>3 DEF Written, WroteBehind

-----------------------------------------------------------------------------
(* What the parser has written when it has read n characters *)

\* The names in the table: ".." has taken effect at its second dot.
Kept(r) == IF r.name = <<DOT, DOT>> THEN SubSeq(r.names, 1, Len(r.names) - 1) ELSE r.names

\* The string begun in the row after them: a lone dot was skipped.
Started(r, next) ==
    IF r.name = <<DOT, DOT>> \/ (r.name = <<DOT>> /\ next \in {SEP, NUL}) THEN <<>> ELSE r.name

\* The name is the last one of the first n characters.
LastName(name, n) ==
    /\ Len(name) <= n /\ (Len(name) = n \/ path[n - Len(name)] = SEP)
    /\ \A k \in 1..Len(name) : name[k] = path[n - Len(name) + k] /\ name[k] # SEP

Follows(r, mem, d, w, n) ==
    /\ r \in Readings /\ LastName(r.name, n)
    /\ d = Len(Kept(r)) /\ w = Len(Started(r, At(n)))
    /\ Table(mem, Kept(r), Longest - 1) /\ Begun(mem, d, Started(r, At(n)))

\* A path whose dots are plain, of letters, dots and separators.
PlainPath ==
    Len(path) \in Nat /\ (\A k \in 1..Len(path) : path[k] \in Chars) /\ PlainDots

LEMMA Characters == SEP \in Chars /\ DOT \in Chars \ {SEP} /\ NUL \notin Chars /\ NUL # SEP /\ NUL # DOT
BY PathAssumption DEF Chars

LEMMA Dots ==
    /\ <<>> # <<DOT>> /\ <<>> # <<DOT, DOT>> /\ <<DOT>> # <<DOT, DOT>>
    /\ <<>> \in Word /\ <<DOT>> \in Word /\ <<DOT, DOT>> \in Word
    /\ Len(<<>>) = 0 /\ Len(<<DOT>>) = 1 /\ Len(<<DOT, DOT>>) = 2
    /\ <<DOT>>[1] = DOT /\ <<DOT, DOT>>[1] = DOT /\ <<DOT, DOT>>[2] = DOT
<1>1. DOT \in Chars \ {SEP}
    BY Characters
<1> QED
    BY <1>1 DEF Word

LEMMA WordLength ==
    ASSUME NEW name \in Word
    PROVE  /\ Len(name) \in Nat /\ \A k \in 1..Len(name) : name[k] \in Chars \ {SEP}
           /\ Len(name) = 0 <=> name = <<>>
           /\ Len(name) = 1 /\ name[1] = DOT => name = <<DOT>>
<1>1. /\ Len(name) \in Nat /\ \A k \in 1..Len(name) : name[k] \in Chars \ {SEP}
      /\ Len(name) = 0 <=> name = <<>>
    BY LenProperties, EmptySeq DEF Word
<1>2. ASSUME Len(name) = 1, name[1] = DOT
      PROVE  name = <<DOT>>
    <2>1. \A k \in 1..Len(name) : name[k] = <<DOT>>[k]
        BY <1>2, Dots
    <2>2. <<DOT>> \in Seq(Chars \ {SEP}) /\ name \in Seq(Chars \ {SEP})
        BY Dots DEF Word
    <2> QED
        BY <1>2, <2>1, <2>2, Dots, SeqEqual
<1> QED
    BY <1>1, <1>2

\* What stands left of the pointer tells how the name before it ends.
LEMMA LeftSide ==
    ASSUME PlainPath, NEW name \in Word, NEW n \in 0..Len(path), LastName(name, n)
    PROVE  /\ n > 0 /\ At(n - 1) # SEP <=> name # <<>>
           /\ name = <<DOT>> => n > 0 /\ At(n - 1) = DOT
           /\ n < Len(path) /\ path[n + 1] # SEP => name # <<DOT, DOT>>
           /\ n < Len(path) /\ path[n + 1] = DOT /\ n > 0 /\ At(n - 1) = DOT => name = <<DOT>>
<1> DEFINE w == Len(name)
<1>1. /\ w \in Nat /\ w <= n /\ n \in Nat /\ Len(path) \in Nat /\ n <= Len(path)
      /\ (w = n \/ path[n - w] = SEP)
      /\ w = 0 <=> name = <<>>
      /\ \A k \in 1..w : name[k] = path[n - w + k] /\ name[k] # SEP
    BY WordLength DEF LastName, PlainPath
<1> HIDE DEF w
<1>2. n > 0 => At(n - 1) = path[n]
    BY <1>1 DEF At
<1>3. w > 0 => path[n] = name[w] /\ name[w] # SEP
    BY <1>1
<1>4. n > 0 /\ At(n - 1) # SEP <=> name # <<>>
    BY <1>1, <1>2, <1>3
<1>5. name = <<DOT>> => n > 0 /\ At(n - 1) = DOT
    BY <1>1, <1>2, <1>3, Dots DEF w
<1>6. ASSUME n < Len(path), path[n + 1] # SEP, name = <<DOT, DOT>>
      PROVE  FALSE
    <2>1. w = 2 /\ name[1] = DOT /\ name[2] = DOT
        BY <1>6, Dots DEF w
    <2>2. path[n - 1] = DOT /\ path[n] = DOT
        BY <1>1, <2>1
    <2>3. n - 1 \in 1..Len(path) - 1 /\ (n - 1) + 1 = n /\ (n - 1) + 2 = n + 1
        BY <1>1, <1>6, <2>1
    <2> QED
        BY <1>1, <1>6, <2>2, <2>3 DEF PlainPath, PlainDots
<1>7. ASSUME n < Len(path), path[n + 1] = DOT, n > 0, At(n - 1) = DOT
      PROVE  name = <<DOT>>
    <2>1. path[n] = DOT /\ name # <<>>
        BY <1>2, <1>4, <1>7, Characters
    <2>2. n \in 1..Len(path) - 1
        BY <1>1, <1>7
    <2>3. n = 1 \/ path[n - 1] = SEP
        BY <1>7, <2>1, <2>2 DEF PlainPath, PlainDots
    <2>4. w = 1
        <3>0. w # 0
            BY <1>1, <2>1
        <3>1. SUFFICES ASSUME w > 1
                       PROVE  FALSE
            BY <1>1, <3>0
        <3>2. w - 1 \in 1..w /\ n - w + (w - 1) = n - 1
            BY <1>1, <3>1
        <3>3. path[n - 1] = name[w - 1] /\ name[w - 1] # SEP
            <4>1. name[w - 1] = path[n - w + (w - 1)] /\ name[w - 1] # SEP
                BY <1>1, <3>2
            <4> QED
                BY <3>2, <4>1
        <3>4. n # 1
            BY <1>1, <3>1
        <3> QED
            BY <2>3, <3>3, <3>4
    <2>5. name[1] = DOT
        BY <1>3, <2>1, <2>4
    <2> QED
        BY <2>4, <2>5, WordLength DEF w
<1> QED
    BY <1>4, <1>5, <1>6, <1>7

LEMMA LastNameGrows ==
    ASSUME PlainPath, NEW name \in Word, NEW n \in 0..Len(path) - 1, LastName(name, n)
    PROVE  /\ path[n + 1] = SEP => LastName(<<>>, n + 1)
           /\ path[n + 1] # SEP => LastName(Append(name, path[n + 1]), n + 1)
<1>1. n \in Nat /\ n + 1 \in 1..Len(path) /\ path[n + 1] \in Chars
    BY DEF PlainPath
<1>2. path[n + 1] = SEP => LastName(<<>>, n + 1)
    BY <1>1, Dots DEF LastName
<1>3. ASSUME path[n + 1] # SEP
      PROVE  LastName(Append(name, path[n + 1]), n + 1)
    <2> DEFINE w == Len(name)
               longer == Append(name, path[n + 1])
    <2>1. /\ w \in Nat /\ w <= n /\ (w = n \/ path[n - w] = SEP)
          /\ \A k \in 1..w : name[k] = path[n - w + k] /\ name[k] # SEP
        BY WordLength DEF LastName
    <2>2. /\ Len(longer) = w + 1 /\ longer[w + 1] = path[n + 1]
          /\ \A k \in 1..w : longer[k] = name[k]
        BY <1>1, <1>3, WordFacts
    <2> HIDE DEF w, longer
    <2>3. n + 1 - (w + 1) = n - w
        BY <1>1, <2>1
    <2>4. \A k \in 1..w + 1 : longer[k] = path[n - w + k] /\ longer[k] # SEP
        <3>1. n - w + (w + 1) = n + 1
            BY <1>1, <2>1
        <3>2. \A k \in 1..w + 1 : k \in 1..w \/ k = w + 1
            BY <2>1
        <3> QED
            BY <1>3, <2>1, <2>2, <3>1, <3>2
    <2>5. LastName(longer, n + 1)
        BY <1>1, <2>1, <2>2, <2>3, <2>4 DEF LastName
    <2> QED
        BY <2>5 DEF longer
<1> QED
    BY <1>2, <1>3

LEMMA KeptFacts ==
    ASSUME NEW r \in Readings
    PROVE  /\ Kept(r) \in Seq(Word) /\ Len(Kept(r)) \in Nat
           /\ r.names \in Seq(Word) /\ r.name \in Word /\ Len(r.names) \in Nat
<1>1. r.names \in Seq(Word) /\ r.name \in Word
    BY DEF Readings
<1>2. r.name = <<DOT, DOT>> => Kept(r) \in Seq(Word)
    BY ResolveFacts DEF Kept
<1>3. r.name # <<DOT, DOT>> => Kept(r) \in Seq(Word)
    BY <1>1 DEF Kept
<1> QED
    BY <1>1, <1>2, <1>3, LenProperties

\* Where a name ends, it is in the table already or is begun and has to be closed.
LEMMA Close ==
    ASSUME NEW r \in Readings, NEW next \in {SEP, NUL}
    PROVE  /\ Len(Started(r, next)) = 0 => Resolve(r.names, r.name) = Kept(r)
           /\ Len(Started(r, next)) > 0 => /\ Started(r, next) = r.name /\ Kept(r) = r.names
                                           /\ Resolve(r.names, r.name) = Append(r.names, r.name)
<1>1. CASE r.name \in {<<>>, <<DOT>>, <<DOT, DOT>>}
    <2>1. Started(r, next) = <<>>
        BY <1>1 DEF Started
    <2>2. r.name = <<DOT, DOT>> => Resolve(r.names, r.name) = Kept(r)
        BY ResolveFacts DEF Kept
    <2>3. r.name \in {<<>>, <<DOT>>} => Resolve(r.names, r.name) = Kept(r)
        BY ResolveFacts, Dots DEF Kept
    <2>4. Len(Started(r, next)) = 0 /\ ~(Len(Started(r, next)) > 0)
        BY <2>1, Dots
    <2> QED
        BY <1>1, <2>2, <2>3, <2>4
<1>4. CASE r.name \notin {<<>>, <<DOT>>, <<DOT, DOT>>}
    <2>1. Started(r, next) = r.name /\ Kept(r) = r.names
        BY <1>4 DEF Started, Kept
    <2>2. Len(r.name) # 0
        BY <1>4, KeptFacts, WordLength
    <2>3. Resolve(r.names, r.name) = Append(r.names, r.name)
        BY <1>4, ResolveFacts
    <2> QED
        BY <2>1, <2>2, <2>3
<1> QED
    BY <1>1, <1>4

\* A turn of the loop on a path that fits, at values r, mem, d, w, n of the state.
AtTurn(r, mem, d, w, n) ==
    /\ PlainPath /\ Len(path) <= Longest /\ n \in 0..Len(path) - 1
    /\ mem \in Memories
    /\ d \in Nat /\ w \in Nat /\ 2 * d + w <= n
    /\ Follows(r, mem, d, w, n)

LEMMA TurnRange ==
    ASSUME NEW r, NEW mem, NEW d, NEW w, NEW n, AtTurn(r, mem, d, w, n)
    PROVE  /\ d \in Nat /\ w \in Nat /\ n \in Nat /\ 2 * d + w < Longest /\ d \in 0..VFS_MAX_DEPTH
           /\ n \in 0..Len(path) /\ n \in 0..Len(path) - 1 /\ n < Len(path)
           /\ At(n) = path[n + 1] /\ path[n + 1] \in Chars
<1>1. /\ d \in Nat /\ w \in Nat /\ n \in 0..Len(path) - 1 /\ 2 * d + w <= n
      /\ Len(path) \in Nat /\ Len(path) <= Longest /\ \A k \in 1..Len(path) : path[k] \in Chars
    BY DEF AtTurn, PlainPath
<1> QED
    BY <1>1, Sizes DEF At

LEMMA SeparatorFollows ==
    ASSUME NEW r, NEW mem, NEW d, NEW w, NEW n, AtTurn(r, mem, d, w, n), path[n + 1] = SEP,
           NEW mem2, NEW d2,
           w > 0 => Written(mem, mem2, Row(d) + w, NUL) /\ d2 = d + 1,
           w = 0 => mem2 = mem /\ d2 = d
    PROVE  Follows(Turn(r, SEP), mem2, d2, 0, n + 1)
<1> DEFINE next == Turn(r, SEP)
<1>1. /\ r \in Readings /\ LastName(r.name, n) /\ d = Len(Kept(r)) /\ w = Len(Started(r, SEP))
      /\ Table(mem, Kept(r), Longest - 1) /\ Begun(mem, d, Started(r, SEP))
      /\ PlainPath /\ mem \in Memories
    <2>1. At(n) = SEP
        BY TurnRange
    <2> QED
        BY <2>1 DEF AtTurn, Follows
<1>2. /\ next \in Readings /\ next.name = <<>> /\ next.names = Resolve(r.names, r.name)
      /\ Kept(next) = Resolve(r.names, r.name) /\ Started(next, At(n + 1)) = <<>>
    <2>1. next \in Readings /\ next.name = <<>> /\ next.names = Resolve(r.names, r.name)
        BY <1>1, TurnFacts, Characters
    <2> HIDE DEF next
    <2> QED
        BY <2>1, Dots DEF Kept, Started
<1> HIDE DEF next
<1>3. LastName(<<>>, n + 1)
    BY <1>1, TurnRange, LastNameGrows, KeptFacts
<1>4. \A e : Begun(mem2, e, <<>>)
    BY Dots DEF Begun
<1>5. CASE w = 0
    <2>1. Resolve(r.names, r.name) = Kept(r)
        BY <1>1, <1>5, Close
    <2> QED
        BY <1>1, <1>2, <1>3, <1>4, <1>5, <2>1, Dots DEF Follows, next
<1>6. CASE w > 0
    <2>1. /\ Started(r, SEP) = r.name /\ Kept(r) = r.names
          /\ Resolve(r.names, r.name) = Append(r.names, r.name)
        BY <1>1, <1>6, Close
    <2>2. /\ r.names \in Seq(Word) /\ r.name \in Word /\ Len(r.names) = d /\ Len(r.name) = w
        BY <1>1, <2>1, KeptFacts
    <2>3. /\ d \in Nat /\ w \in Nat /\ 2 * d + w < Longest /\ d \in 0..VFS_MAX_DEPTH /\ Longest \in Nat
        BY TurnRange, Sizes
    <2>4. Written(mem, mem2, Row(d) + w, NUL) /\ d2 = d + 1
        BY <1>6
    <2>5. /\ mem2[Row(d) + w] = NUL
          /\ \A k \in 1..w : mem2[Row(d) + k - 1] = mem[Row(d) + k - 1]
          /\ \A c \in Cells : c < Row(d) => mem2[c] = mem[c]
        <3>1. WroteBehind(mem, mem2, d, w, NUL)
            BY <1>1, <2>3, <2>4, OtherCells
        <3> QED
            BY <3>1 DEF WroteBehind
    <2>6. Table(mem2, r.names, Longest - 1)
        <3>1. Len(r.names) <= d /\ Table(mem, r.names, Longest - 1)
            BY <1>1, <2>1, <2>2, <2>3
        <3> QED
            BY <2>2, <2>3, <2>5, <3>1, TableBefore
    <2>7. RowIs(mem2, Len(r.names), r.name)
        BY <1>1, <2>1, <2>2, <2>5 DEF Begun, RowIs
    <2>8. Len(r.name) <= Longest - 1
        BY <2>2, <2>3
    <2>9. Table(mem2, Append(r.names, r.name), Longest - 1)
        BY <2>2, <2>6, <2>7, <2>8, TableAppend
    <2>10. Len(Append(r.names, r.name)) = d2
        BY <2>2, <2>4, AppendProperties
    <2> QED
        BY <1>2, <1>3, <1>4, <2>1, <2>9, <2>10, Dots DEF Follows, next
<1> QED
    BY <1>5, <1>6, TurnRange

\* The second dot takes back the name before, and the dot copied.
LEMMA DotDotFollows ==
    ASSUME NEW r, NEW mem, NEW d, NEW w, NEW n, AtTurn(r, mem, d, w, n), path[n + 1] = DOT,
           n > 0, At(n - 1) = DOT,
           NEW d2, d2 = IF d = 0 THEN 0 ELSE d - 1
    PROVE  Follows(Turn(r, DOT), mem, d2, 0, n + 1)
<1> DEFINE next == Turn(r, DOT)
<1>1. /\ r \in Readings /\ LastName(r.name, n) /\ d = Len(Kept(r))
      /\ Table(mem, Kept(r), Longest - 1) /\ PlainPath
    BY DEF AtTurn, Follows
<1>2. r.name \in Word /\ r.names \in Seq(Word) /\ Len(r.names) \in Nat
    BY <1>1, KeptFacts
<1>3. r.name = <<DOT>>
    BY <1>1, <1>2, TurnRange, LeftSide
<1>4. Kept(r) = r.names
    BY <1>3, Dots DEF Kept
<1>5. next \in Readings /\ next.names = r.names /\ next.name = Append(r.name, DOT)
    BY <1>1, TurnFacts, Characters
<1>6. next.name = <<DOT, DOT>>
    BY <1>2, <1>3, <1>5, WordFacts, Characters
<1> HIDE DEF next
<1>7. Kept(next) = SubSeq(r.names, 1, Len(r.names) - 1) /\ Started(next, At(n + 1)) = <<>>
    BY <1>5, <1>6 DEF Kept, Started
<1>8. /\ Len(Kept(next)) = d2
      /\ \A k \in 1..d2 : Kept(next)[k] = r.names[k] /\ k \in 1..Len(r.names)
    <2>1. \A k \in 1..Len(r.names) : r.names[k] \in Word
        BY <1>2, LenProperties
    <2>2. \A k \in 1..Len(r.names) - 1 : r.names[k] \in Word
        BY <1>2, <2>1
    <2>3. Len(r.names) = d
        BY <1>1, <1>4
    <2> QED
        BY <1>2, <1>7, <2>2, <2>3, SubSeqProperties
<1>9. Table(mem, Kept(next), Longest - 1)
    BY <1>1, <1>4, <1>8 DEF Table
<1>10. LastName(next.name, n + 1)
    BY <1>1, <1>2, <1>5, TurnRange, LastNameGrows, Characters
<1>11. Begun(mem, d2, <<>>)
    BY Dots DEF Begun
<1> QED
    BY <1>5, <1>7, <1>8, <1>9, <1>10, <1>11, Dots DEF Follows, next

\* A dot that stands alone is no string in the table.
LEMMA SkipDotFollows ==
    ASSUME NEW r, NEW mem, NEW d, NEW w, NEW n, AtTurn(r, mem, d, w, n), path[n + 1] = DOT,
           ~(n > 0 /\ At(n - 1) # SEP), At(n + 1) \in {SEP, NUL}
    PROVE  Follows(Turn(r, DOT), mem, d, w, n + 1)
<1> DEFINE next == Turn(r, DOT)
<1>1. /\ r \in Readings /\ LastName(r.name, n) /\ d = Len(Kept(r)) /\ w = Len(Started(r, DOT))
      /\ Table(mem, Kept(r), Longest - 1) /\ PlainPath
    <2>1. At(n) = DOT
        BY TurnRange
    <2> QED
        BY <2>1 DEF AtTurn, Follows
<1>2. r.name \in Word /\ r.names \in Seq(Word) /\ Len(r.names) \in Nat
    BY <1>1, KeptFacts
<1>3. r.name = <<>>
    BY <1>1, <1>2, TurnRange, LeftSide
<1>4. next \in Readings /\ next.names = r.names /\ next.name = Append(r.name, DOT)
    BY <1>1, TurnFacts, Characters
<1>5. next.name = <<DOT>>
    BY <1>2, <1>3, <1>4, WordFacts, Characters
<1>6. LastName(next.name, n + 1)
    BY <1>1, <1>2, <1>4, TurnRange, LastNameGrows, Characters
<1> HIDE DEF next
<1>7. Kept(next) = Kept(r) /\ Started(next, At(n + 1)) = <<>> /\ Started(r, DOT) = <<>>
    BY <1>3, <1>4, <1>5, Dots DEF Kept, Started
<1>8. Begun(mem, d, <<>>)
    BY Dots DEF Begun
<1> QED
    BY <1>1, <1>4, <1>6, <1>7, <1>8 DEF Follows, next

LEMMA CopyFollows ==
    ASSUME NEW r, NEW mem, NEW d, NEW w, NEW n, AtTurn(r, mem, d, w, n),
           NEW char \in Chars \ {SEP}, path[n + 1] = char,
           char = DOT => /\ ~(n > 0 /\ At(n - 1) = DOT)
                         /\ (n > 0 /\ At(n - 1) # SEP) \/ At(n + 1) \notin {SEP, NUL},
           NEW mem2, Written(mem, mem2, Row(d) + w, char)
    PROVE  Follows(Turn(r, char), mem2, d, w + 1, n + 1)
<1> DEFINE next == Turn(r, char)
<1>1. /\ r \in Readings /\ LastName(r.name, n) /\ d = Len(Kept(r)) /\ w = Len(Started(r, char))
      /\ Table(mem, Kept(r), Longest - 1) /\ Begun(mem, d, Started(r, char))
      /\ PlainPath /\ mem \in Memories
    <2>1. At(n) = char
        BY TurnRange
    <2> QED
        BY <2>1 DEF AtTurn, Follows
<1>2. r.name \in Word /\ r.names \in Seq(Word) /\ Len(r.names) \in Nat
    BY <1>1, KeptFacts
<1>3. /\ r.name # <<DOT, DOT>>
      /\ r.name # <<>> <=> n > 0 /\ At(n - 1) # SEP
      /\ r.name = <<DOT>> => n > 0 /\ At(n - 1) = DOT
    BY <1>1, <1>2, TurnRange, LeftSide
<1>4. Kept(r) = r.names /\ Started(r, char) = r.name
    BY <1>3, Characters DEF Kept, Started
<1>5. next \in Readings /\ next.names = r.names /\ next.name = Append(r.name, char)
    BY <1>1, TurnFacts
<1>6. /\ Append(r.name, char) = <<DOT>> <=> r.name = <<>> /\ char = DOT
      /\ Append(r.name, char) = <<DOT, DOT>> <=> r.name = <<DOT>> /\ char = DOT
      /\ Append(r.name, char) \in Word /\ Len(Append(r.name, char)) = Len(r.name) + 1
    <2>1. r.name \in Word
        BY <1>2
    <2>2. PICK name \in Word : name = r.name
        BY <2>1
    <2>3. /\ Append(name, char) = <<DOT>> <=> name = <<>> /\ char = DOT
          /\ Append(name, char) = <<DOT, DOT>> <=> name = <<DOT>> /\ char = DOT
        BY WordFacts
    <2>4. Append(name, char) \in Word /\ Len(Append(name, char)) = Len(name) + 1
        BY WordFacts
    <2> QED
        BY <2>2, <2>3, <2>4
<1>7. LastName(next.name, n + 1)
    BY <1>1, <1>2, <1>5, TurnRange, LastNameGrows
<1> HIDE DEF next
<1>8. Kept(next) = r.names /\ Started(next, At(n + 1)) = Append(r.name, char)
    BY <1>3, <1>5, <1>6 DEF Kept, Started
<1>9. d \in Nat /\ w \in Nat /\ 2 * d + w < Longest /\ d \in 0..VFS_MAX_DEPTH
    BY TurnRange
<1>10. /\ mem2[Row(d) + w] = char
       /\ \A k \in 1..w : mem2[Row(d) + k - 1] = mem[Row(d) + k - 1]
       /\ \A c \in Cells : c < Row(d) => mem2[c] = mem[c]
    <2>1. WroteBehind(mem, mem2, d, w, char)
        BY <1>1, <1>9, OtherCells
    <2> QED
        BY <2>1 DEF WroteBehind
<1>11. Table(mem2, r.names, Longest - 1)
    <2>1. Len(r.names) <= d /\ Table(mem, r.names, Longest - 1)
        BY <1>1, <1>4, <1>9
    <2> QED
        BY <1>2, <1>9, <1>10, <2>1, TableBefore
<1>12. Begun(mem2, d, Append(r.name, char))
    <2>1. w = Len(r.name) /\ Begun(mem, d, r.name)
        BY <1>1, <1>4
    <2>2. mem2[Row(d) + Len(r.name)] = char
        BY <1>10, <2>1
    <2>3. \A k \in 1..Len(r.name) : mem2[Row(d) + k - 1] = mem[Row(d) + k - 1]
        BY <1>10, <2>1
    <2> QED
        BY <1>2, <1>9, <2>1, <2>2, <2>3, BegunGrows
<1> QED
    BY <1>1, <1>4, <1>5, <1>6, <1>7, <1>8, <1>11, <1>12 DEF Follows, next

\* The table holds the names and the depth counts them.
Yields(names, mem, count) ==
    /\ names \in Seq(Word) /\ count = Len(names) /\ count <= VFS_MAX_DEPTH
    /\ Table(mem, names, Longest)

\* The end of the path closes the string in row d, if one was begun.
Closes(mem, mem2, d, w) ==
    \A c \in Cells : c < DepthField =>
        mem2[c] = IF c = Row(d) + w /\ w > 0 THEN NUL ELSE mem[c]

\* What row d holds when its string is closed.
LEMMA RowCloses ==
    ASSUME NEW mem, NEW mem2, NEW d \in Nat, NEW s \in Word,
           Closes(mem, mem2, d, Len(s)), Begun(mem, d, s), Len(s) > 0, 2 * d + Len(s) <= Longest
    PROVE  RowIs(mem2, d, s) /\ d < VFS_MAX_DEPTH
<1> DEFINE w == Len(s)
<1>1. w \in Nat /\ d < VFS_MAX_DEPTH /\ VFS_MAX_DEPTH \in Nat /\ VFS_MAX_DEPTH + 2 \in Nat
    BY WordLength, Sizes
<1>2. PICK start \in Nat : start = Row(d)
    BY RowsApart
<1>3. PICK edge \in Nat : edge = DepthField
    BY CellNumbers
<1>4. \A c \in 0..edge : c \in Cells
    <2>1. Row(VFS_MAX_DEPTH) <= Row(VFS_MAX_DEPTH + 2) /\ Row(VFS_MAX_DEPTH + 2) \in Nat
        <3>1. VFS_MAX_DEPTH <= VFS_MAX_DEPTH + 2
            BY <1>1
        <3> QED
            BY <1>1, <3>1, RowsApart
    <2> QED
        BY <1>3, <2>1 DEF Cells, DepthField
<1>5. start + w < edge
    BY <1>1, <1>2, <1>3, WriteInTable
<1>6. mem2[start + w] = NUL
    BY <1>1, <1>2, <1>3, <1>4, <1>5 DEF Closes
<1>7. ASSUME NEW k \in 1..w
      PROVE  mem2[start + k - 1] = s[k]
    <2>1. start + k - 1 \in 0..edge /\ start + k - 1 < edge /\ start + k - 1 # start + w
        BY <1>1, <1>5
    <2>2. mem2[start + k - 1] = mem[start + k - 1]
        BY <1>2, <1>3, <1>4, <2>1 DEF Closes
    <2>3. mem[start + k - 1] = s[k]
        BY <1>2 DEF Begun
    <2> QED
        BY <2>2, <2>3
<1> QED
    BY <1>1, <1>2, <1>6, <1>7 DEF RowIs

LEMMA FinishYields ==
    ASSUME NEW r, NEW mem, NEW d \in Nat, NEW w \in Nat, NEW n \in Nat,
           n = Len(path), n <= Longest, 2 * d + w <= n,
           Follows(r, mem, d, w, n), NEW mem2, Closes(mem, mem2, d, w)
    PROVE  Yields(Resolve(r.names, r.name), mem2, IF w > 0 THEN d + 1 ELSE d)
<1>1. /\ r \in Readings /\ d = Len(Kept(r)) /\ w = Len(Started(r, NUL))
      /\ Table(mem, Kept(r), Longest - 1) /\ Begun(mem, d, Started(r, NUL))
    <2>1. At(n) = NUL
        BY DEF At
    <2> QED
        BY <2>1 DEF Follows
<1>2. /\ Kept(r) \in Seq(Word) /\ r.names \in Seq(Word) /\ r.name \in Word
      /\ Resolve(r.names, r.name) \in Seq(Word)
    BY <1>1, KeptFacts, ResolveFacts
<1>3. /\ d \in 0..VFS_MAX_DEPTH /\ Longest \in Nat
      /\ d <= VFS_MAX_DEPTH /\ w <= Longest /\ 2 * d + w <= Longest
    BY Sizes
<1>4. Table(mem2, Kept(r), Longest - 1)
    <2>1. \A c \in Cells : c < Row(d) => mem2[c] = mem[c]
        <3>1. Row(d) <= DepthField /\ Row(d) \in Nat /\ DepthField \in Nat
            <4>1. VFS_MAX_DEPTH \in Nat /\ d <= VFS_MAX_DEPTH
                BY <1>3, Sizes
            <4> QED
                BY <4>1, RowsApart, CellNumbers DEF DepthField
        <3>2. \A c \in Cells : c \in Nat
            BY CellNumbers
        <3>3. \A c \in Cells : c < Row(d) => c < DepthField /\ c # Row(d) + w
            BY <3>1, <3>2
        <3> QED
            BY <3>3 DEF Closes
    <2>2. Len(Kept(r)) <= d
        BY <1>1
    <2> QED
        BY <1>1, <1>2, <1>3, <2>1, <2>2, TableBefore
<1>5. Table(mem2, Kept(r), Longest)
    <2>1. \A e \in 1..Len(Kept(r)) : Len(Kept(r)[e]) <= Longest - 1 => Len(Kept(r)[e]) <= Longest
        <3>1. \A e \in 1..Len(Kept(r)) : Kept(r)[e] \in Word
            BY <1>2, LenProperties
        <3>2. \A e \in 1..Len(Kept(r)) : Len(Kept(r)[e]) \in Nat
            BY <3>1, WordLength
        <3> QED
            BY <1>3, <3>2
    <2> QED
        BY <1>4, <2>1 DEF Table
<1>6. CASE w = 0
    <2>1. Resolve(r.names, r.name) = Kept(r)
        BY <1>1, <1>6, Close
    <2>2. (IF w > 0 THEN d + 1 ELSE d) = d
        BY <1>6
    <2>3. Yields(Kept(r), mem2, d)
        BY <1>1, <1>2, <1>3, <1>5 DEF Yields
    <2> QED
        BY <2>1, <2>2, <2>3
<1>7. CASE w > 0
    <2>1. /\ Started(r, NUL) = r.name /\ Kept(r) = r.names
          /\ Resolve(r.names, r.name) = Append(r.names, r.name)
        BY <1>1, <1>7, Close
    <2>2. RowIs(mem2, d, r.name) /\ d < VFS_MAX_DEPTH
        <3>0. w = Len(r.name) /\ Begun(mem, d, r.name)
            BY <1>1, <2>1
        <3>1. Len(r.name) > 0 /\ 2 * d + Len(r.name) <= Longest /\ Closes(mem, mem2, d, Len(r.name))
            BY <1>3, <1>7, <3>0
        <3> QED
            BY <1>2, <3>0, <3>1, RowCloses
    <2>3. Len(r.name) <= Longest /\ Len(r.names) = d
        <3>1. Len(r.name) = w /\ Len(r.names) = d
            BY <1>1, <2>1
        <3> QED
            BY <1>3, <3>1
    <2>4. Table(mem2, Append(r.names, r.name), Longest)
        BY <1>2, <1>5, <2>1, <2>2, <2>3, TableAppend
    <2>5. Len(Append(r.names, r.name)) = d + 1 /\ d + 1 <= VFS_MAX_DEPTH
        BY <1>2, <2>2, <2>3, AppendProperties, Sizes
    <2> QED
        BY <1>2, <1>7, <2>1, <2>4, <2>5 DEF Yields
<1> QED
    BY <1>6, <1>7

\* The readers of the table find the names in it.
LEMMA StringsAreNames ==
    ASSUME NEW names, Yields(names, out, depth), NEW d \in 0..depth - 1
    PROVE  NameAt(d) = names[d + 1]
<1> DEFINE s == names[d + 1]
<1>1. depth \in Nat /\ d \in Nat /\ d + 1 \in 1..Len(names) /\ d + 1 - 1 = d /\ d < VFS_MAX_DEPTH
      /\ VFS_MAX_DEPTH \in Nat /\ Longest \in Nat
    BY LenProperties, Sizes DEF Yields
<1>2. s \in Word
    BY <1>1, LenProperties DEF Yields
<1>3. RowIs(out, d, s) /\ Len(s) <= Longest
    BY <1>1 DEF Yields, Table
<1> HIDE DEF s
<1>4. PICK w \in Nat : w = Len(s)
    BY <1>2, WordLength
<1>5. PICK start \in Nat : start = Row(d)
    BY <1>1, RowsApart
<1>6. \A k \in 1..w : out[start + k - 1] = s[k] /\ s[k] # NUL
    BY <1>2, <1>3, <1>4, <1>5, WordLength, Characters DEF RowIs
<1>7. out[start + w] = NUL
    BY <1>3, <1>4, <1>5 DEF RowIs
<1>8. start + w \in Cells
    <2>1. start + Longest <= Row(VFS_MAX_DEPTH)
        BY <1>1, <1>5, RowsApart
    <2>2. /\ Row(VFS_MAX_DEPTH) <= Row(VFS_MAX_DEPTH + 2) /\ Row(VFS_MAX_DEPTH + 2) \in Nat
          /\ Row(VFS_MAX_DEPTH) \in Nat
        <3>1. VFS_MAX_DEPTH <= VFS_MAX_DEPTH + 2 /\ VFS_MAX_DEPTH + 2 \in Nat
            BY <1>1
        <3> QED
            BY <1>1, <3>1, RowsApart
    <2>3. w <= Longest
        BY <1>3, <1>4
    <2> QED
        BY <1>1, <2>1, <2>2, <2>3 DEF Cells
<1>9. \A b \in start..start + w - 1 : out[b] # NUL
    <2> SUFFICES ASSUME NEW b \in start..start + w - 1
                 PROVE  out[b] # NUL
        OBVIOUS
    <2>1. b - start + 1 \in 1..w /\ start + (b - start + 1) - 1 = b
        OBVIOUS
    <2> QED
        BY <1>6, <2>1
<1> DEFINE Ends(c) == c >= start /\ out[c] = NUL /\ \A b \in start..c - 1 : out[b] # NUL
           end == CHOOSE c \in Cells : Ends(c)
<1>10. \A c \in Cells : Ends(c) <=> c = start + w
    <2>1. Ends(start + w)
        BY <1>7, <1>9
    <2>2. ASSUME NEW c \in Cells, Ends(c)
          PROVE  c = start + w
        <3>1. c \in Nat
            BY CellNumbers
        <3>2. ~(c < start + w)
            BY <1>9, <2>2, <3>1
        <3>3. ~(start + w < c)
            BY <1>7, <2>2, <3>1
        <3> QED
            BY <3>1, <3>2, <3>3
    <2> QED
        BY <2>1, <2>2
<1>11. end = start + w
    BY <1>8, <1>10
<1>12. NameAt(d) = [k \in 1..end - start |-> out[start + k - 1]]
    BY <1>5 DEF NameAt
<1> HIDE DEF end
<1>13. end - start = w
    BY <1>11
<1>14. NameAt(d) = [k \in 1..w |-> s[k]]
    BY <1>6, <1>12, <1>13
<1>15. s = [k \in 1..w |-> s[k]]
    BY <1>2, <1>4, LenProperties DEF Word
<1> QED
    BY <1>14, <1>15 DEF s

-----------------------------------------------------------------------------
(* The names in the table, as an invariant *)

\* Of a path that fits: while it runs the parser follows the reading of the
\* path, and when it returns it has written the meaning.
Told ==
    Len(path) <= Longest /\ PlainDots =>
        /\ res = Running => Follows(Reading[read_ptr], out, write_depth_ptr, write_ptr, read_ptr)
        /\ res = OK => Yields(Meaning, out, depth)

NInv == IInv /\ (res = OK => read_ptr = Len(path)) /\ Told

LEMMA InitTells == Init => NInv
<1> SUFFICES ASSUME Init
             PROVE  NInv
    OBVIOUS
<1>1. IInv
    BY InitEstablishes
<1>2. read_ptr = 0 /\ write_depth_ptr = 0 /\ write_ptr = 0 /\ res = Running /\ res # OK
    BY Codes DEF Init
<1>3. Reading[0] = Nothing
    BY <1>1, ReadingTurns DEF IInv, Types
<1>4. Nothing \in Readings /\ Nothing.names = <<>> /\ Nothing.name = <<>> /\ <<>> \in Seq(Word)
    BY Dots, EmptySeq DEF Nothing, Readings
<1>5. Kept(Nothing) = <<>> /\ Started(Nothing, At(0)) = <<>>
    BY <1>4, Dots DEF Kept, Started
<1>6. LastName(<<>>, 0) /\ Table(out, <<>>, Longest - 1) /\ Begun(out, 0, <<>>)
    BY Dots DEF LastName, Table, Begun
<1>7. Follows(Nothing, out, 0, 0, 0)
    BY <1>4, <1>5, <1>6, Dots DEF Follows
<1> QED
    BY <1>1, <1>2, <1>3, <1>7 DEF NInv, Told

\* What was told of the state before tells of the one after.
LEMMA TurnTells ==
    ASSUME NInv, InLoop, Advance, IInv', NEW r, NEW mem, NEW d, NEW w, NEW n, NEW char,
           r = Reading[read_ptr], n = read_ptr, char = path[n + 1],
           mem = out', d = write_depth_ptr', w = write_ptr',
           Len(path) <= Longest /\ PlainDots => Follows(Turn(r, char), mem, d, w, n + 1)
    PROVE  NInv'
<1>1. path' = path /\ read_ptr' = n + 1 /\ res' = Running /\ res' # OK
    BY Codes DEF Advance, InLoop
<1>2. PICK next : next = Turn(r, char)
    OBVIOUS
<1>3. Reading' = Reading
    BY <1>1 DEF Reading
<1>4. Reading[n + 1] = next
    <2>1. n \in 0..Len(path) - 1 /\ Len(path) \in Nat
        BY DEF NInv, IInv, Types, Behind, InLoop, At
    <2> QED
        BY <1>2, <2>1, ReadingTurns
<1>5. Reading'[read_ptr'] = next
    BY <1>1, <1>3, <1>4
<1>6. Len(path) <= Longest /\ PlainDots => Follows(next, mem, d, w, n + 1)
    BY <1>2
<1>7. Told'
    BY <1>1, <1>5, <1>6 DEF Told, Follows, LastName, At, PlainDots
<1> QED
    BY <1>1, <1>7 DEF NInv

LEMMA FitsHere ==
    ASSUME NInv, InLoop, Len(path) <= Longest, PlainDots
    PROVE  AtTurn(Reading[read_ptr], out, write_depth_ptr, write_ptr, read_ptr)
<1>1. /\ read_ptr \in 0..Len(path) - 1 /\ write_depth_ptr \in Nat /\ write_ptr \in Nat
      /\ 2 * write_depth_ptr + write_ptr <= read_ptr /\ out \in Memories
    BY SomeFacts DEF NInv, IInv, Types, Behind, InLoop, At, Memories
<1>2. Follows(Reading[read_ptr], out, write_depth_ptr, write_ptr, read_ptr)
    BY DEF NInv, Told, InLoop
<1>3. PlainPath
    BY DEF PlainPath, NInv, IInv, Types
<1> QED
    BY <1>1, <1>2, <1>3 DEF AtTurn

LEMMA PointedAt ==
    ASSUME NInv, InLoop
    PROVE  At(read_ptr) = path[read_ptr + 1] /\ read_ptr \in Nat
BY DEF NInv, IInv, Types, Behind, InLoop, At

LEMMA SeparatorTells ==
    ASSUME NInv, Separator, IInv'
    PROVE  NInv'
<1>1. /\ InLoop /\ Advance /\ At(read_ptr) = SEP
      /\ write_ptr > 0 => /\ out' = [out EXCEPT ![Row(write_depth_ptr) + write_ptr] = NUL]
                          /\ write_depth_ptr' = write_depth_ptr + 1 /\ write_ptr' = 0
      /\ ~(write_ptr > 0) => /\ out' = out /\ write_depth_ptr' = write_depth_ptr
                             /\ write_ptr' = write_ptr
    BY DEF Separator, Put
<1>2. InLoop /\ Advance /\ At(read_ptr) = SEP
    BY DEF Separator
<1>3. path[read_ptr + 1] = SEP /\ write_ptr \in Nat
    BY <1>2, PointedAt DEF NInv, IInv, Types
<1>4. write_ptr' = 0
    BY <1>1, <1>3
<1>5. PICK r, mem, d, w, n, mem2, d2 :
         /\ r = Reading[read_ptr] /\ mem = out /\ d = write_depth_ptr /\ w = write_ptr
         /\ n = read_ptr /\ mem2 = out' /\ d2 = write_depth_ptr'
    OBVIOUS
<1>6. ASSUME Len(path) <= Longest, PlainDots
      PROVE  Follows(Turn(r, SEP), mem2, d2, 0, n + 1)
    <2>1. AtTurn(r, mem, d, w, n)
        BY <1>2, <1>5, <1>6, FitsHere
    <2>2. w > 0 => Written(mem, mem2, Row(d) + w, NUL) /\ d2 = d + 1
        BY <1>1, <1>5 DEF Written
    <2>3. w = 0 => mem2 = mem /\ d2 = d
        BY <1>1, <1>3, <1>5
    <2>4. path[n + 1] = SEP
        BY <1>3, <1>5
    <2> QED
        BY <2>1, <2>2, <2>3, <2>4, SeparatorFollows
<1> QED
    BY <1>2, <1>3, <1>4, <1>5, <1>6, TurnTells

LEMMA DotDotTells ==
    ASSUME NInv, DotDot, IInv'
    PROVE  NInv'
<1>1. /\ InLoop /\ Advance /\ At(read_ptr) = DOT /\ read_ptr > 0 /\ At(read_ptr - 1) = DOT
      /\ write_depth_ptr' = IF write_depth_ptr = 0 THEN 0 ELSE write_depth_ptr - 1
      /\ write_ptr' = 0 /\ out' = out
    BY DEF DotDot, AfterDot
<1>2. path[read_ptr + 1] = DOT
    BY <1>1, PointedAt
<1>3. PICK r, mem, d, w, n, d2 :
         /\ r = Reading[read_ptr] /\ mem = out /\ d = write_depth_ptr /\ w = write_ptr
         /\ n = read_ptr /\ d2 = write_depth_ptr'
    OBVIOUS
<1>4. ASSUME Len(path) <= Longest, PlainDots
      PROVE  Follows(Turn(r, DOT), mem, d2, 0, n + 1)
    <2>1. AtTurn(r, mem, d, w, n)
        BY <1>1, <1>3, <1>4, FitsHere
    <2>2. path[n + 1] = DOT /\ n > 0 /\ At(n - 1) = DOT /\ d2 = IF d = 0 THEN 0 ELSE d - 1
        BY <1>1, <1>2, <1>3
    <2> QED
        BY <2>1, <2>2, DotDotFollows
<1> QED
    BY <1>1, <1>2, <1>3, <1>4, TurnTells

LEMMA SkipDotTells ==
    ASSUME NInv, SkipDot, IInv'
    PROVE  NInv'
<1>1. /\ InLoop /\ Advance /\ At(read_ptr) = DOT
      /\ ~(read_ptr > 0 /\ At(read_ptr - 1) # SEP) /\ At(read_ptr + 1) \in {SEP, NUL}
      /\ write_depth_ptr' = write_depth_ptr /\ write_ptr' = write_ptr /\ out' = out
    BY DEF SkipDot, LoneDot, HasCharOnLeft, HasCharOnRight
<1>2. path[read_ptr + 1] = DOT
    BY <1>1, PointedAt
<1>3. PICK r, mem, d, w, n :
         /\ r = Reading[read_ptr] /\ mem = out /\ d = write_depth_ptr /\ w = write_ptr
         /\ n = read_ptr
    OBVIOUS
<1>4. ASSUME Len(path) <= Longest, PlainDots
      PROVE  Follows(Turn(r, DOT), mem, d, w, n + 1)
    <2>1. AtTurn(r, mem, d, w, n)
        BY <1>1, <1>3, <1>4, FitsHere
    <2>2. path[n + 1] = DOT /\ ~(n > 0 /\ At(n - 1) # SEP) /\ At(n + 1) \in {SEP, NUL}
        BY <1>1, <1>2, <1>3
    <2> QED
        BY <2>1, <2>2, SkipDotFollows
<1> QED
    BY <1>1, <1>2, <1>3, <1>4, TurnTells

LEMMA CopyTells ==
    ASSUME NInv, Copy, IInv'
    PROVE  NInv'
<1>1. /\ InLoop /\ Advance /\ out' = [out EXCEPT ![Row(write_depth_ptr) + write_ptr] = At(read_ptr)]
      /\ write_depth_ptr' = write_depth_ptr /\ write_ptr' = write_ptr + 1
    BY DEF Copy, Put
<1>2. PICK char : char = At(read_ptr)
    OBVIOUS
<1>3. path[read_ptr + 1] = char
    BY <1>1, <1>2, PointedAt
<1>4. /\ char \in Chars \ {SEP}
      /\ char = DOT => /\ ~(read_ptr > 0 /\ At(read_ptr - 1) = DOT)
                       /\ (read_ptr > 0 /\ At(read_ptr - 1) # SEP) \/ At(read_ptr + 1) \notin {SEP, NUL}
    <2>1. \/ char \in Letters
          \/ char = DOT /\ ~AfterDot /\ ~LoneDot
        BY <1>2 DEF Copy
    <2>2. char \in Letters => char \in Chars \ {SEP} /\ char # DOT
        BY PathAssumption DEF Chars
    <2>3. CASE char \in Letters
        BY <2>2, <2>3
    <2>4. CASE char = DOT /\ ~AfterDot /\ ~LoneDot
        <3>1. HasCharOnLeft \/ HasCharOnRight
            BY <1>2, <2>4 DEF LoneDot
        <3> QED
            BY <2>4, <3>1, Characters DEF AfterDot, HasCharOnLeft, HasCharOnRight
    <2> QED
        BY <2>1, <2>3, <2>4
<1>5. PICK r, mem, d, w, n, mem2 :
         /\ r = Reading[read_ptr] /\ mem = out /\ d = write_depth_ptr /\ w = write_ptr
         /\ n = read_ptr /\ mem2 = out'
    OBVIOUS
<1>6. ASSUME Len(path) <= Longest, PlainDots
      PROVE  Follows(Turn(r, char), mem2, d, w + 1, n + 1)
    <2>1. AtTurn(r, mem, d, w, n)
        BY <1>1, <1>5, <1>6, FitsHere
    <2>2. /\ path[n + 1] = char
          /\ char = DOT => /\ ~(n > 0 /\ At(n - 1) = DOT)
                           /\ (n > 0 /\ At(n - 1) # SEP) \/ At(n + 1) \notin {SEP, NUL}
        BY <1>3, <1>4, <1>5
    <2>3. Written(mem, mem2, Row(d) + w, char)
        BY <1>1, <1>2, <1>5 DEF Written
    <2> QED
        BY <1>4, <2>1, <2>2, <2>3, CopyFollows
<1>7. PICK w2 : w2 = w + 1
    OBVIOUS
<1>8. write_ptr' = w2
    BY <1>1, <1>5, <1>7
<1>9. Len(path) <= Longest /\ PlainDots => Follows(Turn(r, char), mem2, d, w2, n + 1)
    BY <1>6, <1>7
<1> QED
    BY <1>1, <1>3, <1>5, <1>8, <1>9, TurnTells

LEMMA FinishTells ==
    ASSUME NInv, res = Running, Finish, IInv'
    PROVE  NInv'
<1>1. /\ read_ptr \in Nat /\ Len(path) \in Nat /\ read_ptr <= Len(path)
      /\ write_depth_ptr \in Nat /\ write_ptr \in Nat /\ 2 * write_depth_ptr + write_ptr <= read_ptr
      /\ \A k \in 1..Len(path) : path[k] \in Chars
    BY Codes DEF NInv, IInv, Types, Behind
<1>2. read_ptr = Len(path)
    <2>1. At(read_ptr) = NUL
        BY DEF Finish
    <2>2. ~(read_ptr < Len(path))
        BY <1>1, <2>1, CharAt, Characters DEF NInv, IInv
    <2> QED
        BY <1>1, <2>2
<1>3. /\ path' = path /\ read_ptr' = read_ptr /\ res' = OK /\ res' # Running
      /\ depth' = IF write_ptr > 0 THEN write_depth_ptr + 1 ELSE write_depth_ptr
    BY Codes DEF Finish
<1>4. PICK r, mem, d, w, n, mem2, names, count :
         /\ r = Reading[read_ptr] /\ mem = out /\ d = write_depth_ptr /\ w = write_ptr
         /\ n = read_ptr /\ mem2 = out' /\ names = Meaning /\ count = depth'
    OBVIOUS
<1>5. Closes(mem, mem2, d, w)
    <2>1. \A c \in Cells : c < DepthField => c \notin DepthField..DepthField + 3
        BY CellNumbers
    <2>2. \A c \in Cells : out'[c] = CASE c \in DepthField..DepthField + 3 -> Junk
                    [] c = Row(write_depth_ptr) + write_ptr /\ write_ptr > 0
                          /\ c \notin DepthField..DepthField + 3 -> NUL
                    [] OTHER -> out[c]
        BY DEF Finish
    <2> QED
        BY <1>4, <2>1, <2>2 DEF Closes
<1>6. names = Resolve(r.names, r.name) /\ count = IF w > 0 THEN d + 1 ELSE d
    BY <1>2, <1>3, <1>4 DEF Meaning
<1>7. ASSUME Len(path) <= Longest, PlainDots
      PROVE  Yields(names, mem2, count)
    <2>1. Follows(r, mem, d, w, n)
        BY <1>4, <1>7 DEF NInv, Told
    <2>2. d \in Nat /\ w \in Nat /\ n \in Nat /\ n = Len(path) /\ n <= Longest /\ 2 * d + w <= n
        BY <1>1, <1>2, <1>4, <1>7
    <2>3. Yields(Resolve(r.names, r.name), mem2, IF w > 0 THEN d + 1 ELSE d)
        BY <1>5, <2>1, <2>2, FinishYields
    <2> QED
        BY <1>6, <2>3
<1>8. Meaning' = names
    BY <1>3, <1>4 DEF Meaning, Reading
<1>9. Told'
    BY <1>3, <1>4, <1>7, <1>8 DEF Told, PlainDots
<1> QED
    BY <1>2, <1>3, <1>9 DEF NInv

LEMMA StepTells == NInv /\ [Next]_vars => NInv'
<1> SUFFICES ASSUME NInv, [Next]_vars
             PROVE  NInv'
    OBVIOUS
<1>1. IInv'
    BY StepKeeps DEF NInv
<1>2. CASE res = Running /\ Refuse
    <2>1. path' = path /\ res' # OK /\ res' # Running
        BY <1>2, Codes DEF Refuse
    <2> QED
        BY <1>1, <2>1 DEF NInv, Told
<1>3. CASE Separator
    BY <1>1, <1>3, SeparatorTells
<1>4. CASE DotDot
    BY <1>1, <1>4, DotDotTells
<1>5. CASE SkipDot
    BY <1>1, <1>5, SkipDotTells
<1>6. CASE Copy
    BY <1>1, <1>6, CopyTells
<1>7. CASE res = Running /\ Finish
    BY <1>1, <1>7, FinishTells
<1>8. CASE UNCHANGED vars
    <2>1. /\ path' = path /\ read_ptr' = read_ptr /\ write_depth_ptr' = write_depth_ptr
          /\ write_ptr' = write_ptr /\ out' = out /\ depth' = depth /\ res' = res
        BY <1>8 DEF vars
    <2>2. Reading' = Reading /\ Meaning' = Meaning
        BY <2>1 DEF Reading, Meaning
    <2>3. Told'
        BY <2>1, <2>2 DEF NInv, Told, Follows, LastName, At, PlainDots
    <2> QED
        BY <1>1, <2>1, <2>3 DEF NInv
<1> QED
    BY <1>2, <1>3, <1>4, <1>5, <1>6, <1>7, <1>8 DEF Next

\* Whatever the mixture of separators, letters and dots, a path that is accepted
\* yields the names it means, each a closed string in its own row. Only a path
\* of VFS_MAX_FILE_FOLDER_NAME + 1 characters, which slips through the guard at
\* the head of the loop, may fare otherwise.
THEOREM NamesAreTheirMeaning ==
    Spec => [](Len(path) # VFS_MAX_FILE_FOLDER_NAME + 1 => NamesAreTheMeaning)
<1>1. NInv => (Len(path) # VFS_MAX_FILE_FOLDER_NAME + 1 => NamesAreTheMeaning)
    <2> SUFFICES ASSUME NInv, Len(path) # VFS_MAX_FILE_FOLDER_NAME + 1, res = OK, PlainDots
                 PROVE  /\ depth = Len(Meaning)
                        /\ \A d \in 0..depth - 1 : NameAt(d) = Meaning[d + 1]
        BY DEF NamesAreTheMeaning
    <2>1. Len(path) <= Longest
        BY Sizes DEF NInv, IInv, Types, Behind, Longest
    <2>2. PICK names : names = Meaning
        OBVIOUS
    <2>3. Yields(names, out, depth)
        BY <2>1, <2>2 DEF NInv, Told
    <2>4. depth = Len(names)
        BY <2>3 DEF Yields
    <2>5. \A d \in 0..depth - 1 : NameAt(d) = names[d + 1]
        BY <2>3, StringsAreNames
    <2> QED
        BY <2>2, <2>4, <2>5
<1> QED
    BY <1>1, InitTells, StepTells, PTL DEF Spec
=============================================================================
