----------------------------- MODULE BlockDrive -----------------------------
(***************************************************************************)
(* What a block driver promises the disk manager: one call at a time, and  *)
(* a call either fails or answers what is on the drive, whatever became of *)
(* the calls before it.  But for one: a successful read of no sectors may  *)
(* leave the drive stale, and reads of a stale drive answer other sectors  *)
(* than those asked for, until they have used them up or one has failed.   *)
(***************************************************************************)
EXTENDS Integers, Sequences

CONSTANTS
    Drives,
    LIMIT,      \* sectors that one call reads at most
    ERR,        \* the answer of a call that failed
    NULL

VARIABLES
    size,       \* sectors of each drive
    request,    \* the call in progress, or NULL
    reply,      \* what the latest call answered
    stale       \* drives with the data of an earlier call to give

vars == <<size, request, reply, stale>>

Failure == [res |-> ERR, data |-> <<>>]

Smaller(m, n) == IF m < n THEN m ELSE n

\* The sectors of drive d from lba on.
Sectors(d, lba, n) == [k \in 1..n |-> <<d, lba + k - 1>>]

Readable(r) ==
    IF r.lba > size[r.drive] THEN 0
    ELSE Smaller(LIMIT, Smaller(r.count, size[r.drive] - r.lba))

Success(r) ==
    IF r.op = "count" THEN [res |-> size[r.drive], data |-> <<>>]
    ELSE [res |-> Readable(r), data |-> Sectors(r.drive, r.lba, Readable(r))]

Requests == [op : {"count", "read"}, drive : Drives, lba : Nat, count : Nat]

Init == request = NULL /\ stale = {}

Ask ==
    /\ request = NULL /\ request' \in Requests
    /\ stale' \in {stale, stale \ {request'.drive}}
    /\ UNCHANGED reply

Fail ==
    /\ request # NULL /\ request' = NULL
    /\ reply' = Failure
    /\ stale' \subseteq stale \ {request.drive}

ReadsNothing(r) == r.op = "read" /\ Readable(r) = 0

Answer ==
    /\ request # NULL /\ request' = NULL
    /\ request.op = "read" => request.drive \notin stale
    /\ reply' = Success(request)
    /\ stale' = IF ReadsNothing(request) THEN stale \cup {request.drive} ELSE stale

\* As many sectors as asked for, one after the other, from where the drive is.
AnswerStale ==
    /\ request # NULL /\ request' = NULL
    /\ request.op = "read" /\ request.drive \in stale
    /\ \E from \in 0..size[request.drive] :
          reply' = [res |-> Readable(request),
                    data |-> Sectors(request.drive, from, Readable(request))]
    /\ UNCHANGED stale

\* Nothing there to read: answered at once.
Refuse ==
    /\ request = NULL /\ request' = NULL
    /\ reply' = [res |-> 0, data |-> <<>>]
    /\ UNCHANGED stale

Next == (Ask \/ Fail \/ Answer \/ AnswerStale \/ Refuse) /\ UNCHANGED size

Spec == Init /\ [][Next]_vars
=============================================================================
