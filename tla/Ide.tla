-------------------------------- MODULE Ide --------------------------------
(***************************************************************************)
(* The IDE driver and the controller it polls.  A call of the driver is    *)
(* split where it waits for the status register: the registers it writes   *)
(* before, the wait itself, each sector it takes, a reset.  In between the *)
(* controller moves: it serves a command sector by sector or gives it up.  *)
(***************************************************************************)
EXTENDS Integers, Sequences

CONSTANTS
    Drives,         \* all_drives[]
    Channel,        \* the channel (its base port) of each drive
    MAX_COUNT,      \* 256 scaled down: what a count register of 0 stands for
    BLD_SIZE_ERR,   \* -1
    BLD_SIZE_UNK,   \* -3
    NULL

\* A call of the driver: what was asked, the sectors it will take, where it
\* waits and what it has.
Calls == [op : {"count", "read"}, drive : Drives, lba : Nat, count : Nat, limit : Nat,
          at : {"poll", "transfer", "reset"}, got : Seq(Drives \X Nat)]

ASSUME IdeAssumption ==
    /\ NULL \notin Calls
    /\ NULL \notin [op : {"count", "read"}, drive : Drives, lba : Nat, count : Nat]
    /\ MAX_COUNT \in Nat /\ MAX_COUNT > 1
    /\ BLD_SIZE_ERR \in Int /\ BLD_SIZE_ERR < 0
    /\ BLD_SIZE_UNK \in Int /\ BLD_SIZE_UNK < 0

VARIABLES
    machine,        \* what is attached as each drive, and its first sector
    ata,            \* each drive: its status, its command, what is left of it
    unit,           \* the drive selected on each channel
    failed,         \* drives that have reported an error
    sector_count,   \* the field of ide_private_field_t
    call,           \* the driver's call in progress, or NULL
    ret,            \* what the latest call returned, with the buffer it filled
    unread          \* history: drives left with a command whose data nobody takes

ideVars == <<machine, ata, unit, failed, sector_count, call, ret, unread>>

NoCommand == [st |-> "idle", op |-> "none", next |-> 0, left |-> 0]
Resetting == [st |-> "busy", op |-> "reset", next |-> 0, left |-> 0]

IdeInit ==
    /\ ata = [d \in Drives |-> NoCommand]
    /\ unit \in [{Channel[d] : d \in Drives} -> Drives]
    /\ \A d \in Drives : Channel[unit[Channel[d]]] = Channel[d]
    /\ failed = {}
    /\ sector_count = [d \in Drives |-> BLD_SIZE_UNK]
    /\ call = NULL
    /\ ret = [res |-> 0, data |-> <<>>]
    /\ unread = {}
-----------------------------------------------------------------------------
(* The controller *)

\* A packet device aborts IDENTIFY.
CanServe(d) ==
    /\ machine[d].kind = "disk"
    /\ ata[d].op = "read" => ata[d].next < machine[d].size

\* BSY clears, with DRQ for the next sector or with ERR, which ends the
\* command.
Answer(d) ==
    /\ ata[d].st = "busy" /\ ata[d].op # "reset"
    /\ \/ /\ CanServe(d)
          /\ ata' = [ata EXCEPT ![d].st = "data"]
          /\ UNCHANGED failed
       \/ /\ ata' = [ata EXCEPT ![d] = [NoCommand EXCEPT !.st = "error"]]
          /\ failed' = failed \cup {d}
    /\ UNCHANGED <<machine, unit, sector_count, call, ret, unread>>

OnChannel(d) == {e \in Drives : Channel[e] = Channel[d] /\ machine[e].kind # "absent"}

\* All drives of the channel have come out of the software reset.
ResetDone(d) ==
    /\ ata[d].op = "reset"
    /\ ata' = [e \in Drives |-> IF e \in OnChannel(d) THEN NoCommand ELSE ata[e]]
    /\ UNCHANGED <<machine, unit, failed, sector_count, call, ret, unread>>

Controller == \E d \in Drives : Answer(d) \/ ResetDone(d)

\* A drive that still works on a command, or has data for it, takes no notice
\* of another.
Listens(d) == ata[d].st \notin {"busy", "data"}

\* The drive after a command.
Commanded(d, op, lba, n) ==
    IF ~Listens(d) THEN ata
    ELSE [ata EXCEPT ![d] = [st |-> "busy", op |-> op, next |-> lba, left |-> n]]

\* The drive when its sector has been taken.
Advanced(drive) ==
    IF drive.left = 1 THEN NoCommand
    ELSE [drive EXCEPT !.st = "busy", !.next = @ + 1, !.left = @ - 1]
-----------------------------------------------------------------------------
(* The driver *)

Return(res, data) == call' = NULL /\ ret' = [res |-> res, data |-> data]

\* The drive register is written by the caller before.
SelectNothing(d) == UNCHANGED unit

Select(d) == unit' = [unit EXCEPT ![Channel[d]] = d]

\* The drive whose status and data registers the call in progress reads.
Polled == unit[Channel[call.drive]]

\* ide_probe(): a status of 0xFF or 0 means that nothing is there.
ProbeOk(d) == machine[d].kind # "absent"

\* ide_get_sector_count(), when the number is not in the cache.
StartCount(d) ==
    /\ Select(d)
    /\ ata' = Commanded(unit'[Channel[d]], "identify", 0, 1)
    /\ call' = [op |-> "count", drive |-> d, lba |-> 0, count |-> 0, limit |-> 0,
                at |-> "poll", got |-> <<>>]
    /\ UNCHANGED <<machine, failed, sector_count, ret, unread>>

\* Without the test for 256 sectors.
LimitUncapped(d, lba, count) ==
    IF count + lba > sector_count[d] THEN sector_count[d] - lba ELSE count

\* The sectors ide_read() asks for: to the end of the drive at most, and at
\* most 255.
Limit(d, lba, count) ==
    LET limit == IF count + lba > sector_count[d] THEN sector_count[d] - lba ELSE count
    IN  IF limit >= MAX_COUNT THEN MAX_COUNT - 1 ELSE limit

\* What the drive makes of its count register.
Register(limit) == IF limit % MAX_COUNT = 0 THEN MAX_COUNT ELSE limit % MAX_COUNT

\* ide_read().
StartRead(d, lba, count) ==
    IF lba > sector_count[d]
    THEN /\ Return(0, <<>>)
         /\ UNCHANGED <<machine, ata, unit, failed, sector_count, unread>>
    ELSE /\ Select(d)
         /\ ata' = Commanded(unit'[Channel[d]], "read", lba, Register(Limit(d, lba, count)))
         /\ call' = [op |-> "read", drive |-> d, lba |-> lba, count |-> count,
                     limit |-> Limit(d, lba, count), at |-> "poll", got |-> <<>>]
         /\ unread' = IF Listens(d) THEN unread \ {d} ELSE unread
         /\ UNCHANGED <<machine, failed, sector_count, ret>>

\* An error before the first sector: ide_reset().
PollError ==
    /\ call # NULL /\ call.at = "poll"
    /\ ata[Polled].st = "error"
    /\ ata' = [e \in Drives |-> IF e \in OnChannel(Polled) THEN Resetting ELSE ata[e]]
    /\ call' = [call EXCEPT !.at = "reset"]
    /\ UNCHANGED <<machine, unit, failed, sector_count, ret, unread>>

\* The end of ide_reset(): the channel is no longer busy.
ResetWait ==
    /\ call # NULL /\ call.at = "reset"
    /\ ata[Polled].st # "busy"
    /\ Return(BLD_SIZE_ERR, <<>>)
    /\ unread' = unread \ OnChannel(Polled)
    /\ UNCHANGED <<machine, ata, unit, failed, sector_count>>

\* The drive has identified itself.
TakeIdentity ==
    /\ call # NULL /\ call.op = "count" /\ call.at = "poll"
    /\ ata[Polled].st = "data"
    /\ ata' = [ata EXCEPT ![Polled] = Advanced(@)]
    /\ LET sectors == machine[Polled].size
       IN  \/ /\ sectors <= 0
              /\ Return(BLD_SIZE_ERR, <<>>)
              /\ UNCHANGED sector_count
           \/ /\ sectors > 0
              /\ Return(sectors, <<>>)
              /\ sector_count' = [sector_count EXCEPT ![call.drive] = sectors]
    /\ UNCHANGED <<machine, unit, failed, unread>>

\* The first sector is there.  A call for no sectors takes none and leaves the
\* drive with the MAX_COUNT that it understood.
PollData ==
    /\ call # NULL /\ call.op = "read" /\ call.at = "poll"
    /\ ata[Polled].st = "data"
    /\ IF call.limit = 0 THEN Return(0, <<>>) /\ unread' = unread \cup {Polled}
       ELSE call' = [call EXCEPT !.at = "transfer"] /\ UNCHANGED <<ret, unread>>
    /\ UNCHANGED <<machine, ata, unit, failed, sector_count>>

\* The loop ends one sector early.
TakeSectorButLast ==
    /\ call # NULL /\ call.at = "transfer"
    /\ ata[Polled].st = "data"
    /\ ata' = [ata EXCEPT ![Polled] = Advanced(@)]
    /\ LET got == Append(call.got, <<Polled, ata[Polled].next>>)
       IN  IF Len(got) >= call.limit - 1 THEN Return(call.limit, got)
           ELSE call' = [call EXCEPT !.got = got] /\ UNCHANGED ret
    /\ UNCHANGED <<machine, unit, failed, sector_count, unread>>

\* One round of the transfer loop: 256 words from the data register.
TakeSector ==
    /\ call # NULL /\ call.at = "transfer"
    /\ ata[Polled].st = "data"
    /\ ata' = [ata EXCEPT ![Polled] = Advanced(@)]
    /\ LET got == Append(call.got, <<Polled, ata[Polled].next>>)
       IN  IF Len(got) = call.limit THEN Return(call.limit, got)
           ELSE call' = [call EXCEPT !.got = got] /\ UNCHANGED ret
    /\ UNCHANGED <<machine, unit, failed, sector_count, unread>>

\* An error in the middle: no reset here.
TransferError ==
    /\ call # NULL /\ call.at = "transfer"
    /\ ata[Polled].st = "error"
    /\ Return(BLD_SIZE_ERR, <<>>)
    /\ unread' = unread \ {Polled}
    /\ UNCHANGED <<machine, ata, unit, failed, sector_count>>

Driver == PollError \/ ResetWait \/ TakeIdentity \/ PollData \/ TakeSector \/ TransferError
-----------------------------------------------------------------------------
(* Properties *)

\* Between two calls no drive has a command to finish or data to deliver: the
\* next command is never written to a busy drive, and its data are its own.
\* Only a read of no sectors leaves a command behind, on its own drive.
NothingPending ==
    \A d \in Drives \ unread : ata[d].st \in {"busy", "data"} =>
        /\ call # NULL
        /\ Channel[d] = Channel[call.drive]
        /\ ata[d].op = "reset" \/ d = call.drive

Promise == INSTANCE BlockDrive WITH
    LIMIT <- MAX_COUNT - 1,
    ERR <- BLD_SIZE_ERR,
    size <- [d \in Drives |-> machine[d].size],
    request <- IF call = NULL THEN NULL
               ELSE [op |-> call.op, drive |-> call.drive, lba |-> call.lba, count |-> call.count],
    reply <- ret,
    stale <- unread

\* Polls, errors, resets and the sharing of a channel by two drives are
\* invisible to the caller: each call fails or delivers just the sectors asked
\* for.  What a read of no sectors spoils are the reads of its own drive, until
\* one fails or finds the drive ready: as many sectors as asked for, but others.
ImplementsBlockDrive == Promise!Spec

\* Every call of the driver returns, as long as the controller answers.  (A
\* read of a drive with unread data may find too few and wait for ever.)
EveryCallReturns == call # NULL /\ call.drive \notin unread ~> call = NULL
=============================================================================
