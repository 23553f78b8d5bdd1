--------------------------- MODULE QuestCommands ---------------------------
(***************************************************************************)
(* The commands on Quests as the database sees them: every command is one  *)
(* transaction that locks rows in the order of its code, claims its        *)
(* Idempotency-Key with an insert, does its work and stores its result.    *)
(* Clients send a command again, with the same key, when they hear nothing.*)
(* What the work is about is modelled in QuestLifecycle; here it succeeds  *)
(* or is rejected.                                                         *)
(*                                                                         *)
(* The insert of a command row takes a share lock on the rows its foreign  *)
(* keys name: the Quest, and the Member who sent it.                       *)
(***************************************************************************)
EXTENDS Integers, Sequences, FiniteSets

CONSTANTS
    Clients,       \* connections to the database, one transaction each
    Commands,      \* what may be sent: [kind, by, quest, workers]
    Keys           \* Idempotency-Keys the clients choose

\* workers is in the order of the ids, in which their rows are locked.
Kinds == {"JOIN", "SELECT", "ANSWER", "PUBLISH", "CREATE", "DIRECT_JOIN", "SELECT_V1"}

\* The v1 commands have tables of their own and forget a rejected command, and
\* so do the settlement commands, which behave like SELECT_V1 here.
KindsV1 == {"DIRECT_JOIN", "SELECT_V1"}

ASSUME CommandAssumption ==
    \A c \in Commands : /\ c.kind \in Kinds
                        /\ c.workers \in Seq({c.workers[n] : n \in DOMAIN c.workers})

VARIABLES
    tx,            \* the open transaction of each client
    commandRow,    \* the committed command rows
    effects,       \* how often the work of a command row was committed
    answers        \* the results a command was answered with under a key

commandVars == <<tx, commandRow, effects, answers>>

\* The unique key of the row: Member, operation and key; in v1 the key alone.
RowOf(c, k) ==
    IF c.kind \in KindsV1 THEN <<c.kind, k>> ELSE <<c.kind, c.by, k>>

CommandIds == {RowOf(c, k) : c \in Commands, k \in Keys}

NoTx == [open |-> FALSE]
NoRow == [result |-> "NONE"]
Results == {"DONE", "REJECTED"}

\* for is the request hash: two commands under one key have different ones.
StoredRows == [for: Commands, result: Results]

CommandTypeOK ==
    /\ \A p \in Clients : tx[p].open =>
           tx[p].command \in Commands /\ tx[p].key \in Keys /\ tx[p].locked \in Nat
    /\ commandRow \in [CommandIds -> StoredRows \union {NoRow}]
    /\ effects \in [CommandIds -> Nat]
    /\ answers \in [Commands \X Keys -> SUBSET Results]

CommandInit ==
    /\ tx = [p \in Clients |-> NoTx]
    /\ commandRow = [i \in CommandIds |-> NoRow]
    /\ effects = [i \in CommandIds |-> 0]
    /\ answers = [ck \in Commands \X Keys |-> {}]

-----------------------------------------------------------------------------
(* The locks of a transaction, in their order *)

Update(table, row) == [table |-> table, row |-> row, mode |-> "UPDATE"]
Share(table, row)  == [table |-> table, row |-> row, mode |-> "SHARE"]

\* INSERT of the command row: the entry of the unique index, then the keys.
Insert(c, k) == <<Update("COMMAND", RowOf(c, k)), Share("MEMBER", c.by)>>

\* hasOverlappingActiveWorkerAssignment
LockWorkers(c) == [n \in DOMAIN c.workers |-> Update("MEMBER", c.workers[n])]

\* Mutant: the command is recorded before its Quest is locked.
InsertFirst(c, k) ==
    IF c.kind = "CREATE" THEN Insert(c, k)
    ELSE IF c.kind = "PUBLISH"
         THEN <<Update("MEMBER", c.by), Update("QUEST", c.quest)>> \o Insert(c, k)
    ELSE Insert(c, k) \o <<Share("QUEST", c.quest), Update("QUEST", c.quest)>> \o LockWorkers(c)

\* PUBLISH stands for the Hirer's commands that count his Quests or edit one
\* of them: they lock the Hirer first.  CREATE has no Quest yet.
Plan(c, k) ==
    IF c.kind = "CREATE" THEN Insert(c, k)
    ELSE IF c.kind = "PUBLISH"
         THEN <<Update("MEMBER", c.by), Update("QUEST", c.quest)>> \o Insert(c, k)
    ELSE <<Update("QUEST", c.quest)>> \o Insert(c, k) \o LockWorkers(c)

PlanOf(p) == Plan(tx[p].command, tx[p].key)
Held(p) == IF tx[p].open THEN {PlanOf(p)[n] : n \in 1 .. tx[p].locked} ELSE {}

AllLocked(p) == tx[p].open /\ tx[p].locked = Len(PlanOf(p))
NextLock(p) == PlanOf(p)[tx[p].locked + 1]

Conflict(a, b) ==
    a.table = b.table /\ a.row = b.row /\ {a.mode, b.mode} # {"SHARE"}

WaitsFor(p, r) ==
    /\ p # r /\ tx[p].open /\ ~AllLocked(p)
    /\ \E lock \in Held(r) : Conflict(NextLock(p), lock)

Blocked(p) == \E r \in Clients : WaitsFor(p, r)

\* Everyone in S waits for another one in S.
WaitInCircle(S) == S # {} /\ \A p \in S : \E r \in S : WaitsFor(p, r)

Deadlocks ==
    {S \in SUBSET Clients : WaitInCircle(S) /\ \A U \in SUBSET S : WaitInCircle(U) => U = S}

-----------------------------------------------------------------------------
(* A transaction *)

Close(p) == tx' = [tx EXCEPT ![p] = NoTx]

\* A new command, or one that is sent again.
Begin(p, c, k) ==
    /\ ~tx[p].open
    /\ tx' = [tx EXCEPT ![p] = [open |-> TRUE, command |-> c, key |-> k, locked |-> 0]]
    /\ UNCHANGED <<commandRow, effects, answers>>

\* Mutant: a row that is there already is not noticed.
NeverClaimed(p) == FALSE

\* The insert of a key that is there already inserts nothing.
Claimed(p) ==
    /\ ~AllLocked(p)
    /\ NextLock(p).table = "COMMAND"
    /\ commandRow[NextLock(p).row] # NoRow

Lock(p) ==
    /\ tx[p].open /\ ~AllLocked(p)
    /\ ~Blocked(p) /\ ~Claimed(p)
    /\ tx' = [tx EXCEPT ![p].locked = @ + 1]
    /\ UNCHANGED <<commandRow, effects, answers>>

Answer(p, result) ==
    answers' = [answers EXCEPT ![<<tx[p].command, tx[p].key>>] = @ \union {result}]

AnswerFromRow(p) ==
    LET row == commandRow[NextLock(p).row]
    IN  /\ ~Blocked(p) /\ Claimed(p)
        /\ IF row.for = tx[p].command THEN Answer(p, row.result) ELSE UNCHANGED answers
        /\ Close(p)
        /\ UNCHANGED <<commandRow, effects>>

\* replayQuestCommand: what the row holds, unless another command made it.
Replay(p) ==
    /\ tx[p].open /\ tx[p].command.kind \notin KindsV1
    /\ AnswerFromRow(p)

\* replayOrConflict of the direct join, and what the other v1 commands have.
ReplayV1(p) ==
    /\ tx[p].open /\ tx[p].command.kind \in KindsV1
    /\ AnswerFromRow(p)

\* The v1 commands delete the row of a rejected command (discardCommand).
ForgetsRejection(c) == c.kind \in KindsV1

\* Work, result and effects are committed together.
Finish(p, result) ==
    LET c == tx[p].command
        id == RowOf(c, tx[p].key)
    IN  /\ AllLocked(p)
        /\ commandRow' =
              IF result = "REJECTED" /\ ForgetsRejection(c) THEN commandRow
              ELSE [commandRow EXCEPT ![id] = [for |-> c, result |-> result]]
        /\ effects' = IF result = "DONE" THEN [effects EXCEPT ![id] = @ + 1] ELSE effects
        /\ Answer(p, result)
        /\ Close(p)

\* The process dies or throws.
Rollback(p) ==
    /\ tx[p].open
    /\ Close(p)
    /\ UNCHANGED <<commandRow, effects, answers>>

\* The database ends one of the transactions that wait in a circle; the
\* client gets an error.
BreakDeadlock(p) ==
    /\ \E S \in Deadlocks : p \in S
    /\ Rollback(p)

Progress(p) ==
    \/ Lock(p) \/ Replay(p) \/ ReplayV1(p)
    \/ \E result \in Results : Finish(p, result)
    \/ BreakDeadlock(p)

CommandNext ==
    \E p \in Clients :
        \/ \E c \in Commands, k \in Keys : Begin(p, c, k)
        \/ Progress(p)
        \/ Rollback(p)

CommandSpec == CommandInit /\ [][CommandNext]_commandVars

-----------------------------------------------------------------------------
(* Properties *)

\* However often a command is sent, and whatever dies in between, its work is
\* done once, and exactly when its row says so; and every answer to a v2
\* command under its key is the first answer.
WorkDoneOnce ==
    /\ \A i \in CommandIds : effects[i] = IF commandRow[i].result = "DONE" THEN 1 ELSE 0
    /\ \A c \in Commands, k \in Keys : c.kind \notin KindsV1 => Cardinality(answers[<<c, k>>]) <= 1

\* "Callers that lock the Quest row must therefore take FOR UPDATE before
\* calling runQuestCommand": no two commands deadlock over a Quest or a key.
\* Those that do deadlock do so over a Member's row.
QuestsNeverDeadlock ==
    \A S \in Deadlocks : \E p \in S : NextLock(p).table = "MEMBER"
=============================================================================
