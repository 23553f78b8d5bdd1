-------------------------- MODULE MemberPenalties --------------------------
(***************************************************************************)
(* The Penalty History of a Member, what it says of him today, and the     *)
(* Wallet that a ban freezes.                                              *)
(*                                                                         *)
(* src/modules/admin/member-penalty/member-penalty.service.ts keeps an     *)
(* append-only list of records: every strike, exemption, Admin penalty and *)
(* reversal.  The Member row carries a projection of it (bannedUntil,      *)
(* redFlagExpiresAt) that each command rebuilds, and the Wallet status is  *)
(* reconciled with it, but not by every command.  A command holds the      *)
(* Member's advisory lock from its first read to its commit, so a command  *)
(* is one step; the sweep of ended bans takes the same lock per Member.    *)
(***************************************************************************)
EXTENDS Integers, Sequences, FiniteSets, FiniteSetsExt

CONSTANTS
    Members,      \* the Members a penalty can name
    EarlierCase,  \* the id of a Report Case before the ones that are followed
    HasWallet,    \* those who have a Wallet before anything happens
    AdminKeys,    \* the idempotency keys of Admin penalty commands
    AddedByAdmin, \* the results an Admin gives directly
    SetByAdmin,   \* the statuses an Admin gives to a Wallet
    WEEK, MONTH,  \* the two lengths of a temporary ban; a red flag lasts a WEEK
    MaxNow,       \* bound: the clock stops here
    MaxRecords    \* bound: the longest Penalty History that is explored

ASSUME PenaltyAssumptions ==
    /\ HasWallet \subseteq Members
    /\ AddedByAdmin \subseteq {"RED_FLAG", "BAN_7_DAYS", "PERMANENT_BAN"}
    /\ SetByAdmin \subseteq {"ACTIVE", "FROZEN", "SUSPENDED", "CLOSED"}
    /\ WEEK \in Nat \ {0}
    /\ MONTH \in Nat \ {0}
    /\ WEEK =< MONTH

VARIABLES
    now,            \* the clock of the service
    records,        \* member_penalty_record: for each Member, his rows in order
    bannedUntil,    \* auth_user.banned_until, 0 for null
    redFlagUntil,   \* auth_user.red_flag_expires_at, 0 for null
    walletStatus,   \* wallet.wallet_status, "NONE" before there is a Wallet
    lastChange      \* who made the newest row of wallet_status_history

penaltyVars == <<now, records, bannedUntil, redFlagUntil, walletStatus, lastChange>>

Ladders == {"MISCONDUCT", "REVIEW"}
Bans == {"BAN_7_DAYS", "BAN_1_MONTH", "PERMANENT_BAN"}
WalletStatuses == {"NONE", "ACTIVE", "FROZEN", "SUSPENDED", "CLOSED"}
Changes == {"NONE", "ADMIN", "BAN_FREEZE", "BAN_LIFTED"}

-----------------------------------------------------------------------------
\* What a history says.

Originals(rs) == {i \in DOMAIN rs : rs[i].result # "REVERSAL"}
Reversed(rs) == {rs[i].reverses : i \in DOMAIN rs \ Originals(rs)}
Standing(rs) == Originals(rs) \ Reversed(rs)

Expiry(record) ==
    CASE record.result = "BAN_7_DAYS"  -> record.at + WEEK
      [] record.result = "BAN_1_MONTH" -> record.at + MONTH
      [] OTHER                         -> 0

ActiveBans(rs, t) ==
    {i \in Standing(rs) : rs[i].result = "PERMANENT_BAN" \/ Expiry(rs[i]) > t}

\* The records a ladder counts: confirmed cases and reports on one, low
\* averages on the other; never an exemption, never an Admin's own penalty.
Automatic(rs, ladder) ==
    {i \in Standing(rs) :
        /\ rs[i].ladder = ladder
        /\ rs[i].result # "EXEMPT"
        /\ rs[i].source \in IF ladder = "MISCONDUCT" THEN {"REPORT_CASE", "CONDUCT_REPORT"}
                                                     ELSE {"REVIEW_AVERAGE"}}

LadderResult(ladder, strike) ==
    LET steps == IF ladder = "MISCONDUCT" THEN <<"RED_FLAG", "BAN_7_DAYS", "PERMANENT_BAN">>
                                          ELSE <<"BAN_7_DAYS", "BAN_1_MONTH", "PERMANENT_BAN">>
    IN  steps[IF strike > 3 THEN 3 ELSE strike]

StrikeOf(rs, i) ==
    Cardinality({j \in Automatic(rs, rs[i].ladder) : rs[j].seq =< rs[i].seq})

NextSeq(rs, ladder) ==
    1 + Max({0} \cup {rs[i].seq : i \in {j \in DOMAIN rs : rs[j].ladder = ladder}})

-----------------------------------------------------------------------------
\* What a command appends.

\* The date of a record matters for a result that ends.
Dated(result) == IF result \in {"RED_FLAG", "BAN_7_DAYS", "BAN_1_MONTH"} THEN now ELSE 0

Record(ladder, source, id, seq, result) ==
    [ladder |-> ladder, source |-> source, id |-> id, seq |-> seq, result |-> result,
     at |-> Dated(result), reverses |-> 0, recalculates |-> 0, key |-> 0, kind |-> "NONE"]

ReversalOf(rs, i) ==
    [Record(rs[i].ladder, rs[i].source, rs[i].id, rs[i].seq, "REVERSAL") EXCEPT !.reverses = i]

\* What the checks and the unique indexes of the table ask of a Member's rows: a
\* source gives one row that neither reverses nor replaces another, and no row
\* is reversed or replaced twice.
FitsTable(rs) ==
    LET first == {i \in Originals(rs) : rs[i].source # "ADMIN" /\ rs[i].recalculates = 0}
    IN  /\ \A i \in DOMAIN rs :
              /\ rs[i].source = "REVIEW_AVERAGE" <=> rs[i].ladder = "REVIEW"
              /\ rs[i].seq > 0
              /\ rs[i].result = "REVERSAL" <=> rs[i].reverses # 0
              /\ i \notin {rs[i].reverses, rs[i].recalculates}
              /\ rs[i].kind = "ADD" => rs[i].source = "ADMIN" /\ rs[i].result # "REVERSAL"
              /\ rs[i].kind = "REMOVE" => rs[i].result = "REVERSAL"
        /\ \A i, j \in DOMAIN rs : i # j =>
              /\ rs[i].reverses # 0 => rs[i].reverses # rs[j].reverses
              /\ rs[i].recalculates # 0 => rs[i].recalculates # rs[j].recalculates
              /\ {i, j} \subseteq first => <<rs[i].source, rs[i].id>> # <<rs[j].source, rs[j].id>>

\* Mutant: the strikes that are left keep their results.
NoRecalculation(rs) == rs

\* A finite set of rows in the order of the history.
InOrder(S) ==
    CHOOSE f \in [1..Cardinality(S) -> S] :
        \A k, n \in 1..Cardinality(S) : k < n => f[k] < f[n]

\* The strikes that do not carry the result of their place on the ladder.
Misplaced(rs) ==
    {i \in UNION {Automatic(rs, ladder) : ladder \in Ladders} :
        rs[i].result # LadderResult(rs[i].ladder, StrikeOf(rs, i))}

ReplacementOf(rs, i) ==
    [Record(rs[i].ladder, rs[i].source, rs[i].id, rs[i].seq,
            LadderResult(rs[i].ladder, StrikeOf(rs, i))) EXCEPT !.recalculates = i]

\* After a reversal the strikes that are left move down their ladder: each
\* that is misplaced is reversed, and replaced in the next row.
Recalculated(rs) ==
    LET plan == InOrder(Misplaced(rs))
    IN  rs \o [k \in 1..2 * Cardinality(Misplaced(rs)) |->
                  IF k % 2 = 1 THEN ReversalOf(rs, plan[(k + 1) \div 2])
                               ELSE ReplacementOf(rs, plan[k \div 2])]

Later(times) == IF times = {} THEN 0 ELSE Max(times)

\* Mutant: a reversed record goes on counting.
RebuildFromAll(m, rs) ==
    /\ records' = [records EXCEPT ![m] = rs]
    /\ redFlagUntil' = [redFlagUntil EXCEPT ![m] =
           Later({t \in {rs[i].at + WEEK : i \in {j \in DOMAIN rs : rs[j].result = "RED_FLAG"}} :
                     t > now})]
    /\ bannedUntil' = [bannedUntil EXCEPT ![m] =
           Later({t \in {Expiry(rs[i]) : i \in DOMAIN rs} : t > now})]

RebuildProjections(m, rs) ==
    /\ records' = [records EXCEPT ![m] = rs]
    /\ redFlagUntil' = [redFlagUntil EXCEPT ![m] =
           Later({t \in {rs[i].at + WEEK : i \in {j \in Standing(rs) : rs[j].result = "RED_FLAG"}} :
                     t > now})]
    /\ bannedUntil' = [bannedUntil EXCEPT ![m] =
           Later({t \in {Expiry(rs[i]) : i \in Standing(rs)} : t > now})]

\* An active ban freezes an ACTIVE Wallet, one that does not exist yet
\* included; without one, only a freeze that a ban put on is lifted.
ReconcileWallet(m, rs) ==
    LET banned == ActiveBans(rs, now) # {}
        change(status, by) ==
            /\ walletStatus' = [walletStatus EXCEPT ![m] = status]
            /\ lastChange' = [lastChange EXCEPT ![m] = by]
    IN  CASE banned /\ walletStatus[m] \in {"NONE", "ACTIVE"} -> change("FROZEN", "BAN_FREEZE")
          [] ~banned /\ walletStatus[m] = "FROZEN" /\ lastChange[m] = "BAN_FREEZE" ->
                change("ACTIVE", "BAN_LIFTED")
          [] OTHER -> UNCHANGED <<walletStatus, lastChange>>

\* Mutant: the Wallet is left to the sweep.
ReconcileLater(m, rs, record) == UNCHANGED <<walletStatus, lastChange>>

ReconcileIfBan(m, rs, record) ==
    IF record.result \in Bans THEN ReconcileWallet(m, rs)
                              ELSE UNCHANGED <<walletStatus, lastChange>>

HasRoom(rs) == Len(rs) =< MaxRecords

-----------------------------------------------------------------------------
\* A Member starts with an empty history or with his exemption used.
PenaltyInit ==
    /\ now = 1
    /\ records \in [Members -> {<<>>, <<Record("MISCONDUCT", "REPORT_CASE", EarlierCase, 1, "EXEMPT")>>}]
    /\ bannedUntil = [m \in Members |-> 0]
    /\ redFlagUntil = [m \in Members |-> 0]
    /\ walletStatus = [m \in Members |-> IF m \in HasWallet THEN "ACTIVE" ELSE "NONE"]
    /\ lastChange = [m \in Members |-> "NONE"]

\* A repeated key is answered from the row it left and writes nothing.
KeyIsNew(kind, key) ==
    \A m \in Members : \A i \in DOMAIN records[m] :
        ~(records[m][i].kind = kind /\ records[m][i].key = key)

\* addAdminMemberPenalty, for an Admin who has seen the history as it stands.
AddAdminPenalty(m, key, expectedVersion, result) ==
    LET new == [Record("MISCONDUCT", "ADMIN", key, NextSeq(records[m], "MISCONDUCT"), result)
                   EXCEPT !.key = key, !.kind = "ADD"]
        rs == Append(records[m], new)
    IN  /\ KeyIsNew("ADD", key)
        /\ expectedVersion = Len(records[m])
        /\ HasRoom(rs)
        /\ RebuildProjections(m, rs)
        /\ ReconcileIfBan(m, rs, new)
        /\ UNCHANGED now

\* removeAdminMemberPenalty: any record that still has an effect can go.
RemovePenalty(m, key, expectedVersion, i) ==
    LET reversal == [ReversalOf(records[m], i) EXCEPT !.key = key, !.kind = "REMOVE"]
        rs == Recalculated(Append(records[m], reversal))
    IN  /\ KeyIsNew("REMOVE", key)
        /\ expectedVersion = Len(records[m])
        /\ i \in Standing(records[m])
        /\ records[m][i].result # "EXEMPT"
        /\ HasRoom(rs)
        /\ RebuildProjections(m, rs)
        /\ ReconcileWallet(m, rs)
        /\ UNCHANGED now

\* The result of one more confirmed case or report: the first case of all is
\* exempt, the others are strikes.
ViolationResult(rs, source) ==
    IF source = "REPORT_CASE"
       /\ ~\E i \in Originals(rs) : rs[i].source = "REPORT_CASE" /\ rs[i].recalculates = 0
    THEN "EXEMPT"
    ELSE LadderResult("MISCONDUCT", Cardinality(Automatic(rs, "MISCONDUCT")) + 1)

\* Mutant: whether the source has a record is not looked at.
RecordEachTime(m, source, id) ==
    LET rs == Append(records[m], Record("MISCONDUCT", source, id,
                                        NextSeq(records[m], "MISCONDUCT"), "RED_FLAG"))
    IN  /\ HasRoom(rs)
        /\ RebuildProjections(m, rs)
        /\ UNCHANGED <<now, walletStatus, lastChange>>

\* recordMemberConfirmedViolationInTransaction: a source is recorded once.
RecordViolation(m, source, id) ==
    LET rs == records[m]
        new == Record("MISCONDUCT", source, id, NextSeq(rs, "MISCONDUCT"),
                      ViolationResult(rs, source))
    IN  IF \E i \in Originals(rs) : rs[i].source = source /\ rs[i].id = id
        THEN UNCHANGED penaltyVars
        ELSE /\ HasRoom(Append(rs, new))
             /\ RebuildProjections(m, Append(rs, new))
             /\ ReconcileIfBan(m, Append(rs, new), new)
             /\ UNCHANGED now

\* Mutant: the record that replaced the one of the case is not looked for.
ReverseFirstRecord(m, case) ==
    LET found == {i \in Standing(records[m]) :
                     /\ records[m][i].source = "REPORT_CASE"
                     /\ records[m][i].id = case
                     /\ records[m][i].recalculates = 0}
        rs(i) == Recalculated(Append(records[m], ReversalOf(records[m], i)))
    IN  IF found = {}
        THEN UNCHANGED penaltyVars
        ELSE \E i \in found :
                /\ HasRoom(rs(i))
                /\ RebuildProjections(m, rs(i))
                /\ ReconcileWallet(m, rs(i))
                /\ UNCHANGED now

\* reverseReportCaseViolationInTransaction: nothing to do when an Admin has
\* removed the record of the case already.
ReverseCaseViolation(m, case) ==
    LET found == {i \in Standing(records[m]) :
                     records[m][i].source = "REPORT_CASE" /\ records[m][i].id = case}
        rs(i) == Recalculated(Append(records[m], ReversalOf(records[m], i)))
    IN  IF found = {}
        THEN UNCHANGED penaltyVars
        ELSE \E i \in found :
                /\ HasRoom(rs(i))
                /\ RebuildProjections(m, rs(i))
                /\ ReconcileWallet(m, rs(i))
                /\ UNCHANGED now

\* The end of recordReviewAveragePenaltyInTransaction, once the average has
\* fallen below the floor.
RecordLowAverage(m, review) ==
    LET rs == records[m]
        strikes == Cardinality({i \in Standing(rs) : rs[i].ladder = "REVIEW"})
        new == Record("REVIEW", "REVIEW_AVERAGE", review, NextSeq(rs, "REVIEW"),
                      LadderResult("REVIEW", strikes + 1))
    IN  /\ HasRoom(Append(rs, new))
        /\ RebuildProjections(m, Append(rs, new))
        /\ ReconcileIfBan(m, Append(rs, new), new)
        /\ UNCHANGED now

\* processExpiredMemberBanWalletFreeze: the sweep picks a Member by his
\* projection and looks at it again under the lock.
ProcessExpiredBan(m) ==
    /\ bannedUntil[m] # 0
    /\ bannedUntil[m] =< now
    /\ RebuildProjections(m, records[m])
    /\ ReconcileWallet(m, records[m])
    /\ UNCHANGED now

\* changeWalletStatusAdmin: it asks for version 1 and always finds it, so an
\* Admin's change is never refused as stale.
ChangeWalletStatus(m, status) ==
    /\ walletStatus[m] \notin {"NONE", "CLOSED", status}
    /\ walletStatus' = [walletStatus EXCEPT ![m] = status]
    /\ lastChange' = [lastChange EXCEPT ![m] = "ADMIN"]
    /\ UNCHANGED <<now, records, bannedUntil, redFlagUntil>>

Tick ==
    /\ now < MaxNow
    /\ now' = now + 1
    /\ UNCHANGED <<records, bannedUntil, redFlagUntil, walletStatus, lastChange>>

AdminPenaltyStep ==
    \E m \in Members, key \in AdminKeys, version \in 0..MaxRecords :
        \/ \E result \in AddedByAdmin : AddAdminPenalty(m, key, version, result)
        \/ \E i \in 1..MaxRecords : RemovePenalty(m, key, version, i)

PenaltyStep ==
    \/ AdminPenaltyStep
    \/ \E m \in Members : ProcessExpiredBan(m)
    \/ \E m \in Members, status \in SetByAdmin : ChangeWalletStatus(m, status)
    \/ Tick

-----------------------------------------------------------------------------
\* What readMemberPenaltyRestriction answers.
ReadBan(m) ==
    \/ \E i \in Standing(records[m]) : records[m][i].result = "PERMANENT_BAN"
    \/ bannedUntil[m] > now
ReadRedFlag(m) == redFlagUntil[m] > now

AutomaticallyFrozen(m) == walletStatus[m] = "FROZEN" /\ lastChange[m] = "BAN_FREEZE"

=============================================================================
