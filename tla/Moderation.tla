----------------------------- MODULE Moderation -----------------------------
(***************************************************************************)
(* Reports and what an Admin decides on them: message reports and their    *)
(* Report Cases (work-chat/message-report.service.ts), Conduct Reports     *)
(* (quest/v2/conduct-report), the decisions of admin-report.service.ts and *)
(* the Admin Action each of them records (admin/admin-action.service.ts).  *)
(*                                                                         *)
(* A decision locks the report, writes the chat, the Penalty History and   *)
(* the report in one transaction and adds its Admin Action last, so it is  *)
(* one step.  The evidence of a report is in ReportEvidence.               *)
(***************************************************************************)
EXTENDS QuestReviews

CONSTANTS
    Messages,     \* chat messages, each with one attachment
    Author,       \* [Messages -> Members]
    QuestOf,      \* [Messages -> AssignedQuests]: whose Work Chat the message is in
    Cases,        \* ids of Report Cases
    MaxVersion    \* bound: a Report Case is decided at most this often

ASSUME ModerationAssumptions ==
    /\ EarlierCase \notin Cases
    /\ QuestOf \in [Messages -> AssignedQuests]
    /\ \A x \in Messages : Author[x] \in Members \cap Participants(QuestOf[x])

VARIABLES
    message,     \* chat_message: is it hidden, and the state of its attachment
    reportCase,  \* admin_report_case: its message, status and version
    entries,     \* admin_reporter_entry: who reported which message
    conduct,     \* admin_conduct_report, one for a Quest and the Member it names
    pushes,      \* outbox rows of upheld Conduct Reports
    actions      \* admin_action rows of the decisions

moderationVars == <<message, reportCase, entries, conduct, pushes, actions>>

Rulings == {"DISMISSED", "HIDDEN", "RESTORED"}
CaseRows == [message : Messages \union {"NONE"}, status : Rulings \union {"NONE", "PENDING"},
             version : 0..MaxVersion]
EntryRows == Messages \X UNION {Participants(q) : q \in AssignedQuests}
ConductRows == [status : {"NONE", "PENDING", "CONDUCT_DISMISSED", "UPHELD"}, version : 0..2]

ModerationTypeOK ==
    /\ reviews \subseteq ReviewRows
    /\ reportCase \in [Cases -> CaseRows]
    /\ entries \subseteq EntryRows
    /\ conduct \in [AssignedQuests -> [Members -> ConductRows]]
    /\ pushes \subseteq AssignedQuests \X Members

NoCase == [message |-> "NONE", status |-> "NONE", version |-> 0]
NoReport == [status |-> "NONE", version |-> 0]
OpenCase(c) == reportCase[c].status \in {"PENDING", "HIDDEN"}
CaseOpenFor(x) == {c \in Cases : OpenCase(c) /\ reportCase[c].message = x}

ModerationInit ==
    /\ message = [x \in Messages |-> [hidden |-> FALSE, attachment |-> "CONSUMED"]]
    /\ reportCase = [c \in Cases |-> NoCase]
    /\ entries = {}
    /\ conduct = [q \in AssignedQuests |-> [m \in Members |-> NoReport]]
    /\ pushes = {}
    /\ actions = {}

-----------------------------------------------------------------------------
\* submitMessageReport: a Member reports a message he can see, once.  An open
\* case of the message takes the report, otherwise a new case does.
SubmitReport(m, x) ==
    /\ message[x].hidden => m = Author[x]
    /\ <<x, m>> \notin entries
    /\ entries' = entries \cup {<<x, m>>}
    /\ IF CaseOpenFor(x) # {}
       THEN UNCHANGED reportCase
       ELSE \E c \in Cases :
               /\ reportCase[c] = NoCase
               /\ reportCase' = [reportCase EXCEPT ![c] =
                     [message |-> x, status |-> "PENDING", version |-> 1]]
    /\ UNCHANGED <<message, conduct, pushes, actions, reviewVars, penaltyVars>>

\* The window of a Conduct Report: from the assignment to a day after the end.
InConductWindow(q) == Terminal(q) => now =< reviewedQuest[q].updatedAt

\* createQuestV2ConductReport: one per Quest and reported Member.  The Worker
\* may report the Hirer at once, the Hirer a Worker when the work is due (and
\* missing, which is not followed here).
FileConductReport(q, m) ==
    /\ m \in Participants(q) \cap Members
    /\ InConductWindow(q)
    /\ m = WorkerOf[q] => now >= DueAt[q]
    /\ conduct[q][m] = NoReport
    /\ conduct' = [conduct EXCEPT ![q][m] = [status |-> "PENDING", version |-> 1]]
    /\ UNCHANGED <<message, reportCase, entries, pushes, actions, reviewVars, penaltyVars>>

-----------------------------------------------------------------------------
\* runAdminActionInTransaction for a decision: the command names the version
\* it has seen and the row is written with the effects.  The request has a
\* new key; one that repeats a key is answered from the row and changes
\* nothing, so it is no step.
RecordDecision(outcome, resource, seen) ==
    actions' = actions \cup {[action |-> outcome, resource |-> resource, key |-> seen]}

CaseOutcomes(status) ==
    CASE status = "PENDING" -> {"DISMISSED", "HIDDEN"}
      [] status = "HIDDEN"  -> {"DISMISSED", "HIDDEN", "RESTORED"}
      [] OTHER              -> {}

HideMessage(x) == message' = [message EXCEPT ![x] = [hidden |-> TRUE, attachment |-> "HIDDEN"]]
RestoreMessage(x) == message' = [message EXCEPT ![x] = [hidden |-> FALSE, attachment |-> "CONSUMED"]]

\* decideAdminReportCase.
DecideCase(c, outcome, expectedVersion) ==
    LET x == reportCase[c].message
    IN  /\ outcome \in CaseOutcomes(reportCase[c].status)
        /\ expectedVersion = reportCase[c].version
        /\ reportCase[c].version < MaxVersion
        /\ CASE outcome = "HIDDEN"    -> HideMessage(x) /\ RecordViolation(Author[x], "REPORT_CASE", c)
             [] outcome = "RESTORED"  -> RestoreMessage(x) /\ ReverseCaseViolation(Author[x], c)
             [] outcome = "DISMISSED" -> UNCHANGED <<message, penaltyVars>>
        /\ reportCase' = [reportCase EXCEPT ![c].status = outcome, ![c].version = @ + 1]
        /\ RecordDecision(outcome, c, expectedVersion)
        /\ UNCHANGED <<entries, conduct, pushes, reviewVars>>

\* decideAdminConductReport: only a pending report, and the Member is told.
DecideConduct(q, m, outcome, expectedVersion) ==
    /\ expectedVersion = conduct[q][m].version
    /\ conduct[q][m].status = "PENDING"
    /\ IF outcome = "UPHELD"
       THEN RecordViolation(m, "CONDUCT_REPORT", <<q, m>>) /\ pushes' = pushes \cup {<<q, m>>}
       ELSE UNCHANGED <<penaltyVars, pushes>>
    /\ conduct' = [conduct EXCEPT ![q][m] = [status |-> outcome, version |-> @.version + 1]]
    /\ RecordDecision(outcome, <<q, m>>, expectedVersion)
    /\ UNCHANGED <<message, reportCase, entries, reviewVars>>

-----------------------------------------------------------------------------
DecisionStep ==
    \E version \in 1..MaxVersion :
        \/ \E c \in Cases, outcome \in Rulings :
              DecideCase(c, outcome, version)
        \/ \E q \in AssignedQuests, m \in Members, outcome \in {"CONDUCT_DISMISSED", "UPHELD"} :
              DecideConduct(q, m, outcome, version)

ReportStep ==
    \/ \E x \in Messages : \E m \in Participants(QuestOf[x]) : SubmitReport(m, x)
    \/ \E q \in AssignedQuests, m \in Members : FileConductReport(q, m)

CommunityInit == PenaltyInit /\ ReviewInit /\ ModerationInit

CommunityNext ==
    \/ PenaltyStep /\ UNCHANGED <<reviewVars, moderationVars>>
    \/ ReviewStep /\ UNCHANGED moderationVars
    \/ ReportStep
    \/ DecisionStep

communityVars == <<penaltyVars, reviewVars, moderationVars>>
CommunitySpec == CommunityInit /\ [][CommunityNext]_communityVars

\* memberPenaltyScheduler runs the sweep again and again.
Sweeping == \A m \in Members : WF_communityVars(ProcessExpiredBan(m) /\ UNCHANGED <<reviewVars, moderationVars>>)
FairSpec == CommunitySpec /\ Sweeping
-----------------------------------------------------------------------------
\* The strikes that stand on a ladder carry its results in order, whatever
\* was confirmed, reversed, restored or removed in between; and no such order
\* leads a command to a row that the checks and unique indexes of
\* member_penalty_records refuse, which would make it fail for ever.
StrikesFollowLadder ==
    /\ \A m \in Members, ladder \in Ladders :
          \A i \in Automatic(records[m], ladder) :
             records[m][i].result = LadderResult(ladder, StrikeOf(records[m], i))
    /\ \A m \in Members : FitsTable(records[m])
    /\ \A m, n \in Members : \A i \in DOMAIN records[m], j \in DOMAIN records[n] :
          records[m][i].key # 0 /\ <<m, i>> # <<n, j>> =>
              <<records[m][i].kind, records[m][i].key>> # <<records[n][j].kind, records[n][j].key>>

\* What a sign-in reads of a Member agrees with his history at any moment,
\* although the projection is rebuilt only when something happens to him.
BanIsWhatHistorySays ==
    \A m \in Members :
        /\ ReadBan(m) <=> ActiveBans(records[m], now) # {}
        /\ ReadRedFlag(m) <=> \E i \in Standing(records[m]) :
              records[m][i].result = "RED_FLAG" /\ records[m][i].at + WEEK > now

\* A banned Member cannot spend: his Wallet is not ACTIVE, unless it was an
\* Admin, and not a ban, who changed its status last.
BanFreezesWallet ==
    \A m \in Members :
        ActiveBans(records[m], now) # {} =>
            \/ walletStatus[m] \notin {"NONE", "ACTIVE"}
            \/ lastChange[m] = "ADMIN"

\* A decision and its consequence agree: the Member answers for the message
\* as long as the case stands as hidden, and for nothing once it is restored
\* (unless an Admin has taken the record away on its own).  A message has one
\* open case at most.
DecisionMatchesRecord ==
    /\ \A x \in Messages : Cardinality(CaseOpenFor(x)) <= 1
    /\ \A c \in Cases :
        LET rs == records[Author[reportCase[c].message]]
            of == {i \in Originals(rs) : rs[i].source = "REPORT_CASE" /\ rs[i].id = c}
        IN  /\ reportCase[c].status = "HIDDEN" => of # {} /\ message[reportCase[c].message].hidden
            /\ reportCase[c].status = "RESTORED" => of \cap Standing(rs) = {}
            /\ reportCase[c].status = "PENDING" => of = {}

=============================================================================
