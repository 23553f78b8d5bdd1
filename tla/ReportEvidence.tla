--------------------------- MODULE ReportEvidence ---------------------------
(***************************************************************************)
(* How an Admin reads the chat as evidence of a Conduct Report             *)
(* (admin/admin-report.service.ts).  The report gives a handle for each    *)
(* conversation the filer or the reported Member took part in, the handle  *)
(* opens pages of its messages until a year after the Quest has ended, and *)
(* each page and each file link on it is an Admin Action.  A Report Case   *)
(* of one message shows what was said around it.                           *)
(***************************************************************************)
EXTENDS WorkChat

CONSTANTS
    Filer, Reported,   \* of the one Conduct Report
    RequestKeys,       \* idempotency keys of the Admin's requests
    CaseMessage        \* the message with a Report Case: its conversation and number

ASSUME EvidenceAssumptions ==
    /\ {Filer, Reported} \subseteq ChatMembers
    /\ CaseMessage \in Conversations \X (1..MaxMessages)

VARIABLES
    handle,     \* conversations with an evidence handle
    yearOver,   \* a calendar year has passed since the Quest ended
    access,     \* Admin Actions: pages, and file links, by their keys
    linked      \* every file link an Admin was ever given: request, conversation, message

evidenceVars == <<handle, yearOver, access, linked>>

\* Admin Actions of this kind: a page of a conversation, a file link on it, and
\* the evidence of a case with the links it gives.
PageActions == RequestKeys \X Conversations
FileActions == RequestKeys \X Conversations \X (1..MaxMessages)
CaseActions == {<<key, CaseMessage[1], CaseMessage[2], "CASE">> : key \in RequestKeys}

EvidenceTypeOK ==
    /\ handle \subseteq Conversations
    /\ yearOver \in BOOLEAN
    /\ access \subseteq PageActions \union FileActions \union CaseActions
    /\ linked \subseteq FileActions \union CaseActions

EvidenceInit ==
    /\ handle = {}
    /\ yearOver = FALSE
    /\ access = {}
    /\ linked = {}

\* permittedConductReportConversations: the Work Conversation, and an Inquiry
\* in which the filer or the reported Member is a member.
Permitted(c) ==
    /\ conversation[c] # "NONE"
    /\ c = Work \/ {Filer, Reported} \intersect {Hirer, c} # {}

\* conductReportEvidenceExpiresAt
EvidenceKept == ~yearOver

\* conductReportEvidenceHandlesFor: one for each conversation, made once.
Handles == IF EvidenceKept THEN handle \union {c \in Conversations : Permitted(c)} ELSE handle

\* getAdminReport of a Conduct Report, which is about an Assignment.
ReadReport ==
    /\ assignment[CHOOSE w \in {Filer, Reported} : w \in Workers] # "NONE"
    /\ handle' = Handles
    /\ UNCHANGED <<yearOver, access, linked, chatVars>>

YearPasses ==
    /\ quest.status = "ENDED" /\ ~yearOver
    /\ yearOver' = TRUE
    /\ UNCHANGED <<handle, access, linked, chatVars>>

\* conductReportEvidenceContextFor: what a handle still opens
MayRead(c) == c \in handle /\ Permitted(c) /\ EvidenceKept

\* conductReportEvidencePageInTransaction: hidden messages as well, with the
\* files of Members; no page ends before the last message of the model.
PageOf(c) == 1..Len(messages[c])

FileLinks(c, key) ==
    {<<key, c, i>> : i \in {j \in PageOf(c) : messages[c][j].sender # System}}

\* runAdminActionInTransaction: an action whose key is there is not stored again
RecordAccess(actions) == access \union actions

\* Mutant: the answer to a repeated request records nothing.
ReadPageOnce(c, key) ==
    /\ MayRead(c)
    /\ access' = IF <<key, c>> \in access THEN access
                 ELSE RecordAccess({<<key, c>>} \union FileLinks(c, key))
    /\ linked' = linked \union FileLinks(c, key)
    /\ UNCHANGED <<handle, yearOver, chatVars>>

\* getConductReportEvidencePage: a request that repeats its key reads the page
\* again, with the messages stored since, and records the links on it.
ReadPage(c, key) ==
    /\ MayRead(c)
    /\ access' = RecordAccess({<<key, c>>} \union FileLinks(c, key))
    /\ linked' = linked \union FileLinks(c, key)
    /\ UNCHANGED <<handle, yearOver, chatVars>>

\* evidenceForInTransaction: the message of a case that is open, also when it is
\* hidden, with links to its files; what is around it comes without files.
CaseLinks(key) == {<<key, CaseMessage[1], CaseMessage[2], "CASE">>}
CaseHasMessage == CaseMessage[2] <= Len(messages[CaseMessage[1]])

\* getAdminReportEvidence of a Report Case: one action of the case and its links;
\* a repeated key reads it again.
ReadCaseEvidence(key) ==
    /\ CaseHasMessage
    /\ access' = RecordAccess(CaseLinks(key))
    /\ linked' = linked \union CaseLinks(key)
    /\ UNCHANGED <<handle, yearOver, chatVars>>

EvidenceStep ==
    \/ ReadReport \/ YearPasses
    \/ \E c \in Conversations, key \in RequestKeys : ReadPage(c, key)
    \/ \E key \in RequestKeys : ReadCaseEvidence(key)

EvidenceNext ==
    \/ ChatStep /\ UNCHANGED evidenceVars
    \/ EvidenceStep

EvidenceSpec ==
    ChatInit /\ EvidenceInit /\ [][EvidenceNext]_<<chatVars, evidenceVars>>

-----------------------------------------------------------------------------
\* No file of the chat is given to an Admin without an Admin Action of it,
\* also when his request is a repetition and the page has grown since.
LinksAreRecorded == linked \subseteq access
=============================================================================
