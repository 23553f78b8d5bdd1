----------------------------- MODULE ChatFiles ------------------------------
(***************************************************************************)
(* Attachments of a conversation (Work Chat and Candidate Inquiry), and    *)
(* the files a Candidate Team uploads for its submission.                  *)
(*                                                                         *)
(* An attachment is uploaded ahead of its message: VALIDATED until it is   *)
(* sent (CONSUMED) or discarded (EXPIRED).  expires_at is set a day ahead, *)
(* but nothing reads it while the attachment is VALIDATED: it can be sent  *)
(* later than that, and one that is never sent is never cleaned up.        *)
(***************************************************************************)
EXTENDS ObjectStore

VARIABLES
    attachment,     \* attachment[o]: the status of the attachment with object o
    objectDeleted,  \* attachments with object_deleted_at
    readOnly,       \* the conversation takes no more messages
    teamFile        \* files of the Candidate Team

chatFileVars == <<attachment, objectDeleted, readOnly, teamFile>>

ChatFilesTypeOK ==
    /\ attachment \in [Objects -> {"NONE", "VALIDATED", "CONSUMED", "EXPIRED"}]
    /\ objectDeleted \subseteq Objects
    /\ readOnly \in BOOLEAN
    /\ teamFile \subseteq Objects

ChatFilesInit ==
    /\ attachment = [o \in Objects |-> "NONE"]
    /\ objectDeleted = {}
    /\ readOnly = FALSE
    /\ teamFile = {}

\* The upload looks at the conversation before it writes ...
BeginAttachment(r) ==
    /\ ~readOnly
    /\ StartUpload(r, "CHAT", 1)
    /\ UNCHANGED <<stored, file, faultsLeft, chatFileVars>>

UploadChatFile(r, o) ==
    /\ request[r].flow \in {"CHAT", "TEAM"} /\ request[r].pc = "UPLOADING"
    /\ \/ PutObject(r, o)
       \/ PutFails(r, o, "DISCARDING", request[r].flow = "TEAM")
    /\ UNCHANGED chatFileVars

\* ... and again, locked, before it stores the row (uploadWorkConversationAttachment,
\* uploadCandidateInquiryAttachment).
StoreAttachment(r) ==
    /\ Stands(r, "CHAT", "PERSISTING")
    /\ ~readOnly
    /\ attachment' = [o \in Objects |-> IF o \in request[r].uploaded THEN "VALIDATED" ELSE attachment[o]]
    /\ MarkFiles(request[r].uploaded, "LIVE")
    /\ Ends(r)
    /\ UNCHANGED <<stored, prefix, faultsLeft, objectDeleted, readOnly, teamFile>>

\* Read-only by now, over the rate limit, no longer a member, or no team that is
\* forming; or the transaction fails.
RefuseChatFile(r) ==
    /\ request[r].flow \in {"CHAT", "TEAM"} /\ request[r].pc = "PERSISTING"
    /\ GoTo(r, "DISCARDING")
    /\ UNCHANGED <<stored, file, prefix, faultsLeft, chatFileVars>>

DiscardChatFile(r) ==
    /\ request[r].flow \in {"CHAT", "TEAM"}
    /\ DiscardUploads(r)
    /\ UNCHANGED chatFileVars

\* sendWorkConversationMessage, sendCandidateInquiryMessage
SendAttachment(o) ==
    /\ ~readOnly
    /\ attachment[o] = "VALIDATED"
    /\ attachment' = [attachment EXCEPT ![o] = "CONSUMED"]
    /\ UNCHANGED <<storeVars, objectDeleted, readOnly, teamFile>>

\* Mutant: a message that took the attachment meanwhile is not looked for.
ExpireAny(r, o) ==
    /\ request[r] = NoRequest
    /\ ~readOnly
    /\ attachment[o] \in {"VALIDATED", "CONSUMED"}
    /\ MarkFiles({o}, "DELETED")
    /\ request' = [request EXCEPT ![r] =
          [NoRequest EXCEPT !.flow = "CHAT", !.pc = "CLEANING", !.uploaded = {o}]]
    /\ UNCHANGED <<stored, prefix, faultsLeft, chatFileVars>>

\* discardWorkConversationAttachment, discardCandidateInquiryAttachment
ExpireAttachment(r, o) ==
    /\ request[r] = NoRequest
    /\ ~readOnly
    /\ attachment[o] = "VALIDATED"
    /\ attachment' = [attachment EXCEPT ![o] = "EXPIRED"]
    /\ MarkFiles({o}, "DELETED")
    /\ request' = [request EXCEPT ![r] =
          [NoRequest EXCEPT !.flow = "CHAT", !.pc = "CLEANING", !.uploaded = {o}]]
    /\ UNCHANGED <<stored, prefix, faultsLeft, objectDeleted, readOnly, teamFile>>

\* deleteWorkChatAttachmentObject: the object, then the mark if still EXPIRED.
DeleteAttachmentObject(o) ==
    \/ /\ stored' = stored \ {o}
       /\ objectDeleted' = IF attachment[o] = "EXPIRED" THEN objectDeleted \union {o} ELSE objectDeleted
       /\ UNCHANGED faultsLeft
    \/ /\ stored' \in {stored, stored \ {o}}
       /\ Fault
       /\ UNCHANGED objectDeleted

DeleteExpired(r) ==
    /\ Stands(r, "CHAT", "CLEANING")
    /\ \E o \in request[r].uploaded : DeleteAttachmentObject(o)
    /\ Ends(r)
    /\ UNCHANGED <<file, prefix, attachment, readOnly, teamFile>>

\* cleanupExpiredWorkChatAttachments
SweepAttachment(o) ==
    /\ attachment[o] = "EXPIRED" /\ o \notin objectDeleted
    /\ DeleteAttachmentObject(o)
    /\ UNCHANGED <<file, prefix, request, attachment, readOnly, teamFile>>

CloseConversation ==
    /\ ~readOnly
    /\ readOnly' = TRUE
    /\ UNCHANGED <<storeVars, attachment, objectDeleted, teamFile>>

\* uploadQuestV2CandidateTeamFile
StoreTeamFile(r) ==
    /\ Stands(r, "TEAM", "PERSISTING")
    /\ MarkFiles(request[r].uploaded, "LIVE")
    /\ teamFile' = teamFile \union request[r].uploaded
    /\ Ends(r)
    /\ UNCHANGED <<stored, prefix, faultsLeft, attachment, objectDeleted, readOnly>>

ChatFileStep(r) ==
    \/ BeginAttachment(r)
    \/ StartUpload(r, "TEAM", 1) /\ UNCHANGED <<stored, file, faultsLeft, chatFileVars>>
    \/ \E o \in Objects : UploadChatFile(r, o) \/ ExpireAttachment(r, o)
    \/ StoreAttachment(r) \/ StoreTeamFile(r) \/ RefuseChatFile(r) \/ DiscardChatFile(r)
    \/ DeleteExpired(r)

ChatFilesStep ==
    \/ \E o \in Objects : SendAttachment(o) \/ SweepAttachment(o)
    \/ CloseConversation
=============================================================================
