----------------------------- MODULE ProofFiles -----------------------------
(***************************************************************************)
(* The files of a v2 Proof draft.                                          *)
(*                                                                         *)
(* The files of a request are written one after the other; one that fails  *)
(* does not stop the others, it becomes a failed position of the draft.    *)
(* Nothing is recorded before the objects are written.  If the draft       *)
(* refuses the files they are deleted, and what cannot be deleted is named *)
(* by an open Quest Command that the sweep works through.  File rows are   *)
(* not deleted with a draft: a Worker may refer to them again, and to any  *)
(* other file of theirs that is not deleted, whatever it was uploaded for. *)
(***************************************************************************)
EXTENDS ObjectStore

CONSTANT MaxProofFiles

VARIABLES
    proof,          \* the submission of one owner: "NONE", "DRAFT" or "SENT"
    proofFile,      \* its ready files
    proofFailed,    \* how many failed positions it has
    proofCleanup,   \* the object sets named by open cleanup commands
    refusedFile     \* history: objects whose rows a refused request committed

proofVars == <<proof, proofFile, proofFailed, proofCleanup, refusedFile>>

ProofTypeOK ==
    /\ proof \in {"NONE", "DRAFT", "SENT"}
    /\ proofFile \subseteq Objects
    /\ proofFailed \in 0..MaxProofFiles
    /\ proofCleanup \subseteq SUBSET Objects
    /\ refusedFile \subseteq Objects

ProofInit ==
    /\ proof = "NONE"
    /\ proofFile = {}
    /\ proofFailed = 0
    /\ proofCleanup = {}
    /\ refusedFile = {}

\* uploadFiles; the object a failed write may have left behind is not kept.
UploadProofFile(r, o) ==
    /\ Stands(r, "PROOF", "UPLOADING")
    /\ \/ PutObject(r, o)
       \/ PutFails(r, o, IF request[r].planned = {o} THEN "PERSISTING" ELSE "UPLOADING", FALSE)
    /\ UNCHANGED proofVars

\* validateFileIds: any file row of the Member that is not deleted.
LiveFiles == {o \in Objects : file[o] = "LIVE"}

\* prepareFileIds: what one request may bring, named are the files that it
\* gives by their ids.
RequestFits(r, named, failed) ==
    /\ named \subseteq LiveFiles
    /\ Cardinality(named) + Cardinality(request[r].uploaded) + failed <= MaxProofFiles

\* mergeEditAttachments for a request that names no files: those of the draft
\* stay, and what the request brings takes the positions that failed before.
Merged(r, failed) ==
    LET brought == Cardinality(request[r].uploaded) + failed IN
    [ready |-> proofFile \union request[r].uploaded,
     failed |-> failed + (IF brought < proofFailed THEN proofFailed - brought ELSE 0)]

\* persistStoredFiles and replaceAttachments
ReplaceAttachments(r, attachments) ==
    /\ Cardinality(attachments.ready) + attachments.failed <= MaxProofFiles
    /\ proofFile' = attachments.ready
    /\ proofFailed' = attachments.failed
    /\ MarkFiles(request[r].uploaded, "LIVE")

\* One disjunct per endpoint.  A new draft takes uploaded files or named ones
\* (NameFiles), never both: their positions would collide.  An edit that names
\* files replaces the list; one that does not keeps it, if none of it is deleted.
SaveDraft(r, failed) ==
    /\ \/ /\ proof = "NONE" /\ RequestFits(r, {}, failed)
          /\ ReplaceAttachments(r, [ready |-> request[r].uploaded, failed |-> failed])
       \/ /\ proof = "DRAFT"
          /\ \E named \in SUBSET LiveFiles :
                /\ RequestFits(r, named, failed)
                /\ ReplaceAttachments(r, [ready |-> named \union request[r].uploaded, failed |-> failed])
       \/ /\ proof = "DRAFT" /\ RequestFits(r, {}, failed) /\ proofFile \subseteq LiveFiles
          /\ ReplaceAttachments(r, Merged(r, failed))
    /\ proof' = "DRAFT"
    /\ Ends(r)
    /\ UNCHANGED <<stored, prefix, faultsLeft, proofCleanup, refusedFile>>

\* A create or an edit without uploads: the files it names, or none.
NameFiles(named) ==
    /\ proof \in {"NONE", "DRAFT"}
    /\ named \subseteq LiveFiles /\ Cardinality(named) <= MaxProofFiles
    /\ proof' = "DRAFT"
    /\ proofFile' = named
    /\ proofFailed' = 0
    /\ UNCHANGED <<storeVars, proofCleanup, refusedFile>>

\* createQuestV2ProofSubmission and editQuestV2ProofSubmission refuse a draft
\* that exists, is missing or is sent, and a selection of files that is not
\* valid; they may have stored the file rows by then, and commit them.
RefuseDraft(r) ==
    /\ \/ /\ MarkFiles(request[r].uploaded, "LIVE")
          /\ refusedFile' = refusedFile \union request[r].uploaded
       \/ UNCHANGED <<file, refusedFile>>
    /\ GoTo(r, "DISCARDING")
    /\ UNCHANGED <<stored, prefix, proof, proofFile, proofFailed, proofCleanup>>

PersistDraft(r) ==
    /\ Stands(r, "PROOF", "PERSISTING")
    /\ \/ \E failed \in 0..MaxProofFiles : SaveDraft(r, failed)
       \/ RefuseDraft(r) /\ UNCHANGED faultsLeft

\* cleanupUploadedFiles
DiscardProofFiles(r) ==
    /\ Stands(r, "PROOF", "DISCARDING")
    /\ \E failed \in SUBSET request[r].uploaded :
          /\ DeleteObjects(request[r].uploaded, failed)
          /\ proofCleanup' = IF failed = {} THEN proofCleanup ELSE proofCleanup \union {failed}
    /\ Ends(r)
    /\ UNCHANGED <<file, prefix, proof, proofFile, proofFailed, refusedFile>>

\* retryQuestV2ProofUploadCleanup
RetryProofCleanup(objects) ==
    /\ objects \in proofCleanup
    /\ \E failed \in SUBSET objects :
          /\ DeleteObjects(objects, failed)
          /\ proofCleanup' = IF failed = {} THEN proofCleanup \ {objects} ELSE proofCleanup
    /\ UNCHANGED <<file, prefix, request, proof, proofFile, proofFailed, refusedFile>>

\* submitQuestV2ProofSubmission: at least one ready file and no failed one.
SubmitProof ==
    /\ proof = "DRAFT" /\ proofFile # {} /\ proofFailed = 0
    /\ proof' = "SENT"
    /\ UNCHANGED <<storeVars, proofFile, proofFailed, proofCleanup, refusedFile>>

\* deleteQuestV2ProofSubmission
DeleteProof ==
    /\ proof = "DRAFT"
    /\ proof' = "NONE"
    /\ proofFile' = {}
    /\ proofFailed' = 0
    /\ UNCHANGED <<storeVars, proofCleanup, refusedFile>>

ProofStep(r) ==
    \/ \E n \in 1..MaxProofFiles : StartUpload(r, "PROOF", n)
                                   /\ UNCHANGED <<stored, file, faultsLeft, proofVars>>
    \/ \E o \in Objects : UploadProofFile(r, o)
    \/ PersistDraft(r) \/ DiscardProofFiles(r)

ProofFilesStep ==
    \/ SubmitProof \/ DeleteProof
    \/ \E objects \in SUBSET Objects : NameFiles(objects) \/ RetryProofCleanup(objects)
=============================================================================
