---------------------------- MODULE QuestImages ----------------------------
(***************************************************************************)
(* The images of a v2 Quest: upload in batches and removal while the Quest *)
(* is a draft, both under an idempotency key, and the worker that cleans   *)
(* up behind them.                                                         *)
(*                                                                         *)
(* An upload commits the keys of the objects it is going to write in its   *)
(* Quest Command before it writes the first (the manifest), so that a      *)
(* sweep can delete them if it never comes back.  The command stays        *)
(* PROCESSING until the images are attached or the upload is given up; an  *)
(* object that cannot be deleted at once becomes a tombstone (a file row   *)
(* with deleted_at), or, if even that fails, is parked on the command.     *)
(* A key that was used already is answered from its row: no step here.     *)
(* The recovery inside checkQuestV2ImageUpload asks for a PROCESSING row   *)
(* without a payload, which no code path leaves behind.                    *)
(***************************************************************************)
EXTENDS ObjectStore

CONSTANTS
    Keys,         \* Idempotency-Keys, one upload request each at a time
    MaxImages     \* maxQuestV2Images

Rejections == {"NOT_DRAFT", "LIMIT_REACHED", "UNAVAILABLE"}

CommandRows ==
    [status: {"NONE", "PROCESSING", "COMPLETED"},
     payload: {"NONE", "UPLOAD", "CLEANUP", "SUCCESS"} \union Rejections,
     objects: SUBSET Objects,     \* of the manifest; the outcome overwrites it
     expired: BOOLEAN]
NoCommand == [status |-> "NONE", payload |-> "NONE", objects |-> {}, expired |-> FALSE]

VARIABLES
    draft,          \* the Quest is QUEST_DRAFT
    questImage,     \* the attached images, by position
    command,        \* command[k]: the Quest Command of key k
    usedKey,        \* usedKey[r]: the key of request r
    removing,       \* the image an open transaction is removing; it locks the Quest
    removalFailed   \* images whose removal deleted the object but did not commit

imageVars == <<draft, questImage, command, usedKey, removing, removalFailed>>

ImageTypeOK ==
    /\ draft \in BOOLEAN
    /\ questImage \in BoundedSeq(Objects, MaxImages)
    /\ command \in [Keys -> CommandRows]
    /\ usedKey \in [Requests -> Keys]
    /\ removing \in Objects \union {NoObject}
    /\ removalFailed \subseteq Objects

ImageInit ==
    /\ draft = TRUE
    /\ questImage = <<>>
    /\ command = [k \in Keys |-> NoCommand]
    /\ usedKey \in [Requests -> Keys]
    /\ removing = NoObject
    /\ removalFailed = {}

Complete(k, payload) ==
    command' = [command EXCEPT ![k] = [@ EXCEPT !.status = "COMPLETED", !.payload = payload]]

\* lockQuestV2ImageOwner waits for a removal that has not committed.
QuestUnlocked == removing = NoObject

-----------------------------------------------------------------------------
(* Upload: attachQuestV2Images *)

\* checkQuestV2ImageUpload, first use of the key: the manifest is committed.
CheckImageUpload(r, n) ==
    LET k == usedKey[r]
    IN  /\ QuestUnlocked /\ draft
        /\ command[k].status = "NONE"
        /\ Len(questImage) + n <= MaxImages
        /\ StartUpload(r, "IMAGE", n)
        /\ command' = [command EXCEPT ![k] =
              [NoCommand EXCEPT !.status = "PROCESSING", !.payload = "UPLOAD",
                                !.objects = request'[r].planned]]
        /\ UNCHANGED <<stored, file, faultsLeft, draft, questImage, usedKey, removing, removalFailed>>

\* A batch that would exceed the limit is a completed, rejected command.
CheckImageLimit(r, n) ==
    /\ QuestUnlocked /\ draft
    /\ request[r] = NoRequest
    /\ command[usedKey[r]].status = "NONE"
    /\ Len(questImage) + n > MaxImages
    /\ Complete(usedKey[r], "LIMIT_REACHED")
    /\ UNCHANGED <<storeVars, draft, questImage, usedKey, removing, removalFailed>>

UploadImage(r, o) ==
    /\ Stands(r, "IMAGE", "UPLOADING")
    /\ PutObject(r, o) \/ PutFails(r, o, "DISCARDING", TRUE)
    /\ UNCHANGED imageVars

AttachImages(r) ==
    /\ draft
    /\ command[usedKey[r]].status = "PROCESSING"
    /\ Len(questImage) + Cardinality(request[r].uploaded) <= MaxImages
    /\ \E batch \in Orders(request[r].uploaded) : questImage' = questImage \o batch
    /\ MarkFiles(request[r].uploaded, "LIVE")
    /\ Complete(usedKey[r], "SUCCESS")
    /\ Ends(r)
    /\ UNCHANGED <<stored, prefix, faultsLeft, draft, usedKey, removing, removalFailed>>

\* The Quest was published or filled while the objects were written: the
\* rejection is stored, and committed, before anything is deleted.
RejectImages(r) ==
    /\ command[usedKey[r]].status = "PROCESSING"
    /\ \/ ~draft /\ Complete(usedKey[r], "NOT_DRAFT")
       \/ /\ draft /\ Len(questImage) + Cardinality(request[r].uploaded) > MaxImages
          /\ Complete(usedKey[r], "LIMIT_REACHED")
    /\ GoTo(r, "DISCARDING")
    /\ UNCHANGED <<stored, file, prefix, faultsLeft, draft, questImage, usedKey, removing, removalFailed>>

\* addQuestV2Images: the transaction attaches, rejects, or fails as a whole.
AddQuestImages(r) ==
    /\ Stands(r, "IMAGE", "PERSISTING")
    /\ QuestUnlocked
    /\ \/ AttachImages(r)
       \/ RejectImages(r)
       \/ /\ Fault
          /\ GoTo(r, "DISCARDING")
          /\ UNCHANGED <<stored, file, prefix, imageVars>>

\* Mutant: what cannot be deleted is only logged.
CompensateAndForget(r) ==
    /\ Stands(r, "IMAGE", "DISCARDING")
    /\ \E failed \in SUBSET request[r].uploaded : DeleteObjects(request[r].uploaded, failed)
    /\ request' = [request EXCEPT ![r] = [@ EXCEPT !.uploaded = {}, !.pc = "RELEASING"]]
    /\ UNCHANGED <<file, prefix, imageVars>>

\* compensateQuestV2ImageUpload: delete what was written ...
CompensateImages(r) ==
    /\ Stands(r, "IMAGE", "DISCARDING")
    /\ \E failed \in SUBSET request[r].uploaded :
          /\ DeleteObjects(request[r].uploaded, failed)
          /\ request' = [request EXCEPT ![r] =
                [@ EXCEPT !.uploaded = failed,
                          !.pc = IF failed = {} THEN "RELEASING" ELSE "RECORDING"]]
    /\ UNCHANGED <<file, prefix, imageVars>>

\* ... leave tombstones for what is left (recordQuestV2ImageCleanupTombstones) ...
RecordTombstones(r) ==
    /\ Stands(r, "IMAGE", "RECORDING")
    /\ MarkFiles({o \in request[r].uploaded : file[o] = "NONE"}, "DELETED")
    /\ GoTo(r, "RELEASING")
    /\ UNCHANGED <<stored, prefix, faultsLeft, imageVars>>

\* ... or park it on the command, if that is still PROCESSING
\* (recordQuestV2ImageCleanupRetry); the request ends with an error either way.
ParkCleanup(r) ==
    LET k == usedKey[r]
    IN  /\ Stands(r, "IMAGE", "RECORDING")
        /\ Fault
        /\ command' = IF command[k].status # "PROCESSING" THEN command
                      ELSE [command EXCEPT ![k] =
                              [@ EXCEPT !.payload = "CLEANUP", !.objects = request[r].uploaded,
                                        !.expired = FALSE]]
        /\ Ends(r)
        /\ UNCHANGED <<stored, file, prefix, draft, questImage, usedKey, removing, removalFailed>>

\* releaseQuestV2ImageUploadReservation
ReleaseReservation(r) ==
    /\ Stands(r, "IMAGE", "RELEASING")
    /\ IF command[usedKey[r]].status = "PROCESSING"
       THEN Complete(usedKey[r], "UNAVAILABLE")
       ELSE UNCHANGED command
    /\ Ends(r)
    /\ UNCHANGED <<stored, file, prefix, faultsLeft, draft, questImage, usedKey, removing, removalFailed>>

-----------------------------------------------------------------------------
(* The sweep of the lifecycle worker *)

\* expires_at passes, a day later: no handler lives that long.
CommandLapses(k) ==
    /\ command[k].status = "PROCESSING" /\ ~command[k].expired
    /\ \A r \in Requests : request[r].flow = "IMAGE" => usedKey[r] # k
    /\ command' = [command EXCEPT ![k].expired = TRUE]
    /\ UNCHANGED <<storeVars, draft, questImage, usedKey, removing, removalFailed>>

\* recoverQuestV2ImageUploadManifests: only when every object is gone is the
\* command completed.
RecoverManifest(k) ==
    /\ command[k].status = "PROCESSING" /\ command[k].payload = "UPLOAD"
    /\ command[k].expired
    /\ \E failed \in SUBSET command[k].objects :
          /\ DeleteObjects(command[k].objects, failed)
          /\ IF failed = {} THEN Complete(k, "UNAVAILABLE") ELSE UNCHANGED command
    /\ UNCHANGED <<file, prefix, request, draft, questImage, usedKey, removing, removalFailed>>

\* retryQuestV2ImageCleanupManifests: tombstones first, then, in a statement of
\* its own that a crash may prevent, the command.
RetryCleanupManifest(k) ==
    /\ command[k].status = "PROCESSING" /\ command[k].payload = "CLEANUP"
    /\ MarkFiles({o \in command[k].objects : file[o] = "NONE"}, "DELETED")
    /\ \/ Complete(k, "UNAVAILABLE") /\ UNCHANGED faultsLeft
       \/ UNCHANGED command /\ Fault
    /\ UNCHANGED <<stored, prefix, request, draft, questImage, usedKey, removing, removalFailed>>

\* cleanupQuestV2ImageObjects works on tombstones of this flow's prefix.
CleanupTombstone(o) ==
    /\ prefix[o] = "IMAGE" /\ file[o] = "DELETED"
    /\ stored' = stored \ {o}
    /\ MarkFiles({o}, "CLEANED")
    /\ UNCHANGED <<prefix, request, faultsLeft, imageVars>>

-----------------------------------------------------------------------------
(* Removal and publishing *)

\* deleteQuestV2ImageInTransaction deletes the object while its transaction is
\* still open; the mark it sets on the file row from another connection cannot
\* see the tombstone yet and has no effect.
RemoveImage(o) ==
    /\ QuestUnlocked /\ draft
    /\ Contains(questImage, o)
    /\ removing' = o
    /\ DeleteObjects({o}, {}) \/ DeleteObjects({o}, {o})
    /\ UNCHANGED <<file, prefix, request, draft, questImage, command, usedKey, removalFailed>>

\* softDeleteQuestImageAndRepack
RemovalCommits ==
    /\ removing # NoObject
    /\ \E i \in DOMAIN questImage :
          questImage[i] = removing /\ questImage' = RemoveAt(questImage, i)
    /\ MarkFiles({removing}, "DELETED")
    /\ removing' = NoObject
    /\ UNCHANGED <<stored, prefix, request, faultsLeft, draft, command, usedKey, removalFailed>>

RemovalFails ==
    /\ removing # NoObject
    /\ Fault
    /\ removalFailed' = IF removing \in stored THEN removalFailed ELSE removalFailed \union {removing}
    /\ removing' = NoObject
    /\ UNCHANGED <<stored, file, prefix, request, draft, questImage, command, usedKey>>

PublishQuest ==
    /\ QuestUnlocked /\ draft
    /\ draft' = FALSE
    /\ UNCHANGED <<storeVars, questImage, command, usedKey, removing, removalFailed>>

-----------------------------------------------------------------------------
ImageStep(r) ==
    \/ \E n \in 1..MaxImages : CheckImageUpload(r, n) \/ CheckImageLimit(r, n)
    \/ \E o \in Objects : UploadImage(r, o)
    \/ AddQuestImages(r) \/ CompensateImages(r) \/ RecordTombstones(r)
    \/ ParkCleanup(r) \/ ReleaseReservation(r)

ImageSweep ==
    \/ \E k \in Keys : CommandLapses(k) \/ RecoverManifest(k) \/ RetryCleanupManifest(k)
    \/ \E o \in Objects : CleanupTombstone(o)

ImageRemoval ==
    \/ \E o \in Objects : RemoveImage(o)
    \/ RemovalCommits \/ RemovalFails \/ PublishQuest

-----------------------------------------------------------------------------
(* Properties *)

\* An object of this flow somebody will still delete, or that is in use: it is
\* attached, its tombstone waits for the sweep, an open command names it, or
\* its upload is under way.
InHand(o) ==
    \/ Contains(questImage, o)
    \/ file[o] = "DELETED"
    \/ \E k \in Keys : command[k].status = "PROCESSING" /\ o \in command[k].objects
    \/ \E r \in Requests : o \in request[r].uploaded

\* What does hold: an object is lost sight of only by an upload whose rejection
\* was stored before its objects were deleted, and never together with an
\* attached image, a tombstone or an upload that is still open.
LostOnlyAfterRejection ==
    \A o \in stored : prefix[o] = "IMAGE" =>
        \/ InHand(o)
        \/ \E k \in Keys : /\ command[k].payload \in {"NOT_DRAFT", "LIMIT_REACHED"}
                           /\ o \in command[k].objects
=============================================================================
