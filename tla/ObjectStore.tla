---------------------------- MODULE ObjectStore ----------------------------
(***************************************************************************)
(* Files of Members: objects in the bucket, their rows in table file, and  *)
(* the HTTP requests that upload and delete them.                          *)
(*                                                                         *)
(* The bucket takes part in no transaction.  Every upload therefore writes *)
(* its objects first, refers to them in a transaction, and deletes them    *)
(* again when that transaction refuses; every removal commits first and    *)
(* deletes the object after.  What each flow does in between, and what it  *)
(* leaves behind when a process dies or the bucket fails, is in the modules*)
(* that extend this one: QuestImages, ProofFiles, ProfileFiles, ChatFiles. *)
(***************************************************************************)
EXTENDS Integers, FiniteSets, SequencesExt

CONSTANTS
    Objects,      \* object keys; each upload invents a new one (randomUUID)
    Requests,     \* HTTP requests in progress
    NoObject,
    MaxFaults     \* bound: crashes, failed bucket calls, failed transactions

ASSUME StoreAssumption == IsFiniteSet(Objects) /\ NoObject \notin Objects

Flows == {"IMAGE", "PROOF", "AVATAR", "PORTFOLIO", "CERTIFICATE", "CHAT", "TEAM"}

\* "LIVE": a row without deleted_at; "DELETED": with; "CLEANED": with
\* object_deleted_at too.
FileRows == {"NONE", "LIVE", "DELETED", "CLEANED"}

RequestStates ==
    [flow: Flows \union {"NONE"},
     pc: {"IDLE", "UPLOADING", "PERSISTING", "DISCARDING", "RECORDING", "RELEASING", "CLEANING"},
     planned: SUBSET Objects,      \* still to upload
     uploaded: SUBSET Objects]     \* what the handler knows it has to attach or delete
NoRequest == [flow |-> "NONE", pc |-> "IDLE", planned |-> {}, uploaded |-> {}]

VARIABLES
    stored,      \* the objects in the bucket
    file,        \* file[o]: the row of object o
    prefix,      \* prefix[o]: the flow whose key prefix o has; "NONE": o is not used yet
    request,     \* request[r]: where a handler stands
    faultsLeft

storeVars == <<stored, file, prefix, request, faultsLeft>>

StoreTypeOK ==
    /\ stored \subseteq Objects
    /\ file \in [Objects -> FileRows]
    /\ prefix \in [Objects -> Flows \union {"NONE"}]
    /\ request \in [Requests -> RequestStates]
    /\ faultsLeft \in 0..MaxFaults

StoreInit ==
    /\ stored = {}
    /\ file = [o \in Objects |-> "NONE"]
    /\ prefix = [o \in Objects |-> "NONE"]
    /\ request = [r \in Requests |-> NoRequest]
    /\ faultsLeft = MaxFaults

Stands(r, flow, pc) == request[r].flow = flow /\ request[r].pc = pc
GoTo(r, pc) == request' = [request EXCEPT ![r].pc = pc]
GoesOn(r, pc, planned, uploaded) ==
    request' = [request EXCEPT ![r] =
        [flow |-> request[r].flow, pc |-> pc, planned |-> planned, uploaded |-> uploaded]]
Ends(r) == request' = [request EXCEPT ![r] = NoRequest]

Fault == faultsLeft > 0 /\ faultsLeft' = faultsLeft - 1

\* A handler of a flow begins with n files.
StartUpload(r, flow, n) ==
    /\ request[r] = NoRequest
    /\ \E new \in SUBSET {o \in Objects : prefix[o] = "NONE"} :
          /\ Cardinality(new) = n
          /\ prefix' = [o \in Objects |-> IF o \in new THEN flow ELSE prefix[o]]
          /\ request' = [request EXCEPT ![r] =
                [flow |-> flow, pc |-> "UPLOADING", planned |-> new, uploaded |-> {}]]

\* createObjectStorage, upload: the object is written; or the write fails and
\* what it may have left is deleted; or that deletion fails too, and the error
\* names the object to clean up (cleanupObject).
PutObject(r, o) ==
    /\ o \in request[r].planned
    /\ stored' = stored \union {o}
    /\ GoesOn(r, IF request[r].planned = {o} THEN "PERSISTING" ELSE "UPLOADING",
              request[r].planned \ {o}, request[r].uploaded \union {o})
    /\ UNCHANGED <<file, prefix, faultsLeft>>

\* next is where the flow goes on; keeps: the flow remembers cleanupObject.
PutFails(r, o, next, keeps) ==
    /\ o \in request[r].planned
    /\ Fault
    /\ \E left \in {{}, {o}} :
          /\ stored' = stored \union left
          /\ GoesOn(r, next, request[r].planned \ {o},
                    request[r].uploaded \union (IF keeps THEN left ELSE {}))
    /\ UNCHANGED <<file, prefix>>

\* The objects of failed stay in the bucket, the others of objects are deleted.
DeleteObjects(objects, failed) ==
    /\ failed \subseteq objects
    /\ stored' = stored \ (objects \ failed)
    /\ IF failed = {} THEN UNCHANGED faultsLeft ELSE Fault

\* discardUploadedAvatar and its kin: a deletion that fails is logged, no more.
DiscardUploads(r) ==
    /\ request[r].pc = "DISCARDING"
    /\ \E failed \in SUBSET request[r].uploaded : DeleteObjects(request[r].uploaded, failed)
    /\ Ends(r)
    /\ UNCHANGED <<file, prefix>>

\* The order of the files of a batch is the caller's.
Orders(objects) ==
    {s \in [1..Cardinality(objects) -> objects] : \A i, j \in DOMAIN s : s[i] = s[j] => i = j}

MarkFiles(objects, row) == file' = [o \in Objects |-> IF o \in objects THEN row ELSE file[o]]

\* A process dies anywhere: what it held in memory is gone.
RequestCrashes(r) ==
    /\ request[r] # NoRequest
    /\ Fault
    /\ Ends(r)
    /\ UNCHANGED <<stored, file, prefix>>
=============================================================================
