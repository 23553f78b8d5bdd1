---------------------------- MODULE MemberFiles ----------------------------
(***************************************************************************)
(* Every flow that puts files into the bucket, side by side on one bucket  *)
(* and one table of file rows.                                             *)
(***************************************************************************)
EXTENDS QuestImages, ProofFiles, ProfileFiles, ChatFiles, TLC

CONSTANT MaxFlowsInUse    \* bound: kinds of upload one behaviour shows

VARIABLE flowsInUse       \* what Members upload in this behaviour

filesVars == <<storeVars, imageVars, proofVars, profileVars, chatFileVars, flowsInUse>>

FilesTypeOK ==
    /\ StoreTypeOK /\ ImageTypeOK /\ ProofTypeOK /\ ProfileTypeOK /\ ChatFilesTypeOK
    /\ flowsInUse \subseteq Flows

Uses(flows) == flowsInUse \intersect flows # {}

FilesInit ==
    /\ StoreInit /\ ImageInit /\ ProofInit /\ ProfileInit /\ ChatFilesInit
    /\ flowsInUse \in {flows \in SUBSET Flows : Cardinality(flows) = MaxFlowsInUse}
    /\ Uses({"IMAGE"}) \/ (\A r, s \in Requests : usedKey[r] = usedKey[s])    \* only image uploads have a key

\* Files, requests and their keys have no order.
Symmetry == Permutations(Objects) \union Permutations(Requests) \union Permutations(Keys)

\* An action of one flow leaves the rows of the others alone.
FilesNext ==
    /\ \/ /\ Uses({"IMAGE"})
          /\ (\E r \in Requests : ImageStep(r)) \/ ImageSweep \/ ImageRemoval
          /\ UNCHANGED <<proofVars, profileVars, chatFileVars>>
       \/ /\ Uses({"PROOF"})
          /\ (\E r \in Requests : ProofStep(r)) \/ ProofFilesStep
          /\ UNCHANGED <<imageVars, profileVars, chatFileVars>>
       \/ /\ Uses({"AVATAR", "CERTIFICATE", "PORTFOLIO"})
          /\ \E r \in Requests : ProfileStep(r)
          /\ UNCHANGED <<imageVars, proofVars, chatFileVars>>
       \/ /\ Uses({"CHAT", "TEAM"})
          /\ (\E r \in Requests : ChatFileStep(r)) \/ ChatFilesStep
          /\ UNCHANGED <<imageVars, proofVars, profileVars>>
       \/ /\ \E r \in Requests : RequestCrashes(r)
          /\ UNCHANGED <<imageVars, proofVars, profileVars, chatFileVars>>
    /\ \A r \in Requests : request'[r].flow \in flowsInUse \union {"NONE"}
    /\ UNCHANGED flowsInUse

FilesSpec == FilesInit /\ [][FilesNext]_filesVars

-----------------------------------------------------------------------------
(* Properties *)

\* What a Proof shows that was uploaded for a Proof and kept.  What it names of
\* another upload lives as long as that flow keeps it, and the row that a refused
\* request left behind has no object: the code ties neither to the Proof.
ProofShown == {o \in proofFile : prefix[o] = "PROOF"} \ refusedFile

\* What a Member is shown a link to: the images of the Quest (a removal that is
\* under way, or failed after it deleted the object, aside), the files of a
\* Proof, the profile's images, attachments that were sent, the Team's files.
Shown ==
    (Range(questImage) \ ({removing} \union removalFailed))
    \union ProofShown \union {avatar, certificate.image} \union Range(portfolio.images)
    \union {o \in Objects : attachment[o] = "CONSUMED"} \union teamFile

\* No handler, compensation or sweep deletes an object that is referred to:
\* concurrent replacements, refused uploads and stale cleanups included, and
\* whatever a Proof names: it never takes a file away from the flow it is of.
ShownHaveObject == Shown \ {NoObject} \subseteq stored

\* No file is lost: what is shown has its object, and a Quest image upload
\* loses sight of an object only after its rejection was stored.
NoFileIsLost == ShownHaveObject /\ LostOnlyAfterRejection
=============================================================================
