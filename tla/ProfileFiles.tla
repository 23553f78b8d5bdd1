---------------------------- MODULE ProfileFiles ----------------------------
(***************************************************************************)
(* Avatar, certificate image and portfolio images of a Member.             *)
(*                                                                         *)
(* A new image is written first and referred to in a transaction, which    *)
(* names the image it replaces; only then is the old object deleted, and   *)
(* its row marked in a statement of its own.  A deletion that fails is     *)
(* logged and never tried again.  A request may name a version of the row; *)
(* the transaction refuses it when that is stale, so a refusal is possible *)
(* at any time.                                                            *)
(***************************************************************************)
EXTENDS ObjectStore

CONSTANT MaxPortfolioImages

VARIABLES
    avatar,        \* auth_user.image_file_id
    certificate,   \* one certificate: whether it exists, and its image
    portfolio      \* one portfolio item: whether it exists, and its images by position

profileVars == <<avatar, certificate, portfolio>>

ProfileTypeOK ==
    /\ avatar \in Objects \union {NoObject}
    /\ certificate \in [exists: BOOLEAN, image: Objects \union {NoObject}]
    /\ portfolio \in [exists: BOOLEAN, images: BoundedSeq(Objects, MaxPortfolioImages)]

ProfileInit ==
    /\ avatar = NoObject
    /\ certificate = [exists |-> TRUE, image |-> NoObject]
    /\ portfolio = [exists |-> FALSE, images |-> <<>>]

UploadProfileImage(r, o) ==
    /\ request[r].flow \in {"AVATAR", "CERTIFICATE", "PORTFOLIO"}
    /\ request[r].pc = "UPLOADING"
    /\ \/ PutObject(r, o)
       \/ PutFails(r, o, "DISCARDING", FALSE)
    /\ UNCHANGED profileVars

\* A transaction has cut off these objects; the handler deletes them if it can.
CutsOff(r, flow, pc, objects) ==
    request' = [request EXCEPT ![r] =
        [NoRequest EXCEPT !.flow = flow, !.pc = pc, !.uploaded = objects]]

\* The new row is LIVE; the handler goes on to clean up previous, if there is one.
Refers(r, previous) ==
    /\ MarkFiles(request[r].uploaded, "LIVE")
    /\ IF previous = NoObject THEN Ends(r) ELSE CutsOff(r, request[r].flow, "CLEANING", {previous})
    /\ UNCHANGED <<stored, prefix, faultsLeft>>

\* The row the request is about is gone or has another version, or the
\* transaction fails.
RefuseImage(r) ==
    /\ request[r].flow \in {"AVATAR", "CERTIFICATE", "PORTFOLIO"}
    /\ request[r].pc = "PERSISTING"
    /\ GoTo(r, "DISCARDING")
    /\ UNCHANGED <<stored, file, prefix, faultsLeft, profileVars>>

DiscardProfileImages(r) ==
    /\ request[r].flow \in {"AVATAR", "CERTIFICATE", "PORTFOLIO"}
    /\ DiscardUploads(r)
    /\ UNCHANGED profileVars

\* An object that was cut off is deleted, then its row is marked; the rows of
\* kept are not marked, and what may fail is only logged.  getPrevious...File
\* skips a row that was marked meanwhile.
CleanPrevious(r) ==
    LET previous == {o \in request[r].uploaded : file[o] = "LIVE"}
    IN  /\ request[r].flow \in {"AVATAR", "CERTIFICATE", "PORTFOLIO"}
        /\ request[r].pc = "CLEANING"
        /\ \E kept \in SUBSET previous, undeleted \in SUBSET previous :
              /\ undeleted \subseteq kept
              /\ stored' = stored \ (previous \ undeleted)
              /\ MarkFiles(previous \ kept, "DELETED")
              /\ IF kept = {} THEN UNCHANGED faultsLeft ELSE Fault
        /\ Ends(r)
        /\ UNCHANGED <<prefix, profileVars>>

-----------------------------------------------------------------------------
\* replaceStudentAvatar
SetAvatar(r) ==
    /\ Stands(r, "AVATAR", "PERSISTING")
    /\ \E o \in request[r].uploaded : avatar' = o
    /\ Refers(r, avatar)
    /\ UNCHANGED <<certificate, portfolio>>

\* removeStudentAvatar
RemoveAvatar(r) ==
    /\ request[r] = NoRequest
    /\ avatar # NoObject
    /\ MarkFiles({avatar}, "DELETED")
    /\ CutsOff(r, "AVATAR", "DISCARDING", {avatar})
    /\ avatar' = NoObject
    /\ UNCHANGED <<stored, prefix, faultsLeft, certificate, portfolio>>

\* replaceCertificateImage
SetCertificateImage(r) ==
    /\ Stands(r, "CERTIFICATE", "PERSISTING")
    /\ certificate.exists
    /\ \E o \in request[r].uploaded : certificate' = [certificate EXCEPT !.image = o]
    /\ Refers(r, certificate.image)
    /\ UNCHANGED <<avatar, portfolio>>

\* deleteCertificateImage
DeleteCertificateImage(r) ==
    /\ request[r] = NoRequest
    /\ certificate.exists /\ certificate.image # NoObject
    /\ MarkFiles({certificate.image}, "DELETED")
    /\ CutsOff(r, "CERTIFICATE", "DISCARDING", {certificate.image})
    /\ certificate' = [certificate EXCEPT !.image = NoObject]
    /\ UNCHANGED <<stored, prefix, faultsLeft, avatar, portfolio>>

\* deleteCertificate leaves the image's object and row behind.
DeleteCertificate ==
    /\ certificate.exists
    /\ certificate' = [exists |-> FALSE, image |-> NoObject]
    /\ UNCHANGED <<storeVars, avatar, portfolio>>

\* createPortfolio
CreatePortfolio(r) ==
    /\ Stands(r, "PORTFOLIO", "PERSISTING")
    /\ ~portfolio.exists
    /\ \E batch \in Orders(request[r].uploaded) : portfolio' = [exists |-> TRUE, images |-> batch]
    /\ Refers(r, NoObject)
    /\ UNCHANGED <<avatar, certificate>>

\* replacePortfolioImage: the image named, or the first, or none yet.
ReplacePortfolioImage(r) ==
    /\ Stands(r, "PORTFOLIO", "PERSISTING")
    /\ portfolio.exists
    /\ \E o \in request[r].uploaded :
          \/ /\ portfolio.images = <<>>
             /\ portfolio' = [portfolio EXCEPT !.images = <<o>>]
             /\ Refers(r, NoObject)
          \/ \E i \in DOMAIN portfolio.images :
                /\ portfolio' = [portfolio EXCEPT !.images[i] = o]
                /\ Refers(r, portfolio.images[i])
    /\ UNCHANGED <<avatar, certificate>>

\* deletePortfolioImage
DeletePortfolioImage(r) ==
    /\ request[r] = NoRequest
    /\ \E i \in DOMAIN portfolio.images :
          /\ portfolio' = [portfolio EXCEPT !.images = RemoveAt(@, i)]
          /\ MarkFiles({portfolio.images[i]}, "DELETED")
          /\ CutsOff(r, "PORTFOLIO", "DISCARDING", {portfolio.images[i]})
    /\ UNCHANGED <<stored, prefix, faultsLeft, avatar, certificate>>

\* deletePortfolio: the item and its image rows go; the file rows are marked
\* after the objects are deleted.
DeletePortfolio(r) ==
    /\ request[r] = NoRequest
    /\ portfolio.exists
    /\ portfolio' = [exists |-> FALSE, images |-> <<>>]
    /\ CutsOff(r, "PORTFOLIO", "CLEANING", Range(portfolio.images))
    /\ UNCHANGED <<stored, file, prefix, faultsLeft, avatar, certificate>>

ProfileStep(r) ==
    \/ \E flow \in {"AVATAR", "CERTIFICATE", "PORTFOLIO"} :
          StartUpload(r, flow, 1) /\ UNCHANGED <<stored, file, faultsLeft, profileVars>>
    \/ \E o \in Objects : UploadProfileImage(r, o)
    \/ RefuseImage(r) \/ DiscardProfileImages(r) \/ CleanPrevious(r)
    \/ SetAvatar(r) \/ RemoveAvatar(r)
    \/ SetCertificateImage(r) \/ DeleteCertificateImage(r) \/ DeleteCertificate
    \/ CreatePortfolio(r) \/ ReplacePortfolioImage(r)
    \/ DeletePortfolioImage(r) \/ DeletePortfolio(r)
=============================================================================
