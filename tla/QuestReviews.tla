---------------------------- MODULE QuestReviews ----------------------------
(***************************************************************************)
(* Rating Reviews of ended Quests (quest/v2/review) and the Review ladder  *)
(* they drive.                                                             *)
(*                                                                         *)
(* The Hirer of a Quest and each Worker of it may review each other once,  *)
(* within a week of the last write to the Quest row.  A new review looks   *)
(* at the reviewee's average with and without itself; an edit never does.  *)
(* The pair of a Quest stands for any of its pairs: the rules name no more *)
(* than one Worker at a time.                                              *)
(***************************************************************************)
EXTENDS MemberPenalties

CONSTANTS
    AssignedQuests, \* v2 Quests that have been assigned
    HirerOf,      \* the Hirer of each; Members are the ones whose penalties
    WorkerOf,     \* are followed, and each Quest has one of them in a role
    DueAt,        \* [AssignedQuests -> Nat]: when the work is due
    Ratings,      \* the ratings in use, from 1 to 5
    ReviewFloor   \* how many reviews there must be before an average counts

ASSUME ReviewAssumptions ==
    /\ DOMAIN HirerOf = AssignedQuests
    /\ DOMAIN WorkerOf = AssignedQuests
    /\ \A q \in AssignedQuests : HirerOf[q] # WorkerOf[q] /\ Members \cap {HirerOf[q], WorkerOf[q]} # {}
    /\ Ratings \subseteq 1..5
    /\ ReviewFloor \in Nat \ {0}

VARIABLES
    reviewedQuest, \* for each Quest, its status and when its row was last written
    reviews        \* review rows: who wrote the review of which Quest, and the rating

reviewVars == <<reviewedQuest, reviews>>

ReviewRows == [quest : AssignedQuests, reviewer : UNION {{HirerOf[q], WorkerOf[q]} : q \in AssignedQuests},
               rating : Ratings]

Reviewee(q, reviewer) == IF reviewer = HirerOf[q] THEN WorkerOf[q] ELSE HirerOf[q]
Participants(q) == {HirerOf[q], WorkerOf[q]}
Terminal(q) == reviewedQuest[q].status = "TERMINAL"

ReviewInit ==
    /\ reviewedQuest = [q \in AssignedQuests |-> [status |-> "ASSIGNED", updatedAt |-> now]]
    /\ reviews = {}

\* The end of the Quest, as QuestEnding describes it.
QuestEnds(q) ==
    /\ ~Terminal(q)
    /\ reviewedQuest' = [reviewedQuest EXCEPT ![q] = [status |-> "TERMINAL", updatedAt |-> now]]
    /\ UNCHANGED <<reviews, penaltyVars>>

InReviewWindow(q) == Terminal(q) /\ now =< reviewedQuest[q].updatedAt + WEEK

ReviewsOf(m, rows) == {r \in rows : Reviewee(r.quest, r.reviewer) = m}
Total(rows) == FoldSet(LAMBDA r, sum : r.rating + sum, 0, rows)

\* The average was 3 or more without the new review and is less with it.
CrossesDown(m, new, rows) ==
    LET all == ReviewsOf(m, rows)
        before == all \ {new}
    IN  /\ Cardinality(before) >= ReviewFloor - 1
        /\ Total(before) >= 3 * Cardinality(before)
        /\ Cardinality(all) >= ReviewFloor
        /\ Total(all) < 3 * Cardinality(all)

\* createQuestV2Review, with the penalty in the same transaction.
CreateReview(q, reviewer, rating) ==
    LET new == [quest |-> q, reviewer |-> reviewer, rating |-> rating]
        m == Reviewee(q, reviewer)
    IN  /\ m \in Members
        /\ InReviewWindow(q)
        /\ ~\E r \in reviews : r.quest = q /\ r.reviewer = reviewer
        /\ reviews' = reviews \cup {new}
        /\ IF CrossesDown(m, new, reviews')
           THEN RecordLowAverage(m, <<q, reviewer>>)
           ELSE UNCHANGED penaltyVars
        /\ UNCHANGED reviewedQuest

\* updateQuestV2Review: the rating that is shown changes, the ladder does not.
UpdateReview(r, rating) ==
    /\ r \in reviews
    /\ rating # r.rating
    /\ InReviewWindow(r.quest)
    /\ reviews' = (reviews \ {r}) \cup {[r EXCEPT !.rating = rating]}
    /\ UNCHANGED <<reviewedQuest, penaltyVars>>

ReviewStep ==
    \/ \E q \in AssignedQuests : QuestEnds(q)
    \/ \E q \in AssignedQuests : \E reviewer \in Participants(q), rating \in Ratings :
          CreateReview(q, reviewer, rating)
    \/ \E r \in reviews, rating \in Ratings : UpdateReview(r, rating)

=============================================================================
