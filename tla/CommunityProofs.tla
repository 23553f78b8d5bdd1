--------------------------- MODULE CommunityProofs ---------------------------
(***************************************************************************)
(* What Members are told, what they answer for and what they keep here,    *)
(* proved: the sweep reports and announces once, a push alert is shown     *)
(* again only for a cause, the chat of a Quest follows its roster, a       *)
(* Penalty History keeps its ladder, its projection, the Wallet and the    *)
(* decisions of its Report Cases in step, and nobody deletes a file that   *)
(* is shown.                                                               *)
(***************************************************************************)
EXTENDS QuestSweep, PushDeliveries, ReportEvidence, Moderation, MemberFiles,
        SequenceTheorems, FiniteSetTheorems, TLAPS

-----------------------------------------------------------------------------
(* The sweep: DoneOnce, for any number of processes, Quests and crashes *)

\* What was reported is what the rows of the Quests say: the mark and the report
\* are of one transaction.
ReportsInv ==
    /\ reports \in [release: [Quests -> Nat], notice: [Quests -> Nat]]
    /\ \A q \in Quests :
          /\ reports.release[q] = IF q \in released THEN 1 ELSE 0
          /\ reports.notice[q] = IF q \in notified THEN 1 ELSE 0

\* One report more, of a Quest that had none.
LEMMA ReportOnce ==
    ASSUME ReportsInv, NEW q \in Quests
    PROVE  /\ /\ reports' = [reports EXCEPT !.release[q] = @ + 1]
              /\ q \notin released /\ released' = released \union {q} /\ notified' = notified
              => ReportsInv'
           /\ /\ reports' = [reports EXCEPT !.notice[q] = @ + 1]
              /\ q \notin notified /\ notified' = notified \union {q} /\ released' = released
              => ReportsInv'
<1> DEFINE more(f) == [f EXCEPT ![q] = f[q] + 1]
<1>1. \A f \in [Quests -> Nat] :
          /\ more(f) \in [Quests -> Nat] /\ more(f)[q] = f[q] + 1
          /\ \A p \in Quests \ {q} : more(f)[p] = f[p]
  OBVIOUS
<1>2. reports.release \in [Quests -> Nat] /\ reports.notice \in [Quests -> Nat]
  BY DEF ReportsInv
<1>3. ASSUME reports' = [reports EXCEPT !.release[q] = @ + 1], q \notin released,
             released' = released \union {q}, notified' = notified
      PROVE  ReportsInv'
  <2>1. reports' = [reports EXCEPT !.release = more(reports.release)]
    BY <1>3
  <2> HIDE DEF more
  <2>2. reports'.release = more(reports.release) /\ reports'.notice = reports.notice
        /\ reports' \in [release: [Quests -> Nat], notice: [Quests -> Nat]]
    BY <1>1, <1>2, <2>1 DEF ReportsInv
  <2>3. \A p \in Quests : reports'.release[p] = IF p \in released' THEN 1 ELSE 0
    BY <1>1, <1>2, <1>3, <2>2 DEF ReportsInv
  <2>4. \A p \in Quests : reports'.notice[p] = IF p \in notified' THEN 1 ELSE 0
    BY <1>3, <2>2 DEF ReportsInv
  <2> QED
    BY <2>2, <2>3, <2>4 DEF ReportsInv
<1>4. ASSUME reports' = [reports EXCEPT !.notice[q] = @ + 1], q \notin notified,
             notified' = notified \union {q}, released' = released
      PROVE  ReportsInv'
  <2>1. reports' = [reports EXCEPT !.notice = more(reports.notice)]
    BY <1>4
  <2> HIDE DEF more
  <2>2. reports'.notice = more(reports.notice) /\ reports'.release = reports.release
        /\ reports' \in [release: [Quests -> Nat], notice: [Quests -> Nat]]
    BY <1>1, <1>2, <2>1 DEF ReportsInv
  <2>3. \A p \in Quests : reports'.notice[p] = IF p \in notified' THEN 1 ELSE 0
    BY <1>1, <1>2, <1>4, <2>2 DEF ReportsInv
  <2>4. \A p \in Quests : reports'.release[p] = IF p \in released' THEN 1 ELSE 0
    BY <1>4, <2>2 DEF ReportsInv
  <2> QED
    BY <2>2, <2>3, <2>4 DEF ReportsInv
<1> QED
  BY <1>3, <1>4

\* However many processes sweep, wherever they crash and however old their lists
\* are, nothing is released or announced a second time.
THEOREM DoneOnceSafe == Spec => []DoneOnce
<1>1. Init => ReportsInv
  BY DEF Init, ReportsInv
<1>2. ReportsInv /\ [Next]_vars => ReportsInv'
  <2> SUFFICES ASSUME ReportsInv, [Next]_vars PROVE ReportsInv'
    OBVIOUS
  <2>1. CASE UNCHANGED <<released, notified, reports>>
    BY <2>1 DEF ReportsInv
  <2>2. ASSUME NEW p \in Processes, NEW q \in Quests, ReleasesHold(p, q)
        PROVE  ReportsInv'
    BY <2>1, <2>2, ReportOnce DEF ReleasesHold
  <2>3. ASSUME NEW p \in Processes, NEW q \in Quests, ClosesWindow(p, q)
        PROVE  ReportsInv'
    BY <2>1, <2>3, ReportOnce DEF ClosesWindow
  <2>4. ASSUME MemberSteps PROVE ReportsInv'
    BY <2>1, <2>4 DEF MemberSteps, SendsProof, HirerApproves, HirerRefuses,
       AwardsPendingProof, sweepVars
  <2>5. ASSUME NEW p \in Processes, NEW q \in Quests,
               ApprovesProof(p, q) \/ ApprovalThrows(p, q) \/ FailsQuest(p, q)
        PROVE  ReportsInv'
    BY <2>1, <2>5 DEF ApprovesProof, ApprovalThrows, FailsQuest
  <2>6. ASSUME NEW p \in Processes, StartSweep(p) \/ NextPhase(p) \/ Crashes(p)
        PROVE  ReportsInv'
    BY <2>1, <2>6 DEF StartSweep, NextPhase, Crashes
  <2>7. ASSUME NEW q \in Quests, PassesDueTime(q) \/ ReviewFallsDue(q) \/ HoldAges(q)
        PROVE  ReportsInv'
    BY <2>1, <2>7 DEF PassesDueTime, ReviewFallsDue, HoldAges, sweepVars
  <2> QED
    BY <2>1, <2>2, <2>3, <2>4, <2>5, <2>6, <2>7 DEF Next, Works, vars
<1>3. ReportsInv => DoneOnce
  BY DEF ReportsInv, DoneOnce
<1> QED
  BY <1>1, <1>2, <1>3, PTL DEF Spec

-----------------------------------------------------------------------------
(* Push alerts: RepeatedOnlyForCause, for any number of senders, devices    *)
(* and alerts                                                               *)

\* What a claim may still do without a cause: show the alert, which may be
\* followed by another attempt when a token could not be read, or put the alert
\* back into the outbox.
UnsentClaim(c) == c.step \in {"CHECK", "SEND"}
BlindClaim(c) == c.step = "SEND" /\ c.unreadable
LiveClaim(c) ==
    \/ UnsentClaim(c)
    \/ c.step \in {"DISABLE_DEVICES", "RECORD"} /\ c.result = "PENDING"

Unsent(n) == {p \in Holders(n) : UnsentClaim(sending[p].claim[n])}
Blind(n) == {p \in Holders(n) : BlindClaim(sending[p].claim[n])}
Live(n) == {p \in Holders(n) : LiveClaim(sending[p].claim[n])}

\* The alert can be claimed without anything having gone wrong first: it is new
\* or due, or waits for an attempt and nobody holds it.
Loose(n) ==
    \/ alert[n].status = "NONE"
    \/ alert[n].status = "PENDING" /\ (alert[n].next # "WAITING" \/ Holders(n) = {})

Chance(n) == IF Loose(n) THEN 1 ELSE 0

ClaimsOf == UNION {[S -> Claims] : S \in SUBSET Alerts}

\* The rows of the outbox and what each process holds.
OutboxOK ==
    /\ alert \in [Alerts ->
           [status: {"NONE"} \union Statuses,
            attempts: 0 .. MaxAttempts, next: {"UNSET", "WAITING", "DUE"}]]
    /\ \A n \in Alerts : /\ alert[n].next = "WAITING" => alert[n].status = "PENDING"
                         /\ alert[n].status = "NONE" => alert[n].attempts = 0
    /\ sending \in [Senders -> [phase: {"IDLE", "EXPIRE", "CLAIM", "DELIVER"}, claim: ClaimsOf]]
    /\ \A p \in Senders : sending[p].phase # "DELIVER" => DOMAIN sending[p].claim = {}
    /\ shown \in [Alerts -> [Devices -> Nat]]
    /\ causes \in [Alerts -> 0 .. MaxAttempts - 1]

\* The account of an alert: an attempt for each time it was shown or may still
\* be, and a cause for each time but one that it was shown or still can be
\* without another cause.
Account(n) ==
    /\ IsFiniteSet(Live(n))
    /\ \A d \in Devices :
          /\ shown[n][d] + Cardinality(Unsent(n)) <= alert[n].attempts
          /\ \/ causes[n] = MaxAttempts - 1
             \/ shown[n][d] + Cardinality(Live(n)) + Cardinality(Blind(n)) + Chance(n)
                  <= 1 + causes[n]

PushInv == OutboxOK /\ \A n \in Alerts : Account(n)

\* A set that differs from another in one element at most.
LEMMA CountChange ==
    ASSUME NEW S, NEW T, NEW p, IsFiniteSet(S), T \subseteq S \union {p}, S \subseteq T \union {p}
    PROVE  /\ IsFiniteSet(T)
           /\ Cardinality(S) \in Nat /\ Cardinality(T) \in Nat
           /\ Cardinality(T) + (IF p \in S THEN 1 ELSE 0)
                = Cardinality(S) + (IF p \in T THEN 1 ELSE 0)
<1>1. /\ IsFiniteSet(S \union {p})
      /\ Cardinality(S \union {p}) = IF p \in S THEN Cardinality(S) ELSE Cardinality(S) + 1
  BY FS_AddElement
<1>2. IsFiniteSet(T)
  BY <1>1, FS_Subset
<1>3. Cardinality(T \union {p}) = IF p \in T THEN Cardinality(T) ELSE Cardinality(T) + 1
  BY <1>2, FS_AddElement
<1>4. S \union {p} = T \union {p}
  OBVIOUS
<1>5. Cardinality(S) \in Nat /\ Cardinality(T) \in Nat
  BY <1>2, FS_CardinalityType
<1> QED
  BY <1>1, <1>2, <1>3, <1>4, <1>5

\* What a set of claims is.
LEMMA ClaimsOfFacts ==
    ASSUME NEW f
    PROVE  f \in ClaimsOf <=> /\ f = [k \in DOMAIN f |-> f[k]]
                              /\ DOMAIN f \subseteq Alerts
                              /\ \A k \in DOMAIN f : f[k] \in Claims
<1>1. ASSUME f \in ClaimsOf
      PROVE  f = [k \in DOMAIN f |-> f[k]] /\ DOMAIN f \subseteq Alerts
             /\ \A k \in DOMAIN f : f[k] \in Claims
  <2>1. PICK S \in SUBSET Alerts : f \in [S -> Claims]
    BY <1>1 DEF ClaimsOf
  <2> QED
    BY <2>1
<1>2. ASSUME f = [k \in DOMAIN f |-> f[k]], DOMAIN f \subseteq Alerts,
             \A k \in DOMAIN f : f[k] \in Claims
      PROVE  f \in ClaimsOf
  <2>1. f \in [DOMAIN f -> Claims]
    BY <1>2
  <2> QED
    BY <1>2, <2>1 DEF ClaimsOf
<1> QED
  BY <1>1, <1>2

\* The numbers of an account.
LEMMA Numbers ==
    ASSUME OutboxOK, NEW n \in Alerts, IsFiniteSet(Live(n))
    PROVE  /\ IsFiniteSet(Unsent(n)) /\ IsFiniteSet(Blind(n))
           /\ Cardinality(Live(n)) \in Nat /\ Cardinality(Unsent(n)) \in Nat
           /\ Cardinality(Blind(n)) \in Nat
<1>1. Unsent(n) \subseteq Live(n) /\ Blind(n) \subseteq Live(n)
  BY DEF Unsent, Blind, Live, LiveClaim, BlindClaim, UnsentClaim
<1>2. IsFiniteSet(Unsent(n)) /\ IsFiniteSet(Blind(n))
  BY <1>1, FS_Subset
<1> QED
  BY <1>2, FS_CardinalityType

\* What an account says of one device.
LEMMA AccountNumbers ==
    ASSUME OutboxOK, NEW n \in Alerts, Account(n), NEW d \in Devices
    PROVE  /\ shown[n][d] \in Nat /\ causes[n] \in Nat
           /\ alert[n].attempts \in Nat /\ alert[n].attempts <= MaxAttempts
           /\ Chance(n) \in {0, 1}
           /\ shown[n][d] + Cardinality(Unsent(n)) <= alert[n].attempts
           /\ \/ causes[n] = MaxAttempts - 1
              \/ shown[n][d] + Cardinality(Live(n)) + Cardinality(Blind(n)) + Chance(n)
                   <= 1 + causes[n]
<1>1. shown[n][d] \in Nat
  BY DEF OutboxOK
<1>2. causes[n] \in Nat /\ alert[n].attempts \in Nat /\ alert[n].attempts <= MaxAttempts
  BY PushAssumption DEF OutboxOK
<1>3. Chance(n) \in {0, 1}
  BY DEF Chance
<1> QED
  BY <1>1, <1>2, <1>3 DEF Account

\* Nothing changes in who holds an alert, and how.
SameHold(n, q) ==
    /\ n \in DOMAIN sending'[q].claim <=> n \in DOMAIN sending[q].claim
    /\ n \in DOMAIN sending[q].claim => sending'[q].claim[n] = sending[q].claim[n]

\* Then it has the same holders, and counts for as much.
LEMMA SameClaims ==
    ASSUME NEW n, \A q \in Senders : SameHold(n, q)
    PROVE  /\ Holders(n)' = Holders(n) /\ Unsent(n)' = Unsent(n)
           /\ Blind(n)' = Blind(n) /\ Live(n)' = Live(n)
<1>1. Holders(n)' = Holders(n)
  BY DEF Holders, SameHold
<1> QED
  BY <1>1 DEF SameHold, Holders, Unsent, Blind, Live, UnsentClaim, BlindClaim, LiveClaim

\* One process changes how it holds an alert.
LEMMA OneClaim ==
    ASSUME OutboxOK, NEW n \in Alerts, NEW p \in Senders, IsFiniteSet(Live(n)),
           \A q \in Senders \ {p} : SameHold(n, q)
    PROVE  /\ IsFiniteSet(Live(n)')
           /\ Cardinality(Live(n)) \in Nat /\ Cardinality(Live(n)') \in Nat
           /\ Cardinality(Unsent(n)) \in Nat /\ Cardinality(Unsent(n)') \in Nat
           /\ Cardinality(Blind(n)) \in Nat /\ Cardinality(Blind(n)') \in Nat
           /\ Cardinality(Live(n)') + (IF p \in Live(n) THEN 1 ELSE 0)
                = Cardinality(Live(n)) + (IF p \in Live(n)' THEN 1 ELSE 0)
           /\ Cardinality(Unsent(n)') + (IF p \in Unsent(n) THEN 1 ELSE 0)
                = Cardinality(Unsent(n)) + (IF p \in Unsent(n)' THEN 1 ELSE 0)
           /\ Cardinality(Blind(n)') + (IF p \in Blind(n) THEN 1 ELSE 0)
                = Cardinality(Blind(n)) + (IF p \in Blind(n)' THEN 1 ELSE 0)
           /\ Holders(n)' \ {p} = Holders(n) \ {p}
<1>1. Holders(n)' \ {p} = Holders(n) \ {p}
  BY DEF Holders, SameHold
<1>2. \A q \in Holders(n) \ {p} : sending'[q].claim[n] = sending[q].claim[n]
  BY DEF Holders, SameHold
<1>3. Live(n)' \subseteq Live(n) \union {p} /\ Live(n) \subseteq Live(n)' \union {p}
  BY <1>1, <1>2 DEF Live, LiveClaim, UnsentClaim
<1>4. Unsent(n)' \subseteq Unsent(n) \union {p} /\ Unsent(n) \subseteq Unsent(n)' \union {p}
  BY <1>1, <1>2 DEF Unsent, UnsentClaim
<1>5. Blind(n)' \subseteq Blind(n) \union {p} /\ Blind(n) \subseteq Blind(n)' \union {p}
  BY <1>1, <1>2 DEF Blind, BlindClaim
<1>6. IsFiniteSet(Unsent(n)) /\ IsFiniteSet(Blind(n))
  BY Numbers
<1>7. /\ IsFiniteSet(Live(n)')
      /\ Cardinality(Live(n)) \in Nat /\ Cardinality(Live(n)') \in Nat
      /\ Cardinality(Live(n)') + (IF p \in Live(n) THEN 1 ELSE 0)
           = Cardinality(Live(n)) + (IF p \in Live(n)' THEN 1 ELSE 0)
  BY <1>3, CountChange
<1>8. /\ Cardinality(Unsent(n)) \in Nat /\ Cardinality(Unsent(n)') \in Nat
      /\ Cardinality(Unsent(n)') + (IF p \in Unsent(n) THEN 1 ELSE 0)
           = Cardinality(Unsent(n)) + (IF p \in Unsent(n)' THEN 1 ELSE 0)
  BY <1>4, <1>6, CountChange
<1>9. /\ Cardinality(Blind(n)) \in Nat /\ Cardinality(Blind(n)') \in Nat
      /\ Cardinality(Blind(n)') + (IF p \in Blind(n) THEN 1 ELSE 0)
           = Cardinality(Blind(n)) + (IF p \in Blind(n)' THEN 1 ELSE 0)
  BY <1>5, <1>6, CountChange
<1> QED
  BY <1>1, <1>7, <1>8, <1>9

\* A process goes on with an alert it holds.
LEMMA BecomesFacts ==
    ASSUME OutboxOK, NEW p \in Senders, NEW n \in DOMAIN sending[p].claim, NEW c \in Claims,
           Becomes(p, n, c)
    PROVE  /\ sending' \in [Senders ->
                  [phase: {"IDLE", "EXPIRE", "CLAIM", "DELIVER"}, claim: ClaimsOf]]
           /\ \A q \in Senders : sending'[q].phase # "DELIVER" => DOMAIN sending'[q].claim = {}
           /\ n \in Alerts /\ n \in DOMAIN sending'[p].claim /\ sending'[p].claim[n] = c
           /\ \A q \in Senders, k \in Alerts : q # p \/ k # n => SameHold(k, q)
<1> DEFINE f == sending[p].claim
           g == [f EXCEPT ![n] = c]
<1>1. /\ sending[p] \in [phase: {"IDLE", "EXPIRE", "CLAIM", "DELIVER"}, claim: ClaimsOf]
      /\ f \in ClaimsOf /\ sending[p].phase = "DELIVER"
  BY DEF OutboxOK
<1>2. f = [k \in DOMAIN f |-> f[k]] /\ DOMAIN f \subseteq Alerts /\ \A k \in DOMAIN f : f[k] \in Claims
  BY <1>1, ClaimsOfFacts
<1>3. /\ DOMAIN g = DOMAIN f /\ g[n] = c /\ g = [k \in DOMAIN g |-> g[k]]
      /\ \A k \in DOMAIN f \ {n} : g[k] = f[k]
  BY <1>2
<1>4. sending' = [sending EXCEPT ![p] = [phase |-> "DELIVER", claim |-> g]]
  <2>1. sending' = [sending EXCEPT ![p] = [sending[p] EXCEPT !.claim = g]]
    BY DEF Becomes
  <2> HIDE DEF g
  <2>2. [sending[p] EXCEPT !.claim = g] = [phase |-> "DELIVER", claim |-> g]
    BY <1>1
  <2> QED
    BY <2>1, <2>2
<1>5. \A k \in DOMAIN g : g[k] \in Claims
  BY <1>2, <1>3
<1> HIDE DEF g
<1>6. g \in ClaimsOf
  BY <1>2, <1>3, <1>5, ClaimsOfFacts
<1>7. /\ sending'[p] = [phase |-> "DELIVER", claim |-> g]
      /\ \A q \in Senders \ {p} : sending'[q] = sending[q]
      /\ sending' \in [Senders ->
             [phase: {"IDLE", "EXPIRE", "CLAIM", "DELIVER"}, claim: ClaimsOf]]
  BY <1>4, <1>6 DEF OutboxOK
<1>8. \A q \in Senders : sending'[q].phase # "DELIVER" => DOMAIN sending'[q].claim = {}
  BY <1>7 DEF OutboxOK
<1>9. \A q \in Senders, k \in Alerts : q # p \/ k # n => SameHold(k, q)
  BY <1>3, <1>7 DEF SameHold
<1>10. n \in Alerts /\ n \in DOMAIN sending'[p].claim /\ sending'[p].claim[n] = c
  BY <1>2, <1>3, <1>7
<1> QED
  BY <1>7, <1>8, <1>9, <1>10

\* A process is done with an alert it holds.
LEMMA WithoutFacts ==
    ASSUME OutboxOK, NEW p \in Senders, NEW n \in DOMAIN sending[p].claim,
           sending' = [sending EXCEPT ![p] = Without(p, n)]
    PROVE  /\ sending' \in [Senders ->
                  [phase: {"IDLE", "EXPIRE", "CLAIM", "DELIVER"}, claim: ClaimsOf]]
           /\ \A q \in Senders : sending'[q].phase # "DELIVER" => DOMAIN sending'[q].claim = {}
           /\ n \in Alerts /\ n \notin DOMAIN sending'[p].claim
           /\ \A q \in Senders, k \in Alerts : q # p \/ k # n => SameHold(k, q)
<1> DEFINE f == sending[p].claim
           rest == DOMAIN f \ {n}
           g == [k \in rest |-> f[k]]
<1>1. f \in ClaimsOf /\ sending[p].phase = "DELIVER"
  BY DEF OutboxOK
<1>2. f = [k \in DOMAIN f |-> f[k]] /\ DOMAIN f \subseteq Alerts /\ \A k \in DOMAIN f : f[k] \in Claims
  BY <1>1, ClaimsOfFacts
<1>3. NothingClaimed \in ClaimsOf /\ DOMAIN NothingClaimed = {}
  <2>1. DOMAIN NothingClaimed = {} /\ NothingClaimed = [k \in DOMAIN NothingClaimed |-> NothingClaimed[k]]
    BY DEF NothingClaimed
  <2> QED
    BY <2>1, ClaimsOfFacts
<1>4. g \in ClaimsOf /\ DOMAIN g = rest /\ \A k \in rest : g[k] = f[k]
  <2>1. DOMAIN g = rest /\ g = [k \in DOMAIN g |-> g[k]] /\ \A k \in rest : g[k] = f[k]
    OBVIOUS
  <2>2. DOMAIN g \subseteq Alerts /\ \A k \in DOMAIN g : g[k] \in Claims
    BY <1>2, <2>1
  <2> HIDE DEF g
  <2> QED
    BY <2>1, <2>2, ClaimsOfFacts
<1>5. CASE rest = {}
  <2>1. sending' = [sending EXCEPT ![p] = [phase |-> "IDLE", claim |-> NothingClaimed]]
    BY <1>5 DEF Without, Resting
  <2>2. /\ sending'[p] = [phase |-> "IDLE", claim |-> NothingClaimed]
        /\ \A q \in Senders \ {p} : sending'[q] = sending[q]
        /\ sending' \in [Senders ->
               [phase: {"IDLE", "EXPIRE", "CLAIM", "DELIVER"}, claim: ClaimsOf]]
    BY <1>3, <2>1 DEF OutboxOK
  <2> QED
    BY <1>2, <1>3, <1>5, <2>2 DEF OutboxOK, SameHold
<1>6. CASE rest # {}
  <2>1. sending' = [sending EXCEPT ![p] = [phase |-> "DELIVER", claim |-> g]]
    BY <1>6 DEF Without
  <2> HIDE DEF g
  <2>2. /\ sending'[p] = [phase |-> "DELIVER", claim |-> g]
        /\ \A q \in Senders \ {p} : sending'[q] = sending[q]
        /\ sending' \in [Senders ->
               [phase: {"IDLE", "EXPIRE", "CLAIM", "DELIVER"}, claim: ClaimsOf]]
    BY <1>4, <2>1 DEF OutboxOK
  <2> QED
    BY <1>2, <1>4, <2>2 DEF OutboxOK, SameHold
<1> QED
  BY <1>5, <1>6

\* A step that is about another alert.
LEMMA Elsewhere ==
    ASSUME NEW n, Account(n), \A q \in Senders : SameHold(n, q),
           alert'[n] = alert[n], shown'[n] = shown[n], causes'[n] = causes[n]
    PROVE  Account(n)'
<1>1. /\ Holders(n)' = Holders(n) /\ Unsent(n)' = Unsent(n)
      /\ Blind(n)' = Blind(n) /\ Live(n)' = Live(n)
  BY SameClaims
<1> QED
  BY <1>1 DEF Account, Chance, Loose

\* A row of the outbox that ends or stays, while nobody changes how he holds it.
LEMMA EndsOrStays ==
    ASSUME OutboxOK, NEW n \in Alerts, Account(n), \A q \in Senders : SameHold(n, q),
           alert'[n].attempts = alert[n].attempts, Loose(n)' => Loose(n),
           shown'[n] = shown[n], causes'[n] = causes[n]
    PROVE  Account(n)'
<1>1. /\ Holders(n)' = Holders(n) /\ Unsent(n)' = Unsent(n)
      /\ Blind(n)' = Blind(n) /\ Live(n)' = Live(n)
  BY SameClaims
<1>2. /\ Cardinality(Live(n)) \in Nat /\ Cardinality(Unsent(n)) \in Nat
      /\ Cardinality(Blind(n)) \in Nat
  BY Numbers DEF Account
<1>3. Chance(n)' \in Nat /\ Chance(n)' <= Chance(n)
  BY DEF Chance
<1>4. \A d \in Devices :
          \/ causes[n] = MaxAttempts - 1
          \/ shown[n][d] + Cardinality(Live(n)) + Cardinality(Blind(n)) + Chance(n)' <= 1 + causes[n]
  BY <1>2, <1>3, AccountNumbers
<1> QED
  BY <1>1, <1>4 DEF Account

\* Counting a cause.
LEMMA CauseFacts ==
    ASSUME OutboxOK, NEW n \in Alerts
    PROVE  /\ causes[n] \in 0 .. MaxAttempts - 1
           /\ OneCauseMore(n) \in 0 .. MaxAttempts - 1
           /\ OneCauseMore(n) = MaxAttempts - 1 \/ OneCauseMore(n) = causes[n] + 1
           /\ causes[n] = MaxAttempts - 1 => OneCauseMore(n) = MaxAttempts - 1
BY PushAssumption DEF OutboxOK, OneCauseMore

\* A claim ends its attempt, and writes the row.
LEMMA UpdateKeepsAccounts ==
    ASSUME PushInv, NEW p \in Senders, NEW n \in DOMAIN sending[p].claim, NEW s \in Statuses,
           UpdateDelivery(p, n, s), UNCHANGED <<shown, causes>>,
           s = "PENDING" => LiveClaim(sending[p].claim[n])
    PROVE  PushInv'
<1> USE DEF PushInv
<1>1. /\ sending' \in [Senders ->
            [phase: {"IDLE", "EXPIRE", "CLAIM", "DELIVER"}, claim: ClaimsOf]]
      /\ \A q \in Senders : sending'[q].phase # "DELIVER" => DOMAIN sending'[q].claim = {}
      /\ n \in Alerts /\ n \notin DOMAIN sending'[p].claim
      /\ \A q \in Senders, k \in Alerts : q # p \/ k # n => SameHold(k, q)
  BY WithoutFacts DEF UpdateDelivery
<1> DEFINE next == IF s = "PENDING" THEN "WAITING" ELSE "UNSET"
<1>2. alert' = [alert EXCEPT ![n] = [alert[n] EXCEPT !.status = s, !.next = next]]
  BY <1>1 DEF UpdateDelivery
<1>3. /\ alert'[n] = [alert[n] EXCEPT !.status = s, !.next = next]
      /\ \A k \in Alerts \ {n} : alert'[k] = alert[k]
  BY <1>1, <1>2 DEF OutboxOK
<1>4. /\ alert'[n].status = s /\ alert'[n].next = next
      /\ alert'[n].attempts = alert[n].attempts /\ s # "NONE"
      /\ alert'[n] \in [status: {"NONE"} \union Statuses,
                         attempts: 0 .. MaxAttempts, next: {"UNSET", "WAITING", "DUE"}]
  <2>1. alert[n] \in [status: {"NONE"} \union Statuses,
                      attempts: 0 .. MaxAttempts, next: {"UNSET", "WAITING", "DUE"}]
    BY <1>1 DEF OutboxOK
  <2>2. s # "NONE" /\ next \in {"UNSET", "WAITING", "DUE"}
    BY DEF Statuses
  <2> HIDE DEF next
  <2> QED
    BY <1>3, <2>1, <2>2
<1>5. OutboxOK'
  <2>1. alert' \in [Alerts -> [status: {"NONE"} \union Statuses,
                      attempts: 0 .. MaxAttempts, next: {"UNSET", "WAITING", "DUE"}]]
    <3> HIDE DEF next
    <3> QED
      BY <1>1, <1>2, <1>3, <1>4 DEF OutboxOK
  <2>2. \A k \in Alerts \ {n} : /\ alert'[k].next = "WAITING" => alert'[k].status = "PENDING"
                                /\ alert'[k].status = "NONE" => alert'[k].attempts = 0
    BY <1>3 DEF OutboxOK
  <2>3. alert'[n].next = "WAITING" => alert'[n].status = "PENDING"
    BY <1>4
  <2> QED
    BY <1>1, <1>4, <2>1, <2>2, <2>3 DEF OutboxOK
<1>6. ASSUME NEW k \in Alerts \ {n} PROVE Account(k)'
  BY <1>1, <1>3, Elsewhere
<1>7. Account(n)'
  <2>1. Account(n)
    BY <1>1
  <2>2. /\ IsFiniteSet(Live(n)')
        /\ Cardinality(Live(n)) \in Nat /\ Cardinality(Live(n)') \in Nat
        /\ Cardinality(Unsent(n)) \in Nat /\ Cardinality(Unsent(n)') \in Nat
        /\ Cardinality(Blind(n)) \in Nat /\ Cardinality(Blind(n)') \in Nat
        /\ Cardinality(Live(n)') + (IF p \in Live(n) THEN 1 ELSE 0)
             = Cardinality(Live(n)) + (IF p \in Live(n)' THEN 1 ELSE 0)
        /\ Cardinality(Unsent(n)') + (IF p \in Unsent(n) THEN 1 ELSE 0)
             = Cardinality(Unsent(n)) + (IF p \in Unsent(n)' THEN 1 ELSE 0)
        /\ Cardinality(Blind(n)') + (IF p \in Blind(n) THEN 1 ELSE 0)
             = Cardinality(Blind(n)) + (IF p \in Blind(n)' THEN 1 ELSE 0)
    BY <1>1, <2>1, OneClaim DEF Account
  <2>3. p \notin Live(n)' /\ p \notin Unsent(n)' /\ p \notin Blind(n)'
    BY <1>1 DEF Live, Unsent, Blind, Holders
  <2>4. s = "PENDING" => p \in Live(n)
    BY <1>1 DEF Live, Holders
  <2>5. Loose(n)' => s = "PENDING"
    BY <1>4 DEF Loose
  <2>7. ASSUME NEW d \in Devices
        PROVE  /\ shown[n][d] + Cardinality(Unsent(n)') <= alert[n].attempts
               /\ \/ causes[n] = MaxAttempts - 1
                  \/ shown[n][d] + Cardinality(Live(n)') + Cardinality(Blind(n)') + Chance(n)'
                       <= 1 + causes[n]
    <3>1. Cardinality(Unsent(n)') <= Cardinality(Unsent(n)) /\ Cardinality(Blind(n)') <= Cardinality(Blind(n))
      BY <2>2, <2>3
    <3>2. Cardinality(Live(n)') + Chance(n)' <= Cardinality(Live(n)) /\ Chance(n)' \in Nat
      BY <2>2, <2>3, <2>4, <2>5 DEF Chance
    <3> QED
      BY <1>1, <2>1, <2>2, <3>1, <3>2, AccountNumbers
  <2> QED
    BY <1>1, <1>4, <2>2, <2>7 DEF Account
<1> QED
  BY <1>5, <1>6, <1>7

Weight(c) == (IF LiveClaim(c) THEN 1 ELSE 0) + (IF BlindClaim(c) THEN 1 ELSE 0)

\* A claim goes on: what it shows is what it no longer may, or has a cause.
LEMMA BecomesKeepsAccounts ==
    ASSUME PushInv, NEW p \in Senders, NEW n \in DOMAIN sending[p].claim, NEW c \in Claims,
           Becomes(p, n, c), alert' = alert,
           shown' \in [Alerts -> [Devices -> Nat]], causes' \in [Alerts -> 0 .. MaxAttempts - 1],
           \A k \in Alerts \ {n} : shown'[k] = shown[k] /\ causes'[k] = causes[k],
           UnsentClaim(c) => UnsentClaim(sending[p].claim[n]),
           \A d \in Devices :
              /\ \/ shown'[n][d] = shown[n][d]
                 \/ /\ shown'[n][d] = shown[n][d] + 1
                    /\ UnsentClaim(sending[p].claim[n]) /\ ~UnsentClaim(c)
              /\ \/ causes'[n] = MaxAttempts - 1
                 \/ /\ causes[n] # MaxAttempts - 1
                    /\ shown'[n][d] + Weight(c) + causes[n]
                         <= shown[n][d] + Weight(sending[p].claim[n]) + causes'[n]
    PROVE  PushInv'
<1> USE DEF PushInv
<1>1. /\ sending' \in [Senders ->
            [phase: {"IDLE", "EXPIRE", "CLAIM", "DELIVER"}, claim: ClaimsOf]]
      /\ \A q \in Senders : sending'[q].phase # "DELIVER" => DOMAIN sending'[q].claim = {}
      /\ n \in Alerts /\ n \in DOMAIN sending'[p].claim /\ sending'[p].claim[n] = c
      /\ \A q \in Senders, k \in Alerts : q # p \/ k # n => SameHold(k, q)
  BY BecomesFacts
<1>2. OutboxOK'
  BY <1>1 DEF OutboxOK
<1>3. ASSUME NEW k \in Alerts \ {n} PROVE Account(k)'
  BY <1>1, Elsewhere
<1>4. Account(n)'
  <2>1. Account(n)
    BY <1>1
  <2>2. /\ IsFiniteSet(Live(n)')
        /\ Cardinality(Live(n)) \in Nat /\ Cardinality(Live(n)') \in Nat
        /\ Cardinality(Unsent(n)) \in Nat /\ Cardinality(Unsent(n)') \in Nat
        /\ Cardinality(Blind(n)) \in Nat /\ Cardinality(Blind(n)') \in Nat
        /\ Cardinality(Live(n)') + (IF p \in Live(n) THEN 1 ELSE 0)
             = Cardinality(Live(n)) + (IF p \in Live(n)' THEN 1 ELSE 0)
        /\ Cardinality(Unsent(n)') + (IF p \in Unsent(n) THEN 1 ELSE 0)
             = Cardinality(Unsent(n)) + (IF p \in Unsent(n)' THEN 1 ELSE 0)
        /\ Cardinality(Blind(n)') + (IF p \in Blind(n) THEN 1 ELSE 0)
             = Cardinality(Blind(n)) + (IF p \in Blind(n)' THEN 1 ELSE 0)
        /\ Holders(n)' \ {p} = Holders(n) \ {p}
    BY <1>1, <2>1, OneClaim DEF Account
  <2>3. p \in Holders(n) /\ p \in Holders(n)'
    BY <1>1 DEF Holders
  <2>4. Chance(n)' = Chance(n)
    BY <2>2, <2>3 DEF Chance, Loose
  <2>5. /\ p \in Live(n) <=> LiveClaim(sending[p].claim[n])
        /\ p \in Live(n)' <=> LiveClaim(c)
    BY <1>1, <2>3 DEF Live, LiveClaim, UnsentClaim
  <2>6. /\ p \in Unsent(n) <=> UnsentClaim(sending[p].claim[n])
        /\ p \in Unsent(n)' <=> UnsentClaim(c)
    BY <1>1, <2>3 DEF Unsent, UnsentClaim
  <2>7. /\ p \in Blind(n) <=> BlindClaim(sending[p].claim[n])
        /\ p \in Blind(n)' <=> BlindClaim(c)
    BY <1>1, <2>3 DEF Blind, BlindClaim
  <2>8. Weight(c) \in Nat /\ Weight(sending[p].claim[n]) \in Nat
    BY DEF Weight
  <2>9. Cardinality(Live(n)') + Cardinality(Blind(n)') + Weight(sending[p].claim[n])
          = Cardinality(Live(n)) + Cardinality(Blind(n)) + Weight(c)
    <3> DEFINE one(x) == IF x THEN 1 ELSE 0
               l == one(p \in Live(n))
               l1 == one(p \in Live(n)')
               b == one(p \in Blind(n))
               b1 == one(p \in Blind(n)')
               live == Cardinality(Live(n))
               live1 == Cardinality(Live(n)')
               blind == Cardinality(Blind(n))
               blind1 == Cardinality(Blind(n)')
               w == Weight(sending[p].claim[n])
               w1 == Weight(c)
    <3>1. w = l + b /\ w1 = l1 + b1
      BY <2>5, <2>7 DEF Weight
    <3>2. l \in Int /\ l1 \in Int /\ b \in Int /\ b1 \in Int
      OBVIOUS
    <3>3. live1 + l = live + l1 /\ blind1 + b = blind + b1
      BY <2>2
    <3>4. live1 \in Int /\ live \in Int /\ blind1 \in Int /\ blind \in Int
      BY <2>2
    <3>5. live1 + blind1 + w = live + blind + w1
      <4> HIDE DEF l, l1, b, b1, live, live1, blind, blind1, w, w1
      <4> QED
        BY <3>1, <3>2, <3>3, <3>4
    <3> QED
      BY <3>5
  <2>10. ASSUME NEW d \in Devices
         PROVE  shown'[n][d] + Cardinality(Unsent(n)') <= alert[n].attempts
    <3>1. Cardinality(Unsent(n)') <= Cardinality(Unsent(n))
      BY <2>2, <2>6
    <3>2. UnsentClaim(sending[p].claim[n]) /\ ~UnsentClaim(c)
          => Cardinality(Unsent(n)') + 1 <= Cardinality(Unsent(n))
      BY <2>2, <2>6
    <3> QED
      BY <1>1, <2>1, <2>2, <3>1, <3>2, AccountNumbers
  <2>11. ASSUME NEW d \in Devices
         PROVE  \/ causes'[n] = MaxAttempts - 1
                \/ shown'[n][d] + Cardinality(Live(n)') + Cardinality(Blind(n)') + Chance(n)'
                     <= 1 + causes'[n]
    <3>1. /\ shown[n][d] \in Nat /\ causes[n] \in Nat /\ Chance(n) \in Nat
          /\ \/ causes[n] = MaxAttempts - 1
             \/ shown[n][d] + Cardinality(Live(n)) + Cardinality(Blind(n)) + Chance(n)
                  <= 1 + causes[n]
      BY <1>1, <2>1, AccountNumbers
    <3>2. shown'[n][d] \in Nat /\ causes'[n] \in Nat
      BY <1>1, <1>2 DEF OutboxOK
    <3> QED
      BY <2>2, <2>4, <2>8, <2>9, <3>1, <3>2
  <2> QED
    BY <2>2, <2>10, <2>11 DEF Account
<1> QED
  BY <1>2, <1>3, <1>4

\* What a claim an alert is at has.
LEMMA ClaimFacts ==
    ASSUME OutboxOK, NEW p \in Senders, NEW n \in DOMAIN sending[p].claim
    PROVE  sending[p].claim[n] \in Claims /\ n \in Alerts
<1>1. sending[p].claim \in ClaimsOf
  BY DEF OutboxOK
<1> QED
  BY <1>1, ClaimsOfFacts

\* An alert that is stale, or has no device.
LEMMA NothingToSendKeeps ==
    ASSUME PushInv, NEW p \in Senders, NEW n \in Alerts, NothingToSend(p, n)
    PROVE  PushInv'
<1>1. n \in DOMAIN sending[p].claim /\ "DISABLED" \in Statuses
  BY DEF NothingToSend, At, Statuses
<1> QED
  BY <1>1, UpdateKeepsAccounts DEF NothingToSend

\* The result of an attempt.
LEMMA RecordKeeps ==
    ASSUME PushInv, NEW p \in Senders, NEW n \in Alerts, RecordResult(p, n)
    PROVE  PushInv'
<1>1. n \in DOMAIN sending[p].claim /\ sending[p].claim[n].step = "RECORD"
  BY DEF RecordResult, At
<1>2. sending[p].claim[n] \in Claims
  BY <1>1, ClaimFacts DEF PushInv
<1>3. sending[p].claim[n].result \in Statuses
  BY <1>1, <1>2 DEF Claims
<1>4. LiveClaim(sending[p].claim[n]) <=> sending[p].claim[n].result = "PENDING"
  BY <1>1 DEF LiveClaim, UnsentClaim
<1> QED
  BY <1>1, <1>3, <1>4, UpdateKeepsAccounts DEF RecordResult

\* The devices FCM knows nothing of are disabled.
LEMMA DisableInvalidKeeps ==
    ASSUME PushInv, NEW p \in Senders, NEW n \in Alerts, DisableInvalidDevices(p, n)
    PROVE  PushInv'
<1> DEFINE old == sending[p].claim[n]
           c == [step |-> "RECORD", result |-> old.result]
<1>1. n \in DOMAIN sending[p].claim /\ old.step = "DISABLE_DEVICES"
  BY DEF DisableInvalidDevices, At
<1>2. old \in Claims
  BY <1>1, ClaimFacts DEF PushInv
<1>3. c \in Claims /\ c.step = "RECORD" /\ c.result = old.result
  BY <1>1, <1>2 DEF Claims
<1>4. Becomes(p, n, c) /\ UNCHANGED <<alert, shown, causes>>
  BY DEF DisableInvalidDevices
<1> HIDE DEF c
<1>5. /\ LiveClaim(c) <=> LiveClaim(old)
      /\ ~BlindClaim(c) /\ ~BlindClaim(old) /\ ~UnsentClaim(c)
  BY <1>1, <1>3 DEF LiveClaim, UnsentClaim, BlindClaim
<1>6. Weight(c) = Weight(old) /\ Weight(c) \in Nat
  BY <1>5 DEF Weight
<1>7. /\ shown \in [Alerts -> [Devices -> Nat]] /\ causes \in [Alerts -> 0 .. MaxAttempts - 1]
      /\ \A d \in Devices : shown[n][d] \in Nat /\ causes[n] \in Nat
  BY DEF PushInv, OutboxOK
<1>8. \A d \in Devices :
        \/ causes'[n] = MaxAttempts - 1
        \/ /\ causes[n] # MaxAttempts - 1
           /\ shown'[n][d] + Weight(c) + causes[n] <= shown[n][d] + Weight(old) + causes'[n]
  BY <1>4, <1>6, <1>7
<1> QED
  BY <1>1, <1>3, <1>4, <1>5, <1>7, <1>8, BecomesKeepsAccounts

\* The devices of the Member are read.
LEMMA ReadDevicesKeeps ==
    ASSUME PushInv, NEW p \in Senders, NEW n \in Alerts, ReadDevices(p, n)
    PROVE  PushInv'
<1> DEFINE old == sending[p].claim[n]
           devices == DevicesOf(Recipient[n])
           readable == {d \in devices : device[d].readable}
           c == [step |-> "SEND", attempt |-> old.attempt,
                 to |-> readable, unreadable |-> readable # devices]
<1>1. n \in DOMAIN sending[p].claim /\ old.step = "CHECK"
  BY DEF ReadDevices, At
<1>2. old \in Claims
  BY <1>1, ClaimFacts DEF PushInv
<1>3. readable \in SUBSET Devices /\ (readable # devices) \in BOOLEAN
  BY DEF DevicesOf
<1>4. /\ Becomes(p, n, c) /\ UNCHANGED <<alert, shown>>
      /\ causes' = [causes EXCEPT ![n] = IF readable # devices THEN OneCauseMore(n) ELSE @]
  BY DEF ReadDevices
<1> HIDE DEF readable, devices
<1>5. c \in Claims /\ c.step = "SEND" /\ c.unreadable = (readable # devices)
  BY <1>1, <1>2, <1>3 DEF Claims
<1> HIDE DEF c
<1>6. /\ LiveClaim(c) /\ UnsentClaim(c) /\ (BlindClaim(c) <=> readable # devices)
      /\ LiveClaim(old) /\ UnsentClaim(old) /\ ~BlindClaim(old)
  BY <1>1, <1>5 DEF LiveClaim, UnsentClaim, BlindClaim
<1>7. Weight(old) = 1 /\ Weight(c) = IF readable # devices THEN 2 ELSE 1
  BY <1>6 DEF Weight
<1>8. /\ causes' \in [Alerts -> 0 .. MaxAttempts - 1]
      /\ causes'[n] = IF readable # devices THEN OneCauseMore(n) ELSE causes[n]
      /\ \A k \in Alerts \ {n} : causes'[k] = causes[k]
  BY <1>4, CauseFacts DEF PushInv, OutboxOK
<1>9. /\ shown \in [Alerts -> [Devices -> Nat]]
      /\ \A d \in Devices : shown[n][d] \in Nat
  BY DEF PushInv, OutboxOK
<1>10. /\ causes[n] \in Int /\ causes'[n] \in Int
       /\ \/ causes'[n] = MaxAttempts - 1
          \/ causes[n] # MaxAttempts - 1 /\ Weight(c) + causes[n] <= Weight(old) + causes'[n]
  BY <1>7, <1>8, CauseFacts DEF PushInv
<1>11. \A d \in Devices :
        \/ causes'[n] = MaxAttempts - 1
        \/ /\ causes[n] # MaxAttempts - 1
           /\ shown'[n][d] + Weight(c) + causes[n] <= shown[n][d] + Weight(old) + causes'[n]
  BY <1>4, <1>7, <1>9, <1>10
<1> QED
  BY <1>1, <1>4, <1>5, <1>6, <1>8, <1>9, <1>11, BecomesKeepsAccounts

\* FCM answers.
LEMMA SendKeeps ==
    ASSUME PushInv, NEW p \in Senders, NEW n \in Alerts, SendToDevices(p, n)
    PROVE  PushInv'
<1> DEFINE old == sending[p].claim[n]
<1>1. n \in DOMAIN sending[p].claim /\ old.step = "SEND"
  BY DEF SendToDevices, At
<1>2. old \in Claims
  BY <1>1, ClaimFacts DEF PushInv
<1>3. old.to \subseteq Devices /\ old.unreadable \in BOOLEAN
  BY <1>1, <1>2 DEF Claims
<1>4. PICK answers \in [old.to -> Answers] :
          LET invalid == {d \in old.to : answers[d] = "INVALID_DESTINATION"}
          IN  /\ shown' = [shown EXCEPT ![n] =
                    [d \in Devices |->
                        IF d \in old.to /\ answers[d] \in Taken THEN @[d] + 1 ELSE @[d]]]
              /\ causes' = [causes EXCEPT ![n] =
                    IF \E d \in old.to : answers[d] = "LOST" THEN OneCauseMore(n) ELSE @]
              /\ Becomes(p, n,
                    IF invalid = {} \/ old.unreadable
                       THEN [step |-> "RECORD", result |-> Result(old, answers)]
                       ELSE [step |-> "DISABLE_DEVICES", invalid |-> invalid,
                             result |-> Result(old, answers)])
  BY DEF SendToDevices
<1> DEFINE invalid == {d \in old.to : answers[d] = "INVALID_DESTINATION"}
           result == Result(old, answers)
           lost == \E d \in old.to : answers[d] = "LOST"
           c == IF invalid = {} \/ old.unreadable
                THEN [step |-> "RECORD", result |-> result]
                ELSE [step |-> "DISABLE_DEVICES", invalid |-> invalid, result |-> result]
<1>5. Becomes(p, n, c) /\ alert' = alert
  BY <1>4 DEF SendToDevices
<1>6. result \in Statuses
  BY DEF Result, Statuses
<1>7. \A d \in old.to : answers[d] \in Taken /\ result = "PENDING" /\ ~old.unreadable
                       => answers[d] = "LOST"
  <2> SUFFICES ASSUME NEW d \in old.to, answers[d] = "DELIVERED", ~old.unreadable
               PROVE  result # "PENDING"
    BY DEF Taken
  <2>1. "DELIVERED" \in {answers[e] : e \in old.to}
    OBVIOUS
  <2> QED
    BY <2>1 DEF Result
<1>8. /\ shown' \in [Alerts -> [Devices -> Nat]]
      /\ \A k \in Alerts \ {n} : shown'[k] = shown[k]
      /\ \A d \in Devices : /\ shown[n][d] \in Nat
                             /\ shown'[n][d] = IF d \in old.to /\ answers[d] \in Taken
                                               THEN shown[n][d] + 1 ELSE shown[n][d]
  <2> DEFINE row == [d \in Devices |-> IF d \in old.to /\ answers[d] \in Taken
                                       THEN shown[n][d] + 1 ELSE shown[n][d]]
  <2>1. shown \in [Alerts -> [Devices -> Nat]]
    BY DEF PushInv, OutboxOK
  <2>2. shown' = [shown EXCEPT ![n] = row]
    BY <1>4
  <2>3. row \in [Devices -> Nat]
    BY <2>1
  <2>4. \A d \in Devices : row[d] = IF d \in old.to /\ answers[d] \in Taken
                                    THEN shown[n][d] + 1 ELSE shown[n][d]
    OBVIOUS
  <2> HIDE DEF row
  <2>5. shown' \in [Alerts -> [Devices -> Nat]] /\ shown'[n] = row
        /\ \A k \in Alerts \ {n} : shown'[k] = shown[k]
    BY <2>1, <2>2, <2>3
  <2> QED
    BY <2>1, <2>4, <2>5
<1>9. /\ causes' \in [Alerts -> 0 .. MaxAttempts - 1]
      /\ causes'[n] = IF lost THEN OneCauseMore(n) ELSE causes[n]
      /\ \A k \in Alerts \ {n} : causes'[k] = causes[k]
  BY <1>4, CauseFacts DEF PushInv, OutboxOK
<1>10. /\ c \in Claims /\ c.step \in {"RECORD", "DISABLE_DEVICES"} /\ c.result = result
  <2>1. invalid \in SUBSET Devices
    BY <1>3
  <2> HIDE DEF invalid, result
  <2>2. CASE invalid = {} \/ old.unreadable
    BY <1>6, <2>2 DEF Claims
  <2>3. CASE ~(invalid = {} \/ old.unreadable)
    BY <1>6, <2>1, <2>3 DEF Claims
  <2> QED
    BY <2>2, <2>3
<1> HIDE DEF c, result, invalid
<1>11. /\ UnsentClaim(old) /\ LiveClaim(old) /\ (BlindClaim(old) <=> old.unreadable)
       /\ ~UnsentClaim(c) /\ ~BlindClaim(c) /\ (LiveClaim(c) <=> result = "PENDING")
  BY <1>1, <1>10 DEF UnsentClaim, LiveClaim, BlindClaim
<1>12. /\ Weight(old) = IF old.unreadable THEN 2 ELSE 1
       /\ Weight(c) = IF result = "PENDING" THEN 1 ELSE 0
  BY <1>11 DEF Weight
<1>13. ASSUME NEW d \in Devices
       PROVE  \/ causes'[n] = MaxAttempts - 1
              \/ /\ causes[n] # MaxAttempts - 1
                 /\ shown'[n][d] + Weight(c) + causes[n] <= shown[n][d] + Weight(old) + causes'[n]
  <2>1. /\ causes[n] \in Int /\ causes'[n] \in Int /\ shown[n][d] \in Nat
        /\ \/ causes'[n] = MaxAttempts - 1
           \/ causes[n] # MaxAttempts - 1 /\ causes'[n] = IF lost THEN causes[n] + 1 ELSE causes[n]
    BY <1>8, <1>9, CauseFacts DEF PushInv
  <2>2. shown'[n][d] = shown[n][d] \/ shown'[n][d] = shown[n][d] + 1
    BY <1>8
  <2>3. shown'[n][d] = shown[n][d] + 1 /\ ~old.unreadable /\ result = "PENDING" => lost
    BY <1>7, <1>8, <2>1
  <2> HIDE DEF lost
  <2> QED
    BY <1>12, <2>1, <2>2, <2>3
<1> QED
  BY <1>1, <1>5, <1>8, <1>9, <1>10, <1>11, <1>13, BecomesKeepsAccounts

\* A new alert is in the outbox.
LEMMA EnqueueKeeps ==
    ASSUME PushInv, NEW n \in Alerts, Enqueue(n)
    PROVE  PushInv'
<1> USE DEF PushInv
<1>1. /\ alert'[n] = Queued /\ alert[n].status = "NONE" /\ alert[n].attempts = 0
      /\ \A k \in Alerts \ {n} : alert'[k] = alert[k]
      /\ UNCHANGED <<sending, shown, causes>>
  BY DEF Enqueue, OutboxOK
<1>2. OutboxOK'
  <2>1. Queued \in [status: {"NONE"} \union Statuses,
                    attempts: 0 .. MaxAttempts, next: {"UNSET", "WAITING", "DUE"}]
    BY PushAssumption DEF Queued, Statuses
  <2>2. alert' \in [Alerts -> [status: {"NONE"} \union Statuses,
                      attempts: 0 .. MaxAttempts, next: {"UNSET", "WAITING", "DUE"}]]
    BY <2>1 DEF Enqueue, OutboxOK
  <2> QED
    BY <1>1, <2>2 DEF OutboxOK, Queued
<1>3. \A k \in Alerts, q \in Senders : SameHold(k, q)
  BY <1>1 DEF SameHold
<1>4. ASSUME NEW k \in Alerts \ {n} PROVE Account(k)'
  BY <1>1, <1>3, <1>4, Elsewhere
<1>5. Account(n)'
  BY <1>1, <1>3, EndsOrStays DEF Queued, Loose
<1> QED
  BY <1>2, <1>4, <1>5

\* The next attempt falls due: while a sender holds the alert, that is a cause.
LEMMA FallsDueKeeps ==
    ASSUME PushInv, NEW n \in Alerts, AttemptFallsDue(n)
    PROVE  PushInv'
<1> USE DEF PushInv
<1> DEFINE more == IF Holders(n) = {} THEN causes[n] ELSE OneCauseMore(n)
<1>1. /\ alert[n].next = "WAITING" /\ alert' = [alert EXCEPT ![n] = [alert[n] EXCEPT !.next = "DUE"]]
      /\ causes' = [causes EXCEPT ![n] = more]
      /\ UNCHANGED <<sending, shown>>
  BY DEF AttemptFallsDue
<1>2. /\ alert'[n] = [alert[n] EXCEPT !.next = "DUE"]
      /\ \A k \in Alerts \ {n} : alert'[k] = alert[k]
      /\ causes'[n] = more
      /\ \A k \in Alerts \ {n} : causes'[k] = causes[k]
      /\ alert[n].status = "PENDING"
  BY <1>1 DEF OutboxOK
<1>3. /\ alert'[n].next = "DUE" /\ alert'[n].status = "PENDING"
      /\ alert'[n].attempts = alert[n].attempts
      /\ alert'[n] \in [status: {"NONE"} \union Statuses,
                         attempts: 0 .. MaxAttempts, next: {"UNSET", "WAITING", "DUE"}]
  BY <1>2 DEF OutboxOK
<1>4. OutboxOK'
  <2>1. alert' \in [Alerts -> [status: {"NONE"} \union Statuses,
                      attempts: 0 .. MaxAttempts, next: {"UNSET", "WAITING", "DUE"}]]
    BY <1>1, <1>2, <1>3 DEF OutboxOK
  <2>2. causes' \in [Alerts -> 0 .. MaxAttempts - 1]
    <3>1. more \in 0 .. MaxAttempts - 1
      BY CauseFacts
    <3> HIDE DEF more
    <3> QED
      BY <1>1, <3>1 DEF OutboxOK
  <2>3. \A k \in Alerts \ {n} : /\ alert'[k].next = "WAITING" => alert'[k].status = "PENDING"
                                /\ alert'[k].status = "NONE" => alert'[k].attempts = 0
    BY <1>2 DEF OutboxOK
  <2> QED
    BY <1>1, <1>3, <2>1, <2>2, <2>3 DEF OutboxOK
<1>5. \A k \in Alerts, q \in Senders : SameHold(k, q)
  BY <1>1 DEF SameHold
<1>6. ASSUME NEW k \in Alerts \ {n} PROVE Account(k)'
  BY <1>1, <1>2, <1>5, <1>6, Elsewhere
<1>7. Account(n)'
  <2>1. CASE Holders(n) = {}
    BY <1>1, <1>2, <1>3, <1>5, <2>1, EndsOrStays DEF Loose
  <2>2. CASE Holders(n) # {}
    <3>1. /\ Holders(n)' = Holders(n) /\ Unsent(n)' = Unsent(n)
          /\ Blind(n)' = Blind(n) /\ Live(n)' = Live(n)
      BY <1>5, SameClaims
    <3>2. Chance(n) = 0 /\ Chance(n)' = 1
      BY <1>1, <1>2, <1>3, <2>2 DEF Chance, Loose
    <3>3. /\ causes[n] \in Int
          /\ \/ causes'[n] = MaxAttempts - 1
             \/ causes[n] # MaxAttempts - 1 /\ causes'[n] = causes[n] + 1
      BY <1>2, <2>2, CauseFacts
    <3>4. /\ Cardinality(Live(n)) \in Nat /\ Cardinality(Unsent(n)) \in Nat
          /\ Cardinality(Blind(n)) \in Nat
      BY Numbers DEF Account
    <3>5. \A d \in Devices :
            /\ shown[n][d] + Cardinality(Unsent(n)) <= alert[n].attempts
            /\ \/ causes'[n] = MaxAttempts - 1
               \/ shown[n][d] + Cardinality(Live(n)) + Cardinality(Blind(n)) + 1
                    <= 1 + causes'[n]
      BY <3>2, <3>3, <3>4, AccountNumbers
    <3> QED
      BY <1>1, <1>3, <3>1, <3>2, <3>5 DEF Account
  <2> QED
    BY <2>1, <2>2
<1> QED
  BY <1>4, <1>6, <1>7

\* The process has done a statement that ends rows of the outbox.
LEMMA EndingKeeps ==
    ASSUME PushInv, NEW p \in Senders, NEW next \in {"EXPIRE", "CLAIM"}, NEW s \in Statuses,
           s # "PENDING", sending[p].phase # "DELIVER", sending' = [sending EXCEPT ![p].phase = next],
           NEW E \in SUBSET Alerts,
           alert' = [n \in Alerts |-> IF n \in E THEN Ended(n, s) ELSE alert[n]],
           UNCHANGED <<shown, causes>>
    PROVE  PushInv'
<1> USE DEF PushInv
<1>1. /\ sending' = [sending EXCEPT ![p] = [sending[p] EXCEPT !.phase = next]]
      /\ sending[p] \in [phase: {"IDLE", "EXPIRE", "CLAIM", "DELIVER"}, claim: ClaimsOf]
  BY DEF OutboxOK
<1>2. /\ sending'[p].claim = sending[p].claim /\ sending'[p].phase = next
      /\ sending'[p] \in [phase: {"IDLE", "EXPIRE", "CLAIM", "DELIVER"}, claim: ClaimsOf]
      /\ \A q \in Senders \ {p} : sending'[q] = sending[q]
  BY <1>1 DEF OutboxOK
<1>3. \A k \in Alerts, q \in Senders : SameHold(k, q)
  BY <1>2 DEF SameHold
<1>4. \A n \in Alerts :
        /\ n \in E => /\ alert'[n].status = s /\ alert'[n].next = "UNSET"
                      /\ alert'[n].attempts = alert[n].attempts
                      /\ alert'[n] \in [status: {"NONE"} \union Statuses,
                                attempts: 0 .. MaxAttempts, next: {"UNSET", "WAITING", "DUE"}]
        /\ n \notin E => alert'[n] = alert[n]
  <2> DEFINE Row == [status: {"NONE"} \union Statuses,
                     attempts: 0 .. MaxAttempts, next: {"UNSET", "WAITING", "DUE"}]
  <2>1. ASSUME NEW n \in Alerts
        PROVE  /\ Ended(n, s).status = s /\ Ended(n, s).next = "UNSET"
               /\ Ended(n, s).attempts = alert[n].attempts /\ Ended(n, s) \in Row
    <3>1. alert[n] \in Row
      BY DEF OutboxOK
    <3> QED
      BY <3>1 DEF Ended
  <2>2. \A n \in Alerts : alert'[n] = IF n \in E THEN Ended(n, s) ELSE alert[n]
    OBVIOUS
  <2> HIDE DEF Row
  <2>3. \A n \in Alerts :
          /\ n \in E => /\ alert'[n].status = s /\ alert'[n].next = "UNSET"
                        /\ alert'[n].attempts = alert[n].attempts /\ alert'[n] \in Row
          /\ n \notin E => alert'[n] = alert[n]
    BY <2>1, <2>2
  <2> QED
    BY <2>3 DEF Row
<1>5. OutboxOK'
  <2>1. alert' \in [Alerts -> [status: {"NONE"} \union Statuses,
                      attempts: 0 .. MaxAttempts, next: {"UNSET", "WAITING", "DUE"}]]
    <3>1. \A n \in Alerts : alert'[n] \in [status: {"NONE"} \union Statuses,
                attempts: 0 .. MaxAttempts, next: {"UNSET", "WAITING", "DUE"}]
      BY <1>4 DEF OutboxOK
    <3>2. alert' = [n \in Alerts |-> alert'[n]]
      OBVIOUS
    <3> QED
      BY <3>1, <3>2
  <2>2. \A n \in Alerts : /\ alert'[n].next = "WAITING" => alert'[n].status = "PENDING"
                          /\ alert'[n].status = "NONE" => alert'[n].attempts = 0
    BY <1>4 DEF OutboxOK, Statuses
  <2>3. sending' \in [Senders -> [phase: {"IDLE", "EXPIRE", "CLAIM", "DELIVER"}, claim: ClaimsOf]]
    BY <1>1, <1>2 DEF OutboxOK
  <2>4. \A q \in Senders : sending'[q].phase # "DELIVER" => DOMAIN sending'[q].claim = {}
    BY <1>2 DEF OutboxOK
  <2> QED
    BY <2>1, <2>2, <2>3, <2>4 DEF OutboxOK
<1>6. ASSUME NEW n \in Alerts PROVE Account(n)'
  <2>1. CASE n \in E
    <3>1. ~Loose(n)'
      BY <1>4, <2>1 DEF Loose, Statuses
    <3> QED
      BY <1>3, <1>4, <2>1, <3>1, EndsOrStays
  <2>2. CASE n \notin E
    BY <1>3, <1>4, <2>2, Elsewhere
  <2> QED
    BY <2>1, <2>2
<1> QED
  BY <1>5, <1>6

\* A process claims what is due.
LEMMA ClaimKeeps ==
    ASSUME PushInv, NEW p \in Senders, ClaimDeliveries(p)
    PROVE  PushInv'
<1> USE DEF PushInv
<1> DEFINE batch == OldestClaimable
           held2 == [n \in batch |-> NewClaim(n)]
           new == IF batch = {} THEN Resting ELSE [phase |-> "DELIVER", claim |-> held2]
<1>1. /\ batch \subseteq Alerts /\ DOMAIN sending[p].claim = {}
      /\ \A n \in batch : /\ alert[n].status = "PENDING" /\ alert[n].next # "WAITING"
                          /\ alert[n].attempts < MaxAttempts
  BY DEF OldestClaimable, Claimable, Due, ClaimDeliveries, OutboxOK
<1>2. /\ alert' = [n \in Alerts |->
            IF n \in batch THEN [alert[n] EXCEPT !.attempts = @ + 1, !.next = "WAITING"]
            ELSE alert[n]]
      /\ sending' = [sending EXCEPT ![p] = new]
      /\ UNCHANGED <<shown, causes>>
  BY DEF ClaimDeliveries
<1>3. \A n \in Alerts :
        /\ n \in batch => /\ alert'[n].status = "PENDING" /\ alert'[n].next = "WAITING"
                          /\ alert'[n].attempts = alert[n].attempts + 1
                          /\ alert'[n] \in [status: {"NONE"} \union Statuses,
                                attempts: 0 .. MaxAttempts, next: {"UNSET", "WAITING", "DUE"}]
        /\ n \notin batch => alert'[n] = alert[n]
  <2> SUFFICES ASSUME NEW n \in batch
               PROVE  /\ alert'[n].status = "PENDING" /\ alert'[n].next = "WAITING"
                      /\ alert'[n].attempts = alert[n].attempts + 1
                      /\ alert'[n] \in [status: {"NONE"} \union Statuses,
                            attempts: 0 .. MaxAttempts, next: {"UNSET", "WAITING", "DUE"}]
    BY <1>2
  <2> HIDE DEF batch
  <2>1. alert[n] \in [status: {"NONE"} \union Statuses,
                      attempts: 0 .. MaxAttempts, next: {"UNSET", "WAITING", "DUE"}]
    BY <1>1 DEF OutboxOK
  <2>2. alert'[n] = [alert[n] EXCEPT !.attempts = @ + 1, !.next = "WAITING"]
    BY <1>1, <1>2
  <2>3. alert[n].attempts + 1 \in 0 .. MaxAttempts
    BY <1>1, <2>1, PushAssumption
  <2> QED
    BY <1>1, <2>1, <2>2, <2>3
<1> HIDE DEF batch
<1>4. \A n \in batch : NewClaim(n) \in Claims /\ NewClaim(n).step = "CHECK"
  <2> SUFFICES ASSUME NEW n \in batch PROVE alert[n].attempts + 1 \in 1 .. MaxAttempts
    BY DEF NewClaim, Claims
  <2>1. alert[n].attempts \in 0 .. MaxAttempts
    BY <1>1 DEF OutboxOK
  <2> QED
    BY <1>1, <2>1, PushAssumption
<1>5. /\ new.claim \in ClaimsOf /\ DOMAIN new.claim = batch
      /\ new \in [phase: {"IDLE", "EXPIRE", "CLAIM", "DELIVER"}, claim: ClaimsOf]
      /\ new.phase # "DELIVER" => batch = {}
      /\ \A n \in batch : new.claim[n].step = "CHECK"
  <2>1. CASE batch = {}
    <3>1. DOMAIN NothingClaimed = {} /\ NothingClaimed = [k \in DOMAIN NothingClaimed |-> NothingClaimed[k]]
      BY DEF NothingClaimed
    <3>2. NothingClaimed \in ClaimsOf
      BY <3>1, ClaimsOfFacts
    <3>3. new = [phase |-> "IDLE", claim |-> NothingClaimed]
      BY <2>1 DEF Resting
    <3> HIDE DEF new
    <3> QED
      BY <2>1, <3>1, <3>2, <3>3
  <2>2. CASE batch # {}
    <3>1. DOMAIN held2 = batch /\ held2 = [k \in DOMAIN held2 |-> held2[k]]
          /\ \A k \in batch : held2[k] = NewClaim(k)
      OBVIOUS
    <3>2. \A k \in DOMAIN held2 : held2[k] \in Claims
      BY <1>4, <3>1
    <3>3. new = [phase |-> "DELIVER", claim |-> held2]
      BY <2>2
    <3> HIDE DEF held2, new
    <3>4. held2 \in ClaimsOf
      BY <1>1, <3>1, <3>2, ClaimsOfFacts
    <3> QED
      BY <1>4, <3>1, <3>3, <3>4
  <2> QED
    BY <2>1, <2>2
<1> HIDE DEF new
<1>6. /\ sending'[p] = new
      /\ \A q \in Senders \ {p} : sending'[q] = sending[q]
      /\ sending' \in [Senders -> [phase: {"IDLE", "EXPIRE", "CLAIM", "DELIVER"}, claim: ClaimsOf]]
  BY <1>2, <1>5 DEF OutboxOK
<1>7. /\ \A n \in Alerts, q \in Senders \ {p} : SameHold(n, q)
      /\ \A n \in Alerts \ batch : SameHold(n, p)
  BY <1>1, <1>5, <1>6 DEF SameHold
<1>8. OutboxOK'
  <2>1. alert' \in [Alerts -> [status: {"NONE"} \union Statuses,
                      attempts: 0 .. MaxAttempts, next: {"UNSET", "WAITING", "DUE"}]]
    <3>1. \A n \in Alerts : alert'[n] \in [status: {"NONE"} \union Statuses,
                attempts: 0 .. MaxAttempts, next: {"UNSET", "WAITING", "DUE"}]
      BY <1>3 DEF OutboxOK
    <3>2. alert' = [n \in Alerts |-> alert'[n]]
      BY <1>2
    <3> QED
      BY <3>1, <3>2
  <2>2. \A n \in Alerts : /\ alert'[n].next = "WAITING" => alert'[n].status = "PENDING"
                          /\ alert'[n].status = "NONE" => alert'[n].attempts = 0
    BY <1>3 DEF OutboxOK
  <2>3. \A q \in Senders : sending'[q].phase # "DELIVER" => DOMAIN sending'[q].claim = {}
    BY <1>5, <1>6 DEF OutboxOK
  <2> QED
    BY <1>2, <1>6, <2>1, <2>2, <2>3 DEF OutboxOK
<1>9. ASSUME NEW n \in Alerts \ batch PROVE Account(n)'
  <2>1. alert'[n] = alert[n] /\ shown'[n] = shown[n] /\ causes'[n] = causes[n]
    BY <1>2, <1>3
  <2>2. \A q \in Senders : SameHold(n, q)
    BY <1>7
  <2> QED
    BY <2>1, <2>2, Elsewhere
<1>10. ASSUME NEW n \in batch PROVE Account(n)'
  <2>1. n \in Alerts /\ Account(n)
    BY <1>1
  <2>2. /\ IsFiniteSet(Live(n)')
        /\ Cardinality(Live(n)) \in Nat /\ Cardinality(Live(n)') \in Nat
        /\ Cardinality(Unsent(n)) \in Nat /\ Cardinality(Unsent(n)') \in Nat
        /\ Cardinality(Blind(n)) \in Nat /\ Cardinality(Blind(n)') \in Nat
        /\ Cardinality(Live(n)') + (IF p \in Live(n) THEN 1 ELSE 0)
             = Cardinality(Live(n)) + (IF p \in Live(n)' THEN 1 ELSE 0)
        /\ Cardinality(Unsent(n)') + (IF p \in Unsent(n) THEN 1 ELSE 0)
             = Cardinality(Unsent(n)) + (IF p \in Unsent(n)' THEN 1 ELSE 0)
        /\ Cardinality(Blind(n)') + (IF p \in Blind(n) THEN 1 ELSE 0)
             = Cardinality(Blind(n)) + (IF p \in Blind(n)' THEN 1 ELSE 0)
    BY <1>7, <2>1, OneClaim DEF Account
  <2>3. p \notin Holders(n) /\ p \in Holders(n)' /\ sending'[p].claim[n].step = "CHECK"
    BY <1>1, <1>5, <1>6 DEF Holders
  <2>4. p \notin Live(n) /\ p \notin Unsent(n) /\ p \notin Blind(n)
    BY <2>3 DEF Live, Unsent, Blind
  <2>5. p \in Live(n)' /\ p \in Unsent(n)' /\ p \notin Blind(n)'
    BY <2>3 DEF Live, Unsent, Blind, LiveClaim, UnsentClaim, BlindClaim
  <2>6. Chance(n) = 1 /\ Chance(n)' = 0
    BY <1>1, <1>3, <2>1, <2>3 DEF Chance, Loose
  <2>7. /\ Cardinality(Live(n)') = Cardinality(Live(n)) + 1
        /\ Cardinality(Unsent(n)') = Cardinality(Unsent(n)) + 1
        /\ Cardinality(Blind(n)') = Cardinality(Blind(n))
    BY <2>2, <2>4, <2>5
  <2>8. ASSUME NEW d \in Devices
        PROVE  /\ shown[n][d] + Cardinality(Unsent(n)') <= alert[n].attempts + 1
               /\ \/ causes[n] = MaxAttempts - 1
                  \/ shown[n][d] + Cardinality(Live(n)') + Cardinality(Blind(n)') + 0
                       <= 1 + causes[n]
    BY <2>1, <2>2, <2>6, <2>7, AccountNumbers
  <2> QED
    BY <1>2, <1>3, <2>1, <2>2, <2>6, <2>8 DEF Account
<1> QED
  BY <1>8, <1>9, <1>10

\* A process dies with what it holds.
LEMMA CrashKeeps ==
    ASSUME PushInv, NEW p \in Senders, SenderCrashes(p)
    PROVE  PushInv'
<1> USE DEF PushInv
<1>1. /\ sending' = [sending EXCEPT ![p] = [phase |-> "IDLE", claim |-> NothingClaimed]]
      /\ causes' = [n \in Alerts |->
            IF n \in DOMAIN sending[p].claim THEN OneCauseMore(n) ELSE causes[n]]
      /\ UNCHANGED <<alert, shown>>
  BY DEF SenderCrashes, Resting
<1>2. DOMAIN NothingClaimed = {} /\ NothingClaimed \in ClaimsOf
  <2>1. DOMAIN NothingClaimed = {} /\ NothingClaimed = [k \in DOMAIN NothingClaimed |-> NothingClaimed[k]]
    BY DEF NothingClaimed
  <2> QED
    BY <2>1, ClaimsOfFacts
<1>3. /\ sending'[p] = [phase |-> "IDLE", claim |-> NothingClaimed]
      /\ \A q \in Senders \ {p} : sending'[q] = sending[q]
      /\ sending' \in [Senders -> [phase: {"IDLE", "EXPIRE", "CLAIM", "DELIVER"}, claim: ClaimsOf]]
  BY <1>1, <1>2 DEF OutboxOK
<1>4. OutboxOK'
  <2>1. causes' \in [Alerts -> 0 .. MaxAttempts - 1]
    BY <1>1, CauseFacts
  <2>2. \A q \in Senders : sending'[q].phase # "DELIVER" => DOMAIN sending'[q].claim = {}
    <3>1. sending'[p].claim = NothingClaimed
      BY <1>3
    <3>2. ASSUME NEW q \in Senders \ {p}, sending'[q].phase # "DELIVER"
          PROVE  DOMAIN sending'[q].claim = {}
      BY <1>3, <3>2 DEF OutboxOK
    <3> QED
      BY <1>2, <3>1, <3>2
  <2> QED
    BY <1>1, <1>3, <2>1, <2>2 DEF OutboxOK
<1>5. /\ \A n \in Alerts, q \in Senders \ {p} : SameHold(n, q)
      /\ \A n \in Alerts \ DOMAIN sending[p].claim : SameHold(n, p)
  BY <1>2, <1>3 DEF SameHold
<1>6. ASSUME NEW n \in Alerts \ DOMAIN sending[p].claim PROVE Account(n)'
  BY <1>1, <1>5, <1>6, Elsewhere
<1>7. ASSUME NEW n \in Alerts, n \in DOMAIN sending[p].claim PROVE Account(n)'
  <2>1. Account(n)
    OBVIOUS
  <2>2. /\ IsFiniteSet(Live(n)')
        /\ Cardinality(Live(n)) \in Nat /\ Cardinality(Live(n)') \in Nat
        /\ Cardinality(Unsent(n)) \in Nat /\ Cardinality(Unsent(n)') \in Nat
        /\ Cardinality(Blind(n)) \in Nat /\ Cardinality(Blind(n)') \in Nat
        /\ Cardinality(Live(n)') + (IF p \in Live(n) THEN 1 ELSE 0)
             = Cardinality(Live(n)) + (IF p \in Live(n)' THEN 1 ELSE 0)
        /\ Cardinality(Unsent(n)') + (IF p \in Unsent(n) THEN 1 ELSE 0)
             = Cardinality(Unsent(n)) + (IF p \in Unsent(n)' THEN 1 ELSE 0)
        /\ Cardinality(Blind(n)') + (IF p \in Blind(n) THEN 1 ELSE 0)
             = Cardinality(Blind(n)) + (IF p \in Blind(n)' THEN 1 ELSE 0)
    BY <1>5, <2>1, OneClaim DEF Account
  <2>3. p \in Holders(n) /\ p \notin Holders(n)'
    BY <1>2, <1>3, <1>7 DEF Holders
  <2>4. p \notin Live(n)' /\ p \notin Unsent(n)' /\ p \notin Blind(n)'
    BY <2>3 DEF Live, Unsent, Blind
  <2>5. /\ Cardinality(Live(n)') <= Cardinality(Live(n))
        /\ Cardinality(Unsent(n)') <= Cardinality(Unsent(n))
        /\ Cardinality(Blind(n)') <= Cardinality(Blind(n))
    BY <2>2, <2>4
  <2>6. Chance(n)' \in Nat /\ Chance(n)' <= 1
    BY DEF Chance
  <2>7. /\ causes[n] \in Int
        /\ \/ causes'[n] = MaxAttempts - 1
           \/ causes[n] # MaxAttempts - 1 /\ causes'[n] = causes[n] + 1
    BY <1>1, <1>7, CauseFacts
  <2>8. ASSUME NEW d \in Devices
        PROVE  /\ shown[n][d] + Cardinality(Unsent(n)') <= alert[n].attempts
               /\ \/ causes'[n] = MaxAttempts - 1
                  \/ shown[n][d] + Cardinality(Live(n)') + Cardinality(Blind(n)') + Chance(n)'
                       <= 1 + causes'[n]
    BY <2>1, <2>2, <2>5, <2>6, <2>7, AccountNumbers
  <2>9. alert' = alert /\ shown' = shown
    BY <1>1
  <2> QED
    BY <2>2, <2>8, <2>9 DEF Account
<1> QED
  BY <1>4, <1>6, <1>7

\* The outbox at first: nothing is shown, and every alert can be claimed.
LEMMA PushInitOK == PushInit => PushInv
<1> SUFFICES ASSUME PushInit PROVE PushInv
  OBVIOUS
<1>1. DOMAIN NothingClaimed = {} /\ NothingClaimed = [k \in DOMAIN NothingClaimed |-> NothingClaimed[k]]
  BY DEF NothingClaimed
<1>2. NothingClaimed \in ClaimsOf
  BY <1>1, ClaimsOfFacts
<1>3. OutboxOK
  <2>1. sending \in [Senders -> [phase: {"IDLE", "EXPIRE", "CLAIM", "DELIVER"}, claim: ClaimsOf]]
        /\ \A p \in Senders : DOMAIN sending[p].claim = {}
    BY <1>1, <1>2 DEF PushInit, Resting
  <2>2. /\ alert \in [Alerts -> [status: {"NONE"} \union Statuses,
                        attempts: 0 .. MaxAttempts, next: {"UNSET", "WAITING", "DUE"}]]
        /\ \A n \in Alerts : alert[n].next = "UNSET" /\ alert[n].attempts = 0
    BY PushAssumption DEF PushInit
  <2>3. shown \in [Alerts -> [Devices -> Nat]] /\ causes \in [Alerts -> 0 .. MaxAttempts - 1]
    BY PushAssumption DEF PushInit
  <2> QED
    BY <2>1, <2>2, <2>3 DEF OutboxOK
<1>4. ASSUME NEW n \in Alerts PROVE Account(n)
  <2>1. Holders(n) = {}
    BY <1>1 DEF PushInit, Resting, Holders
  <2>2. Live(n) = {} /\ Unsent(n) = {} /\ Blind(n) = {}
    BY <2>1 DEF Live, Unsent, Blind
  <2>3. IsFiniteSet({}) /\ Cardinality({}) = 0
    BY FS_EmptySet
  <2>4. /\ alert[n].attempts = 0 /\ causes[n] = 0 /\ Chance(n) = 1
        /\ \A d \in Devices : shown[n][d] = 0
    BY DEF PushInit, Chance, Loose
  <2> QED
    BY <2>2, <2>3, <2>4 DEF Account
<1> QED
  BY <1>3, <1>4 DEF PushInv

\* Every step of a process keeps the account of every alert.
LEMMA SenderKeeps ==
    ASSUME PushInv, NEW p \in Senders, SenderGoesOn(p)
    PROVE  PushInv'
<1>1. CASE DisableDeliveriesWithoutDevices(p)
  <2> DEFINE E == {n \in Alerts : Due(n) /\ DevicesOf(Recipient[n]) = {}}
  <2>1. /\ sending[p].phase # "DELIVER" /\ sending' = [sending EXCEPT ![p].phase = "EXPIRE"]
        /\ alert' = [n \in Alerts |-> IF n \in E THEN Ended(n, "DISABLED") ELSE alert[n]]
        /\ UNCHANGED <<shown, causes>>
    BY <1>1 DEF DisableDeliveriesWithoutDevices
  <2>2. "DISABLED" \in Statuses /\ E \in SUBSET Alerts
    BY DEF Statuses
  <2> HIDE DEF E
  <2> QED
    BY <2>1, <2>2, EndingKeeps
<1>2. CASE FailExpiredAttempts(p)
  <2> DEFINE E == {n \in Alerts : Due(n) /\ alert[n].next = "DUE" /\ alert[n].attempts >= MaxAttempts}
  <2>1. /\ sending[p].phase # "DELIVER" /\ sending' = [sending EXCEPT ![p].phase = "CLAIM"]
        /\ alert' = [n \in Alerts |-> IF n \in E THEN Ended(n, "FAILED") ELSE alert[n]]
        /\ UNCHANGED <<shown, causes>>
    BY <1>2 DEF FailExpiredAttempts
  <2>2. "FAILED" \in Statuses /\ E \in SUBSET Alerts
    BY DEF Statuses
  <2> HIDE DEF E
  <2> QED
    BY <2>1, <2>2, EndingKeeps
<1> QED
  BY <1>1, <1>2, ClaimKeeps, NothingToSendKeeps, ReadDevicesKeeps, SendKeeps,
     DisableInvalidKeeps, RecordKeeps DEF SenderGoesOn

\* Two processes, retries, crashes and results that overwrite one another
\* show an alert again only as often as something went wrong with it.
THEOREM RepeatedOnlyForCauseSafe == PushSpec => []RepeatedOnlyForCause
<1>1. PushInit => PushInv
  BY PushInitOK
<1>2. PushInv /\ [PushNext]_pushVars => PushInv'
  <2> SUFFICES ASSUME PushInv, [PushNext]_pushVars PROVE PushInv'
    OBVIOUS
  <2>1. CASE UNCHANGED <<alert, sending, shown, causes>>
    <3>1. OutboxOK'
      BY <2>1 DEF PushInv, OutboxOK
    <3>2. ASSUME NEW n \in Alerts PROVE Account(n)'
      BY <2>1, Elsewhere DEF PushInv, SameHold
    <3> QED
      BY <3>1, <3>2 DEF PushInv
  <2>2. ASSUME NEW p \in Senders, SenderGoesOn(p) \/ SenderCrashes(p) PROVE PushInv'
    BY <2>2, SenderKeeps, CrashKeeps
  <2>3. ASSUME NEW n \in Alerts, Enqueue(n) \/ AttemptFallsDue(n) PROVE PushInv'
    BY <2>3, EnqueueKeeps, FallsDueKeeps
  <2> QED
    BY <2>1, <2>2, <2>3
       DEF PushNext, DecisionMoves, DisableDevice, RegisterDevice, RotateKey, pushVars
<1>3. PushInv => RepeatedOnlyForCause
  <2> SUFFICES ASSUME PushInv, NEW n \in Alerts, NEW d \in Devices
               PROVE  shown[n][d] <= 1 + causes[n]
    BY DEF RepeatedOnlyForCause
  <2>1. OutboxOK /\ Account(n) /\ IsFiniteSet(Live(n))
    BY DEF PushInv, Account
  <2> QED
    BY <2>1, Numbers, AccountNumbers, PushAssumption
<1> QED
  BY <1>1, <1>2, <1>3, PTL DEF PushSpec

-----------------------------------------------------------------------------
(* Work Chat: what the conversations keep, for any number of Workers,       *)
(* messages and clients                                                     *)

\* Who is in the Work Conversation, and which conversations are open.
RosterInv ==
    /\ InquiriesEndWithSelection
    /\ \A w \in Workers :
          /\ quest.status # "ENDED" /\ Current(w) => assignment[w] = "ACTIVE"
          /\ assignment[w] = "ACTIVE" => Current(w)
          /\ assignment[w] = "NONE" => membership[w].joinedAt = Never
    /\ \A m \in ChatMembers : membership[m].joinedAt = Never => membership[m].leftAt = Never
    /\ membership[Hirer].leftAt = Never
    /\ Active # {} => Current(Hirer)
    /\ quest.status # "ENDED" /\ Active # {} => conversation[Work] = "OPEN"
    /\ quest.status = "ENDED" => conversation[Work] # "OPEN"

\* The end of the Work Conversation is its last message, and no window of a
\* Member closes after the last message there is.
WorkMessagesInv ==
    /\ conversation[Work] = "READ_ONLY" => Now > 0 /\ messages[Work][Now].sender = System
    /\ conversation[Work] # "READ_ONLY" => \A i \in 1..Now : messages[Work][i].sender # System
    /\ \A m \in ChatMembers : membership[m].leftAt # Never => membership[m].leftAt <= Now

ChatInv == ChatTypeOK /\ RosterInv /\ WorkMessagesInv /\ SentOnce

\* Two messages of a conversation under one key of one sender are one.
LEMMA StoredOnce ==
    ASSUME SentOnce, NEW c \in Conversations,
           NEW i \in 1..Len(messages[c]), NEW j \in 1..Len(messages[c]),
           messages[c][i].sender # System,
           messages[c][i].sender = messages[c][j].sender, messages[c][i].key = messages[c][j].key
    PROVE  i = j
BY DEF SentOnce

\* A message more in a conversation.
LEMMA AppendedFacts ==
    ASSUME messages \in [Conversations -> Seq(MessageRow)], NEW c \in Conversations,
           NEW x \in MessageRow, messages' = [messages EXCEPT ![c] = Append(@, x)]
    PROVE  /\ messages' \in [Conversations -> Seq(MessageRow)]
           /\ \A k \in Conversations \ {c} : messages'[k] = messages[k]
           /\ Len(messages[c]) \in Nat /\ Len(messages'[c]) = Len(messages[c]) + 1
           /\ messages'[c][Len(messages[c]) + 1] = x
           /\ \A i \in 1..Len(messages[c]) : messages'[c][i] = messages[c][i]
<1> DEFINE s == messages[c]
           t == Append(s, x)
<1>1. s \in Seq(MessageRow)
  OBVIOUS
<1>2. /\ t \in Seq(MessageRow) /\ Len(s) \in Nat /\ Len(t) = Len(s) + 1
      /\ t[Len(s) + 1] = x
      /\ \A i \in 1..Len(s) : t[i] = s[i]
  BY <1>1
<1>3. messages' = [messages EXCEPT ![c] = t]
  OBVIOUS
<1> HIDE DEF t
<1>4. /\ messages'[c] = t /\ messages' \in [Conversations -> Seq(MessageRow)]
      /\ \A k \in Conversations \ {c} : messages'[k] = messages[k]
  BY <1>2, <1>3
<1> QED
  BY <1>2, <1>4

\* Work is a conversation of its own, and the Hirer none of the Workers.
LEMMA Names ==
    /\ Work \in Conversations /\ Work \notin Workers
    /\ Hirer \in ChatMembers /\ Hirer \notin Workers /\ Workers \subseteq ChatMembers
    /\ System \notin ChatMembers /\ Workers \subseteq Conversations
BY WorkChatAssumptions DEF Conversations, ChatMembers

\* The messages of a step that stores none.
LEMMA NoMessage ==
    ASSUME ChatInv, UNCHANGED messages,
           conversation'[Work] = "READ_ONLY" <=> conversation[Work] = "READ_ONLY",
           \A m \in ChatMembers : membership'[m].leftAt # Never =>
              membership'[m] = membership[m] \/ membership'[m].leftAt <= Now
    PROVE  WorkMessagesInv' /\ SentOnce'
<1>1. SentOnce'
  BY DEF ChatInv, SentOnce
<1>2. WorkMessagesInv'
  BY DEF ChatInv, WorkMessagesInv, Now
<1> QED
  BY <1>1, <1>2

\* What closing Inquiries does.
LEMMA ClosedFacts ==
    ASSUME NEW S, S \subseteq Workers, NEW chat \in [Conversations -> ConversationRow]
    PROVE  /\ CloseInquiries(S, chat) \in [Conversations -> ConversationRow]
           /\ CloseInquiries(S, chat)[Work] = chat[Work]
           /\ \A w \in Workers : /\ CloseInquiries(S, chat)[w] = "OPEN" => chat[w] = "OPEN"
                                 /\ w \in S => CloseInquiries(S, chat)[w] # "OPEN"
BY Names DEF CloseInquiries, ConversationRow

\* Workers are accepted.
LEMMA AcceptKeeps ==
    ASSUME ChatInv, NEW S \in SUBSET Workers, S # {}, AcceptWorkers(S)
    PROVE  ChatInv'
<1> USE DEF ChatInv
<1> DEFINE full == Cardinality(Active \union S) = Headcount
           status == IF full THEN "ASSIGNED" ELSE "OPEN"
           chat == [conversation EXCEPT ![Work] = "OPEN"]
           closed == IF status = "ASSIGNED" THEN Workers ELSE S
<1>1. /\ quest.status = "OPEN" /\ ~quest.hidden
      /\ \A w \in S : assignment[w] = "NONE"
      /\ quest' = [quest EXCEPT !.status = status]
      /\ assignment' = [w \in Workers |-> IF w \in S THEN "ACTIVE" ELSE assignment[w]]
      /\ conversation[Work] # "READ_ONLY"
      /\ conversation' = CloseInquiries(closed, chat)
      /\ membership' = [m \in ChatMembers |->
            IF m = Hirer \/ m \in S THEN Joins(m, Now) ELSE membership[m]]
      /\ messages' = messages
  BY DEF AcceptWorkers, CloseInquiriesOfAccepted
<1>2. status \in {"OPEN", "ASSIGNED"}
  OBVIOUS
<1>3. /\ quest'.status = status /\ quest'.status # "ENDED"
      /\ quest' \in [status : {"OPEN", "ASSIGNED", "ENDED"}, hidden : BOOLEAN]
  BY <1>1, <1>2 DEF ChatTypeOK
<1>4. chat \in [Conversations -> ConversationRow] /\ chat[Work] = "OPEN"
      /\ \A w \in Workers : chat[w] = conversation[w]
  BY Names DEF ChatTypeOK, ConversationRow
<1>5. closed \subseteq Workers /\ S \subseteq closed
  OBVIOUS
<1> HIDE DEF chat
<1>6. /\ conversation' \in [Conversations -> ConversationRow]
      /\ conversation'[Work] = "OPEN"
      /\ \A w \in Workers : /\ conversation'[w] = "OPEN" => conversation[w] = "OPEN"
                            /\ w \in closed => conversation'[w] # "OPEN"
  <2>1. conversation' = CloseInquiries(closed, chat)
    BY <1>1
  <2> HIDE DEF closed
  <2>2. /\ CloseInquiries(closed, chat) \in [Conversations -> ConversationRow]
        /\ CloseInquiries(closed, chat)[Work] = chat[Work]
        /\ \A w \in Workers : /\ CloseInquiries(closed, chat)[w] = "OPEN" => chat[w] = "OPEN"
                              /\ w \in closed => CloseInquiries(closed, chat)[w] # "OPEN"
    BY <1>4, <1>5, ClosedFacts
  <2> QED
    BY <1>4, <2>1, <2>2
<1>7. /\ assignment' \in [Workers -> {"NONE", "ACTIVE", "ENDED"}]
      /\ \A w \in Workers : assignment'[w] = IF w \in S THEN "ACTIVE" ELSE assignment[w]
  BY <1>1 DEF ChatTypeOK
<1>8. Now \in Nat /\ Now # Never
  BY Names DEF ChatTypeOK, Now, Never
<1>9. \A m \in ChatMembers :
        /\ membership[m] \in MembershipRow
        /\ Joins(m, Now) \in MembershipRow
        /\ membership[m].joinedAt = Never
           => Joins(m, Now).joinedAt # Never /\ Joins(m, Now).leftAt = Never
        /\ membership[m].joinedAt # Never => Joins(m, Now) = membership[m]
  BY <1>8 DEF ChatTypeOK, Joins, MembershipRow
<1>10. /\ membership' \in [ChatMembers -> MembershipRow]
       /\ \A m \in ChatMembers : membership'[m] =
             IF m = Hirer \/ m \in S THEN Joins(m, Now) ELSE membership[m]
  BY <1>1, <1>9
<1>11. ChatTypeOK'
  BY <1>1, <1>3, <1>6, <1>7, <1>10 DEF ChatTypeOK
<1>12. \A w \in Workers : Current(w)' <=> assignment'[w] = "ACTIVE"
  <2> SUFFICES ASSUME NEW w \in Workers PROVE Current(w)' <=> assignment'[w] = "ACTIVE"
    OBVIOUS
  <2>1. w \in ChatMembers /\ w # Hirer
    BY Names
  <2>2. CASE w \in S
    BY <1>1, <1>7, <1>9, <1>10, <2>1, <2>2 DEF RosterInv, Current
  <2>3. CASE w \notin S
    BY <1>1, <1>7, <1>10, <2>1, <2>3 DEF RosterInv, Current
  <2> QED
    BY <2>2, <2>3
<1>13. membership'[Hirer].leftAt = Never /\ membership'[Hirer].joinedAt # Never
  BY <1>9, <1>10, Names DEF RosterInv
<1>14. InquiriesEndWithSelection'
  <2> SUFFICES ASSUME NEW w \in Workers, conversation'[w] = "OPEN"
               PROVE  quest'.status = "OPEN" /\ assignment'[w] # "ACTIVE"
    BY DEF InquiriesEndWithSelection, Active
  <2>1. w \notin closed /\ conversation[w] = "OPEN"
    BY <1>6
  <2>2. w \notin S /\ quest'.status = "OPEN"
    BY <1>2, <1>3, <2>1
  <2> QED
    BY <1>7, <2>1, <2>2 DEF RosterInv, InquiriesEndWithSelection, Active
<1>15. RosterInv'
  <2>1. \A w \in Workers : assignment'[w] = "NONE" => membership'[w].joinedAt = Never
    BY <1>7, <1>10, Names DEF RosterInv
  <2>2. \A m \in ChatMembers : membership'[m].joinedAt = Never => membership'[m].leftAt = Never
    BY <1>9, <1>10 DEF RosterInv
  <2>3. Current(Hirer)'
    BY <1>13 DEF Current
  <2> QED
    BY <1>3, <1>6, <1>12, <1>13, <1>14, <2>1, <2>2, <2>3 DEF RosterInv
<1>16. \A m \in ChatMembers : membership'[m].leftAt # Never => membership'[m] = membership[m]
  BY <1>9, <1>10
<1> QED
  BY <1>1, <1>6, <1>11, <1>15, <1>16, NoMessage

\* The Hirer goes on with who is there.
LEMMA StartKeeps ==
    ASSUME ChatInv, StartUnderfilled
    PROVE  ChatInv'
<1> USE DEF ChatInv
<1>1. /\ quest.status = "OPEN" /\ quest' = [quest EXCEPT !.status = "ASSIGNED"]
      /\ UNCHANGED <<assignment, membership, messages>>
  BY DEF StartUnderfilled
<1>2. /\ quest'.status = "ASSIGNED"
      /\ quest' \in [status : {"OPEN", "ASSIGNED", "ENDED"}, hidden : BOOLEAN]
  BY <1>1 DEF ChatTypeOK
<1>3. /\ conversation' \in [Conversations -> ConversationRow]
      /\ conversation'[Work] = conversation[Work]
      /\ \A w \in Workers : conversation'[w] # "OPEN"
  <2>1. conversation \in [Conversations -> ConversationRow]
    BY DEF ChatTypeOK
  <2>2. /\ CloseInquiries(Workers, conversation) \in [Conversations -> ConversationRow]
        /\ CloseInquiries(Workers, conversation)[Work] = conversation[Work]
        /\ \A w \in Workers : CloseInquiries(Workers, conversation)[w] # "OPEN"
    BY <2>1, ClosedFacts
  <2> QED
    BY <2>2 DEF StartUnderfilled
<1>4. ChatTypeOK'
  BY <1>1, <1>2, <1>3 DEF ChatTypeOK
<1>5. RosterInv'
  BY <1>1, <1>2, <1>3 DEF RosterInv, InquiriesEndWithSelection, Active, Current
<1> QED
  BY <1>1, <1>3, <1>4, <1>5, NoMessage

\* The Quest is hidden, or shown again.
LEMMA HideQuestKeeps ==
    ASSUME ChatInv, HideOrShowQuest
    PROVE  ChatInv'
<1> USE DEF ChatInv
<1>1. /\ quest' = [quest EXCEPT !.hidden = ~@]
      /\ UNCHANGED <<assignment, conversation, membership, messages>>
  BY DEF HideOrShowQuest
<1>2. /\ quest'.status = quest.status
      /\ quest' \in [status : {"OPEN", "ASSIGNED", "ENDED"}, hidden : BOOLEAN]
  BY <1>1 DEF ChatTypeOK
<1>3. ChatTypeOK'
  BY <1>1, <1>2 DEF ChatTypeOK
<1>4. RosterInv'
  BY <1>1, <1>2 DEF RosterInv, InquiriesEndWithSelection, Active, Current
<1> QED
  BY <1>1, <1>3, <1>4, NoMessage

\* Windows that close.
LEMMA LeaveFacts ==
    ASSUME ChatTypeOK, NEW S \in SUBSET Workers, NEW at \in 0..Now,
           membership' = LeaveAt(S, at)
    PROVE  /\ membership' \in [ChatMembers -> MembershipRow]
           /\ Now \in Nat
           /\ \A m \in ChatMembers :
                 /\ membership'[m].joinedAt = membership[m].joinedAt
                 /\ ~(m \in S /\ Current(m)) => membership'[m] = membership[m]
                 /\ m \in S /\ Current(m) => membership'[m].leftAt = at /\ at # Never /\ at <= Now
<1>1. Now \in Nat
  BY Names DEF ChatTypeOK, Now
<1>2. at \in Nat /\ at # Never /\ at <= Now
  BY <1>1 DEF Never
<1>3. \A m \in ChatMembers : membership[m] \in MembershipRow
  BY DEF ChatTypeOK
<1>4. \A m \in ChatMembers : membership'[m] =
         IF m \in S /\ Current(m) THEN [membership[m] EXCEPT !.leftAt = at] ELSE membership[m]
  BY DEF LeaveAt
<1>5. \A m \in ChatMembers : /\ [membership[m] EXCEPT !.leftAt = at] \in MembershipRow
                          /\ [membership[m] EXCEPT !.leftAt = at].leftAt = at
                          /\ [membership[m] EXCEPT !.leftAt = at].joinedAt = membership[m].joinedAt
  BY <1>2, <1>3 DEF MembershipRow
<1>6. membership' = [m \in ChatMembers |-> membership'[m]]
  BY DEF LeaveAt
<1>7. \A m \in ChatMembers : membership'[m] \in MembershipRow
  BY <1>3, <1>4, <1>5
<1>8. membership' \in [ChatMembers -> MembershipRow]
  BY <1>6, <1>7
<1> QED
  BY <1>1, <1>2, <1>4, <1>5, <1>8

\* One Worker is done while others work on.
LEMMA SettleKeeps ==
    ASSUME ChatInv, NEW w \in Workers, NEW at \in 0..Now, SettleOneWorker(w, at)
    PROVE  ChatInv'
<1> USE DEF ChatInv
<1>1. /\ quest.status = "ASSIGNED" /\ w \in Active /\ conversation[Work] = "OPEN"
      /\ assignment' = [assignment EXCEPT ![w] = "ENDED"]
      /\ membership' = LeaveAt({w}, at)
      /\ UNCHANGED <<quest, conversation, messages>>
  BY DEF SettleOneWorker
<1>2. /\ membership' \in [ChatMembers -> MembershipRow] /\ Now \in Nat
      /\ \A m \in ChatMembers :
            /\ membership'[m].joinedAt = membership[m].joinedAt
            /\ ~(m \in {w} /\ Current(m)) => membership'[m] = membership[m]
            /\ m \in {w} /\ Current(m) => membership'[m].leftAt = at /\ at # Never /\ at <= Now
  <2>1. {w} \in SUBSET Workers /\ membership' = LeaveAt({w}, at) /\ ChatTypeOK
    BY <1>1
  <2> QED
    BY <2>1, LeaveFacts
<1>3. /\ assignment' \in [Workers -> {"NONE", "ACTIVE", "ENDED"}]
      /\ assignment'[w] = "ENDED" /\ \A v \in Workers \ {w} : assignment'[v] = assignment[v]
  BY <1>1 DEF ChatTypeOK
<1>4. ChatTypeOK'
  BY <1>1, <1>2, <1>3 DEF ChatTypeOK
<1>5. Current(w) /\ w \in ChatMembers /\ w # Hirer /\ ~Current(w)'
  BY <1>1, <1>2, Names DEF RosterInv, Active, Current
<1>6. RosterInv'
  <2>1. \A v \in Workers : (Current(v)' <=> assignment'[v] = "ACTIVE")
                          /\ (assignment'[v] = "NONE" => membership'[v].joinedAt = Never)
    <3> SUFFICES ASSUME NEW v \in Workers
                 PROVE  /\ Current(v)' <=> assignment'[v] = "ACTIVE"
                        /\ assignment'[v] = "NONE" => membership'[v].joinedAt = Never
      OBVIOUS
    <3>1. CASE v = w
      BY <1>3, <1>5, <3>1
    <3>2. CASE v # w
      <4>1. membership'[v] = membership[v] /\ assignment'[v] = assignment[v]
        BY <1>2, <1>3, <3>2, Names
      <4> QED
        BY <1>1, <4>1 DEF RosterInv, Current
    <3> QED
      BY <3>1, <3>2
  <2>2. InquiriesEndWithSelection'
    BY <1>1 DEF RosterInv, InquiriesEndWithSelection
  <2>3. /\ \A m \in ChatMembers : membership'[m].joinedAt = Never => membership'[m].leftAt = Never
        /\ membership'[Hirer] = membership[Hirer]
    BY <1>2, <1>5, Names DEF RosterInv, Current
  <2> QED
    BY <1>1, <2>1, <2>2, <2>3 DEF RosterInv, Current
<1>7. \A m \in ChatMembers : membership'[m].leftAt # Never =>
         membership'[m] = membership[m] \/ membership'[m].leftAt <= Now
  BY <1>2
<1> QED
  BY <1>1, <1>4, <1>6, <1>7, NoMessage

\* The Quest ends.
LEMMA EndKeeps ==
    ASSUME ChatInv, NEW E \in SUBSET Active, NEW S \in SUBSET E, NEW at \in 0..Now,
           EndQuest(E, S, at)
    PROVE  ChatInv'
<1> USE DEF ChatInv
<1> DEFINE chat == [conversation EXCEPT ![Work] = IF @ = "OPEN" THEN "READ_ONLY" ELSE @]
<1>1. /\ quest' = [quest EXCEPT !.status = "ENDED"]
      /\ assignment' = [w \in Workers |-> IF w \in E THEN "ENDED" ELSE assignment[w]]
      /\ membership' = LeaveAt(S, at)
      /\ conversation' = CloseInquiries(Workers, chat)
      /\ messages' = [messages EXCEPT ![Work] =
            IF conversation[Work] = "OPEN" THEN Append(@, SystemMessage(at)) ELSE @]
  BY DEF EndQuest
<1>2. S \in SUBSET Workers
  BY DEF Active
<1>3. /\ membership' \in [ChatMembers -> MembershipRow] /\ Now \in Nat
      /\ \A m \in ChatMembers :
            /\ membership'[m].joinedAt = membership[m].joinedAt
            /\ ~(m \in S /\ Current(m)) => membership'[m] = membership[m]
            /\ m \in S /\ Current(m) => membership'[m].leftAt = at /\ at # Never /\ at <= Now
  BY <1>1, <1>2, LeaveFacts
<1>4. /\ assignment' \in [Workers -> {"NONE", "ACTIVE", "ENDED"}]
      /\ \A w \in Workers :
            /\ assignment'[w] = "ACTIVE" => assignment[w] = "ACTIVE" /\ w \notin S
            /\ assignment'[w] = "NONE" => assignment[w] = "NONE"
  BY <1>1 DEF ChatTypeOK, Active
<1>5. chat \in [Conversations -> ConversationRow]
      /\ chat[Work] = IF conversation[Work] = "OPEN" THEN "READ_ONLY" ELSE conversation[Work]
  BY Names DEF ChatTypeOK, ConversationRow
<1> HIDE DEF chat
<1>6. /\ conversation' \in [Conversations -> ConversationRow]
      /\ conversation'[Work] = chat[Work]
      /\ \A w \in Workers : conversation'[w] # "OPEN"
  <2>1. /\ CloseInquiries(Workers, chat) \in [Conversations -> ConversationRow]
        /\ CloseInquiries(Workers, chat)[Work] = chat[Work]
        /\ \A w \in Workers : CloseInquiries(Workers, chat)[w] # "OPEN"
    <3>1. Workers \subseteq Workers /\ chat \in [Conversations -> ConversationRow]
      BY <1>5
    <3>2. /\ CloseInquiries(Workers, chat) \in [Conversations -> ConversationRow]
          /\ CloseInquiries(Workers, chat)[Work] = chat[Work]
          /\ \A w \in Workers : w \in Workers => CloseInquiries(Workers, chat)[w] # "OPEN"
      BY <3>1, ClosedFacts
    <3> QED
      BY <3>2
  <2> QED
    BY <1>1, <2>1
<1>7. /\ quest'.status = "ENDED"
      /\ quest' \in [status : {"OPEN", "ASSIGNED", "ENDED"}, hidden : BOOLEAN]
  BY <1>1 DEF ChatTypeOK
<1>8. RosterInv'
  <2>1. \A w \in Workers : assignment'[w] = "NONE" => membership'[w].joinedAt = Never
    BY <1>3, <1>4, Names DEF RosterInv
  <2>2. \A m \in ChatMembers : membership'[m].joinedAt = Never => membership'[m].leftAt = Never
    BY <1>3 DEF RosterInv, Current
  <2>3. membership'[Hirer].leftAt = Never
    BY <1>2, <1>3, Names DEF RosterInv
  <2>4. InquiriesEndWithSelection'
    BY <1>6 DEF InquiriesEndWithSelection
  <2>5. \A w \in Workers : assignment'[w] = "ACTIVE" => Current(w)'
    BY <1>3, <1>4, Names DEF RosterInv, Current
  <2>6. Active' # {} => Current(Hirer)'
    <3>1. Active' # {} => Active # {}
      BY <1>4 DEF Active
    <3>2. membership'[Hirer] = membership[Hirer]
      BY <1>2, <1>3, Names
    <3> QED
      BY <3>1, <3>2 DEF RosterInv, Current
  <2> QED
    BY <1>5, <1>6, <1>7, <2>1, <2>2, <2>3, <2>4, <2>5, <2>6 DEF RosterInv
<1>9. CASE conversation[Work] # "OPEN"
  <2>1. messages' = messages
    BY <1>1, <1>9 DEF ChatTypeOK
  <2>2. ChatTypeOK'
    BY <1>3, <1>4, <1>6, <1>7, <2>1 DEF ChatTypeOK
  <2>3. \A m \in ChatMembers : membership'[m].leftAt # Never =>
           membership'[m] = membership[m] \/ membership'[m].leftAt <= Now
    BY <1>3
  <2> QED
    BY <1>5, <1>6, <1>8, <1>9, <2>1, <2>2, <2>3, NoMessage
<1>10. CASE conversation[Work] = "OPEN"
  <2> DEFINE x == SystemMessage(at)
  <2>1. x \in MessageRow /\ x.sender = System
    BY <1>3 DEF SystemMessage, MessageRow
  <2>2. messages' = [messages EXCEPT ![Work] = Append(@, x)]
    BY <1>1, <1>10
  <2> HIDE DEF x
  <2>3. /\ messages' \in [Conversations -> Seq(MessageRow)]
        /\ \A k \in Conversations \ {Work} : messages'[k] = messages[k]
        /\ Len(messages'[Work]) = Now + 1
        /\ messages'[Work][Now + 1] = x
        /\ \A i \in 1..Now : messages'[Work][i] = messages[Work][i]
    BY <2>1, <2>2, Names, AppendedFacts DEF ChatTypeOK, Now
  <2>4. ChatTypeOK'
    BY <1>3, <1>4, <1>6, <1>7, <2>3 DEF ChatTypeOK
  <2>5. WorkMessagesInv'
    <3>1. Now' = Now + 1
      BY <2>3 DEF Now
    <3>2. Now' > 0 /\ messages'[Work][Now'].sender = System
      BY <1>3, <2>1, <2>3, <3>1
    <3>3. conversation'[Work] = "READ_ONLY"
      BY <1>5, <1>6, <1>10
    <3>4. \A m \in ChatMembers : membership'[m].leftAt # Never => membership'[m].leftAt <= Now'
      <4> SUFFICES ASSUME NEW m \in ChatMembers, membership'[m].leftAt # Never
                   PROVE  membership'[m].leftAt <= Now + 1
        BY <3>1
      <4>1. membership'[m].leftAt \in Int /\ membership'[m].leftAt <= Now
        BY <1>3 DEF WorkMessagesInv, MembershipRow, Never
      <4> QED
        BY <1>3, <4>1
    <3> QED
      BY <3>2, <3>3, <3>4 DEF WorkMessagesInv
  <2>6. SentOnce'
    <3> SUFFICES ASSUME NEW c \in Conversations, NEW i \in 1..Len(messages'[c]), NEW j \in 1..Len(messages'[c]),
                        messages'[c][i].sender # System,
                        messages'[c][i].sender = messages'[c][j].sender,
                        messages'[c][i].key = messages'[c][j].key
                 PROVE  i = j
      BY DEF SentOnce
    <3>1. CASE c # Work
      <4>1. messages'[c] = messages[c]
        BY <2>3, <3>1
      <4> QED
        BY <4>1, StoredOnce
    <3>2. CASE c = Work
      <4>1. i # Now + 1 /\ j # Now + 1
        BY <2>1, <2>3, <3>2
      <4>2. i \in 1..Now /\ j \in 1..Now
        BY <1>3, <2>3, <3>2, <4>1
      <4>3. messages'[c][i] = messages[c][i] /\ messages'[c][j] = messages[c][j]
        BY <2>3, <3>2, <4>2
      <4>4. i \in 1..Len(messages[c]) /\ j \in 1..Len(messages[c])
        BY <3>2, <4>2 DEF Now
      <4> QED
        BY <4>3, <4>4, StoredOnce
    <3> QED
      BY <3>1, <3>2
  <2> QED
    BY <1>8, <2>4, <2>5, <2>6
<1> QED
  BY <1>9, <1>10

\* Work of a failed Quest is decided.
LEMMA FailedWorkKeeps ==
    ASSUME ChatInv, NEW w \in Workers, DecideFailedWork(w)
    PROVE  ChatInv'
<1> USE DEF ChatInv
<1>1. /\ quest.status = "ENDED" /\ assignment' = [assignment EXCEPT ![w] = "ENDED"]
      /\ UNCHANGED <<quest, conversation, membership, messages>>
  BY DEF DecideFailedWork
<1>2. /\ assignment' \in [Workers -> {"NONE", "ACTIVE", "ENDED"}]
      /\ \A v \in Workers : /\ assignment'[v] = "ACTIVE" => assignment[v] = "ACTIVE"
                            /\ assignment'[v] = "NONE" => assignment[v] = "NONE"
  BY <1>1 DEF ChatTypeOK
<1>3. ChatTypeOK'
  BY <1>1, <1>2 DEF ChatTypeOK
<1>4. RosterInv'
  <2>1. Active' # {} => Active # {}
    BY <1>2 DEF Active
  <2>2. InquiriesEndWithSelection'
    BY <1>1 DEF RosterInv, InquiriesEndWithSelection
  <2> QED
    BY <1>1, <1>2, <2>1, <2>2 DEF RosterInv, Current
<1> QED
  BY <1>1, <1>3, <1>4, NoMessage

\* A Worker asks the Hirer.
LEMMA OpenKeeps ==
    ASSUME ChatInv, NEW w \in Workers, OpenInquiry(w)
    PROVE  ChatInv'
<1> USE DEF ChatInv
<1>1. /\ quest.status = "OPEN" /\ w \notin Active
      /\ conversation' = [conversation EXCEPT ![w] = "OPEN"]
      /\ UNCHANGED <<quest, assignment, membership, messages>>
  BY DEF OpenInquiry
<1>2. /\ conversation' \in [Conversations -> ConversationRow]
      /\ conversation'[Work] = conversation[Work]
      /\ \A v \in Workers \ {w} : conversation'[v] = conversation[v]
  BY <1>1, Names DEF ChatTypeOK, ConversationRow
<1>3. ChatTypeOK'
  BY <1>1, <1>2 DEF ChatTypeOK
<1>4. RosterInv'
  BY <1>1, <1>2 DEF RosterInv, InquiriesEndWithSelection, Active, Current
<1> QED
  BY <1>1, <1>2, <1>3, <1>4, NoMessage

\* A message of a Member, with a key he has not used in this conversation.
LEMMA StoreKeeps ==
    ASSUME ChatInv, NEW m \in ChatMembers, NEW c \in Conversations, NEW key \in ClientKeys,
           ~SentBefore(m, c, key), StoreMessage(m, c, key),
           c = Work => conversation[Work] = "OPEN"
    PROVE  ChatInv'
<1> USE DEF ChatInv
<1> DEFINE n == Len(messages[c])
           x == [sender |-> m, key |-> key, at |-> n + 1, hidden |-> FALSE]
<1>1. n \in Nat
  BY DEF ChatTypeOK
<1>2. x \in MessageRow /\ x.sender = m /\ x.key = key /\ m # System
  BY <1>1, Names DEF MessageRow
<1>3. messages' = [messages EXCEPT ![c] = Append(@, x)]
      /\ UNCHANGED <<quest, assignment, conversation, membership>>
  BY DEF StoreMessage
<1> HIDE DEF x
<1>4. /\ messages' \in [Conversations -> Seq(MessageRow)]
      /\ \A k \in Conversations \ {c} : messages'[k] = messages[k]
      /\ Len(messages'[c]) = n + 1
      /\ messages'[c][n + 1] = x
      /\ \A i \in 1..n : messages'[c][i] = messages[c][i]
  BY <1>2, <1>3, AppendedFacts DEF ChatTypeOK
<1>5. ChatTypeOK' /\ RosterInv'
  BY <1>3, <1>4 DEF ChatTypeOK, RosterInv, InquiriesEndWithSelection, Active, Current
<1>6. \A i \in 1..n : ~(messages[c][i].sender = m /\ messages[c][i].key = key)
  BY DEF SentBefore
<1> HIDE DEF n
<1>7. SentOnce'
  <2> SUFFICES ASSUME NEW k \in Conversations, NEW i \in 1..Len(messages'[k]), NEW j \in 1..Len(messages'[k]),
                      messages'[k][i].sender # System,
                      messages'[k][i].sender = messages'[k][j].sender,
                      messages'[k][i].key = messages'[k][j].key
               PROVE  i = j
    BY DEF SentOnce
  <2>1. CASE k # c
    <3>1. messages'[k] = messages[k]
      BY <1>4, <2>1
    <3> QED
      BY <3>1, StoredOnce
  <2>2. CASE k = c
    <3>1. i \in 1..n \union {n + 1} /\ j \in 1..n \union {n + 1}
      BY <1>1, <1>4, <2>2
    <3>2. CASE i \in 1..n /\ j \in 1..n
      <4>1. /\ messages'[k][i] = messages[k][i] /\ messages'[k][j] = messages[k][j]
            /\ i \in 1..Len(messages[k]) /\ j \in 1..Len(messages[k])
        BY <1>4, <2>2, <3>2 DEF n
      <4> QED
        BY <4>1, StoredOnce
    <3>3. CASE i = n + 1 /\ j \in 1..n
      BY <1>2, <1>4, <1>6, <2>2, <3>3
    <3>4. CASE i \in 1..n /\ j = n + 1
      BY <1>2, <1>4, <1>6, <2>2, <3>4
    <3> QED
      BY <3>1, <3>2, <3>3, <3>4
  <2> QED
    BY <2>1, <2>2
<1>8. WorkMessagesInv'
  <2>1. CASE c # Work
    BY <1>3, <1>4, <2>1, Names DEF WorkMessagesInv, Now
  <2>2. CASE c = Work
    <3>1. Now' = Now + 1 /\ Now = n
      BY <1>4, <2>2 DEF Now, n
    <3>2. conversation'[Work] # "READ_ONLY" /\ conversation[Work] # "READ_ONLY"
      BY <1>3, <2>2
    <3>3. ASSUME NEW i \in 1..Now' PROVE messages'[Work][i].sender # System
      <4>1. i \in 1..n \/ i = n + 1
        BY <1>1, <3>1
      <4> QED
        BY <1>2, <1>4, <2>2, <3>1, <3>2, <4>1 DEF WorkMessagesInv
    <3>4. ASSUME NEW k \in ChatMembers, membership'[k].leftAt # Never
          PROVE  membership'[k].leftAt <= Now'
      <4>1. membership[k].leftAt \in Int /\ membership[k].leftAt <= Now /\ membership' = membership
        BY <1>3, <3>4 DEF WorkMessagesInv, ChatTypeOK, MembershipRow, Never
      <4> QED
        BY <1>1, <3>1, <4>1
    <3> QED
      BY <3>2, <3>3, <3>4 DEF WorkMessagesInv
  <2> QED
    BY <2>1, <2>2
<1> QED
  BY <1>5, <1>7, <1>8

\* A message is hidden or restored.
LEMMA HideFacts ==
    ASSUME ChatTypeOK, NEW i \in 1..Now, messages' = [messages EXCEPT ![Work][i].hidden = ~@]
    PROVE  /\ messages' \in [Conversations -> Seq(MessageRow)]
           /\ \A c \in Conversations :
                 /\ Len(messages'[c]) = Len(messages[c])
                 /\ \A j \in 1..Len(messages[c]) :
                       /\ messages'[c][j].sender = messages[c][j].sender
                       /\ messages'[c][j].key = messages[c][j].key
                       /\ messages'[c][j].at = messages[c][j].at
                       /\ c # Work \/ j # i => messages'[c][j] = messages[c][j]
<1> DEFINE s == messages[Work]
           x == [s[i] EXCEPT !.hidden = ~@]
           t == [s EXCEPT ![i] = x]
<1>1. s \in Seq(MessageRow) /\ i \in 1..Len(s)
  BY Names DEF ChatTypeOK, Now
<1>2. s[i] \in MessageRow
  BY <1>1
<1>3. /\ x \in MessageRow /\ x.sender = s[i].sender /\ x.key = s[i].key /\ x.at = s[i].at
  BY <1>2 DEF MessageRow
<1>4. messages' = [messages EXCEPT ![Work] = t]
  OBVIOUS
<1> HIDE DEF x
<1>5. /\ t \in Seq(MessageRow) /\ Len(t) = Len(s) /\ t[i] = x
      /\ \A j \in 1..Len(s) : j # i => t[j] = s[j]
  BY <1>1, <1>3
<1> HIDE DEF t
<1>6. /\ messages'[Work] = t /\ messages' \in [Conversations -> Seq(MessageRow)]
      /\ \A c \in Conversations \ {Work} : messages'[c] = messages[c]
  <2>1. messages \in [Conversations -> Seq(MessageRow)] /\ Work \in Conversations
    BY Names DEF ChatTypeOK
  <2> QED
    BY <1>4, <1>5, <2>1
<1>7. ASSUME NEW c \in Conversations, c # Work
      PROVE  messages'[c] = messages[c]
  BY <1>6, <1>7
<1>8. ASSUME NEW j \in 1..Len(s)
      PROVE  /\ t[j].sender = s[j].sender /\ t[j].key = s[j].key /\ t[j].at = s[j].at
             /\ j # i => t[j] = s[j]
  BY <1>3, <1>5
<1> QED
  BY <1>5, <1>6, <1>7, <1>8

\* Hiding changes nothing of what the invariants are about.
LEMMA HideKeeps ==
    ASSUME ChatInv, NEW i \in 1..Now, HideOrRestore(i)
    PROVE  ChatInv'
<1> USE DEF ChatInv
<1>1. /\ messages' = [messages EXCEPT ![Work][i].hidden = ~@]
      /\ UNCHANGED <<quest, assignment, conversation, membership>>
  BY DEF HideOrRestore
<1>2. /\ messages' \in [Conversations -> Seq(MessageRow)]
      /\ \A c \in Conversations :
            /\ Len(messages'[c]) = Len(messages[c])
            /\ \A j \in 1..Len(messages[c]) :
                  /\ messages'[c][j].sender = messages[c][j].sender
                  /\ messages'[c][j].key = messages[c][j].key
                  /\ messages'[c][j].at = messages[c][j].at
                  /\ c # Work \/ j # i => messages'[c][j] = messages[c][j]
  BY <1>1, HideFacts
<1>3. ChatTypeOK' /\ RosterInv'
  BY <1>1, <1>2 DEF ChatTypeOK, RosterInv, InquiriesEndWithSelection, Active, Current
<1>4. SentOnce'
  <2> SUFFICES ASSUME NEW c \in Conversations,
                      NEW j \in 1..Len(messages'[c]), NEW k \in 1..Len(messages'[c]),
                      messages'[c][j].sender # System,
                      messages'[c][j].sender = messages'[c][k].sender,
                      messages'[c][j].key = messages'[c][k].key
               PROVE  j = k
    BY DEF SentOnce
  <2>1. j \in 1..Len(messages[c]) /\ k \in 1..Len(messages[c])
    BY <1>2
  <2>2. /\ messages'[c][j].sender = messages[c][j].sender /\ messages'[c][j].key = messages[c][j].key
        /\ messages'[c][k].sender = messages[c][k].sender /\ messages'[c][k].key = messages[c][k].key
    BY <1>2, <2>1
  <2> QED
    BY <2>1, <2>2 DEF SentOnce
<1>5. Now' = Now /\ Now \in Nat
  BY <1>2, Names DEF Now, ChatTypeOK
<1>6. \A j \in 1..Now : messages'[Work][j].sender = messages[Work][j].sender
  BY <1>2, Names DEF Now
<1>7. WorkMessagesInv'
  BY <1>1, <1>5, <1>6 DEF WorkMessagesInv
<1> QED
  BY <1>3, <1>4, <1>7

\* At first there is no conversation.
LEMMA ChatInitOK == ChatInit => ChatInv
<1> SUFFICES ASSUME ChatInit PROVE ChatInv
  OBVIOUS
<1>1. ChatTypeOK
  BY DEF ChatInit, ChatTypeOK, ConversationRow, MembershipRow
<1>2. conversation[Work] = "NONE" /\ Now = 0 /\ \A c \in Conversations : Len(messages[c]) = 0
  BY Names DEF ChatInit, Now
<1>3. RosterInv
  BY <1>2, Names DEF ChatInit, RosterInv, InquiriesEndWithSelection, Active, Current
<1>4. WorkMessagesInv
  BY <1>2 DEF ChatInit, WorkMessagesInv
<1>5. SentOnce
  BY <1>2 DEF SentOnce
<1> QED
  BY <1>1, <1>3, <1>4, <1>5 DEF ChatInv

\* Every step of the chat keeps its invariant.
LEMMA ChatStepOK ==
    ASSUME ChatInv, ChatStep
    PROVE  ChatInv'
<1>1. ASSUME NEW m \in ChatMembers, NEW key \in ClientKeys, SendWorkConversationMessage(m, key)
      PROVE  ChatInv'
  BY <1>1, StoreKeeps, Names DEF SendWorkConversationMessage
<1>2. ASSUME NEW m \in ChatMembers, NEW key \in ClientKeys, NEW w \in Workers,
             SendCandidateInquiryMessage(m, w, key)
      PROVE  ChatInv'
  BY <1>2, StoreKeeps, Names DEF SendCandidateInquiryMessage
<1>3. CASE MemberStep
  BY <1>1, <1>2, <1>3, OpenKeeps DEF MemberStep
<1>4. CASE QuestStep
  <2>1. ASSUME NEW S \in (SUBSET Workers) \ {{}}, AcceptWorkers(S) PROVE ChatInv'
    <3>1. S \in SUBSET Workers /\ S # {}
      OBVIOUS
    <3> QED
      BY <2>1, <3>1, AcceptKeeps
  <2>2. ASSUME NEW w \in Workers, NEW at \in 0..Now, SettleOneWorker(w, at) PROVE ChatInv'
    BY <2>2, SettleKeeps
  <2>3. ASSUME NEW E, NEW S, S \subseteq E, E \subseteq Active, NEW at \in 0..Now, EndQuest(E, S, at)
        PROVE  ChatInv'
    <3>1. E \in SUBSET Active /\ S \in SUBSET E
      BY <2>3
    <3> QED
      BY <2>3, <3>1, EndKeeps
  <2>4. ASSUME NEW at \in 0..Now, CompleteQuest(at) \/ CancelQuest(at) PROVE ChatInv'
    BY <2>3, <2>4 DEF CompleteQuest, CancelQuest
  <2>5. ASSUME NEW S, NEW at \in 0..Now, FailQuest(S, at) PROVE ChatInv'
    BY <2>3, <2>5 DEF FailQuest
  <2>6. CASE StartUnderfilled \/ HideOrShowQuest
    BY <2>6, StartKeeps, HideQuestKeeps
  <2> QED
    BY <1>4, <2>1, <2>2, <2>4, <2>5, <2>6, FailedWorkKeeps DEF QuestStep
<1> QED
  BY <1>3, <1>4, HideKeeps DEF ChatStep

\* The invariant of the chat implies what its runs check.
LEMMA ChatInvImplies == ChatInv => InquiriesEndWithSelection /\ ChatFollowsRoster /\ SentOnce
<1> SUFFICES ASSUME ChatInv PROVE ChatFollowsRoster
  BY DEF ChatInv, RosterInv
<1>1. quest.status # "ENDED" => {w \in Workers : Current(w)} = Active
  BY DEF ChatInv, RosterInv, Active
<1>2. /\ quest.status # "ENDED" /\ Active # {} => conversation[Work] = "OPEN"
      /\ quest.status = "ENDED" => conversation[Work] # "OPEN"
      /\ \A w \in Active : Current(w) /\ Current(Hirer)
  BY DEF ChatInv, RosterInv, Active
<1>3. conversation[Work] = "READ_ONLY" <=> Now > 0 /\ messages[Work][Now].sender = System
  <2>1. Now \in Nat
    BY Names DEF ChatInv, ChatTypeOK, Now
  <2>2. Now > 0 => Now \in 1..Now
    BY <2>1
  <2> QED
    BY <2>1, <2>2 DEF ChatInv, WorkMessagesInv
<1> QED
  BY <1>1, <1>2, <1>3 DEF ChatFollowsRoster

\* The invariant of the chat holds throughout.
LEMMA ChatKept == ChatSpec => []ChatInv
<1>1. ChatInv /\ [ChatStep]_chatVars => ChatInv'
  <2>1. ChatInv /\ UNCHANGED chatVars => ChatInv'
    BY DEF ChatInv, ChatTypeOK, RosterInv, WorkMessagesInv, SentOnce, InquiriesEndWithSelection,
           Active, Current, Now, chatVars
  <2> QED
    BY <2>1, ChatStepOK
<1> QED
  BY <1>1, ChatInitOK, PTL DEF ChatSpec

\* Type correctness of the conversations.
THEOREM ChatTyped == ChatSpec => []ChatTypeOK
<1>1. ChatInv => ChatTypeOK
  BY DEF ChatInv
<1> QED
  BY <1>1, ChatKept, PTL

\* Whoever is accepted, settled or asked, and in whatever order: an Inquiry is
\* open only while its Quest takes Workers and has not accepted the one it is with.
THEOREM InquiriesSafe == ChatSpec => []InquiriesEndWithSelection
BY ChatKept, ChatInvImplies, PTL

\* The members of the Work Conversation are the Workers at work and the Hirer, in
\* every order of acceptances, settlements and endings; the program's message
\* about the end is the last word, and a Worker whose work in a failed Quest is
\* undecided can read it.
THEOREM RosterFollowedSafe == ChatSpec => []ChatFollowsRoster
BY ChatKept, ChatInvImplies, PTL

\* A client that sends a message again, in whatever state the Quest is by then,
\* finds it stored once.
THEOREM SentOnceSafe == ChatSpec => []SentOnce
BY ChatKept, ChatInvImplies, PTL

\* A step changes no window that has closed.
LEMMA WindowStays ==
    ASSUME ChatInv, ChatStep, NEW m \in ChatMembers, membership[m].leftAt # Never
    PROVE  membership'[m] = membership[m]
<1>1. membership[m].joinedAt # Never /\ ~Current(m)
  BY DEF ChatInv, RosterInv, Current
<1>2. ASSUME NEW S \in SUBSET Workers, AcceptWorkers(S)
      PROVE  membership'[m] = membership[m]
  BY <1>1, <1>2 DEF AcceptWorkers, Joins
<1>3. ASSUME NEW S, NEW at, membership' = LeaveAt(S, at)
      PROVE  membership'[m] = membership[m]
  BY <1>1, <1>3 DEF LeaveAt
<1>4. CASE QuestStep
  BY <1>2, <1>3, <1>4 DEF QuestStep, StartUnderfilled, HideOrShowQuest, SettleOneWorker, EndQuest,
                          CompleteQuest, CancelQuest, FailQuest, DecideFailedWork
<1>5. CASE MemberStep
  BY <1>5 DEF MemberStep, OpenInquiry, SendWorkConversationMessage, SendCandidateInquiryMessage,
              StoreMessage
<1> QED
  BY <1>4, <1>5 DEF ChatStep, HideOrRestore

\* What a step makes of one message of the Work Conversation: it keeps its time
\* and its sender, or it is new, and the program's or later than all others.
StaysOrIsNew(i) ==
    \/ /\ i \in 1..Now
       /\ messages'[Work][i].at = messages[Work][i].at
       /\ messages'[Work][i].sender = messages[Work][i].sender
    \/ /\ i = Now + 1
       /\ messages'[Work][i].sender = System \/ messages'[Work][i].at = Now + 1

\* One message is stored.
LEMMA NewMessage ==
    ASSUME ChatInv, NEW x \in MessageRow, x.sender = System \/ x.at = Now + 1,
           messages' = [messages EXCEPT ![Work] = Append(@, x)], NEW i \in 1..Now'
    PROVE  StaysOrIsNew(i)
<1>1. /\ Len(messages[Work]) \in Nat /\ Len(messages'[Work]) = Len(messages[Work]) + 1
      /\ messages'[Work][Len(messages[Work]) + 1] = x
      /\ \A j \in 1..Len(messages[Work]) : messages'[Work][j] = messages[Work][j]
  BY AppendedFacts, Names DEF ChatInv, ChatTypeOK
<1>2. i \in 1..Now \/ i = Now + 1
  BY <1>1 DEF Now
<1> QED
  BY <1>1, <1>2 DEF StaysOrIsNew, Now

\* No step stores anything else, or changes what is stored but for hiding it.
LEMMA MessagesStay ==
    ASSUME ChatInv, ChatStep, NEW i \in 1..Now'
    PROVE  StaysOrIsNew(i)
<1>1. ASSUME UNCHANGED messages PROVE StaysOrIsNew(i)
  BY <1>1 DEF StaysOrIsNew, Now
<1>2. ASSUME NEW E, NEW S, NEW at \in 0..Now, EndQuest(E, S, at) PROVE StaysOrIsNew(i)
  <2>1. SystemMessage(at) \in MessageRow /\ SystemMessage(at).sender = System
    <3>1. at \in Nat
      BY Names DEF ChatInv, ChatTypeOK, Now
    <3> QED
      BY <3>1 DEF SystemMessage, MessageRow
  <2>2. CASE conversation[Work] = "OPEN"
    <3>1. messages' = [messages EXCEPT ![Work] = Append(@, SystemMessage(at))]
      BY <1>2, <2>2 DEF EndQuest
    <3> QED
      BY <2>1, <3>1, NewMessage
  <2>3. CASE conversation[Work] # "OPEN"
    <3>1. UNCHANGED messages
      BY <1>2, <2>3 DEF EndQuest, ChatInv, ChatTypeOK
    <3> QED
      BY <1>1, <3>1
  <2> QED
    BY <2>2, <2>3
<1>3. CASE QuestStep
  BY <1>1, <1>2, <1>3 DEF QuestStep, AcceptWorkers, StartUnderfilled, HideOrShowQuest, SettleOneWorker,
                          CompleteQuest, CancelQuest, FailQuest, DecideFailedWork
<1>4. ASSUME NEW m \in ChatMembers, NEW c \in Conversations, NEW key \in ClientKeys, StoreMessage(m, c, key)
      PROVE  StaysOrIsNew(i)
  <2> DEFINE x == [sender |-> m, key |-> key, at |-> Len(messages[c]) + 1, hidden |-> FALSE]
  <2>1. messages' = [messages EXCEPT ![c] = Append(@, x)]
    BY <1>4 DEF StoreMessage
  <2>2. x \in MessageRow /\ x.at = Len(messages[c]) + 1
    <3>1. Len(messages[c]) \in Nat
      BY DEF ChatInv, ChatTypeOK
    <3> QED
      BY <3>1 DEF MessageRow
  <2> HIDE DEF x
  <2>3. CASE c = Work
    BY <2>1, <2>2, <2>3, NewMessage DEF Now
  <2>4. CASE c # Work
    <3>1. messages'[Work] = messages[Work]
      BY <2>1, <2>4, Names DEF ChatInv, ChatTypeOK
    <3> QED
      BY <3>1 DEF StaysOrIsNew, Now
  <2> QED
    BY <2>3, <2>4
<1>5. CASE MemberStep
  BY <1>1, <1>4, <1>5, Names DEF MemberStep, OpenInquiry, SendWorkConversationMessage,
                                 SendCandidateInquiryMessage
<1>6. ASSUME NEW j \in 1..Now, HideOrRestore(j) PROVE StaysOrIsNew(i)
  <2>1. messages' = [messages EXCEPT ![Work][j].hidden = ~@] /\ ChatTypeOK
    BY <1>6 DEF HideOrRestore, ChatInv
  <2>2. /\ Len(messages'[Work]) = Len(messages[Work])
        /\ \A k \in 1..Len(messages[Work]) :
              /\ messages'[Work][k].sender = messages[Work][k].sender
              /\ messages'[Work][k].at = messages[Work][k].at
    BY <2>1, HideFacts, Names
  <2> QED
    BY <2>2 DEF StaysOrIsNew, Now
<1> QED
  BY <1>3, <1>5, <1>6 DEF ChatStep

\* Who has left a Work Conversation reads nothing that its Members write later,
\* whatever is hidden, restored or stored, and however the Quest goes on.
THEOREM LeaversSafe == ChatSpec => LeaversReadNothingNew
<1> DEFINE Step == \A m \in ChatMembers, i \in 1..Now' :
              (/\ membership[m].leftAt # Never /\ i \notin Readable(m) /\ i \in Readable(m)')
              => \/ i <= Now /\ messages[Work][i].hidden
                 \/ messages'[Work][i].sender = System
<1>1. ChatInv /\ ChatStep => Step
  <2> SUFFICES ASSUME ChatInv, ChatStep, NEW m \in ChatMembers, NEW i \in 1..Now',
                      membership[m].leftAt # Never, i \notin Readable(m), i \in Readable(m)',
                      messages'[Work][i].sender # System
               PROVE  i <= Now /\ messages[Work][i].hidden
    OBVIOUS
  <2>1. membership'[m] = membership[m] /\ StaysOrIsNew(i)
    BY WindowStays, MessagesStay
  <2>2. /\ Now \in Nat /\ membership[m].leftAt \in Int /\ membership[m].leftAt <= Now
        /\ \A k \in 1..Now : messages[Work][k].hidden \in BOOLEAN
    <3>1. messages[Work] \in Seq(MessageRow) /\ membership[m] \in MembershipRow
      BY Names DEF ChatInv, ChatTypeOK
    <3>2. Now \in Nat /\ \A k \in 1..Now : messages[Work][k] \in MessageRow
      BY <3>1 DEF Now
    <3>3. membership[m].leftAt \in Int /\ membership[m].leftAt <= Now
      BY <3>1 DEF ChatInv, WorkMessagesInv, MembershipRow, Never
    <3> QED
      BY <3>2, <3>3 DEF MessageRow
  <2>3. /\ membership'[m].leftAt = Never \/ messages'[Work][i].at <= membership'[m].leftAt
        /\ ~messages'[Work][i].hidden \/ messages'[Work][i].sender = m
        /\ membership'[m].joinedAt # Never
    BY DEF Readable, Visible
  <2>4. i # Now + 1
    BY <2>1, <2>2, <2>3 DEF StaysOrIsNew
  <2>5. /\ i \in 1..Now /\ messages'[Work][i].at = messages[Work][i].at
        /\ messages'[Work][i].sender = messages[Work][i].sender
    BY <2>1, <2>4 DEF StaysOrIsNew
  <2>6. ~Visible(m, i)
    BY <2>5 DEF Readable, Now
  <2> QED
    BY <2>1, <2>2, <2>3, <2>5, <2>6 DEF Visible
<1>2. ChatInv /\ [ChatStep]_chatVars => [Step]_chatVars
  BY <1>1
<1> QED
  BY <1>2, ChatKept, PTL DEF ChatSpec, LeaversReadNothingNew

\* However often an Admin repeats a request, and whatever was stored in between,
\* each file link he was given is in his Admin Actions.
THEOREM LinksAreRecordedSafe == EvidenceSpec => []LinksAreRecorded
<1>1. EvidenceInit => LinksAreRecorded
  BY DEF EvidenceInit, LinksAreRecorded
<1>2. LinksAreRecorded /\ [EvidenceNext]_<<chatVars, evidenceVars>> => LinksAreRecorded'
  BY DEF LinksAreRecorded, EvidenceNext, EvidenceStep, ReadReport, YearPasses, ReadPage,
         ReadCaseEvidence, RecordAccess, evidenceVars
<1> QED
  BY <1>1, <1>2, PTL DEF EvidenceSpec

-----------------------------------------------------------------------------
(* The Penalty History: what an entry more and a removal make of it *)

\* How many elements of a finite set of numbers are no greater than each
\* counts them in their order.
LEMMA Ranks ==
    ASSUME NEW S \in SUBSET Int, IsFiniteSet(S)
    PROVE  \E g \in Bijection(S, 1..Cardinality(S)) : \A x, y \in S : x < y => g[x] < g[y]
<1> DEFINE n == Cardinality(S)
           below(x) == {z \in S : z <= x}
           g == [x \in S |-> Cardinality(below(x))]
<1>1. n \in Nat /\ IsFiniteSet(1..n) /\ Cardinality(1..n) = n
  BY FS_CardinalityType, FS_Interval
<1>2. ASSUME NEW x \in S
      PROVE  IsFiniteSet(below(x)) /\ Cardinality(below(x)) \in 1..n
  <2>1. below(x) \in SUBSET S /\ x \in below(x)
    OBVIOUS
  <2> HIDE DEF below
  <2>2. IsFiniteSet(below(x)) /\ Cardinality(below(x)) <= n
    BY <2>1, FS_Subset
  <2>3. Cardinality(below(x)) \in Nat /\ Cardinality(below(x)) # 0
    BY <2>1, <2>2, FS_EmptySet, FS_CardinalityType
  <2> QED
    BY <1>1, <2>2, <2>3
<1>3. ASSUME NEW x \in S, NEW y \in S, x < y
      PROVE  Cardinality(below(x)) < Cardinality(below(y))
  <2>a. x \in Int /\ y \in Int /\ \A z \in S : z \in Int
    OBVIOUS
  <2>b. y \in below(y) /\ ~(y <= x)
    BY <1>3, <2>a
  <2>c. \A z \in S : z <= x => z <= y
    BY <1>3, <2>a
  <2>1. below(x) \in SUBSET below(y) /\ y \in below(y) /\ y \notin below(x)
    BY <2>b, <2>c
  <2>2. IsFiniteSet(below(y)) /\ Cardinality(below(y)) \in Int /\ Cardinality(below(x)) \in Int
    BY <1>2
  <2> HIDE DEF below
  <2>3. Cardinality(below(x)) <= Cardinality(below(y)) /\ Cardinality(below(y)) # Cardinality(below(x))
    BY <2>1, <2>2, FS_Subset
  <2> QED
    BY <2>2, <2>3
<1> HIDE DEF below
<1>4. g \in [S -> 1..n] /\ \A x, y \in S : x < y => g[x] < g[y]
  BY <1>2, <1>3
<1> HIDE DEF g, n
<1>5. \A x, y \in S : g[x] = g[y] => x = y
  BY <1>1, <1>4
<1>6. g \in Injection(S, 1..n)
  BY <1>4, <1>5 DEF Injection, IsInjective
<1>7. g \in Surjection(S, 1..n)
  BY <1>1, <1>6, FS_Injection DEF n
<1> QED
  BY <1>4, <1>6, <1>7 DEF Bijection, n

\* The elements of a finite set of numbers can be listed in their order.
LEMMA OrderFacts ==
    ASSUME NEW S \in SUBSET Int, IsFiniteSet(S)
    PROVE  /\ Cardinality(S) \in Nat
           /\ InOrder(S) \in [1..Cardinality(S) -> S]
           /\ \A k, n \in 1..Cardinality(S) : InOrder(S)[k] = InOrder(S)[n] => k = n
           /\ \A x \in S : \E k \in 1..Cardinality(S) : InOrder(S)[k] = x
<1> DEFINE c == Cardinality(S)
           Sorted(f) == \A k, n \in 1..c : k < n => f[k] < f[n]
<1>1. c \in Nat /\ IsFiniteSet(1..c) /\ Cardinality(1..c) = c
  BY FS_CardinalityType, FS_Interval
<1>2. \E f \in [1..c -> S] : Sorted(f)
  <2>1. PICK g \in Bijection(S, 1..c) : \A x, y \in S : x < y => g[x] < g[y]
    BY Ranks
  <2> DEFINE f == [k \in 1..c |-> CHOOSE x \in S : g[x] = k]
  <2>2. g \in [S -> 1..c] /\ \A k \in 1..c : \E x \in S : g[x] = k
    BY <2>1 DEF Bijection, Injection, Surjection
  <2>3. \A k \in 1..c : f[k] \in S /\ g[f[k]] = k
    BY <2>2
  <2>4. f \in [1..c -> S]
    BY <2>3
  <2> HIDE DEF f
  <2>5. ASSUME NEW k \in 1..c, NEW n \in 1..c, k < n PROVE f[k] < f[n]
    <3>1. f[k] \in Int /\ f[n] \in Int
      BY <2>3
    <3>2. f[k] \in S /\ f[n] \in S /\ g[f[k]] = k /\ g[f[n]] = n /\ k \in Int /\ n \in Int
      BY <1>1, <2>3
    <3>4. f[n] < f[k] => g[f[n]] < g[f[k]]
      BY <2>1, <3>2
    <3>3. f[k] # f[n] /\ ~(f[n] < f[k])
      BY <2>5, <3>2, <3>4
    <3> QED
      BY <3>1, <3>3
  <2> QED
    BY <2>4, <2>5
<1>3. InOrder(S) \in [1..c -> S] /\ Sorted(InOrder(S))
  BY <1>2 DEF InOrder
<1> DEFINE f == InOrder(S)
<1> HIDE DEF c
<1>4. \A k, n \in 1..c : f[k] = f[n] => k = n
  <2> SUFFICES ASSUME NEW k \in 1..c, NEW n \in 1..c, f[k] = f[n], k # n PROVE FALSE
    OBVIOUS
  <2>1. k < n \/ n < k
    BY <1>1
  <2>0. f[k] \in Int /\ f[n] \in Int
    BY <1>3
  <2>2. ~(f[k] < f[n]) /\ ~(f[n] < f[k])
    BY <2>0
  <2> QED
    BY <1>3, <2>1, <2>2
<1> HIDE DEF f
<1>5. f \in Injection(1..c, S)
  BY <1>3, <1>4 DEF Injection, IsInjective, f
<1>6. f \in Surjection(1..c, S)
  BY <1>1, <1>5, FS_Injection DEF c
<1> QED
  BY <1>1, <1>3, <1>4, <1>6 DEF Surjection, c, f

\* A finite set of numbers that is not empty has a greatest element.
LEMMA MaxFacts ==
    ASSUME NEW S \in SUBSET Int, IsFiniteSet(S), S # {}
    PROVE  Max(S) \in S /\ \A y \in S : Max(S) >= y
<1> DEFINE n == Cardinality(S)
<1>1. PICK g \in Bijection(S, 1..n) : \A x, y \in S : x < y => g[x] < g[y]
  BY Ranks
<1>2. n \in Nat /\ n # 0
  BY FS_CardinalityType, FS_EmptySet
<1>3. PICK x \in S : g[x] = n
  BY <1>1, <1>2 DEF Bijection, Surjection
<1>4. \A y \in S : g[y] \in 1..n
  BY <1>1 DEF Bijection, Injection
<1>5. \A y \in S : x >= y
  <2> SUFFICES ASSUME NEW y \in S, x < y PROVE FALSE
    OBVIOUS
  <2> QED
    BY <1>1, <1>2, <1>3, <1>4
<1> QED
  BY <1>5 DEF Max

\* The rows of a Penalty History.
PenaltySources == {"REPORT_CASE", "CONDUCT_REPORT", "REVIEW_AVERAGE", "ADMIN"}
StrikeResults == {"RED_FLAG", "BAN_7_DAYS", "BAN_1_MONTH", "PERMANENT_BAN"}

PenaltyIds ==
    {EarlierCase} \cup AdminKeys \cup Cases
      \cup (AssignedQuests \X (Members \cup UNION {Participants(q) : q \in AssignedQuests}))

PenaltyRows ==
    [ladder : Ladders, source : PenaltySources, id : PenaltyIds, seq : Nat,
     result : StrikeResults \cup {"EXEMPT", "REVERSAL"}, at : Nat,
     reverses : Nat, recalculates : Nat, key : AdminKeys \cup {0}, kind : {"NONE", "ADD", "REMOVE"}]

SameSource(r, s) == r.source = s.source /\ r.id = s.id

\* What each row is by itself.
RowOK(r, i) ==
    /\ r.seq > 0 /\ r.reverses < i /\ r.recalculates < i
    /\ (r.result = "REVERSAL") <=> (r.reverses # 0)
    /\ (r.source = "REVIEW_AVERAGE") <=> (r.ladder = "REVIEW")
    /\ r.kind = "ADD" => r.source = "ADMIN" /\ r.result # "REVERSAL"
    /\ r.kind = "REMOVE" => r.result = "REVERSAL"
    /\ r.result = "EXEMPT" => r.ladder = "MISCONDUCT"

\* How the rows of a history go together: what stands has its own place on its
\* ladder and its own source, and what was replaced was reversed.
ApartInTable(rs, i, j) ==
    /\ rs[i].reverses # 0 => rs[i].reverses # rs[j].reverses
    /\ rs[i].recalculates # 0 => rs[i].recalculates # rs[j].recalculates
    /\ ~ /\ rs[i].result # "REVERSAL" /\ rs[j].result # "REVERSAL"
         /\ rs[i].source # "ADMIN" /\ SameSource(rs[i], rs[j])
         /\ rs[i].recalculates = 0 /\ rs[j].recalculates = 0

ApartStanding(rs, i, j) ==
    /\ ~(rs[i].ladder = rs[j].ladder /\ rs[i].seq = rs[j].seq)
    /\ ~(rs[i].source # "ADMIN" /\ SameSource(rs[i], rs[j]))

Shape(rs) ==
    /\ rs \in Seq(PenaltyRows)
    /\ \A i \in DOMAIN rs :
          RowOK(rs[i], i) /\ (rs[i].recalculates # 0 => rs[i].recalculates \in Reversed(rs))
    /\ \A i, j \in DOMAIN rs : i # j => ApartInTable(rs, i, j)
    /\ \A i, j \in Standing(rs) : i # j => ApartStanding(rs, i, j)

\* Each strike that stands has the result of its place.
OnLadder(rs) ==
    \A ladder \in Ladders : \A i \in Automatic(rs, ladder) :
        rs[i].result = LadderResult(ladder, StrikeOf(rs, i))

\* A history that has its shape passes the checks of the table.
LEMMA ShapeFits ==
    ASSUME NEW rs, Shape(rs)
    PROVE  FitsTable(rs)
<1>1. Len(rs) \in Nat /\ DOMAIN rs = 1..Len(rs) /\ \A i \in DOMAIN rs : rs[i] \in PenaltyRows
  BY DEF Shape
<1>2. \A i \in DOMAIN rs : i \notin {rs[i].reverses, rs[i].recalculates}
  BY <1>1 DEF Shape, RowOK, PenaltyRows
<1> QED
  BY <1>2 DEF FitsTable, Shape, RowOK, ApartInTable, SameSource, Originals

\* The parts of a history are finite sets of its places.
LEMMA HistoryFacts ==
    ASSUME NEW rs, Shape(rs)
    PROVE  /\ Len(rs) \in Nat /\ DOMAIN rs = 1..Len(rs)
           /\ \A i \in DOMAIN rs : rs[i] \in PenaltyRows /\ RowOK(rs[i], i)
           /\ Originals(rs) = {i \in 1..Len(rs) : rs[i].reverses = 0}
           /\ \A x : x \in Reversed(rs) <=> x # 0 /\ \E i \in 1..Len(rs) : rs[i].reverses = x
           /\ Standing(rs) \subseteq 1..Len(rs) /\ IsFiniteSet(Standing(rs))
           /\ \A ladder : Automatic(rs, ladder) \subseteq Standing(rs) /\ IsFiniteSet(Automatic(rs, ladder))
<1>1. Len(rs) \in Nat /\ DOMAIN rs = 1..Len(rs) /\ IsFiniteSet(1..Len(rs))
  <2>1. Len(rs) \in Nat /\ DOMAIN rs = 1..Len(rs)
    BY DEF Shape
  <2> QED
    BY <2>1, FS_Interval
<1>2. \A i \in DOMAIN rs : rs[i] \in PenaltyRows /\ RowOK(rs[i], i)
  BY DEF Shape
<1>3. Originals(rs) = {i \in 1..Len(rs) : rs[i].reverses = 0}
  BY <1>1, <1>2 DEF Originals, RowOK
<1>4. \A x : x \in Reversed(rs) <=> x # 0 /\ \E i \in 1..Len(rs) : rs[i].reverses = x
  BY <1>1, <1>3 DEF Reversed
<1>5. Standing(rs) \in SUBSET (1..Len(rs))
  BY <1>3 DEF Standing
<1>6. IsFiniteSet(Standing(rs))
  BY <1>1, <1>5, FS_Subset
<1>7. \A ladder : Automatic(rs, ladder) \in SUBSET Standing(rs)
  BY DEF Automatic
<1>8. \A ladder : IsFiniteSet(Automatic(rs, ladder))
  BY <1>6, <1>7, FS_Subset
<1> QED
  BY <1>1, <1>2, <1>3, <1>4, <1>5, <1>6, <1>7, <1>8

\* The results of the ladders are strikes.
LEMMA LadderFacts ==
    ASSUME NEW ladder, NEW s \in Nat \ {0}
    PROVE  LadderResult(ladder, s) \in StrikeResults
<1>1. (IF s > 3 THEN 3 ELSE s) \in {1, 2, 3}
  OBVIOUS
<1> QED
  BY <1>1 DEF LadderResult, StrikeResults

\* A strike is at least the first one.
LEMMA StrikeFacts ==
    ASSUME NEW rs, Shape(rs), NEW ladder \in Ladders, NEW i \in Automatic(rs, ladder)
    PROVE  /\ rs[i].ladder = ladder /\ StrikeOf(rs, i) \in Nat \ {0}
           /\ LadderResult(ladder, StrikeOf(rs, i)) \in StrikeResults
<1> DEFINE before == {j \in Automatic(rs, rs[i].ladder) : rs[j].seq =< rs[i].seq}
<1>1. rs[i].ladder = ladder /\ i \in Standing(rs)
  BY DEF Automatic
<1>2. rs[i] \in PenaltyRows
  BY <1>1, HistoryFacts
<1>3. i \in before /\ before \in SUBSET Automatic(rs, ladder)
  BY <1>1, <1>2 DEF PenaltyRows
<1> HIDE DEF before
<1>4. IsFiniteSet(before)
  BY <1>3, HistoryFacts, FS_Subset
<1>5. Cardinality(before) \in Nat \ {0}
  BY <1>3, <1>4, FS_CardinalityType, FS_EmptySet
<1> QED
  BY <1>1, <1>5, LadderFacts DEF StrikeOf, before

\* A row more leaves the others where they are.
LEMMA AppendedRow ==
    ASSUME NEW rs, Shape(rs), NEW r \in PenaltyRows, RowOK(r, Len(rs) + 1)
    PROVE  /\ Append(rs, r) \in Seq(PenaltyRows) /\ Len(Append(rs, r)) = Len(rs) + 1
           /\ DOMAIN Append(rs, r) = 1..Len(rs) + 1
           /\ \A i \in 1..Len(rs) : Append(rs, r)[i] = rs[i]
           /\ Append(rs, r)[Len(rs) + 1] = r
           /\ r.result # "REVERSAL" =>
                 /\ Originals(Append(rs, r)) = Originals(rs) \cup {Len(rs) + 1}
                 /\ Reversed(Append(rs, r)) = Reversed(rs)
           /\ r.result = "REVERSAL" =>
                 /\ Originals(Append(rs, r)) = Originals(rs)
                 /\ Reversed(Append(rs, r)) = Reversed(rs) \cup {r.reverses}
<1> DEFINE ss == Append(rs, r)
           n == Len(rs)
<1>1. n \in Nat /\ DOMAIN rs = 1..n /\ rs \in Seq(PenaltyRows)
  BY HistoryFacts DEF Shape
<1>2. /\ ss \in Seq(PenaltyRows) /\ Len(ss) = n + 1 /\ DOMAIN ss = 1..n + 1
      /\ \A i \in 1..n : ss[i] = rs[i]
      /\ ss[n + 1] = r
  BY <1>1
<1> HIDE DEF ss, n
<1>3. 1..n + 1 = (1..n) \cup {n + 1} /\ n + 1 \notin 1..n
  BY <1>1
<1>4. CASE r.result # "REVERSAL"
  <2>1. Originals(ss) = Originals(rs) \cup {n + 1}
    BY <1>1, <1>2, <1>3, <1>4 DEF Originals
  <2>2. DOMAIN ss \ Originals(ss) = DOMAIN rs \ Originals(rs)
    BY <1>1, <1>2, <1>3, <2>1
  <2>3. Reversed(ss) = Reversed(rs)
    BY <1>1, <1>2, <2>2 DEF Reversed
  <2> QED
    BY <1>2, <1>4, <2>1, <2>3 DEF ss, n
<1>5. CASE r.result = "REVERSAL"
  <2>1. Originals(ss) = Originals(rs)
    BY <1>1, <1>2, <1>3, <1>5 DEF Originals
  <2>2. DOMAIN ss \ Originals(ss) = (DOMAIN rs \ Originals(rs)) \cup {n + 1}
    BY <1>1, <1>2, <1>3, <2>1 DEF Originals
  <2>3. Reversed(ss) = Reversed(rs) \cup {r.reverses}
    BY <1>1, <1>2, <2>2 DEF Reversed
  <2> QED
    BY <1>2, <1>5, <2>1, <2>3 DEF ss, n
<1> QED
  BY <1>4, <1>5

\* The largest of the numbers of a ladder is below the next one.
LEMMA NextPlace ==
    ASSUME NEW rs, Shape(rs), NEW ladder
    PROVE  /\ NextSeq(rs, ladder) \in Nat \ {0}
           /\ \A i \in DOMAIN rs : rs[i].ladder = ladder => rs[i].seq < NextSeq(rs, ladder)
<1> DEFINE on == {j \in DOMAIN rs : rs[j].ladder = ladder}
           taken == {rs[i].seq : i \in on}
           f == [i \in on |-> rs[i].seq]
<1>1. Len(rs) \in Nat /\ DOMAIN rs = 1..Len(rs) /\ \A i \in DOMAIN rs : rs[i].seq \in Nat
  BY HistoryFacts DEF PenaltyRows
<1>2. IsFiniteSet(on)
  <2>1. on \in SUBSET (1..Len(rs)) /\ IsFiniteSet(1..Len(rs))
    BY <1>1, FS_Interval
  <2> HIDE DEF on
  <2> QED
    BY <2>1, FS_Subset
<1>3. f \in Surjection(on, taken)
  BY DEF Surjection
<1>4. taken \in SUBSET Nat
  BY <1>1
<1>n. NextSeq(rs, ladder) = 1 + Max({0} \cup taken)
  BY DEF NextSeq
<1>t. \A i \in DOMAIN rs : rs[i].ladder = ladder => rs[i].seq \in taken
  OBVIOUS
<1> HIDE DEF on, f, taken
<1>5. IsFiniteSet(taken)
  BY <1>2, <1>3, FS_Surjection
<1> DEFINE all == {0} \cup taken
<1>6. all \in SUBSET Nat /\ IsFiniteSet(all) /\ 0 \in all /\ taken \subseteq all
  BY <1>4, <1>5, FS_AddElement
<1>7. NextSeq(rs, ladder) = 1 + Max(all)
  BY <1>n
<1> HIDE DEF all
<1>8. all \in SUBSET Int /\ all # {}
  BY <1>6
<1>9. Max(all) \in all /\ \A y \in all : Max(all) >= y
  BY <1>6, <1>8, MaxFacts
<1>10. Max(all) \in Nat
  BY <1>6, <1>9
<1>11. ASSUME NEW i \in DOMAIN rs, rs[i].ladder = ladder PROVE rs[i].seq < NextSeq(rs, ladder)
  <2>1. rs[i].seq \in Nat /\ Max(all) >= rs[i].seq
    BY <1>1, <1>t, <1>6, <1>9, <1>11
  <2> QED
    BY <1>7, <1>10, <2>1
<1> QED
  BY <1>7, <1>10, <1>11

\* A row that is no reversal joins what stands.
LEMMA AddedStands ==
    ASSUME NEW rs, Shape(rs), NEW r \in PenaltyRows, RowOK(r, Len(rs) + 1), r.result # "REVERSAL"
    PROVE  /\ Standing(Append(rs, r)) = Standing(rs) \cup {Len(rs) + 1}
           /\ Reversed(Append(rs, r)) = Reversed(rs)
<1>1. Len(rs) \in Nat /\ \A x \in Reversed(rs) : x < Len(rs) + 1
  <2>1. Len(rs) \in Nat
    BY HistoryFacts
  <2>2. ASSUME NEW x \in Reversed(rs) PROVE x < Len(rs) + 1
    <3>1. PICK i \in 1..Len(rs) : rs[i].reverses = x
      BY HistoryFacts
    <3>2. rs[i].reverses \in Nat /\ rs[i].reverses < i
      BY HistoryFacts DEF RowOK, PenaltyRows
    <3> QED
      BY <2>1, <3>1, <3>2
  <2> QED
    BY <2>1, <2>2
<1>2. Len(rs) + 1 \notin Reversed(rs)
  BY <1>1
<1>3. /\ Originals(Append(rs, r)) = Originals(rs) \cup {Len(rs) + 1}
      /\ Reversed(Append(rs, r)) = Reversed(rs)
  BY AppendedRow
<1> QED
  BY <1>2, <1>3 DEF Standing

\* A reversal takes one row from what stands.
LEMMA TakenStands ==
    ASSUME NEW rs, Shape(rs), NEW r \in PenaltyRows, RowOK(r, Len(rs) + 1), r.result = "REVERSAL"
    PROVE  /\ Standing(Append(rs, r)) = Standing(rs) \ {r.reverses}
           /\ Reversed(Append(rs, r)) = Reversed(rs) \cup {r.reverses}
  BY AppendedRow DEF Standing

\* What a new row that is no reversal has to be.
NewRow(rs, r) ==
    /\ r \in PenaltyRows /\ RowOK(r, Len(rs) + 1)
    /\ r.result # "REVERSAL" /\ r.reverses = 0 /\ r.recalculates = 0
    /\ r.seq = NextSeq(rs, r.ladder)
    /\ r.source # "ADMIN" => \A i \in Originals(rs) : ~SameSource(rs[i], r)
    /\ r.source # "ADMIN" /\ r.result # "EXEMPT" =>
          r.result = LadderResult(r.ladder, Cardinality(Automatic(rs, r.ladder)) + 1)

\* A new row keeps the shape of a history.
LEMMA AddKeepsShape ==
    ASSUME NEW rs, Shape(rs), NEW r, NewRow(rs, r)
    PROVE  Shape(Append(rs, r))
<1> DEFINE ss == Append(rs, r)
           n == Len(rs)
<1>1. /\ n \in Nat /\ DOMAIN rs = 1..n /\ DOMAIN ss = 1..n + 1 /\ ss \in Seq(PenaltyRows)
      /\ \A i \in 1..n : ss[i] = rs[i] /\ rs[i] \in PenaltyRows
      /\ ss[n + 1] = r
      /\ Standing(ss) = Standing(rs) \cup {n + 1} /\ Reversed(ss) = Reversed(rs)
      /\ Standing(rs) \subseteq Originals(rs) /\ Originals(rs) \subseteq 1..n
  <2>1. r \in PenaltyRows /\ RowOK(r, n + 1) /\ r.result # "REVERSAL"
    BY DEF NewRow
  <2>2. /\ n \in Nat /\ DOMAIN rs = 1..n /\ Standing(rs) \subseteq Originals(rs)
        /\ Originals(rs) \subseteq 1..n /\ \A i \in 1..n : rs[i] \in PenaltyRows
    BY HistoryFacts DEF Standing, Originals
  <2>3. /\ DOMAIN ss = 1..n + 1 /\ ss \in Seq(PenaltyRows)
        /\ \A i \in 1..n : ss[i] = rs[i]
        /\ ss[n + 1] = r
    BY <2>1, AppendedRow
  <2>4. Standing(ss) = Standing(rs) \cup {n + 1} /\ Reversed(ss) = Reversed(rs)
    BY <2>1, AddedStands
  <2> QED
    BY <2>2, <2>3, <2>4
<1>2. /\ r \in PenaltyRows /\ RowOK(r, n + 1) /\ r.reverses = 0 /\ r.recalculates = 0
      /\ r.result # "REVERSAL"
      /\ r.source # "ADMIN" => \A i \in Originals(rs) : ~SameSource(rs[i], r)
  BY DEF NewRow
<1>3. \A i \in 1..n : rs[i].ladder = r.ladder => rs[i].seq # r.seq
  <2>1. r.seq = NextSeq(rs, r.ladder)
    BY DEF NewRow
  <2>2. \A i \in 1..n : rs[i].seq \in Nat /\ (rs[i].ladder = r.ladder => rs[i].seq < r.seq)
    <3>1. \A i \in DOMAIN rs : rs[i].ladder = r.ladder => rs[i].seq < NextSeq(rs, r.ladder)
      BY NextPlace
    <3> QED
      BY <1>1, <2>1, <3>1 DEF PenaltyRows
  <2>3. r.seq \in Nat
    BY <1>2 DEF PenaltyRows
  <2> QED
    BY <2>2, <2>3
<1> HIDE DEF ss, n
<1>4. \A i \in DOMAIN ss :
        RowOK(ss[i], i) /\ (ss[i].recalculates # 0 => ss[i].recalculates \in Reversed(ss))
  BY <1>1, <1>2 DEF Shape
<1>5. ASSUME NEW i \in DOMAIN ss, NEW j \in DOMAIN ss, i # j PROVE ApartInTable(ss, i, j)
  <2>1. CASE i \in 1..n /\ j \in 1..n
    BY <1>1, <1>5, <2>1 DEF Shape, ApartInTable
  <2>2. CASE i = n + 1 /\ j \in 1..n
    BY <1>1, <1>2, <2>2 DEF ApartInTable, SameSource, Originals
  <2>3. CASE j = n + 1 /\ i \in 1..n
    BY <1>1, <1>2, <2>3 DEF ApartInTable, SameSource, Originals
  <2> QED
    BY <1>1, <1>5, <2>1, <2>2, <2>3
<1>6. ASSUME NEW i \in Standing(ss), NEW j \in Standing(ss), i # j PROVE ApartStanding(ss, i, j)
  <2>1. CASE i \in Standing(rs) /\ j \in Standing(rs)
    BY <1>1, <1>6, <2>1 DEF Shape, ApartStanding
  <2>2. CASE i = n + 1 /\ j \in Standing(rs)
    BY <1>1, <1>2, <1>3, <2>2 DEF ApartStanding, SameSource
  <2>3. CASE j = n + 1 /\ i \in Standing(rs)
    BY <1>1, <1>2, <1>3, <2>3 DEF ApartStanding, SameSource
  <2> QED
    BY <1>1, <1>6, <2>1, <2>2, <2>3
<1> QED
  BY <1>1, <1>4, <1>5, <1>6 DEF Shape, ss

\* A strike more is the next one of its ladder; the others keep their places.
LEMMA AddKeepsLadder ==
    ASSUME NEW rs, Shape(rs), OnLadder(rs), NEW r, NewRow(rs, r)
    PROVE  OnLadder(Append(rs, r))
<1> DEFINE ss == Append(rs, r)
           n == Len(rs)
<1>1. r \in PenaltyRows /\ RowOK(r, n + 1) /\ r.result # "REVERSAL"
  BY DEF NewRow
<1>2. /\ n \in Nat /\ DOMAIN rs = 1..n /\ DOMAIN ss = 1..n + 1
      /\ \A i \in 1..n : ss[i] = rs[i]
      /\ ss[n + 1] = r
      /\ Standing(ss) = Standing(rs) \cup {n + 1}
      /\ Standing(rs) \subseteq 1..n
  <2>1. /\ DOMAIN ss = 1..n + 1 /\ ss[n + 1] = r /\ \A i \in 1..n : ss[i] = rs[i]
    BY <1>1, AppendedRow
  <2>2. Standing(ss) = Standing(rs) \cup {n + 1}
    BY <1>1, AddedStands
  <2> QED
    BY <2>1, <2>2, HistoryFacts
<1>3. Shape(ss)
  BY AddKeepsShape
<1>4. \A i \in 1..n : rs[i].seq \in Nat /\ (rs[i].ladder = r.ladder => rs[i].seq < r.seq)
  <2>1. r.seq = NextSeq(rs, r.ladder)
    BY DEF NewRow
  <2>2. \A i \in DOMAIN rs : rs[i].ladder = r.ladder => rs[i].seq < NextSeq(rs, r.ladder)
    BY NextPlace
  <2>3. \A i \in DOMAIN rs : rs[i].seq \in Nat
    BY HistoryFacts DEF PenaltyRows
  <2> QED
    BY <1>2, <2>1, <2>2, <2>3
<1>5. r.seq \in Nat
  BY <1>1 DEF PenaltyRows
<1> DEFINE strike == n + 1 \in Automatic(ss, r.ladder)
<1>6. \A ladder : Automatic(ss, ladder) \ {n + 1} = Automatic(rs, ladder)
  BY <1>2 DEF Automatic
<1>7. \A ladder : n + 1 \in Automatic(ss, ladder) => ladder = r.ladder
  BY <1>2 DEF Automatic
<1>8. \A ladder : Automatic(rs, ladder) \subseteq 1..n /\ n + 1 \notin 1..n
  BY <1>2 DEF Automatic
<1> SUFFICES ASSUME NEW ladder \in Ladders, NEW i \in Automatic(ss, ladder)
             PROVE  ss[i].result = LadderResult(ladder, StrikeOf(ss, i))
  BY DEF OnLadder, ss
<1>9. ss[i].ladder = ladder
  BY DEF Automatic
<1> DEFINE upTo == {j \in Automatic(ss, ladder) : ss[j].seq =< ss[i].seq}
<1>10. StrikeOf(ss, i) = Cardinality(upTo)
  BY <1>9 DEF StrikeOf
<1> HIDE DEF ss, n
<1>11. CASE i = n + 1
  <2>1. ladder = r.ladder /\ ss[i] = r
    BY <1>2, <1>7, <1>11
  <2>a. \A j \in Automatic(rs, ladder) : rs[j].ladder = ladder
    BY DEF Automatic
  <2>b. \A j \in Automatic(rs, ladder) : ss[j].seq =< ss[i].seq
    BY <1>2, <1>4, <1>5, <1>8, <2>1, <2>a
  <2>c. ss[i].seq =< ss[i].seq
    BY <1>5, <2>1
  <2>2. upTo = Automatic(rs, ladder) \cup {n + 1}
    BY <1>6, <1>11, <2>b, <2>c
  <2> HIDE DEF upTo
  <2>3. Cardinality(upTo) = Cardinality(Automatic(rs, ladder)) + 1
    BY <2>2, <1>8, HistoryFacts, FS_AddElement
  <2>4. r.result # "EXEMPT" /\ r.source # "ADMIN"
    BY <1>9, <2>1 DEF Automatic
  <2>5. r.result = LadderResult(r.ladder, Cardinality(Automatic(rs, r.ladder)) + 1)
    BY <2>4 DEF NewRow
  <2> QED
    BY <1>10, <2>1, <2>3, <2>5
<1>12. CASE i # n + 1
  <2>1. i \in Automatic(rs, ladder) /\ i \in 1..n /\ ss[i] = rs[i] /\ rs[i].ladder = ladder
    BY <1>2, <1>6, <1>8, <1>9, <1>12
  <2>2. n + 1 \in Automatic(ss, ladder) => ~(ss[n + 1].seq =< ss[i].seq)
    BY <1>2, <1>4, <1>5, <1>7, <2>1
  <2>3. upTo = {j \in Automatic(rs, ladder) : rs[j].seq =< rs[i].seq}
    BY <1>2, <1>6, <1>8, <2>1, <2>2
  <2>4. Cardinality(upTo) = StrikeOf(rs, i)
    BY <2>1, <2>3 DEF StrikeOf
  <2>5. rs[i].result = LadderResult(ladder, StrikeOf(rs, i))
    BY <2>1 DEF OnLadder
  <2> QED
    BY <1>10, <2>1, <2>4, <2>5
<1> QED
  BY <1>11, <1>12

\* What a new reversal has to be.
NewReversal(rs, r) ==
    /\ r \in PenaltyRows /\ RowOK(r, Len(rs) + 1)
    /\ r.result = "REVERSAL" /\ r.reverses \in Standing(rs) /\ r.recalculates = 0
    /\ SameSource(r, rs[r.reverses])

\* A reversal keeps the shape of a history.
LEMMA TakeKeepsShape ==
    ASSUME NEW rs, Shape(rs), NEW r, NewReversal(rs, r)
    PROVE  Shape(Append(rs, r))
<1> DEFINE ss == Append(rs, r)
           n == Len(rs)
<1>2. /\ r \in PenaltyRows /\ RowOK(r, n + 1) /\ r.reverses \in Standing(rs) /\ r.recalculates = 0
      /\ r.result = "REVERSAL"
  BY DEF NewReversal
<1>1. /\ n \in Nat /\ DOMAIN rs = 1..n /\ DOMAIN ss = 1..n + 1 /\ ss \in Seq(PenaltyRows)
      /\ \A i \in 1..n : ss[i] = rs[i] /\ rs[i] \in PenaltyRows
      /\ ss[n + 1] = r
      /\ Standing(ss) \subseteq Standing(rs) /\ Reversed(rs) \subseteq Reversed(ss)
      /\ Standing(rs) \subseteq 1..n
  <2>2. /\ n \in Nat /\ DOMAIN rs = 1..n /\ Standing(rs) \subseteq 1..n
        /\ \A i \in 1..n : rs[i] \in PenaltyRows
    BY HistoryFacts
  <2>3. /\ DOMAIN ss = 1..n + 1 /\ ss \in Seq(PenaltyRows)
        /\ \A i \in 1..n : ss[i] = rs[i]
        /\ ss[n + 1] = r
    BY <1>2, AppendedRow
  <2>4. Standing(ss) \subseteq Standing(rs) /\ Reversed(rs) \subseteq Reversed(ss)
    BY <1>2, TakenStands
  <2> QED
    BY <2>2, <2>3, <2>4
<1>3. \A i \in 1..n : rs[i].reverses # 0 => rs[i].reverses # r.reverses
  BY <1>1, <1>2, HistoryFacts DEF Standing
<1> HIDE DEF ss, n
<1>4. \A i \in DOMAIN ss :
        RowOK(ss[i], i) /\ (ss[i].recalculates # 0 => ss[i].recalculates \in Reversed(ss))
  BY <1>1, <1>2 DEF Shape
<1>5. ASSUME NEW i \in DOMAIN ss, NEW j \in DOMAIN ss, i # j PROVE ApartInTable(ss, i, j)
  <2>1. CASE i \in 1..n /\ j \in 1..n
    BY <1>1, <1>5, <2>1 DEF Shape, ApartInTable
  <2>2. CASE i = n + 1 /\ j \in 1..n
    BY <1>1, <1>2, <1>3, <2>2 DEF ApartInTable
  <2>3. CASE j = n + 1 /\ i \in 1..n
    BY <1>1, <1>2, <1>3, <2>3 DEF ApartInTable
  <2> QED
    BY <1>1, <1>5, <2>1, <2>2, <2>3
<1>6. ASSUME NEW i \in Standing(ss), NEW j \in Standing(ss), i # j PROVE ApartStanding(ss, i, j)
  BY <1>1, <1>6 DEF Shape, ApartStanding
<1> QED
  BY <1>1, <1>4, <1>5, <1>6 DEF Shape, ss

\* What stands in one history is what stands in another, each from its origin,
\* on the same ladder, in the same place and for the same source.
SamePlace(r, s) ==
    /\ r.ladder = s.ladder /\ r.seq = s.seq /\ SameSource(r, s)
    /\ (r.result = "EXEMPT") <=> (s.result = "EXEMPT")

StandsFor(ss, rs, origin) ==
    /\ origin \in Bijection(Standing(ss), Standing(rs))
    /\ \A j \in Standing(ss) : SamePlace(ss[j], rs[origin[j]])

\* The strikes have the same places then.
LEMMA SameStrikes ==
    ASSUME NEW rs, Shape(rs), NEW ss, NEW origin, StandsFor(ss, rs, origin),
           NEW ladder, NEW j \in Automatic(ss, ladder)
    PROVE  origin[j] \in Automatic(rs, ladder) /\ StrikeOf(ss, j) = StrikeOf(rs, origin[j])
<1>1. /\ origin \in [Standing(ss) -> Standing(rs)]
      /\ \A x, y \in Standing(ss) : origin[x] = origin[y] => x = y
      /\ \A z \in Standing(rs) : \E x \in Standing(ss) : origin[x] = z
  BY DEF StandsFor, Bijection, Injection, Surjection, IsInjective
<1>2. \A x \in Standing(ss) : SamePlace(ss[x], rs[origin[x]])
  BY DEF StandsFor
<1>3. \A x \in Standing(ss) : x \in Automatic(ss, ladder) <=> origin[x] \in Automatic(rs, ladder)
  BY <1>1, <1>2 DEF Automatic, SamePlace, SameSource
<1>4. j \in Standing(ss) /\ ss[j].ladder = ladder /\ rs[origin[j]].ladder = ladder
  BY <1>2 DEF Automatic, SamePlace
<1> DEFINE S == {k \in Automatic(ss, ladder) : ss[k].seq =< ss[j].seq}
           T == {k \in Automatic(rs, ladder) : rs[k].seq =< rs[origin[j]].seq}
           f == [k \in S |-> origin[k]]
<1>5. \A k \in Automatic(ss, ladder) : k \in Standing(ss)
  BY DEF Automatic
<1>5a. \A k \in Automatic(rs, ladder) : k \in Standing(rs)
  BY DEF Automatic
<1>6. \A k \in Standing(ss) : k \in S <=> origin[k] \in T
  BY <1>2, <1>3, <1>4 DEF SamePlace
<1>7. f \in [S -> T] /\ \A x, y \in S : f[x] = f[y] => x = y
  BY <1>1, <1>5, <1>6
<1>8. \A z \in T : \E x \in S : f[x] = z
  BY <1>1, <1>5a, <1>6
<1> HIDE DEF f
<1>9. f \in Injection(S, T) /\ f \in Surjection(S, T)
  BY <1>7, <1>8 DEF Injection, Surjection, IsInjective
<1>10. IsFiniteSet(T)
  <2>1. T \in SUBSET Automatic(rs, ladder)
    OBVIOUS
  <2> HIDE DEF T
  <2> QED
    BY <2>1, HistoryFacts, FS_Subset
<1>11. StrikeOf(ss, j) = Cardinality(S) /\ StrikeOf(rs, origin[j]) = Cardinality(T)
  BY <1>4 DEF StrikeOf
<1> HIDE DEF S, T
<1>13. Cardinality(S) = Cardinality(T)
  BY <1>9, <1>10, FS_Injection
<1> QED
  BY <1>3, <1>4, <1>11, <1>13

\* Rows that a recalculation writes.
LEMMA RecalculationRows ==
    ASSUME now \in Nat, NEW rs, Shape(rs), NEW i \in Misplaced(rs)
    PROVE  /\ i \in Standing(rs) /\ i \in 1..Len(rs) /\ i \in Nat \ {0}
           /\ ReversalOf(rs, i) \in PenaltyRows /\ ReplacementOf(rs, i) \in PenaltyRows
           /\ ReversalOf(rs, i).result = "REVERSAL" /\ ReversalOf(rs, i).reverses = i
           /\ ReversalOf(rs, i).recalculates = 0
           /\ SameSource(ReversalOf(rs, i), rs[i])
           /\ ReplacementOf(rs, i).result \in StrikeResults
           /\ \A ladder : i \in Automatic(rs, ladder) =>
                 ReplacementOf(rs, i).result = LadderResult(ladder, StrikeOf(rs, i))
           /\ ReplacementOf(rs, i).reverses = 0 /\ ReplacementOf(rs, i).recalculates = i
           /\ SamePlace(ReplacementOf(rs, i), rs[i])
           /\ ReversalOf(rs, i).kind = "NONE" /\ ReplacementOf(rs, i).kind = "NONE"
           /\ ReversalOf(rs, i).key = 0 /\ ReplacementOf(rs, i).key = 0
           /\ \A j \in Nat : j > Len(rs) => RowOK(ReversalOf(rs, i), j) /\ RowOK(ReplacementOf(rs, i), j)
<1>1. PICK l \in Ladders : i \in Automatic(rs, l)
  BY DEF Misplaced
<1>2. i \in Standing(rs) /\ i \in 1..Len(rs) /\ i \in Nat \ {0} /\ Len(rs) \in Nat
  BY <1>1, HistoryFacts
<1>3. rs[i] \in PenaltyRows /\ RowOK(rs[i], i) /\ rs[i].result # "EXEMPT" /\ rs[i].ladder = l
  BY <1>1, <1>2, HistoryFacts DEF Automatic
<1>4. LadderResult(l, StrikeOf(rs, i)) \in StrikeResults
  BY <1>1, StrikeFacts
<1>5. \A ladder : i \in Automatic(rs, ladder) => ladder = l
  BY <1>3 DEF Automatic
<1> DEFINE res == LadderResult(rs[i].ladder, StrikeOf(rs, i))
<1>6. res \in StrikeResults /\ \A ladder : i \in Automatic(rs, ladder) => res = LadderResult(ladder, StrikeOf(rs, i))
  BY <1>3, <1>4, <1>5
<1>7. Dated("REVERSAL") \in Nat /\ Dated(res) \in Nat
  BY DEF Dated
<1>8. ReversalOf(rs, i) =
        [ladder |-> rs[i].ladder, source |-> rs[i].source, id |-> rs[i].id, seq |-> rs[i].seq,
         result |-> "REVERSAL", at |-> Dated("REVERSAL"), reverses |-> i, recalculates |-> 0,
         key |-> 0, kind |-> "NONE"]
  BY DEF ReversalOf, Record
<1>9. ReplacementOf(rs, i) =
        [ladder |-> rs[i].ladder, source |-> rs[i].source, id |-> rs[i].id, seq |-> rs[i].seq,
         result |-> res, at |-> Dated(res), reverses |-> 0, recalculates |-> i,
         key |-> 0, kind |-> "NONE"]
  BY DEF ReplacementOf, Record
<1> HIDE DEF res
<1>10. /\ rs[i].ladder \in Ladders /\ rs[i].source \in PenaltySources /\ rs[i].id \in PenaltyIds
       /\ rs[i].seq \in Nat
  BY <1>3 DEF PenaltyRows
<1>11. ReversalOf(rs, i) \in PenaltyRows /\ ReplacementOf(rs, i) \in PenaltyRows
  BY <1>2, <1>6, <1>7, <1>8, <1>9, <1>10 DEF PenaltyRows
<1>12. res \notin {"EXEMPT", "REVERSAL"}
  BY <1>6 DEF StrikeResults
<1>13. SameSource(ReversalOf(rs, i), rs[i]) /\ SamePlace(ReplacementOf(rs, i), rs[i])
  BY <1>3, <1>8, <1>9, <1>12 DEF SameSource, SamePlace
<1>14. ASSUME NEW j \in Nat, j > Len(rs) PROVE RowOK(ReversalOf(rs, i), j) /\ RowOK(ReplacementOf(rs, i), j)
  <2>1. rs[i].seq > 0 /\ ((rs[i].source = "REVIEW_AVERAGE") <=> (rs[i].ladder = "REVIEW"))
    BY <1>3 DEF RowOK
  <2>2. i < j /\ 0 < j /\ i # 0
    BY <1>2, <1>14
  <2> QED
    BY <1>8, <1>9, <1>12, <2>1, <2>2 DEF RowOK
<1> QED
  BY <1>2, <1>6, <1>8, <1>9, <1>11, <1>13, <1>14

\* Every place in a tail of pairs is the first or the second of its pair.
LEMMA Halves ==
    ASSUME NEW c \in Nat, NEW h \in 1..2 * c
    PROVE  /\ h % 2 = 1 => (h + 1) \div 2 \in 1..c /\ h = 2 * ((h + 1) \div 2) - 1
           /\ h % 2 # 1 => h \div 2 \in 1..c /\ h = 2 * (h \div 2)
  OBVIOUS

\* Every row of a recalculated history is an old one, the reversal of a
\* misplaced strike, or its replacement in the row after it.
LEMMA RecalculatedRows ==
    ASSUME now \in Nat, NEW rs, Shape(rs)
    PROVE  LET ss == Recalculated(rs)
               n == Len(rs)
               c == Cardinality(Misplaced(rs))
               plan == InOrder(Misplaced(rs))
           IN  /\ c \in Nat /\ plan \in [1..c -> Misplaced(rs)]
               /\ \A k, l \in 1..c : plan[k] = plan[l] => k = l
               /\ \A x \in Misplaced(rs) : \E k \in 1..c : plan[k] = x
               /\ ss \in Seq(PenaltyRows) /\ Len(ss) = n + 2 * c /\ DOMAIN ss = 1..n + 2 * c
               /\ \A i \in 1..n : ss[i] = rs[i]
               /\ \A k \in 1..c : /\ ss[n + 2 * k - 1] = ReversalOf(rs, plan[k])
                                  /\ ss[n + 2 * k] = ReplacementOf(rs, plan[k])
               /\ \A i \in DOMAIN ss : \/ i \in 1..n
                                       \/ \E k \in 1..c : i = n + 2 * k - 1 \/ i = n + 2 * k
<1> DEFINE ss == Recalculated(rs)
           n == Len(rs)
           M == Misplaced(rs)
           c == Cardinality(M)
           plan == InOrder(M)
           tail == [k \in 1..2 * c |-> IF k % 2 = 1 THEN ReversalOf(rs, plan[(k + 1) \div 2])
                                                    ELSE ReplacementOf(rs, plan[k \div 2])]
<1>1. M \in SUBSET (1..n) /\ n \in Nat
  BY RecalculationRows, HistoryFacts
<1>2. IsFiniteSet(M) /\ M \in SUBSET Int
  <2>1. IsFiniteSet(1..n)
    BY <1>1, FS_Interval
  <2> HIDE DEF M, n
  <2>2. M \in SUBSET Int
    BY <1>1
  <2> QED
    BY <1>1, <2>1, <2>2, FS_Subset
<1>3. /\ c \in Nat /\ plan \in [1..c -> M]
      /\ \A k, l \in 1..c : plan[k] = plan[l] => k = l
      /\ \A x \in M : \E k \in 1..c : plan[k] = x
  BY <1>2, OrderFacts
<1>4. ss = rs \o tail
  BY DEF Recalculated
<1>r. \A x \in M : ReversalOf(rs, x) \in PenaltyRows /\ ReplacementOf(rs, x) \in PenaltyRows
  BY RecalculationRows
<1> HIDE DEF M, c, plan
<1>5. \A k \in 1..2 * c : IF k % 2 = 1 THEN (k + 1) \div 2 \in 1..c ELSE k \div 2 \in 1..c
  BY <1>3
<1>6. tail \in [1..2 * c -> PenaltyRows]
  BY <1>3, <1>5, <1>r
<1>7. tail \in Seq(PenaltyRows) /\ Len(tail) = 2 * c
  BY <1>3, <1>6
<1>8. \A k \in 1..c : /\ tail[2 * k - 1] = ReversalOf(rs, plan[k])
                      /\ tail[2 * k] = ReplacementOf(rs, plan[k])
  <2> SUFFICES ASSUME NEW k \in 1..c
               PROVE  /\ tail[2 * k - 1] = ReversalOf(rs, plan[k])
                      /\ tail[2 * k] = ReplacementOf(rs, plan[k])
    OBVIOUS
  <2>1. /\ 2 * k - 1 \in 1..2 * c /\ (2 * k - 1) % 2 = 1 /\ (2 * k - 1 + 1) \div 2 = k
        /\ 2 * k \in 1..2 * c /\ (2 * k) % 2 # 1 /\ (2 * k) \div 2 = k
    BY <1>3
  <2> QED
    BY <2>1
<1> HIDE DEF tail
<1>9. rs \in Seq(PenaltyRows)
  BY DEF Shape
<1>10. /\ ss \in Seq(PenaltyRows) /\ Len(ss) = n + 2 * c /\ DOMAIN ss = 1..n + 2 * c
       /\ \A i \in 1..n : ss[i] = rs[i]
       /\ \A i \in 1..2 * c : ss[n + i] = tail[i]
  <2> HIDE DEF ss
  <2>1. ss \in Seq(PenaltyRows)
    BY <1>4, <1>7, <1>9
  <2>a. Len(ss) = Len(rs) + Len(tail)
    <3>1. \A s, t \in Seq(PenaltyRows) : Len(s \o t) = Len(s) + Len(t)
      OBVIOUS
    <3> QED
      BY <1>4, <1>7, <1>9, <3>1
  <2>b. DOMAIN ss = 1..Len(ss)
    BY <2>1
  <2>2. Len(ss) = n + 2 * c /\ DOMAIN ss = 1..n + 2 * c
    BY <1>7, <2>a, <2>b
  <2>3. \A i \in 1..n : ss[i] = rs[i]
    BY <1>4, <1>7, <1>9
  <2>4. ASSUME NEW i \in 1..2 * c PROVE ss[n + i] = tail[i]
    <3>1. n + i \in 1..Len(rs) + Len(tail) /\ ~(n + i <= Len(rs)) /\ n + i - Len(rs) = i
      BY <1>1, <1>3, <1>7
    <3> QED
      BY <1>4, <1>7, <1>9, <3>1
  <2> QED
    BY <2>1, <2>2, <2>3, <2>4
<1> HIDE DEF ss, n
<1>11. ASSUME NEW k \in 1..c
       PROVE  /\ ss[n + 2 * k - 1] = ReversalOf(rs, plan[k])
              /\ ss[n + 2 * k] = ReplacementOf(rs, plan[k])
  <2>1. 2 * k - 1 \in 1..2 * c /\ 2 * k \in 1..2 * c /\ n + (2 * k - 1) = n + 2 * k - 1
    BY <1>1, <1>3
  <2> QED
    BY <1>8, <1>10, <2>1
<1>12. ASSUME NEW i \in DOMAIN ss, i \notin 1..n
       PROVE  \E k \in 1..c : i = n + 2 * k - 1 \/ i = n + 2 * k
  <2> DEFINE h == i - n
  <2>1. h \in 1..2 * c /\ i = n + h /\ i \in Int
    BY <1>1, <1>3, <1>10, <1>12
  <2> HIDE DEF h
  <2>2. CASE h % 2 = 1
    <3>1. (h + 1) \div 2 \in 1..c /\ h = 2 * ((h + 1) \div 2) - 1
      BY <1>3, <2>1, <2>2, Halves
    <3>2. PICK k \in 1..c : h = 2 * k - 1
      BY <3>1
    <3>3. i = n + 2 * k - 1
      BY <1>1, <1>3, <2>1, <3>2
    <3> QED
      BY <3>3
  <2>3. CASE h % 2 # 1
    <3>1. h \div 2 \in 1..c /\ h = 2 * (h \div 2)
      BY <1>3, <2>1, <2>3, Halves
    <3> QED
      BY <2>1, <3>1
  <2> QED
    BY <2>2, <2>3
<1> QED
  BY <1>3, <1>10, <1>11, <1>12 DEF ss, n, c, M, plan

\* What a recalculation leaves: the history as it was, rows for the same
\* sources, and strikes that have the results of their places.
Continues(ss, rs) ==
    /\ Len(rs) =< Len(ss)
    /\ \A i \in DOMAIN rs : i \in DOMAIN ss /\ ss[i] = rs[i]
    /\ \A i \in DOMAIN ss \ DOMAIN rs :
          /\ ss[i].key = 0 /\ ss[i].kind = "NONE"
          /\ \E j \in DOMAIN rs : SameSource(ss[i], rs[j])
    /\ \A i \in Standing(ss) : \E j \in Standing(rs) : SameSource(ss[i], rs[j])

\* A recalculation keeps the shape of a history, puts its strikes on their
\* ladder and adds no source.
LEMMA RecalculatedKeeps ==
    ASSUME now \in Nat, NEW rs, Shape(rs)
    PROVE  Shape(Recalculated(rs)) /\ OnLadder(Recalculated(rs)) /\ Continues(Recalculated(rs), rs)
<1> DEFINE ss == Recalculated(rs)
           n == Len(rs)
           M == Misplaced(rs)
           c == Cardinality(M)
           plan == InOrder(M)
<1>1. /\ c \in Nat /\ plan \in [1..c -> M]
      /\ \A k, l \in 1..c : plan[k] = plan[l] => k = l
      /\ \A x \in M : \E k \in 1..c : plan[k] = x
  BY RecalculatedRows
<1>2. /\ ss \in Seq(PenaltyRows) /\ Len(ss) = n + 2 * c /\ DOMAIN ss = 1..n + 2 * c
      /\ \A i \in 1..n : ss[i] = rs[i]
  BY RecalculatedRows
<1>3. /\ \A k \in 1..c : ss[n + 2 * k - 1] = ReversalOf(rs, plan[k])
      /\ \A k \in 1..c : ss[n + 2 * k] = ReplacementOf(rs, plan[k])
  BY RecalculatedRows
<1>4. \A i \in DOMAIN ss : i \notin 1..n => \E k \in 1..c : i = n + 2 * k - 1 \/ i = n + 2 * k
  BY RecalculatedRows
<1>5. /\ n \in Nat /\ DOMAIN rs = 1..n
      /\ \A i \in 1..n : rs[i] \in PenaltyRows /\ RowOK(rs[i], i)
      /\ Standing(rs) \subseteq 1..n
  BY HistoryFacts
<1>6. \A x \in M : x \in Standing(rs) /\ x \in 1..n /\ x \in Nat /\ x # 0
  BY RecalculationRows
<1> DEFINE back(k) == n + 2 * k - 1
           anew(k) == n + 2 * k
<1>7. \A k \in 1..c : /\ back(k) \in DOMAIN ss /\ back(k) \notin 1..n /\ back(k) \in Nat /\ back(k) > n
                      /\ anew(k) \in DOMAIN ss /\ anew(k) \notin 1..n /\ anew(k) \in Nat /\ anew(k) > n
  BY <1>1, <1>2, <1>5
<1>8. \A k, l \in 1..c : /\ back(k) # anew(l)
                         /\ back(k) = back(l) => k = l
                         /\ anew(k) = anew(l) => k = l
  BY <1>1, <1>5
<1>9. \A k \in 1..c : ss[back(k)] = ReversalOf(rs, plan[k]) /\ ss[anew(k)] = ReplacementOf(rs, plan[k])
  BY <1>3
<1>10. \A i \in DOMAIN ss : i \notin 1..n => \E k \in 1..c : i = back(k) \/ i = anew(k)
  BY <1>4
<1>11. \A i \in 1..n : i \in DOMAIN ss
  BY <1>1, <1>2, <1>5
<1> HIDE DEF back, anew, ss, M, c, plan
<1>12. \A k \in 1..c :
         /\ plan[k] \in M /\ plan[k] \in Standing(rs) /\ plan[k] \in 1..n /\ plan[k] # 0
         /\ ss[back(k)].result = "REVERSAL" /\ ss[back(k)].reverses = plan[k]
         /\ ss[back(k)].recalculates = 0 /\ RowOK(ss[back(k)], back(k))
         /\ SameSource(ss[back(k)], rs[plan[k]])
         /\ ss[back(k)].key = 0 /\ ss[back(k)].kind = "NONE"
  <2> SUFFICES ASSUME NEW k \in 1..c
               PROVE  /\ plan[k] \in M /\ plan[k] \in Standing(rs) /\ plan[k] \in 1..n /\ plan[k] # 0
                      /\ ss[back(k)].result = "REVERSAL" /\ ss[back(k)].reverses = plan[k]
                      /\ ss[back(k)].recalculates = 0 /\ RowOK(ss[back(k)], back(k))
                      /\ SameSource(ss[back(k)], rs[plan[k]])
                      /\ ss[back(k)].key = 0 /\ ss[back(k)].kind = "NONE"
    OBVIOUS
  <2>1. plan[k] \in M /\ plan[k] \in Misplaced(rs)
    BY <1>1 DEF M
  <2> QED
    BY <1>6, <1>7, <1>9, <2>1, RecalculationRows
<1>13. \A k \in 1..c :
         /\ ss[anew(k)].result \in StrikeResults
         /\ \A ladder : plan[k] \in Automatic(rs, ladder) =>
               ss[anew(k)].result = LadderResult(ladder, StrikeOf(rs, plan[k]))
         /\ ss[anew(k)].reverses = 0 /\ ss[anew(k)].recalculates = plan[k]
         /\ SamePlace(ss[anew(k)], rs[plan[k]]) /\ RowOK(ss[anew(k)], anew(k))
         /\ ss[anew(k)].key = 0 /\ ss[anew(k)].kind = "NONE"
  <2> SUFFICES ASSUME NEW k \in 1..c
               PROVE  /\ ss[anew(k)].result \in StrikeResults
                      /\ \A ladder : plan[k] \in Automatic(rs, ladder) =>
                            ss[anew(k)].result = LadderResult(ladder, StrikeOf(rs, plan[k]))
                      /\ ss[anew(k)].reverses = 0 /\ ss[anew(k)].recalculates = plan[k]
                      /\ SamePlace(ss[anew(k)], rs[plan[k]]) /\ RowOK(ss[anew(k)], anew(k))
                      /\ ss[anew(k)].key = 0 /\ ss[anew(k)].kind = "NONE"
    OBVIOUS
  <2>1. plan[k] \in M /\ plan[k] \in Misplaced(rs)
    BY <1>1 DEF M
  <2> QED
    BY <1>6, <1>7, <1>9, <2>1, RecalculationRows
<1>14. \A k \in 1..c : ss[anew(k)].result # "REVERSAL"
  BY <1>13 DEF StrikeResults
<1> HIDE DEF n
<1>15. \A i : i \in Originals(ss) <=> i \in Originals(rs) \/ \E k \in 1..c : i = anew(k)
  BY <1>2, <1>5, <1>7, <1>8, <1>10, <1>11, <1>12, <1>14 DEF Originals
<1>16. \A x : x \in Reversed(ss) <=> x \in Reversed(rs) \/ x \in M
  <2>1. \A i : i \in DOMAIN ss \ Originals(ss) <=>
               i \in DOMAIN rs \ Originals(rs) \/ \E k \in 1..c : i = back(k)
    BY <1>5, <1>7, <1>8, <1>10, <1>11, <1>12, <1>15 DEF Originals
  <2>2. \A i \in DOMAIN rs : ss[i] = rs[i]
    BY <1>2, <1>5
  <2> QED
    BY <1>1, <1>12, <2>1, <2>2 DEF Reversed
<1>17. \A k \in 1..c : anew(k) \notin Reversed(rs) /\ anew(k) \notin M
  <2>1. \A x \in Reversed(rs) : x <= n
    <3> SUFFICES ASSUME NEW x \in Reversed(rs) PROVE x <= n
      OBVIOUS
    <3>1. PICK i \in 1..n : rs[i].reverses = x
      BY HistoryFacts DEF n
    <3>2. rs[i].reverses \in Nat /\ rs[i].reverses < i
      BY <1>5 DEF RowOK, PenaltyRows
    <3> QED
      BY <1>5, <3>1, <3>2
  <2> QED
    BY <1>5, <1>6, <1>7, <2>1
<1>18. \A i : i \in Standing(ss) <=> (i \in Standing(rs) /\ i \notin M) \/ \E k \in 1..c : i = anew(k)
  BY <1>15, <1>16, <1>17 DEF Standing
<1> DEFINE origin == [j \in Standing(ss) |->
                        IF j \in 1..n THEN j ELSE plan[CHOOSE k \in 1..c : j = anew(k)]]
<1>19. /\ \A j \in Standing(ss) : j \in 1..n => j \in Standing(rs) /\ j \notin M /\ origin[j] = j
       /\ \A k \in 1..c : anew(k) \in Standing(ss) /\ origin[anew(k)] = plan[k]
       /\ \A j \in Standing(ss) : j \notin 1..n => \E k \in 1..c : j = anew(k)
  <2>1. \A j \in Standing(ss) : j \in 1..n => j \in Standing(rs) /\ j \notin M /\ origin[j] = j
    BY <1>7, <1>18
  <2>2. \A k \in 1..c : anew(k) \in Standing(ss) /\ anew(k) \notin 1..n
    BY <1>7, <1>18
  <2>3. \A k \in 1..c : (CHOOSE l \in 1..c : anew(k) = anew(l)) = k
    BY <1>8
  <2>4. \A k \in 1..c : origin[anew(k)] = plan[k]
    BY <2>2, <2>3
  <2>5. \A j \in Standing(ss) : j \notin 1..n => \E k \in 1..c : j = anew(k)
    BY <1>5, <1>18
  <2> QED
    BY <2>1, <2>2, <2>4, <2>5
<1>20. origin \in [Standing(ss) -> Standing(rs)]
  <2>1. \A j \in Standing(ss) : origin[j] \in Standing(rs)
    BY <1>12, <1>19
  <2> QED
    BY <2>1
<1> HIDE DEF origin
<1>21. \A x, y \in Standing(ss) : origin[x] = origin[y] => x = y
  BY <1>1, <1>12, <1>19
<1>22. \A z \in Standing(rs) : \E x \in Standing(ss) : origin[x] = z
  BY <1>1, <1>5, <1>18, <1>19
<1>23. \A j \in Standing(ss) : SamePlace(ss[j], rs[origin[j]])
  <2>1. ASSUME NEW j \in Standing(ss), j \in 1..n PROVE SamePlace(ss[j], rs[origin[j]])
    BY <1>2, <1>19, <2>1 DEF SamePlace, SameSource
  <2>2. ASSUME NEW j \in Standing(ss), j \notin 1..n PROVE SamePlace(ss[j], rs[origin[j]])
    BY <1>13, <1>19, <2>2
  <2> QED
    BY <2>1, <2>2
<1>24. StandsFor(ss, rs, origin)
  BY <1>20, <1>21, <1>22, <1>23 DEF StandsFor, Bijection, Injection, Surjection, IsInjective
<1>25. Shape(ss)
  <2>1. \A i \in DOMAIN ss :
          RowOK(ss[i], i) /\ (ss[i].recalculates # 0 => ss[i].recalculates \in Reversed(ss))
    <3>1. ASSUME NEW i \in 1..n
          PROVE  RowOK(ss[i], i) /\ (ss[i].recalculates # 0 => ss[i].recalculates \in Reversed(ss))
      BY <1>2, <1>5, <1>16 DEF Shape
    <3>2. ASSUME NEW k \in 1..c
          PROVE  /\ RowOK(ss[back(k)], back(k)) /\ ss[back(k)].recalculates = 0
                 /\ RowOK(ss[anew(k)], anew(k)) /\ ss[anew(k)].recalculates \in Reversed(ss)
      BY <1>12, <1>13, <1>16
    <3> QED
      BY <1>10, <3>1, <3>2
  <2>2. ASSUME NEW i \in DOMAIN ss, NEW j \in DOMAIN ss, i # j PROVE ApartInTable(ss, i, j)
    <3>1. \A x \in 1..n : (rs[x].reverses # 0 => rs[x].reverses \notin M)
                          /\ (rs[x].recalculates # 0 => rs[x].recalculates \notin M)
      <4>1. \A x \in M : x \notin Reversed(rs)
        BY <1>6 DEF Standing
      <4>2. \A x \in 1..n : rs[x].reverses # 0 => rs[x].reverses \in Reversed(rs)
        BY HistoryFacts DEF n
      <4>3. \A x \in 1..n : rs[x].recalculates # 0 => rs[x].recalculates \in Reversed(rs)
        BY <1>5 DEF Shape
      <4> QED
        BY <4>1, <4>2, <4>3
    <3>2. CASE i \in 1..n /\ j \in 1..n
      <4>1. ApartInTable(rs, i, j)
        BY <1>5, <2>2, <3>2 DEF Shape
      <4> QED
        BY <1>2, <3>2, <4>1 DEF ApartInTable
    <3>3. CASE i \in 1..n /\ j \notin 1..n
      <4>1. PICK k \in 1..c : j = back(k) \/ j = anew(k)
        BY <1>10, <3>3
      <4> QED
        BY <1>2, <1>12, <1>13, <3>1, <3>3, <4>1 DEF ApartInTable
    <3>4. CASE i \notin 1..n /\ j \in 1..n
      <4>1. PICK k \in 1..c : i = back(k) \/ i = anew(k)
        BY <1>10, <3>4
      <4> QED
        BY <1>2, <1>12, <1>13, <3>1, <3>4, <4>1 DEF ApartInTable
    <3>5. CASE i \notin 1..n /\ j \notin 1..n
      <4>1. PICK k \in 1..c : i = back(k) \/ i = anew(k)
        BY <1>10, <3>5
      <4>2. PICK l \in 1..c : j = back(l) \/ j = anew(l)
        BY <1>10, <3>5
      <4>3. plan[k] = plan[l] => k = l
        BY <1>1
      <4> QED
        BY <1>12, <1>13, <2>2, <4>1, <4>2, <4>3 DEF ApartInTable
    <3> QED
      BY <3>2, <3>3, <3>4, <3>5
  <2>3. ASSUME NEW i \in Standing(ss), NEW j \in Standing(ss), i # j PROVE ApartStanding(ss, i, j)
    <3>1. origin[i] \in Standing(rs) /\ origin[j] \in Standing(rs) /\ origin[i] # origin[j]
      BY <1>20, <1>21, <2>3
    <3>2. ApartStanding(rs, origin[i], origin[j])
      BY <3>1 DEF Shape
    <3>3. SamePlace(ss[i], rs[origin[i]]) /\ SamePlace(ss[j], rs[origin[j]])
      BY <1>23
    <3> QED
      BY <3>2, <3>3 DEF ApartStanding, SamePlace, SameSource
  <2> QED
    BY <1>2, <2>1, <2>2, <2>3 DEF Shape
<1>26. OnLadder(ss)
  <2> SUFFICES ASSUME NEW ladder \in Ladders, NEW j \in Automatic(ss, ladder)
               PROVE  ss[j].result = LadderResult(ladder, StrikeOf(ss, j))
    BY DEF OnLadder
  <2>1. origin[j] \in Automatic(rs, ladder) /\ StrikeOf(ss, j) = StrikeOf(rs, origin[j])
    BY <1>24, SameStrikes
  <2>2. j \in Standing(ss)
    BY DEF Automatic
  <2>3. CASE j \in 1..n
    <3>1. origin[j] = j /\ j \notin M /\ ss[j] = rs[j]
      BY <1>2, <1>19, <2>2, <2>3
    <3>2. rs[j].ladder = ladder
      BY <2>1, <3>1 DEF Automatic
    <3>3. rs[j].result = LadderResult(ladder, StrikeOf(rs, j))
      BY <2>1, <3>1, <3>2 DEF M, Misplaced
    <3> QED
      BY <2>1, <3>1, <3>3
  <2>4. CASE j \notin 1..n
    <3>1. PICK k \in 1..c : j = anew(k) /\ origin[j] = plan[k]
      BY <1>19, <2>2, <2>4
    <3> QED
      BY <1>13, <2>1, <3>1
  <2> QED
    BY <2>3, <2>4
<1>27. Continues(ss, rs)
  <2>1. Len(rs) =< Len(ss)
    BY <1>1, <1>2, <1>5 DEF n
  <2>2. \A i \in DOMAIN rs : i \in DOMAIN ss /\ ss[i] = rs[i]
    BY <1>2, <1>5, <1>11
  <2>3. ASSUME NEW i \in DOMAIN ss \ DOMAIN rs
        PROVE  /\ ss[i].key = 0 /\ ss[i].kind = "NONE"
               /\ \E j \in DOMAIN rs : SameSource(ss[i], rs[j])
    <3>1. PICK k \in 1..c : i = back(k) \/ i = anew(k)
      BY <1>5, <1>10
    <3> QED
      BY <1>5, <1>12, <1>13, <3>1 DEF SamePlace
  <2>4. \A i \in Standing(ss) : \E j \in Standing(rs) : SameSource(ss[i], rs[j])
    BY <1>20, <1>23 DEF SamePlace
  <2> QED
    BY <2>1, <2>2, <2>3, <2>4 DEF Continues
<1> QED
  BY <1>25, <1>26, <1>27 DEF ss
-----------------------------------------------------------------------------
(* The rows that the commands write *)

\* The row of an Admin's penalty, and the reversal that he adds.
AddedRow(rs, key, result) ==
    [Record("MISCONDUCT", "ADMIN", key, NextSeq(rs, "MISCONDUCT"), result)
        EXCEPT !.key = key, !.kind = "ADD"]

RemovalRow(rs, i, key) == [ReversalOf(rs, i) EXCEPT !.key = key, !.kind = "REMOVE"]

\* An Admin's penalty is a new row.
LEMMA AdminRow ==
    ASSUME PenaltyAssumptions, now \in Nat, NEW rs, Shape(rs), NEW key \in AdminKeys, NEW result \in AddedByAdmin
    PROVE  /\ NewRow(rs, AddedRow(rs, key, result))
           /\ AddedRow(rs, key, result).source = "ADMIN"
           /\ AddedRow(rs, key, result).key = key /\ AddedRow(rs, key, result).kind = "ADD"
<1> DEFINE r == [Record("MISCONDUCT", "ADMIN", key, NextSeq(rs, "MISCONDUCT"), result)
                        EXCEPT !.key = key, !.kind = "ADD"]
           seq == NextSeq(rs, "MISCONDUCT")
<1>1. seq \in Nat \ {0} /\ Len(rs) \in Nat
  BY NextPlace, HistoryFacts
<1>2. result \in {"RED_FLAG", "BAN_7_DAYS", "PERMANENT_BAN"}
  BY DEF PenaltyAssumptions
<1>3. Dated(result) \in Nat
  BY DEF Dated
<1>4. r = [ladder |-> "MISCONDUCT", source |-> "ADMIN", id |-> key, seq |-> seq, result |-> result,
           at |-> Dated(result), reverses |-> 0, recalculates |-> 0, key |-> key, kind |-> "ADD"]
  <2> DEFINE base == Record("MISCONDUCT", "ADMIN", key, seq, result)
             keyed == [base EXCEPT !.key = key]
  <2>1. base = [ladder |-> "MISCONDUCT", source |-> "ADMIN", id |-> key, seq |-> seq,
                result |-> result, at |-> Dated(result), reverses |-> 0, recalculates |-> 0,
                key |-> 0, kind |-> "NONE"]
    BY DEF Record
  <2>2. r = [keyed EXCEPT !.kind = "ADD"]
    OBVIOUS
  <2> HIDE DEF base
  <2>3. keyed = [ladder |-> "MISCONDUCT", source |-> "ADMIN", id |-> key, seq |-> seq,
                 result |-> result, at |-> Dated(result), reverses |-> 0, recalculates |-> 0,
                 key |-> key, kind |-> "NONE"]
    BY <2>1
  <2> HIDE DEF keyed, r
  <2> QED
    BY <2>2, <2>3
<1> HIDE DEF seq, r
<1>5. r \in PenaltyRows
  BY <1>1, <1>2, <1>3, <1>4 DEF PenaltyRows, Ladders, PenaltySources, PenaltyIds, StrikeResults
<1>6. RowOK(r, Len(rs) + 1) /\ r.result # "REVERSAL"
  BY <1>1, <1>2, <1>4 DEF RowOK
<1>7. r.seq = NextSeq(rs, r.ladder)
  BY <1>4 DEF seq
<1>8. NewRow(rs, r) /\ r.source = "ADMIN" /\ r.key = key /\ r.kind = "ADD" /\ r.result = result
  BY <1>4, <1>5, <1>6, <1>7 DEF NewRow
<1> QED
  BY <1>8 DEF r, AddedRow

\* A new strike or exemption is a new row.
LEMMA StrikeRow ==
    ASSUME now \in Nat, NEW rs, Shape(rs), NEW ladder \in Ladders, NEW source, NEW id \in PenaltyIds,
           NEW result,
           IF ladder = "MISCONDUCT" THEN source \in {"REPORT_CASE", "CONDUCT_REPORT"}
                                    ELSE source = "REVIEW_AVERAGE",
           ~\E i \in Originals(rs) : rs[i].source = source /\ rs[i].id = id,
           \/ ladder = "MISCONDUCT" /\ result = "EXEMPT"
           \/ result = LadderResult(ladder, Cardinality(Automatic(rs, ladder)) + 1)
    PROVE  LET r == Record(ladder, source, id, NextSeq(rs, ladder), result)
           IN  /\ NewRow(rs, r) /\ r.source = source /\ r.id = id /\ r.key = 0
               /\ r.result = result
<1> DEFINE r == Record(ladder, source, id, NextSeq(rs, ladder), result)
           seq == NextSeq(rs, ladder)
<1>1. seq \in Nat \ {0} /\ Len(rs) \in Nat
  BY NextPlace, HistoryFacts
<1>2. result \in StrikeResults \cup {"EXEMPT"}
  <2>1. Cardinality(Automatic(rs, ladder)) + 1 \in Nat \ {0}
    BY HistoryFacts, FS_CardinalityType
  <2> QED
    BY <2>1, LadderFacts
<1>3. Dated(result) \in Nat
  BY DEF Dated
<1>4. r = [ladder |-> ladder, source |-> source, id |-> id, seq |-> seq, result |-> result,
           at |-> Dated(result), reverses |-> 0, recalculates |-> 0, key |-> 0, kind |-> "NONE"]
  BY DEF Record
<1> HIDE DEF seq, r
<1>5. r \in PenaltyRows
  BY <1>1, <1>2, <1>3, <1>4 DEF PenaltyRows, Ladders, PenaltySources
<1>6. RowOK(r, Len(rs) + 1) /\ r.result # "REVERSAL"
  <2>1. LadderResult(ladder, Cardinality(Automatic(rs, ladder)) + 1) # "EXEMPT" => r.result # "REVERSAL"
    BY <1>2, <1>4 DEF StrikeResults
  <2>2. r.result # "REVERSAL"
    BY <1>2, <1>4 DEF StrikeResults
  <2>3. LadderResult(ladder, Cardinality(Automatic(rs, ladder)) + 1) \in StrikeResults
    BY HistoryFacts, FS_CardinalityType, LadderFacts
  <2>4. result = "EXEMPT" => ladder = "MISCONDUCT"
    BY <2>3 DEF StrikeResults
  <2>5. (source = "REVIEW_AVERAGE") <=> (ladder = "REVIEW")
    BY DEF Ladders
  <2> QED
    BY <1>1, <1>4, <2>2, <2>4, <2>5 DEF RowOK
<1>7. r.seq = NextSeq(rs, r.ladder)
  BY <1>4 DEF seq
<1>8. \A i \in Originals(rs) : ~SameSource(rs[i], r)
  BY <1>4 DEF SameSource
<1>9. r.result # "EXEMPT" => r.result = LadderResult(r.ladder, Cardinality(Automatic(rs, r.ladder)) + 1)
  BY <1>4
<1>10. NewRow(rs, r) /\ r.source = source /\ r.id = id /\ r.key = 0 /\ r.result = result
  BY <1>4, <1>5, <1>6, <1>7, <1>8, <1>9 DEF NewRow
<1> QED
  BY <1>10 DEF r

\* A reversal is a new reversal.
LEMMA ReversalRow ==
    ASSUME now \in Nat, NEW rs, Shape(rs), NEW i \in Standing(rs)
    PROVE  /\ NewReversal(rs, ReversalOf(rs, i)) /\ ReversalOf(rs, i).key = 0
           /\ ReversalOf(rs, i).reverses = i
<1> DEFINE r == ReversalOf(rs, i)
<1>1. /\ i \in 1..Len(rs) /\ i \in Nat \ {0} /\ Len(rs) \in Nat
      /\ rs[i] \in PenaltyRows /\ RowOK(rs[i], i)
  BY HistoryFacts
<1>2. /\ rs[i].ladder \in Ladders /\ rs[i].source \in PenaltySources /\ rs[i].id \in PenaltyIds
      /\ rs[i].seq \in Nat
  BY <1>1 DEF PenaltyRows
<1>3. Dated("REVERSAL") \in Nat
  BY DEF Dated
<1>4. r = [ladder |-> rs[i].ladder, source |-> rs[i].source, id |-> rs[i].id, seq |-> rs[i].seq,
           result |-> "REVERSAL", at |-> Dated("REVERSAL"), reverses |-> i, recalculates |-> 0,
           key |-> 0, kind |-> "NONE"]
  BY DEF ReversalOf, Record
<1> HIDE DEF r
<1>5. r \in PenaltyRows
  BY <1>1, <1>2, <1>3, <1>4 DEF PenaltyRows
<1>6. RowOK(r, Len(rs) + 1)
  <2>1. /\ rs[i].seq > 0
        /\ (rs[i].source = "REVIEW_AVERAGE") <=> (rs[i].ladder = "REVIEW")
        /\ i < Len(rs) + 1 /\ 0 < Len(rs) + 1 /\ i # 0
    BY <1>1 DEF RowOK
  <2> QED
    BY <1>4, <2>1 DEF RowOK
<1>7. SameSource(r, rs[i])
  BY <1>4 DEF SameSource
<1>8. NewReversal(rs, r)
  BY <1>4, <1>5, <1>6, <1>7 DEF NewReversal
<1> QED
  BY <1>4, <1>8 DEF r

\* So is the one that an Admin asks for.
LEMMA RemovalIsReversal ==
    ASSUME now \in Nat, NEW rs, Shape(rs), NEW i \in Standing(rs), NEW key \in AdminKeys
    PROVE  /\ NewReversal(rs, RemovalRow(rs, i, key)) /\ RemovalRow(rs, i, key).key = key
           /\ RemovalRow(rs, i, key).kind = "REMOVE"
<1> DEFINE plain == ReversalOf(rs, i)
           one == [plain EXCEPT !.key = key]
           r == RemovalRow(rs, i, key)
<1>1. r = [one EXCEPT !.kind = "REMOVE"]
  BY DEF RemovalRow
<1>2. NewReversal(rs, plain)
  BY ReversalRow
<1> HIDE DEF plain, r
<1>3. plain \in PenaltyRows /\ RowOK(plain, Len(rs) + 1)
  BY <1>2 DEF NewReversal
<1>4. one = [ladder |-> plain.ladder, source |-> plain.source, id |-> plain.id, seq |-> plain.seq,
             result |-> plain.result, at |-> plain.at, reverses |-> plain.reverses,
             recalculates |-> plain.recalculates, key |-> key, kind |-> plain.kind]
  BY <1>3 DEF PenaltyRows
<1> HIDE DEF one
<1>5. r = [ladder |-> plain.ladder, source |-> plain.source, id |-> plain.id, seq |-> plain.seq,
           result |-> plain.result, at |-> plain.at, reverses |-> plain.reverses,
           recalculates |-> plain.recalculates, key |-> key, kind |-> "REMOVE"]
  BY <1>1, <1>4
<1>6. r \in PenaltyRows
  BY <1>3, <1>5 DEF PenaltyRows
<1>7. RowOK(r, Len(rs) + 1)
  BY <1>2, <1>3, <1>5 DEF RowOK, NewReversal
<1>8. NewReversal(rs, r)
  BY <1>2, <1>5, <1>6, <1>7 DEF NewReversal, SameSource
<1> QED
  BY <1>5, <1>8 DEF r

\* A history grows by a row, and is recalculated if that is a reversal.
Grows(rs, ss, r) ==
    \/ NewRow(rs, r) /\ ss = Append(rs, r)
    \/ NewReversal(rs, r) /\ ss = Recalculated(Append(rs, r))

\* A history that grows keeps its shape, its ladder and the rows it had; the
\* new ones are for sources it has, but for the one that is added.
LEMMA GrowsFacts ==
    ASSUME now \in Nat, NEW rs, Shape(rs), OnLadder(rs), NEW ss, NEW r, Grows(rs, ss, r)
    PROVE  /\ Shape(ss) /\ OnLadder(ss) /\ Len(rs) + 1 \in DOMAIN ss /\ ss[Len(rs) + 1] = r
           /\ \A i \in DOMAIN rs : i \in DOMAIN ss /\ ss[i] = rs[i]
           /\ \A i \in DOMAIN ss :
                 \/ i \in DOMAIN rs
                 \/ i = Len(rs) + 1
                 \/ /\ ss[i].key = 0
                    /\ \E j \in DOMAIN rs : SameSource(ss[i], rs[j])
           /\ NewRow(rs, r) => ss = Append(rs, r) /\ Standing(ss) = Standing(rs) \cup {Len(rs) + 1}
           /\ NewReversal(rs, r) =>
                 /\ \E j \in DOMAIN rs : SameSource(r, rs[j])
                 /\ \A i \in Standing(ss) :
                       \E j \in Standing(rs) : j # r.reverses /\ SameSource(ss[i], rs[j])
<1> DEFINE n == Len(rs)
<1>1. n \in Nat /\ DOMAIN rs = 1..n /\ Standing(rs) \subseteq 1..n
  BY HistoryFacts
<1>2. r \in PenaltyRows /\ RowOK(r, n + 1)
  BY DEF Grows, NewRow, NewReversal
<1>3. DOMAIN Append(rs, r) = 1..n + 1 /\ Append(rs, r)[n + 1] = r
  BY <1>2, AppendedRow
<1>3a. \A i \in 1..n : Append(rs, r)[i] = rs[i]
  BY <1>2, AppendedRow
<1>4. NewRow(rs, r) => ~NewReversal(rs, r)
  BY DEF NewRow, NewReversal
<1>5. CASE NewRow(rs, r) /\ ss = Append(rs, r)
  <2>1. Shape(ss) /\ OnLadder(ss)
    BY <1>5, AddKeepsShape, AddKeepsLadder
  <2>2. Standing(ss) = Standing(rs) \cup {n + 1}
    BY <1>2, <1>5, AddedStands DEF NewRow
  <2>3. \A i \in DOMAIN ss : i \in DOMAIN rs \/ i = n + 1
    BY <1>1, <1>3, <1>5
  <2>4. /\ n + 1 \in DOMAIN ss /\ ss[n + 1] = r
        /\ \A i \in DOMAIN rs : i \in DOMAIN ss /\ ss[i] = rs[i]
    BY <1>1, <1>3, <1>3a, <1>5
  <2> QED
    BY <1>4, <1>5, <2>1, <2>2, <2>3, <2>4
<1>6. CASE NewReversal(rs, r) /\ ss = Recalculated(Append(rs, r))
  <2> DEFINE mid == Append(rs, r)
  <2>1. Shape(mid)
    BY <1>6, TakeKeepsShape
  <2>2. Shape(ss) /\ OnLadder(ss) /\ Continues(ss, mid)
    BY <1>6, <2>1, RecalculatedKeeps
  <2>3. Standing(mid) = Standing(rs) \ {r.reverses}
    BY <1>2, <1>6, TakenStands DEF NewReversal
  <2>4. r.reverses \in DOMAIN rs /\ SameSource(r, rs[r.reverses])
    BY <1>1, <1>6 DEF NewReversal
  <2>5. /\ DOMAIN mid = 1..n + 1 /\ mid[n + 1] = r /\ \A i \in 1..n : mid[i] = rs[i]
    BY <1>3, <1>3a
  <2> HIDE DEF mid
  <2>6. /\ \A i \in DOMAIN mid : i \in DOMAIN ss /\ ss[i] = mid[i]
        /\ \A i \in DOMAIN ss \ DOMAIN mid :
              ss[i].key = 0 /\ \E j \in DOMAIN mid : SameSource(ss[i], mid[j])
        /\ \A i \in Standing(ss) : \E j \in Standing(mid) : SameSource(ss[i], mid[j])
    BY <2>2 DEF Continues
  <2>7. n + 1 \in DOMAIN mid /\ \A i \in DOMAIN rs : i \in DOMAIN mid /\ mid[i] = rs[i]
    BY <1>1, <2>5
  <2>8. \A j \in DOMAIN mid : \E k \in DOMAIN rs : SameSource(mid[j], rs[k])
    <3>1. \A j \in DOMAIN mid : j \in 1..n \/ j = n + 1
      BY <1>1, <2>5
    <3> QED
      BY <1>1, <2>4, <2>5, <3>1 DEF SameSource
  <2>9. \A i \in DOMAIN ss \ DOMAIN mid : \E j \in DOMAIN rs : SameSource(ss[i], rs[j])
    BY <2>6, <2>8 DEF SameSource
  <2>10. \A i \in DOMAIN mid : i \in DOMAIN rs \/ i = n + 1
    BY <1>1, <2>5
  <2>11. \A i \in Standing(ss) : \E j \in Standing(rs) : j # r.reverses /\ SameSource(ss[i], rs[j])
    BY <1>1, <2>3, <2>5, <2>6
  <2>12. n + 1 \in DOMAIN ss /\ ss[n + 1] = r /\ \A i \in DOMAIN rs : i \in DOMAIN ss /\ ss[i] = rs[i]
    BY <2>5, <2>6, <2>7
  <2>13. \A i \in DOMAIN ss : i \in DOMAIN rs \/ i = n + 1
              \/ (ss[i].key = 0 /\ \E j \in DOMAIN rs : SameSource(ss[i], rs[j]))
    BY <2>6, <2>9, <2>10
  <2> QED
    BY <1>4, <1>6, <2>2, <2>4, <2>11, <2>12, <2>13
<1> QED
  BY <1>5, <1>6 DEF Grows
-----------------------------------------------------------------------------
(* Projections, Wallets and keys *)

\* What is projected of a history at a time: the latest of the ends to come.
ProjectedBy(rs, banned, flag, t) ==
    /\ \A i \in Standing(rs) : Expiry(rs[i]) > t => Expiry(rs[i]) =< banned
    /\ banned > t => \E i \in Standing(rs) : Expiry(rs[i]) = banned
    /\ \A i \in Standing(rs) : rs[i].result = "RED_FLAG" /\ rs[i].at + WEEK > t => rs[i].at + WEEK =< flag
    /\ flag > t => \E i \in Standing(rs) : rs[i].result = "RED_FLAG" /\ rs[i].at + WEEK = flag

Projected(m) == ProjectedBy(records[m], bannedUntil[m], redFlagUntil[m], now)

KeysOnce ==
    \A m, n \in Members : \A i \in DOMAIN records[m], j \in DOMAIN records[n] :
       records[m][i].key # 0 /\ <<m, i>> # <<n, j>> =>
           <<records[m][i].kind, records[m][i].key>> # <<records[n][j].kind, records[n][j].key>>

PenaltyOK ==
    /\ now \in Nat
    /\ records \in [Members -> Seq(PenaltyRows)]
    /\ bannedUntil \in [Members -> Nat] /\ redFlagUntil \in [Members -> Nat]
    /\ walletStatus \in [Members -> WalletStatuses] /\ lastChange \in [Members -> Changes]
    /\ \A m \in Members : Shape(records[m]) /\ OnLadder(records[m]) /\ Projected(m)
    /\ KeysOnce
    /\ BanFreezesWallet

\* The latest of some times.
LEMMA LaterFacts ==
    ASSUME NEW times \in SUBSET Nat, IsFiniteSet(times)
    PROVE  /\ Later(times) \in Nat
           /\ \A t \in times : t =< Later(times)
           /\ Later(times) # 0 => Later(times) \in times
<1>1. CASE times = {}
  BY <1>1 DEF Later
<1>2. CASE times # {}
  <2>1. times \in SUBSET Int
    OBVIOUS
  <2>2. Max(times) \in times /\ \A y \in times : Max(times) >= y
    BY <1>2, <2>1, MaxFacts
  <2>3. Later(times) = Max(times)
    BY <1>2 DEF Later
  <2> QED
    BY <2>2, <2>3
<1> QED
  BY <1>1, <1>2

\* The ends of the rows of a history.
LEMMA EndsFacts ==
    ASSUME PenaltyAssumptions, NEW rs, Shape(rs), NEW i \in DOMAIN rs
    PROVE  Expiry(rs[i]) \in Nat /\ rs[i].at \in Nat /\ rs[i].at + WEEK \in Nat
<1>1. rs[i].at \in Nat
  BY HistoryFacts DEF PenaltyRows
<1> QED
  BY <1>1 DEF PenaltyAssumptions, Expiry

\* A rebuilt projection is what its history says.
LEMMA RebuildFacts ==
    ASSUME PenaltyAssumptions, now \in Nat, NEW m \in Members, NEW ss, Shape(ss),
           records \in [Members -> Seq(PenaltyRows)],
           bannedUntil \in [Members -> Nat], redFlagUntil \in [Members -> Nat],
           RebuildProjections(m, ss)
    PROVE  /\ records' \in [Members -> Seq(PenaltyRows)]
           /\ bannedUntil' \in [Members -> Nat] /\ redFlagUntil' \in [Members -> Nat]
           /\ records'[m] = ss /\ ProjectedBy(ss, bannedUntil'[m], redFlagUntil'[m], now)
           /\ \A o \in Members : o # m =>
                 /\ records'[o] = records[o] /\ bannedUntil'[o] = bannedUntil[o]
                 /\ redFlagUntil'[o] = redFlagUntil[o]
<1> DEFINE S == Standing(ss)
           F == {j \in S : ss[j].result = "RED_FLAG"}
           fb == [i \in S |-> Expiry(ss[i])]
           ff == [i \in F |-> ss[i].at + WEEK]
           TB == {Expiry(ss[i]) : i \in S}
           TF == {ss[i].at + WEEK : i \in F}
           bans == {t \in TB : t > now}
           flags == {t \in TF : t > now}
<1>1. S \subseteq DOMAIN ss /\ IsFiniteSet(S) /\ F \in SUBSET S
  BY HistoryFacts
<1>2. \A i \in S : Expiry(ss[i]) \in Nat /\ ss[i].at + WEEK \in Nat
  BY <1>1, EndsFacts
<1>3. TB \in SUBSET Nat /\ TF \in SUBSET Nat
  BY <1>2
<1>4. fb \in Surjection(S, TB) /\ ff \in Surjection(F, TF)
  BY DEF Surjection
<1>5. /\ redFlagUntil' = [redFlagUntil EXCEPT ![m] = Later(flags)]
      /\ bannedUntil' = [bannedUntil EXCEPT ![m] = Later(bans)]
      /\ records' = [records EXCEPT ![m] = ss]
  BY DEF RebuildProjections
<1>6. /\ \A t \in TB : \E i \in S : t = Expiry(ss[i])
      /\ \A i \in S : Expiry(ss[i]) \in TB
      /\ \A t \in TF : \E i \in S : ss[i].result = "RED_FLAG" /\ t = ss[i].at + WEEK
      /\ \A i \in S : ss[i].result = "RED_FLAG" => ss[i].at + WEEK \in TF
  OBVIOUS
<1> HIDE DEF S, F, fb, ff, TB, TF
<1>7. IsFiniteSet(F)
  BY <1>1, FS_Subset
<1>8. IsFiniteSet(TB) /\ IsFiniteSet(TF)
  <2>2. IsFiniteSet(TB)
    BY <1>1, <1>4, FS_Surjection
  <2>3. IsFiniteSet(TF)
    BY <1>4, <1>7, FS_Surjection
  <2> QED
    BY <2>2, <2>3
<1>9. bans \in SUBSET TB /\ flags \in SUBSET TF
  OBVIOUS
<1>10. /\ \A t : t \in bans <=> t \in TB /\ t > now
       /\ \A t : t \in flags <=> t \in TF /\ t > now
  OBVIOUS
<1> HIDE DEF bans, flags
<1>11. IsFiniteSet(bans) /\ IsFiniteSet(flags) /\ bans \in SUBSET Nat /\ flags \in SUBSET Nat
  BY <1>3, <1>8, <1>9, FS_Subset
<1>12. /\ Later(bans) \in Nat /\ \A t \in bans : t =< Later(bans)
       /\ Later(bans) # 0 => Later(bans) \in bans
  BY <1>11, LaterFacts
<1>13. /\ Later(flags) \in Nat /\ \A t \in flags : t =< Later(flags)
       /\ Later(flags) # 0 => Later(flags) \in flags
  BY <1>11, LaterFacts
<1>14. ProjectedBy(ss, Later(bans), Later(flags), now)
  <2>1. \A i \in Standing(ss) : Expiry(ss[i]) > now => Expiry(ss[i]) =< Later(bans)
    BY <1>6, <1>10, <1>12 DEF S
  <2>2. Later(bans) > now => \E i \in Standing(ss) : Expiry(ss[i]) = Later(bans)
    BY <1>6, <1>9, <1>12 DEF S
  <2>3. \A i \in Standing(ss) : ss[i].result = "RED_FLAG" /\ ss[i].at + WEEK > now
                                  => ss[i].at + WEEK =< Later(flags)
    BY <1>6, <1>10, <1>13 DEF S
  <2>4. ASSUME Later(flags) > now
        PROVE  \E i \in Standing(ss) : ss[i].result = "RED_FLAG" /\ ss[i].at + WEEK = Later(flags)
    <3>1. Later(flags) # 0
      BY <1>13, <2>4
    <3>2. Later(flags) \in TF
      BY <1>9, <1>13, <3>1
    <3> QED
      BY <1>6, <3>2 DEF S
  <2> QED
    BY <2>1, <2>2, <2>3, <2>4 DEF ProjectedBy
<1>15. bannedUntil'[m] = Later(bans) /\ redFlagUntil'[m] = Later(flags) /\ records'[m] = ss
  BY <1>5
<1>16. \A o \in Members : o # m => /\ records'[o] = records[o] /\ bannedUntil'[o] = bannedUntil[o]
                                   /\ redFlagUntil'[o] = redFlagUntil[o]
  BY <1>5
<1>17. ss \in Seq(PenaltyRows)
  BY DEF Shape
<1> QED
  BY <1>5, <1>12, <1>13, <1>14, <1>15, <1>16, <1>17

\* A Wallet that is reconciled with a ban is frozen by it.
LEMMA WalletFacts ==
    ASSUME now \in Nat, NEW m \in Members, NEW ss,
           walletStatus \in [Members -> WalletStatuses], lastChange \in [Members -> Changes],
           records'[m] = ss, \A o \in Members : o # m => records'[o] = records[o], now' = now,
           BanFreezesWallet,
           \/ ReconcileWallet(m, ss)
           \/ /\ UNCHANGED <<walletStatus, lastChange>>
              /\ ActiveBans(ss, now) # {} => ActiveBans(records[m], now) # {}
    PROVE  /\ walletStatus' \in [Members -> WalletStatuses] /\ lastChange' \in [Members -> Changes]
           /\ BanFreezesWallet'
<1>1. /\ walletStatus' \in [Members -> WalletStatuses] /\ lastChange' \in [Members -> Changes]
      /\ \A o \in Members : o # m => walletStatus'[o] = walletStatus[o] /\ lastChange'[o] = lastChange[o]
      /\ \/ ActiveBans(ss, now) # {} => walletStatus'[m] \notin {"NONE", "ACTIVE"}
         \/ /\ walletStatus'[m] = walletStatus[m] /\ lastChange'[m] = lastChange[m]
            /\ ActiveBans(ss, now) # {} => ActiveBans(records[m], now) # {}
  BY DEF ReconcileWallet, WalletStatuses, Changes
<1> SUFFICES ASSUME NEW o \in Members, ActiveBans(records'[o], now') # {}
             PROVE  walletStatus'[o] \notin {"NONE", "ACTIVE"} \/ lastChange'[o] = "ADMIN"
  BY <1>1 DEF BanFreezesWallet
<1>2. CASE o # m
  BY <1>1, <1>2 DEF BanFreezesWallet
<1>3. CASE o = m
  BY <1>1, <1>3 DEF BanFreezesWallet
<1> QED
  BY <1>2, <1>3

\* A command that adds to the history of a Member.
PenaltyGrows(m, r) ==
    /\ Grows(records[m], records'[m], r)
    /\ RebuildProjections(m, records'[m])
    /\ \/ ReconcileWallet(m, records'[m])
       \/ NewRow(records[m], r) /\ ReconcileIfBan(m, records'[m], r)
    /\ r.key # 0 => KeyIsNew(r.kind, r.key)
    /\ UNCHANGED now

\* A command that adds to one history keeps all that is said of them: the
\* projections, the Wallets and the keys too.
LEMMA GrowsKeeps ==
    ASSUME PenaltyAssumptions, PenaltyOK, NEW m \in Members, NEW r, PenaltyGrows(m, r)
    PROVE  PenaltyOK'
<1> DEFINE rs == records[m]
           ss == records'[m]
<1>1. /\ now \in Nat /\ now' = now /\ Shape(rs) /\ OnLadder(rs) /\ Grows(rs, ss, r)
      /\ RebuildProjections(m, ss)
  BY DEF PenaltyOK, PenaltyGrows
<1>2. /\ Shape(ss) /\ OnLadder(ss)
      /\ Len(rs) + 1 \in DOMAIN ss /\ ss[Len(rs) + 1] = r
      /\ \A i \in DOMAIN rs : i \in DOMAIN ss /\ ss[i] = rs[i]
      /\ \A i \in DOMAIN ss : i \in DOMAIN rs \/ i = Len(rs) + 1 \/ ss[i].key = 0
      /\ NewRow(rs, r) => Standing(ss) = Standing(rs) \cup {Len(rs) + 1}
  BY <1>1, GrowsFacts
<1>3. /\ records' \in [Members -> Seq(PenaltyRows)]
      /\ bannedUntil' \in [Members -> Nat] /\ redFlagUntil' \in [Members -> Nat]
      /\ ProjectedBy(ss, bannedUntil'[m], redFlagUntil'[m], now)
  BY <1>1, <1>2, RebuildFacts DEF PenaltyOK
<1>4. \A o \in Members : o # m =>
         /\ records'[o] = records[o] /\ bannedUntil'[o] = bannedUntil[o]
         /\ redFlagUntil'[o] = redFlagUntil[o]
  BY <1>1, <1>2, RebuildFacts DEF PenaltyOK
<1>5. ASSUME NEW o \in Members
      PROVE  Shape(records'[o]) /\ OnLadder(records'[o]) /\ Projected(o)'
  BY <1>1, <1>2, <1>3, <1>4 DEF PenaltyOK, Projected
<1>6. KeysOnce'
  <2> SUFFICES ASSUME NEW a \in Members, NEW b \in Members,
                      NEW i \in DOMAIN records'[a], NEW j \in DOMAIN records'[b],
                      records'[a][i].key # 0, <<a, i>> # <<b, j>>,
                      records'[a][i].kind = records'[b][j].kind,
                      records'[a][i].key = records'[b][j].key
               PROVE  FALSE
    BY DEF KeysOnce
  <2> DEFINE Old(c, k) == k \in DOMAIN records[c] /\ records'[c][k] = records[c][k]
             Fresh(c, k) == c = m /\ k = Len(rs) + 1 /\ records'[c][k] = r
  <2>1. ASSUME NEW c \in Members, NEW k \in DOMAIN records'[c], records'[c][k].key # 0
        PROVE  Old(c, k) \/ Fresh(c, k)
    BY <1>2, <1>4, <2>1
  <2>2. (Old(a, i) \/ Fresh(a, i)) /\ (Old(b, j) \/ Fresh(b, j))
    BY <2>1
  <2>3. CASE Old(a, i) /\ Old(b, j)
    BY <2>3 DEF PenaltyOK, KeysOnce
  <2>4. CASE Fresh(a, i) /\ Old(b, j)
    BY <2>4 DEF PenaltyGrows, KeyIsNew
  <2>5. CASE Old(a, i) /\ Fresh(b, j)
    BY <2>5 DEF PenaltyGrows, KeyIsNew
  <2>6. CASE Fresh(a, i) /\ Fresh(b, j)
    BY <2>6
  <2> QED
    BY <2>2, <2>3, <2>4, <2>5, <2>6
<1>7. /\ walletStatus' \in [Members -> WalletStatuses] /\ lastChange' \in [Members -> Changes]
      /\ BanFreezesWallet'
  <2>1. \/ ReconcileWallet(m, ss)
        \/ /\ UNCHANGED <<walletStatus, lastChange>>
           /\ ActiveBans(ss, now) # {} => ActiveBans(rs, now) # {}
    <3>1. CASE ReconcileWallet(m, ss)
      BY <3>1
    <3>2. CASE NewRow(rs, r) /\ ReconcileIfBan(m, ss, r) /\ r.result \notin Bans
      <4>1. UNCHANGED <<walletStatus, lastChange>>
        BY <3>2 DEF ReconcileIfBan
      <4>2. Expiry(r) = 0 /\ r.result # "PERMANENT_BAN"
        BY <3>2 DEF Expiry, Bans
      <4>3. ASSUME NEW i \in ActiveBans(ss, now) PROVE i \in ActiveBans(rs, now)
        <5>1. i \in Standing(ss) /\ (ss[i].result = "PERMANENT_BAN" \/ Expiry(ss[i]) > now)
          BY DEF ActiveBans
        <5>2. i # Len(rs) + 1
          BY <1>1, <1>2, <4>2, <5>1
        <5>3. i \in Standing(rs) /\ ss[i] = rs[i]
          BY <1>2, <3>2, <5>1, <5>2, HistoryFacts, <1>1
        <5> QED
          BY <5>1, <5>3 DEF ActiveBans
      <4> QED
        BY <4>1, <4>3
    <3>3. CASE NewRow(rs, r) /\ ReconcileIfBan(m, ss, r) /\ r.result \in Bans
      BY <3>3 DEF ReconcileIfBan
    <3> QED
      BY <3>1, <3>2, <3>3 DEF PenaltyGrows
  <2>2. walletStatus \in [Members -> WalletStatuses] /\ lastChange \in [Members -> Changes] /\ BanFreezesWallet
    BY DEF PenaltyOK
  <2> QED
    BY <1>1, <1>4, <2>1, <2>2, WalletFacts
<1>8. now' \in Nat
  BY <1>1
<1> QED
  BY <1>3, <1>5, <1>6, <1>7, <1>8 DEF PenaltyOK

\* The keys stay apart as long as nothing is added.
LEMMA KeysStay ==
    ASSUME KeysOnce, records' = records
    PROVE  KeysOnce'
BY DEF KeysOnce

\* The sweep of ended bans rebuilds a projection and adds nothing.
LEMMA ExpiryKeeps ==
    ASSUME PenaltyAssumptions, PenaltyOK, NEW m \in Members, ProcessExpiredBan(m)
    PROVE  PenaltyOK' /\ records' = records
<1>1. /\ now \in Nat /\ now' = now /\ Shape(records[m]) /\ OnLadder(records[m])
      /\ RebuildProjections(m, records[m]) /\ ReconcileWallet(m, records[m])
  BY DEF PenaltyOK, ProcessExpiredBan
<1>2. records' = records
  BY <1>1 DEF RebuildProjections, PenaltyOK
<1>3. /\ bannedUntil' \in [Members -> Nat] /\ redFlagUntil' \in [Members -> Nat]
      /\ ProjectedBy(records[m], bannedUntil'[m], redFlagUntil'[m], now)
  BY <1>1, RebuildFacts DEF PenaltyOK
<1>4. \A o \in Members : o # m => bannedUntil'[o] = bannedUntil[o] /\ redFlagUntil'[o] = redFlagUntil[o]
  BY <1>1, RebuildFacts DEF PenaltyOK
<1>5. \A o \in Members : Projected(o)'
  BY <1>1, <1>2, <1>3, <1>4 DEF PenaltyOK, Projected
<1>6. /\ walletStatus' \in [Members -> WalletStatuses] /\ lastChange' \in [Members -> Changes]
      /\ BanFreezesWallet'
  <2>1. walletStatus \in [Members -> WalletStatuses] /\ lastChange \in [Members -> Changes] /\ BanFreezesWallet
    BY DEF PenaltyOK
  <2> QED
    BY <1>1, <1>2, <2>1, WalletFacts
<1>7. KeysOnce'
  BY <1>2, KeysStay DEF PenaltyOK
<1> QED
  BY <1>1, <1>2, <1>3, <1>5, <1>6, <1>7 DEF PenaltyOK

\* An Admin who sets the status of a Wallet leaves the histories alone, and
\* answers for a ban that no longer freezes.
LEMMA ChangeKeeps ==
    ASSUME PenaltyAssumptions, PenaltyOK, NEW m \in Members, NEW status \in SetByAdmin, ChangeWalletStatus(m, status)
    PROVE  PenaltyOK' /\ records' = records
<1>1. /\ UNCHANGED <<now, records, bannedUntil, redFlagUntil>>
      /\ walletStatus' = [walletStatus EXCEPT ![m] = status]
      /\ lastChange' = [lastChange EXCEPT ![m] = "ADMIN"]
  BY DEF ChangeWalletStatus
<1>2. walletStatus' \in [Members -> WalletStatuses] /\ lastChange' \in [Members -> Changes]
  BY <1>1 DEF PenaltyOK, PenaltyAssumptions, WalletStatuses, Changes
<1>3. BanFreezesWallet'
  BY <1>1 DEF PenaltyOK, BanFreezesWallet
<1>4. KeysOnce' /\ \A o \in Members : Projected(o)'
  <2>1. KeysOnce'
    BY <1>1, KeysStay DEF PenaltyOK
  <2>2. ASSUME NEW o \in Members PROVE Projected(o)'
    BY <1>1 DEF PenaltyOK, Projected
  <2> QED
    BY <2>1, <2>2
<1> QED
  BY <1>1, <1>2, <1>3, <1>4 DEF PenaltyOK

\* Time passes: bans end, and none begins.
LEMMA TickKeeps ==
    ASSUME PenaltyAssumptions, PenaltyOK, Tick
    PROVE  PenaltyOK' /\ records' = records
<1>1. /\ UNCHANGED <<records, bannedUntil, redFlagUntil, walletStatus, lastChange>>
      /\ now \in Nat /\ now' = now + 1
  BY DEF Tick, PenaltyOK
<1>2. \A o \in Members : \A i \in Standing(records[o]) :
         Expiry(records[o][i]) \in Nat /\ records[o][i].at + WEEK \in Nat
  BY HistoryFacts, EndsFacts DEF PenaltyOK
<1>3. ASSUME NEW o \in Members PROVE Projected(o)'
  <2>1. bannedUntil[o] \in Nat /\ redFlagUntil[o] \in Nat /\ ProjectedBy(records[o], bannedUntil[o], redFlagUntil[o], now)
    BY DEF PenaltyOK, Projected
  <2>2. ProjectedBy(records[o], bannedUntil[o], redFlagUntil[o], now + 1)
    BY <1>1, <1>2, <2>1 DEF ProjectedBy
  <2> QED
    BY <1>1, <2>2 DEF Projected
<1>4. BanFreezesWallet'
  <2>1. ASSUME NEW o \in Members, ActiveBans(records[o], now + 1) # {}
        PROVE  ActiveBans(records[o], now) # {}
    BY <1>1, <1>2, <2>1 DEF ActiveBans
  <2> QED
    BY <1>1, <2>1 DEF PenaltyOK, BanFreezesWallet
<1>5. KeysOnce'
  BY <1>1, KeysStay DEF PenaltyOK
<1> QED
  BY <1>1, <1>3, <1>4, <1>5 DEF PenaltyOK
-----------------------------------------------------------------------------
(* What the commands add, and for which source *)

\* The rows of a history are about the sources they were about, or about that
\* of the new row.
LEMMA GrowthSources ==
    ASSUME PenaltyAssumptions, PenaltyOK, NEW m \in Members, NEW r, PenaltyGrows(m, r), NEW o \in Members
    PROVE  /\ \A i \in DOMAIN records'[o] :
                 \/ \E j \in DOMAIN records[o] : SameSource(records'[o][i], records[o][j])
                 \/ o = m /\ NewRow(records[m], r) /\ SameSource(records'[o][i], r)
           /\ \A i \in Standing(records'[o]) :
                 \/ \E j \in Standing(records[o]) :
                       /\ SameSource(records'[o][i], records[o][j])
                       /\ o = m /\ NewReversal(records[m], r) => j # r.reverses
                 \/ o = m /\ NewRow(records[m], r) /\ SameSource(records'[o][i], r)
           /\ \A i \in Originals(records[o]) :
                 i \in Originals(records'[o]) /\ records'[o][i] = records[o][i]
           /\ o = m /\ NewRow(records[m], r) =>
                 \E i \in Originals(records'[o]) : records'[o][i] = r
<1> DEFINE rs == records[m]
           ss == records'[m]
<1>1. /\ now \in Nat /\ Shape(rs) /\ OnLadder(rs) /\ Grows(rs, ss, r) /\ RebuildProjections(m, ss)
  BY DEF PenaltyOK, PenaltyGrows
<1>2. /\ Shape(ss)
      /\ Len(rs) + 1 \in DOMAIN ss /\ ss[Len(rs) + 1] = r
      /\ \A i \in DOMAIN rs : i \in DOMAIN ss /\ ss[i] = rs[i]
      /\ NewRow(rs, r) => Standing(ss) = Standing(rs) \cup {Len(rs) + 1}
      /\ NewReversal(rs, r) =>
            /\ \E j \in DOMAIN rs : SameSource(r, rs[j])
            /\ \A i \in Standing(ss) :
                  \E j \in Standing(rs) : j # r.reverses /\ SameSource(ss[i], rs[j])
  BY <1>1, GrowsFacts
<1>2a. \A i \in DOMAIN ss : \/ i \in DOMAIN rs
                            \/ i = Len(rs) + 1
                            \/ \E j \in DOMAIN rs : SameSource(ss[i], rs[j])
  BY <1>1, GrowsFacts
<1>3. o # m => records'[o] = records[o]
  BY <1>1, <1>2, RebuildFacts DEF PenaltyOK
<1>4. NewRow(rs, r) \/ NewReversal(rs, r)
  BY <1>1 DEF Grows
<1>5. CASE o # m
  <2>1. \A i \in DOMAIN records[o] : SameSource(records[o][i], records[o][i])
    BY DEF SameSource
  <2>2. Standing(records[o]) \subseteq DOMAIN records[o]
    BY DEF Standing, Originals
  <2> QED
    BY <1>3, <1>5, <2>1, <2>2
<1>6. CASE o = m
  <2>1. \A i \in Originals(rs) : i \in Originals(ss) /\ ss[i] = rs[i]
    BY <1>2 DEF Originals
  <2>2. \A i \in DOMAIN ss : \/ \E j \in DOMAIN rs : SameSource(ss[i], rs[j])
                             \/ NewRow(rs, r) /\ SameSource(ss[i], r)
    BY <1>2, <1>2a, <1>4 DEF SameSource
  <2>3. NewRow(rs, r) => ~NewReversal(rs, r)
    BY DEF NewRow, NewReversal
  <2>4. NewRow(rs, r) => \E i \in Originals(ss) : ss[i] = r
    BY <1>2 DEF Originals, NewRow
  <2>5. ASSUME NewRow(rs, r), NEW i \in Standing(ss)
        PROVE  (\E j \in Standing(rs) : SameSource(ss[i], rs[j])) \/ SameSource(ss[i], r)
    <3>1. Standing(rs) \subseteq DOMAIN rs
      BY DEF Standing, Originals
    <3> QED
      BY <1>2, <2>5, <3>1 DEF SameSource
  <2> QED
    BY <1>2, <1>4, <1>6, <2>1, <2>2, <2>3, <2>4, <2>5
<1> QED
  BY <1>5, <1>6

\* The commands of the Admin.
LEMMA AddGrows ==
    ASSUME PenaltyAssumptions, PenaltyOK, NEW m \in Members, NEW key \in AdminKeys, NEW version,
           NEW result \in AddedByAdmin, AddAdminPenalty(m, key, version, result)
    PROVE  \E r : PenaltyGrows(m, r) /\ r.source = "ADMIN"
<1> DEFINE rs == records[m]
           r == AddedRow(rs, key, result)
<1>1. now \in Nat /\ Shape(rs) /\ records \in [Members -> Seq(PenaltyRows)]
  BY DEF PenaltyOK
<1>2. NewRow(rs, r) /\ r.source = "ADMIN" /\ r.key = key /\ r.kind = "ADD"
  BY <1>1, AdminRow
<1>3. /\ KeyIsNew("ADD", key) /\ UNCHANGED now
      /\ RebuildProjections(m, Append(rs, r))
      /\ ReconcileIfBan(m, Append(rs, r), r)
  BY DEF AddAdminPenalty, AddedRow
<1> HIDE DEF r
<1>4. records'[m] = Append(rs, r)
  BY <1>1, <1>3 DEF RebuildProjections
<1>5. PenaltyGrows(m, r)
  BY <1>2, <1>3, <1>4 DEF PenaltyGrows, Grows
<1> QED
  BY <1>2, <1>5

\* An Admin who removes a penalty adds a reversal to a history.
LEMMA RemoveGrows ==
    ASSUME PenaltyAssumptions, PenaltyOK, NEW m \in Members, NEW key \in AdminKeys, NEW version, NEW i,
           RemovePenalty(m, key, version, i)
    PROVE  \E r : PenaltyGrows(m, r) /\ NewReversal(records[m], r)
<1> DEFINE rs == records[m]
           r == RemovalRow(rs, i, key)
<1>1. now \in Nat /\ Shape(rs) /\ records \in [Members -> Seq(PenaltyRows)]
  BY DEF PenaltyOK
<1>2. /\ KeyIsNew("REMOVE", key) /\ UNCHANGED now /\ i \in Standing(rs)
      /\ RebuildProjections(m, Recalculated(Append(rs, r)))
      /\ ReconcileWallet(m, Recalculated(Append(rs, r)))
  BY DEF RemovePenalty, RemovalRow
<1>3. NewReversal(rs, r) /\ r.key = key /\ r.kind = "REMOVE"
  BY <1>1, <1>2, RemovalIsReversal
<1> HIDE DEF r
<1>4. records'[m] = Recalculated(Append(rs, r))
  BY <1>1, <1>2 DEF RebuildProjections
<1>5. PenaltyGrows(m, r)
  BY <1>2, <1>3, <1>4 DEF PenaltyGrows, Grows
<1> QED
  BY <1>3, <1>5

\* A confirmed violation has one record, and gets it if it has none.
LEMMA ViolationGrows ==
    ASSUME PenaltyAssumptions, PenaltyOK, NEW m \in Members, NEW source \in {"REPORT_CASE", "CONDUCT_REPORT"},
           NEW id \in PenaltyIds, RecordViolation(m, source, id)
    PROVE  \/ /\ UNCHANGED penaltyVars
              /\ \E i \in Originals(records[m]) : records[m][i].source = source /\ records[m][i].id = id
           \/ \E r : /\ PenaltyGrows(m, r) /\ NewRow(records[m], r)
                     /\ r.source = source /\ r.id = id
<1> DEFINE rs == records[m]
           result == ViolationResult(rs, source)
           r == Record("MISCONDUCT", source, id, NextSeq(rs, "MISCONDUCT"), result)
           known == \E i \in Originals(rs) : rs[i].source = source /\ rs[i].id = id
<1>1. now \in Nat /\ Shape(rs) /\ records \in [Members -> Seq(PenaltyRows)]
  BY DEF PenaltyOK
<1>2. known => UNCHANGED penaltyVars
  BY DEF RecordViolation
<1>3. ~known => /\ RebuildProjections(m, Append(rs, r)) /\ ReconcileIfBan(m, Append(rs, r), r)
                /\ UNCHANGED now
  BY DEF RecordViolation
<1>4. result = "EXEMPT" \/ result = LadderResult("MISCONDUCT", Cardinality(Automatic(rs, "MISCONDUCT")) + 1)
  BY DEF ViolationResult
<1>5. ~known => NewRow(rs, r) /\ r.source = source /\ r.id = id /\ r.key = 0
  <2> HIDE DEF result
  <2>1. "MISCONDUCT" \in Ladders
    BY DEF Ladders
  <2> QED
    BY <1>1, <1>4, <2>1, StrikeRow
<1> HIDE DEF r
<1>6. ~known => records'[m] = Append(rs, r)
  BY <1>1, <1>3 DEF RebuildProjections
<1>7. ~known => PenaltyGrows(m, r)
  BY <1>3, <1>5, <1>6 DEF PenaltyGrows, Grows
<1> QED
  BY <1>2, <1>5, <1>7

\* A restored case has its standing record reversed, if there is one.
LEMMA ReverseGrows ==
    ASSUME PenaltyAssumptions, PenaltyOK, NEW m \in Members, NEW c, ReverseCaseViolation(m, c)
    PROVE  \/ /\ UNCHANGED penaltyVars
              /\ ~\E i \in Standing(records[m]) : records[m][i].source = "REPORT_CASE" /\ records[m][i].id = c
           \/ \E r : /\ PenaltyGrows(m, r) /\ NewReversal(records[m], r)
                     /\ records[m][r.reverses].source = "REPORT_CASE" /\ records[m][r.reverses].id = c
<1> DEFINE rs == records[m]
           found == {i \in Standing(rs) : rs[i].source = "REPORT_CASE" /\ rs[i].id = c}
           new(i) == Append(rs, ReversalOf(rs, i))
<1>1. now \in Nat /\ Shape(rs) /\ records \in [Members -> Seq(PenaltyRows)]
  BY DEF PenaltyOK
<1>2. CASE found = {}
  BY <1>2 DEF ReverseCaseViolation
<1>3. CASE found # {}
  <2>1. PICK i \in found : /\ RebuildProjections(m, Recalculated(new(i)))
                           /\ ReconcileWallet(m, Recalculated(new(i)))
                           /\ UNCHANGED now
    BY <1>3 DEF ReverseCaseViolation
  <2> DEFINE r == ReversalOf(rs, i)
  <2>2. NewReversal(rs, r) /\ r.key = 0 /\ r.reverses = i
    <3>1. i \in Standing(rs)
      BY <2>1
    <3> QED
      BY <1>1, <3>1, ReversalRow
  <2>3. rs[i].source = "REPORT_CASE" /\ rs[i].id = c
    BY <2>1
  <2> HIDE DEF r
  <2>4. records'[m] = Recalculated(Append(rs, r))
    BY <1>1, <2>1 DEF RebuildProjections, r
  <2>5. PenaltyGrows(m, r)
    BY <2>1, <2>2, <2>4 DEF PenaltyGrows, Grows, r
  <2> QED
    BY <2>2, <2>3, <2>5
<1> QED
  BY <1>2, <1>3

\* A low average is a strike of its own ladder, counted among all that stands
\* there.
LEMMA LowAverageGrows ==
    ASSUME PenaltyAssumptions, PenaltyOK, NEW m \in Members, NEW id \in PenaltyIds, RecordLowAverage(m, id),
           ~\E i \in Originals(records[m]) : records[m][i].source = "REVIEW_AVERAGE" /\ records[m][i].id = id
    PROVE  \E r : /\ PenaltyGrows(m, r) /\ NewRow(records[m], r)
                  /\ r.source = "REVIEW_AVERAGE" /\ r.id = id
<1> DEFINE rs == records[m]
           strikes == Cardinality({i \in Standing(rs) : rs[i].ladder = "REVIEW"})
           result == LadderResult("REVIEW", strikes + 1)
           r == Record("REVIEW", "REVIEW_AVERAGE", id, NextSeq(rs, "REVIEW"), result)
<1>1. now \in Nat /\ Shape(rs) /\ records \in [Members -> Seq(PenaltyRows)]
  BY DEF PenaltyOK
<1>2. /\ RebuildProjections(m, Append(rs, r)) /\ ReconcileIfBan(m, Append(rs, r), r)
      /\ UNCHANGED now
  BY DEF RecordLowAverage
<1>3. {i \in Standing(rs) : rs[i].ladder = "REVIEW"} = Automatic(rs, "REVIEW")
  <2>1. Standing(rs) \subseteq DOMAIN rs
    BY DEF Standing, Originals
  <2>2. \A i \in Standing(rs) : rs[i].ladder = "REVIEW" =>
           rs[i].result # "EXEMPT" /\ rs[i].source = "REVIEW_AVERAGE"
    BY <1>1, <2>1, HistoryFacts DEF RowOK
  <2> QED
    BY <2>2 DEF Automatic
<1>4. result = LadderResult("REVIEW", Cardinality(Automatic(rs, "REVIEW")) + 1)
  BY <1>3
<1>5. NewRow(rs, r) /\ r.source = "REVIEW_AVERAGE" /\ r.id = id /\ r.key = 0
  <2> HIDE DEF result
  <2>1. "REVIEW" \in Ladders
    BY DEF Ladders
  <2> QED
    BY <1>1, <1>4, <2>1, StrikeRow
<1> HIDE DEF r
<1>6. records'[m] = Append(rs, r)
  BY <1>1, <1>2 DEF RebuildProjections
<1>7. PenaltyGrows(m, r)
  BY <1>2, <1>5, <1>6 DEF PenaltyGrows, Grows
<1> QED
  BY <1>5, <1>7
-----------------------------------------------------------------------------
(* Reviews, cases and the whole *)

\* A record for a low average names a review that there is.
ReviewsKnown ==
    /\ reviews \subseteq ReviewRows
    /\ \A m \in Members : \A i \in DOMAIN records[m] :
          records[m][i].source = "REVIEW_AVERAGE" =>
              \E v \in reviews : records[m][i].id = <<v.quest, v.reviewer>>

About(r, c) == r.source = "REPORT_CASE" /\ r.id = c
Named(c) == Author[reportCase[c].message]

\* A case that was not decided has no row, one that stands as hidden has, and
\* none of a restored one stands.
CasesOK ==
    /\ reportCase \in [Cases -> [message : Messages \cup {"NONE"},
                                 status : Rulings \cup {"NONE", "PENDING"}, version : Nat]]
    /\ message \in [Messages -> [hidden : BOOLEAN, attachment : {"CONSUMED", "HIDDEN"}]]
    /\ \A c \in Cases : reportCase[c].status # "NONE" => reportCase[c].message \in Messages
    /\ \A c, d \in Cases :
          OpenCase(c) /\ OpenCase(d) /\ reportCase[c].message = reportCase[d].message => c = d
    /\ \A c \in Cases : reportCase[c].status \in {"NONE", "PENDING"} =>
          \A m \in Members : \A i \in DOMAIN records[m] : ~About(records[m][i], c)
    /\ \A c \in Cases : reportCase[c].status = "HIDDEN" =>
          /\ message[reportCase[c].message].hidden
          /\ \E i \in Originals(records[Named(c)]) : About(records[Named(c)][i], c)
    /\ \A c \in Cases : reportCase[c].status = "RESTORED" =>
          \A i \in Standing(records[Named(c)]) : ~About(records[Named(c)][i], c)

CommunityInv == PenaltyOK /\ ReviewsKnown /\ CasesOK

\* A history that grows without a record for an average keeps the first.
LEMMA ReviewsKept ==
    ASSUME PenaltyAssumptions, PenaltyOK, ReviewsKnown, NEW m \in Members, NEW r, PenaltyGrows(m, r),
           r.source # "REVIEW_AVERAGE" \/ NewReversal(records[m], r), reviews' = reviews
    PROVE  ReviewsKnown'
<1>1. NewRow(records[m], r) => r.source # "REVIEW_AVERAGE"
  BY DEF NewRow, NewReversal
<1> SUFFICES ASSUME NEW o \in Members, NEW i \in DOMAIN records'[o],
                    records'[o][i].source = "REVIEW_AVERAGE"
             PROVE  \E v \in reviews : records'[o][i].id = <<v.quest, v.reviewer>>
  BY DEF ReviewsKnown
<1>2. PICK j \in DOMAIN records[o] : SameSource(records'[o][i], records[o][j])
  BY <1>1, GrowthSources DEF SameSource
<1> QED
  BY <1>2 DEF ReviewsKnown, SameSource

\* The rows about a case are about it after a step as they were before, unless
\* the step adds one.
LEMMA CaseRowsKept ==
    ASSUME PenaltyAssumptions, PenaltyOK, NEW m \in Members, NEW r, PenaltyGrows(m, r), NEW c,
           ~(NewRow(records[m], r) /\ About(r, c)), NEW o \in Members
    PROVE  /\ (\A i \in DOMAIN records[o] : ~About(records[o][i], c)) =>
                 \A i \in DOMAIN records'[o] : ~About(records'[o][i], c)
           /\ (\E i \in Originals(records[o]) : About(records[o][i], c)) =>
                 \E i \in Originals(records'[o]) : About(records'[o][i], c)
           /\ (\A i \in Standing(records[o]) : ~About(records[o][i], c)) =>
                 \A i \in Standing(records'[o]) : ~About(records'[o][i], c)
<1>1. \A i \in DOMAIN records'[o] :
         \/ \E j \in DOMAIN records[o] : SameSource(records'[o][i], records[o][j])
         \/ NewRow(records[m], r) /\ SameSource(records'[o][i], r)
  BY GrowthSources
<1>2. \A i \in Standing(records'[o]) :
         \/ \E j \in Standing(records[o]) : SameSource(records'[o][i], records[o][j])
         \/ NewRow(records[m], r) /\ SameSource(records'[o][i], r)
  BY GrowthSources
<1>3. \A i \in Originals(records[o]) :
         i \in Originals(records'[o]) /\ records'[o][i] = records[o][i]
  BY GrowthSources
<1>4. \A x, y : SameSource(x, y) => (About(x, c) <=> About(y, c))
  BY DEF SameSource, About
<1> QED
  BY <1>1, <1>2, <1>3, <1>4

\* A history that grows without a record of a case keeps the cases.
LEMMA CasesKept ==
    ASSUME PenaltyAssumptions, ModerationAssumptions, PenaltyOK, CasesOK, NEW m \in Members, NEW r,
           PenaltyGrows(m, r), r.source # "REPORT_CASE" \/ NewReversal(records[m], r),
           UNCHANGED <<reportCase, message>>
    PROVE  CasesOK'
<1>1. \A c \in Cases : ~(NewRow(records[m], r) /\ About(r, c))
  BY DEF NewRow, NewReversal, About
<1>2. \A c \in Cases : reportCase[c].status # "NONE" => Named(c) \in Members
  BY DEF CasesOK, ModerationAssumptions, Named
<1>3. \A c \in Cases : Named(c)' = Named(c) /\ OpenCase(c)' = OpenCase(c)
  BY DEF Named, OpenCase
<1>4. ASSUME NEW c \in Cases, reportCase[c].status \in {"NONE", "PENDING"}, NEW o \in Members
      PROVE  \A i \in DOMAIN records'[o] : ~About(records'[o][i], c)
  BY <1>1, <1>4, CaseRowsKept DEF CasesOK
<1>5. ASSUME NEW c \in Cases, reportCase[c].status = "HIDDEN"
      PROVE  \E i \in Originals(records'[Named(c)]) : About(records'[Named(c)][i], c)
  BY <1>1, <1>2, <1>5, CaseRowsKept DEF CasesOK
<1>6. ASSUME NEW c \in Cases, reportCase[c].status = "RESTORED"
      PROVE  \A i \in Standing(records'[Named(c)]) : ~About(records'[Named(c)][i], c)
  BY <1>1, <1>2, <1>6, CaseRowsKept DEF CasesOK
<1> QED
  BY <1>3, <1>4, <1>5, <1>6 DEF CasesOK

\* Steps that leave the histories alone.
LEMMA HistoriesStay ==
    ASSUME CommunityInv, records' = records
    PROVE  /\ reviews' = reviews => ReviewsKnown'
           /\ UNCHANGED <<reportCase, message>> => CasesOK'
<1>1. ASSUME reviews' = reviews PROVE ReviewsKnown'
  BY <1>1 DEF CommunityInv, ReviewsKnown
<1>2. ASSUME UNCHANGED <<reportCase, message>> PROVE CasesOK'
  <2>1. \A c \in Cases : Named(c)' = Named(c) /\ OpenCase(c)' = OpenCase(c)
    BY <1>2 DEF Named, OpenCase
  <2> QED
    BY <1>2, <2>1 DEF CommunityInv, CasesOK
<1> QED
  BY <1>1, <1>2

\* Steps that write nothing of a Member keep it.
LEMMA PenaltiesStay ==
    ASSUME PenaltyOK, UNCHANGED penaltyVars
    PROVE  PenaltyOK'
<1>1. UNCHANGED <<now, records, bannedUntil, redFlagUntil, walletStatus, lastChange>>
  BY DEF penaltyVars
<1>2. KeysOnce' /\ BanFreezesWallet'
  <2>1. KeysOnce'
    BY <1>1, KeysStay DEF PenaltyOK
  <2>2. BanFreezesWallet'
    BY <1>1 DEF PenaltyOK, BanFreezesWallet
  <2> QED
    BY <2>1, <2>2
<1>3. ASSUME NEW o \in Members PROVE Projected(o)'
  BY <1>1 DEF PenaltyOK, Projected
<1> QED
  BY <1>1, <1>2, <1>3 DEF PenaltyOK

\* A report of a message.
LEMMA SubmitKeeps ==
    ASSUME CommunityInv, NEW x \in Messages, NEW m, SubmitReport(m, x)
    PROVE  CommunityInv'
<1>1. UNCHANGED penaltyVars /\ UNCHANGED reviews /\ UNCHANGED message
  BY DEF SubmitReport, reviewVars
<1>2. records' = records
  BY <1>1 DEF penaltyVars
<1>3. PenaltyOK' /\ ReviewsKnown'
  BY <1>1, <1>2, PenaltiesStay, HistoriesStay DEF CommunityInv
<1>4. CASE UNCHANGED reportCase
  BY <1>1, <1>2, <1>3, <1>4, HistoriesStay DEF CommunityInv
<1>5. CASE CaseOpenFor(x) = {} /\ \E c \in Cases :
               /\ reportCase[c] = NoCase
               /\ reportCase' = [reportCase EXCEPT ![c] =
                     [message |-> x, status |-> "PENDING", version |-> 1]]
  <2>1. PICK c \in Cases : /\ reportCase[c] = NoCase
                           /\ reportCase' = [reportCase EXCEPT ![c] =
                                 [message |-> x, status |-> "PENDING", version |-> 1]]
    BY <1>5
  <2>2. CasesOK
    BY DEF CommunityInv
  <2>3. /\ reportCase' \in [Cases -> [message : Messages \cup {"NONE"},
                                      status : Rulings \cup {"NONE", "PENDING"}, version : Nat]]
        /\ reportCase'[c].message = x /\ reportCase'[c].status = "PENDING"
        /\ reportCase[c].status = "NONE"
        /\ \A d \in Cases : d # c => reportCase'[d] = reportCase[d]
    BY <2>1, <2>2 DEF CasesOK, NoCase
  <2>4. \A d \in Cases : OpenCase(d) => reportCase[d].message # x
    BY <1>5 DEF CaseOpenFor
  <2>5. \A d, e \in Cases :
           OpenCase(d)' /\ OpenCase(e)' /\ reportCase'[d].message = reportCase'[e].message => d = e
    BY <2>2, <2>3, <2>4 DEF CasesOK, OpenCase
  <2>6. \A d \in Cases : d # c => Named(d)' = Named(d)
    BY <2>3 DEF Named
  <2>7. ASSUME NEW d \in Cases
        PROVE  /\ reportCase'[d].status # "NONE" => reportCase'[d].message \in Messages
               /\ reportCase'[d].status \in {"NONE", "PENDING"} =>
                     \A o \in Members : \A i \in DOMAIN records'[o] : ~About(records'[o][i], d)
               /\ reportCase'[d].status = "HIDDEN" =>
                     /\ message'[reportCase'[d].message].hidden
                     /\ \E i \in Originals(records'[Named(d)']) : About(records'[Named(d)'][i], d)
               /\ reportCase'[d].status = "RESTORED" =>
                     \A i \in Standing(records'[Named(d)']) : ~About(records'[Named(d)'][i], d)
    <3>1. CASE d = c
      BY <1>2, <2>2, <2>3, <3>1 DEF CasesOK
    <3>2. CASE d # c
      BY <1>1, <1>2, <2>2, <2>3, <2>6, <3>2 DEF CasesOK
    <3> QED
      BY <3>1, <3>2
  <2>8. CasesOK'
    BY <1>1, <2>2, <2>3, <2>5, <2>7 DEF CasesOK
  <2> QED
    BY <1>3, <2>8 DEF CommunityInv
<1> QED
  BY <1>4, <1>5 DEF SubmitReport

\* What a decision of a case writes in the case.
LEMMA DecidedCase ==
    ASSUME CasesOK, ModerationAssumptions, NEW c \in Cases, NEW outcome \in Rulings, NEW version,
           DecideCase(c, outcome, version)
    PROVE  /\ reportCase' \in [Cases -> [message : Messages \cup {"NONE"},
                                         status : Rulings \cup {"NONE", "PENDING"}, version : Nat]]
           /\ OpenCase(c) /\ reportCase[c].message \in Messages /\ Named(c) \in Members
           /\ outcome = "RESTORED" => reportCase[c].status = "HIDDEN"
           /\ reportCase'[c].status = outcome /\ reportCase'[c].message = reportCase[c].message
           /\ \A d \in Cases : d # c => reportCase'[d] = reportCase[d]
           /\ \A d \in Cases : Named(d)' = Named(d) /\ (OpenCase(d)' => OpenCase(d))
                               /\ reportCase'[d].message = reportCase[d].message
<1>1. outcome \in CaseOutcomes(reportCase[c].status)
  BY DEF DecideCase
<1>2. OpenCase(c) /\ (outcome = "RESTORED" => reportCase[c].status = "HIDDEN")
  BY <1>1 DEF CaseOutcomes, OpenCase
<1>3. reportCase[c].message \in Messages
  BY <1>2 DEF CasesOK, OpenCase
<1>4. reportCase' = [reportCase EXCEPT ![c].status = outcome, ![c].version = @ + 1]
  BY DEF DecideCase
<1>5. /\ reportCase' \in [Cases -> [message : Messages \cup {"NONE"},
                                    status : Rulings \cup {"NONE", "PENDING"}, version : Nat]]
      /\ reportCase'[c].status = outcome /\ reportCase'[c].message = reportCase[c].message
      /\ \A d \in Cases : d # c => reportCase'[d] = reportCase[d]
  BY <1>4 DEF CasesOK
<1>6. Named(c) \in Members
  BY <1>3 DEF ModerationAssumptions, Named
<1>7. \A d \in Cases : Named(d)' = Named(d) /\ (OpenCase(d)' => OpenCase(d))
                       /\ reportCase'[d].message = reportCase[d].message
  BY <1>2, <1>5 DEF Named, OpenCase
<1> QED
  BY <1>2, <1>3, <1>5, <1>6, <1>7

\* The cases after a decision, from what is known of each case and its rows.
LEMMA DecisionKeepsCases ==
    ASSUME CasesOK, ModerationAssumptions, NEW c \in Cases, NEW outcome \in Rulings, NEW version,
           DecideCase(c, outcome, version),
           message' \in [Messages -> [hidden : BOOLEAN, attachment : {"CONSUMED", "HIDDEN"}]],
           \A d \in Cases : d # c =>
              /\ (\A o \in Members : \A i \in DOMAIN records[o] : ~About(records[o][i], d)) =>
                    \A o \in Members : \A i \in DOMAIN records'[o] : ~About(records'[o][i], d)
              /\ Named(d) \in Members =>
                   /\ (\E i \in Originals(records[Named(d)]) : About(records[Named(d)][i], d)) =>
                        \E i \in Originals(records'[Named(d)]) : About(records'[Named(d)][i], d)
                   /\ (\A i \in Standing(records[Named(d)]) : ~About(records[Named(d)][i], d)) =>
                        \A i \in Standing(records'[Named(d)]) : ~About(records'[Named(d)][i], d)
              /\ reportCase[d].status = "HIDDEN" => message'[reportCase[d].message].hidden,
           outcome = "HIDDEN" =>
              /\ message'[reportCase[c].message].hidden
              /\ \E i \in Originals(records'[Named(c)]) : About(records'[Named(c)][i], c),
           outcome = "RESTORED" =>
              \A i \in Standing(records'[Named(c)]) : ~About(records'[Named(c)][i], c)
    PROVE  CasesOK'
<1>1. /\ reportCase' \in [Cases -> [message : Messages \cup {"NONE"},
                                    status : Rulings \cup {"NONE", "PENDING"}, version : Nat]]
      /\ reportCase[c].message \in Messages
      /\ reportCase'[c].status = outcome
      /\ \A d \in Cases : d # c => reportCase'[d] = reportCase[d]
  BY DecidedCase
<1>2. \A d \in Cases : Named(d)' = Named(d) /\ (OpenCase(d)' => OpenCase(d))
                       /\ reportCase'[d].message = reportCase[d].message
  BY DecidedCase
<1>3. \A d, e \in Cases :
         OpenCase(d)' /\ OpenCase(e)' /\ reportCase'[d].message = reportCase'[e].message => d = e
  BY <1>2 DEF CasesOK
<1>4. \A d \in Cases : reportCase[d].status # "NONE" => Named(d) \in Members
  BY DEF CasesOK, ModerationAssumptions, Named
<1>5. ASSUME NEW d \in Cases
      PROVE  /\ reportCase'[d].status # "NONE" => reportCase'[d].message \in Messages
             /\ reportCase'[d].status \in {"NONE", "PENDING"} =>
                   \A o \in Members : \A i \in DOMAIN records'[o] : ~About(records'[o][i], d)
             /\ reportCase'[d].status = "HIDDEN" =>
                   /\ message'[reportCase'[d].message].hidden
                   /\ \E i \in Originals(records'[Named(d)']) : About(records'[Named(d)'][i], d)
             /\ reportCase'[d].status = "RESTORED" =>
                   \A i \in Standing(records'[Named(d)']) : ~About(records'[Named(d)'][i], d)
  <2>1. CASE d = c
    <3>1. outcome \notin {"NONE", "PENDING"}
      BY DEF Rulings
    <3> QED
      BY <1>1, <1>2, <2>1, <3>1
  <2>2. CASE d # c
    <3>1. reportCase'[d] = reportCase[d] /\ Named(d)' = Named(d)
      BY <1>1, <1>2, <2>2
    <3>2. /\ reportCase[d].status # "NONE" => reportCase[d].message \in Messages
          /\ reportCase[d].status \in {"NONE", "PENDING"} =>
                \A o \in Members : \A i \in DOMAIN records[o] : ~About(records[o][i], d)
          /\ reportCase[d].status = "HIDDEN" =>
                \E i \in Originals(records[Named(d)]) : About(records[Named(d)][i], d)
          /\ reportCase[d].status = "RESTORED" =>
                \A i \in Standing(records[Named(d)]) : ~About(records[Named(d)][i], d)
      BY DEF CasesOK
    <3> QED
      BY <1>4, <2>2, <3>1, <3>2
  <2> QED
    BY <2>1, <2>2
<1> QED
  BY <1>1, <1>3, <1>5 DEF CasesOK

\* A decision of a case.
LEMMA DecideKeeps ==
    ASSUME PenaltyAssumptions, ModerationAssumptions, CommunityInv,
           NEW c \in Cases, NEW outcome \in Rulings, NEW version, DecideCase(c, outcome, version)
    PROVE  CommunityInv'
<1> DEFINE x == reportCase[c].message
           m == Author[x]
<1>1. PenaltyOK /\ ReviewsKnown /\ CasesOK
  BY DEF CommunityInv
<1>2. OpenCase(c) /\ x \in Messages /\ m \in Members /\ (outcome = "RESTORED" => reportCase[c].status = "HIDDEN")
  BY <1>1, DecidedCase DEF Named
<1>3. m = Named(c)
  BY DEF Named
<1>4. reviews' = reviews
  BY DEF DecideCase, reviewVars
<1>5. message \in [Messages -> [hidden : BOOLEAN, attachment : {"CONSUMED", "HIDDEN"}]]
  BY <1>1 DEF CasesOK
<1>6. \A d \in Cases : reportCase[d].status = "HIDDEN" =>
         message[reportCase[d].message].hidden /\ reportCase[d].message \in Messages
  BY <1>1 DEF CasesOK
<1>7. ASSUME UNCHANGED penaltyVars
      PROVE  PenaltyOK' /\ ReviewsKnown' /\ records' = records
  BY <1>1, <1>4, <1>7, PenaltiesStay, HistoriesStay DEF CommunityInv, penaltyVars
<1>8. CASE outcome = "DISMISSED"
  <2>1. UNCHANGED <<message, penaltyVars>>
    BY <1>8 DEF DecideCase
  <2>2. CasesOK'
    BY <1>1, <1>5, <1>6, <1>7, <1>8, <2>1, DecisionKeepsCases
  <2> QED
    BY <1>7, <2>1, <2>2 DEF CommunityInv
<1>9. CASE outcome = "HIDDEN"
  <2>1. HideMessage(x) /\ RecordViolation(m, "REPORT_CASE", c)
    BY <1>9 DEF DecideCase
  <2>2. /\ message' \in [Messages -> [hidden : BOOLEAN, attachment : {"CONSUMED", "HIDDEN"}]]
        /\ message'[x].hidden
        /\ \A y \in Messages : message[y].hidden => message'[y].hidden
    BY <1>2, <1>5, <2>1 DEF HideMessage
  <2>3. c \in PenaltyIds
    BY DEF PenaltyIds
  <2>4. CASE /\ UNCHANGED penaltyVars
             /\ \E i \in Originals(records[m]) : records[m][i].source = "REPORT_CASE" /\ records[m][i].id = c
    <3>1. \E i \in Originals(records'[Named(c)]) : About(records'[Named(c)][i], c)
      BY <1>3, <1>7, <2>4 DEF About
    <3>2. CasesOK'
      BY <1>1, <1>6, <1>7, <1>9, <2>2, <2>4, <3>1, DecisionKeepsCases
    <3> QED
      BY <1>7, <2>4, <3>2 DEF CommunityInv
  <2>5. ASSUME NEW r, PenaltyGrows(m, r), NewRow(records[m], r), r.source = "REPORT_CASE", r.id = c
        PROVE  CommunityInv'
    <3>1. PenaltyOK'
      BY <1>1, <1>2, <2>5, GrowsKeeps
    <3>2. ReviewsKnown'
      BY <1>1, <1>2, <1>4, <2>5, ReviewsKept
    <3>3. ASSUME NEW d \in Cases, d # c
          PROVE  /\ (\A o \in Members : \A i \in DOMAIN records[o] : ~About(records[o][i], d)) =>
                      \A o \in Members : \A i \in DOMAIN records'[o] : ~About(records'[o][i], d)
                 /\ Named(d) \in Members =>
                      /\ (\E i \in Originals(records[Named(d)]) : About(records[Named(d)][i], d)) =>
                           \E i \in Originals(records'[Named(d)]) : About(records'[Named(d)][i], d)
                      /\ (\A i \in Standing(records[Named(d)]) : ~About(records[Named(d)][i], d)) =>
                           \A i \in Standing(records'[Named(d)]) : ~About(records'[Named(d)][i], d)
                 /\ reportCase[d].status = "HIDDEN" => message'[reportCase[d].message].hidden
      <4>1. ~About(r, d)
        BY <2>5, <3>3 DEF About
      <4>2. reportCase[d].status = "HIDDEN" => message'[reportCase[d].message].hidden
        BY <1>6, <2>2
      <4> QED
        BY <1>1, <1>2, <2>5, <4>1, <4>2, CaseRowsKept
    <3>4. \E i \in Originals(records'[Named(c)]) : About(records'[Named(c)][i], c)
      BY <1>1, <1>2, <1>3, <2>5, GrowthSources DEF About
    <3>5. CasesOK'
      BY <1>1, <1>9, <2>2, <3>3, <3>4, DecisionKeepsCases
    <3> QED
      BY <3>1, <3>2, <3>5 DEF CommunityInv
  <2> HIDE DEF m
  <2> QED
    BY <1>1, <1>2, <2>1, <2>3, <2>4, <2>5, ViolationGrows
<1>10. CASE outcome = "RESTORED"
  <2>1. RestoreMessage(x) /\ ReverseCaseViolation(m, c)
    BY <1>10 DEF DecideCase
  <2>2. /\ message' \in [Messages -> [hidden : BOOLEAN, attachment : {"CONSUMED", "HIDDEN"}]]
        /\ \A y \in Messages : y # x => message'[y] = message[y]
    BY <1>2, <1>5, <2>1 DEF RestoreMessage
  <2>3. ASSUME NEW d \in Cases, d # c, reportCase[d].status = "HIDDEN"
        PROVE  message'[reportCase[d].message].hidden
    <3>1. OpenCase(d) /\ OpenCase(c) /\ reportCase[d].message # x
      BY <1>1, <1>2, <2>3 DEF CasesOK, OpenCase
    <3> QED
      BY <1>6, <2>2, <2>3, <3>1
  <2>4. CASE /\ UNCHANGED penaltyVars
             /\ ~\E i \in Standing(records[m]) : records[m][i].source = "REPORT_CASE" /\ records[m][i].id = c
    <3>1. \A i \in Standing(records'[Named(c)]) : ~About(records'[Named(c)][i], c)
      BY <1>3, <1>7, <2>4 DEF About
    <3>2. CasesOK'
      BY <1>1, <1>7, <1>10, <2>2, <2>3, <2>4, <3>1, DecisionKeepsCases
    <3> QED
      BY <1>7, <2>4, <3>2 DEF CommunityInv
  <2>5. ASSUME NEW r, PenaltyGrows(m, r), NewReversal(records[m], r), About(records[m][r.reverses], c)
        PROVE  CommunityInv'
    <3>1. PenaltyOK'
      BY <1>1, <1>2, <2>5, GrowsKeeps
    <3>2. ReviewsKnown'
      BY <1>1, <1>2, <1>4, <2>5, ReviewsKept
    <3>3. ASSUME NEW d \in Cases, d # c
          PROVE  /\ (\A o \in Members : \A i \in DOMAIN records[o] : ~About(records[o][i], d)) =>
                      \A o \in Members : \A i \in DOMAIN records'[o] : ~About(records'[o][i], d)
                 /\ Named(d) \in Members =>
                      /\ (\E i \in Originals(records[Named(d)]) : About(records[Named(d)][i], d)) =>
                           \E i \in Originals(records'[Named(d)]) : About(records'[Named(d)][i], d)
                      /\ (\A i \in Standing(records[Named(d)]) : ~About(records[Named(d)][i], d)) =>
                           \A i \in Standing(records'[Named(d)]) : ~About(records'[Named(d)][i], d)
                 /\ reportCase[d].status = "HIDDEN" => message'[reportCase[d].message].hidden
      <4>1. ~NewRow(records[m], r)
        BY <2>5 DEF NewRow, NewReversal
      <4> QED
        BY <1>1, <1>2, <2>3, <2>5, <3>3, <4>1, CaseRowsKept
    <3>4. ASSUME NEW i \in Standing(records'[m]), About(records'[m][i], c) PROVE FALSE
      <4>1. ~NewRow(records[m], r)
        BY <2>5 DEF NewRow, NewReversal
      <4>0. \A k \in Standing(records'[m]) : \E j \in Standing(records[m]) :
                SameSource(records'[m][k], records[m][j]) /\ j # r.reverses
        <5>1. PenaltyOK /\ m \in Members /\ PenaltyGrows(m, r) /\ NewReversal(records[m], r)
          BY <1>1, <1>2, <2>5
        <5>2. \A k \in Standing(records'[m]) :
                 \/ \E j \in Standing(records[m]) :
                       /\ SameSource(records'[m][k], records[m][j])
                       /\ m = m /\ NewReversal(records[m], r) => j # r.reverses
                 \/ m = m /\ NewRow(records[m], r) /\ SameSource(records'[m][k], r)
          BY <5>1, GrowthSources
        <5> QED
          BY <4>1, <5>1, <5>2
      <4>2. PICK j \in Standing(records[m]) : SameSource(records'[m][i], records[m][j]) /\ j # r.reverses
        BY <3>4, <4>0
      <4>3. About(records[m][j], c)
        BY <3>4, <4>2 DEF About, SameSource
      <4>4. r.reverses \in Standing(records[m]) /\ Shape(records[m])
        BY <1>1, <1>2, <2>5 DEF NewReversal, PenaltyOK
      <4>5. ApartStanding(records[m], j, r.reverses)
        BY <4>2, <4>4 DEF Shape
      <4> QED
        BY <2>5, <4>3, <4>5 DEF ApartStanding, About, SameSource
    <3>5. \A i \in Standing(records'[Named(c)]) : ~About(records'[Named(c)][i], c)
      BY <1>3, <3>4
    <3>6. CasesOK'
      BY <1>1, <1>10, <2>2, <3>3, <3>5, DecisionKeepsCases
    <3> QED
      BY <3>1, <3>2, <3>6 DEF CommunityInv
  <2> HIDE DEF m
  <2> QED
    BY <1>1, <1>2, <2>1, <2>4, <2>5, ReverseGrows DEF About
<1> QED
  BY <1>8, <1>9, <1>10 DEF Rulings

\* A history that grows for another reason than a case or a review.
LEMMA OtherGrowth ==
    ASSUME PenaltyAssumptions, ModerationAssumptions, CommunityInv, NEW m \in Members, NEW r,
           PenaltyGrows(m, r), r.source \in {"ADMIN", "CONDUCT_REPORT"} \/ NewReversal(records[m], r),
           UNCHANGED <<reportCase, message, reviews>>
    PROVE  CommunityInv'
<1>1. PenaltyOK /\ ReviewsKnown /\ CasesOK
  BY DEF CommunityInv
<1>2. r.source \notin {"REPORT_CASE", "REVIEW_AVERAGE"} \/ NewReversal(records[m], r)
  OBVIOUS
<1>3. PenaltyOK' /\ ReviewsKnown' /\ CasesOK'
  BY <1>1, <1>2, GrowsKeeps, ReviewsKept, CasesKept
<1> QED
  BY <1>3 DEF CommunityInv

\* A decision of a Conduct Report.
LEMMA ConductKeeps ==
    ASSUME PenaltyAssumptions, ModerationAssumptions, CommunityInv,
           NEW q \in AssignedQuests, NEW m \in Members, NEW outcome, NEW version,
           DecideConduct(q, m, outcome, version)
    PROVE  CommunityInv'
<1>1. UNCHANGED <<reportCase, message, reviews>> /\ PenaltyOK
  BY DEF DecideConduct, reviewVars, CommunityInv
<1>2. CASE UNCHANGED penaltyVars
  <2>1. records' = records
    BY <1>2 DEF penaltyVars
  <2> QED
    BY <1>1, <1>2, <2>1, PenaltiesStay, HistoriesStay DEF CommunityInv
<1>3. CASE RecordViolation(m, "CONDUCT_REPORT", <<q, m>>)
  <2>1. <<q, m>> \in PenaltyIds
    BY DEF PenaltyIds
  <2>2. UNCHANGED penaltyVars \/ \E r : PenaltyGrows(m, r) /\ r.source = "CONDUCT_REPORT"
    BY <1>1, <1>3, <2>1, ViolationGrows
  <2> QED
    BY <1>1, <1>2, <2>2, OtherGrowth
<1> QED
  BY <1>2, <1>3 DEF DecideConduct

\* A review, with the penalty that may follow from it.
LEMMA ReviewKeeps ==
    ASSUME PenaltyAssumptions, ModerationAssumptions, CommunityInv, ReviewStep, UNCHANGED moderationVars
    PROVE  CommunityInv'
<1>1. PenaltyOK /\ ReviewsKnown /\ CasesOK /\ UNCHANGED <<reportCase, message>>
  BY DEF CommunityInv, moderationVars
<1>2. ASSUME NEW q \in AssignedQuests, QuestEnds(q) PROVE CommunityInv'
  <2>1. UNCHANGED penaltyVars /\ reviews' = reviews /\ records' = records
    BY <1>2 DEF QuestEnds, penaltyVars
  <2> QED
    BY <1>1, <2>1, PenaltiesStay, HistoriesStay DEF CommunityInv
<1>3. ASSUME NEW v \in reviews, NEW rating \in Ratings, UpdateReview(v, rating) PROVE CommunityInv'
  <2>1. /\ UNCHANGED penaltyVars /\ records' = records
        /\ reviews' = (reviews \ {v}) \cup {[v EXCEPT !.rating = rating]}
    BY <1>3 DEF UpdateReview, penaltyVars
  <2> DEFINE w == [v EXCEPT !.rating = rating]
  <2>2. v \in ReviewRows
    BY <1>1 DEF ReviewsKnown
  <2>3. w \in ReviewRows /\ w.quest = v.quest /\ w.reviewer = v.reviewer
    BY <2>2 DEF ReviewRows
  <2>4. reviews' = (reviews \ {v}) \cup {w}
    BY <2>1
  <2> HIDE DEF w
  <2>5. reviews' \subseteq ReviewRows
    BY <1>1, <2>3, <2>4 DEF ReviewsKnown
  <2>6. ASSUME NEW o \in Members, NEW i \in DOMAIN records[o],
               records[o][i].source = "REVIEW_AVERAGE"
        PROVE  \E u \in reviews' : records[o][i].id = <<u.quest, u.reviewer>>
    <3>1. PICK u \in reviews : records[o][i].id = <<u.quest, u.reviewer>>
      BY <1>1, <2>6 DEF ReviewsKnown
    <3>2. CASE u = v
      BY <2>3, <2>4, <3>1, <3>2
    <3>3. CASE u # v
      BY <2>4, <3>1, <3>3
    <3> QED
      BY <3>2, <3>3
  <2>7. ReviewsKnown'
    BY <2>1, <2>5, <2>6 DEF ReviewsKnown, ReviewRows
  <2> QED
    BY <1>1, <2>1, <2>7, PenaltiesStay, HistoriesStay DEF CommunityInv
<1>4. ASSUME NEW q \in AssignedQuests, NEW reviewer \in Participants(q), NEW rating \in Ratings,
             CreateReview(q, reviewer, rating)
      PROVE  CommunityInv'
  <2> DEFINE new == [quest |-> q, reviewer |-> reviewer, rating |-> rating]
             m == Reviewee(q, reviewer)
  <2>1. /\ m \in Members /\ reviews' = reviews \cup {new}
        /\ ~\E v \in reviews : v.quest = q /\ v.reviewer = reviewer
        /\ RecordLowAverage(m, <<q, reviewer>>) \/ UNCHANGED penaltyVars
    BY <1>4 DEF CreateReview
  <2>2. new \in ReviewRows
    BY DEF ReviewRows, Participants
  <2>3. new.quest = q /\ new.reviewer = reviewer
    OBVIOUS
  <2> HIDE DEF new, m
  <2>4. CASE UNCHANGED penaltyVars
    <3>1. records' = records
      BY <2>4 DEF penaltyVars
    <3>2. ReviewsKnown'
      BY <1>1, <2>1, <2>2, <3>1 DEF ReviewsKnown
    <3> QED
      BY <1>1, <2>4, <3>1, <3>2, PenaltiesStay, HistoriesStay DEF CommunityInv
  <2>5. CASE RecordLowAverage(m, <<q, reviewer>>)
    <3>1. <<q, reviewer>> \in PenaltyIds
      BY DEF PenaltyIds
    <3>2. ~\E i \in Originals(records[m]) :
             records[m][i].source = "REVIEW_AVERAGE" /\ records[m][i].id = <<q, reviewer>>
      BY <1>1, <2>1 DEF ReviewsKnown, Originals
    <3>3. PICK r : /\ PenaltyGrows(m, r) /\ NewRow(records[m], r)
                   /\ r.source = "REVIEW_AVERAGE" /\ r.id = <<q, reviewer>>
      BY <1>1, <2>1, <2>5, <3>1, <3>2, LowAverageGrows
    <3>4. PenaltyOK' /\ CasesOK'
      BY <1>1, <2>1, <3>3, GrowsKeeps, CasesKept
    <3>5. ASSUME NEW o \in Members, NEW i \in DOMAIN records'[o],
                 records'[o][i].source = "REVIEW_AVERAGE"
          PROVE  \E v \in reviews' : records'[o][i].id = <<v.quest, v.reviewer>>
      <4>1. \/ \E j \in DOMAIN records[o] : SameSource(records'[o][i], records[o][j])
            \/ SameSource(records'[o][i], r)
        BY <1>1, <2>1, <3>3, GrowthSources
      <4> QED
        BY <1>1, <2>1, <2>3, <3>3, <3>5, <4>1 DEF ReviewsKnown, SameSource
    <3>6. ReviewsKnown'
      BY <1>1, <2>1, <2>2, <3>5 DEF ReviewsKnown
    <3> QED
      BY <3>4, <3>6 DEF CommunityInv
  <2> QED
    BY <2>1, <2>4, <2>5
<1> QED
  BY <1>2, <1>3, <1>4 DEF ReviewStep

\* The penalties themselves.
LEMMA PenaltyKeeps ==
    ASSUME PenaltyAssumptions, ModerationAssumptions, CommunityInv, PenaltyStep,
           UNCHANGED <<reviewVars, moderationVars>>
    PROVE  CommunityInv'
<1>1. PenaltyOK /\ UNCHANGED <<reportCase, message, reviews>>
  BY DEF CommunityInv, reviewVars, moderationVars
<1>2. ASSUME PenaltyOK', records' = records PROVE CommunityInv'
  BY <1>1, <1>2, HistoriesStay DEF CommunityInv
<1>3. CASE AdminPenaltyStep
  <2>1. PICK m \in Members, key \in AdminKeys, version \in 0..MaxRecords :
           \/ \E result \in AddedByAdmin : AddAdminPenalty(m, key, version, result)
           \/ \E i \in 1..MaxRecords : RemovePenalty(m, key, version, i)
    BY <1>3 DEF AdminPenaltyStep
  <2>2. \E r : PenaltyGrows(m, r) /\ (r.source = "ADMIN" \/ NewReversal(records[m], r))
    BY <1>1, <2>1, AddGrows, RemoveGrows
  <2> QED
    BY <1>1, <2>2, OtherGrowth
<1>4. ASSUME NEW m \in Members, ProcessExpiredBan(m) PROVE CommunityInv'
  BY <1>1, <1>2, <1>4, ExpiryKeeps
<1>5. ASSUME NEW m \in Members, NEW status \in SetByAdmin, ChangeWalletStatus(m, status) PROVE CommunityInv'
  BY <1>1, <1>2, <1>5, ChangeKeeps
<1>6. CASE Tick
  BY <1>1, <1>2, <1>6, TickKeeps
<1> QED
  BY <1>3, <1>4, <1>5, <1>6 DEF PenaltyStep

\* A Conduct Report, before it is decided.
LEMMA FilingKeeps ==
    ASSUME CommunityInv, NEW q, NEW m, FileConductReport(q, m)
    PROVE  CommunityInv'
<1>1. UNCHANGED <<message, reportCase>> /\ reviews' = reviews /\ UNCHANGED penaltyVars
  BY DEF FileConductReport, reviewVars
<1>2. records' = records
  BY <1>1 DEF penaltyVars
<1> QED
  BY <1>1, <1>2, PenaltiesStay, HistoriesStay DEF CommunityInv

\* A history that is empty or has its one exemption.
LEMMA FirstHistory ==
    ASSUME NEW rs, now = 1,
           rs \in {<<>>, <<Record("MISCONDUCT", "REPORT_CASE", EarlierCase, 1, "EXEMPT")>>}
    PROVE  /\ Shape(rs) /\ Len(rs) \in {0, 1} /\ DOMAIN rs = 1..Len(rs)
           /\ \A i \in DOMAIN rs :
                 /\ rs[i].source = "REPORT_CASE" /\ rs[i].id = EarlierCase
                 /\ rs[i].result = "EXEMPT" /\ rs[i].key = 0
<1> DEFINE r == Record("MISCONDUCT", "REPORT_CASE", EarlierCase, 1, "EXEMPT")
<1>1. /\ r \in PenaltyRows /\ RowOK(r, 1) /\ r.recalculates = 0 /\ r.reverses = 0
      /\ r.source = "REPORT_CASE" /\ r.id = EarlierCase /\ r.result = "EXEMPT" /\ r.key = 0
  <2>1. r.at = 0
    BY DEF Record, Dated
  <2> QED
    BY <2>1 DEF Record, PenaltyRows, PenaltyIds, PenaltySources, Ladders, RowOK
<1> HIDE DEF r
<1>2. rs = <<>> \/ rs = <<r>>
  BY DEF r
<1>3. CASE rs = <<>>
  <2>1. rs \in Seq(PenaltyRows) /\ Len(rs) = 0 /\ DOMAIN rs = {} /\ DOMAIN rs = 1..Len(rs)
    BY <1>3
  <2>2. Standing(rs) = {}
    BY <2>1 DEF Standing, Originals
  <2> QED
    BY <2>1, <2>2 DEF Shape
<1>4. CASE rs = <<r>>
  <2>1. rs \in Seq(PenaltyRows) /\ Len(rs) = 1 /\ DOMAIN rs = {1} /\ DOMAIN rs = 1..Len(rs) /\ rs[1] = r
    BY <1>1, <1>4
  <2>2. Standing(rs) \subseteq {1}
    BY <2>1 DEF Standing, Originals
  <2>3. Shape(rs)
    BY <1>1, <2>1, <2>2 DEF Shape
  <2> QED
    BY <1>1, <2>1, <2>3
<1> QED
  BY <1>2, <1>3, <1>4

\* The first state has all of it: no history says anything yet.
LEMMA CommunityStarts ==
    ASSUME PenaltyAssumptions, ModerationAssumptions, CommunityInit
    PROVE  CommunityInv
<1>1. /\ now = 1 /\ reviews = {}
      /\ records \in [Members -> {<<>>, <<Record("MISCONDUCT", "REPORT_CASE", EarlierCase, 1, "EXEMPT")>>}]
      /\ bannedUntil = [m \in Members |-> 0] /\ redFlagUntil = [m \in Members |-> 0]
      /\ walletStatus = [m \in Members |-> IF m \in HasWallet THEN "ACTIVE" ELSE "NONE"]
      /\ lastChange = [m \in Members |-> "NONE"]
      /\ message = [x \in Messages |-> [hidden |-> FALSE, attachment |-> "CONSUMED"]]
      /\ reportCase = [c \in Cases |-> NoCase]
  BY DEF CommunityInit, PenaltyInit, ReviewInit, ModerationInit
<1>2. ASSUME NEW m \in Members
      PROVE  /\ Shape(records[m]) /\ Len(records[m]) \in {0, 1} /\ DOMAIN records[m] = 1..Len(records[m])
             /\ \A i \in DOMAIN records[m] :
                   /\ records[m][i].source = "REPORT_CASE" /\ records[m][i].id = EarlierCase
                   /\ records[m][i].result = "EXEMPT" /\ records[m][i].key = 0
  BY <1>1, FirstHistory
<1>3. ASSUME NEW m \in Members
      PROVE  /\ \A i \in Standing(records[m]) : records[m][i].result = "EXEMPT"
             /\ \A i \in Standing(records[m]) : Expiry(records[m][i]) = 0
             /\ \A ladder : Automatic(records[m], ladder) = {}
             /\ ActiveBans(records[m], now) = {}
  <2>1. \A i \in Standing(records[m]) : records[m][i].result = "EXEMPT"
    BY <1>2 DEF Standing, Originals
  <2>2. \A i \in Standing(records[m]) : Expiry(records[m][i]) = 0
    BY <2>1 DEF Expiry
  <2>3. \A ladder : Automatic(records[m], ladder) = {}
    BY <2>1 DEF Automatic
  <2>4. ActiveBans(records[m], now) = {}
    BY <1>1, <2>1, <2>2 DEF ActiveBans
  <2> QED
    BY <2>1, <2>2, <2>3, <2>4
<1>4. ASSUME NEW m \in Members PROVE Shape(records[m]) /\ OnLadder(records[m]) /\ Projected(m)
  <2>1. OnLadder(records[m])
    BY <1>3 DEF OnLadder
  <2>2. bannedUntil[m] = 0 /\ redFlagUntil[m] = 0
    BY <1>1
  <2>3. Projected(m)
    BY <1>1, <1>3, <2>2 DEF Projected, ProjectedBy
  <2> QED
    BY <1>2, <2>1, <2>3
<1>5. records \in [Members -> Seq(PenaltyRows)]
  <2>1. \A m \in Members : records[m] \in Seq(PenaltyRows)
    BY <1>2 DEF Shape
  <2> QED
    BY <1>1, <2>1
<1>6. KeysOnce
  BY <1>2 DEF KeysOnce
<1>7. BanFreezesWallet
  BY <1>3 DEF BanFreezesWallet
<1>8. PenaltyOK
  <2>1. walletStatus \in [Members -> WalletStatuses] /\ lastChange \in [Members -> Changes]
    BY <1>1 DEF WalletStatuses, Changes
  <2>2. bannedUntil \in [Members -> Nat] /\ redFlagUntil \in [Members -> Nat] /\ now \in Nat
    BY <1>1
  <2> QED
    BY <1>4, <1>5, <1>6, <1>7, <2>1, <2>2 DEF PenaltyOK
<1>9. ReviewsKnown
  BY <1>1, <1>2 DEF ReviewsKnown
<1>10. CasesOK
  <2>1. \A c \in Cases : reportCase[c] = NoCase /\ ~OpenCase(c)
    BY <1>1 DEF OpenCase, NoCase
  <2>2. ASSUME NEW c \in Cases
        PROVE  \A m \in Members : \A i \in DOMAIN records[m] : ~About(records[m][i], c)
    BY <1>2 DEF About, ModerationAssumptions
  <2>3. /\ reportCase \in [Cases -> [message : Messages \cup {"NONE"},
                                     status : Rulings \cup {"NONE", "PENDING"}, version : Nat]]
        /\ message \in [Messages -> [hidden : BOOLEAN, attachment : {"CONSUMED", "HIDDEN"}]]
    BY <1>1 DEF NoCase
  <2>4. \A c \in Cases : reportCase[c].status = "NONE"
    BY <2>1 DEF NoCase
  <2> QED
    BY <2>1, <2>2, <2>3, <2>4 DEF CasesOK
<1> QED
  BY <1>8, <1>9, <1>10 DEF CommunityInv

\* Whatever a Member, an Admin or the sweep does next.
LEMMA CommunityStep ==
    ASSUME PenaltyAssumptions, ModerationAssumptions, CommunityInv, [CommunityNext]_communityVars
    PROVE  CommunityInv'
<1>1. CASE PenaltyStep /\ UNCHANGED <<reviewVars, moderationVars>>
  BY <1>1, PenaltyKeeps
<1>2. CASE ReviewStep /\ UNCHANGED moderationVars
  BY <1>2, ReviewKeeps
<1>3. CASE ReportStep
  BY <1>3, SubmitKeeps, FilingKeeps DEF ReportStep
<1>4. CASE DecisionStep
  <2>1. PICK version \in 1..MaxVersion :
           \/ \E c \in Cases, outcome \in Rulings : DecideCase(c, outcome, version)
           \/ \E q \in AssignedQuests, m \in Members, outcome \in {"CONDUCT_DISMISSED", "UPHELD"} :
                 DecideConduct(q, m, outcome, version)
    BY <1>4 DEF DecisionStep
  <2> QED
    BY <2>1, DecideKeeps, ConductKeeps
<1>5. CASE UNCHANGED communityVars
  <2>1. UNCHANGED penaltyVars /\ reviews' = reviews /\ UNCHANGED <<reportCase, message>>
    BY <1>5 DEF communityVars, reviewVars, moderationVars
  <2>2. records' = records
    BY <2>1 DEF penaltyVars
  <2> QED
    BY <2>1, <2>2, PenaltiesStay, HistoriesStay DEF CommunityInv
<1> QED
  BY <1>1, <1>2, <1>3, <1>4, <1>5 DEF CommunityNext

\* Histories, reviews and cases go together in every state: every row has its
\* shape, its place and its source, and what is projected of it is kept.
THEOREM CommunityHolds == CommunitySpec => []CommunityInv
<1>1. CommunityInit => CommunityInv
  BY PenaltyAssumptions, ModerationAssumptions, CommunityStarts
<1>2. CommunityInv /\ [CommunityNext]_communityVars => CommunityInv'
  BY PenaltyAssumptions, ModerationAssumptions, CommunityStep
<1> QED
  BY <1>1, <1>2, PTL DEF CommunitySpec

-----------------------------------------------------------------------------
(* What a Member answers for *)

\* The strikes that stand carry the results of their ladder in order, whatever
\* was confirmed, reversed or removed, and no order of commands leads to a row
\* that member_penalty_records refuses.
THEOREM StrikesSafe == CommunitySpec => []StrikesFollowLadder
<1>1. CommunityInv => StrikesFollowLadder
  <2> SUFFICES ASSUME CommunityInv PROVE StrikesFollowLadder
    OBVIOUS
  <2>1. PenaltyOK
    BY DEF CommunityInv
  <2>2. \A m \in Members, ladder \in Ladders : \A i \in Automatic(records[m], ladder) :
           records[m][i].result = LadderResult(ladder, StrikeOf(records[m], i))
    BY <2>1 DEF PenaltyOK, OnLadder
  <2>3. \A m \in Members : FitsTable(records[m])
    BY <2>1, ShapeFits DEF PenaltyOK
  <2>4. KeysOnce
    BY <2>1 DEF PenaltyOK
  <2> QED
    BY <2>2, <2>3, <2>4 DEF StrikesFollowLadder, KeysOnce
<1> QED
  BY <1>1, CommunityHolds, PTL

\* What a sign-in reads of a Member (readMemberPenaltyRestriction) agrees with
\* his history at any moment, though it is rebuilt by his commands only.
THEOREM ReadingSafe == CommunitySpec => []BanIsWhatHistorySays
<1>1. CommunityInv => BanIsWhatHistorySays
  <2> SUFFICES ASSUME CommunityInv, NEW m \in Members
               PROVE  /\ ReadBan(m) <=> ActiveBans(records[m], now) # {}
                      /\ ReadRedFlag(m) <=> \E i \in Standing(records[m]) :
                            records[m][i].result = "RED_FLAG" /\ records[m][i].at + WEEK > now
    BY DEF BanIsWhatHistorySays
  <2>1. /\ Shape(records[m]) /\ ProjectedBy(records[m], bannedUntil[m], redFlagUntil[m], now)
        /\ now \in Nat /\ bannedUntil[m] \in Nat /\ redFlagUntil[m] \in Nat
    BY DEF CommunityInv, PenaltyOK, Projected
  <2>2. \A i \in Standing(records[m]) : Expiry(records[m][i]) \in Nat /\ records[m][i].at + WEEK \in Nat
    BY <2>1, PenaltyAssumptions, HistoryFacts, EndsFacts
  <2>3. bannedUntil[m] > now <=> \E i \in Standing(records[m]) : Expiry(records[m][i]) > now
    BY <2>1, <2>2 DEF ProjectedBy
  <2>4. redFlagUntil[m] > now <=> \E i \in Standing(records[m]) :
            records[m][i].result = "RED_FLAG" /\ records[m][i].at + WEEK > now
    BY <2>1, <2>2 DEF ProjectedBy
  <2> QED
    BY <2>3, <2>4 DEF ReadBan, ReadRedFlag, ActiveBans
<1> QED
  BY <1>1, CommunityHolds, PTL

\* A banned Member cannot spend: the Wallet of a Member with a ban is not
\* ACTIVE, unless an Admin has opened it since.
THEOREM FreezeSafe == CommunitySpec => []BanFreezesWallet
<1>1. CommunityInv => BanFreezesWallet
  BY DEF CommunityInv, PenaltyOK
<1> QED
  BY <1>1, CommunityHolds, PTL

\* The decision of a Report Case and its consequence agree, and a message has
\* one open case at most.
THEOREM DecisionSafe == CommunitySpec => []DecisionMatchesRecord
<1>1. CommunityInv => DecisionMatchesRecord
  <2> SUFFICES ASSUME CommunityInv PROVE DecisionMatchesRecord
    OBVIOUS
  <2>1. CasesOK
    BY DEF CommunityInv
  <2>2. ASSUME NEW x \in Messages PROVE Cardinality(CaseOpenFor(x)) <= 1
    <3>1. CASE CaseOpenFor(x) = {}
      BY <3>1, FS_EmptySet
    <3>2. CASE CaseOpenFor(x) # {}
      <4>1. PICK c \in CaseOpenFor(x) : TRUE
        BY <3>2
      <4>2. CaseOpenFor(x) = {c}
        BY <2>1, <4>1 DEF CasesOK, CaseOpenFor
      <4>3. Cardinality({c}) = 1
        BY FS_Singleton
      <4>4. Cardinality(CaseOpenFor(x)) = 1
        BY <4>2, <4>3
      <4> QED
        BY <4>4
    <3> QED
      BY <3>1, <3>2
  <2>3. ASSUME NEW c \in Cases
        PROVE  LET rs == records[Author[reportCase[c].message]]
                   of == {i \in Originals(rs) : rs[i].source = "REPORT_CASE" /\ rs[i].id = c}
               IN  /\ reportCase[c].status = "HIDDEN" => of # {} /\ message[reportCase[c].message].hidden
                   /\ reportCase[c].status = "RESTORED" => of \cap Standing(rs) = {}
                   /\ reportCase[c].status = "PENDING" => of = {}
    <3> DEFINE rs == records[Named(c)]
               of == {i \in Originals(rs) : About(rs[i], c)}
    <3>1. reportCase[c].status = "HIDDEN" => of # {} /\ message[reportCase[c].message].hidden
      BY <2>1 DEF CasesOK
    <3>2. reportCase[c].status = "RESTORED" => of \cap Standing(rs) = {}
      BY <2>1 DEF CasesOK
    <3>3. reportCase[c].status = "PENDING" => of = {}
      <4>1. ASSUME reportCase[c].status = "PENDING" PROVE Named(c) \in Members
        <5>1. reportCase[c].message \in Messages
          BY <2>1, <4>1 DEF CasesOK
        <5> QED
          BY <5>1, ModerationAssumptions DEF Named
      <4> QED
        BY <2>1, <4>1 DEF CasesOK, Originals
    <3> QED
      BY <3>1, <3>2, <3>3 DEF About, Named
  <2> QED
    BY <2>2, <2>3 DEF DecisionMatchesRecord
<1> QED
  BY <1>1, CommunityHolds, PTL

-----------------------------------------------------------------------------
(* Files of Members: NoFileIsLost, for any number of objects and requests *)

Uploading(r) == request[r].pc \in {"UPLOADING", "PERSISTING"}

\* The objects a handler still has in its hands.
Holds(r) == request[r].planned \union request[r].uploaded

\* Objects of the flow's key prefix.
Of(f) == {o \in Objects : prefix[o] = f}

\* What a request knows of its objects is true: an upload has written what it
\* says it has, and nobody has recorded them yet.
RequestOK(r) ==
    /\ request[r].flow = "NONE" => request[r] = NoRequest
    /\ Holds(r) \subseteq Of(request[r].flow)
    /\ request[r].planned \intersect (request[r].uploaded \union stored) = {}
    /\ Uploading(r) => /\ request[r].uploaded \subseteq stored
                       /\ \A o \in Holds(r) : file[o] = "NONE"

\* No object is in the hands of two requests, or in use before it has a prefix.
StoreInv ==
    /\ stored \subseteq Objects
    /\ file \in [Objects -> FileRows]
    /\ prefix \in [Objects -> Flows \union {"NONE"}]
    /\ request \in [Requests -> RequestStates]
    /\ \A o \in Objects : prefix[o] = "NONE" => o \notin stored /\ file[o] = "NONE"
    /\ \A r \in Requests : RequestOK(r)
    /\ \A r, s \in Requests : r # s => Holds(r) \intersect Holds(s) = {}

\* The file rows of Proof uploads that a later request may name, their objects
\* included; the rows of refused requests have none.
ProofRows == {o \in Of("PROOF") : file[o] = "LIVE"} \ refusedFile

\* The rows of a flow refer to these objects ...
Referred(f) ==
    CASE f = "IMAGE" -> Range(questImage)
      [] f = "PROOF" -> ProofRows
      [] f = "AVATAR" -> {avatar} \ {NoObject}
      [] f = "CERTIFICATE" -> {certificate.image} \ {NoObject}
      [] f = "PORTFOLIO" -> Range(portfolio.images)
      [] f = "CHAT" -> {o \in Objects : attachment[o] \in {"VALIDATED", "CONSUMED"}}
      [] f = "TEAM" -> teamFile

\* ... which are all stored but for a removal that is under way or failed.
Excused(f) == IF f = "IMAGE" THEN {removing} \union removalFailed ELSE {}

\* A command the sweep works on, and its objects.
Abandoned(k) ==
    command[k].status = "PROCESSING" /\ (command[k].payload = "CLEANUP" \/ command[k].expired)

\* What a sweep of the flow may delete.
Doomed(f) ==
    CASE f = "IMAGE" -> {o \in Objects : \/ prefix[o] = "IMAGE" /\ file[o] = "DELETED"
                                         \/ \E k \in Keys : Abandoned(k) /\ o \in command[k].objects}
      [] f = "PROOF" -> UNION proofCleanup
      [] f = "CHAT" -> {o \in Objects : attachment[o] = "EXPIRED"}
      [] OTHER -> {}

\* Nobody deletes what the flow refers to: no sweep, and no request.
FlowInv(f) ==
    /\ Referred(f) \union Doomed(f) \subseteq Of(f)
    /\ Referred(f) \ Excused(f) \subseteq stored
    /\ Doomed(f) \intersect Referred(f) = {}
    /\ \A r \in Requests : request[r].flow = f =>
          /\ Holds(r) \intersect Referred(f) = {}
          /\ Uploading(r) => Holds(r) \intersect Doomed(f) = {}

\* An image upload and the command of its key.
UploadOK(r) ==
    LET c == command[usedKey[r]] IN
    /\ Holds(r) \subseteq c.objects
    /\ c.objects \intersect stored \subseteq request[r].uploaded
    /\ \/ c.status = "PROCESSING" /\ c.payload = "UPLOAD" /\ ~c.expired
       \/ c.status = "COMPLETED" /\ c.payload \in {"NOT_DRAFT", "LIMIT_REACHED"} /\ ~Uploading(r)
    /\ request[r].pc \in {"DISCARDING", "RECORDING"} => \A o \in Holds(r) : file[o] = "NONE"
    /\ request[r].pc = "RELEASING" => \A o \in request[r].uploaded : file[o] = "DELETED" \/ o \notin stored

CommandOK(k) ==
    /\ command[k].objects \subseteq Of("IMAGE")
    /\ command[k].status = "NONE" => command[k] = NoCommand
    /\ command[k].status = "PROCESSING" => \A o \in command[k].objects : file[o] # "LIVE"

ImageInv ==
    /\ questImage \in Seq(Objects) /\ IsInjective(questImage)
    /\ command \in [Keys -> CommandRows]
    /\ usedKey \in [Requests -> Keys]
    /\ \A o \in Range(questImage) : file[o] = "LIVE"
    /\ removing # NoObject => removing \in Range(questImage)
    /\ \A k \in Keys : CommandOK(k)
    /\ \A j, k \in Keys : j # k => command[j].objects \intersect command[k].objects = {}
    /\ \A r \in Requests : request[r].flow = "IMAGE" => UploadOK(r)
    /\ \A r, s \in Requests :
          request[r].flow = "IMAGE" /\ request[s].flow = "IMAGE" /\ r # s => usedKey[r] # usedKey[s]
    /\ \A o \in Of("IMAGE") : file[o] = "CLEANED" => o \notin stored
    /\ LostOnlyAfterRejection

OtherRows ==
    /\ portfolio \in [exists: BOOLEAN, images: Seq(Objects)]
    /\ IsInjective(portfolio.images)
    /\ certificate \in [exists: BOOLEAN, image: Objects \union {NoObject}]
    /\ attachment \in [Objects -> {"NONE", "VALIDATED", "CONSUMED", "EXPIRED"}]

\* What a Proof shows has a row, and what was uploaded for it keeps its row.
DraftRows ==
    \A o \in proofFile :
        /\ o \in Objects /\ prefix[o] # "NONE"
        /\ prefix[o] = "PROOF" => file[o] = "LIVE"

FilesInv ==
    /\ StoreInv
    /\ \A f \in Flows : FlowInv(f)
    /\ ImageInv
    /\ OtherRows
    /\ DraftRows

\* A step of flow f touches its own objects, and objects no flow has yet.
OnlyFlow(f) ==
    /\ \A o \in Objects : prefix'[o] = prefix[o] \/ (prefix[o] = "NONE" /\ prefix'[o] = f)
    /\ \A o \in Objects : prefix'[o] # f => (o \in stored' <=> o \in stored) /\ file'[o] = file[o]
    /\ \A r \in Requests :
          \/ request'[r] = request[r]
          \/ request[r].flow \in {f, "NONE"} /\ request'[r].flow \in {f, "NONE"}

Sound(f) == StoreInv' /\ FlowInv(f)' /\ OnlyFlow(f)

SameRows(f) ==
    Referred(f)' = Referred(f) /\ Excused(f)' = Excused(f) /\ Doomed(f)' = Doomed(f)

\* The types of what a request holds.
LEMMA RequestFacts ==
    ASSUME StoreInv, NEW r \in Requests
    PROVE  /\ request[r] \in RequestStates
           /\ request[r].planned \subseteq Objects /\ request[r].uploaded \subseteq Objects
           /\ Holds(r) \subseteq Of(request[r].flow) /\ Holds(r) \subseteq Objects
           /\ request[r].flow = "NONE" => Holds(r) = {} /\ ~Uploading(r) /\ request[r] = NoRequest
<1>1. request[r] \in RequestStates /\ RequestOK(r)
  BY DEF StoreInv
<1>2. request[r].planned \subseteq Objects /\ request[r].uploaded \subseteq Objects
  BY <1>1 DEF RequestStates
<1>3. request[r].flow = "NONE" => request[r] = NoRequest
  BY <1>1 DEF RequestOK
<1> QED
  BY <1>1, <1>2, <1>3 DEF RequestOK, Holds, NoRequest, Uploading, Of

\* Only flow f does something: another flow keeps its promise.
LEMMA OtherFlow ==
    ASSUME StoreInv, StoreInv', NEW f \in Flows, NEW g \in Flows, f # g,
           OnlyFlow(f), FlowInv(g), SameRows(g)
    PROVE  FlowInv(g)'
<1>1. f # "NONE" /\ g # "NONE"
  BY DEF Flows
<1>2. Of(g)' = Of(g)
  BY <1>1 DEF OnlyFlow, Of
<1>3. \A o \in Of(g) : (o \in stored' <=> o \in stored)
  BY <1>1, <1>2 DEF OnlyFlow, Of
<1>4. (Referred(g) \union Doomed(g) \subseteq Of(g))'
  BY <1>2 DEF FlowInv, SameRows
<1>5. (Referred(g) \ Excused(g) \subseteq stored)'
  BY <1>2, <1>3 DEF FlowInv, SameRows
<1>6. (Doomed(g) \intersect Referred(g) = {})'
  BY DEF FlowInv, SameRows
<1>7. ASSUME NEW r \in Requests, request'[r].flow = g
      PROVE  request'[r] = request[r]
  BY <1>1, <1>7 DEF OnlyFlow
<1>8. ASSUME NEW r \in Requests, request'[r].flow = g
      PROVE  /\ (Holds(r) \intersect Referred(g) = {})'
             /\ Uploading(r)' => (Holds(r) \intersect Doomed(g) = {})'
  BY <1>7, <1>8 DEF FlowInv, SameRows, Holds, Uploading
<1> QED
  BY <1>4, <1>5, <1>6, <1>8 DEF FlowInv

\* A request of flow f takes up new objects.
LEMMA Started ==
    ASSUME StoreInv, NEW f \in Flows, FlowInv(f), SameRows(f), NEW r \in Requests, NEW n,
           StartUpload(r, f, n), stored' = stored, file' = file
    PROVE  Sound(f)
<1>1. PICK new \in SUBSET {o \in Objects : prefix[o] = "NONE"} :
          /\ prefix' = [o \in Objects |-> IF o \in new THEN f ELSE prefix[o]]
          /\ request' = [request EXCEPT ![r] =
                [flow |-> f, pc |-> "UPLOADING", planned |-> new, uploaded |-> {}]]
  BY DEF StartUpload
<1> DEFINE q == [flow |-> f, pc |-> "UPLOADING", planned |-> new, uploaded |-> {}]
<1>2. q \in RequestStates /\ q.planned = new /\ q.uploaded = {} /\ q.flow = f /\ f # "NONE"
  BY <1>1 DEF RequestStates, Flows
<1>3. request \in [Requests -> RequestStates] /\ request' = [request EXCEPT ![r] = q]
  BY <1>1 DEF StoreInv
<1> HIDE DEF q
<1>4. /\ request' \in [Requests -> RequestStates] /\ request'[r] = q
      /\ \A s \in Requests \ {r} : request'[s] = request[s]
  BY <1>2, <1>3
<1>5. prefix' \in [Objects -> Flows \union {"NONE"}]
  BY <1>1 DEF StoreInv
<1>6. /\ \A o \in new : prefix[o] = "NONE" /\ prefix'[o] = f /\ o \notin stored /\ file[o] = "NONE"
      /\ \A o \in Objects \ new : prefix'[o] = prefix[o]
  BY <1>1 DEF StoreInv
<1>7. Holds(r)' = new /\ \A s \in Requests \ {r} : Holds(s)' = Holds(s) /\ (Uploading(s)' <=> Uploading(s))
  BY <1>2, <1>4 DEF Holds, Uploading
<1>8. \A s \in Requests \ {r} : RequestOK(s)'
  <2> SUFFICES ASSUME NEW s \in Requests \ {r} PROVE RequestOK(s)'
    OBVIOUS
  <2>1. RequestOK(s) /\ request'[s] = request[s] /\ Holds(s)' = Holds(s)
    BY <1>4, <1>7 DEF StoreInv
  <2>2. (Holds(s) \subseteq Of(request[s].flow))'
    <3>1. Holds(s) \subseteq Of(request[s].flow) /\ Holds(s) \subseteq Objects
          /\ (request[s].flow = "NONE" => Holds(s) = {})
      BY RequestFacts
    <3> QED
      BY <2>1, <3>1, <1>6 DEF Of
  <2> QED
    BY <2>1, <2>2, <1>7 DEF RequestOK
<1>9. RequestOK(r)'
  BY <1>2, <1>4, <1>6, <1>7, <1>1 DEF RequestOK, Of
<1>10. \A s \in Requests \ {r} : Holds(s) \intersect new = {}
  <2> SUFFICES ASSUME NEW s \in Requests \ {r} PROVE Holds(s) \intersect new = {}
    OBVIOUS
  <2>1. Holds(s) \subseteq Of(request[s].flow) /\ (request[s].flow = "NONE" => Holds(s) = {})
    BY RequestFacts
  <2> QED
    BY <2>1, <1>6 DEF Of
<1>11. \A s, t \in Requests : s # t => Holds(s)' \intersect Holds(t)' = {}
  BY <1>7, <1>10 DEF StoreInv
<1>12. StoreInv'
  BY <1>4, <1>5, <1>6, <1>8, <1>9, <1>11, <1>2 DEF StoreInv
<1>13. OnlyFlow(f)
  <2>1. request[r].flow = "NONE" /\ request'[r].flow = f
    BY <1>2, <1>4 DEF StartUpload, NoRequest
  <2>2. \A o \in Objects : prefix'[o] = prefix[o] \/ (prefix[o] = "NONE" /\ prefix'[o] = f)
    BY <1>6
  <2> QED
    BY <2>1, <2>2, <1>4 DEF OnlyFlow
<1>14. Of(f) \subseteq Of(f)' /\ \A o \in new : o \notin Of(f)
  BY <1>2, <1>6 DEF Of
<1>15. \A s \in Requests : request'[s].flow = f =>
          /\ Holds(s)' \intersect Referred(f)' = {}
          /\ Uploading(s)' => Holds(s)' \intersect Doomed(f)' = {}
  <2>1. Referred(f) \union Doomed(f) \subseteq Of(f)
    BY DEF FlowInv
  <2>2. Holds(r)' \intersect Referred(f)' = {} /\ Holds(r)' \intersect Doomed(f)' = {}
    BY <2>1, <1>7, <1>14 DEF SameRows
  <2> QED
    BY <2>2, <1>4, <1>7 DEF FlowInv, SameRows
<1>16. FlowInv(f)'
  BY <1>14, <1>15 DEF FlowInv, SameRows
<1> QED
  BY <1>12, <1>13, <1>16 DEF Sound

\* One object of an upload is written, or may be: the request goes on as q.
Wrote(f, r, q, o) ==
    /\ Uploading(r) /\ request[r].flow = f /\ o \in request[r].planned
    /\ request' = [request EXCEPT ![r] = q]
    /\ q \in RequestStates /\ q.flow = f /\ q.planned = request[r].planned \ {o}
    /\ \E left \in {{}, {o}} :
          stored' = stored \union left /\ q.uploaded \in {request[r].uploaded, request[r].uploaded \union left}
    /\ prefix' = prefix /\ file' = file

\* Writing an object of its own disturbs no other request and no row.
LEMMA Written ==
    ASSUME StoreInv, NEW f \in Flows, FlowInv(f), SameRows(f), NEW r \in Requests, NEW q, NEW o,
           Wrote(f, r, q, o)
    PROVE  Sound(f)
<1>1. /\ request' \in [Requests -> RequestStates] /\ request'[r] = q
      /\ \A s \in Requests \ {r} : request'[s] = request[s]
  BY DEF Wrote, StoreInv
<1>2. PICK left \in {{}, {o}} :
          stored' = stored \union left /\ q.uploaded \in {request[r].uploaded, request[r].uploaded \union left}
  BY DEF Wrote
<1>3. /\ o \in request[r].planned /\ request[r].flow = f /\ q.flow = f /\ f # "NONE"
      /\ q.planned = request[r].planned \ {o} /\ Uploading(r) /\ prefix' = prefix /\ file' = file
  BY DEF Wrote, Flows
<1>4. /\ request[r].planned \subseteq Objects /\ request[r].uploaded \subseteq Objects
      /\ Holds(r) \subseteq Of(f) /\ RequestOK(r)
  BY <1>3, RequestFacts DEF StoreInv
<1>5. Holds(r)' \subseteq Holds(r) /\ o \in Holds(r) /\ o \in Objects /\ prefix[o] = f
  BY <1>1, <1>2, <1>3, <1>4 DEF Holds, Of
<1>6. \A s \in Requests \ {r} : /\ Holds(s)' = Holds(s) /\ (Uploading(s)' <=> Uploading(s))
                               /\ o \notin Holds(s)
  BY <1>1, <1>5 DEF Holds, Uploading, StoreInv
<1>7. \A g : Of(g)' = Of(g)
  BY <1>3 DEF Of
<1>8. RequestOK(r)'
  <2>1. (Holds(r) \subseteq Of(request[r].flow))'
    BY <1>1, <1>3, <1>4, <1>5, <1>7
  <2>2. (request[r].planned \intersect (request[r].uploaded \union stored) = {})'
    BY <1>1, <1>2, <1>3, <1>4 DEF RequestOK
  <2>3. (request[r].uploaded \subseteq stored)' /\ (\A p \in Holds(r) : file[p] = "NONE")'
    BY <1>1, <1>2, <1>3, <1>4, <1>5 DEF RequestOK
  <2> QED
    BY <2>1, <2>2, <2>3, <1>1, <1>3 DEF RequestOK
<1>9. ASSUME NEW s \in Requests \ {r} PROVE RequestOK(s)'
  <2>1. RequestOK(s) /\ request'[s] = request[s] /\ o \notin request[s].planned
    BY <1>1, <1>6 DEF StoreInv, Holds
  <2> QED
    BY <2>1, <1>2, <1>3, <1>6, <1>7 DEF RequestOK
<1>10. \A s, t \in Requests : s # t => Holds(s)' \intersect Holds(t)' = {}
  BY <1>5, <1>6 DEF StoreInv
<1>11. StoreInv'
  BY <1>1, <1>2, <1>3, <1>5, <1>8, <1>9, <1>10 DEF StoreInv
<1>12. OnlyFlow(f)
  BY <1>1, <1>2, <1>3, <1>5 DEF OnlyFlow
<1>13. \A s \in Requests : request'[s].flow = f =>
          /\ Holds(s)' \intersect Referred(f)' = {}
          /\ Uploading(s)' => Holds(s)' \intersect Doomed(f)' = {}
  <2>1. Holds(r)' \intersect Referred(f)' = {} /\ Holds(r)' \intersect Doomed(f)' = {}
    BY <1>3, <1>5 DEF FlowInv, SameRows
  <2> QED
    BY <2>1, <1>1, <1>6 DEF FlowInv, SameRows
<1>14. FlowInv(f)'
  BY <1>2, <1>7, <1>13 DEF FlowInv, SameRows
<1> QED
  BY <1>11, <1>12, <1>14 DEF Sound

\* The two ways to write an object.
LEMMA PutWrote ==
    ASSUME StoreInv, NEW f \in Flows, FlowInv(f), SameRows(f), NEW r \in Requests, NEW o \in Objects,
           request[r].flow = f, request[r].pc = "UPLOADING", PutObject(r, o)
    PROVE  Sound(f) /\ request'[r].flow = f
<1> DEFINE q == [flow |-> request[r].flow,
                 pc |-> IF request[r].planned = {o} THEN "PERSISTING" ELSE "UPLOADING",
                 planned |-> request[r].planned \ {o}, uploaded |-> request[r].uploaded \union {o}]
<1>1. request[r] \in RequestStates /\ request \in [Requests -> RequestStates]
  BY DEF StoreInv
<1>2. request' = [request EXCEPT ![r] = q]
  BY DEF PutObject, GoesOn
<1>3. q \in RequestStates /\ q.flow = f /\ q.planned = request[r].planned \ {o}
      /\ q.uploaded = request[r].uploaded \union {o}
  BY <1>1 DEF RequestStates
<1> HIDE DEF q
<1>4. Wrote(f, r, q, o)
  BY <1>1, <1>2, <1>3 DEF Wrote, Uploading, PutObject
<1> QED
  BY <1>1, <1>2, <1>3, <1>4, Written

LEMMA PutFailsWrote ==
    ASSUME StoreInv, NEW f \in Flows, FlowInv(f), SameRows(f), NEW r \in Requests, NEW o \in Objects,
           request[r].flow = f, request[r].pc = "UPLOADING",
           NEW next \in {"UPLOADING", "PERSISTING", "DISCARDING"}, NEW keeps \in BOOLEAN,
           PutFails(r, o, next, keeps)
    PROVE  Sound(f) /\ request'[r].flow = f
<1>1. PICK left \in {{}, {o}} :
          /\ stored' = stored \union left
          /\ GoesOn(r, next, request[r].planned \ {o},
                    request[r].uploaded \union (IF keeps THEN left ELSE {}))
  BY DEF PutFails
<1> DEFINE q == [flow |-> request[r].flow, pc |-> next, planned |-> request[r].planned \ {o},
                 uploaded |-> request[r].uploaded \union (IF keeps THEN left ELSE {})]
<1>2. request[r] \in RequestStates /\ request \in [Requests -> RequestStates]
  BY DEF StoreInv
<1>3. request' = [request EXCEPT ![r] = q]
  BY <1>1 DEF GoesOn
<1>4. q \in RequestStates /\ q.flow = f /\ q.planned = request[r].planned \ {o}
      /\ q.uploaded \in {request[r].uploaded, request[r].uploaded \union left}
  BY <1>2 DEF RequestStates
<1> HIDE DEF q
<1>5. Wrote(f, r, q, o)
  BY <1>1, <1>2, <1>3, <1>4 DEF Wrote, Uploading, PutFails
<1> QED
  BY <1>2, <1>3, <1>4, <1>5, Written

\* What a step of request r may touch.
Mine(f, r) == Holds(r) \union Referred(f) \union Doomed(f)

\* Request r takes a step that writes nothing new, and goes on as q.
Moves(f, r, q) ==
    /\ request' = [request EXCEPT ![r] = q]
    /\ request[r].flow \in {f, "NONE"}
    /\ q \in RequestStates /\ q.flow \in {f, "NONE"} /\ (q.flow = "NONE" => q = NoRequest)
    /\ q.pc \notin {"UPLOADING", "PERSISTING"}
    /\ q.planned \subseteq request[r].planned
    /\ q.planned \intersect q.uploaded = {}
    /\ q.planned \union q.uploaded \subseteq Holds(r) \union Referred(f)
    /\ prefix' = prefix /\ stored' \subseteq stored /\ file' \in [Objects -> FileRows]
    /\ \A o \in Objects \ Mine(f, r) : (o \in stored => o \in stored') /\ file'[o] = file[o]
    /\ Referred(f)' \subseteq Referred(f) \union Holds(r)
    /\ Doomed(f)' \subseteq Mine(f, r)
    /\ Referred(f)' \ Excused(f)' \subseteq stored'
    /\ Referred(f)' \intersect (Doomed(f)' \union q.planned \union q.uploaded) = {}

\* Such a step concerns no other request.
LEMMA Moved ==
    ASSUME StoreInv, NEW f \in Flows, FlowInv(f), NEW r \in Requests, NEW q, Moves(f, r, q)
    PROVE  Sound(f)
<1>1. /\ request' \in [Requests -> RequestStates] /\ request'[r] = q
      /\ \A s \in Requests \ {r} : request'[s] = request[s]
  BY DEF Moves, StoreInv
<1>2. f # "NONE" /\ \A g : Of(g)' = Of(g)
  BY DEF Moves, Flows, Of
<1>3. Holds(r) \subseteq Of(f) /\ Mine(f, r) \subseteq Of(f)
  <2>1. Holds(r) \subseteq Of(request[r].flow) /\ (request[r].flow = "NONE" => Holds(r) = {})
    BY RequestFacts
  <2> QED
    BY <2>1 DEF Moves, Mine, FlowInv
<1>4. Holds(r)' \subseteq Holds(r) \union Referred(f) /\ ~Uploading(r)'
  BY <1>1 DEF Holds, Uploading, Moves
<1>5. ASSUME NEW s \in Requests \ {r}
      PROVE  /\ Holds(s)' = Holds(s) /\ (Uploading(s)' <=> Uploading(s))
             /\ Holds(s) \subseteq Of(request[s].flow)
             /\ Holds(s) \intersect (Holds(r) \union Referred(f)) = {}
             /\ Uploading(s) => Holds(s) \intersect Mine(f, r) = {}
  <2>1. Holds(s)' = Holds(s) /\ (Uploading(s)' <=> Uploading(s))
    BY <1>1 DEF Holds, Uploading
  <2>2. Holds(s) \subseteq Of(request[s].flow) /\ Holds(s) \intersect Holds(r) = {}
    BY RequestFacts DEF StoreInv
  <2>3. CASE request[s].flow = f
    BY <2>1, <2>2, <2>3 DEF FlowInv, Mine
  <2>4. CASE request[s].flow # f
    <3>1. Of(request[s].flow) \intersect Of(f) = {}
      BY <2>4 DEF Of
    <3> QED
      BY <2>1, <2>2, <3>1, <1>3 DEF Mine
  <2> QED
    BY <2>3, <2>4
<1>6. RequestOK(r)'
  <2>1. (request[r].flow = "NONE" => request[r] = NoRequest)'
    BY <1>1 DEF Moves, NoRequest
  <2>2. (Holds(r) \subseteq Of(request[r].flow))'
    <3>1. CASE q.flow = f
      BY <3>1, <1>1, <1>2, <1>3, <1>4 DEF Mine
    <3>2. CASE q = NoRequest
      BY <3>2, <1>1 DEF Holds, NoRequest
    <3> QED
      BY <3>1, <3>2 DEF Moves
  <2>3. (request[r].planned \intersect (request[r].uploaded \union stored) = {})'
    <3>1. request[r].planned \intersect stored = {}
      BY DEF StoreInv, RequestOK
    <3> QED
      BY <3>1, <1>1 DEF Moves
  <2> QED
    BY <2>1, <2>2, <2>3, <1>4 DEF RequestOK
<1>7. ASSUME NEW s \in Requests \ {r} PROVE RequestOK(s)'
  <2>1. RequestOK(s) /\ request'[s] = request[s] /\ stored' \subseteq stored /\ Holds(s) \subseteq Objects
    BY <1>1, RequestFacts DEF StoreInv, Moves
  <2>2. Uploading(s) => \A o \in Holds(s) : (o \in stored => o \in stored') /\ file'[o] = file[o]
    BY <1>5, <2>1 DEF Moves
  <2>3. (Holds(s) \subseteq Of(request[s].flow))'
    BY <1>2, <1>5, <2>1
  <2>4. (Uploading(s) => request[s].uploaded \subseteq stored /\ \A o \in Holds(s) : file[o] = "NONE")'
    BY <1>5, <2>1, <2>2 DEF RequestOK, Holds
  <2> QED
    BY <2>1, <2>3, <2>4 DEF RequestOK
<1>8. \A s, t \in Requests : s # t => Holds(s)' \intersect Holds(t)' = {}
  BY <1>4, <1>5 DEF StoreInv
<1>9. StoreInv'
  <2>1. \A o \in Objects : prefix[o] = "NONE" => o \notin Mine(f, r)
    BY <1>2, <1>3 DEF Of
  <2>2. stored' \subseteq stored /\ prefix' = prefix /\ file' \in [Objects -> FileRows]
    BY DEF Moves
  <2>3. \A o \in Objects : prefix'[o] = "NONE" => o \notin stored' /\ file'[o] = "NONE"
    BY <2>1, <2>2 DEF StoreInv, Moves
  <2> QED
    BY <2>2, <2>3, <1>1, <1>6, <1>7, <1>8 DEF StoreInv
<1>10. OnlyFlow(f)
  <2>1. \A o \in Objects : prefix[o] # f => o \notin Mine(f, r)
    BY <1>3 DEF Of
  <2> QED
    BY <2>1, <1>1 DEF OnlyFlow, Moves
<1>11. \A s \in Requests : request'[s].flow = f =>
          /\ Holds(s)' \intersect Referred(f)' = {}
          /\ Uploading(s)' => Holds(s)' \intersect Doomed(f)' = {}
  <2>1. Holds(r)' \intersect Referred(f)' = {}
    BY <1>1 DEF Moves, Holds
  <2>2. ASSUME NEW s \in Requests \ {r}
        PROVE  /\ Holds(s)' \intersect Referred(f)' = {}
               /\ Uploading(s)' => Holds(s)' \intersect Doomed(f)' = {}
    BY <1>5 DEF Moves
  <2> QED
    BY <2>1, <2>2, <1>4
<1>12. FlowInv(f)'
  <2>1. (Referred(f) \union Doomed(f) \subseteq Of(f))'
    BY <1>2, <1>3 DEF Moves, Mine
  <2> QED
    BY <2>1, <1>11 DEF FlowInv, Moves
<1> QED
  BY <1>9, <1>10, <1>12 DEF Sound

\* A step of no request: a sweep, a removal, a statement about the rows.
Sweeps(f) ==
    /\ request' = request /\ prefix' = prefix /\ stored' \subseteq stored
    /\ file' \in [Objects -> FileRows]
    /\ \A o \in Objects \ (Referred(f) \union Doomed(f)) :
          (o \in stored => o \in stored') /\ file'[o] = file[o]
    /\ Referred(f)' \subseteq Referred(f)
    /\ Doomed(f)' \subseteq Of(f)
    /\ Referred(f)' \ Excused(f)' \subseteq stored'
    /\ Referred(f)' \intersect Doomed(f)' = {}
    /\ \A r \in Requests : request[r].flow = f /\ Uploading(r) => Holds(r) \intersect Doomed(f)' = {}

\* It concerns no upload either.
LEMMA Swept ==
    ASSUME StoreInv, NEW f \in Flows, FlowInv(f), Sweeps(f)
    PROVE  Sound(f)
<1>1. request' = request /\ \A s : Holds(s)' = Holds(s) /\ (Uploading(s)' <=> Uploading(s))
  BY DEF Sweeps, Holds, Uploading
<1>2. f # "NONE" /\ \A g : Of(g)' = Of(g)
  BY DEF Sweeps, Flows, Of
<1>3. Referred(f) \union Doomed(f) \subseteq Of(f)
  BY DEF FlowInv
<1>4. ASSUME NEW s \in Requests
      PROVE  Uploading(s) => Holds(s) \intersect (Referred(f) \union Doomed(f)) = {}
  <2>1. Holds(s) \subseteq Of(request[s].flow)
    BY RequestFacts
  <2>2. CASE request[s].flow = f
    BY <2>2 DEF FlowInv
  <2>3. CASE request[s].flow # f
    BY <2>1, <2>3, <1>3 DEF Of
  <2> QED
    BY <2>2, <2>3
<1>5. ASSUME NEW s \in Requests PROVE RequestOK(s)'
  <2>1. RequestOK(s) /\ stored' \subseteq stored /\ Holds(s) \subseteq Objects
    BY RequestFacts DEF StoreInv, Sweeps
  <2>2. Uploading(s) => \A o \in Holds(s) : (o \in stored => o \in stored') /\ file'[o] = file[o]
    BY <1>4, <2>1 DEF Sweeps
  <2>3. (Uploading(s) => request[s].uploaded \subseteq stored /\ \A o \in Holds(s) : file[o] = "NONE")'
    BY <1>1, <2>1, <2>2 DEF RequestOK, Holds
  <2> QED
    BY <1>1, <1>2, <2>1, <2>3 DEF RequestOK
<1>6. StoreInv'
  <2>1. \A o \in Objects : prefix[o] = "NONE" => o \notin Referred(f) \union Doomed(f)
    BY <1>2, <1>3 DEF Of
  <2>2. \A o \in Objects : prefix'[o] = "NONE" => o \notin stored' /\ file'[o] = "NONE"
    BY <2>1 DEF StoreInv, Sweeps
  <2> QED
    BY <1>1, <1>5, <2>2 DEF StoreInv, Sweeps
<1>7. OnlyFlow(f)
  <2>1. \A o \in Objects : prefix[o] # f => o \notin Referred(f) \union Doomed(f)
    BY <1>3 DEF Of
  <2> QED
    BY <2>1, <1>1 DEF OnlyFlow, Sweeps
<1>8. FlowInv(f)'
  <2>1. (Referred(f) \union Doomed(f) \subseteq Of(f))'
    BY <1>2, <1>3 DEF Sweeps
  <2>2. \A s \in Requests : request'[s].flow = f =>
          /\ Holds(s)' \intersect Referred(f)' = {}
          /\ Uploading(s)' => Holds(s)' \intersect Doomed(f)' = {}
    BY <1>1 DEF FlowInv, Sweeps
  <2> QED
    BY <2>1, <2>2 DEF FlowInv, Sweeps
<1> QED
  BY <1>6, <1>7, <1>8 DEF Sound

\* The rows of the other flows stay as they are.
Others(f) ==
    /\ f # "IMAGE" => UNCHANGED imageVars
    /\ f # "PROOF" => UNCHANGED <<proofFile, proofCleanup, refusedFile>>
    /\ f # "AVATAR" => UNCHANGED avatar
    /\ f # "CERTIFICATE" => UNCHANGED certificate
    /\ f # "PORTFOLIO" => UNCHANGED portfolio
    /\ f # "CHAT" => UNCHANGED attachment
    /\ f # "TEAM" => UNCHANGED teamFile

\* The images of a Quest, while another flow does something.
LEMMA ImagesKept ==
    ASSUME FilesInv, StoreInv', NEW f \in Flows, f # "IMAGE", OnlyFlow(f), UNCHANGED imageVars
    PROVE  ImageInv' /\ SameRows("IMAGE")
<1>1. /\ questImage' = questImage /\ command' = command /\ usedKey' = usedKey
      /\ removing' = removing /\ removalFailed' = removalFailed
  BY DEF imageVars
<1>2. ImageInv /\ FlowInv("IMAGE") /\ StoreInv
  BY DEF FilesInv, Flows
<1>3. f # "NONE" /\ Of("IMAGE")' = Of("IMAGE")
  BY DEF OnlyFlow, Of, Flows
<1>4. \A o \in Of("IMAGE") : o \in Objects /\ prefix[o] = "IMAGE" /\ (o \in stored' <=> o \in stored) /\ file'[o] = file[o]
  BY <1>3 DEF OnlyFlow, Of
<1>5. Range(questImage) \subseteq Of("IMAGE")
  BY <1>2 DEF FlowInv, Referred
<1>6. \A k \in Keys : command[k].objects \subseteq Of("IMAGE")
  BY <1>2 DEF ImageInv, CommandOK
<1>7. ASSUME NEW r \in Requests, request'[r].flow = "IMAGE" \/ request[r].flow = "IMAGE"
      PROVE  request'[r] = request[r] /\ Holds(r)' = Holds(r) /\ (Uploading(r)' <=> Uploading(r))
  BY <1>7 DEF OnlyFlow, Holds, Uploading
<1>8. \A k \in Keys : CommandOK(k)'
  BY <1>1, <1>2, <1>3, <1>4, <1>6 DEF ImageInv, CommandOK
<1>9. ASSUME NEW r \in Requests, request'[r].flow = "IMAGE" PROVE UploadOK(r)'
  <2>1. request[r].flow = "IMAGE" /\ UploadOK(r) /\ usedKey[r] \in Keys
    BY <1>2, <1>7, <1>9 DEF ImageInv
  <2>2. Holds(r) \subseteq Of("IMAGE") /\ request[r].uploaded \subseteq Of("IMAGE")
    BY <1>2, <2>1, RequestFacts DEF Holds
  <2>3. command[usedKey[r]].objects \intersect stored' \subseteq request[r].uploaded
    BY <1>4, <1>6, <2>1 DEF UploadOK
  <2>4. request'[r] = request[r] /\ Holds(r)' = Holds(r) /\ (Uploading(r)' <=> Uploading(r))
    BY <1>7, <1>9
  <2> QED
    BY <1>1, <1>4, <2>1, <2>2, <2>3, <2>4 DEF UploadOK
<1>10. LostOnlyAfterRejection'
  <2> SUFFICES ASSUME NEW o \in stored', prefix'[o] = "IMAGE"
               PROVE  \/ InHand(o)'
                      \/ \E k \in Keys : /\ command[k].payload \in {"NOT_DRAFT", "LIMIT_REACHED"}
                                         /\ o \in command[k].objects
    BY <1>1 DEF LostOnlyAfterRejection
  <2>1. o \in Objects /\ o \in Of("IMAGE") /\ o \in stored /\ prefix[o] = "IMAGE"
    <3>1. o \in Objects
      BY DEF StoreInv
    <3> QED
      BY <3>1, <1>3, <1>4 DEF Of
  <2>2. CASE InHand(o)
    <3>1. ASSUME NEW r \in Requests, o \in request[r].uploaded
          PROVE  o \in request'[r].uploaded
      <4>1. request[r].flow = "IMAGE"
        BY <1>2, <2>1, <3>1, RequestFacts DEF Holds, Of
      <4> QED
        BY <1>7, <3>1, <4>1
    <3> QED
      BY <1>1, <1>4, <2>1, <2>2, <3>1 DEF InHand
  <2>3. CASE ~InHand(o)
    BY <1>2, <2>1, <2>3 DEF ImageInv, LostOnlyAfterRejection
  <2> QED
    BY <2>2, <2>3
<1>11. ImageInv'
  <2>1. \A r, s \in Requests :
          request'[r].flow = "IMAGE" /\ request'[s].flow = "IMAGE" /\ r # s => usedKey'[r] # usedKey'[s]
    BY <1>1, <1>2, <1>7 DEF ImageInv
  <2>2. \A o \in Range(questImage') : file'[o] = "LIVE"
    BY <1>1, <1>2, <1>4, <1>5 DEF ImageInv
  <2>3. \A o \in Of("IMAGE")' : file'[o] = "CLEANED" => o \notin stored'
    BY <1>2, <1>3, <1>4 DEF ImageInv
  <2> QED
    BY <1>1, <1>2, <1>8, <1>9, <1>10, <2>1, <2>2, <2>3 DEF ImageInv
<1>12. SameRows("IMAGE")
  <2>1. \A o \in Objects : (prefix'[o] = "IMAGE" /\ file'[o] = "DELETED") <=> (prefix[o] = "IMAGE" /\ file[o] = "DELETED")
    BY <1>3, <1>4 DEF Of
  <2>2. Doomed("IMAGE")' = Doomed("IMAGE")
    BY <1>1, <2>1 DEF Doomed, Abandoned
  <2> QED
    BY <1>1, <2>2 DEF SameRows, Referred, Excused
<1> QED
  BY <1>11, <1>12

\* A step of one flow that keeps what the flow promises keeps everything.
LEMMA StepKept ==
    ASSUME FilesInv, NEW f \in Flows, Sound(f), Others(f), OtherRows', f = "IMAGE" => ImageInv',
           f = "PROOF" => DraftRows'
    PROVE  FilesInv'
<1>1. StoreInv /\ StoreInv' /\ FlowInv(f)' /\ OnlyFlow(f) /\ \A g \in Flows : FlowInv(g)
  BY DEF FilesInv, Sound
<1>2. ImageInv'
  BY <1>1, ImagesKept DEF Others
<1>3. ASSUME NEW g \in Flows, g # f PROVE SameRows(g)
  <2>1. CASE g = "IMAGE"
    BY <1>1, <1>3, <2>1, ImagesKept DEF Others
  <2>2. CASE g = "PROOF"
    <3>1. ProofRows' = ProofRows
      BY <1>1, <1>3, <2>2 DEF ProofRows, Of, OnlyFlow, Others, Flows
    <3> QED
      BY <1>3, <2>2, <3>1 DEF Others, SameRows, Referred, Excused, Doomed
  <2>3. CASE g = "AVATAR"
    BY <1>3, <2>3 DEF Others, SameRows, Referred, Excused, Doomed
  <2>4. CASE g = "CERTIFICATE"
    BY <1>3, <2>4 DEF Others, SameRows, Referred, Excused, Doomed
  <2>5. CASE g = "PORTFOLIO"
    BY <1>3, <2>5 DEF Others, SameRows, Referred, Excused, Doomed
  <2>6. CASE g = "CHAT"
    BY <1>3, <2>6 DEF Others, SameRows, Referred, Excused, Doomed
  <2>7. CASE g = "TEAM"
    BY <1>3, <2>7 DEF Others, SameRows, Referred, Excused, Doomed
  <2> QED
    BY <2>1, <2>2, <2>3, <2>4, <2>5, <2>6, <2>7 DEF Flows
<1>4. ASSUME NEW g \in Flows PROVE FlowInv(g)'
  BY <1>1, <1>3, OtherFlow
<1>5. f # "PROOF" => DraftRows'
  BY <1>1 DEF FilesInv, DraftRows, OnlyFlow, Others
<1> QED
  BY <1>1, <1>2, <1>4, <1>5 DEF FilesInv

\* A request only goes on to its next state.
LEMMA Paused ==
    ASSUME StoreInv, NEW f \in Flows, FlowInv(f), SameRows(f), NEW r \in Requests, request[r].flow = f,
           NEW pc \in {"DISCARDING", "RECORDING", "RELEASING"}, GoTo(r, pc),
           stored' = stored, prefix' = prefix, file' = file
    PROVE  Sound(f) /\ request'[r].flow = f
<1> DEFINE q == [request[r] EXCEPT !.pc = pc]
<1>1. request[r] \in RequestStates /\ request \in [Requests -> RequestStates] /\ RequestOK(r)
  BY DEF StoreInv
<1>2. request' = [request EXCEPT ![r] = q]
  BY <1>1 DEF GoTo
<1>3. /\ q \in RequestStates /\ q.flow = f /\ q.pc = pc
      /\ q.planned = request[r].planned /\ q.uploaded = request[r].uploaded /\ f # "NONE"
  BY <1>1 DEF RequestStates, Flows
<1> HIDE DEF q
<1>4. Moves(f, r, q)
  <2>1. /\ request[r].planned \intersect request[r].uploaded = {}
        /\ Holds(r) \intersect Referred(f) = {}
    BY <1>1 DEF RequestOK, FlowInv
  <2>2. file' \in [Objects -> FileRows]
    BY DEF StoreInv
  <2> QED
    BY <1>2, <1>3, <2>1, <2>2 DEF Moves, SameRows, Holds, Mine, FlowInv
<1> QED
  BY <1>1, <1>2, <1>3, <1>4, Moved

\* A request ends, or dies; it may have deleted what it had in its hands.
LEMMA RequestEnded ==
    ASSUME StoreInv, NEW f \in Flows, FlowInv(f), SameRows(f), NEW r \in Requests, request[r].flow = f,
           Ends(r), prefix' = prefix, file' = file, stored' \subseteq stored, stored \ stored' \subseteq Holds(r)
    PROVE  Sound(f)
<1>1. file' \in [Objects -> FileRows] /\ Holds(r) \intersect Referred(f) = {}
  BY DEF StoreInv, FlowInv
<1>2. NoRequest \in RequestStates /\ NoRequest.flow = "NONE" /\ NoRequest.pc = "IDLE"
      /\ NoRequest.planned = {} /\ NoRequest.uploaded = {}
  BY DEF NoRequest, RequestStates
<1>3. Moves(f, r, NoRequest)
  BY <1>1, <1>2 DEF Moves, SameRows, Mine, FlowInv, Ends
<1> QED
  BY <1>3, Moved

\* What request r has in mind when its transaction has committed: nothing, or
\* the object its own has replaced.
CleansUp(f, q, previous) ==
    \/ q = NoRequest
    \/ q \in RequestStates /\ q.flow = f /\ q.pc \in {"CLEANING", "DISCARDING"}
       /\ q.planned = {} /\ q.uploaded \subseteq previous

\* The transaction of an upload refers to what was uploaded.
LEMMA Attached ==
    ASSUME StoreInv, NEW f \in Flows, FlowInv(f), NEW r \in Requests, request[r].flow = f, Uploading(r),
           NEW q, request' = [request EXCEPT ![r] = q], CleansUp(f, q, Referred(f) \ Referred(f)'),
           MarkFiles(request[r].uploaded, "LIVE"), stored' = stored, prefix' = prefix,
           Referred(f)' \subseteq Referred(f) \union request[r].uploaded,
           Doomed(f)' \subseteq Doomed(f), Excused(f)' = Excused(f)
    PROVE  Sound(f)
<1>1. RequestOK(r) /\ file \in [Objects -> FileRows]
  BY DEF StoreInv
<1>2. /\ file' \in [Objects -> FileRows]
      /\ \A o \in Objects \ request[r].uploaded : file'[o] = file[o]
  BY <1>1 DEF MarkFiles, FileRows
<1>3. /\ NoRequest \in RequestStates /\ NoRequest.flow = "NONE" /\ NoRequest.pc = "IDLE"
      /\ NoRequest.planned = {} /\ NoRequest.uploaded = {} /\ f # "NONE"
  BY DEF NoRequest, RequestStates, Flows
<1>4. /\ request[r].uploaded \subseteq stored /\ request[r].uploaded \subseteq Holds(r)
      /\ Holds(r) \intersect (Referred(f) \union Doomed(f)) = {}
  BY <1>1 DEF RequestOK, Holds, FlowInv
<1>5. Moves(f, r, q)
  <2>1. /\ q \in RequestStates /\ q.flow \in {f, "NONE"} /\ (q.flow = "NONE" => q = NoRequest)
        /\ q.pc \notin {"UPLOADING", "PERSISTING"} /\ q.planned = {}
        /\ q.uploaded \subseteq Referred(f) \ Referred(f)'
    BY <1>3 DEF CleansUp
  <2>2. Referred(f)' \ Excused(f)' \subseteq stored' /\ Referred(f)' \intersect Doomed(f)' = {}
    BY <1>4 DEF FlowInv
  <2> QED
    BY <1>2, <1>4, <2>1, <2>2 DEF Moves, Mine
<1> QED
  BY <1>5, Moved

\* A transaction cuts objects off, and its handler goes on to delete them.
LEMMA CutOff ==
    ASSUME StoreInv, NEW f \in Flows, FlowInv(f), NEW r \in Requests, request[r] = NoRequest,
           NEW q, request' = [request EXCEPT ![r] = q], CleansUp(f, q, Referred(f) \ Referred(f)'),
           NEW marked, marked \subseteq Referred(f) \ Referred(f)',
           MarkFiles(marked, "DELETED") \/ file' = file, stored' = stored, prefix' = prefix,
           Referred(f)' \subseteq Referred(f), Doomed(f)' \subseteq Doomed(f) \union marked,
           Excused(f)' = Excused(f)
    PROVE  Sound(f)
<1>1. file \in [Objects -> FileRows]
  BY DEF StoreInv
<1>2. /\ file' \in [Objects -> FileRows]
      /\ \A o \in Objects \ marked : file'[o] = file[o]
  BY <1>1 DEF MarkFiles, FileRows
<1>3. /\ NoRequest \in RequestStates /\ NoRequest.flow = "NONE" /\ NoRequest.pc = "IDLE"
      /\ NoRequest.planned = {} /\ NoRequest.uploaded = {} /\ f # "NONE"
  BY DEF NoRequest, RequestStates, Flows
<1>4. Moves(f, r, q)
  <2>1. /\ q \in RequestStates /\ q.flow \in {f, "NONE"} /\ (q.flow = "NONE" => q = NoRequest)
        /\ q.pc \notin {"UPLOADING", "PERSISTING"} /\ q.planned = {}
        /\ q.uploaded \subseteq Referred(f) \ Referred(f)'
    BY <1>3 DEF CleansUp
  <2>2. Referred(f)' \ Excused(f)' \subseteq stored' /\ Referred(f)' \intersect Doomed(f)' = {}
    BY DEF FlowInv
  <2> QED
    BY <1>2, <1>3, <2>1, <2>2 DEF Moves, Mine
<1> QED
  BY <1>4, Moved

-----------------------------------------------------------------------------
(* Chat and Team files *)

\* What a flow of this kind leaves alone.
LEMMA ChatFlowKept ==
    ASSUME FilesInv, NEW f \in {"CHAT", "TEAM"}, Sound(f),
           UNCHANGED <<imageVars, proofVars, profileVars>>,
           f # "CHAT" => attachment' = attachment, f # "TEAM" => teamFile' = teamFile,
           attachment' \in [Objects -> {"NONE", "VALIDATED", "CONSUMED", "EXPIRED"}]
    PROVE  FilesInv'
<1>1. OtherRows'
  BY DEF FilesInv, OtherRows, profileVars
<1>2. Others(f) /\ f \in Flows /\ f # "IMAGE"
  BY DEF Others, proofVars, profileVars, Flows
<1> QED
  BY <1>1, <1>2, StepKept

\* Chat and Team files, step by step.
LEMMA ChatFilesKept ==
    ASSUME FilesInv, UNCHANGED <<imageVars, proofVars, profileVars>>,
           (\E r \in Requests : ChatFileStep(r)) \/ ChatFilesStep
    PROVE  FilesInv'
<1>1. /\ StoreInv /\ OtherRows /\ FlowInv("CHAT") /\ FlowInv("TEAM")
      /\ {"CHAT", "TEAM"} \subseteq Flows
  BY DEF FilesInv, Flows
<1>2. attachment \in [Objects -> {"NONE", "VALIDATED", "CONSUMED", "EXPIRED"}]
  BY <1>1 DEF OtherRows
<1>3. ASSUME attachment' = attachment, teamFile' = teamFile, NEW f \in {"CHAT", "TEAM"}, Sound(f)
      PROVE  FilesInv'
  BY <1>2, <1>3, ChatFlowKept
<1>4. ASSUME attachment' = attachment, teamFile' = teamFile, NEW f \in {"CHAT", "TEAM"}
      PROVE  SameRows(f)
  BY <1>4 DEF SameRows, Referred, Excused, Doomed
<1>5. ASSUME NEW r \in Requests, NEW f \in {"CHAT", "TEAM"}, StartUpload(r, f, 1),
             stored' = stored, file' = file, attachment' = attachment, teamFile' = teamFile
      PROVE  FilesInv'
  <2>1. SameRows(f)
    BY <1>4, <1>5
  <2> QED
    BY <1>1, <1>3, <1>5, <2>1, Started
<1>6. ASSUME NEW r \in Requests, NEW o \in Objects, UploadChatFile(r, o) PROVE FilesInv'
  <2>1. attachment' = attachment /\ teamFile' = teamFile /\ request[r].pc = "UPLOADING"
    BY <1>6 DEF UploadChatFile, chatFileVars
  <2>5. PICK f \in {"CHAT", "TEAM"} : request[r].flow = f
    BY <1>6 DEF UploadChatFile
  <2>2. SameRows(f) /\ FlowInv(f) /\ f \in Flows /\ request[r].flow = f
    BY <1>1, <1>4, <2>1, <2>5
  <2>3. CASE PutObject(r, o)
    BY <1>1, <1>3, <2>1, <2>2, <2>3, PutWrote
  <2>4. CASE PutFails(r, o, "DISCARDING", request[r].flow = "TEAM")
    <3> DEFINE keeps == request[r].flow = "TEAM"
    <3>1. keeps \in BOOLEAN /\ PutFails(r, o, "DISCARDING", keeps)
      BY <2>4
    <3> HIDE DEF keeps
    <3> QED
      BY <1>1, <1>3, <2>1, <2>2, <3>1, PutFailsWrote
  <2> QED
    BY <1>6, <2>3, <2>4 DEF UploadChatFile
<1>7. ASSUME NEW r \in Requests, StoreAttachment(r) PROVE FilesInv'
  <2>1. /\ request[r].flow = "CHAT" /\ Uploading(r) /\ request' = [request EXCEPT ![r] = NoRequest]
        /\ stored' = stored /\ prefix' = prefix /\ MarkFiles(request[r].uploaded, "LIVE")
        /\ teamFile' = teamFile
    BY <1>7 DEF StoreAttachment, Stands, Uploading, Ends
  <2>2. attachment' = [o \in Objects |-> IF o \in request[r].uploaded THEN "VALIDATED" ELSE attachment[o]]
    BY <1>7 DEF StoreAttachment
  <2>3. /\ Referred("CHAT")' \subseteq Referred("CHAT") \union request[r].uploaded
        /\ Doomed("CHAT")' \subseteq Doomed("CHAT") /\ Excused("CHAT")' = Excused("CHAT")
    BY <1>2, <2>2 DEF Referred, Doomed, Excused
  <2>4. CleansUp("CHAT", NoRequest, Referred("CHAT") \ Referred("CHAT")')
    BY DEF CleansUp
  <2>5. Sound("CHAT")
    BY <1>1, <2>1, <2>3, <2>4, Attached
  <2>6. attachment' \in [Objects -> {"NONE", "VALIDATED", "CONSUMED", "EXPIRED"}]
    BY <1>2, <2>2
  <2> QED
    BY <2>1, <2>5, <2>6, ChatFlowKept
<1>8. ASSUME NEW r \in Requests, StoreTeamFile(r) PROVE FilesInv'
  <2>1. /\ request[r].flow = "TEAM" /\ Uploading(r) /\ request' = [request EXCEPT ![r] = NoRequest]
        /\ stored' = stored /\ prefix' = prefix /\ MarkFiles(request[r].uploaded, "LIVE")
        /\ teamFile' = teamFile \union request[r].uploaded /\ attachment' = attachment
    BY <1>8 DEF StoreTeamFile, Stands, Uploading, Ends
  <2>3. /\ Referred("TEAM")' \subseteq Referred("TEAM") \union request[r].uploaded
        /\ Doomed("TEAM")' \subseteq Doomed("TEAM") /\ Excused("TEAM")' = Excused("TEAM")
    BY <2>1 DEF Referred, Doomed, Excused
  <2>4. CleansUp("TEAM", NoRequest, Referred("TEAM") \ Referred("TEAM")')
    BY DEF CleansUp
  <2>5. Sound("TEAM")
    BY <1>1, <2>1, <2>3, <2>4, Attached
  <2> QED
    BY <1>2, <2>1, <2>5, ChatFlowKept
<1>9. ASSUME NEW r \in Requests, RefuseChatFile(r) PROVE FilesInv'
  <2>3. PICK f \in {"CHAT", "TEAM"} : request[r].flow = f
    BY <1>9 DEF RefuseChatFile
  <2>1. /\ attachment' = attachment /\ teamFile' = teamFile
        /\ GoTo(r, "DISCARDING") /\ stored' = stored /\ prefix' = prefix /\ file' = file
    BY <1>9 DEF RefuseChatFile, chatFileVars
  <2>2. SameRows(f) /\ FlowInv(f) /\ f \in Flows /\ request[r].flow = f
    BY <1>1, <1>4, <2>1, <2>3
  <2> QED
    BY <1>1, <1>3, <2>1, <2>2, Paused
<1>10. ASSUME NEW r \in Requests, DiscardChatFile(r) PROVE FilesInv'
  <2>3. PICK f \in {"CHAT", "TEAM"} : request[r].flow = f
    BY <1>10 DEF DiscardChatFile
  <2>1. /\ attachment' = attachment /\ teamFile' = teamFile
        /\ Ends(r) /\ prefix' = prefix /\ file' = file
        /\ stored' \subseteq stored /\ stored \ stored' \subseteq Holds(r)
    BY <1>10 DEF DiscardChatFile, chatFileVars, DiscardUploads, DeleteObjects, Holds
  <2>2. SameRows(f) /\ FlowInv(f) /\ f \in Flows /\ request[r].flow = f
    BY <1>1, <1>4, <2>1, <2>3
  <2> QED
    BY <1>1, <1>3, <2>1, <2>2, RequestEnded
<1>11. ASSUME NEW o \in Objects, SendAttachment(o) PROVE FilesInv'
  <2>1. /\ attachment[o] = "VALIDATED" /\ attachment' = [attachment EXCEPT ![o] = "CONSUMED"]
        /\ UNCHANGED storeVars /\ teamFile' = teamFile
    BY <1>11 DEF SendAttachment
  <2>2. Referred("CHAT")' = Referred("CHAT") /\ Doomed("CHAT")' = Doomed("CHAT")
        /\ Excused("CHAT")' = Excused("CHAT")
    BY <1>2, <2>1 DEF Referred, Doomed, Excused
  <2>3. Sweeps("CHAT")
    BY <1>1, <2>1, <2>2 DEF Sweeps, storeVars, StoreInv, FlowInv
  <2>4. Sound("CHAT")
    BY <1>1, <2>3, Swept
  <2>5. attachment' \in [Objects -> {"NONE", "VALIDATED", "CONSUMED", "EXPIRED"}]
    BY <1>2, <2>1
  <2> QED
    BY <2>1, <2>4, <2>5, ChatFlowKept
<1>12. ASSUME NEW r \in Requests, NEW o \in Objects, ExpireAttachment(r, o) PROVE FilesInv'
  <2> DEFINE q == [NoRequest EXCEPT !.flow = "CHAT", !.pc = "CLEANING", !.uploaded = {o}]
  <2>1. /\ request[r] = NoRequest /\ request' = [request EXCEPT ![r] = q]
        /\ attachment[o] = "VALIDATED" /\ attachment' = [attachment EXCEPT ![o] = "EXPIRED"]
        /\ MarkFiles({o}, "DELETED") /\ stored' = stored /\ prefix' = prefix /\ teamFile' = teamFile
    BY <1>12 DEF ExpireAttachment
  <2>2. /\ Referred("CHAT")' = Referred("CHAT") \ {o} /\ o \in Referred("CHAT")
        /\ Doomed("CHAT")' = Doomed("CHAT") \union {o} /\ Excused("CHAT")' = Excused("CHAT")
    BY <1>2, <2>1 DEF Referred, Doomed, Excused
  <2>3. CleansUp("CHAT", q, Referred("CHAT") \ Referred("CHAT")')
    BY <2>2 DEF CleansUp, NoRequest, RequestStates, Flows
  <2> HIDE DEF q
  <2>4. {o} \subseteq Referred("CHAT") \ Referred("CHAT")'
    BY <2>2
  <2>5. Sound("CHAT")
    BY <1>1, <2>1, <2>2, <2>3, <2>4, CutOff
  <2>6. attachment' \in [Objects -> {"NONE", "VALIDATED", "CONSUMED", "EXPIRED"}]
    BY <1>2, <2>1
  <2> QED
    BY <2>1, <2>5, <2>6, ChatFlowKept
<1>13. ASSUME NEW r \in Requests, DeleteExpired(r) PROVE FilesInv'
  <2>1. /\ request[r].flow = "CHAT" /\ Ends(r) /\ prefix' = prefix /\ file' = file
        /\ attachment' = attachment /\ teamFile' = teamFile
        /\ stored' \subseteq stored /\ stored \ stored' \subseteq Holds(r)
    BY <1>13 DEF DeleteExpired, Stands, DeleteAttachmentObject, Holds
  <2>2. SameRows("CHAT")
    BY <1>4, <2>1
  <2> QED
    BY <1>1, <1>3, <2>1, <2>2, RequestEnded
<1>14. ASSUME NEW o \in Objects, SweepAttachment(o) PROVE FilesInv'
  <2>1. /\ attachment' = attachment /\ teamFile' = teamFile /\ request' = request
        /\ prefix' = prefix /\ file' = file /\ stored' \subseteq stored
        /\ stored \ stored' \subseteq {o} /\ o \in Doomed("CHAT")
    BY <1>14 DEF SweepAttachment, DeleteAttachmentObject, Doomed
  <2>2. SameRows("CHAT")
    BY <1>4, <2>1
  <2>3. Sweeps("CHAT")
    BY <1>1, <2>1, <2>2 DEF Sweeps, SameRows, StoreInv, FlowInv
  <2> QED
    BY <1>1, <1>3, <2>1, <2>3, Swept
<1>15. ASSUME CloseConversation PROVE FilesInv'
  <2>1. UNCHANGED storeVars /\ attachment' = attachment /\ teamFile' = teamFile
    BY <1>15 DEF CloseConversation
  <2>2. SameRows("CHAT")
    BY <1>4, <2>1
  <2>3. Sweeps("CHAT")
    BY <1>1, <2>1, <2>2 DEF Sweeps, SameRows, StoreInv, FlowInv, storeVars
  <2> QED
    BY <1>1, <1>3, <2>1, <2>3, Swept
<1>16. ASSUME NEW r \in Requests, ChatFileStep(r) PROVE FilesInv'
  <2>1. CASE BeginAttachment(r)
    BY <1>5, <2>1 DEF BeginAttachment, chatFileVars
  <2>2. CASE StartUpload(r, "TEAM", 1) /\ UNCHANGED <<stored, file, faultsLeft, chatFileVars>>
    BY <1>5, <2>2 DEF chatFileVars
  <2> QED
    BY <1>6, <1>7, <1>8, <1>9, <1>10, <1>12, <1>13, <1>16, <2>1, <2>2 DEF ChatFileStep
<1> QED
  BY <1>11, <1>14, <1>15, <1>16 DEF ChatFilesStep

-----------------------------------------------------------------------------
(* The files of a Proof *)

\* A step deletes no row, and a Proof shows nothing more than what has one.
RowsAdded ==
    /\ \A o \in Objects : file[o] = "LIVE" => file'[o] = "LIVE"
    /\ proofFile' \subseteq proofFile \union LiveFiles'

\* What this flow leaves alone.
LEMMA ProofKept ==
    ASSUME FilesInv, Sound("PROOF"), RowsAdded, UNCHANGED <<imageVars, profileVars, chatFileVars>>
    PROVE  FilesInv'
<1>1. OtherRows'
  BY DEF FilesInv, OtherRows, profileVars, chatFileVars
<1>2. Others("PROOF") /\ "PROOF" \in Flows
  BY DEF Others, chatFileVars, profileVars, Flows
<1>3. DraftRows'
  <2>1. \A o \in Objects : prefix[o] # "NONE" => prefix'[o] = prefix[o]
    BY DEF Sound, OnlyFlow
  <2>2. \A o \in Objects : file'[o] = "LIVE" => prefix'[o] # "NONE"
    BY DEF Sound, StoreInv
  <2>3. \A o \in Objects : file[o] = "LIVE" => file'[o] = "LIVE"
    BY DEF RowsAdded
  <2> SUFFICES ASSUME NEW o \in proofFile'
               PROVE  o \in Objects /\ prefix'[o] # "NONE" /\ (prefix'[o] = "PROOF" => file'[o] = "LIVE")
    BY DEF DraftRows
  <2>4. CASE o \in proofFile
    <3>1. DraftRows
      BY DEF FilesInv
    <3>2. o \in Objects /\ prefix[o] # "NONE" /\ (prefix[o] = "PROOF" => file[o] = "LIVE")
      BY <2>4, <3>1 DEF DraftRows
    <3> QED
      BY <2>1, <2>3, <3>2
  <2>5. CASE o \notin proofFile
    <3>1. o \in Objects /\ file'[o] = "LIVE"
      BY <2>5 DEF RowsAdded, LiveFiles
    <3> QED
      BY <2>2, <3>1
  <2> QED
    BY <2>4, <2>5
<1> QED
  BY <1>1, <1>2, <1>3, StepKept

\* The files of a Proof, step by step.
LEMMA ProofFilesKept ==
    ASSUME FilesInv, UNCHANGED <<imageVars, profileVars, chatFileVars>>,
           (\E r \in Requests : ProofStep(r)) \/ ProofFilesStep
    PROVE  FilesInv'
<1> DEFINE f == "PROOF"
<1>1. /\ StoreInv /\ FlowInv(f) /\ f \in Flows
      /\ Referred(f) = ProofRows /\ Referred(f)' = ProofRows'
      /\ Doomed(f) = UNION proofCleanup /\ Doomed(f)' = UNION proofCleanup'
      /\ Excused(f) = {} /\ Excused(f)' = {}
  BY DEF FilesInv, Flows, Referred, Doomed, Excused
<1>2. RowsAdded
  <2>1. ASSUME NEW r \in Requests, NEW failed, SaveDraft(r, failed) PROVE RowsAdded
    <3>1. /\ proofFile' \subseteq proofFile \union LiveFiles \union request[r].uploaded
          /\ MarkFiles(request[r].uploaded, "LIVE")
      BY <2>1 DEF SaveDraft, ReplaceAttachments, Merged
    <3>2. request[r].uploaded \subseteq Objects
      BY <1>1, RequestFacts
    <3> QED
      BY <3>1, <3>2 DEF RowsAdded, MarkFiles, LiveFiles
  <2>2. ASSUME NEW r \in Requests, ProofStep(r), ~\E failed \in 0..MaxProofFiles : SaveDraft(r, failed)
        PROVE  RowsAdded
    BY <2>2 DEF ProofStep, PersistDraft, UploadProofFile, PutObject, PutFails, RefuseDraft, MarkFiles,
                DiscardProofFiles, RowsAdded, proofVars
  <2>3. ASSUME ProofFilesStep PROVE RowsAdded
    BY <2>3 DEF ProofFilesStep, SubmitProof, DeleteProof, NameFiles, RetryProofCleanup, RowsAdded, LiveFiles,
                storeVars
  <2> QED
    BY <2>1, <2>2, <2>3
<1> SUFFICES Sound(f)
  BY <1>2, ProofKept
<1>3. ASSUME UNCHANGED proofVars, file' = file,
             \A o \in Objects : prefix'[o] = prefix[o] \/ (prefix[o] = "NONE" /\ file[o] = "NONE")
      PROVE  SameRows(f)
  <2>1. \A o \in Objects : prefix[o] = "NONE" => file[o] = "NONE"
    BY <1>1 DEF StoreInv
  <2>2. ProofRows' = ProofRows
    BY <1>3, <2>1 DEF ProofRows, Of, proofVars
  <2> QED
    BY <1>1, <1>3, <2>2 DEF SameRows, proofVars
<1>4. f # "NONE" /\ NoRequest \in RequestStates /\ NoRequest.flow = "NONE" /\ NoRequest.pc = "IDLE"
      /\ NoRequest.planned = {} /\ NoRequest.uploaded = {}
  BY DEF NoRequest, RequestStates
<1> HIDE DEF f
<1>5. ASSUME NEW r \in Requests, NEW n, StartUpload(r, f, n), UNCHANGED <<stored, file, faultsLeft, proofVars>>
      PROVE  Sound(f)
  <2>1. SameRows(f)
    BY <1>1, <1>3, <1>5 DEF StartUpload, StoreInv
  <2> QED
    BY <1>1, <1>5, <2>1, Started
<1>6. ASSUME NEW r \in Requests, NEW o \in Objects, UploadProofFile(r, o) PROVE Sound(f)
  <2> DEFINE next == IF request[r].planned = {o} THEN "PERSISTING" ELSE "UPLOADING"
             keeps == FALSE
  <2>1. /\ request[r].flow = f /\ request[r].pc = "UPLOADING" /\ SameRows(f)
        /\ PutObject(r, o) \/ PutFails(r, o, next, keeps)
    BY <1>3, <1>6 DEF UploadProofFile, Stands, PutObject, PutFails, f
  <2>2. next \in {"UPLOADING", "PERSISTING", "DISCARDING"} /\ keeps \in BOOLEAN
    OBVIOUS
  <2> HIDE DEF next, keeps
  <2> QED
    BY <1>1, <2>1, <2>2, PutWrote, PutFailsWrote
<1>7. ASSUME NEW r \in Requests, NEW failed, request[r].flow = f, Uploading(r), SaveDraft(r, failed)
      PROVE  Sound(f)
  <2>1. MarkFiles(request[r].uploaded, "LIVE")
    BY <1>7 DEF SaveDraft, ReplaceAttachments
  <2>2. /\ request' = [request EXCEPT ![r] = NoRequest] /\ stored' = stored /\ prefix' = prefix
        /\ proofCleanup' = proofCleanup /\ refusedFile' = refusedFile
    BY <1>7 DEF SaveDraft, Ends
  <2>4. Referred(f)' \subseteq Referred(f) \union request[r].uploaded
    BY <1>1, <2>1, <2>2 DEF ProofRows, Of, MarkFiles
  <2>3. CleansUp(f, NoRequest, Referred(f) \ Referred(f)')
    BY DEF CleansUp
  <2> QED
    BY <1>1, <1>7, <2>1, <2>2, <2>3, <2>4, Attached
<1>8. ASSUME NEW r \in Requests, request[r].flow = f, Uploading(r), RefuseDraft(r)
      PROVE  Sound(f)
  <2> DEFINE q == [request[r] EXCEPT !.pc = "DISCARDING"]
  <2>1. request[r] \in RequestStates /\ request \in [Requests -> RequestStates] /\ RequestOK(r)
        /\ file \in [Objects -> FileRows]
    BY <1>1 DEF StoreInv
  <2>2. request' = [request EXCEPT ![r] = q]
    BY <1>8, <2>1 DEF RefuseDraft, GoTo
  <2>3. /\ q \in RequestStates /\ q.flow = f /\ q.pc = "DISCARDING"
        /\ q.planned = request[r].planned /\ q.uploaded = request[r].uploaded
    BY <1>8, <2>1 DEF RequestStates
  <2> HIDE DEF q
  <2>4. /\ stored' = stored /\ prefix' = prefix /\ SameRows(f)
        /\ file' \in [Objects -> FileRows]
        /\ \A o \in Objects \ Holds(r) : file'[o] = file[o]
    <3>1. /\ stored' = stored /\ prefix' = prefix /\ proofCleanup' = proofCleanup
          /\ \/ MarkFiles(request[r].uploaded, "LIVE") /\ refusedFile' = refusedFile \union request[r].uploaded
             \/ UNCHANGED <<file, refusedFile>>
      BY <1>8 DEF RefuseDraft
    <3>2. \A o \in request[r].uploaded : file[o] = "NONE"
      BY <1>8, <2>1 DEF RequestOK, Holds
    <3>3. ProofRows' = ProofRows
      BY <3>1, <3>2 DEF ProofRows, Of, MarkFiles
    <3> QED
      BY <1>1, <2>1, <3>1, <3>3 DEF SameRows, MarkFiles, FileRows, Holds
  <2>5. Moves(f, r, q)
    <3>1. /\ request[r].planned \intersect request[r].uploaded = {}
          /\ Holds(r) \intersect Referred(f) = {}
      BY <1>1, <1>8, <2>1 DEF RequestOK, FlowInv
    <3> QED
      BY <1>1, <1>4, <1>8, <2>2, <2>3, <2>4, <3>1 DEF Moves, SameRows, Holds, Mine, FlowInv
  <2> QED
    BY <1>1, <2>5, Moved
<1>9. ASSUME NEW r \in Requests, PersistDraft(r) PROVE Sound(f)
  BY <1>7, <1>8, <1>9 DEF PersistDraft, Stands, Uploading, f
<1>10. ASSUME NEW r \in Requests, DiscardProofFiles(r) PROVE Sound(f)
  <2>1. PICK failed \in SUBSET request[r].uploaded :
          /\ DeleteObjects(request[r].uploaded, failed)
          /\ proofCleanup' = IF failed = {} THEN proofCleanup ELSE proofCleanup \union {failed}
    BY <1>10 DEF DiscardProofFiles
  <2>2. /\ request[r].flow = f /\ request' = [request EXCEPT ![r] = NoRequest]
        /\ file' = file /\ prefix' = prefix /\ Referred(f)' = Referred(f)
    BY <1>1, <1>10 DEF DiscardProofFiles, Stands, Ends, f, ProofRows, Of
  <2>3. Doomed(f)' \subseteq Doomed(f) \union failed /\ failed \subseteq Holds(r)
    BY <1>1, <2>1 DEF Holds
  <2>4. stored' \subseteq stored /\ stored \ stored' \subseteq Holds(r)
    BY <2>1 DEF DeleteObjects, Holds
  <2>5. Holds(r) \intersect Referred(f) = {} /\ file' \in [Objects -> FileRows]
    BY <1>1, <2>2 DEF FlowInv, StoreInv
  <2>6. Moves(f, r, NoRequest)
    BY <1>1, <1>4, <2>2, <2>3, <2>4, <2>5 DEF Moves, Mine, FlowInv
  <2> QED
    BY <1>1, <2>6, Moved
<1>11. ASSUME NEW objects, RetryProofCleanup(objects) PROVE Sound(f)
  <2>1. PICK failed \in SUBSET objects :
          /\ DeleteObjects(objects, failed)
          /\ proofCleanup' = IF failed = {} THEN proofCleanup \ {objects} ELSE proofCleanup
    BY <1>11 DEF RetryProofCleanup
  <2>2. /\ objects \in proofCleanup /\ request' = request /\ file' = file /\ prefix' = prefix
        /\ Referred(f)' = Referred(f)
    BY <1>1, <1>11 DEF RetryProofCleanup, ProofRows, Of
  <2>3. Doomed(f)' \subseteq Doomed(f) /\ objects \subseteq Doomed(f)
    BY <1>1, <2>1, <2>2
  <2>4. stored' \subseteq stored /\ stored \ stored' \subseteq Doomed(f)
    BY <2>1, <2>3 DEF DeleteObjects
  <2>5. Sweeps(f)
    BY <1>1, <2>2, <2>3, <2>4 DEF Sweeps, FlowInv, StoreInv
  <2> QED
    BY <1>1, <2>5, Swept
<1>12. ASSUME SubmitProof \/ DeleteProof \/ \E named \in SUBSET Objects : NameFiles(named) PROVE Sound(f)
  <2>1. UNCHANGED storeVars /\ Referred(f)' = Referred(f) /\ proofCleanup' = proofCleanup
    BY <1>1, <1>12 DEF SubmitProof, DeleteProof, NameFiles, ProofRows, Of, storeVars
  <2>2. Sweeps(f)
    BY <1>1, <2>1 DEF Sweeps, storeVars, FlowInv, StoreInv
  <2> QED
    BY <1>1, <2>2, Swept
<1> QED
  BY <1>5, <1>6, <1>9, <1>10, <1>11, <1>12 DEF ProofStep, ProofFilesStep, f

-----------------------------------------------------------------------------
(* Sequences of objects without repetition *)

\* Removing a position removes one object.
LEMMA RemovedAt ==
    ASSUME NEW S, NEW s \in Seq(S), IsInjective(s), NEW i \in DOMAIN s
    PROVE  /\ RemoveAt(s, i) \in Seq(S) /\ IsInjective(RemoveAt(s, i))
           /\ Range(RemoveAt(s, i)) = Range(s) \ {s[i]} /\ s[i] \in Range(s)
<1> DEFINE t == RemoveAt(s, i)
<1>1. Len(s) \in Nat /\ DOMAIN s = 1..Len(s) /\ i \in 1..Len(s) /\ \A j \in 1..Len(s) : s[j] \in S
  OBVIOUS
<1>3. /\ t \in Seq(S) /\ Len(t) = Len(s) - 1 /\ DOMAIN t = 1..(Len(s) - 1)
      /\ \A j \in 1..(Len(s) - 1) : t[j] = IF j < i THEN s[j] ELSE s[j + 1]
  <2> DEFINE front == SubSeq(s, 1, i - 1)
             back == SubSeq(s, i + 1, Len(s))
  <2>1. /\ front \in Seq(S) /\ Len(front) = i - 1
        /\ \A j \in 1 .. i - 1 : front[j] = s[j]
    <3>1. \A j \in 1 .. i - 1 : s[j] \in S
      BY <1>1
    <3>2. /\ front \in Seq(S) /\ Len(front) = IF 1 <= i - 1 THEN i - 1 - 1 + 1 ELSE 0
          /\ \A j \in 1 .. i - 1 - 1 + 1 : front[j] = s[1 + j - 1]
      BY <1>1, <3>1, SubSeqProperties
    <3> QED
      BY <1>1, <3>2
  <2>2. /\ back \in Seq(S) /\ Len(back) = Len(s) - i
        /\ \A j \in 1 .. Len(s) - i : back[j] = s[i + j]
    <3>1. \A j \in i + 1 .. Len(s) : s[j] \in S
      BY <1>1
    <3>2. /\ back \in Seq(S)
          /\ Len(back) = IF i + 1 <= Len(s) THEN Len(s) - (i + 1) + 1 ELSE 0
          /\ \A j \in 1 .. Len(s) - (i + 1) + 1 : back[j] = s[(i + 1) + j - 1]
      BY <1>1, <3>1, SubSeqProperties
    <3>3. /\ i + 1 <= Len(s) => Len(s) - (i + 1) + 1 = Len(s) - i
          /\ ~(i + 1 <= Len(s)) => 0 = Len(s) - i
          /\ Len(s) - (i + 1) + 1 = Len(s) - i
      <4>1. ASSUME NEW n \in Nat, NEW k \in 1 .. n
            PROVE  /\ k + 1 <= n => n - (k + 1) + 1 = n - k
                   /\ ~(k + 1 <= n) => 0 = n - k
                   /\ n - (k + 1) + 1 = n - k
        OBVIOUS
      <4> QED
        BY <1>1, <4>1
    <3>4. \A j \in 1 .. Len(s) - i : (i + 1) + j - 1 = i + j
      BY <1>1
    <3> HIDE DEF back
    <3>5. Len(back) = Len(s) - i
      BY <3>2, <3>3
    <3>6. \A j \in 1 .. Len(s) - i : back[j] = s[i + j]
      BY <3>2, <3>3, <3>4, Zenon
    <3> QED
      BY <3>2, <3>5, <3>6
  <2> HIDE DEF front, back
  <2>3. /\ t = front \o back
        /\ t \in Seq(S) /\ Len(t) = Len(front) + Len(back)
        /\ \A j \in 1 .. Len(front) + Len(back) :
              t[j] = IF j <= Len(front) THEN front[j] ELSE back[j - Len(front)]
    BY <2>1, <2>2, ConcatProperties DEF t, RemoveAt, front, back
  <2>4. ASSUME NEW j \in 1 .. Len(s) - 1
        PROVE  t[j] = IF j < i THEN s[j] ELSE s[j + 1]
    <3>1. CASE j < i
      BY <1>1, <2>1, <2>2, <2>3, <3>1
    <3>2. CASE ~(j < i)
      <4>1. j - (i - 1) \in 1 .. Len(s) - i /\ i + (j - (i - 1)) = j + 1
        BY <1>1, <3>2
      <4>2. j \in 1 .. Len(front) + Len(back) /\ ~(j <= Len(front)) /\ Len(front) = i - 1
        BY <1>1, <2>1, <2>2, <3>2
      <4>3. t[j] = back[j - Len(front)]
        BY <2>3, <4>2
      <4>4. t[j] = back[j - (i - 1)]
        BY <4>2, <4>3
      <4> QED
        BY <2>2, <3>2, <4>1, <4>4
    <3> QED
      BY <3>1, <3>2
  <2> HIDE DEF t
  <2>5. t \in Seq(S) /\ Len(t) = Len(s) - 1
    BY <1>1, <2>1, <2>2, <2>3
  <2>6. DOMAIN t = 1 .. Len(t)
    BY <2>5
  <2> QED
    BY <2>4, <2>5, <2>6
<1> HIDE DEF t
<1>2. IsInjective(t)
  <2> SUFFICES ASSUME NEW a \in 1..(Len(s) - 1), NEW b \in 1..(Len(s) - 1), t[a] = t[b] PROVE a = b
    BY <1>3 DEF IsInjective
  <2>1. \A j, k \in 1..Len(s) : s[j] = s[k] => j = k
    BY <1>1 DEF IsInjective
  <2> DEFINE at(j) == IF j < i THEN j ELSE j + 1
  <2>2. \A j \in 1..(Len(s) - 1) : at(j) \in 1..Len(s) /\ t[j] = s[at(j)]
    BY <1>1, <1>3
  <2>3. at(a) = at(b)
    <3> HIDE DEF at
    <3> QED BY <2>1, <2>2
  <2> QED
    BY <1>1, <2>3
<1>4. Range(t) = Range(s) \ {s[i]}
  <2>1. ASSUME NEW j \in 1..(Len(s) - 1) PROVE t[j] \in Range(s) \ {s[i]}
    <3>1. \A k, m \in 1..Len(s) : s[k] = s[m] => k = m
      BY <1>1 DEF IsInjective
    <3>2. CASE j < i
      BY <1>1, <1>3, <3>1, <3>2 DEF Range
    <3>3. CASE ~(j < i)
      <4>1. j + 1 \in 1..Len(s) /\ j + 1 # i /\ t[j] = s[j + 1]
        BY <1>1, <1>3, <3>3
      <4> QED
        BY <1>1, <3>1, <4>1 DEF Range
    <3> QED
      BY <3>2, <3>3
  <2>2. ASSUME NEW j \in 1..Len(s), s[j] # s[i] PROVE s[j] \in Range(t)
    <3>1. CASE j < i
      <4>1. j \in 1..(Len(s) - 1) /\ t[j] = s[j]
        BY <1>1, <1>3, <3>1
      <4> QED
        BY <1>3, <4>1 DEF Range
    <3>2. CASE ~(j < i)
      <4>1. j - 1 \in 1..(Len(s) - 1) /\ ~(j - 1 < i) /\ (j - 1) + 1 = j
        BY <1>1, <2>2, <3>2
      <4>2. t[j - 1] = s[j]
        BY <1>3, <4>1
      <4> QED
        BY <1>3, <4>1, <4>2 DEF Range
    <3> QED
      BY <3>1, <3>2
  <2>3. Range(s) = {s[j] : j \in 1..Len(s)} /\ Range(t) = {t[j] : j \in 1..(Len(s) - 1)}
    BY <1>1, <1>3 DEF Range
  <2> QED
    BY <2>1, <2>2, <2>3
<1> QED
  BY <1>1, <1>2, <1>3, <1>4 DEF t, Range

\* A batch names each of its objects once.
LEMMA OrderedBatch ==
    ASSUME NEW objects, objects \subseteq Objects, NEW batch \in Orders(objects)
    PROVE  batch \in Seq(Objects) /\ IsInjective(batch) /\ Range(batch) = objects
<1>1. IsFiniteSet(objects)
  BY StoreAssumption, FS_Subset
<1> DEFINE n == Cardinality(objects)
<1>2. n \in Nat
  BY <1>1, FS_CardinalityType
<1>3. IsFiniteSet(1..n) /\ Cardinality(1..n) = n
  BY <1>2, FS_Interval
<1>4. batch \in [1..n -> objects] /\ \A i, j \in DOMAIN batch : batch[i] = batch[j] => i = j
  BY DEF Orders
<1>5. IsInjective(batch) /\ batch \in Injection(1..n, objects)
  BY <1>4 DEF IsInjective, Injection
<1> HIDE DEF n
<1>6. Cardinality(objects) = n
  BY DEF n
<1>7. batch \in Surjection(1..n, objects)
  BY <1>1, <1>3, <1>5, <1>6, FS_Injection
<1>8. Range(batch) = objects
  BY <1>4, <1>7 DEF Surjection, Range
<1> QED
  BY <1>2, <1>4, <1>5, <1>8

\* Two sequences that share no object, one after the other.
LEMMA JoinedSeqs ==
    ASSUME NEW S, NEW s \in Seq(S), NEW t \in Seq(S), IsInjective(s), IsInjective(t),
           Range(s) \intersect Range(t) = {}
    PROVE  s \o t \in Seq(S) /\ IsInjective(s \o t) /\ Range(s \o t) = Range(s) \union Range(t)
<1> DEFINE u == s \o t
<1>1. /\ Len(s) \in Nat /\ Len(t) \in Nat /\ DOMAIN s = 1..Len(s) /\ DOMAIN t = 1..Len(t)
      /\ u \in Seq(S) /\ Len(u) = Len(s) + Len(t) /\ DOMAIN u = 1..(Len(s) + Len(t))
      /\ \A j \in 1..(Len(s) + Len(t)) : u[j] = IF j <= Len(s) THEN s[j] ELSE t[j - Len(s)]
  OBVIOUS
<1> HIDE DEF u
<1>2. \A j \in 1..(Len(s) + Len(t)) :
          \/ j \in DOMAIN s /\ u[j] = s[j]
          \/ j - Len(s) \in DOMAIN t /\ u[j] = t[j - Len(s)]
  BY <1>1
<1>3. /\ \A j \in DOMAIN s : j \in DOMAIN u /\ u[j] = s[j]
      /\ \A j \in DOMAIN t : Len(s) + j \in DOMAIN u /\ u[Len(s) + j] = t[j]
  BY <1>1
<1>4. Range(u) = Range(s) \union Range(t)
  BY <1>1, <1>2, <1>3 DEF Range
<1>5. IsInjective(u)
  <2> SUFFICES ASSUME NEW a \in DOMAIN u, NEW b \in DOMAIN u, u[a] = u[b] PROVE a = b
    BY DEF IsInjective
  <2>1. \A j \in DOMAIN s, k \in DOMAIN t : s[j] # t[k]
    BY DEF Range
  <2>2. CASE a <= Len(s) /\ b <= Len(s)
    BY <1>1, <2>2 DEF IsInjective
  <2>3. CASE ~(a <= Len(s)) /\ ~(b <= Len(s))
    <3>1. a - Len(s) \in DOMAIN t /\ b - Len(s) \in DOMAIN t /\ t[a - Len(s)] = t[b - Len(s)]
      BY <1>1, <2>3
    <3>2. a - Len(s) = b - Len(s)
      BY <3>1 DEF IsInjective
    <3> QED
      BY <1>1, <3>2
  <2>4. CASE a <= Len(s) /\ ~(b <= Len(s))
    <3>1. a \in DOMAIN s /\ b - Len(s) \in DOMAIN t /\ s[a] = t[b - Len(s)]
      BY <1>1, <2>4
    <3> QED
      BY <2>1, <3>1
  <2>5. CASE ~(a <= Len(s)) /\ b <= Len(s)
    <3>1. b \in DOMAIN s /\ a - Len(s) \in DOMAIN t /\ s[b] = t[a - Len(s)]
      BY <1>1, <2>5
    <3> QED
      BY <2>1, <3>1
  <2> QED
    BY <2>2, <2>3, <2>4, <2>5
<1> QED
  BY <1>1, <1>4, <1>5 DEF u

\* Putting a new object in a place of its own.
LEMMA ReplacedAt ==
    ASSUME NEW S, NEW s \in Seq(S), IsInjective(s), NEW i \in DOMAIN s, NEW o \in S, o \notin Range(s)
    PROVE  /\ [s EXCEPT ![i] = o] \in Seq(S) /\ IsInjective([s EXCEPT ![i] = o])
           /\ Range([s EXCEPT ![i] = o]) = (Range(s) \ {s[i]}) \union {o}
           /\ s[i] \in Range(s)
<1> DEFINE t == [s EXCEPT ![i] = o]
<1>1. /\ t \in Seq(S) /\ DOMAIN t = DOMAIN s /\ t[i] = o
      /\ \A j \in DOMAIN s : j # i => t[j] = s[j]
  OBVIOUS
<1> HIDE DEF t
<1>2. \A j \in DOMAIN s : s[j] # o /\ (j # i => s[j] # s[i])
  BY DEF Range, IsInjective
<1>3. IsInjective(t)
  BY <1>1, <1>2 DEF IsInjective
<1>4. Range(t) = (Range(s) \ {s[i]}) \union {o}
  BY <1>1, <1>2 DEF Range
<1> QED
  BY <1>1, <1>3, <1>4 DEF t, Range

-----------------------------------------------------------------------------
(* Avatar, certificate and portfolio *)

ProfileFlows == {"AVATAR", "CERTIFICATE", "PORTFOLIO"}

\* What these flows leave alone.
LEMMA ProfileKept ==
    ASSUME FilesInv, NEW f \in ProfileFlows, Sound(f), UNCHANGED <<imageVars, proofVars, chatFileVars>>,
           f # "AVATAR" => avatar' = avatar, f # "CERTIFICATE" => certificate' = certificate,
           f # "PORTFOLIO" => portfolio' = portfolio,
           certificate' \in [exists: BOOLEAN, image: Objects \union {NoObject}],
           portfolio' \in [exists: BOOLEAN, images: Seq(Objects)], IsInjective(portfolio'.images)
    PROVE  FilesInv'
<1>1. OtherRows'
  BY DEF FilesInv, OtherRows, chatFileVars
<1>2. Others(f) /\ f \in Flows /\ f # "IMAGE" /\ f # "PROOF"
  BY DEF Others, chatFileVars, proofVars, Flows, ProfileFlows
<1> QED
  BY <1>1, <1>2, StepKept

\* After a transaction that refers to a new image, and to previous no more.
LEMMA RefersTo ==
    ASSUME FilesInv, NEW f \in ProfileFlows, NEW r \in Requests, request[r].flow = f,
           request[r].pc = "PERSISTING", NEW previous, Refers(r, previous),
           previous = NoObject \/ previous \in Referred(f) \ Referred(f)',
           Referred(f)' \subseteq Referred(f) \union request[r].uploaded
    PROVE  Sound(f)
<1>1. f \in Flows /\ StoreInv /\ FlowInv(f) /\ Uploading(r)
  BY DEF ProfileFlows, Flows, FilesInv, Uploading
<1>2. Doomed(f)' = {} /\ Doomed(f) = {} /\ Excused(f)' = Excused(f)
  BY DEF ProfileFlows, Doomed, Excused
<1>3. MarkFiles(request[r].uploaded, "LIVE") /\ stored' = stored /\ prefix' = prefix
  BY DEF Refers
<1>4. CASE previous = NoObject
  <2>1. request' = [request EXCEPT ![r] = NoRequest]
    BY <1>4 DEF Refers, Ends
  <2>2. CleansUp(f, NoRequest, Referred(f) \ Referred(f)')
    BY DEF CleansUp
  <2> QED
    BY <1>1, <1>2, <1>3, <2>1, <2>2, Attached
<1>5. CASE previous # NoObject
  <2> DEFINE q == [NoRequest EXCEPT !.flow = f, !.pc = "CLEANING", !.uploaded = {previous}]
  <2>1. request' = [request EXCEPT ![r] = q]
    BY <1>5 DEF Refers, CutsOff
  <2>2. previous \in Objects /\ previous \in Referred(f) \ Referred(f)'
    BY <1>1, <1>5 DEF FlowInv, Of
  <2>3. CleansUp(f, q, Referred(f) \ Referred(f)')
    BY <1>1, <2>2 DEF CleansUp, NoRequest, RequestStates
  <2> HIDE DEF q
  <2> QED
    BY <1>1, <1>2, <1>3, <2>1, <2>3, Attached
<1> QED
  BY <1>4, <1>5

\* After a transaction that refers to objects no more; if it marks their rows,
\* the handler goes on to DISCARDING, otherwise to CLEANING.
LEMMA CutsOffSound ==
    ASSUME FilesInv, NEW f \in ProfileFlows, NEW r \in Requests, request[r] = NoRequest,
           NEW pc \in {"CLEANING", "DISCARDING"},
           NEW objects, objects \subseteq Referred(f) \ Referred(f)', CutsOff(r, f, pc, objects),
           MarkFiles(objects, "DELETED") \/ file' = file, stored' = stored, prefix' = prefix,
           Referred(f)' \subseteq Referred(f)
    PROVE  Sound(f)
<1>1. f \in Flows /\ StoreInv /\ FlowInv(f)
  BY DEF ProfileFlows, Flows, FilesInv
<1>2. Doomed(f)' = {} /\ Doomed(f) = {} /\ Excused(f)' = Excused(f)
  BY DEF ProfileFlows, Doomed, Excused
<1> DEFINE q == [NoRequest EXCEPT !.flow = f, !.pc = pc, !.uploaded = objects]
<1>3. request' = [request EXCEPT ![r] = q]
  BY DEF CutsOff
<1>4. objects \subseteq Objects
  BY <1>1 DEF FlowInv, Of
<1>5. CleansUp(f, q, Referred(f) \ Referred(f)')
  BY <1>1, <1>4 DEF CleansUp, NoRequest, RequestStates
<1> HIDE DEF q
<1> QED
  BY <1>1, <1>2, <1>3, <1>5, CutOff

\* The steps the three flows have in common.
LEMMA ProfileShared ==
    ASSUME FilesInv, UNCHANGED <<imageVars, proofVars, chatFileVars>>, NEW r \in Requests,
           \/ \E f \in ProfileFlows : StartUpload(r, f, 1) /\ UNCHANGED <<stored, file, faultsLeft, profileVars>>
           \/ \E o \in Objects : UploadProfileImage(r, o)
           \/ RefuseImage(r) \/ DiscardProfileImages(r) \/ CleanPrevious(r)
    PROVE  FilesInv'
<1>1. StoreInv /\ OtherRows /\ \A f \in ProfileFlows : f \in Flows /\ FlowInv(f)
  BY DEF FilesInv, Flows, ProfileFlows
<1>2. ASSUME UNCHANGED profileVars, NEW f \in ProfileFlows PROVE SameRows(f)
  BY <1>2 DEF SameRows, Referred, Excused, Doomed, profileVars, ProfileFlows
<1>3. ASSUME UNCHANGED profileVars, NEW f \in ProfileFlows, Sound(f) PROVE FilesInv'
  BY <1>1, <1>3, ProfileKept DEF profileVars, OtherRows
<1>4. ASSUME NEW f \in ProfileFlows, StartUpload(r, f, 1), UNCHANGED <<stored, file, faultsLeft, profileVars>>
      PROVE  FilesInv'
  <2>1. SameRows(f)
    BY <1>2, <1>4
  <2> QED
    BY <1>1, <1>3, <1>4, <2>1, Started
<1>5. ASSUME NEW o \in Objects, UploadProfileImage(r, o) PROVE FilesInv'
  <2> DEFINE keeps == FALSE
  <2>4. PICK f \in ProfileFlows : request[r].flow = f
    BY <1>5 DEF UploadProfileImage, ProfileFlows
  <2>1. /\ UNCHANGED profileVars /\ request[r].pc = "UPLOADING"
        /\ PutObject(r, o) \/ PutFails(r, o, "DISCARDING", keeps)
    BY <1>5 DEF UploadProfileImage, ProfileFlows
  <2>2. keeps \in BOOLEAN
    OBVIOUS
  <2> HIDE DEF keeps
  <2>3. SameRows(f) /\ FlowInv(f) /\ f \in Flows /\ request[r].flow = f
    BY <1>1, <1>2, <2>1, <2>4
  <2> QED
    BY <1>1, <1>3, <2>1, <2>2, <2>3, PutWrote, PutFailsWrote
<1>6. ASSUME RefuseImage(r) PROVE FilesInv'
  <2>3. PICK f \in ProfileFlows : request[r].flow = f
    BY <1>6 DEF RefuseImage, ProfileFlows
  <2>1. /\ UNCHANGED profileVars
        /\ GoTo(r, "DISCARDING") /\ stored' = stored /\ prefix' = prefix /\ file' = file
    BY <1>6 DEF RefuseImage, ProfileFlows
  <2>2. SameRows(f) /\ FlowInv(f) /\ f \in Flows /\ request[r].flow = f
    BY <1>1, <1>2, <2>1, <2>3
  <2> QED
    BY <1>1, <1>3, <2>1, <2>2, Paused
<1>7. ASSUME DiscardProfileImages(r) PROVE FilesInv'
  <2>3. PICK f \in ProfileFlows : request[r].flow = f
    BY <1>7 DEF DiscardProfileImages, ProfileFlows
  <2>1. /\ UNCHANGED profileVars
        /\ Ends(r) /\ prefix' = prefix /\ file' = file
        /\ stored' \subseteq stored /\ stored \ stored' \subseteq Holds(r)
    BY <1>7 DEF DiscardProfileImages, ProfileFlows, DiscardUploads, DeleteObjects, Holds
  <2>2. SameRows(f) /\ FlowInv(f) /\ f \in Flows /\ request[r].flow = f
    BY <1>1, <1>2, <2>1, <2>3
  <2> QED
    BY <1>1, <1>3, <2>1, <2>2, RequestEnded
<1>8. ASSUME CleanPrevious(r) PROVE FilesInv'
  <2> DEFINE previous == {o \in request[r].uploaded : file[o] = "LIVE"}
  <2>1. PICK kept \in SUBSET previous, undeleted \in SUBSET previous :
          stored' = stored \ (previous \ undeleted) /\ MarkFiles(previous \ kept, "DELETED")
    BY <1>8 DEF CleanPrevious
  <2>11. PICK f \in ProfileFlows : request[r].flow = f
    BY <1>8 DEF CleanPrevious, ProfileFlows
  <2>2. /\ f \in ProfileFlows /\ UNCHANGED profileVars /\ prefix' = prefix
        /\ request' = [request EXCEPT ![r] = NoRequest]
    BY <1>8 DEF CleanPrevious, ProfileFlows, Ends
  <2>3. previous \subseteq Holds(r)
    BY DEF Holds
  <2> HIDE DEF previous
  <2>4. SameRows(f) /\ FlowInv(f) /\ f \in Flows /\ request[r].flow = f
    BY <1>1, <1>2, <2>2, <2>11
  <2>5. /\ stored' \subseteq stored /\ file' \in [Objects -> FileRows]
        /\ \A o \in Objects \ Holds(r) : (o \in stored => o \in stored') /\ file'[o] = file[o]
    BY <1>1, <2>1, <2>3 DEF StoreInv, MarkFiles, FileRows
  <2>6. Holds(r) \intersect Referred(f) = {}
    BY <2>4 DEF FlowInv
  <2>7. /\ NoRequest \in RequestStates /\ NoRequest.flow = "NONE" /\ NoRequest.pc = "IDLE"
        /\ NoRequest.planned = {} /\ NoRequest.uploaded = {}
    BY DEF NoRequest, RequestStates
  <2>8. Doomed(f) = {}
    BY <2>2 DEF Doomed, ProfileFlows
  <2>9. Referred(f) \ Excused(f) \subseteq stored'
    BY <2>4, <2>5, <2>6 DEF FlowInv, Of
  <2>10. Moves(f, r, NoRequest)
    BY <2>2, <2>4, <2>5, <2>6, <2>7, <2>8, <2>9 DEF Moves, SameRows, Mine, FlowInv
  <2> QED
    BY <1>1, <1>3, <2>2, <2>4, <2>10, Moved
<1> QED
  BY <1>4, <1>5, <1>6, <1>7, <1>8

\* The flow of a portfolio refers to its images, the other two to one object.
LEMMA ProfileRows ==
    /\ Referred("AVATAR") = {avatar} \ {NoObject} /\ Referred("AVATAR")' = {avatar'} \ {NoObject}
    /\ Referred("CERTIFICATE") = {certificate.image} \ {NoObject}
    /\ Referred("CERTIFICATE")' = {certificate'.image} \ {NoObject}
    /\ Referred("PORTFOLIO") = Range(portfolio.images)
    /\ Referred("PORTFOLIO")' = Range(portfolio'.images)
BY DEF Referred

\* Avatar and certificate, step by step.
LEMMA AvatarKept ==
    ASSUME FilesInv, UNCHANGED <<imageVars, proofVars, chatFileVars>>, NEW r \in Requests,
           \/ SetAvatar(r) \/ RemoveAvatar(r)
           \/ SetCertificateImage(r) \/ DeleteCertificateImage(r) \/ DeleteCertificate
    PROVE  FilesInv'
<1> DEFINE a == "AVATAR"
           c == "CERTIFICATE"
<1>1. /\ StoreInv /\ OtherRows /\ FlowInv(a) /\ FlowInv(c)
      /\ a \in ProfileFlows /\ c \in ProfileFlows /\ a \in Flows /\ c \in Flows
  BY DEF FilesInv, Flows, ProfileFlows
<1>2. /\ certificate \in [exists: BOOLEAN, image: Objects \union {NoObject}]
      /\ portfolio \in [exists: BOOLEAN, images: Seq(Objects)] /\ IsInjective(portfolio.images)
  BY <1>1 DEF OtherRows
<1>3. ASSUME NEW r1 \in Requests, NEW o \in request[r1].uploaded, NEW f \in Flows, request[r1].flow = f
      PROVE  o \in Objects /\ o # NoObject /\ (FlowInv(f) => o \notin Referred(f))
  BY <1>1, <1>3, RequestFacts, StoreAssumption DEF FlowInv, Holds
<1>4. ASSUME SetAvatar(r) PROVE FilesInv'
  <2>1. PICK o \in request[r].uploaded : avatar' = o
    BY <1>4 DEF SetAvatar
  <2>2. /\ request[r].flow = a /\ request[r].pc = "PERSISTING" /\ Refers(r, avatar)
        /\ certificate' = certificate /\ portfolio' = portfolio
    BY <1>4 DEF SetAvatar, Stands
  <2>3. o \in Objects /\ o # NoObject /\ o \notin Referred(a)
    BY <1>1, <1>3, <2>2
  <2>4. /\ Referred(a)' \subseteq Referred(a) \union request[r].uploaded
        /\ avatar = NoObject \/ avatar \in Referred(a) \ Referred(a)'
    BY <2>1, <2>3, ProfileRows
  <2>5. Sound(a)
    BY <1>1, <2>2, <2>4, RefersTo
  <2> QED
    BY <1>1, <1>2, <2>2, <2>5, ProfileKept
<1>5. ASSUME RemoveAvatar(r) PROVE FilesInv'
  <2> DEFINE pc == "DISCARDING"
             objects == {avatar}
  <2>1. /\ request[r] = NoRequest /\ avatar # NoObject /\ avatar' = NoObject
        /\ MarkFiles(objects, "DELETED") /\ CutsOff(r, a, pc, objects)
        /\ stored' = stored /\ prefix' = prefix /\ certificate' = certificate /\ portfolio' = portfolio
    BY <1>5 DEF RemoveAvatar
  <2>2. objects \subseteq Referred(a) \ Referred(a)' /\ Referred(a)' \subseteq Referred(a)
    BY <2>1, ProfileRows
  <2>3. pc \in {"CLEANING", "DISCARDING"}
    OBVIOUS
  <2> HIDE DEF objects, pc
  <2>4. Sound(a)
    BY <1>1, <2>1, <2>2, <2>3, CutsOffSound
  <2> QED
    BY <1>1, <1>2, <2>1, <2>4, ProfileKept
<1>6. ASSUME SetCertificateImage(r) PROVE FilesInv'
  <2>1. PICK o \in request[r].uploaded : certificate' = [certificate EXCEPT !.image = o]
    BY <1>6 DEF SetCertificateImage
  <2>2. /\ request[r].flow = c /\ request[r].pc = "PERSISTING" /\ Refers(r, certificate.image)
        /\ avatar' = avatar /\ portfolio' = portfolio
    BY <1>6 DEF SetCertificateImage, Stands
  <2>3. o \in Objects /\ o # NoObject /\ o \notin Referred(c)
    BY <1>1, <1>3, <2>2
  <2>4. certificate'.image = o /\ certificate' \in [exists: BOOLEAN, image: Objects \union {NoObject}]
    BY <1>2, <2>1, <2>3
  <2>5. /\ Referred(c)' \subseteq Referred(c) \union request[r].uploaded
        /\ certificate.image = NoObject \/ certificate.image \in Referred(c) \ Referred(c)'
    BY <2>3, <2>4, ProfileRows
  <2>6. Sound(c)
    BY <1>1, <2>2, <2>5, RefersTo
  <2> QED
    BY <1>1, <1>2, <2>2, <2>4, <2>6, ProfileKept
<1>7. ASSUME DeleteCertificateImage(r) PROVE FilesInv'
  <2> DEFINE pc == "DISCARDING"
             objects == {certificate.image}
  <2>1. /\ request[r] = NoRequest /\ certificate.image # NoObject
        /\ certificate' = [certificate EXCEPT !.image = NoObject]
        /\ MarkFiles(objects, "DELETED") /\ CutsOff(r, c, pc, objects)
        /\ stored' = stored /\ prefix' = prefix /\ avatar' = avatar /\ portfolio' = portfolio
    BY <1>7 DEF DeleteCertificateImage
  <2>2. certificate'.image = NoObject
        /\ certificate' \in [exists: BOOLEAN, image: Objects \union {NoObject}]
    BY <1>2, <2>1
  <2>3. objects \subseteq Referred(c) \ Referred(c)' /\ Referred(c)' \subseteq Referred(c)
    BY <2>1, <2>2, ProfileRows
  <2>4. pc \in {"CLEANING", "DISCARDING"}
    OBVIOUS
  <2> HIDE DEF objects, pc
  <2>5. Sound(c)
    BY <1>1, <2>1, <2>3, <2>4, CutsOffSound
  <2> QED
    BY <1>1, <1>2, <2>1, <2>2, <2>5, ProfileKept
<1>8. ASSUME DeleteCertificate PROVE FilesInv'
  <2>1. /\ certificate' = [exists |-> FALSE, image |-> NoObject]
        /\ UNCHANGED storeVars /\ avatar' = avatar /\ portfolio' = portfolio
    BY <1>8 DEF DeleteCertificate
  <2>2. Referred(c)' = {} /\ Doomed(c)' = {} /\ Doomed(c) = {}
    BY <2>1, ProfileRows DEF Doomed
  <2>3. Sweeps(c)
    BY <1>1, <2>1, <2>2 DEF Sweeps, storeVars, StoreInv
  <2>4. Sound(c)
    BY <1>1, <2>3, Swept
  <2>5. certificate' \in [exists: BOOLEAN, image: Objects \union {NoObject}]
    BY <2>1
  <2> QED
    BY <1>1, <1>2, <2>1, <2>4, <2>5, ProfileKept
<1> QED
  BY <1>4, <1>5, <1>6, <1>7, <1>8

\* The portfolio, step by step.
LEMMA PortfolioKept ==
    ASSUME FilesInv, UNCHANGED <<imageVars, proofVars, chatFileVars>>, NEW r \in Requests,
           \/ CreatePortfolio(r) \/ ReplacePortfolioImage(r)
           \/ DeletePortfolioImage(r) \/ DeletePortfolio(r)
    PROVE  FilesInv'
<1> DEFINE p == "PORTFOLIO"
           images == portfolio.images
<1>1. StoreInv /\ OtherRows /\ FlowInv(p) /\ p \in ProfileFlows /\ p \in Flows
  BY DEF FilesInv, Flows, ProfileFlows
<1>2. /\ certificate \in [exists: BOOLEAN, image: Objects \union {NoObject}]
      /\ portfolio \in [exists: BOOLEAN, images: Seq(Objects)]
      /\ images \in Seq(Objects) /\ IsInjective(images)
  BY <1>1 DEF OtherRows
<1>3. Referred(p) = Range(images) /\ Referred(p)' = Range(portfolio'.images)
  BY ProfileRows
<1> HIDE DEF images
<1>4. ASSUME Sound(p), certificate' = certificate, avatar' = avatar,
             portfolio' \in [exists: BOOLEAN, images: Seq(Objects)], IsInjective(portfolio'.images)
      PROVE  FilesInv'
  BY <1>1, <1>2, <1>4, ProfileKept
<1>5. ASSUME CreatePortfolio(r) PROVE FilesInv'
  <2>1. PICK batch \in Orders(request[r].uploaded) : portfolio' = [exists |-> TRUE, images |-> batch]
    BY <1>5 DEF CreatePortfolio
  <2>2. /\ request[r].flow = p /\ request[r].pc = "PERSISTING" /\ Refers(r, NoObject)
        /\ avatar' = avatar /\ certificate' = certificate
    BY <1>5 DEF CreatePortfolio, Stands
  <2>3. batch \in Seq(Objects) /\ IsInjective(batch) /\ Range(batch) = request[r].uploaded
    BY <1>1, OrderedBatch, RequestFacts
  <2>4. /\ portfolio'.images = batch /\ IsInjective(portfolio'.images)
        /\ portfolio' \in [exists: BOOLEAN, images: Seq(Objects)]
    BY <2>1, <2>3
  <2>5. Sound(p)
    BY <1>1, <1>3, <2>2, <2>3, <2>4, RefersTo
  <2> QED
    BY <1>4, <2>2, <2>4, <2>5
<1>6. ASSUME ReplacePortfolioImage(r) PROVE FilesInv'
  <2>1. PICK o \in request[r].uploaded :
          \/ /\ images = <<>>
             /\ portfolio' = [portfolio EXCEPT !.images = <<o>>]
             /\ Refers(r, NoObject)
          \/ \E i \in DOMAIN images :
                /\ portfolio' = [portfolio EXCEPT !.images[i] = o]
                /\ Refers(r, images[i])
    BY <1>6 DEF ReplacePortfolioImage, images
  <2>2. /\ request[r].flow = p /\ request[r].pc = "PERSISTING"
        /\ avatar' = avatar /\ certificate' = certificate
    BY <1>6 DEF ReplacePortfolioImage, Stands
  <2>3. o \in Objects /\ o \notin Range(images)
    BY <1>1, <1>3, <2>2, RequestFacts DEF FlowInv, Holds
  <2>4. CASE images = <<>> /\ portfolio' = [portfolio EXCEPT !.images = <<o>>] /\ Refers(r, NoObject)
    <3> DEFINE one == <<o>>
    <3>1. one \in Seq(Objects) /\ DOMAIN one = {1} /\ one[1] = o
      BY <2>3
    <3>2. IsInjective(one) /\ Range(one) = {o}
      BY <3>1 DEF IsInjective, Range
    <3>3. /\ portfolio'.images = one /\ portfolio' \in [exists: BOOLEAN, images: Seq(Objects)]
      BY <1>2, <2>4, <3>1
    <3> HIDE DEF one
    <3>4. Sound(p)
      BY <1>1, <1>3, <2>2, <2>4, <3>2, <3>3, RefersTo
    <3> QED
      BY <1>4, <2>2, <3>2, <3>3, <3>4
  <2>5. ASSUME NEW i \in DOMAIN images, portfolio' = [portfolio EXCEPT !.images[i] = o], Refers(r, images[i])
        PROVE  FilesInv'
    <3> DEFINE next == [images EXCEPT ![i] = o]
               previous == images[i]
    <3>1. /\ next \in Seq(Objects) /\ IsInjective(next)
          /\ Range(next) = (Range(images) \ {previous}) \union {o} /\ previous \in Range(images)
      BY <1>2, <2>3, ReplacedAt
    <3>2. portfolio' = [portfolio EXCEPT !.images = next]
      BY <2>5 DEF images
    <3> HIDE DEF next
    <3>3. /\ portfolio'.images = next /\ portfolio' \in [exists: BOOLEAN, images: Seq(Objects)]
      BY <1>2, <3>1, <3>2
    <3>4. Refers(r, previous)
      BY <2>5
    <3>5. previous # o
      BY <2>3, <3>1
    <3> HIDE DEF previous
    <3>6. /\ previous \in Referred(p) \ Referred(p)'
          /\ Referred(p)' \subseteq Referred(p) \union request[r].uploaded
      BY <1>3, <3>1, <3>3, <3>5
    <3>7. Sound(p)
      BY <1>1, <2>2, <3>4, <3>6, RefersTo
    <3> QED
      BY <1>4, <2>2, <3>1, <3>3, <3>7
  <2> QED
    BY <2>1, <2>4, <2>5
<1>7. ASSUME DeletePortfolioImage(r) PROVE FilesInv'
  <2>1. PICK i \in DOMAIN images :
          /\ portfolio' = [portfolio EXCEPT !.images = RemoveAt(@, i)]
          /\ MarkFiles({images[i]}, "DELETED") /\ CutsOff(r, p, "DISCARDING", {images[i]})
    BY <1>7 DEF DeletePortfolioImage, images
  <2>2. /\ request[r] = NoRequest /\ stored' = stored /\ prefix' = prefix
        /\ avatar' = avatar /\ certificate' = certificate
    BY <1>7 DEF DeletePortfolioImage
  <2> DEFINE next == RemoveAt(images, i)
             objects == {images[i]}
             pc == "DISCARDING"
  <2>3. /\ next \in Seq(Objects) /\ IsInjective(next)
        /\ Range(next) = Range(images) \ objects /\ objects \subseteq Range(images)
    BY <1>2, RemovedAt
  <2>4. portfolio' = [portfolio EXCEPT !.images = next]
    BY <2>1 DEF images
  <2>5. MarkFiles(objects, "DELETED") /\ CutsOff(r, p, pc, objects) /\ pc \in {"CLEANING", "DISCARDING"}
    BY <2>1
  <2> HIDE DEF next, objects, pc
  <2>6. /\ portfolio'.images = next /\ portfolio' \in [exists: BOOLEAN, images: Seq(Objects)]
    BY <1>2, <2>3, <2>4
  <2>7. objects \subseteq Referred(p) \ Referred(p)' /\ Referred(p)' \subseteq Referred(p)
    BY <1>3, <2>3, <2>6
  <2>8. Sound(p)
    BY <1>1, <2>2, <2>5, <2>7, CutsOffSound
  <2> QED
    BY <1>4, <2>2, <2>3, <2>6, <2>8
<1>8. ASSUME DeletePortfolio(r) PROVE FilesInv'
  <2> DEFINE next == <<>>
             objects == Range(images)
             pc == "CLEANING"
  <2>1. /\ request[r] = NoRequest /\ portfolio' = [exists |-> FALSE, images |-> next]
        /\ CutsOff(r, p, pc, objects) /\ file' = file /\ stored' = stored /\ prefix' = prefix
        /\ avatar' = avatar /\ certificate' = certificate /\ pc \in {"CLEANING", "DISCARDING"}
    BY <1>8 DEF DeletePortfolio, images
  <2>2. next \in Seq(Objects) /\ IsInjective(next) /\ Range(next) = {}
    BY DEF IsInjective, Range
  <2> HIDE DEF next, objects, pc
  <2>3. /\ portfolio'.images = next /\ portfolio' \in [exists: BOOLEAN, images: Seq(Objects)]
    BY <2>1, <2>2
  <2>4. objects \subseteq Referred(p) \ Referred(p)' /\ Referred(p)' \subseteq Referred(p)
    BY <1>3, <2>2, <2>3 DEF objects
  <2>5. Sound(p)
    BY <1>1, <2>1, <2>4, CutsOffSound
  <2> QED
    BY <1>4, <2>1, <2>2, <2>3, <2>5
<1> QED
  BY <1>5, <1>6, <1>7, <1>8

\* What the three flows do.
LEMMA ProfileFilesKept ==
    ASSUME FilesInv, UNCHANGED <<imageVars, proofVars, chatFileVars>>, NEW r \in Requests, ProfileStep(r)
    PROVE  FilesInv'
BY ProfileShared, AvatarKept, PortfolioKept DEF ProfileStep, ProfileFlows

-----------------------------------------------------------------------------
(* The images of a Quest *)

\* Somebody will delete object o, or it is in use, or its upload was rejected.
Covered(o) ==
    \/ InHand(o)
    \/ \E k \in Keys : /\ command[k].payload \in {"NOT_DRAFT", "LIMIT_REACHED"}
                       /\ o \in command[k].objects

\* An image upload and its command, next to the others.
LEMMA UploadFacts ==
    ASSUME FilesInv, NEW r \in Requests, request[r].flow = "IMAGE", NEW k, k = usedKey[r]
    PROVE  /\ k \in Keys /\ command[k] \in CommandRows /\ UploadOK(r) /\ CommandOK(k)
           /\ Holds(r) \subseteq command[k].objects
           /\ command[k].objects \intersect stored \subseteq request[r].uploaded
           /\ Holds(r) \intersect Referred("IMAGE") = {}
           /\ \A s \in Requests : request[s].flow = "IMAGE" /\ s # r =>
                 /\ usedKey[s] \in Keys /\ usedKey[s] # k
                 /\ Holds(s) \intersect command[k].objects = {}
                 /\ command[usedKey[s]].objects \intersect command[k].objects = {}
<1>1. ImageInv /\ FlowInv("IMAGE")
  BY DEF FilesInv, Flows
<1>2. k \in Keys /\ command[k] \in CommandRows /\ UploadOK(r) /\ CommandOK(k)
  BY <1>1 DEF ImageInv
<1>3. ASSUME NEW s \in Requests, request[s].flow = "IMAGE", s # r
      PROVE  /\ usedKey[s] \in Keys /\ usedKey[s] # k
             /\ Holds(s) \intersect command[k].objects = {}
             /\ command[usedKey[s]].objects \intersect command[k].objects = {}
  <2>1. usedKey[s] \in Keys /\ usedKey[s] # k /\ UploadOK(s)
    BY <1>1, <1>3 DEF ImageInv
  <2>2. command[usedKey[s]].objects \intersect command[k].objects = {}
    BY <1>1, <1>2, <2>1 DEF ImageInv
  <2> QED
    BY <2>1, <2>2 DEF UploadOK
<1> QED
  BY <1>1, <1>2, <1>3 DEF UploadOK, FlowInv

\* Another upload is undisturbed by changes to objects that are not its own.
LEMMA OtherUpload ==
    ASSUME FilesInv, NEW s \in Requests, request[s].flow = "IMAGE", request'[s] = request[s],
           usedKey' = usedKey, command'[usedKey[s]] = command[usedKey[s]],
           \A o \in command[usedKey[s]].objects : o \in stored' => o \in stored,
           \A o \in Holds(s) : file'[o] = file[o] \/ (file[o] = "DELETED" /\ o \notin stored')
    PROVE  UploadOK(s)'
<1>1. UploadOK(s)
  BY DEF FilesInv, ImageInv
<1>2. Holds(s)' = Holds(s) /\ (Uploading(s)' <=> Uploading(s)) /\ request[s].uploaded \subseteq Holds(s)
  BY DEF Holds, Uploading
<1>3. (command[usedKey[s]].objects \intersect stored \subseteq request[s].uploaded)'
  BY <1>1 DEF UploadOK
<1>4. (request[s].pc \in {"DISCARDING", "RECORDING"} => \A o \in Holds(s) : file[o] = "NONE")'
  BY <1>1, <1>2 DEF UploadOK
<1>5. (request[s].pc = "RELEASING" => \A o \in request[s].uploaded : file[o] = "DELETED" \/ o \notin stored)'
  <2>1. ASSUME request[s].pc = "RELEASING", NEW o \in request[s].uploaded
        PROVE  file'[o] = "DELETED" \/ o \notin stored'
    <3>1. file[o] = "DELETED" \/ o \notin stored
      BY <1>1, <2>1 DEF UploadOK
    <3>2. o \in command[usedKey[s]].objects /\ o \in Holds(s)
      BY <1>1, <1>2 DEF UploadOK
    <3> QED
      BY <3>1, <3>2
  <2> QED
    BY <2>1
<1> QED
  BY <1>1, <1>2, <1>3, <1>4, <1>5 DEF UploadOK

\* A step of image upload r that changes its own objects and its own command.
UploadMoves(r) ==
    LET k == usedKey[r] IN
    /\ request[r].flow = "IMAGE" /\ request'[r].flow \in {"IMAGE", "NONE"}
    /\ \A s \in Requests \ {r} : request'[s] = request[s]
    /\ questImage' = questImage /\ removing' = removing /\ usedKey' = usedKey /\ prefix' = prefix
    /\ command' \in [Keys -> CommandRows] /\ \A j \in Keys \ {k} : command'[j] = command[j]
    /\ command'[k].objects \subseteq command[k].objects /\ command'[k].status # "NONE"
    /\ command'[k].status = "PROCESSING" => command[k].status = "PROCESSING"
    /\ \A o \in Objects \ Holds(r) : (o \in stored' <=> o \in stored) /\ file'[o] = file[o]
    /\ \A o \in Holds(r) : /\ file'[o] \in {file[o], "DELETED"}
                           /\ o \in stored' => o \in stored \/ file'[o] = "NONE"
    /\ request'[r].flow = "IMAGE" => UploadOK(r)'
    /\ \A o \in command[k].objects : o \in stored' => Covered(o)'

\* It keeps what is known of the images.
LEMMA UploadMoved ==
    ASSUME FilesInv, StoreInv', NEW r \in Requests, UploadMoves(r)
    PROVE  ImageInv'
<1> DEFINE k == usedKey[r]
<1>1. ImageInv /\ FlowInv("IMAGE") /\ StoreInv /\ request[r].flow = "IMAGE"
  BY DEF FilesInv, Flows, UploadMoves
<1>2. /\ k \in Keys /\ command[k] \in CommandRows /\ CommandOK(k)
      /\ Holds(r) \subseteq command[k].objects
      /\ Holds(r) \intersect Referred("IMAGE") = {}
      /\ \A s \in Requests : request[s].flow = "IMAGE" /\ s # r =>
            /\ usedKey[s] \in Keys /\ usedKey[s] # k
            /\ Holds(s) \intersect command[k].objects = {}
            /\ command[usedKey[s]].objects \intersect command[k].objects = {}
  BY <1>1, UploadFacts
<1>3. /\ \A s \in Requests \ {r} : request'[s] = request[s]
      /\ questImage' = questImage /\ removing' = removing /\ usedKey' = usedKey /\ prefix' = prefix
      /\ command' \in [Keys -> CommandRows] /\ \A j \in Keys \ {k} : command'[j] = command[j]
      /\ command'[k].objects \subseteq command[k].objects /\ command'[k].status # "NONE"
      /\ command'[k].status = "PROCESSING" => command[k].status = "PROCESSING"
  BY DEF UploadMoves
<1>4. /\ \A o \in Objects \ Holds(r) : (o \in stored' <=> o \in stored) /\ file'[o] = file[o]
      /\ \A o \in Holds(r) : /\ file'[o] \in {file[o], "DELETED"}
                             /\ o \in stored' => o \in stored \/ file'[o] = "NONE"
      /\ request'[r].flow = "IMAGE" => UploadOK(r)'
      /\ \A o \in command[k].objects : o \in stored' => Covered(o)'
  BY DEF UploadMoves
<1> HIDE DEF k
<1>5. Of("IMAGE")' = Of("IMAGE") /\ \A j \in Keys : command[j].objects \subseteq Of("IMAGE") /\ CommandOK(j)
  BY <1>1, <1>3 DEF Of, ImageInv, CommandOK
<1>6. \A o \in Objects : file'[o] \in {file[o], "DELETED"}
  BY <1>4
<1>7. ASSUME NEW j \in Keys PROVE CommandOK(j)'
  <2>1. command'[j].objects \subseteq Of("IMAGE")' /\ command'[j].objects \subseteq command[j].objects
    BY <1>3, <1>5
  <2>2. command'[j].status = "NONE" => command'[j] = NoCommand
    BY <1>3, <1>5 DEF CommandOK
  <2>3. ASSUME command'[j].status = "PROCESSING", NEW o \in command'[j].objects PROVE file'[o] # "LIVE"
    <3>1. command[j].status = "PROCESSING" /\ o \in command[j].objects /\ o \in Objects
      BY <1>3, <1>5, <2>1, <2>3 DEF Of
    <3>2. file[o] # "LIVE"
      BY <1>5, <3>1 DEF CommandOK
    <3> QED
      BY <1>6, <3>1, <3>2
  <2> QED
    BY <2>1, <2>2, <2>3 DEF CommandOK
<1>8. \A i, j \in Keys : i # j => command'[i].objects \intersect command'[j].objects = {}
  BY <1>1, <1>3 DEF ImageInv
<1>9. ASSUME NEW s \in Requests, request'[s].flow = "IMAGE" PROVE UploadOK(s)'
  <2>1. CASE s = r
    BY <1>4, <1>9, <2>1
  <2>2. CASE s # r
    <3>1. /\ request'[s] = request[s] /\ request[s].flow = "IMAGE"
          /\ usedKey[s] \in Keys /\ usedKey[s] # k
          /\ command[usedKey[s]].objects \intersect command[k].objects = {}
          /\ Holds(s) \intersect command[k].objects = {} /\ Holds(s) \subseteq Objects
      BY <1>1, <1>2, <1>3, <1>9, <2>2, RequestFacts
    <3>2. command'[usedKey[s]] = command[usedKey[s]]
      BY <1>3, <3>1
    <3>3. command[usedKey[s]].objects \subseteq Objects
      BY <1>5, <3>1 DEF Of
    <3>4. \A o \in command[usedKey[s]].objects : o \in stored' => o \in stored
      BY <1>2, <1>4, <3>1, <3>3
    <3>5. \A o \in Holds(s) : file'[o] = file[o]
      BY <1>2, <1>4, <3>1
    <3> QED
      BY <1>3, <3>1, <3>2, <3>4, <3>5, OtherUpload
  <2> QED
    BY <2>1, <2>2
<1>10. \A s, t \in Requests :
          request'[s].flow = "IMAGE" /\ request'[t].flow = "IMAGE" /\ s # t => usedKey'[s] # usedKey'[t]
  BY <1>1, <1>3 DEF ImageInv
<1>11. \A o \in Of("IMAGE")' : file'[o] = "CLEANED" => o \notin stored'
  <2>1. \A o \in Of("IMAGE") : o \in Objects /\ (file[o] = "CLEANED" => o \notin stored)
    BY <1>1 DEF ImageInv, Of
  <2> QED
    BY <1>4, <1>5, <2>1
<1>12. \A o \in Range(questImage') : file'[o] = "LIVE"
  <2>1. Range(questImage) = Referred("IMAGE") /\ Range(questImage) \subseteq Objects
    BY <1>1 DEF Referred, FlowInv, Of
  <2> QED
    BY <1>1, <1>2, <1>3, <1>4, <2>1 DEF ImageInv
<1>13. LostOnlyAfterRejection'
  <2> SUFFICES ASSUME NEW o \in stored', prefix'[o] = "IMAGE" PROVE Covered(o)'
    BY DEF LostOnlyAfterRejection, Covered
  <2>1. CASE o \in command[k].objects
    BY <1>4, <2>1
  <2>2. CASE o \notin command[k].objects
    <3>1. o \in Objects /\ o \notin Holds(r) /\ o \in stored /\ file'[o] = file[o] /\ prefix[o] = "IMAGE"
      BY <1>2, <1>3, <1>4, <2>2 DEF StoreInv
    <3>2. Covered(o)
      BY <1>1, <3>1 DEF ImageInv, LostOnlyAfterRejection, Covered
    <3>3. \A s \in Requests : o \in request[s].uploaded => s # r
      BY <3>1 DEF Holds
    <3>4. InHand(o) => InHand(o)'
      BY <1>3, <2>2, <3>1, <3>3 DEF InHand
    <3> QED
      BY <1>3, <2>2, <3>2, <3>4 DEF Covered
  <2> QED
    BY <2>1, <2>2
<1> QED
  <2>1. questImage' \in Seq(Objects) /\ IsInjective(questImage') /\ usedKey' \in [Requests -> Keys]
        /\ (removing' # NoObject => removing' \in Range(questImage'))
    BY <1>1, <1>3 DEF ImageInv
  <2> QED
    BY <2>1, <1>3, <1>7, <1>8, <1>9, <1>10, <1>11, <1>12, <1>13 DEF ImageInv

\* A step of a sweep, of a removal, or of nobody's upload.
ImagesSwept ==
    /\ request' = request /\ prefix' = prefix /\ usedKey' = usedKey /\ stored' \subseteq stored
    /\ questImage' \in Seq(Objects) /\ IsInjective(questImage')
    /\ \A o \in Range(questImage') : file'[o] = "LIVE"
    /\ removing' # NoObject => removing' \in Range(questImage')
    /\ command' \in [Keys -> CommandRows]
    /\ \A k \in Keys : /\ command'[k].objects = command[k].objects
                       /\ command'[k].status = "NONE" => command'[k] = command[k]
                       /\ command'[k].status = "PROCESSING" => command[k].status = "PROCESSING"
    /\ \A r \in Requests : request[r].flow = "IMAGE" => command'[usedKey[r]] = command[usedKey[r]]
    /\ \A o \in Objects : \/ file'[o] = file[o]
                          \/ /\ file'[o] = "DELETED"
                             /\ \A r \in Requests : request[r].flow = "IMAGE" => o \notin Holds(r)
                          \/ file[o] = "DELETED" /\ file'[o] = "CLEANED" /\ o \notin stored'
    /\ \A o \in Of("IMAGE") : o \in stored' /\ Covered(o) => Covered(o)'

\* It keeps what is known of the images.
LEMMA ImagesSweptKept ==
    ASSUME FilesInv, ImagesSwept
    PROVE  ImageInv'
<1>1. ImageInv /\ StoreInv
  BY DEF FilesInv
<1>2. /\ request' = request /\ prefix' = prefix /\ usedKey' = usedKey /\ stored' \subseteq stored
      /\ questImage' \in Seq(Objects) /\ IsInjective(questImage')
      /\ \A o \in Range(questImage') : file'[o] = "LIVE"
      /\ removing' # NoObject => removing' \in Range(questImage')
      /\ command' \in [Keys -> CommandRows]
  BY DEF ImagesSwept
<1>3. \A k \in Keys : /\ command'[k].objects = command[k].objects
                      /\ command'[k].status = "NONE" => command'[k] = command[k]
                      /\ command'[k].status = "PROCESSING" => command[k].status = "PROCESSING"
  BY DEF ImagesSwept
<1>4. \A o \in Objects : \/ file'[o] = file[o]
                         \/ /\ file'[o] = "DELETED"
                            /\ \A r \in Requests : request[r].flow = "IMAGE" => o \notin Holds(r)
                         \/ file[o] = "DELETED" /\ file'[o] = "CLEANED" /\ o \notin stored'
  BY DEF ImagesSwept
<1>5. Of("IMAGE")' = Of("IMAGE") /\ Of("IMAGE") \subseteq Objects
  BY <1>2 DEF Of
<1>6. ASSUME NEW k \in Keys PROVE CommandOK(k)'
  <2>1. CommandOK(k)
    BY <1>1 DEF ImageInv
  <2> QED
    BY <1>3, <1>4, <1>5, <2>1 DEF CommandOK
<1>7. ASSUME NEW r \in Requests, request'[r].flow = "IMAGE" PROVE UploadOK(r)'
  <2>1. /\ request[r].flow = "IMAGE" /\ request'[r] = request[r]
        /\ command'[usedKey[r]] = command[usedKey[r]] /\ Holds(r) \subseteq Objects
    BY <1>1, <1>2, <1>7, RequestFacts DEF ImagesSwept
  <2>2. \A o \in Holds(r) : file'[o] = file[o] \/ (file[o] = "DELETED" /\ o \notin stored')
    <3>1. UploadOK(r) /\ (request[r].flow = "IMAGE")
      BY <1>1, <2>1 DEF ImageInv
    <3> QED
      BY <1>4, <2>1
  <2> QED
    BY <1>2, <2>1, <2>2, OtherUpload
<1>8. \A o \in Of("IMAGE") : file'[o] = "CLEANED" => o \notin stored'
  BY <1>1, <1>2, <1>4, <1>5 DEF ImageInv
<1>9. LostOnlyAfterRejection'
  <2> SUFFICES ASSUME NEW o \in stored', prefix'[o] = "IMAGE" PROVE Covered(o)'
    BY DEF LostOnlyAfterRejection, Covered
  <2>1. o \in Of("IMAGE") /\ o \in stored
    BY <1>1, <1>2 DEF Of, StoreInv
  <2>2. Covered(o)
    BY <1>1, <2>1 DEF ImageInv, LostOnlyAfterRejection, Covered, Of
  <2> QED
    BY <2>1, <2>2 DEF ImagesSwept
<1>10. \A j, k \in Keys : j # k => command'[j].objects \intersect command'[k].objects = {}
  BY <1>1, <1>3 DEF ImageInv
<1>11. /\ usedKey' \in [Requests -> Keys]
       /\ \A r, s \in Requests :
          request'[r].flow = "IMAGE" /\ request'[s].flow = "IMAGE" /\ r # s => usedKey'[r] # usedKey'[s]
  BY <1>1, <1>2 DEF ImageInv
<1> QED
  BY <1>2, <1>5, <1>6, <1>7, <1>8, <1>9, <1>10, <1>11 DEF ImageInv

\* What the flow of the images leaves alone.
LEMMA ImageFlowKept ==
    ASSUME FilesInv, Sound("IMAGE"), ImageInv', UNCHANGED <<proofVars, profileVars, chatFileVars>>
    PROVE  FilesInv'
<1>1. OtherRows'
  BY DEF FilesInv, OtherRows, profileVars, chatFileVars
<1>2. Others("IMAGE") /\ "IMAGE" \in Flows
  BY DEF Others, chatFileVars, profileVars, proofVars, Flows
<1> QED
  BY <1>1, <1>2, StepKept

\* A command that is completed names the same objects.
LEMMA CompletedCommand ==
    ASSUME command \in [Keys -> CommandRows], NEW k \in Keys,
           NEW payload \in {"SUCCESS"} \union Rejections, Complete(k, payload)
    PROVE  /\ command' \in [Keys -> CommandRows]
           /\ command'[k].status = "COMPLETED" /\ command'[k].payload = payload
           /\ command'[k].objects = command[k].objects /\ command'[k].expired = command[k].expired
           /\ \A j \in Keys \ {k} : command'[j] = command[j]
<1> DEFINE row == [command[k] EXCEPT !.status = "COMPLETED", !.payload = payload]
<1>1. row \in CommandRows /\ row.status = "COMPLETED" /\ row.payload = payload
      /\ row.objects = command[k].objects /\ row.expired = command[k].expired
  BY DEF CommandRows
<1>2. command' = [command EXCEPT ![k] = row]
  BY DEF Complete
<1> HIDE DEF row
<1> QED
  BY <1>1, <1>2

\* The facts every step of the images starts from.
LEMMA ImageFacts ==
    ASSUME FilesInv
    PROVE  /\ StoreInv /\ ImageInv /\ FlowInv("IMAGE") /\ "IMAGE" \in Flows
           /\ command \in [Keys -> CommandRows] /\ usedKey \in [Requests -> Keys]
           /\ Referred("IMAGE") = Range(questImage) /\ Referred("IMAGE")' = Range(questImage')
           /\ Excused("IMAGE") = {removing} \union removalFailed
           /\ Excused("IMAGE")' = {removing'} \union removalFailed'
           /\ Range(questImage) \subseteq Objects
           /\ \A k \in Keys : command[k] \in CommandRows /\ command[k].objects \subseteq Of("IMAGE")
<1>1. /\ StoreInv /\ ImageInv /\ FlowInv("IMAGE") /\ "IMAGE" \in Flows
      /\ command \in [Keys -> CommandRows] /\ usedKey \in [Requests -> Keys]
  BY DEF FilesInv, ImageInv, Flows
<1>2. /\ Referred("IMAGE") = Range(questImage) /\ Referred("IMAGE")' = Range(questImage')
      /\ Excused("IMAGE") = {removing} \union removalFailed
      /\ Excused("IMAGE")' = {removing'} \union removalFailed'
  BY DEF Referred, Excused
<1>3. Range(questImage) \subseteq Objects
  BY <1>1, <1>2 DEF FlowInv, Of
<1> QED
  BY <1>1, <1>2, <1>3 DEF ImageInv, CommandOK

\* The sweep has the same to do while the rows and the commands it works on stay.
LEMMA SameDoomedImages ==
    ASSUME \A o \in Objects : file[o] = "DELETED" => prefix'[o] = prefix[o],
           \A o \in Objects : prefix[o] = "IMAGE" => prefix'[o] = "IMAGE",
           \A o \in Objects : file'[o] = file[o] \/ (file[o] # "DELETED" /\ file'[o] # "DELETED"),
           \A k \in Keys : /\ Abandoned(k)' <=> Abandoned(k)
                           /\ Abandoned(k) => command'[k].objects = command[k].objects
    PROVE  Doomed("IMAGE")' = Doomed("IMAGE")
BY DEF Doomed

\* An upload begins: its command names the objects before the first is written.
LEMMA CheckImageUploadKept ==
    ASSUME FilesInv, NEW r \in Requests, NEW n, CheckImageUpload(r, n)
    PROVE  Sound("IMAGE") /\ ImageInv'
<1> DEFINE k == usedKey[r]
           f == "IMAGE"
<1>1. /\ StoreInv /\ ImageInv /\ FlowInv(f) /\ f \in Flows /\ k \in Keys
      /\ command \in [Keys -> CommandRows] /\ usedKey \in [Requests -> Keys]
      /\ Range(questImage) \subseteq Objects
      /\ \A j \in Keys : command[j].objects \subseteq Of(f) /\ CommandOK(j)
  BY ImageFacts DEF ImageInv
<1>2. /\ request[r] = NoRequest /\ command[k].status = "NONE" /\ StartUpload(r, f, n)
      /\ command' = [command EXCEPT ![k] =
              [NoCommand EXCEPT !.status = "PROCESSING", !.payload = "UPLOAD",
                                !.objects = request'[r].planned]]
      /\ stored' = stored /\ file' = file /\ questImage' = questImage /\ usedKey' = usedKey
      /\ removing' = removing /\ removalFailed' = removalFailed
  BY DEF CheckImageUpload, StartUpload
<1>3. PICK new \in SUBSET {o \in Objects : prefix[o] = "NONE"} :
          /\ prefix' = [o \in Objects |-> IF o \in new THEN f ELSE prefix[o]]
          /\ request' = [request EXCEPT ![r] =
                [flow |-> f, pc |-> "UPLOADING", planned |-> new, uploaded |-> {}]]
  BY <1>2 DEF StartUpload
<1>4. /\ request'[r] = [flow |-> f, pc |-> "UPLOADING", planned |-> new, uploaded |-> {}]
      /\ \A s \in Requests \ {r} : request'[s] = request[s]
  BY <1>1, <1>3 DEF StoreInv
<1> DEFINE row == [NoCommand EXCEPT !.status = "PROCESSING", !.payload = "UPLOAD", !.objects = new]
<1>5. row \in CommandRows /\ command' = [command EXCEPT ![k] = row]
  <2>1. row \in CommandRows
    BY <1>3 DEF CommandRows, NoCommand
  <2>2. request'[r].planned = new
    BY <1>4
  <2> QED
    BY <1>2, <2>1, <2>2
<1> HIDE DEF row
<1>6. /\ command' \in [Keys -> CommandRows] /\ \A j \in Keys \ {k} : command'[j] = command[j]
      /\ command'[k] = row
  BY <1>1, <1>5
<1>7. /\ command'[k].status = "PROCESSING" /\ command'[k].payload = "UPLOAD"
      /\ command'[k].objects = new /\ command'[k].expired = FALSE
  BY <1>6 DEF row, NoCommand
<1>8. command[k] = NoCommand /\ command[k].objects = {} /\ command[k].payload = "NONE"
  BY <1>1, <1>2 DEF CommandOK, NoCommand
<1>9. /\ \A o \in new : prefix[o] = "NONE" /\ prefix'[o] = f /\ o \notin stored /\ file[o] = "NONE"
      /\ \A o \in Objects \ new : prefix'[o] = prefix[o]
      /\ new \subseteq Objects
  BY <1>1, <1>3 DEF StoreInv
<1>10. Of(f)' = Of(f) \union new /\ Of(f) \intersect new = {}
  BY <1>9 DEF Of
<1> HIDE DEF k, f
<1>11. SameRows(f)
  <2>1. \A j \in Keys : /\ Abandoned(j)' <=> Abandoned(j)
                        /\ Abandoned(j) => command'[j].objects = command[j].objects
    BY <1>2, <1>6, <1>7 DEF Abandoned
  <2>2. /\ \A o \in Objects : file[o] = "DELETED" => prefix'[o] = prefix[o]
        /\ \A o \in Objects : prefix[o] = "IMAGE" => prefix'[o] = "IMAGE"
        /\ \A o \in Objects : file'[o] = file[o]
    BY <1>2, <1>9
  <2>3. Doomed("IMAGE")' = Doomed("IMAGE")
    BY <2>1, <2>2, SameDoomedImages
  <2> QED
    BY <2>3, <1>2 DEF SameRows, Referred, Excused, f
<1>12. Sound(f)
  BY <1>1, <1>2, <1>11, Started
<1>13. ASSUME NEW j \in Keys PROVE CommandOK(j)'
  <2>1. CASE j = k
    BY <1>2, <1>7, <1>9, <1>10, <2>1 DEF CommandOK, f
  <2>2. CASE j # k
    BY <1>1, <1>2, <1>6, <1>10, <2>2 DEF CommandOK, f
  <2> QED
    BY <2>1, <2>2
<1>14. \A i, j \in Keys : i # j => command'[i].objects \intersect command'[j].objects = {}
  <2>1. \A j \in Keys : command[j].objects \intersect new = {}
    BY <1>1, <1>10
  <2> QED
    BY <1>1, <1>6, <1>7, <2>1 DEF ImageInv
<1>15. ASSUME NEW s \in Requests, s # r, request[s].flow = f PROVE usedKey[s] # k /\ UploadOK(s)'
  <2>1. UploadOK(s) /\ usedKey[s] \in Keys
    BY <1>1, <1>15 DEF ImageInv, f
  <2>2. command[usedKey[s]].status # "NONE"
    BY <2>1 DEF UploadOK
  <2>3. usedKey[s] # k /\ command'[usedKey[s]] = command[usedKey[s]]
    BY <1>2, <1>6, <2>1, <2>2
  <2> QED
    BY <1>2, <1>4, <1>15, <2>3, OtherUpload DEF f
<1>16. UploadOK(r)'
  <2>1. Holds(r)' = new /\ request'[r].uploaded = {} /\ request'[r].pc = "UPLOADING"
    BY <1>4 DEF Holds
  <2>2. usedKey'[r] = k
    BY <1>2 DEF k
  <2> QED
    BY <1>2, <1>7, <1>9, <2>1, <2>2 DEF UploadOK
<1>17. /\ \A s \in Requests : request'[s].flow = "IMAGE" => UploadOK(s)'
       /\ \A s, t \in Requests :
            request'[s].flow = "IMAGE" /\ request'[t].flow = "IMAGE" /\ s # t => usedKey'[s] # usedKey'[t]
  <2>1. usedKey'[r] = k
    BY <1>2 DEF k
  <2> QED
    BY <1>1, <1>2, <1>4, <1>15, <1>16, <2>1 DEF ImageInv, f
<1>18. \A o \in Of("IMAGE")' : file'[o] = "CLEANED" => o \notin stored'
  BY <1>1, <1>2, <1>9, <1>10 DEF ImageInv, f
<1>19. LostOnlyAfterRejection'
  <2> SUFFICES ASSUME NEW o \in stored', prefix'[o] = "IMAGE" PROVE Covered(o)'
    BY DEF LostOnlyAfterRejection, Covered
  <2>1. o \in stored /\ o \notin new /\ o \in Objects /\ prefix[o] = "IMAGE"
    BY <1>1, <1>2, <1>9 DEF StoreInv
  <2>2. Covered(o)
    BY <1>1, <2>1 DEF ImageInv, LostOnlyAfterRejection, Covered
  <2>3. request[r].uploaded = {} /\ o \notin command[k].objects
    BY <1>2, <1>8 DEF NoRequest
  <2>4. InHand(o) => InHand(o)'
    BY <1>2, <1>4, <1>6, <2>3 DEF InHand
  <2> QED
    BY <1>6, <2>2, <2>3, <2>4 DEF Covered
<1>20. ImageInv'
  BY <1>1, <1>2, <1>6, <1>13, <1>14, <1>17, <1>18, <1>19 DEF ImageInv
<1> QED
  BY <1>12, <1>20 DEF f

\* Objects are written while their command is open.
LEMMA UploadImageKept ==
    ASSUME FilesInv, NEW r \in Requests, NEW o \in Objects, UploadImage(r, o)
    PROVE  Sound("IMAGE") /\ ImageInv'
<1> DEFINE k == usedKey[r]
           f == "IMAGE"
<1>1. /\ StoreInv /\ FlowInv(f) /\ f \in Flows /\ command \in [Keys -> CommandRows]
      /\ \A j \in Keys : command[j].objects \subseteq Of(f)
  BY ImageFacts
<1>2. /\ request[r].flow = f /\ request[r].pc = "UPLOADING" /\ UNCHANGED imageVars
      /\ prefix' = prefix /\ file' = file
  BY DEF UploadImage, Stands, PutObject, PutFails
<1>3. /\ k \in Keys /\ UploadOK(r) /\ Holds(r) \subseteq command[k].objects
      /\ command[k].objects \intersect stored \subseteq request[r].uploaded
  BY <1>2, UploadFacts
<1>4. /\ RequestOK(r) /\ Uploading(r) /\ request[r] \in RequestStates /\ Holds(r) \subseteq Objects
      /\ request \in [Requests -> RequestStates]
  BY <1>1, <1>2, RequestFacts DEF StoreInv, Uploading
<1>5. \A p \in Holds(r) : file[p] = "NONE"
  BY <1>4 DEF RequestOK
<1>6. command[k].status = "PROCESSING" /\ command[k].payload = "UPLOAD" /\ ~command[k].expired
  BY <1>3, <1>4 DEF UploadOK
<1>7. SameRows(f)
  BY <1>2 DEF SameRows, Referred, Excused, Doomed, Abandoned, imageVars
<1>8. Sound(f) /\ request'[r].flow = f
  <2>1. CASE PutObject(r, o)
    BY <1>1, <1>2, <1>7, <2>1, PutWrote
  <2>2. CASE PutFails(r, o, "DISCARDING", TRUE)
    <3> DEFINE keeps == TRUE
    <3>1. PutFails(r, o, "DISCARDING", keeps) /\ keeps \in BOOLEAN
      BY <2>2
    <3> HIDE DEF keeps
    <3> QED
      BY <1>1, <1>2, <1>7, <3>1, PutFailsWrote
  <2> QED
    BY <2>1, <2>2 DEF UploadImage
<1>9. PICK left \in {{}, {o}} :
          /\ stored' = stored \union left /\ o \in request[r].planned
          /\ \E pc \in {"UPLOADING", "PERSISTING", "DISCARDING"} :
                GoesOn(r, pc, request[r].planned \ {o}, request[r].uploaded \union left)
  BY DEF UploadImage, PutObject, PutFails
<1>10. /\ request'[r].planned = request[r].planned \ {o}
       /\ request'[r].uploaded = request[r].uploaded \union left
       /\ request'[r].pc \in {"UPLOADING", "PERSISTING", "DISCARDING"}
       /\ \A s \in Requests \ {r} : request'[s] = request[s]
  BY <1>4, <1>9 DEF GoesOn
<1>11. Holds(r)' \subseteq Holds(r) /\ o \in Holds(r) /\ request[r].uploaded \subseteq request'[r].uploaded
  BY <1>9, <1>10 DEF Holds
<1>12. command[k].objects \intersect stored' \subseteq request'[r].uploaded
  BY <1>3, <1>9, <1>10
<1>13. command' = command /\ usedKey' = usedKey /\ questImage' = questImage /\ removing' = removing
  BY <1>2 DEF imageVars
<1> HIDE DEF k
<1>14. UploadOK(r)'
  <2>1. usedKey'[r] = k /\ command'[k] = command[k]
    BY <1>13 DEF k
  <2>2. Holds(r)' \subseteq command[k].objects
    BY <1>3, <1>11
  <2>3. \A p \in Holds(r)' : file'[p] = "NONE"
    BY <1>2, <1>5, <1>11
  <2> QED
    BY <1>6, <1>10, <1>12, <2>1, <2>2, <2>3 DEF UploadOK
<1>15. \A p \in command[k].objects : p \in stored' => Covered(p)'
  BY <1>12 DEF Covered, InHand
<1>16. UploadMoves(r)
  <2>1. usedKey[r] = k
    BY DEF k
  <2>2. \A p \in Objects \ Holds(r) : (p \in stored' <=> p \in stored) /\ file'[p] = file[p]
    BY <1>2, <1>9, <1>11
  <2> QED
    BY <1>1, <1>2, <1>3, <1>5, <1>6, <1>8, <1>10, <1>13, <1>14, <1>15, <2>1, <2>2 DEF UploadMoves
<1> QED
  BY <1>8, <1>16, UploadMoved DEF Sound

\* A request that is given up or cut short leaves its command to the sweep.
LEMMA UploadLeaves ==
    ASSUME FilesInv, NEW r \in Requests, request[r].flow = "IMAGE",
           UNCHANGED <<stored, file, prefix, imageVars>>,
           \/ Ends(r)
           \/ Uploading(r) /\ GoTo(r, "DISCARDING")
    PROVE  Sound("IMAGE") /\ ImageInv'
<1> DEFINE k == usedKey[r]
           f == "IMAGE"
<1>1. /\ StoreInv /\ FlowInv(f) /\ f \in Flows /\ command \in [Keys -> CommandRows]
  BY ImageFacts
<1>2. /\ k \in Keys /\ UploadOK(r) /\ Holds(r) \subseteq command[k].objects
      /\ command[k].objects \intersect stored \subseteq request[r].uploaded
  BY UploadFacts
<1>3. /\ command' = command /\ usedKey' = usedKey /\ questImage' = questImage /\ removing' = removing
      /\ stored' = stored /\ file' = file /\ prefix' = prefix /\ removalFailed' = removalFailed
  BY DEF imageVars
<1>4. SameRows(f)
  BY <1>3 DEF SameRows, Referred, Excused, Doomed, Abandoned
<1>5. Sound(f)
  <2>1. CASE Ends(r)
    BY <1>1, <1>3, <1>4, <2>1, RequestEnded
  <2>2. CASE GoTo(r, "DISCARDING")
    BY <1>1, <1>3, <1>4, <2>2, Paused
  <2> QED
    BY <2>1, <2>2
<1>6. /\ RequestOK(r) /\ request \in [Requests -> RequestStates] /\ request[r] \in RequestStates
  BY <1>1 DEF StoreInv
<1> HIDE DEF k
<1>7. /\ \A s \in Requests \ {r} : request'[s] = request[s]
      /\ request'[r].flow \in {"IMAGE", "NONE"}
      /\ request'[r].flow = "IMAGE" => UploadOK(r)'
  <2>1. CASE Ends(r)
    BY <1>6, <2>1 DEF Ends, NoRequest
  <2>2. CASE Uploading(r) /\ GoTo(r, "DISCARDING")
    <3>1. /\ \A s \in Requests \ {r} : request'[s] = request[s]
          /\ request'[r].flow = "IMAGE" /\ request'[r].pc = "DISCARDING"
          /\ request'[r].planned = request[r].planned /\ request'[r].uploaded = request[r].uploaded
      BY <1>6, <2>2 DEF GoTo, RequestStates
    <3>2. Holds(r)' = Holds(r)
      BY <3>1 DEF Holds
    <3>3. /\ command[k].status = "PROCESSING" /\ command[k].payload = "UPLOAD" /\ ~command[k].expired
          /\ \A o \in Holds(r) : file[o] = "NONE"
      BY <1>2, <1>6, <2>2 DEF UploadOK, RequestOK, k
    <3>4. usedKey'[r] = k
      BY <1>3 DEF k
    <3> QED
      BY <1>2, <1>3, <3>1, <3>2, <3>3, <3>4 DEF UploadOK
  <2> QED
    BY <2>1, <2>2
<1>8. ASSUME NEW o \in command[k].objects, o \in stored' PROVE Covered(o)'
  <2>1. \/ command[k].status = "PROCESSING"
        \/ command[k].payload \in {"NOT_DRAFT", "LIMIT_REACHED"}
    BY <1>2 DEF UploadOK, k
  <2> QED
    BY <1>2, <1>3, <1>8, <2>1 DEF Covered, InHand
<1>9. UploadMoves(r)
  <2>1. usedKey[r] = k /\ command[k].status # "NONE"
    BY <1>2 DEF UploadOK, k
  <2> QED
    BY <1>1, <1>3, <1>7, <1>8, <2>1 DEF UploadMoves
<1> QED
  BY <1>5, <1>9, UploadMoved DEF Sound

\* A rejection is stored before anything is deleted.
LEMMA RejectImagesKept ==
    ASSUME FilesInv, NEW r \in Requests, request[r].flow = "IMAGE", Uploading(r), RejectImages(r)
    PROVE  Sound("IMAGE") /\ ImageInv'
<1> DEFINE k == usedKey[r]
           f == "IMAGE"
<1>1. /\ StoreInv /\ FlowInv(f) /\ f \in Flows /\ command \in [Keys -> CommandRows]
  BY ImageFacts
<1>2. /\ k \in Keys /\ UploadOK(r) /\ Holds(r) \subseteq command[k].objects
      /\ command[k].objects \intersect stored \subseteq request[r].uploaded
  BY UploadFacts
<1>3. /\ command[k].status = "PROCESSING" /\ command[k].payload = "UPLOAD" /\ ~command[k].expired
  BY <1>2 DEF UploadOK
<1>4. PICK payload \in {"NOT_DRAFT", "LIMIT_REACHED"} : Complete(k, payload)
  BY DEF RejectImages
<1>5. /\ GoTo(r, "DISCARDING") /\ stored' = stored /\ file' = file /\ prefix' = prefix
      /\ questImage' = questImage /\ usedKey' = usedKey /\ removing' = removing /\ removalFailed' = removalFailed
  BY DEF RejectImages
<1> HIDE DEF k
<1>6. /\ command' \in [Keys -> CommandRows]
      /\ command'[k].status = "COMPLETED" /\ command'[k].payload = payload
      /\ command'[k].objects = command[k].objects
      /\ \A j \in Keys \ {k} : command'[j] = command[j]
  BY <1>1, <1>2, <1>4, CompletedCommand DEF Rejections
<1>7. SameRows(f)
  <2>1. \A j \in Keys : /\ Abandoned(j)' <=> Abandoned(j)
                        /\ Abandoned(j) => command'[j].objects = command[j].objects
    BY <1>3, <1>6 DEF Abandoned
  <2>2. Doomed("IMAGE")' = Doomed("IMAGE")
    BY <1>5, <2>1, SameDoomedImages
  <2> QED
    BY <1>5, <2>2 DEF SameRows, Referred, Excused
<1>8. Sound(f)
  BY <1>1, <1>5, <1>7, Paused
<1>9. /\ RequestOK(r) /\ request \in [Requests -> RequestStates] /\ request[r] \in RequestStates
  BY <1>1 DEF StoreInv
<1>10. /\ \A s \in Requests \ {r} : request'[s] = request[s]
       /\ request'[r].flow = "IMAGE" /\ request'[r].pc = "DISCARDING"
       /\ request'[r].planned = request[r].planned /\ request'[r].uploaded = request[r].uploaded
  BY <1>5, <1>9 DEF GoTo, RequestStates
<1>11. UploadOK(r)'
  <2>1. Holds(r)' = Holds(r) /\ usedKey'[r] = k /\ ~Uploading(r)'
    BY <1>5, <1>10 DEF Holds, k, Uploading
  <2>2. \A o \in Holds(r) : file[o] = "NONE"
    BY <1>9 DEF RequestOK
  <2> QED
    BY <1>2, <1>5, <1>6, <1>10, <2>1, <2>2 DEF UploadOK
<1>12. UploadMoves(r)
  <2>1. usedKey[r] = k
    BY DEF k
  <2>2. \A o \in command[k].objects : o \in stored' => Covered(o)'
    BY <1>2, <1>6 DEF Covered
  <2> QED
    BY <1>5, <1>6, <1>10, <1>11, <2>1, <2>2 DEF UploadMoves
<1> QED
  BY <1>8, <1>12, UploadMoved DEF Sound

\* A command without an upload: it is new, or the sweep works on it.
LEMMA NobodysCommand ==
    ASSUME FilesInv, NEW k \in Keys, command[k].status = "NONE" \/ Abandoned(k),
           NEW r \in Requests, request[r].flow = "IMAGE"
    PROVE  usedKey[r] # k
BY DEF FilesInv, ImageInv, UploadOK, Abandoned

\* A batch beyond the limit is refused: no object is concerned.
LEMMA CheckImageLimitKept ==
    ASSUME FilesInv, NEW r \in Requests, NEW n, CheckImageLimit(r, n)
    PROVE  Sound("IMAGE") /\ ImageInv'
<1> DEFINE k == usedKey[r]
           f == "IMAGE"
<1>1. /\ StoreInv /\ ImageInv /\ FlowInv(f) /\ f \in Flows /\ k \in Keys
      /\ command \in [Keys -> CommandRows] /\ usedKey \in [Requests -> Keys]
      /\ Referred(f) = Range(questImage) /\ Range(questImage) \subseteq Objects
  BY ImageFacts
<1>2. /\ command[k].status = "NONE" /\ Complete(k, "LIMIT_REACHED")
      /\ stored' = stored /\ file' = file /\ prefix' = prefix /\ request' = request
      /\ questImage' = questImage /\ usedKey' = usedKey /\ removing' = removing /\ removalFailed' = removalFailed
  BY DEF CheckImageLimit, storeVars
<1>3. \A s \in Requests : request[s].flow = "IMAGE" => usedKey[s] \in Keys /\ usedKey[s] # k
  BY <1>1, <1>2, NobodysCommand
<1>4. command[k].payload = "NONE"
  BY <1>1, <1>2 DEF ImageInv, CommandOK, NoCommand
<1> HIDE DEF k
<1>5. /\ command' \in [Keys -> CommandRows]
      /\ command'[k].status = "COMPLETED" /\ command'[k].payload = "LIMIT_REACHED"
      /\ command'[k].objects = command[k].objects
      /\ \A j \in Keys \ {k} : command'[j] = command[j]
  BY <1>1, <1>2, CompletedCommand DEF Rejections
<1>6. SameRows(f)
  <2>1. \A j \in Keys : /\ Abandoned(j)' <=> Abandoned(j)
                        /\ Abandoned(j) => command'[j].objects = command[j].objects
    BY <1>2, <1>5 DEF Abandoned
  <2>2. Doomed("IMAGE")' = Doomed("IMAGE")
    BY <1>2, <2>1, SameDoomedImages
  <2> QED
    BY <1>2, <2>2 DEF SameRows, Referred, Excused
<1>7. Sweeps(f)
  BY <1>1, <1>2, <1>6 DEF Sweeps, SameRows, StoreInv, FlowInv
<1>8. ImagesSwept
  <2>1. \A o \in Of("IMAGE") : o \in stored' /\ Covered(o) => Covered(o)'
    BY <1>2, <1>4, <1>5 DEF Covered, InHand
  <2> QED
    BY <1>1, <1>2, <1>3, <1>5, <2>1 DEF ImagesSwept, ImageInv
<1> QED
  BY <1>1, <1>7, <1>8, Swept, ImagesSweptKept

\* The Quest is published: the images stay.
LEMMA PublishQuestKept ==
    ASSUME FilesInv, PublishQuest
    PROVE  Sound("IMAGE") /\ ImageInv'
<1> DEFINE f == "IMAGE"
<1>1. /\ StoreInv /\ ImageInv /\ FlowInv(f) /\ f \in Flows
      /\ Referred(f) = Range(questImage) /\ Range(questImage) \subseteq Objects
  BY ImageFacts
<1>2. /\ stored' = stored /\ file' = file /\ prefix' = prefix /\ request' = request /\ command' = command
      /\ questImage' = questImage /\ usedKey' = usedKey /\ removing' = removing /\ removalFailed' = removalFailed
  BY DEF PublishQuest, storeVars
<1>3. SameRows(f)
  BY <1>2 DEF SameRows, Referred, Excused, Doomed, Abandoned
<1>4. Sweeps(f)
  BY <1>1, <1>2, <1>3 DEF Sweeps, SameRows, StoreInv, FlowInv
<1>5. ImagesSwept
  <2>1. \A o \in Of("IMAGE") : o \in stored' /\ Covered(o) => Covered(o)'
    BY <1>2 DEF Covered, InHand
  <2> QED
    BY <1>1, <1>2, <2>1 DEF ImagesSwept, ImageInv
<1> QED
  BY <1>1, <1>4, <1>5, Swept, ImagesSweptKept

\* The transaction of a batch: its images follow the others.
LEMMA AttachImagesKept ==
    ASSUME FilesInv, NEW r \in Requests, request[r].flow = "IMAGE", Uploading(r), QuestUnlocked,
           request[r].pc = "PERSISTING", AttachImages(r)
    PROVE  Sound("IMAGE") /\ ImageInv'
<1> DEFINE k == usedKey[r]
           f == "IMAGE"
           mine == request[r].uploaded
<1>1. /\ StoreInv /\ ImageInv /\ FlowInv(f) /\ f \in Flows /\ command \in [Keys -> CommandRows]
      /\ Referred(f) = Range(questImage) /\ Referred(f)' = Range(questImage')
      /\ Excused(f) = {removing} \union removalFailed /\ Excused(f)' = {removing'} \union removalFailed'
      /\ Range(questImage) \subseteq Objects
  BY ImageFacts
<1>2. /\ k \in Keys /\ UploadOK(r) /\ Holds(r) \subseteq command[k].objects
      /\ command[k].objects \intersect stored \subseteq mine
      /\ Holds(r) \intersect Referred(f) = {}
      /\ \A s \in Requests : request[s].flow = "IMAGE" /\ s # r =>
            /\ usedKey[s] \in Keys /\ usedKey[s] # k
            /\ Holds(s) \intersect command[k].objects = {}
            /\ command[usedKey[s]].objects \intersect command[k].objects = {}
  BY UploadFacts
<1>3. /\ command[k].status = "PROCESSING" /\ command[k].payload = "UPLOAD" /\ ~command[k].expired
  BY <1>2 DEF UploadOK
<1>4. /\ RequestOK(r) /\ request \in [Requests -> RequestStates]
      /\ mine \subseteq Objects /\ mine \subseteq Holds(r) /\ mine \subseteq stored
      /\ \A o \in mine : file[o] = "NONE"
  <2>1. RequestOK(r) /\ request \in [Requests -> RequestStates] /\ mine \subseteq Objects
    BY <1>1, RequestFacts DEF StoreInv
  <2> QED
    BY <2>1 DEF RequestOK, Holds
<1>5. PICK batch \in Orders(mine) : questImage' = questImage \o batch
  BY DEF AttachImages
<1>6. /\ MarkFiles(mine, "LIVE") /\ Complete(k, "SUCCESS") /\ Ends(r)
      /\ stored' = stored /\ prefix' = prefix /\ usedKey' = usedKey
      /\ removing' = removing /\ removalFailed' = removalFailed /\ removing = NoObject
  BY DEF AttachImages, QuestUnlocked
<1> HIDE DEF k
<1>7. /\ command' \in [Keys -> CommandRows]
      /\ command'[k].status = "COMPLETED" /\ command'[k].payload = "SUCCESS"
      /\ command'[k].objects = command[k].objects
      /\ \A j \in Keys \ {k} : command'[j] = command[j]
  BY <1>1, <1>2, <1>6, CompletedCommand
<1>8. /\ questImage' \in Seq(Objects) /\ IsInjective(questImage')
      /\ Range(questImage') = Range(questImage) \union mine
  <2>1. batch \in Seq(Objects) /\ IsInjective(batch) /\ Range(batch) = mine
    BY <1>4, OrderedBatch
  <2>2. questImage \in Seq(Objects) /\ IsInjective(questImage) /\ Range(questImage) \intersect mine = {}
    BY <1>1, <1>2, <1>4 DEF ImageInv
  <2> QED
    BY <1>5, <2>1, <2>2, JoinedSeqs
<1>9. \A o \in Objects : file'[o] = IF o \in mine THEN "LIVE" ELSE file[o]
  BY <1>6 DEF MarkFiles
<1>10. /\ request'[r] = NoRequest /\ \A s \in Requests \ {r} : request'[s] = request[s]
       /\ request' = [request EXCEPT ![r] = NoRequest]
  BY <1>4, <1>6 DEF Ends
<1>11. Doomed(f)' \subseteq Doomed(f)
  BY <1>3, <1>6, <1>7, <1>9 DEF Doomed, Abandoned
<1>12. Sound(f)
  <2>1. CleansUp(f, NoRequest, Referred(f) \ Referred(f)')
    BY DEF CleansUp
  <2>2. Referred(f)' \subseteq Referred(f) \union request[r].uploaded /\ Excused(f)' = Excused(f)
    BY <1>1, <1>6, <1>8
  <2> QED
    BY <1>1, <1>6, <1>10, <1>11, <2>1, <2>2, Attached
<1>13. Of("IMAGE")' = Of("IMAGE") /\ \A j \in Keys : command[j].objects \subseteq Of("IMAGE") /\ CommandOK(j)
  BY <1>1, <1>6 DEF Of, ImageInv, CommandOK
<1>14. ASSUME NEW j \in Keys PROVE CommandOK(j)'
  <2>1. CASE j = k
    BY <1>7, <1>13, <2>1 DEF CommandOK
  <2>2. CASE j # k
    <3>1. command[j].objects \intersect mine = {}
      BY <1>1, <1>2, <1>4, <2>2 DEF ImageInv
    <3>2. command'[j] = command[j] /\ \A o \in command[j].objects : o \in Objects /\ file'[o] = file[o]
      BY <1>7, <1>9, <1>13, <2>2, <3>1 DEF Of
    <3> QED
      BY <1>13, <3>2 DEF CommandOK
  <2> QED
    BY <2>1, <2>2
<1>15. \A i, j \in Keys : i # j => command'[i].objects \intersect command'[j].objects = {}
  BY <1>1, <1>7 DEF ImageInv
<1>16. ASSUME NEW s \in Requests, request'[s].flow = "IMAGE" PROVE UploadOK(s)'
  <2>1. s # r /\ request'[s] = request[s] /\ request[s].flow = "IMAGE"
    BY <1>10, <1>16 DEF NoRequest
  <2>2. Holds(s) \intersect mine = {} /\ command'[usedKey[s]] = command[usedKey[s]]
    BY <1>2, <1>4, <1>7, <2>1
  <2>3. \A o \in Holds(s) : file'[o] = file[o]
    BY <1>1, <1>9, <2>2, RequestFacts
  <2> QED
    BY <1>6, <2>1, <2>2, <2>3, OtherUpload
<1>17. \A s, t \in Requests :
          request'[s].flow = "IMAGE" /\ request'[t].flow = "IMAGE" /\ s # t => usedKey'[s] # usedKey'[t]
  BY <1>1, <1>6, <1>10 DEF ImageInv, NoRequest
<1>18. /\ \A o \in Range(questImage') : file'[o] = "LIVE"
       /\ \A o \in Of("IMAGE")' : file'[o] = "CLEANED" => o \notin stored'
  <2>1. \A o \in Range(questImage) : o \in Objects /\ file[o] = "LIVE"
    BY <1>1 DEF ImageInv
  <2>2. \A o \in Of("IMAGE") : o \in Objects /\ (file[o] = "CLEANED" => o \notin stored)
    BY <1>1 DEF ImageInv, Of
  <2> QED
    BY <1>4, <1>6, <1>8, <1>9, <1>13, <2>1, <2>2
<1>19. LostOnlyAfterRejection'
  <2> SUFFICES ASSUME NEW o \in stored', prefix'[o] = "IMAGE" PROVE Covered(o)'
    BY DEF LostOnlyAfterRejection, Covered
  <2>1. o \in stored /\ prefix[o] = "IMAGE" /\ o \in Objects
    BY <1>1, <1>6 DEF StoreInv
  <2>2. CASE o \in Range(questImage')
    <3>1. Contains(questImage', o)
      BY <1>8, <2>2 DEF Contains, Range
    <3> QED
      BY <3>1 DEF Covered, InHand
  <2>3. CASE o \notin Range(questImage')
    <3>1. o \notin mine /\ o \notin command[k].objects /\ file'[o] = file[o]
      BY <1>2, <1>8, <1>9, <2>1, <2>3
    <3>2. Covered(o)
      BY <1>1, <2>1 DEF ImageInv, LostOnlyAfterRejection, Covered
    <3>3. ~Contains(questImage, o)
      <4>1. DOMAIN questImage = 1..Len(questImage)
        BY <1>1 DEF ImageInv
      <4>2. o \notin Range(questImage)
        BY <1>8, <2>3
      <4> QED
        BY <4>1, <4>2 DEF Contains, Range
    <3>4. InHand(o) => InHand(o)'
      BY <1>7, <1>10, <3>1, <3>3 DEF InHand
    <3> QED
      BY <1>7, <3>1, <3>2, <3>4 DEF Covered
  <2> QED
    BY <2>2, <2>3
<1>20. ImageInv'
  BY <1>1, <1>6, <1>7, <1>8, <1>14, <1>15, <1>16, <1>17, <1>18, <1>19 DEF ImageInv
<1> QED
  BY <1>12, <1>20

\* What an upload has written is deleted; what cannot be is remembered.
LEMMA CompensateImagesKept ==
    ASSUME FilesInv, NEW r \in Requests, CompensateImages(r)
    PROVE  Sound("IMAGE") /\ ImageInv'
<1> DEFINE k == usedKey[r]
           f == "IMAGE"
           mine == request[r].uploaded
<1>1. /\ StoreInv /\ FlowInv(f) /\ f \in Flows /\ command \in [Keys -> CommandRows]
      /\ request[r].flow = f /\ request[r].pc = "DISCARDING"
      /\ prefix' = prefix /\ file' = file /\ UNCHANGED imageVars
  BY ImageFacts DEF CompensateImages, Stands
<1>2. /\ k \in Keys /\ UploadOK(r) /\ Holds(r) \subseteq command[k].objects
      /\ command[k].objects \intersect stored \subseteq mine
      /\ Holds(r) \intersect Referred(f) = {}
  BY <1>1, UploadFacts
<1>3. PICK failed \in SUBSET mine :
          /\ DeleteObjects(mine, failed)
          /\ request' = [request EXCEPT ![r] =
                [@ EXCEPT !.uploaded = failed,
                          !.pc = IF failed = {} THEN "RELEASING" ELSE "RECORDING"]]
  BY DEF CompensateImages
<1> DEFINE q == [request[r] EXCEPT !.uploaded = failed,
                                   !.pc = IF failed = {} THEN "RELEASING" ELSE "RECORDING"]
<1>4. /\ RequestOK(r) /\ request \in [Requests -> RequestStates] /\ request[r] \in RequestStates
      /\ mine \subseteq Objects /\ mine \subseteq Holds(r)
  BY <1>1, RequestFacts DEF StoreInv, Holds
<1>5. /\ q \in RequestStates /\ q.flow = f /\ q.uploaded = failed /\ q.planned = request[r].planned
      /\ q.pc = IF failed = {} THEN "RELEASING" ELSE "RECORDING"
  BY <1>1, <1>4 DEF RequestStates
<1>6. request' = [request EXCEPT ![r] = q] /\ stored' = stored \ (mine \ failed)
  BY <1>3 DEF DeleteObjects
<1> HIDE DEF q, k
<1>7. /\ request'[r] = q /\ \A s \in Requests \ {r} : request'[s] = request[s]
      /\ Holds(r)' \subseteq Holds(r)
  BY <1>4, <1>5, <1>6 DEF Holds
<1>8. /\ command' = command /\ usedKey' = usedKey /\ questImage' = questImage /\ removing' = removing
      /\ removalFailed' = removalFailed
  BY <1>1 DEF imageVars
<1>9. SameRows(f)
  BY <1>1, <1>8 DEF SameRows, Referred, Excused, Doomed, Abandoned
<1>10. Moves(f, r, q)
  <2>1. q.planned \intersect q.uploaded = {} /\ q.planned \union q.uploaded \subseteq Holds(r)
    BY <1>4, <1>5 DEF RequestOK, Holds
  <2>2. file' \in [Objects -> FileRows] /\ stored' \subseteq stored
    BY <1>1, <1>6 DEF StoreInv
  <2>3. \A o \in Objects \ Mine(f, r) : (o \in stored => o \in stored') /\ file'[o] = file[o]
    BY <1>1, <1>4, <1>6 DEF Mine
  <2>4. Referred(f)' \ Excused(f)' \subseteq stored' /\ Referred(f)' \intersect Doomed(f)' = {}
    <3>1. Referred(f) \ Excused(f) \subseteq stored /\ Referred(f) \intersect Doomed(f) = {}
      BY <1>1 DEF FlowInv
    <3>2. Referred(f)' = Referred(f) /\ Excused(f)' = Excused(f) /\ Doomed(f)' = Doomed(f)
      BY <1>9 DEF SameRows
    <3> QED
      BY <1>2, <1>4, <1>6, <3>1, <3>2
  <2>5. q.pc \notin {"UPLOADING", "PERSISTING"} /\ f # "NONE"
    BY <1>5
  <2> QED
    BY <1>1, <1>2, <1>5, <1>6, <1>9, <2>1, <2>2, <2>3, <2>4, <2>5 DEF Moves, Mine, SameRows
<1>11. Sound(f)
  BY <1>1, <1>10, Moved
<1>12. command[k].objects \intersect stored' \subseteq failed
  BY <1>2, <1>6
<1>13. UploadOK(r)'
  <2>1. usedKey'[r] = k /\ ~Uploading(r)'
    BY <1>5, <1>7, <1>8 DEF k, Uploading
  <2>2. \A o \in Holds(r) : file'[o] = "NONE"
    BY <1>1, <1>2 DEF UploadOK
  <2>3. \/ command[k].status = "PROCESSING" /\ command[k].payload = "UPLOAD" /\ ~command[k].expired
        \/ command[k].status = "COMPLETED" /\ command[k].payload \in {"NOT_DRAFT", "LIMIT_REACHED"}
    BY <1>2 DEF UploadOK, k
  <2> QED
    BY <1>2, <1>5, <1>7, <1>8, <1>12, <2>1, <2>2, <2>3 DEF UploadOK
<1>14. \A o \in command[k].objects : o \in stored' => Covered(o)'
  BY <1>5, <1>7, <1>12 DEF Covered, InHand
<1>15. UploadMoves(r)
  <2>1. usedKey[r] = k /\ command[k].status # "NONE"
    BY <1>2 DEF UploadOK, k
  <2>2. \A o \in Objects \ Holds(r) : (o \in stored' <=> o \in stored) /\ file'[o] = file[o]
    BY <1>1, <1>4, <1>6
  <2>3. \A o \in Holds(r) : file'[o] = file[o] /\ (o \in stored' => o \in stored)
    BY <1>1, <1>6
  <2> QED
    BY <1>1, <1>5, <1>7, <1>8, <1>13, <1>14, <2>1, <2>2, <2>3 DEF UploadMoves
<1> QED
  BY <1>11, <1>15, UploadMoved DEF Sound

\* Objects that are left become tombstones: the sweep of the flow deletes them.
LEMMA RecordTombstonesKept ==
    ASSUME FilesInv, NEW r \in Requests, RecordTombstones(r)
    PROVE  Sound("IMAGE") /\ ImageInv'
<1> DEFINE k == usedKey[r]
           f == "IMAGE"
           mine == request[r].uploaded
           q == [request[r] EXCEPT !.pc = "RELEASING"]
<1>1. /\ StoreInv /\ FlowInv(f) /\ f \in Flows /\ command \in [Keys -> CommandRows]
      /\ request[r].flow = f /\ request[r].pc = "RECORDING"
      /\ prefix' = prefix /\ stored' = stored /\ UNCHANGED imageVars /\ GoTo(r, "RELEASING")
  BY ImageFacts DEF RecordTombstones, Stands
<1>2. /\ k \in Keys /\ UploadOK(r) /\ Holds(r) \subseteq command[k].objects
      /\ command[k].objects \intersect stored \subseteq mine
      /\ Holds(r) \intersect Referred(f) = {}
  BY <1>1, UploadFacts
<1>3. /\ RequestOK(r) /\ request \in [Requests -> RequestStates] /\ request[r] \in RequestStates
      /\ mine \subseteq Objects /\ mine \subseteq Holds(r) /\ file \in [Objects -> FileRows]
      /\ Holds(r) \subseteq Of(f)
  BY <1>1, RequestFacts DEF StoreInv, Holds
<1>4. \A o \in Objects : file'[o] = IF o \in mine THEN "DELETED" ELSE file[o]
  <2>1. \A o \in mine : file[o] = "NONE"
    BY <1>1, <1>2, <1>3 DEF UploadOK
  <2> QED
    BY <2>1 DEF RecordTombstones, MarkFiles
<1>5. /\ q \in RequestStates /\ q.flow = f /\ q.uploaded = mine /\ q.planned = request[r].planned
      /\ q.pc = "RELEASING" /\ request' = [request EXCEPT ![r] = q]
  BY <1>1, <1>3 DEF RequestStates, GoTo
<1> HIDE DEF q, k
<1>6. /\ request'[r] = q /\ \A s \in Requests \ {r} : request'[s] = request[s]
      /\ Holds(r)' = Holds(r)
  BY <1>3, <1>5 DEF Holds
<1>7. /\ command' = command /\ usedKey' = usedKey /\ questImage' = questImage /\ removing' = removing
      /\ removalFailed' = removalFailed
  BY <1>1 DEF imageVars
<1>8. /\ Referred(f)' = Referred(f) /\ Excused(f)' = Excused(f)
      /\ Doomed(f)' \subseteq Doomed(f) \union mine
  BY <1>1, <1>4, <1>7 DEF Referred, Excused, Doomed, Abandoned
<1>9. Moves(f, r, q)
  <2>1. q.planned \intersect q.uploaded = {} /\ q.planned \union q.uploaded = Holds(r)
    BY <1>3, <1>5 DEF RequestOK, Holds
  <2>2. file' \in [Objects -> FileRows]
    BY <1>3 DEF RecordTombstones, MarkFiles, FileRows
  <2>3. \A o \in Objects \ Mine(f, r) : file'[o] = file[o]
    BY <1>3, <1>4 DEF Mine
  <2>4. /\ Referred(f)' \ Excused(f)' \subseteq stored' /\ Referred(f)' \intersect Doomed(f)' = {}
        /\ Doomed(f)' \subseteq Mine(f, r)
    BY <1>1, <1>2, <1>3, <1>8 DEF FlowInv, Mine
  <2>5. f # "NONE"
    OBVIOUS
  <2> QED
    BY <1>1, <1>2, <1>5, <1>8, <2>1, <2>2, <2>3, <2>4, <2>5 DEF Moves, Mine
<1>10. Sound(f)
  BY <1>1, <1>9, Moved
<1>11. UploadOK(r)'
  <2>1. usedKey'[r] = k /\ ~Uploading(r)'
    BY <1>5, <1>6, <1>7 DEF k, Uploading
  <2>2. \A o \in mine : file'[o] = "DELETED"
    BY <1>3, <1>4
  <2>3. \/ command[k].status = "PROCESSING" /\ command[k].payload = "UPLOAD" /\ ~command[k].expired
        \/ command[k].status = "COMPLETED" /\ command[k].payload \in {"NOT_DRAFT", "LIMIT_REACHED"}
    BY <1>2 DEF UploadOK, k
  <2> QED
    BY <1>1, <1>2, <1>5, <1>6, <1>7, <2>1, <2>2, <2>3 DEF UploadOK
<1>12. \A o \in command[k].objects : o \in stored' => Covered(o)'
  BY <1>1, <1>2, <1>5, <1>6 DEF Covered, InHand
<1>13. UploadMoves(r)
  <2>1. usedKey[r] = k /\ command[k].status # "NONE"
    BY <1>2 DEF UploadOK, k
  <2>2. \A o \in Objects \ Holds(r) : file'[o] = file[o]
    BY <1>3, <1>4
  <2>3. \A o \in Holds(r) : file'[o] \in {file[o], "DELETED"}
    BY <1>3, <1>4 DEF Of
  <2> QED
    BY <1>1, <1>5, <1>6, <1>7, <1>11, <1>12, <2>1, <2>2, <2>3 DEF UploadMoves
<1> QED
  BY <1>10, <1>13, UploadMoved DEF Sound

\* The end of an upload that was given up: its command is released.
LEMMA ReleaseReservationKept ==
    ASSUME FilesInv, NEW r \in Requests, ReleaseReservation(r)
    PROVE  Sound("IMAGE") /\ ImageInv'
<1> DEFINE k == usedKey[r]
           f == "IMAGE"
           mine == request[r].uploaded
<1>1. /\ StoreInv /\ FlowInv(f) /\ f \in Flows /\ command \in [Keys -> CommandRows]
      /\ request[r].flow = f /\ request[r].pc = "RELEASING" /\ Ends(r)
      /\ prefix' = prefix /\ stored' = stored /\ file' = file
      /\ usedKey' = usedKey /\ questImage' = questImage /\ removing' = removing
      /\ removalFailed' = removalFailed
  BY ImageFacts DEF ReleaseReservation, Stands
<1>2. /\ k \in Keys /\ UploadOK(r) /\ command[k].objects \intersect stored \subseteq mine
      /\ \A o \in mine : file[o] = "DELETED" \/ o \notin stored
      /\ \/ command[k].status = "PROCESSING" /\ command[k].payload = "UPLOAD" /\ ~command[k].expired
         \/ command[k].status = "COMPLETED"
  BY <1>1, UploadFacts DEF UploadOK
<1>3. IF command[k].status = "PROCESSING" THEN Complete(k, "UNAVAILABLE") ELSE command' = command
  BY DEF ReleaseReservation
<1> HIDE DEF k
<1>4. /\ command' \in [Keys -> CommandRows] /\ command'[k].status = "COMPLETED"
      /\ command'[k].objects = command[k].objects
      /\ \A j \in Keys \ {k} : command'[j] = command[j]
  <2>1. CASE command[k].status = "PROCESSING"
    BY <1>1, <1>2, <1>3, <2>1, CompletedCommand DEF Rejections
  <2>2. CASE command[k].status # "PROCESSING"
    BY <1>1, <1>2, <1>3, <2>2
  <2> QED
    BY <2>1, <2>2
<1>5. SameRows(f)
  <2>1. \A j \in Keys : /\ Abandoned(j)' <=> Abandoned(j)
                        /\ Abandoned(j) => command'[j].objects = command[j].objects
    BY <1>2, <1>4 DEF Abandoned
  <2>2. Doomed("IMAGE")' = Doomed("IMAGE")
    BY <1>1, <2>1, SameDoomedImages
  <2> QED
    BY <1>1, <2>2 DEF SameRows, Referred, Excused
<1>6. Sound(f)
  BY <1>1, <1>5, RequestEnded
<1>7. request'[r].flow = "NONE" /\ \A s \in Requests \ {r} : request'[s] = request[s]
  BY <1>1 DEF StoreInv, Ends, NoRequest
<1>8. ASSUME NEW o \in command[k].objects, o \in stored' PROVE Covered(o)'
  <2>1. file'[o] = "DELETED"
    BY <1>1, <1>2, <1>8
  <2> QED
    BY <2>1 DEF Covered, InHand
<1>9. UploadMoves(r)
  <2>1. usedKey[r] = k
    BY DEF k
  <2> QED
    BY <1>1, <1>2, <1>4, <1>7, <1>8, <2>1 DEF UploadMoves
<1> QED
  BY <1>6, <1>9, UploadMoved DEF Sound

\* Not even a tombstone could be left: the command names the objects instead.
LEMMA ParkCleanupKept ==
    ASSUME FilesInv, NEW r \in Requests, ParkCleanup(r)
    PROVE  Sound("IMAGE") /\ ImageInv'
<1> DEFINE k == usedKey[r]
           f == "IMAGE"
           mine == request[r].uploaded
           row == [command[k] EXCEPT !.payload = "CLEANUP", !.objects = mine, !.expired = FALSE]
<1>1. /\ StoreInv /\ FlowInv(f) /\ f \in Flows /\ command \in [Keys -> CommandRows]
      /\ request[r].flow = f /\ Ends(r)
      /\ prefix' = prefix /\ stored' = stored /\ file' = file /\ draft' = draft
      /\ usedKey' = usedKey /\ questImage' = questImage /\ removing' = removing
      /\ removalFailed' = removalFailed
  BY ImageFacts DEF ParkCleanup, Stands
<1>2. /\ k \in Keys /\ UploadOK(r) /\ command[k].objects \intersect stored \subseteq mine
      /\ Holds(r) \subseteq command[k].objects /\ Holds(r) \intersect Referred(f) = {}
      /\ command[k] \in CommandRows
  BY <1>1, UploadFacts
<1>3. mine \subseteq Objects /\ mine \subseteq Holds(r) /\ request \in [Requests -> RequestStates]
      /\ file \in [Objects -> FileRows]
  BY <1>1, RequestFacts DEF StoreInv, Holds
<1>4. command' = IF command[k].status # "PROCESSING" THEN command ELSE [command EXCEPT ![k] = row]
  BY DEF ParkCleanup
<1>5. /\ row \in CommandRows /\ row.status = command[k].status /\ row.payload = "CLEANUP"
      /\ row.objects = mine
  BY <1>2, <1>3 DEF CommandRows
<1> HIDE DEF k, row
<1>6. CASE command[k].status # "PROCESSING"
  <2>1. UNCHANGED <<stored, file, prefix, imageVars>>
    BY <1>1, <1>4, <1>6 DEF imageVars
  <2> QED
    BY <1>1, <2>1, UploadLeaves
<1>7. CASE command[k].status = "PROCESSING"
  <2>1. /\ command' \in [Keys -> CommandRows] /\ command'[k] = row
        /\ \A j \in Keys \ {k} : command'[j] = command[j]
    BY <1>1, <1>2, <1>4, <1>5, <1>7
  <2>2. /\ Referred(f)' = Referred(f) /\ Excused(f)' = Excused(f)
        /\ Doomed(f)' \subseteq Doomed(f) \union mine
    <3>1. \A j \in Keys, o \in Objects :
            Abandoned(j)' /\ o \in command'[j].objects =>
                o \in mine \/ (Abandoned(j) /\ o \in command[j].objects)
      BY <1>5, <2>1 DEF Abandoned
    <3> QED
      BY <1>1, <3>1 DEF Referred, Excused, Doomed
  <2>3. /\ NoRequest \in RequestStates /\ NoRequest.flow = "NONE" /\ NoRequest.pc = "IDLE"
        /\ NoRequest.planned = {} /\ NoRequest.uploaded = {}
    BY DEF NoRequest, RequestStates
  <2>4. Moves(f, r, NoRequest)
    <3>1. /\ Referred(f)' \ Excused(f)' \subseteq stored' /\ Referred(f)' \intersect Doomed(f)' = {}
          /\ Doomed(f)' \subseteq Mine(f, r)
      BY <1>1, <1>2, <1>3, <2>2 DEF FlowInv, Mine
    <3>2. request' = [request EXCEPT ![r] = NoRequest]
      BY <1>1 DEF Ends
    <3> QED
      BY <1>1, <1>3, <2>2, <2>3, <3>1, <3>2 DEF Moves
  <2>5. Sound(f)
    BY <1>1, <2>4, Moved
  <2>6. request'[r].flow = "NONE" /\ \A s \in Requests \ {r} : request'[s] = request[s]
    BY <1>1, <1>3 DEF Ends, NoRequest
  <2>7. \A o \in command[k].objects : o \in stored' => Covered(o)'
    BY <1>1, <1>2, <1>5, <1>7, <2>1 DEF Covered, InHand
  <2>8. UploadMoves(r)
    <3>1. usedKey[r] = k
      BY DEF k
    <3> QED
      BY <1>1, <1>2, <1>3, <1>5, <1>7, <2>1, <2>6, <2>7, <3>1 DEF UploadMoves
  <2> QED
    BY <2>5, <2>8, UploadMoved DEF Sound
<1> QED
  BY <1>6, <1>7

\* The time of a command is up: its objects are the sweep's, and nobody else's.
LEMMA CommandLapsesKept ==
    ASSUME FilesInv, NEW k \in Keys, CommandLapses(k)
    PROVE  Sound("IMAGE") /\ ImageInv'
<1> DEFINE f == "IMAGE"
           row == [command[k] EXCEPT !.expired = TRUE]
<1>1. /\ StoreInv /\ ImageInv /\ FlowInv(f) /\ f \in Flows
      /\ command \in [Keys -> CommandRows] /\ usedKey \in [Requests -> Keys]
      /\ Referred(f) = Range(questImage) /\ Range(questImage) \subseteq Objects
      /\ command[k] \in CommandRows /\ command[k].objects \subseteq Of(f)
  BY ImageFacts
<1>2. /\ command[k].status = "PROCESSING"
      /\ \A s \in Requests : request[s].flow = "IMAGE" => usedKey[s] \in Keys /\ usedKey[s] # k
      /\ stored' = stored /\ file' = file /\ prefix' = prefix /\ request' = request
      /\ questImage' = questImage /\ usedKey' = usedKey /\ removing' = removing /\ removalFailed' = removalFailed
  BY <1>1 DEF CommandLapses, storeVars
<1>3. /\ row \in CommandRows /\ row.status = command[k].status /\ row.payload = command[k].payload
      /\ row.objects = command[k].objects /\ command' = [command EXCEPT ![k] = row]
  BY <1>1 DEF CommandRows, CommandLapses
<1> HIDE DEF row
<1>4. /\ command' \in [Keys -> CommandRows] /\ command'[k] = row
      /\ \A j \in Keys \ {k} : command'[j] = command[j]
  BY <1>1, <1>3
<1>5. /\ Referred(f)' = Referred(f) /\ Excused(f)' = Excused(f)
      /\ Doomed(f)' \subseteq Doomed(f) \union command[k].objects
  <2>1. \A j \in Keys, o \in Objects :
          Abandoned(j)' /\ o \in command'[j].objects =>
              o \in command[k].objects \/ (Abandoned(j) /\ o \in command[j].objects)
    BY <1>3, <1>4 DEF Abandoned
  <2> QED
    BY <1>2, <2>1 DEF Referred, Excused, Doomed
<1>6. command[k].objects \intersect Referred(f) = {}
  <2>1. \A o \in command[k].objects : file[o] # "LIVE"
    BY <1>1, <1>2 DEF ImageInv, CommandOK
  <2>2. \A o \in Referred(f) : file[o] = "LIVE"
    BY <1>1 DEF ImageInv
  <2> QED
    BY <2>1, <2>2
<1>7. ASSUME NEW s \in Requests, request[s].flow = f PROVE Holds(s) \intersect command[k].objects = {}
  <2>1. Holds(s) \subseteq command[usedKey[s]].objects /\ usedKey[s] \in Keys /\ usedKey[s] # k
    BY <1>1, <1>2, <1>7 DEF ImageInv, UploadOK
  <2> QED
    BY <1>1, <2>1 DEF ImageInv
<1>8. Sweeps(f)
  <2>1. /\ Doomed(f)' \subseteq Of(f) /\ Referred(f)' \intersect Doomed(f)' = {}
        /\ Referred(f)' \ Excused(f)' \subseteq stored'
    BY <1>1, <1>2, <1>5, <1>6 DEF FlowInv
  <2>2. \A s \in Requests : request[s].flow = f /\ Uploading(s) => Holds(s) \intersect Doomed(f)' = {}
    BY <1>1, <1>5, <1>7 DEF FlowInv
  <2>3. file' \in [Objects -> FileRows]
    BY <1>1, <1>2 DEF StoreInv
  <2> QED
    BY <1>2, <1>5, <2>1, <2>2, <2>3 DEF Sweeps
<1>9. ImagesSwept
  <2>1. \A o \in Of("IMAGE") : o \in stored' /\ Covered(o) => Covered(o)'
    BY <1>2, <1>3, <1>4 DEF Covered, InHand
  <2> QED
    BY <1>1, <1>2, <1>3, <1>4, <2>1 DEF ImagesSwept, ImageInv
<1> QED
  BY <1>1, <1>8, <1>9, Swept, ImagesSweptKept

\* The objects of an upload that never came back are deleted.
LEMMA RecoverManifestKept ==
    ASSUME FilesInv, NEW k \in Keys, RecoverManifest(k)
    PROVE  Sound("IMAGE") /\ ImageInv'
<1> DEFINE f == "IMAGE"
           theirs == command[k].objects
<1>1. /\ StoreInv /\ ImageInv /\ FlowInv(f) /\ f \in Flows
      /\ command \in [Keys -> CommandRows] /\ usedKey \in [Requests -> Keys]
      /\ Referred(f) = Range(questImage) /\ Range(questImage) \subseteq Objects
      /\ theirs \subseteq Of(f) /\ theirs \subseteq Objects
  BY ImageFacts DEF Of
<1>2. /\ Abandoned(k) /\ command[k].payload = "UPLOAD"
      /\ file' = file /\ prefix' = prefix /\ request' = request
      /\ questImage' = questImage /\ usedKey' = usedKey /\ removing' = removing /\ removalFailed' = removalFailed
  BY DEF RecoverManifest, Abandoned
<1>3. PICK failed \in SUBSET theirs :
          /\ stored' = stored \ (theirs \ failed)
          /\ IF failed = {} THEN Complete(k, "UNAVAILABLE") ELSE command' = command
  BY DEF RecoverManifest, DeleteObjects
<1>4. /\ \A s \in Requests : request[s].flow = "IMAGE" => usedKey[s] \in Keys /\ usedKey[s] # k
      /\ theirs \subseteq Doomed(f)
  BY <1>1, <1>2, NobodysCommand DEF Doomed
<1>5. /\ command' \in [Keys -> CommandRows] /\ command'[k].objects = theirs
      /\ \A j \in Keys \ {k} : command'[j] = command[j]
      /\ \/ command'[k] = command[k]
         \/ failed = {} /\ command'[k].status = "COMPLETED"
  <2>1. CASE failed = {}
    BY <1>1, <1>3, <2>1, CompletedCommand DEF Rejections
  <2>2. CASE failed # {}
    BY <1>1, <1>3, <2>2
  <2> QED
    BY <2>1, <2>2
<1>6. /\ Referred(f)' = Referred(f) /\ Excused(f)' = Excused(f) /\ Doomed(f)' \subseteq Doomed(f)
  <2>1. \A j \in Keys : Abandoned(j)' => Abandoned(j) /\ command'[j].objects = command[j].objects
    BY <1>5 DEF Abandoned
  <2> QED
    BY <1>2, <2>1 DEF Referred, Excused, Doomed
<1>7. Sweeps(f)
  <2>1. /\ Doomed(f)' \subseteq Of(f) /\ Referred(f)' \intersect Doomed(f)' = {}
        /\ Referred(f)' \ Excused(f)' \subseteq stored'
    BY <1>1, <1>3, <1>4, <1>6 DEF FlowInv
  <2>2. \A s \in Requests : request[s].flow = f /\ Uploading(s) => Holds(s) \intersect Doomed(f)' = {}
    BY <1>1, <1>6 DEF FlowInv
  <2>3. file' \in [Objects -> FileRows] /\ stored' \subseteq stored
    BY <1>1, <1>2, <1>3 DEF StoreInv
  <2>4. \A o \in Objects \ (Referred(f) \union Doomed(f)) : o \in stored => o \in stored'
    BY <1>3, <1>4
  <2> QED
    BY <1>2, <1>6, <2>1, <2>2, <2>3, <2>4 DEF Sweeps
<1>8. ImagesSwept
  <2>1. \A o \in Of("IMAGE") : o \in stored' /\ Covered(o) => Covered(o)'
    BY <1>2, <1>3, <1>5 DEF Covered, InHand
  <2>2. \A j \in Keys : /\ command'[j].objects = command[j].objects
                        /\ command'[j].status = "NONE" => command'[j] = command[j]
                        /\ command'[j].status = "PROCESSING" => command[j].status = "PROCESSING"
    BY <1>5
  <2>3. stored' \subseteq stored
    BY <1>3
  <2> QED
    BY <1>1, <1>2, <1>4, <1>5, <2>1, <2>2, <2>3 DEF ImagesSwept, ImageInv
<1> QED
  BY <1>1, <1>7, <1>8, Swept, ImagesSweptKept

\* Parked objects become tombstones before their command is completed.
LEMMA RetryCleanupManifestKept ==
    ASSUME FilesInv, NEW k \in Keys, RetryCleanupManifest(k)
    PROVE  Sound("IMAGE") /\ ImageInv'
<1> DEFINE f == "IMAGE"
           theirs == command[k].objects
<1>1. /\ StoreInv /\ ImageInv /\ FlowInv(f) /\ f \in Flows
      /\ command \in [Keys -> CommandRows] /\ usedKey \in [Requests -> Keys]
      /\ Referred(f) = Range(questImage) /\ Range(questImage) \subseteq Objects
      /\ theirs \subseteq Of(f) /\ theirs \subseteq Objects
      /\ file \in [Objects -> FileRows]
  BY ImageFacts DEF Of, StoreInv
<1>2. /\ Abandoned(k) /\ command[k].payload = "CLEANUP" /\ command[k].status = "PROCESSING"
      /\ stored' = stored /\ prefix' = prefix /\ request' = request
      /\ questImage' = questImage /\ usedKey' = usedKey /\ removing' = removing /\ removalFailed' = removalFailed
      /\ Complete(k, "UNAVAILABLE") \/ command' = command
  BY DEF RetryCleanupManifest, Abandoned
<1>3. \A o \in Objects : file'[o] = IF o \in theirs /\ file[o] = "NONE" THEN "DELETED" ELSE file[o]
  BY DEF RetryCleanupManifest, MarkFiles
<1>4. /\ \A s \in Requests : request[s].flow = "IMAGE" => usedKey[s] \in Keys /\ usedKey[s] # k
      /\ theirs \subseteq Doomed(f)
  BY <1>1, <1>2, NobodysCommand DEF Doomed
<1>5. /\ command' \in [Keys -> CommandRows] /\ command'[k].objects = theirs
      /\ \A j \in Keys \ {k} : command'[j] = command[j]
      /\ \/ command'[k] = command[k]
         \/ command'[k].status = "COMPLETED"
  <2>1. CASE Complete(k, "UNAVAILABLE")
    BY <1>1, <2>1, CompletedCommand DEF Rejections
  <2>2. CASE command' = command
    BY <1>1, <2>2
  <2> QED
    BY <1>2, <2>1, <2>2
<1>6. /\ Referred(f)' = Referred(f) /\ Excused(f)' = Excused(f) /\ Doomed(f)' \subseteq Doomed(f)
  <2>1. \A j \in Keys : Abandoned(j)' => Abandoned(j) /\ command'[j].objects = command[j].objects
    BY <1>5 DEF Abandoned
  <2>2. \A o \in Objects : prefix'[o] = "IMAGE" /\ file'[o] = "DELETED" =>
            o \in theirs \/ (prefix[o] = "IMAGE" /\ file[o] = "DELETED")
    BY <1>2, <1>3
  <2> QED
    BY <1>2, <1>4, <2>1, <2>2 DEF Referred, Excused, Doomed
<1>7. ASSUME NEW s \in Requests, request[s].flow = f PROVE Holds(s) \intersect theirs = {}
  <2>1. Holds(s) \subseteq command[usedKey[s]].objects /\ usedKey[s] \in Keys /\ usedKey[s] # k
    BY <1>1, <1>4, <1>7 DEF ImageInv, UploadOK
  <2> QED
    BY <1>1, <2>1 DEF ImageInv
<1>8. Sweeps(f)
  <2>1. /\ Doomed(f)' \subseteq Of(f) /\ Referred(f)' \intersect Doomed(f)' = {}
        /\ Referred(f)' \ Excused(f)' \subseteq stored'
    BY <1>1, <1>2, <1>6 DEF FlowInv
  <2>2. \A s \in Requests : request[s].flow = f /\ Uploading(s) => Holds(s) \intersect Doomed(f)' = {}
    BY <1>1, <1>6 DEF FlowInv
  <2>3. file' \in [Objects -> FileRows]
    BY <1>1 DEF RetryCleanupManifest, MarkFiles, FileRows
  <2>4. \A o \in Objects \ (Referred(f) \union Doomed(f)) : file'[o] = file[o]
    BY <1>3, <1>4
  <2> QED
    BY <1>2, <1>6, <2>1, <2>2, <2>3, <2>4 DEF Sweeps
<1>9. \A o \in theirs : file[o] # "LIVE" /\ (file[o] = "CLEANED" => o \notin stored)
  BY <1>1, <1>2 DEF ImageInv, CommandOK
<1>10. ImagesSwept
  <2>1. ASSUME NEW o \in Of("IMAGE"), o \in stored', Covered(o) PROVE Covered(o)'
    <3>1. o \in Objects
      BY DEF Of
    <3>2. CASE o \in theirs
      <4>1. file[o] \in {"NONE", "DELETED"}
        BY <1>1, <1>2, <1>9, <2>1, <3>1, <3>2 DEF FileRows
      <4>2. file'[o] = "DELETED"
        BY <1>3, <3>1, <3>2, <4>1
      <4> QED
        BY <4>2 DEF Covered, InHand
    <3>3. CASE o \notin theirs
      BY <1>2, <1>3, <1>5, <2>1, <3>1, <3>3 DEF Covered, InHand
    <3> QED
      BY <3>2, <3>3
  <2>2. \A j \in Keys : /\ command'[j].objects = command[j].objects
                        /\ command'[j].status = "NONE" => command'[j] = command[j]
                        /\ command'[j].status = "PROCESSING" => command[j].status = "PROCESSING"
    BY <1>5
  <2>3. \A o \in Objects : \/ file'[o] = file[o]
                           \/ /\ file'[o] = "DELETED"
                              /\ \A s \in Requests : request[s].flow = "IMAGE" => o \notin Holds(s)
    BY <1>3, <1>7
  <2>4. \A o \in Range(questImage') : file'[o] = "LIVE"
    BY <1>1, <1>2, <1>3 DEF ImageInv
  <2> QED
    BY <1>1, <1>2, <1>4, <1>5, <2>1, <2>2, <2>3, <2>4 DEF ImagesSwept, ImageInv
<1> QED
  BY <1>1, <1>8, <1>10, Swept, ImagesSweptKept

\* The object of a tombstone is deleted.
LEMMA CleanupTombstoneKept ==
    ASSUME FilesInv, NEW o \in Objects, CleanupTombstone(o)
    PROVE  Sound("IMAGE") /\ ImageInv'
<1> DEFINE f == "IMAGE"
<1>1. /\ StoreInv /\ ImageInv /\ FlowInv(f) /\ f \in Flows
      /\ Referred(f) = Range(questImage) /\ Range(questImage) \subseteq Objects
      /\ file \in [Objects -> FileRows]
  BY ImageFacts DEF StoreInv
<1>2. /\ prefix[o] = f /\ file[o] = "DELETED" /\ stored' = stored \ {o} /\ prefix' = prefix
      /\ request' = request /\ command' = command
      /\ questImage' = questImage /\ usedKey' = usedKey /\ removing' = removing /\ removalFailed' = removalFailed
  BY DEF CleanupTombstone, imageVars
<1>3. \A p \in Objects : file'[p] = IF p = o THEN "CLEANED" ELSE file[p]
  BY DEF CleanupTombstone, MarkFiles
<1>4. o \in Doomed(f) /\ o \notin Referred(f)
  BY <1>1, <1>2 DEF Doomed, FlowInv
<1>5. /\ Referred(f)' = Referred(f) /\ Excused(f)' = Excused(f) /\ Doomed(f)' \subseteq Doomed(f)
  BY <1>2, <1>3 DEF Referred, Excused, Doomed, Abandoned
<1>6. Sweeps(f)
  <2>1. /\ Doomed(f)' \subseteq Of(f) /\ Referred(f)' \intersect Doomed(f)' = {}
        /\ Referred(f)' \ Excused(f)' \subseteq stored'
    BY <1>1, <1>2, <1>4, <1>5 DEF FlowInv
  <2>2. \A s \in Requests : request[s].flow = f /\ Uploading(s) => Holds(s) \intersect Doomed(f)' = {}
    BY <1>1, <1>5 DEF FlowInv
  <2>3. file' \in [Objects -> FileRows]
    BY <1>1 DEF CleanupTombstone, MarkFiles, FileRows
  <2>4. \A p \in Objects \ (Referred(f) \union Doomed(f)) : (p \in stored => p \in stored') /\ file'[p] = file[p]
    BY <1>2, <1>3, <1>4
  <2> QED
    BY <1>2, <1>5, <2>1, <2>2, <2>3, <2>4 DEF Sweeps
<1>7. ImagesSwept
  <2>1. ASSUME NEW p \in Of("IMAGE"), p \in stored', Covered(p) PROVE Covered(p)'
    <3>1. p \in Objects /\ file'[p] = file[p]
      BY <1>2, <1>3, <2>1 DEF Of
    <3> QED
      BY <1>2, <2>1, <3>1 DEF Covered, InHand
  <2>2. \A p \in Range(questImage') : file'[p] = "LIVE"
    BY <1>1, <1>2, <1>3, <1>4 DEF ImageInv
  <2>3. \A p \in Objects : file'[p] = file[p] \/ (file[p] = "DELETED" /\ file'[p] = "CLEANED" /\ p \notin stored')
    BY <1>2, <1>3
  <2> QED
    BY <1>1, <1>2, <2>1, <2>2, <2>3 DEF ImagesSwept, ImageInv
<1> QED
  BY <1>1, <1>6, <1>7, Swept, ImagesSweptKept

\* A removal deletes the object of an image it has locked.
LEMMA RemoveImageKept ==
    ASSUME FilesInv, NEW o \in Objects, RemoveImage(o)
    PROVE  Sound("IMAGE") /\ ImageInv'
<1> DEFINE f == "IMAGE"
<1>1. /\ StoreInv /\ ImageInv /\ FlowInv(f) /\ f \in Flows
      /\ Referred(f) = Range(questImage) /\ Range(questImage) \subseteq Objects
      /\ Excused(f) = {removing} \union removalFailed /\ Excused(f)' = {removing'} \union removalFailed'
      /\ file \in [Objects -> FileRows]
  BY ImageFacts DEF StoreInv
<1>2. /\ file' = file /\ stored' \subseteq stored /\ stored \ stored' \subseteq {o} /\ prefix' = prefix
      /\ request' = request /\ command' = command
      /\ questImage' = questImage /\ usedKey' = usedKey /\ removing' = o /\ removalFailed' = removalFailed
      /\ removing = NoObject /\ Contains(questImage, o)
  BY DEF RemoveImage, DeleteObjects, QuestUnlocked
<1>3. o \in Referred(f)
  <2>1. DOMAIN questImage = 1..Len(questImage)
    BY <1>1 DEF ImageInv
  <2> QED
    BY <1>1, <1>2, <2>1 DEF Contains, Range
<1>4. Referred(f)' = Referred(f) /\ Doomed(f)' = Doomed(f)
  BY <1>2 DEF Referred, Doomed, Abandoned
<1>5. Sweeps(f)
  <2>1. Referred(f)' \ Excused(f)' \subseteq stored'
    BY <1>1, <1>2, <1>4, StoreAssumption DEF FlowInv
  <2>2. /\ Doomed(f)' \subseteq Of(f) /\ Referred(f)' \intersect Doomed(f)' = {}
        /\ \A s \in Requests : request[s].flow = f /\ Uploading(s) => Holds(s) \intersect Doomed(f)' = {}
    BY <1>1, <1>4 DEF FlowInv
  <2> QED
    BY <1>1, <1>2, <1>3, <1>4, <2>1, <2>2 DEF Sweeps
<1>6. ImagesSwept
  <2>1. \A p \in Of("IMAGE") : p \in stored' /\ Covered(p) => Covered(p)'
    BY <1>2 DEF Covered, InHand
  <2>2. removing' \in Range(questImage')
    BY <1>1, <1>2, <1>3
  <2> QED
    BY <1>1, <1>2, <2>1, <2>2 DEF ImagesSwept, ImageInv
<1> QED
  BY <1>1, <1>5, <1>6, Swept, ImagesSweptKept

\* The removal commits: its image makes room, and becomes a tombstone.
LEMMA RemovalCommitsKept ==
    ASSUME FilesInv, RemovalCommits
    PROVE  Sound("IMAGE") /\ ImageInv'
<1> DEFINE f == "IMAGE"
<1>1. /\ StoreInv /\ ImageInv /\ FlowInv(f) /\ f \in Flows
      /\ Referred(f) = Range(questImage) /\ Referred(f)' = Range(questImage')
      /\ Range(questImage) \subseteq Objects
      /\ Excused(f) = {removing} \union removalFailed /\ Excused(f)' = {removing'} \union removalFailed'
      /\ file \in [Objects -> FileRows]
      /\ questImage \in Seq(Objects) /\ IsInjective(questImage)
  BY ImageFacts DEF StoreInv, ImageInv
<1>2. PICK i \in DOMAIN questImage : questImage[i] = removing /\ questImage' = RemoveAt(questImage, i)
  BY DEF RemovalCommits
<1>3. /\ stored' = stored /\ prefix' = prefix /\ request' = request /\ command' = command
      /\ usedKey' = usedKey /\ removing' = NoObject /\ removalFailed' = removalFailed
  BY DEF RemovalCommits
<1>4. \A p \in Objects : file'[p] = IF p = removing THEN "DELETED" ELSE file[p]
  BY DEF RemovalCommits, MarkFiles
<1>5. /\ questImage' \in Seq(Objects) /\ IsInjective(questImage')
      /\ Range(questImage') = Range(questImage) \ {removing} /\ removing \in Range(questImage)
  BY <1>1, <1>2, RemovedAt
<1>6. Doomed(f)' \subseteq Doomed(f) \union {removing}
  BY <1>3, <1>4 DEF Doomed, Abandoned
<1>7. Sweeps(f)
  <2>1. Referred(f)' \ Excused(f)' \subseteq stored'
    BY <1>1, <1>3, <1>5 DEF FlowInv
  <2>2. Doomed(f)' \subseteq Of(f) /\ Referred(f)' \intersect Doomed(f)' = {}
    BY <1>1, <1>5, <1>6 DEF FlowInv
  <2>3. \A s \in Requests : request[s].flow = f /\ Uploading(s) => Holds(s) \intersect Doomed(f)' = {}
    BY <1>1, <1>5, <1>6 DEF FlowInv
  <2>4. file' \in [Objects -> FileRows]
    BY <1>1 DEF RemovalCommits, MarkFiles, FileRows
  <2>5. \A p \in Objects \ (Referred(f) \union Doomed(f)) : file'[p] = file[p]
    BY <1>1, <1>4, <1>5
  <2> QED
    BY <1>1, <1>3, <1>5, <2>1, <2>2, <2>3, <2>4, <2>5 DEF Sweeps
<1>8. ImagesSwept
  <2>1. ASSUME NEW p \in Of("IMAGE"), p \in stored', Covered(p) PROVE Covered(p)'
    <3>1. p \in Objects
      BY DEF Of
    <3>2. CASE p = removing
      BY <1>4, <3>1, <3>2 DEF Covered, InHand
    <3>3. CASE p # removing
      <4>1. Contains(questImage, p) => Contains(questImage', p)
        <5>1. DOMAIN questImage = 1..Len(questImage) /\ DOMAIN questImage' = 1..Len(questImage')
          BY <1>1, <1>5
        <5>2. p \in Range(questImage) => p \in Range(questImage')
          BY <1>5, <3>3
        <5> QED
          BY <5>1, <5>2 DEF Contains, Range
      <4>2. file'[p] = file[p]
        BY <1>4, <3>1, <3>3
      <4> QED
        BY <1>3, <2>1, <4>1, <4>2 DEF Covered, InHand
    <3> QED
      BY <3>2, <3>3
  <2>2. \A p \in Range(questImage') : file'[p] = "LIVE"
    BY <1>1, <1>4, <1>5 DEF ImageInv
  <2>3. \A p \in Objects : \/ file'[p] = file[p]
                           \/ /\ file'[p] = "DELETED"
                              /\ \A s \in Requests : request[s].flow = "IMAGE" => p \notin Holds(s)
    BY <1>1, <1>4, <1>5 DEF FlowInv
  <2> QED
    BY <1>1, <1>3, <1>5, <2>1, <2>2, <2>3 DEF ImagesSwept, ImageInv
<1> QED
  BY <1>1, <1>7, <1>8, Swept, ImagesSweptKept

\* The removal fails: an image whose object is gone stays attached.
LEMMA RemovalFailsKept ==
    ASSUME FilesInv, RemovalFails
    PROVE  Sound("IMAGE") /\ ImageInv'
<1> DEFINE f == "IMAGE"
<1>1. /\ StoreInv /\ ImageInv /\ FlowInv(f) /\ f \in Flows
      /\ Referred(f) = Range(questImage) /\ Range(questImage) \subseteq Objects
      /\ Excused(f) = {removing} \union removalFailed /\ Excused(f)' = {removing'} \union removalFailed'
      /\ file \in [Objects -> FileRows]
  BY ImageFacts DEF StoreInv
<1>2. /\ file' = file /\ stored' = stored /\ prefix' = prefix /\ request' = request /\ command' = command
      /\ questImage' = questImage /\ usedKey' = usedKey /\ removing' = NoObject
      /\ removalFailed' = IF removing \in stored THEN removalFailed ELSE removalFailed \union {removing}
  BY DEF RemovalFails
<1>3. Referred(f)' = Referred(f) /\ Doomed(f)' = Doomed(f)
  BY <1>2 DEF Referred, Doomed, Abandoned
<1>4. Sweeps(f)
  <2>1. Referred(f)' \ Excused(f)' \subseteq stored'
    BY <1>1, <1>2, <1>3 DEF FlowInv
  <2>2. /\ Doomed(f)' \subseteq Of(f) /\ Referred(f)' \intersect Doomed(f)' = {}
        /\ \A s \in Requests : request[s].flow = f /\ Uploading(s) => Holds(s) \intersect Doomed(f)' = {}
    BY <1>1, <1>3 DEF FlowInv
  <2> QED
    BY <1>1, <1>2, <1>3, <2>1, <2>2 DEF Sweeps
<1>5. ImagesSwept
  <2>1. \A p \in Of("IMAGE") : p \in stored' /\ Covered(p) => Covered(p)'
    BY <1>2 DEF Covered, InHand
  <2> QED
    BY <1>1, <1>2, <2>1 DEF ImagesSwept, ImageInv
<1> QED
  BY <1>1, <1>4, <1>5, Swept, ImagesSweptKept

\* What the transaction of a batch may do.
LEMMA AddQuestImagesKept ==
    ASSUME FilesInv, NEW r \in Requests, AddQuestImages(r)
    PROVE  Sound("IMAGE") /\ ImageInv'
<1>1. request[r].flow = "IMAGE" /\ request[r].pc = "PERSISTING" /\ Uploading(r) /\ QuestUnlocked
  BY DEF AddQuestImages, Stands, Uploading
<1>2. CASE AttachImages(r)
  BY <1>1, <1>2, AttachImagesKept
<1>3. CASE RejectImages(r)
  BY <1>1, <1>3, RejectImagesKept
<1>4. CASE GoTo(r, "DISCARDING") /\ UNCHANGED <<stored, file, prefix, imageVars>>
  BY <1>1, <1>4, UploadLeaves
<1> QED
  BY <1>2, <1>3, <1>4 DEF AddQuestImages

\* What the flow of the images does.
LEMMA ImageFilesKept ==
    ASSUME FilesInv, UNCHANGED <<proofVars, profileVars, chatFileVars>>,
           (\E r \in Requests : ImageStep(r)) \/ ImageSweep \/ ImageRemoval
    PROVE  FilesInv'
<1>1. ASSUME NEW r \in Requests, ImageStep(r) PROVE Sound("IMAGE") /\ ImageInv'
  <2>1. CASE \E n \in 1..MaxImages : CheckImageUpload(r, n)
    BY <2>1, CheckImageUploadKept
  <2>2. CASE \E n \in 1..MaxImages : CheckImageLimit(r, n)
    BY <2>2, CheckImageLimitKept
  <2>3. CASE \E o \in Objects : UploadImage(r, o)
    BY <2>3, UploadImageKept
  <2>4. CASE AddQuestImages(r)
    BY <2>4, AddQuestImagesKept
  <2>5. CASE CompensateImages(r)
    BY <2>5, CompensateImagesKept
  <2>6. CASE RecordTombstones(r)
    BY <2>6, RecordTombstonesKept
  <2>7. CASE ParkCleanup(r)
    BY <2>7, ParkCleanupKept
  <2>8. CASE ReleaseReservation(r)
    BY <2>8, ReleaseReservationKept
  <2> QED
    BY <1>1, <2>1, <2>2, <2>3, <2>4, <2>5, <2>6, <2>7, <2>8 DEF ImageStep
<1>2. ASSUME ImageSweep PROVE Sound("IMAGE") /\ ImageInv'
  BY <1>2, CommandLapsesKept, RecoverManifestKept, RetryCleanupManifestKept, CleanupTombstoneKept
     DEF ImageSweep
<1>3. ASSUME ImageRemoval PROVE Sound("IMAGE") /\ ImageInv'
  BY <1>3, RemoveImageKept, RemovalCommitsKept, RemovalFailsKept, PublishQuestKept DEF ImageRemoval
<1> QED
  BY <1>1, <1>2, <1>3, ImageFlowKept

-----------------------------------------------------------------------------
(* All flows at once *)

\* A process dies: its request has deleted nothing, and nobody takes it up.
LEMMA CrashKept ==
    ASSUME FilesInv, NEW r \in Requests, RequestCrashes(r),
           UNCHANGED <<imageVars, proofVars, profileVars, chatFileVars>>
    PROVE  FilesInv'
<1>1. /\ StoreInv /\ OtherRows /\ Ends(r) /\ stored' = stored /\ file' = file /\ prefix' = prefix
  BY DEF FilesInv, RequestCrashes
<1>2. PICK f \in Flows : request[r].flow = f
  <2>1. request[r].flow \in Flows
    BY <1>1, RequestFacts DEF RequestCrashes, RequestStates
  <2> QED
    BY <2>1
<1>3. FlowInv(f) /\ request[r].flow = f
  BY <1>2 DEF FilesInv
<1>4. SameRows(f)
  BY <1>1 DEF SameRows, Referred, Excused, Doomed, Abandoned,
              imageVars, proofVars, profileVars, chatFileVars
<1>5. Sound(f)
  <2>1. stored' \subseteq stored /\ stored \ stored' \subseteq Holds(r)
    BY <1>1
  <2> QED
    BY <1>1, <1>2, <1>3, <1>4, <2>1, RequestEnded
<1>6. f = "IMAGE" => ImageInv'
  BY <1>1, <1>3, UploadLeaves
<1>7. Others(f) /\ OtherRows'
  BY <1>1 DEF Others, OtherRows, imageVars, proofVars, profileVars, chatFileVars
<1>8. DraftRows'
  BY <1>1 DEF FilesInv, DraftRows, proofVars
<1> QED
  BY <1>2, <1>5, <1>6, <1>7, <1>8, StepKept

\* At the start there are no objects.
LEMMA FilesBegin ==
    ASSUME FilesInit
    PROVE  FilesInv
<1>1. /\ stored = {} /\ file = [o \in Objects |-> "NONE"] /\ prefix = [o \in Objects |-> "NONE"]
      /\ request = [r \in Requests |-> NoRequest]
      /\ questImage = <<>> /\ command = [k \in Keys |-> NoCommand] /\ usedKey \in [Requests -> Keys]
      /\ removing = NoObject /\ removalFailed = {}
      /\ proofFile = {} /\ proofCleanup = {} /\ refusedFile = {} /\ avatar = NoObject
      /\ portfolio = [exists |-> FALSE, images |-> <<>>]
      /\ certificate = [exists |-> TRUE, image |-> NoObject]
      /\ attachment = [o \in Objects |-> "NONE"] /\ teamFile = {}
  BY DEF FilesInit, StoreInit, ImageInit, ProofInit, ProfileInit, ChatFilesInit
<1>2. /\ NoRequest \in RequestStates /\ NoRequest.flow = "NONE" /\ NoRequest.pc = "IDLE"
      /\ NoRequest.planned = {} /\ NoRequest.uploaded = {}
  BY DEF NoRequest, RequestStates
<1>3. \A r \in Requests : Holds(r) = {} /\ ~Uploading(r) /\ request[r] = NoRequest
  BY <1>1, <1>2 DEF Holds, Uploading
<1>4. StoreInv
  <2>1. \A r \in Requests : RequestOK(r)
    BY <1>1, <1>2, <1>3 DEF RequestOK
  <2> QED
    BY <1>1, <1>2, <1>3, <2>1 DEF StoreInv, FileRows
<1>5. <<>> \in Seq(Objects) /\ IsInjective(<<>>) /\ Range(<<>>) = {}
  BY DEF IsInjective, Range
<1>6. NoCommand \in CommandRows /\ NoCommand.status = "NONE" /\ NoCommand.objects = {}
  BY DEF NoCommand, CommandRows
<1>7. ASSUME NEW f \in Flows PROVE FlowInv(f)
  <2>1. Referred(f) = {}
    <3>1. ProofRows = {}
      BY <1>1 DEF ProofRows, Of
    <3> QED
      BY <1>1, <1>5, <3>1 DEF Referred, Flows
  <2>2. Doomed(f) = {}
    BY <1>1, <1>6 DEF Doomed, Abandoned
  <2> QED
    BY <1>2, <1>3, <2>1, <2>2 DEF FlowInv, Flows
<1>8. ImageInv
  <2>1. \A k \in Keys : CommandOK(k) /\ command[k].objects = {}
    BY <1>1, <1>6 DEF CommandOK
  <2>2. LostOnlyAfterRejection
    BY <1>1 DEF LostOnlyAfterRejection
  <2>3. \A o \in Of("IMAGE") : file[o] = "NONE"
    BY <1>1 DEF Of
  <2> QED
    BY <1>1, <1>2, <1>3, <1>5, <1>6, <2>1, <2>2, <2>3 DEF ImageInv
<1>9. OtherRows
  BY <1>1, <1>5 DEF OtherRows
<1> QED
  BY <1>1, <1>4, <1>7, <1>8, <1>9 DEF FilesInv, DraftRows

\* Every step of every flow, crashes included, keeps the invariant.
LEMMA FilesKept ==
    ASSUME FilesInv, [FilesNext]_filesVars
    PROVE  FilesInv'
<1>1. CASE UNCHANGED filesVars
  <2>1. /\ stored' = stored /\ file' = file /\ prefix' = prefix /\ request' = request
        /\ UNCHANGED <<imageVars, proofVars, profileVars, chatFileVars>>
    BY <1>1 DEF filesVars, storeVars
  <2>2. /\ \A r : Holds(r)' = Holds(r) /\ (Uploading(r)' <=> Uploading(r))
        /\ \A r : RequestOK(r) => RequestOK(r)'
        /\ \A r : UploadOK(r) => UploadOK(r)'
        /\ \A k : CommandOK(k) => CommandOK(k)'
    BY <2>1 DEF Holds, Uploading, RequestOK, UploadOK, CommandOK, Of, imageVars
  <2>3. \A f : /\ Of(f)' = Of(f) /\ Referred(f)' = Referred(f) /\ Excused(f)' = Excused(f)
               /\ Doomed(f)' = Doomed(f)
    BY <2>1 DEF Of, Referred, ProofRows, Excused, Doomed, Abandoned,
                imageVars, proofVars, profileVars, chatFileVars
  <2>4. StoreInv'
    BY <2>1, <2>2 DEF FilesInv, StoreInv
  <2>5. \A f \in Flows : FlowInv(f)'
    BY <2>1, <2>2, <2>3 DEF FilesInv, FlowInv
  <2>6. ImageInv'
    <3>1. LostOnlyAfterRejection'
      BY <2>1 DEF FilesInv, ImageInv, LostOnlyAfterRejection, InHand, imageVars
    <3> QED
      BY <2>1, <2>2, <2>3, <3>1 DEF FilesInv, ImageInv, imageVars
  <2>7. OtherRows'
    BY <2>1 DEF FilesInv, OtherRows, profileVars, chatFileVars
  <2> QED
    BY <2>1, <2>4, <2>5, <2>6, <2>7 DEF FilesInv, DraftRows, proofVars
<1>2. CASE FilesNext
  <2>1. CASE /\ (\E r \in Requests : ImageStep(r)) \/ ImageSweep \/ ImageRemoval
             /\ UNCHANGED <<proofVars, profileVars, chatFileVars>>
    BY <2>1, ImageFilesKept
  <2>2. CASE /\ (\E r \in Requests : ProofStep(r)) \/ ProofFilesStep
             /\ UNCHANGED <<imageVars, profileVars, chatFileVars>>
    BY <2>2, ProofFilesKept
  <2>3. CASE /\ \E r \in Requests : ProfileStep(r)
             /\ UNCHANGED <<imageVars, proofVars, chatFileVars>>
    BY <2>3, ProfileFilesKept
  <2>4. CASE /\ (\E r \in Requests : ChatFileStep(r)) \/ ChatFilesStep
             /\ UNCHANGED <<imageVars, proofVars, profileVars>>
    BY <2>4, ChatFilesKept
  <2>5. CASE /\ \E r \in Requests : RequestCrashes(r)
             /\ UNCHANGED <<imageVars, proofVars, profileVars, chatFileVars>>
    BY <2>5, CrashKept
  <2> QED
    BY <1>2, <2>1, <2>2, <2>3, <2>4, <2>5 DEF FilesNext
<1> QED
  BY <1>1, <1>2

\* What is shown is referred to, and what is referred to is stored.
LEMMA ShownStored ==
    ASSUME FilesInv
    PROVE  NoFileIsLost
<1>1. /\ \A f \in Flows : Referred(f) \ Excused(f) \subseteq stored
      /\ attachment \in [Objects -> {"NONE", "VALIDATED", "CONSUMED", "EXPIRED"}]
  BY DEF FilesInv, FlowInv, OtherRows
<1>2. /\ Range(questImage) \ ({removing} \union removalFailed) \subseteq stored
      /\ ProofShown \subseteq stored
      /\ {avatar} \ {NoObject} \subseteq stored /\ {certificate.image} \ {NoObject} \subseteq stored
      /\ Range(portfolio.images) \subseteq stored
      /\ {o \in Objects : attachment[o] \in {"VALIDATED", "CONSUMED"}} \subseteq stored
      /\ teamFile \subseteq stored
  <2>1. ProofRows \subseteq stored
    BY <1>1 DEF Referred, Excused, Flows
  <2>2. ProofShown \subseteq ProofRows
    <3>1. DraftRows
      BY DEF FilesInv
    <3> QED
      BY <3>1 DEF DraftRows, ProofShown, ProofRows, Of
  <2> QED
    BY <1>1, <2>1, <2>2 DEF Referred, Excused, Flows
<1>3. ShownHaveObject
  BY <1>2 DEF ShownHaveObject, Shown
<1> QED
  BY <1>3 DEF NoFileIsLost, FilesInv, ImageInv

\* Whatever is deleted, by a handler, by what undoes a refused upload or by a
\* sweep, nobody refers to, and nobody will: for any number of files, requests
\* and keys, and for all flows at once.
THEOREM FilesHold == FilesSpec => []FilesInv
<1>1. FilesInit => FilesInv
  BY FilesBegin
<1>2. FilesInv /\ [FilesNext]_filesVars => FilesInv'
  BY FilesKept
<1> QED
  BY <1>1, <1>2, PTL DEF FilesSpec

\* No file is lost: what a Member is shown has its object, and an image upload
\* loses sight of an object only after its rejection was stored.
THEOREM FilesSafe == FilesSpec => []NoFileIsLost
<1>1. FilesInv => NoFileIsLost
  BY ShownStored
<1> QED
  BY <1>1, FilesHold, PTL

=============================================================================
