---------------------------- MODULE PayoutProofs ----------------------------
(***************************************************************************)
(* What holds of Payout for every set of Members, Quotes and Workers, for  *)
(* all amounts a Quote may bind and all charges a Provider may report.     *)
(***************************************************************************)
EXTENDS Payout, TLAPS

ChargeType == [fee: Nat, tax: Nat]

-----------------------------------------------------------------------------
(* Types *)

\* The amounts a Quote binds, and what the Provider may charge on them.
LEMMA TermsTypes ==
    ASSUME NEW q \in Quotes
    PROVE  /\ Owner(q) \in Members
           /\ Terms[q].principal \in Nat /\ Terms[q].principal > 0
           /\ Terms[q].fee \in Nat /\ Terms[q].tax \in Nat
           /\ MaxDebit(q) \in Nat /\ MaxDebit(q) > 0
           /\ \A c \in ChargeType : Debit(q, c) \in Nat /\ Debit(q, c) > 0
BY PayoutAssumption DEF Owner, MaxDebit, Debit, ChargeType

\* The initial state has its types.
LEMMA InitTypeOK == Init => TypeOK
BY WalletAssumption, PayoutAssumption
   DEF Init, WalletInit, TypeOK, WalletTypeOK, NoRow, NoCharge, Idle, Wallets,
       Platforms, WalletStatuses, PayoutRows, PayoutStatuses, ActiveStatuses,
       TerminalStatuses, WorkerStates, Replies, GatewayStates, GatewayRequests

\* What an Owner's Wallet becomes when e and p are posted to EARNINGS and
\* RESERVED_FOR_PAYOUTS; every Payout transaction is of this kind.
LEMMA OwnerPosting ==
    ASSUME TypeOK, NEW q \in Quotes, NEW e \in Int, NEW p \in Int,
           PostToWallet(Owner(q), Posted(wallet[Owner(q)], 0, 0, e, p))
    PROVE  /\ wallet' \in [Members -> Wallets]
           /\ \A n \in Members \ {Owner(q)} : wallet'[n] = wallet[n]
           /\ wallet'[Owner(q)].RESERVED_FOR_PAYOUTS
                = wallet[Owner(q)].RESERVED_FOR_PAYOUTS + p
           /\ WalletTotal(wallet'[Owner(q)]) = WalletTotal(wallet[Owner(q)]) + e + p
<1> DEFINE m == Owner(q)
           w == Posted(wallet[m], 0, 0, e, p)
<1>1. m \in Members /\ wallet \in [Members -> Wallets] /\ wallet[m] \in Wallets
  BY TermsTypes DEF TypeOK, WalletTypeOK
<1>2. /\ w \in Wallets
      /\ w.RESERVED_FOR_PAYOUTS = wallet[m].RESERVED_FOR_PAYOUTS + p
      /\ WalletTotal(w) = WalletTotal(wallet[m]) + 0 + 0 + e + p
  BY <1>1, PostedFacts
<1>3. WalletTotal(wallet[m]) \in Int
  BY <1>1, WalletFields DEF WalletTotal
<1> HIDE DEF w
<1>4. wallet' \in [Members -> Wallets] /\ wallet'[m] = w
      /\ \A n \in Members \ {m} : wallet'[n] = wallet[n]
  BY <1>1, <1>2, PostToWalletFacts DEF w
<1> QED
  BY <1>2, <1>3, <1>4

\* Every change of a row that some action makes leads to a row.
LEMMA RowTyped ==
    ASSUME NEW r \in PayoutRows, NEW s \in PayoutStatuses
    PROVE  /\ [r EXCEPT !.status = s, !.claim = "NONE"] \in PayoutRows
           /\ [r EXCEPT !.status = s, !.approved = TRUE, !.job = "PENDING"] \in PayoutRows
           /\ [r EXCEPT !.status = s] \in PayoutRows
           /\ [r EXCEPT !.job = "DONE"] \in PayoutRows
           /\ [r EXCEPT !.reversed = TRUE] \in PayoutRows
           /\ [r EXCEPT !.claim = "LEASED"] \in PayoutRows
           /\ [r EXCEPT !.claim = "STALE"] \in PayoutRows
           /\ \A c \in ChargeType :
                 /\ [r EXCEPT !.status = s, !.claim = "NONE", !.actual = c] \in PayoutRows
                 /\ [r EXCEPT !.status = s, !.claim = "NONE", !.actual = c, !.settled = c]
                       \in PayoutRows
                 /\ [r EXCEPT !.actual = c, !.claim = "NONE"] \in PayoutRows
BY DEF PayoutRows, ChargeType

\* The statuses written out, so that a leaf need not expand three sets.
LEMMA SomeStatuses ==
    {"PENDING_ADMIN_APPROVAL", "SUBMITTED_TO_PROVIDER", "PROVIDER_PENDING",
     "SUCCEEDED", "FAILED", "CANCELLED"} = PayoutStatuses
BY DEF PayoutStatuses, ActiveStatuses, TerminalStatuses

\* Replacing one row by a row keeps the table typed.
LEMMA RowUpdateTyped ==
    ASSUME payout \in [Quotes -> PayoutRows], NEW q \in Quotes, NEW r \in PayoutRows,
           payout' = [payout EXCEPT ![q] = r]
    PROVE  payout' \in [Quotes -> PayoutRows]
OBVIOUS

\* Releasing a reserve keeps the Wallet and the table typed.
LEMMA ReleaseTyped ==
    ASSUME TypeOK, NEW q \in Quotes, NEW s \in {"FAILED", "CANCELLED"}, ReleaseReserve(q, s)
    PROVE  WalletTypeOK' /\ payout' \in [Quotes -> PayoutRows]
<1>1. MaxDebit(q) \in Int /\ -MaxDebit(q) \in Int
  BY TermsTypes
<1>2. wallet' \in [Members -> Wallets]
  BY <1>1, OwnerPosting DEF ReleaseReserve
<1>3. payout[q] \in PayoutRows /\ payout \in [Quotes -> PayoutRows]
  BY DEF TypeOK
<1>4. [payout[q] EXCEPT !.status = s, !.claim = "NONE"] \in PayoutRows
  BY <1>3, SomeStatuses, RowTyped
<1>5. payout' \in [Quotes -> PayoutRows]
  BY <1>3, <1>4, RowUpdateTyped DEF ReleaseReserve
<1> QED
  BY <1>2, <1>5 DEF TypeOK, WalletTypeOK, ReleaseReserve

\* So does finalizeFailed, which releases it or does nothing.
LEMMA FinalizeFailedTyped ==
    ASSUME TypeOK, NEW q \in Quotes, FinalizeFailed(q)
    PROVE  WalletTypeOK' /\ payout' \in [Quotes -> PayoutRows]
BY ReleaseTyped DEF FinalizeFailed, TypeOK, WalletTypeOK, walletVars

\* A Worker past IDLE holds a Payout.
WorkerHoldsPayout ==
    \A w \in Workers : worker[w].pc # "IDLE" => worker[w].quote \in Quotes

TypeInv == TypeOK /\ WorkerHoldsPayout

\* A request leaves a request state behind.
LEMMA RequestEffectsTyped ==
    ASSUME NEW g \in GatewayRequests, NEW h \in RequestEffects(g)
    PROVE  h \in GatewayRequests
<1>1. CASE h = [g EXCEPT !.state = "REFUSED"]
  BY <1>1 DEF GatewayRequests, GatewayStates
<1>2. CASE \E c \in Charges : h = [g EXCEPT !.state = "ACCEPTED", !.charge = c]
  BY <1>2, PayoutAssumption DEF GatewayRequests, GatewayStates
<1> QED
  BY <1>1, <1>2 DEF RequestEffects

\* Every step of a Worker keeps the types.
LEMMA WorkerStepTyped ==
    ASSUME TypeInv, NEW w \in Workers, WorkerStep(w)
    PROVE  TypeInv'
<1> DEFINE q == worker[w].quote
<1>0. /\ worker \in [Workers -> WorkerStates] /\ worker[w] \in WorkerStates
      /\ payout \in [Quotes -> PayoutRows]
      /\ worker[w].pc # "IDLE" => q \in Quotes /\ payout[q] \in PayoutRows
  BY DEF TypeInv, TypeOK, WorkerHoldsPayout
<1>1. CASE \E p \in Quotes : SelectCandidate(w, p)
  <2>1. PICK p \in Quotes : SelectCandidate(w, p)
    BY <1>1
  <2>2. [Idle EXCEPT !.pc = "SELECTED", !.quote = p] \in WorkerStates
    BY DEF Idle, WorkerStates, Replies, NoCharge
  <2>3. worker' \in [Workers -> WorkerStates] /\ WorkerHoldsPayout'
    BY <1>0, <2>1, <2>2 DEF SelectCandidate, TypeInv, WorkerHoldsPayout, Idle
  <2> QED
    BY <2>1, <2>3 DEF SelectCandidate, TypeInv, TypeOK, WalletTypeOK, walletVars
<1>2. CASE ClaimApprovedPayout(w)
  <2>1. payout' \in [Quotes -> PayoutRows]
    BY <1>0, <1>2, RowTyped, SomeStatuses DEF ClaimApprovedPayout
  <2>2. worker' \in [Workers -> WorkerStates] /\ WorkerHoldsPayout'
    <3>1. CASE worker' = [worker EXCEPT ![w] = Idle]
      <4>1. Idle \in WorkerStates
        BY DEF Idle, WorkerStates, Replies, NoCharge
      <4> QED
        BY <1>0, <3>1, <4>1 DEF TypeInv, WorkerHoldsPayout, Idle
    <3>2. ASSUME NEW pc \in {"CLAIMED", "FINALIZED"},
                 worker' = [worker EXCEPT ![w].pc = pc]
          PROVE  worker' \in [Workers -> WorkerStates] /\ WorkerHoldsPayout'
      <4> DEFINE state == [worker[w] EXCEPT !.pc = pc]
      <4>1. worker[w].pc # "IDLE"
        BY <1>2 DEF ClaimApprovedPayout
      <4>2. state \in WorkerStates /\ state.quote = q
        BY <1>0 DEF WorkerStates
      <4>3. worker' = [worker EXCEPT ![w] = state]
        BY <3>2
      <4>4. \A v \in Workers : worker[v].pc # "IDLE" => worker[v].quote \in Quotes
        BY DEF TypeInv, WorkerHoldsPayout
      <4> HIDE DEF state
      <4>5. worker' \in [Workers -> WorkerStates]
        BY <1>0, <4>2, <4>3
      <4> QED
        BY <1>0, <4>1, <4>2, <4>3, <4>4, <4>5 DEF WorkerHoldsPayout
    <3> QED
      BY <1>2, <3>1, <3>2 DEF ClaimApprovedPayout
  <2> QED
    BY <1>2, <2>1, <2>2 DEF ClaimApprovedPayout, TypeInv, TypeOK, WalletTypeOK, walletVars
<1>3. CASE Finalize(w) /\ worker[w].pc # "IDLE" /\ UNCHANGED <<quote, gateway, reports, crashes>>
            /\ WalletTypeOK' /\ payout' \in [Quotes -> PayoutRows]
  <2>1. worker' \in [Workers -> WorkerStates] /\ WorkerHoldsPayout'
    BY <1>0, <1>3 DEF Finalize, WorkerStates, TypeInv, WorkerHoldsPayout
  <2> QED
    BY <1>3, <2>1 DEF TypeInv, TypeOK
<1>4. CASE PreparationFails(w)
  BY <1>0, <1>3, <1>4, FinalizeFailedTyped DEF PreparationFails, TypeInv
<1>5. CASE FinalizeRejected(w)
  BY <1>0, <1>3, <1>5, FinalizeFailedTyped DEF FinalizeRejected, TypeInv
<1>6. CASE FinalizeProviderResponse(w)
  <2>1. worker[w].charge \in ChargeType
    BY <1>0 DEF WorkerStates, ChargeType
  <2>2. payout' \in [Quotes -> PayoutRows]
    <3>1. CASE payout' = [payout EXCEPT ![q] =
                   [@ EXCEPT !.status = "PROVIDER_PENDING", !.claim = "NONE",
                             !.actual = worker[w].charge]]
      BY <1>0, <1>6, <2>1, <3>1, RowTyped, SomeStatuses DEF FinalizeProviderResponse
    <3>2. CASE UNCHANGED payout
      BY <1>0, <3>2
    <3> QED
      BY <1>6, <3>1, <3>2 DEF FinalizeProviderResponse
  <2>3. WalletTypeOK'
    BY <1>6 DEF FinalizeProviderResponse, walletVars, TypeInv, TypeOK, WalletTypeOK
  <2> QED
    BY <1>3, <1>6, <2>2, <2>3 DEF FinalizeProviderResponse
<1>7. CASE FinalizeUncertain(w)
  <2>1. payout' \in [Quotes -> PayoutRows]
    BY <1>0, <1>7, RowTyped, SomeStatuses DEF FinalizeUncertain
  <2>2. WalletTypeOK'
    BY <1>7 DEF FinalizeUncertain, walletVars, TypeInv, TypeOK, WalletTypeOK
  <2> QED
    BY <1>3, <1>7, <2>1, <2>2 DEF FinalizeUncertain
<1>8. CASE CallProvider(w)
  <2>0. PICK g \in RequestEffects(gateway[q]) : \E r \in Answers(g.state) :
          /\ gateway' = [gateway EXCEPT ![q] =
                [g EXCEPT !.calls = IF g.calls = 2 THEN 2 ELSE g.calls + 1]]
          /\ \E c \in IF r = "ACCEPTED" THEN {g.charge, NoCharge} ELSE {NoCharge} :
                worker' = [worker EXCEPT ![w] =
                    [@ EXCEPT !.pc = "REPLIED", !.reply = r, !.charge = c]]
    BY <1>8 DEF CallProvider
  <2>1. PICK r \in Answers(g.state), c \in {g.charge, NoCharge} :
          /\ gateway' = [gateway EXCEPT ![q] =
                [g EXCEPT !.calls = IF g.calls = 2 THEN 2 ELSE g.calls + 1]]
          /\ worker' = [worker EXCEPT ![w] =
                [@ EXCEPT !.pc = "REPLIED", !.reply = r, !.charge = c]]
    BY <2>0
  <2>2. g \in GatewayRequests
    BY <1>0, <1>8, RequestEffectsTyped DEF CallProvider, TypeInv, TypeOK
  <2>3. /\ r \in Replies /\ c \in ChargeType
        /\ [g EXCEPT !.calls = IF g.calls = 2 THEN 2 ELSE g.calls + 1] \in GatewayRequests
    BY <2>2 DEF Answers, Replies, GatewayRequests, GatewayStates, ChargeType, NoCharge
  <2>4. gateway' \in [Quotes -> GatewayRequests]
    BY <1>0, <1>8, <2>1, <2>3 DEF CallProvider, TypeInv, TypeOK
  <2>5. worker' \in [Workers -> WorkerStates] /\ WorkerHoldsPayout'
    BY <1>0, <1>8, <2>1, <2>3 DEF CallProvider, WorkerStates, TypeInv, WorkerHoldsPayout, ChargeType
  <2> QED
    BY <1>8, <2>4, <2>5
       DEF CallProvider, TypeInv, TypeOK, WalletTypeOK, walletVars, ChargeType
<1>9. CASE CompleteSubmissionJob(w)
  <2>1. payout' \in [Quotes -> PayoutRows]
    BY <1>0, <1>9, RowTyped, SomeStatuses DEF CompleteSubmissionJob
  <2>2. worker' \in [Workers -> WorkerStates] /\ WorkerHoldsPayout'
    BY <1>9 DEF CompleteSubmissionJob, TypeInv, TypeOK, WorkerHoldsPayout, Idle,
                WorkerStates, Replies, NoCharge
  <2> QED
    BY <1>9, <2>1, <2>2 DEF CompleteSubmissionJob, TypeInv, TypeOK, WalletTypeOK, walletVars
<1> QED
  BY <1>1, <1>2, <1>4, <1>5, <1>6, <1>7, <1>8, <1>9 DEF WorkerStep

\* Settling keeps the Wallet typed.
LEMMA SettleTyped ==
    ASSUME TypeOK, NEW q \in Quotes, NEW c \in ChargeType, SettlePayout(q, c)
    PROVE  WalletTypeOK'
<1>1. /\ MaxDebit(q) - Debit(q, c) \in Int /\ -MaxDebit(q) \in Int
      /\ Terms[q].principal + c.tax \in Int /\ c.fee \in Int
  BY TermsTypes DEF ChargeType
<1>2. wallet' \in [Members -> Wallets]
  BY <1>1, OwnerPosting DEF SettlePayout
<1>3. platform' \in Platforms
  BY <1>1, PostToPlatformFacts DEF SettlePayout, TypeOK, WalletTypeOK
<1> QED
  BY <1>2, <1>3 DEF SettlePayout, TypeOK, WalletTypeOK

\* Both ledger transactions of a reversal together: the debit comes back.
LEMMA ReversalPosting ==
    ASSUME TypeOK, NEW q \in Quotes, ApplyReversal(q)
    PROVE  /\ wallet' \in [Members -> Wallets]
           /\ \A n \in Members \ {Owner(q)} : wallet'[n] = wallet[n]
           /\ wallet'[Owner(q)].RESERVED_FOR_PAYOUTS = wallet[Owner(q)].RESERVED_FOR_PAYOUTS
           /\ WalletTotal(wallet'[Owner(q)])
                = WalletTotal(wallet[Owner(q)]) + Debit(q, payout[q].settled)
<1> DEFINE m == Owner(q)
           d == Debit(q, payout[q].settled)
           x == MaxDebit(q)
<1>1. /\ m \in Members /\ wallet \in [Members -> Wallets] /\ wallet[m] \in Wallets
      /\ d \in Int /\ x \in Int /\ -x \in Int /\ d - x \in Int
  BY TermsTypes DEF TypeOK, WalletTypeOK, PayoutRows, ChargeType
<1>2. /\ Unsettled(q) \in Wallets
      /\ Unsettled(q).RESERVED_FOR_PAYOUTS = wallet[m].RESERVED_FOR_PAYOUTS + x
      /\ WalletTotal(Unsettled(q)) = WalletTotal(wallet[m]) + 0 + 0 + (d - x) + x
  BY <1>1, PostedFacts DEF Unsettled
<1> DEFINE v == Posted(Unsettled(q), 0, 0, x, -x)
<1>3. /\ v \in Wallets
      /\ v.RESERVED_FOR_PAYOUTS = Unsettled(q).RESERVED_FOR_PAYOUTS + (-x)
      /\ WalletTotal(v) = WalletTotal(Unsettled(q)) + 0 + 0 + x + (-x)
  BY <1>1, <1>2, PostedFacts
<1>4. PostToWallet(m, v)
  BY DEF ApplyReversal
<1>5. WalletTotal(wallet[m]) \in Int /\ wallet[m].RESERVED_FOR_PAYOUTS \in Int
  BY <1>1, WalletFields DEF WalletTotal
<1> HIDE DEF v, d, x
<1>6. /\ wallet' \in [Members -> Wallets] /\ wallet'[m] = v
      /\ \A n \in Members \ {m} : wallet'[n] = wallet[n]
  BY <1>1, <1>3, <1>4, PostToWalletFacts
<1>7. wallet'[m].RESERVED_FOR_PAYOUTS = wallet[m].RESERVED_FOR_PAYOUTS
      /\ WalletTotal(wallet'[m]) = WalletTotal(wallet[m]) + d
  BY <1>1, <1>2, <1>3, <1>5, <1>6
<1> QED
  BY <1>6, <1>7 DEF d

\* What the Provider reports is typed like what was charged.
LEMMA ReportedTyped ==
    ASSUME TypeOK, NEW q \in Quotes, NEW k, NEW c \in Reported(q, k)
    PROVE  c \in ChargeType
BY DEF TypeOK, Reported, Outcomes, ChargeType

\* What the Provider reports is an outcome.
LEMMA OutcomesTyped ==
    ASSUME NEW g \in GatewayRequests, g.state \notin {"UNKNOWN", "REFUSED"}
    PROVE  OutcomesOf(g) \subseteq Outcomes
BY DEF OutcomesOf, KindOf, Outcomes, GatewayRequests, GatewayStates, NoCharge

\* Every step on a Payout, by a Member, an Admin or the Provider, keeps the types.
LEMMA PayoutStepTyped ==
    ASSUME TypeInv, NEW q \in Quotes, PayoutStep(q)
    PROVE  TypeInv'
<1>0. /\ payout \in [Quotes -> PayoutRows] /\ payout[q] \in PayoutRows
      /\ gateway \in [Quotes -> GatewayRequests] /\ gateway[q] \in GatewayRequests
      /\ MaxDebit(q) \in Int /\ -MaxDebit(q) \in Int
  BY TermsTypes DEF TypeInv, TypeOK
\* Most steps leave all but the Quote, the row, the Wallets or the gateway alone.
<1>a. ASSUME quote' \in [Quotes -> {"NONE", "OPEN", "LAPSED", "CONSUMED"}],
             payout' \in [Quotes -> PayoutRows], WalletTypeOK',
             gateway' \in [Quotes -> GatewayRequests],
             reports' \in [Quotes -> SUBSET Outcomes],
             UNCHANGED <<worker, crashes>>
      PROVE  TypeInv'
  BY <1>a DEF TypeInv, TypeOK, WorkerHoldsPayout
<1>1. CASE CreateQuote(q) \/ LapseQuote(q)
  BY <1>1, <1>a DEF CreateQuote, LapseQuote, TypeInv, TypeOK, WalletTypeOK, walletVars
<1>2. CASE PreparePayout(q)
  <2>1. wallet' \in [Members -> Wallets]
    BY <1>0, <1>2, OwnerPosting DEF PreparePayout, TypeInv
  <2>2. payout' \in [Quotes -> PayoutRows]
    BY <1>0, <1>2, RowTyped, SomeStatuses DEF PreparePayout
  <2> QED
    BY <1>2, <1>a, <2>1, <2>2 DEF PreparePayout, TypeInv, TypeOK, WalletTypeOK
<1>3. CASE ApprovePayout(q)
  <2>1. payout' \in [Quotes -> PayoutRows]
    BY <1>0, <1>3, RowTyped, SomeStatuses DEF ApprovePayout
  <2> QED
    BY <1>3, <1>a, <2>1 DEF ApprovePayout, TypeInv, TypeOK, WalletTypeOK, walletVars
<1>4. CASE CancelPayout(q)
  BY <1>4, <1>a, ReleaseTyped DEF CancelPayout, TypeInv, TypeOK
<1>5. CASE LeaseExpires(q)
  <2>1. payout' \in [Quotes -> PayoutRows]
    BY <1>0, <1>5, RowTyped, SomeStatuses DEF LeaseExpires
  <2> QED
    BY <1>5, <1>a, <2>1 DEF LeaseExpires, TypeInv, TypeOK, WalletTypeOK, walletVars
<1>6. CASE GatewayMoves(q)
  <2>1. gateway' \in [Quotes -> GatewayRequests]
    BY <1>0, <1>6 DEF GatewayMoves, GatewayRequests, GatewayStates
  <2> QED
    BY <1>6, <1>a, <2>1 DEF GatewayMoves, TypeInv, TypeOK, WalletTypeOK, walletVars
<1>7. CASE GatewayReports(q)
  <2>1. reports' \in [Quotes -> SUBSET Outcomes]
    BY <1>0, <1>7, OutcomesTyped DEF GatewayReports, TypeInv, TypeOK
  <2> QED
    BY <1>7, <1>a, <2>1 DEF GatewayReports, TypeInv, TypeOK, WalletTypeOK, walletVars
<1>8. CASE ApplySucceeded(q)
  <2>1. PICK c \in Reported(q, "SUCCEEDED") :
          /\ \/ /\ SettlePayout(q, c)
                /\ payout' = [payout EXCEPT ![q] =
                      [@ EXCEPT !.status = "SUCCEEDED", !.claim = "NONE",
                                !.actual = c, !.settled = c]]
             \/ /\ payout' = [payout EXCEPT ![q] =
                      [@ EXCEPT !.actual = c, !.claim = "NONE"]]
                /\ UNCHANGED walletVars
          /\ UNCHANGED <<quote, worker, gateway, reports, crashes>>
    BY <1>8 DEF ApplySucceeded
  <2>2. c \in ChargeType
    BY ReportedTyped DEF TypeInv
  <2>3. payout' \in [Quotes -> PayoutRows]
    <3>1. /\ [payout[q] EXCEPT !.status = "SUCCEEDED", !.claim = "NONE",
                               !.actual = c, !.settled = c] \in PayoutRows
          /\ [payout[q] EXCEPT !.actual = c, !.claim = "NONE"] \in PayoutRows
      BY <1>0, <2>2, RowTyped, SomeStatuses
    <3> QED
      BY <1>0, <2>1, <3>1
  <2>4. WalletTypeOK'
    BY <2>1, <2>2, SettleTyped DEF TypeInv, TypeOK, WalletTypeOK, walletVars
  <2> QED
    BY <1>a, <2>1, <2>3, <2>4 DEF TypeInv, TypeOK
<1>9. CASE ApplyFailure(q)
  BY <1>9, <1>a, ReleaseTyped DEF ApplyFailure, TypeInv, TypeOK
<1>10. CASE ApplyPending(q)
  <2>1. payout' \in [Quotes -> PayoutRows]
    BY <1>0, <1>10, RowTyped, SomeStatuses DEF ApplyPending
  <2> QED
    BY <1>10, <1>a, <2>1 DEF ApplyPending, TypeInv, TypeOK, WalletTypeOK, walletVars
<1>11. CASE ApplyReversal(q)
  <2>1. payout' \in [Quotes -> PayoutRows]
    BY <1>0, <1>11, RowTyped, SomeStatuses DEF ApplyReversal
  <2>2. /\ -payout[q].settled.fee \in Int
        /\ -(Terms[q].principal + payout[q].settled.tax) \in Int
    BY <1>0, TermsTypes DEF PayoutRows
  <2>3. platform' \in Platforms
    BY <1>11, <2>2, PostToPlatformFacts DEF ApplyReversal, TypeInv, TypeOK, WalletTypeOK
  <2>4. WalletTypeOK'
    BY <1>11, <2>3, ReversalPosting DEF ApplyReversal, TypeInv, TypeOK, WalletTypeOK
  <2> QED
    BY <1>11, <1>a, <2>1, <2>4 DEF ApplyReversal, TypeInv, TypeOK
<1> QED
  BY <1>1, <1>2, <1>3, <1>4, <1>5, <1>6, <1>7, <1>8, <1>9, <1>10, <1>11 DEF PayoutStep

\* A crash keeps the types.
LEMMA CrashTyped ==
    ASSUME TypeInv, NEW w \in Workers, WorkerCrash(w)
    PROVE  TypeInv'
<1>1. worker' \in [Workers -> WorkerStates] /\ WorkerHoldsPayout'
  BY DEF WorkerCrash, TypeInv, TypeOK, WorkerHoldsPayout, Idle, WorkerStates, Replies, NoCharge
<1> QED
  BY <1>1 DEF WorkerCrash, TypeInv, TypeOK, WalletTypeOK, walletVars

\* The type invariant, with WorkerHoldsPayout, is inductive.
LEMMA NextTyped == TypeInv /\ [Next]_vars => TypeInv'
<1> SUFFICES ASSUME TypeInv, [Next]_vars PROVE TypeInv'
  OBVIOUS
<1>1. CASE OtherWalletActivity
  BY <1>1, WalletCommands, WalletAssumption
     DEF OtherWalletActivity, payoutVars, TypeInv, TypeOK, WorkerHoldsPayout
<1>2. CASE UNCHANGED vars
  BY <1>2 DEF vars, payoutVars, walletVars, TypeInv, TypeOK, WalletTypeOK, WorkerHoldsPayout
<1> QED
  BY <1>1, <1>2, PayoutStepTyped, WorkerStepTyped, CrashTyped DEF Next

\* Every state of every behaviour of the model is well typed.
THEOREM PayoutTypeSafe == Spec => []TypeOK
<1>1. Init => TypeInv
  BY InitTypeOK DEF TypeInv, Init, WorkerHoldsPayout, Idle
<1>2. TypeInv => TypeOK
  BY DEF TypeInv
<1> QED
  BY <1>1, <1>2, NextTyped, PTL DEF Spec

-----------------------------------------------------------------------------
(* Every step does one of five things to the money of Payouts; what the    *)
(* other variables do is of no account for the reserve and the promise.    *)

\* A row exists once its Quote is consumed; only a success is reversed.
RowsAgree ==
    \A q \in Quotes :
        /\ quote[q] # "CONSUMED" => payout[q].status = "NONE"
        /\ payout[q].reversed => payout[q].status = "SUCCEEDED"

Phase(q) == PhaseOf(payout[q])

OnlyRow(q) == \A p \in Quotes \ {q} : payout'[p] = payout[p]

\* The reserve of m changes by r, its whole Wallet by t, other Wallets not.
WalletMoves(m, r, t) ==
    /\ \A n \in Members \ {m} : wallet'[n] = wallet[n]
    /\ wallet'[m].RESERVED_FOR_PAYOUTS = wallet[m].RESERVED_FOR_PAYOUTS + r
    /\ WalletTotal(wallet'[m]) = WalletTotal(wallet[m]) + t

Quiet ==
    /\ \A q \in Quotes :
          /\ Phase(q)' = Phase(q)
          /\ payout'[q].settled = payout[q].settled
          /\ payout'[q].reversed = payout[q].reversed
    /\ \A m \in Members :
          /\ wallet'[m].RESERVED_FOR_PAYOUTS = wallet[m].RESERVED_FOR_PAYOUTS
          /\ WalletTotal(wallet'[m]) = WalletTotal(wallet[m])

Holds(q) ==
    /\ \A p \in Quotes : Owner(p) = Owner(q) => Phase(p) # "HELD"
    /\ Phase(q) = "IDLE" /\ Phase(q)' = "HELD" /\ quote'[q] = "CONSUMED"
    /\ payout'[q].reversed = payout[q].reversed
    /\ OnlyRow(q) /\ WalletMoves(Owner(q), MaxDebit(q), 0)

Returns(q) ==
    /\ Phase(q) = "HELD" /\ Phase(q)' = "RETURNED"
    /\ payout'[q].reversed = payout[q].reversed
    /\ OnlyRow(q) /\ WalletMoves(Owner(q), -MaxDebit(q), 0)

Takes(q) ==
    /\ Phase(q) = "HELD" /\ Phase(q)' = "TAKEN"
    /\ payout'[q].reversed = payout[q].reversed
    /\ Debit(q, payout'[q].settled) \in 1..MaxDebit(q)
    /\ OnlyRow(q) /\ WalletMoves(Owner(q), -MaxDebit(q), -Debit(q, payout'[q].settled))

Refunds(q) ==
    /\ Phase(q) = "TAKEN" /\ Phase(q)' = "REFUNDED"
    /\ OnlyRow(q) /\ WalletMoves(Owner(q), 0, Debit(q, payout[q].settled))

\* The phases are the groups of statuses the code distinguishes.
LEMMA PhaseFacts ==
    ASSUME NEW r \in PayoutRows
    PROVE  /\ r.status = "NONE" <=> PhaseOf(r) = "IDLE"
           /\ r.status \in ActiveStatuses <=> PhaseOf(r) = "HELD"
           /\ r.status \in {"FAILED", "CANCELLED"} <=> PhaseOf(r) = "RETURNED"
           /\ r.status = "SUCCEEDED" /\ ~r.reversed <=> PhaseOf(r) = "TAKEN"
           /\ r.status = "SUCCEEDED" /\ r.reversed <=> PhaseOf(r) = "REFUNDED"
BY DEF PhaseOf, PayoutRows, PayoutStatuses, ActiveStatuses, TerminalStatuses

\* Steps that touch neither Wallets nor rows.
LEMMA QuietIdle ==
    ASSUME UNCHANGED <<wallet, payout>>
    PROVE  Quiet
BY DEF Quiet, Phase

\* Steps that move a row within its phase.
LEMMA QuietRow ==
    ASSUME TypeInv, TypeInv', UNCHANGED wallet, NEW q \in Quotes, OnlyRow(q),
           payout'[q].settled = payout[q].settled,
           payout'[q].reversed = payout[q].reversed,
           \/ payout'[q].status = payout[q].status
           \/ payout[q].status \in ActiveStatuses /\ payout'[q].status \in ActiveStatuses
    PROVE  Quiet
<1>1. payout[q] \in PayoutRows /\ payout'[q] \in PayoutRows
  BY DEF TypeInv, TypeOK
<1>2. Phase(q)' = Phase(q)
  <2>1. CASE payout'[q].status = payout[q].status
    BY <2>1 DEF Phase, PhaseOf
  <2>2. CASE payout[q].status \in ActiveStatuses /\ payout'[q].status \in ActiveStatuses
    BY <1>1, <2>2, PhaseFacts DEF Phase
  <2> QED
    BY <2>1, <2>2
<1> QED
  BY <1>2 DEF Quiet, Phase, OnlyRow

\* Releasing an active reserve returns the hold.
LEMMA ReleaseReturns ==
    ASSUME TypeInv, TypeInv', NEW q \in Quotes, NEW s \in {"FAILED", "CANCELLED"},
           ReleaseReserve(q, s), payout[q].status \in ActiveStatuses
    PROVE  Returns(q)
<1>1. payout[q] \in PayoutRows /\ payout'[q] \in PayoutRows
  BY DEF TypeInv, TypeOK
<1>2. /\ Phase(q) = "HELD" /\ Phase(q)' = "RETURNED" /\ OnlyRow(q)
      /\ payout'[q].reversed = payout[q].reversed
  <2>1. payout'[q].status = s /\ payout'[q].reversed = payout[q].reversed /\ OnlyRow(q)
    BY <1>1 DEF ReleaseReserve, OnlyRow, TypeInv, TypeOK, PayoutRows
  <2> QED
    BY <1>1, <2>1, PhaseFacts DEF Phase
<1>3. MaxDebit(q) \in Int /\ -MaxDebit(q) \in Int
  BY TermsTypes
<1>4. WalletMoves(Owner(q), -MaxDebit(q), 0)
  <2>1. WalletTotal(wallet[Owner(q)]) \in Int
    BY TermsTypes, WalletFields DEF TypeInv, TypeOK, WalletTypeOK, WalletTotal
  <2> QED
    BY <1>3, <2>1, OwnerPosting DEF ReleaseReserve, WalletMoves, TypeInv
<1> QED
  BY <1>2, <1>4 DEF Returns

\* finalizeFailed returns the hold of a Payout that awaits the Provider, or moves no money.
LEMMA FinalizeFailedEffect ==
    ASSUME TypeInv, TypeInv', NEW q \in Quotes, FinalizeFailed(q)
    PROVE  Quiet \/ Returns(q)
BY ReleaseReturns, QuietIdle DEF FinalizeFailed, AwaitsProvider, ActiveStatuses, walletVars

\* Settling an active Payout takes its debit and returns the rest of the hold.
LEMMA SettleTakes ==
    ASSUME TypeInv, TypeInv', RowsAgree, NEW q \in Quotes, NEW c \in ChargeType,
           SettlePayout(q, c), Debit(q, c) <= MaxDebit(q),
           payout[q].status \in ActiveStatuses,
           payout' = [payout EXCEPT ![q] =
               [@ EXCEPT !.status = "SUCCEEDED", !.claim = "NONE",
                         !.actual = c, !.settled = c]]
    PROVE  Takes(q)
<1>1. payout[q] \in PayoutRows /\ payout'[q] \in PayoutRows
  BY DEF TypeInv, TypeOK
<1>2. /\ payout'[q].status = "SUCCEEDED" /\ payout'[q].settled = c
      /\ payout'[q].reversed = payout[q].reversed
      /\ OnlyRow(q)
  BY <1>1 DEF OnlyRow, TypeInv, TypeOK, PayoutRows
<1>3. ~payout[q].reversed
  BY DEF RowsAgree, ActiveStatuses
<1>4. Phase(q) = "HELD" /\ Phase(q)' = "TAKEN"
  BY <1>1, <1>2, <1>3, PhaseFacts DEF Phase
<1>5. /\ Debit(q, c) \in 1..MaxDebit(q) /\ MaxDebit(q) - Debit(q, c) \in Int
      /\ MaxDebit(q) \in Int /\ -MaxDebit(q) \in Int /\ Debit(q, c) \in Int
  BY TermsTypes
<1>6. WalletMoves(Owner(q), -MaxDebit(q), -Debit(q, c))
  <2>1. WalletTotal(wallet[Owner(q)]) \in Int
    BY TermsTypes, WalletFields DEF TypeInv, TypeOK, WalletTypeOK, WalletTotal
  <2> QED
    BY <1>5, <2>1, OwnerPosting DEF SettlePayout, WalletMoves, TypeInv
<1> QED
  BY <1>2, <1>4, <1>5, <1>6 DEF Takes

\* A reversal gives back what the settlement took.
LEMMA ReversalRefunds ==
    ASSUME TypeInv, TypeInv', NEW q \in Quotes, ApplyReversal(q)
    PROVE  Refunds(q)
<1>1. payout[q] \in PayoutRows /\ payout'[q] \in PayoutRows
  BY DEF TypeInv, TypeOK
<1>2. /\ payout'[q].status = payout[q].status /\ payout'[q].reversed
      /\ OnlyRow(q)
  BY <1>1 DEF ApplyReversal, OnlyRow, TypeInv, TypeOK, PayoutRows
<1>3. Phase(q) = "TAKEN" /\ Phase(q)' = "REFUNDED"
  BY <1>1, <1>2, PhaseFacts DEF ApplyReversal, Phase
<1>4. wallet[Owner(q)].RESERVED_FOR_PAYOUTS \in Int
  BY TermsTypes, WalletFields DEF TypeInv, TypeOK, WalletTypeOK
<1>5. WalletMoves(Owner(q), 0, Debit(q, payout[q].settled))
  BY <1>4, ReversalPosting DEF WalletMoves, TypeInv
<1> QED
  BY <1>2, <1>3, <1>5 DEF Refunds

\* Confirming a Quote holds its maximum debit.
LEMMA PrepareHolds ==
    ASSUME TypeInv, TypeInv', RowsAgree, NEW q \in Quotes, PreparePayout(q)
    PROVE  Holds(q)
<1>1. payout \in [Quotes -> PayoutRows] /\ payout[q] \in PayoutRows /\ payout'[q] \in PayoutRows
  BY DEF TypeInv, TypeOK
<1>2. /\ payout'[q].status = "PENDING_ADMIN_APPROVAL" /\ OnlyRow(q)
      /\ payout'[q].reversed = payout[q].reversed /\ quote'[q] = "CONSUMED"
  BY <1>1 DEF PreparePayout, OnlyRow, TypeInv, TypeOK, PayoutRows
<1>3. payout[q].status = "NONE"
  BY DEF PreparePayout, RowsAgree
<1>4. Phase(q) = "IDLE" /\ Phase(q)' = "HELD"
  BY <1>1, <1>2, <1>3, PhaseFacts DEF Phase, ActiveStatuses
<1>5. \A p \in Quotes : Owner(p) = Owner(q) => Phase(p) # "HELD"
  BY <1>1, PhaseFacts DEF PreparePayout, Active, Phase
<1>6. MaxDebit(q) \in Int /\ -MaxDebit(q) \in Int
  BY TermsTypes
<1>7. WalletMoves(Owner(q), MaxDebit(q), 0)
  <2>1. WalletTotal(wallet[Owner(q)]) \in Int
    BY TermsTypes, WalletFields DEF TypeInv, TypeOK, WalletTypeOK, WalletTotal
  <2> QED
    BY <1>6, <2>1, OwnerPosting DEF PreparePayout, WalletMoves, TypeInv
<1> QED
  BY <1>2, <1>4, <1>5, <1>7 DEF Holds

MoneyMoves ==
    \/ Quiet
    \/ \E q \in Quotes : Holds(q) \/ Returns(q) \/ Takes(q) \/ Refunds(q)

\* What a Worker does to the money: a hold returns, or nothing.
LEMMA WorkerStepEffect ==
    ASSUME TypeInv, TypeInv', NEW w \in Workers, WorkerStep(w)
    PROVE  MoneyMoves
<1> DEFINE q == worker[w].quote
<1>0. /\ payout \in [Quotes -> PayoutRows]
      /\ worker[w].pc # "IDLE" => q \in Quotes /\ payout[q] \in PayoutRows
  BY DEF TypeInv, TypeOK, WorkerHoldsPayout
<1>1. CASE (\E p \in Quotes : SelectCandidate(w, p)) \/ CallProvider(w)
  BY <1>1, QuietIdle DEF SelectCandidate, CallProvider, walletVars, MoneyMoves
<1>2. CASE ClaimApprovedPayout(w)
  <2>1. CASE UNCHANGED payout
    BY <1>2, <2>1, QuietIdle DEF ClaimApprovedPayout, walletVars, MoneyMoves
  <2>2. CASE payout' = [payout EXCEPT ![q].claim = "LEASED"]
    <3>1. /\ q \in Quotes /\ OnlyRow(q) /\ payout'[q].settled = payout[q].settled
          /\ payout'[q].reversed = payout[q].reversed
          /\ payout'[q].status = payout[q].status
      BY <1>0, <1>2, <2>2 DEF ClaimApprovedPayout, OnlyRow, PayoutRows
    <3> QED
      BY <1>2, <3>1, QuietRow DEF ClaimApprovedPayout, walletVars, MoneyMoves
  <2> QED
    BY <1>2, <2>1, <2>2 DEF ClaimApprovedPayout
<1>3. CASE PreparationFails(w)
  BY <1>0, <1>3, FinalizeFailedEffect DEF PreparationFails, MoneyMoves
<1>4. CASE FinalizeRejected(w)
  BY <1>0, <1>4, FinalizeFailedEffect DEF FinalizeRejected, MoneyMoves
<1>5. CASE FinalizeProviderResponse(w)
  <2>1. CASE UNCHANGED payout
    BY <1>5, <2>1, QuietIdle DEF FinalizeProviderResponse, walletVars, MoneyMoves
  <2>2. CASE /\ AwaitsProvider(q)
             /\ payout' = [payout EXCEPT ![q] =
                    [@ EXCEPT !.status = "PROVIDER_PENDING", !.claim = "NONE",
                              !.actual = worker[w].charge]]
    <3>1. /\ q \in Quotes /\ OnlyRow(q) /\ payout'[q].settled = payout[q].settled
          /\ payout'[q].reversed = payout[q].reversed
          /\ payout[q].status \in ActiveStatuses /\ payout'[q].status \in ActiveStatuses
      BY <1>0, <1>5, <2>2
         DEF FinalizeProviderResponse, OnlyRow, PayoutRows, AwaitsProvider, ActiveStatuses
    <3> QED
      BY <1>5, <3>1, QuietRow DEF FinalizeProviderResponse, walletVars, MoneyMoves
  <2> QED
    BY <1>5, <2>1, <2>2 DEF FinalizeProviderResponse
<1>6. CASE FinalizeUncertain(w)
  <2>1. CASE UNCHANGED payout
    BY <1>6, <2>1, QuietIdle DEF FinalizeUncertain, walletVars, MoneyMoves
  <2>2. CASE /\ AwaitsProvider(q)
             /\ payout' = [payout EXCEPT ![q] =
                    [@ EXCEPT !.status = "PROVIDER_PENDING", !.claim = "NONE"]]
    <3>1. /\ q \in Quotes /\ OnlyRow(q) /\ payout'[q].settled = payout[q].settled
          /\ payout'[q].reversed = payout[q].reversed
          /\ payout[q].status \in ActiveStatuses /\ payout'[q].status \in ActiveStatuses
      BY <1>0, <1>6, <2>2
         DEF FinalizeUncertain, OnlyRow, PayoutRows, AwaitsProvider, ActiveStatuses
    <3> QED
      BY <1>6, <3>1, QuietRow DEF FinalizeUncertain, walletVars, MoneyMoves
  <2> QED
    BY <1>6, <2>1, <2>2 DEF FinalizeUncertain
<1>7. CASE CompleteSubmissionJob(w)
  <2>1. CASE UNCHANGED payout
    BY <1>7, <2>1, QuietIdle DEF CompleteSubmissionJob, walletVars, MoneyMoves
  <2>2. CASE payout' = [payout EXCEPT ![q].job = "DONE"]
    <3>1. /\ q \in Quotes /\ OnlyRow(q) /\ payout'[q].settled = payout[q].settled
          /\ payout'[q].reversed = payout[q].reversed
          /\ payout'[q].status = payout[q].status
      BY <1>0, <1>7, <2>2 DEF CompleteSubmissionJob, OnlyRow, PayoutRows
    <3> QED
      BY <1>7, <3>1, QuietRow DEF CompleteSubmissionJob, walletVars, MoneyMoves
  <2> QED
    BY <1>7, <2>1, <2>2 DEF CompleteSubmissionJob
<1> QED
  BY <1>1, <1>2, <1>3, <1>4, <1>5, <1>6, <1>7 DEF WorkerStep

\* What the other steps do to the money: hold, return, take, refund, or nothing.
LEMMA PayoutStepEffect ==
    ASSUME TypeInv, TypeInv', RowsAgree, NEW q \in Quotes, PayoutStep(q)
    PROVE  MoneyMoves
<1>0. payout \in [Quotes -> PayoutRows] /\ payout[q] \in PayoutRows
  BY DEF TypeInv, TypeOK
<1>1. CASE CreateQuote(q) \/ LapseQuote(q) \/ GatewayMoves(q) \/ GatewayReports(q)
  BY <1>1, QuietIdle
     DEF CreateQuote, LapseQuote, GatewayMoves, GatewayReports, walletVars, MoneyMoves
<1>2. CASE PreparePayout(q)
  BY <1>2, PrepareHolds DEF MoneyMoves
<1>3. CASE ApprovePayout(q)
  <2>1. /\ OnlyRow(q) /\ payout'[q].settled = payout[q].settled
        /\ payout'[q].reversed = payout[q].reversed
        /\ \/ payout'[q].status = payout[q].status
           \/ payout[q].status \in ActiveStatuses /\ payout'[q].status \in ActiveStatuses
    BY <1>0, <1>3 DEF ApprovePayout, ActiveStatuses, OnlyRow, PayoutRows
  <2> QED
    BY <1>3, <2>1, QuietRow DEF ApprovePayout, walletVars, MoneyMoves
<1>8. CASE LeaseExpires(q)
  <2>1. /\ OnlyRow(q) /\ payout'[q].settled = payout[q].settled
        /\ payout'[q].reversed = payout[q].reversed
        /\ \/ payout'[q].status = payout[q].status
           \/ payout[q].status \in ActiveStatuses /\ payout'[q].status \in ActiveStatuses
    BY <1>0, <1>8 DEF LeaseExpires, OnlyRow, PayoutRows
  <2> QED
    BY <1>8, <2>1, QuietRow DEF LeaseExpires, walletVars, MoneyMoves
<1>9. CASE ApplyPending(q)
  <2>1. /\ OnlyRow(q) /\ payout'[q].settled = payout[q].settled
        /\ payout'[q].reversed = payout[q].reversed
        /\ \/ payout'[q].status = payout[q].status
           \/ payout[q].status \in ActiveStatuses /\ payout'[q].status \in ActiveStatuses
    BY <1>0, <1>9 DEF ApplyPending, AwaitsProvider, ActiveStatuses, OnlyRow, PayoutRows
  <2> QED
    BY <1>9, <2>1, QuietRow DEF ApplyPending, walletVars, MoneyMoves
<1>4. CASE CancelPayout(q)
  BY <1>4, ReleaseReturns DEF CancelPayout, ActiveStatuses, MoneyMoves
<1>5. CASE ApplyFailure(q)
  BY <1>5, ReleaseReturns DEF ApplyFailure, AwaitsProvider, ActiveStatuses, MoneyMoves
<1>6. CASE ApplySucceeded(q)
  <2>1. PICK c \in Reported(q, "SUCCEEDED") :
          /\ Debit(q, c) <= MaxDebit(q)
          /\ \/ /\ AwaitsProvider(q)
                /\ SettlePayout(q, c)
                /\ payout' = [payout EXCEPT ![q] =
                      [@ EXCEPT !.status = "SUCCEEDED", !.claim = "NONE",
                                !.actual = c, !.settled = c]]
             \/ /\ payout' = [payout EXCEPT ![q] =
                      [@ EXCEPT !.actual = c, !.claim = "NONE"]]
                /\ UNCHANGED walletVars
    BY <1>6 DEF ApplySucceeded
  <2>2. c \in ChargeType
    BY ReportedTyped DEF TypeInv
  <2>3. CASE payout' = [payout EXCEPT ![q] = [@ EXCEPT !.actual = c, !.claim = "NONE"]]
             /\ UNCHANGED walletVars
    <3>1. /\ OnlyRow(q) /\ payout'[q].settled = payout[q].settled
          /\ payout'[q].reversed = payout[q].reversed
          /\ payout'[q].status = payout[q].status
      BY <1>0, <2>3 DEF OnlyRow, PayoutRows
    <3> QED
      BY <2>3, <3>1, QuietRow DEF walletVars, MoneyMoves
  <2> QED
    BY <2>1, <2>2, <2>3, SettleTakes DEF AwaitsProvider, ActiveStatuses, MoneyMoves
<1>7. CASE ApplyReversal(q)
  BY <1>7, ReversalRefunds DEF MoneyMoves
<1> QED
  BY <1>1, <1>2, <1>3, <1>4, <1>5, <1>6, <1>7, <1>8, <1>9 DEF PayoutStep

\* Every step of the system is one of the five movements of money.
LEMMA StepEffect ==
    ASSUME TypeInv, TypeInv', RowsAgree, [Next]_vars
    PROVE  MoneyMoves
<1>1. CASE OtherWalletActivity
  BY <1>1, WalletCommands, WalletAssumption
     DEF OtherWalletActivity, payoutVars, TypeInv, TypeOK, Quiet, Phase, MoneyMoves
<1>2. CASE UNCHANGED vars \/ \E w \in Workers : WorkerCrash(w)
  BY <1>2, QuietIdle DEF vars, payoutVars, walletVars, WorkerCrash, MoneyMoves
<1> QED
  BY <1>1, <1>2, WorkerStepEffect, PayoutStepEffect DEF Next

-----------------------------------------------------------------------------
(* The reserve *)

\* RowsAgree is kept: a Quote is consumed by the transaction that creates
\* the row, and a row never goes back to being absent.
LEMMA RowsAgreeKept ==
    ASSUME TypeInv, TypeInv', RowsAgree, [Next]_vars
    PROVE  RowsAgree'
<1>1. \A q \in Quotes : payout[q] \in PayoutRows /\ payout'[q] \in PayoutRows
  BY DEF TypeInv, TypeOK
<1>2. \A q \in Quotes : quote[q] = "CONSUMED" => quote'[q] = "CONSUMED"
  <2>1. CASE UNCHANGED quote
    BY <2>1
  <2>2. CASE \E q \in Quotes : CreateQuote(q) \/ LapseQuote(q) \/ PreparePayout(q)
    BY <2>2 DEF CreateQuote, LapseQuote, PreparePayout, TypeInv, TypeOK
  <2> QED
    BY <2>1, <2>2
       DEF Next, PayoutStep, WorkerStep, WorkerCrash, OtherWalletActivity, vars, payoutVars,
           ApprovePayout, CancelPayout, LeaseExpires, GatewayMoves, GatewayReports,
           ApplySucceeded, ApplyFailure, ApplyPending, ApplyReversal, SelectCandidate,
           ClaimApprovedPayout, PreparationFails, CallProvider, FinalizeProviderResponse,
           FinalizeRejected, FinalizeUncertain, CompleteSubmissionJob
<1>3. \A q \in Quotes :
        /\ quote[q] # "CONSUMED" => Phase(q) = "IDLE"
        /\ payout[q].reversed => Phase(q) = "REFUNDED"
  BY <1>1, PhaseFacts DEF RowsAgree, Phase
<1>4. ASSUME NEW p \in Quotes
      PROVE  /\ quote'[p] # "CONSUMED" => Phase(p)' = "IDLE"
             /\ payout'[p].reversed => Phase(p)' = "REFUNDED"
  <2>1. CASE Quiet
    <3>1. Phase(p)' = Phase(p) /\ payout'[p].reversed = payout[p].reversed
      BY <2>1 DEF Quiet
    <3> QED
      BY <1>2, <1>3, <3>1
  <2>2. CASE \E q \in Quotes : Holds(q) \/ Returns(q) \/ Takes(q) \/ Refunds(q)
    <3>1. PICK q \in Quotes : Holds(q) \/ Returns(q) \/ Takes(q) \/ Refunds(q)
      BY <2>2
    <3>2. CASE p = q
      BY <1>2, <1>3, <3>1, <3>2 DEF Holds, Returns, Takes, Refunds
    <3>3. CASE p # q
      <4>1. payout'[p] = payout[p] /\ Phase(p)' = Phase(p)
        BY <3>1, <3>3 DEF Holds, Returns, Takes, Refunds, OnlyRow, Phase
      <4> QED
        BY <1>2, <1>3, <4>1
    <3> QED
      BY <3>2, <3>3
  <2> QED
    BY <2>1, <2>2, StepEffect DEF MoneyMoves
<1> QED
  BY <1>1, <1>4, PhaseFacts DEF RowsAgree, Phase

StrongInv == TypeInv /\ RowsAgree

\* The inductive invariant of the specification.
LEMMA StrongInvariant == Spec => []StrongInv
<1>1. Init => StrongInv
  BY InitTypeOK DEF StrongInv, TypeInv, RowsAgree, Init, WorkerHoldsPayout, Idle, NoRow
<1>2. StrongInv /\ [Next]_vars => StrongInv'
  BY NextTyped, RowsAgreeKept DEF StrongInv
<1> QED
  BY <1>1, <1>2, PTL DEF Spec

\* A posting of r to the reserve of m, seen from every Member.
LEMMA ReserveAfter ==
    ASSUME NEW m \in Members, NEW r, NEW t, WalletMoves(m, r, t)
    PROVE  \A n \in Members :
              wallet'[n].RESERVED_FOR_PAYOUTS =
                 IF n = m THEN wallet[n].RESERVED_FOR_PAYOUTS + r
                 ELSE wallet[n].RESERVED_FOR_PAYOUTS
BY DEF WalletMoves

\* Each movement of money keeps the reserve equal to the one active hold.
LEMMA ReserveStep ==
    ASSUME TypeInv, TypeInv', ReserveMatchesActive, MoneyMoves
    PROVE  ReserveMatchesActive'
<1>1. \A q \in Quotes :
        /\ Active(q) <=> Phase(q) = "HELD"
        /\ Active(q)' <=> Phase(q)' = "HELD"
        /\ Owner(q) \in Members /\ MaxDebit(q) \in Int
  BY PhaseFacts, TermsTypes DEF Active, Phase, TypeInv, TypeOK
<1>2. CASE Quiet
  BY <1>1, <1>2 DEF Quiet, ReserveMatchesActive
<1>3. CASE \E q \in Quotes : Holds(q)
  <2>1. PICK q \in Quotes : Holds(q)
    BY <1>3
  <2>2. \A p \in Quotes : Active(p)' <=> (p = q \/ Active(p))
    BY <1>1, <2>1 DEF Holds, OnlyRow, Phase
  <2>3. \A p \in Quotes : Owner(p) = Owner(q) => ~Active(p)
    BY <1>1, <2>1 DEF Holds
  <2>4. wallet[Owner(q)].RESERVED_FOR_PAYOUTS = 0
    BY <1>1, <2>3 DEF ReserveMatchesActive
  <2>5. \A n \in Members :
          wallet'[n].RESERVED_FOR_PAYOUTS =
             IF n = Owner(q) THEN MaxDebit(q) ELSE wallet[n].RESERVED_FOR_PAYOUTS
    BY <1>1, <2>1, <2>4, ReserveAfter DEF Holds
  <2> QED
    BY <1>1, <2>2, <2>3, <2>5 DEF ReserveMatchesActive
<1>4. CASE \E q \in Quotes : Returns(q) \/ Takes(q)
  <2>1. PICK q \in Quotes : Returns(q) \/ Takes(q)
    BY <1>4
  <2>2. \A p \in Quotes : Active(p)' <=> (p # q /\ Active(p))
    BY <1>1, <2>1 DEF Returns, Takes, OnlyRow, Phase
  <2>3. Active(q) /\ \A p \in Quotes \ {q} : Owner(p) = Owner(q) => ~Active(p)
    BY <1>1, <2>1 DEF Returns, Takes, ReserveMatchesActive
  <2>4. wallet[Owner(q)].RESERVED_FOR_PAYOUTS = MaxDebit(q)
    BY <2>3 DEF ReserveMatchesActive
  <2>5. \A n \in Members :
          wallet'[n].RESERVED_FOR_PAYOUTS =
             IF n = Owner(q) THEN 0 ELSE wallet[n].RESERVED_FOR_PAYOUTS
    BY <1>1, <2>1, <2>4, ReserveAfter DEF Returns, Takes
  <2> QED
    BY <1>1, <2>2, <2>3, <2>5 DEF ReserveMatchesActive
<1>5. CASE \E q \in Quotes : Refunds(q)
  <2>1. PICK q \in Quotes : Refunds(q)
    BY <1>5
  <2>2. \A p \in Quotes : Active(p)' <=> Active(p)
    BY <1>1, <2>1 DEF Refunds, OnlyRow, Phase
  <2>3. \A n \in Members : wallet[n].RESERVED_FOR_PAYOUTS \in Int
    BY WalletFields DEF TypeInv, TypeOK, WalletTypeOK
  <2>4. \A n \in Members :
          wallet'[n].RESERVED_FOR_PAYOUTS = wallet[n].RESERVED_FOR_PAYOUTS
    BY <1>1, <2>1, <2>3, ReserveAfter DEF Refunds
  <2> QED
    BY <1>1, <2>2, <2>4 DEF ReserveMatchesActive
<1> QED
  BY <1>2, <1>3, <1>4, <1>5 DEF MoneyMoves

\* Whatever Workers, Admins and the Provider do, RESERVED_FOR_PAYOUTS is the
\* maximum debit of the one active Payout, or zero.
THEOREM ReserveSafe == Spec => []ReserveMatchesActive
<1>1. Init => ReserveMatchesActive
  BY PayoutAssumption, TermsTypes
     DEF Init, WalletInit, ReserveMatchesActive, Active, NoRow, ActiveStatuses
<1>2. StrongInv /\ StrongInv' /\ ReserveMatchesActive /\ [Next]_vars => ReserveMatchesActive'
  BY ReserveStep, StepEffect DEF StrongInv
<1> QED
  BY <1>1, <1>2, StrongInvariant, PTL DEF Spec

-----------------------------------------------------------------------------
(* The promise *)

\* A change of t in the whole Wallet of m, as PayoutPromise writes it.
LEMMA TotalAfter ==
    ASSUME NEW m \in Members, NEW r, NEW t, WalletMoves(m, r, t)
    PROVE  [n \in Members |-> WalletTotal(wallet'[n])] =
              [[n \in Members |-> WalletTotal(wallet[n])] EXCEPT ![m] = @ + t]
BY DEF WalletMoves

\* Each movement of money is a step of PayoutPromise or a stutter.
LEMMA PromiseStep ==
    ASSUME TypeInv, TypeInv', MoneyMoves
    PROVE  [Promise!Next]_(Promise!vars)
<1> DEFINE phase == [q \in Quotes |-> PhaseOf(payout[q])]
           taken == [q \in Quotes |-> Taken(q)]
           total == [m \in Members |-> WalletTotal(wallet[m])]
<1>1. \A q \in Quotes :
        /\ Taken(q) = IF Phase(q) = "TAKEN" THEN Debit(q, payout[q].settled) ELSE 0
        /\ Taken(q)' = IF Phase(q)' = "TAKEN" THEN Debit(q, payout'[q].settled) ELSE 0
        /\ phase[q] = Phase(q) /\ phase'[q] = Phase(q)'
  BY PhaseFacts DEF Taken, Phase, TypeInv, TypeOK
<1>2. \A q \in Quotes :
        /\ Owner(q) \in Members /\ MaxDebit(q) \in Nat
        /\ Debit(q, payout[q].settled) \in Nat /\ Debit(q, payout'[q].settled) \in Nat
  BY TermsTypes DEF TypeInv, TypeOK, PayoutRows, ChargeType
<1>3. CASE Quiet
  <2>1. phase' = phase /\ taken' = taken /\ total' = total
    BY <1>1, <1>3 DEF Quiet, Phase
  <2> QED
    BY <2>1 DEF Promise!vars
<1>4. ASSUME NEW q \in Quotes, Phase(q)' # Phase(q), OnlyRow(q)
      PROVE  /\ phase' = [phase EXCEPT ![q] = Phase(q)']
             /\ taken' = [taken EXCEPT ![q] = Taken(q)']
  BY <1>1, <1>4 DEF OnlyRow, Phase, Taken
<1>5. total \in [Members -> Int]
  BY WalletFields DEF TypeInv, TypeOK, WalletTypeOK, WalletTotal
<1>6. \A m \in Members : \A r, t : WalletMoves(m, r, t) => total' = [total EXCEPT ![m] = @ + t]
  BY TotalAfter
<1>7. taken \in [Quotes -> Nat] /\ \A q \in Quotes : taken[q] = Taken(q)
  BY <1>1, <1>2
<1> HIDE DEF phase, taken, total
<1>8. ASSUME NEW q \in Quotes, Holds(q) \/ Returns(q)
      PROVE  taken' = taken /\ total' = total
  <2>1. taken' = [taken EXCEPT ![q] = 0] /\ Taken(q) = 0
    BY <1>1, <1>4, <1>8 DEF Holds, Returns
  <2>2. total' = [total EXCEPT ![Owner(q)] = @ + 0]
    BY <1>2, <1>6, <1>8 DEF Holds, Returns
  <2> QED
    BY <1>2, <1>5, <1>7, <2>1, <2>2
<1>9. ASSUME NEW q \in Quotes, Holds(q)
      PROVE  Promise!Hold(q)
  <2>1. phase' = [phase EXCEPT ![q] = "HELD"] /\ phase[q] = "IDLE"
        /\ \A p \in Quotes : Owner(p) = Owner(q) => phase[p] # "HELD"
    BY <1>1, <1>4, <1>9 DEF Holds
  <2> QED
    BY <1>8, <1>9, <2>1 DEF Promise!Hold, phase, taken, total
<1>10. ASSUME NEW q \in Quotes, Returns(q)
       PROVE  Promise!Return(q)
  <2>1. phase' = [phase EXCEPT ![q] = "RETURNED"] /\ phase[q] = "HELD"
    BY <1>1, <1>4, <1>10 DEF Returns
  <2> QED
    BY <1>8, <1>10, <2>1 DEF Promise!Return, phase, taken, total
<1>11. ASSUME NEW q \in Quotes, Takes(q)
       PROVE  Promise!Take(q)
  <2> DEFINE d == Debit(q, payout'[q].settled)
  <2>1. phase' = [phase EXCEPT ![q] = "TAKEN"] /\ phase[q] = "HELD"
        /\ taken' = [taken EXCEPT ![q] = d] /\ d \in 1..MaxDebit(q)
    BY <1>1, <1>4, <1>11 DEF Takes
  <2>2. total' = [total EXCEPT ![Owner(q)] = @ + (-d)]
    BY <1>2, <1>6, <1>11 DEF Takes
  <2> HIDE DEF d
  <2>3. total' = [total EXCEPT ![Owner(q)] = @ - d]
    BY <1>2, <1>5, <2>1, <2>2
  <2> QED
    BY <2>1, <2>3 DEF Promise!Take, phase, taken, total
<1>12. ASSUME NEW q \in Quotes, Refunds(q)
       PROVE  Promise!Refund(q)
  <2>1. phase' = [phase EXCEPT ![q] = "REFUNDED"] /\ phase[q] = "TAKEN"
        /\ taken' = [taken EXCEPT ![q] = 0] /\ taken[q] = Debit(q, payout[q].settled)
    BY <1>1, <1>4, <1>7, <1>12 DEF Refunds
  <2>2. total' = [total EXCEPT ![Owner(q)] = @ + taken[q]]
    BY <1>2, <1>6, <1>12, <2>1 DEF Refunds
  <2> QED
    BY <2>1, <2>2 DEF Promise!Refund, phase, taken, total
<1> QED
  BY <1>3, <1>9, <1>10, <1>11, <1>12 DEF MoneyMoves, Promise!Next

\* A Payout keeps the promise of PayoutPromise: what Workers, crashes, late
\* answers, webhooks and reconciliation do to a Member's money is one hold,
\* then one debit within the Quote or one return, then at most one refund.
THEOREM PayoutRefinesPromise == Spec => KeepsPromise
<1>1. Init => Promise!Init
  <2>1. ASSUME Init PROVE \A q \in Quotes : Taken(q) = 0 /\ PhaseOf(payout[q]) = "IDLE"
    <3>1. \A q \in Quotes : payout[q] \in PayoutRows /\ payout[q].status = "NONE"
      BY <2>1, InitTypeOK DEF TypeOK, Init, NoRow
    <3> QED
      BY <3>1, PhaseFacts DEF Taken
  <2> QED
    BY <2>1 DEF Init, WalletInit, Promise!Init
<1>2. StrongInv /\ StrongInv' /\ [Next]_vars => [Promise!Next]_(Promise!vars)
  BY PromiseStep, StepEffect DEF StrongInv
<1> QED
  BY <1>1, <1>2, StrongInvariant, PTL DEF Spec, KeepsPromise, Promise!Spec

-----------------------------------------------------------------------------
(* The ledger and the Provider                                             *)
(*                                                                         *)
(* A refused or ended request stays so, a report is true for ever, and a   *)
(* Worker that holds a claim was approved: none of these is a guard of the *)
(* transactions that release or settle, and together they justify them.    *)

Gate(q) == gateway[q].state

\* The Provider will not pay, or has taken the money back.
Closed == {"REFUSED", "FAILED", "CANCELLED", "REVERSED"}

ReportsTrue(q) ==
    \A o \in reports[q] :
        /\ o.kind = "SUCCEEDED" => Gate(q) \in {"PAID", "REVERSED"}
        /\ o.kind \in {"FAILED", "CANCELLED", "REVERSED"} => Gate(q) \in Closed

RowTrue(q) ==
    /\ payout[q].status = "SUCCEEDED" => Gate(q) \in {"PAID", "REVERSED"}
    /\ payout[q].status \in {"FAILED", "CANCELLED"} =>
          \/ Gate(q) \in Closed
          \/ Gate(q) = "UNKNOWN" /\ (~payout[q].approved \/ Preparation[q] = "FAILS")
    /\ Gate(q) # "UNKNOWN" => payout[q].approved /\ Preparation[q] # "FAILS"
    /\ payout[q].status \in {"NONE", "PENDING_ADMIN_APPROVAL"} => ~payout[q].approved

WorkerTrue(w) ==
    /\ worker[w].pc \in {"CLAIMED", "REPLIED"} => payout[worker[w].quote].approved
    /\ worker[w].pc = "REPLIED" /\ worker[w].reply = "REFUSED"
          => Gate(worker[w].quote) \in Closed

ProviderAgrees ==
    /\ \A q \in Quotes : ReportsTrue(q) /\ RowTrue(q)
    /\ \A w \in Workers : WorkerTrue(w)

\* Every process that runs a Worker has the same keys and configuration.
SameConfiguration == \A q \in Quotes : Preparation[q] # "VARIES"

\* A step that changes one row and nothing at the Provider or the Workers
\* has only that row to justify.
LEMMA RowOnly ==
    ASSUME TypeInv, ProviderAgrees, NEW q \in Quotes, OnlyRow(q), RowTrue(q)',
           payout[q].approved => payout'[q].approved,
           UNCHANGED <<worker, gateway, reports>>
    PROVE  ProviderAgrees'
<1>1. ASSUME NEW p \in Quotes PROVE ReportsTrue(p)' /\ RowTrue(p)'
  BY DEF ProviderAgrees, ReportsTrue, RowTrue, OnlyRow, Gate
<1>2. ASSUME NEW w \in Workers PROVE WorkerTrue(w)'
  <2>1. worker[w].pc # "IDLE" =>
          (payout[worker[w].quote].approved => payout'[worker[w].quote].approved)
    BY DEF OnlyRow, TypeInv, WorkerHoldsPayout
  <2> QED
    BY <2>1 DEF ProviderAgrees, WorkerTrue, Gate
<1> QED
  BY <1>1, <1>2 DEF ProviderAgrees

\* A release is true to the Provider if the request ended there, or was never sent.
LEMMA ReleaseTrue ==
    ASSUME TypeInv, ProviderAgrees, NEW q \in Quotes, NEW s \in {"FAILED", "CANCELLED"},
           ReleaseReserve(q, s), UNCHANGED gateway,
           \/ Gate(q) \in Closed
           \/ Gate(q) = "UNKNOWN" /\ (~payout[q].approved \/ Preparation[q] = "FAILS")
    PROVE  RowTrue(q)' /\ OnlyRow(q) /\ payout'[q].approved = payout[q].approved
<1>1. /\ payout'[q].status = s /\ payout'[q].approved = payout[q].approved /\ OnlyRow(q)
  BY DEF ReleaseReserve, OnlyRow, TypeInv, TypeOK, PayoutRows
<1> QED
  BY <1>1 DEF RowTrue, Gate, ProviderAgrees

\* Members, Admins and reports never make a row disagree with the Provider.
LEMMA PayoutStepTrue ==
    ASSUME TypeInv, RowsAgree, ProviderAgrees, NEW q \in Quotes, PayoutStep(q)
    PROVE  ProviderAgrees'
<1>0. /\ payout \in [Quotes -> PayoutRows] /\ payout[q] \in PayoutRows
      /\ gateway \in [Quotes -> GatewayRequests] /\ gateway[q] \in GatewayRequests
      /\ RowTrue(q) /\ ReportsTrue(q)
  BY DEF TypeInv, TypeOK, ProviderAgrees
<1>1. CASE CreateQuote(q) \/ LapseQuote(q)
  BY <1>1 DEF CreateQuote, LapseQuote, ProviderAgrees, ReportsTrue, RowTrue, WorkerTrue, Gate
<1>2. CASE PreparePayout(q)
  <2>1. OnlyRow(q) /\ payout'[q].status = "PENDING_ADMIN_APPROVAL"
        /\ payout'[q].approved = payout[q].approved /\ payout[q].status = "NONE"
    BY <1>0, <1>2 DEF PreparePayout, OnlyRow, PayoutRows, RowsAgree
  <2>2. RowTrue(q)'
    BY <1>0, <1>2, <2>1 DEF PreparePayout, RowTrue, Gate
  <2> QED
    BY <1>2, <2>1, <2>2, RowOnly DEF PreparePayout
<1>3. CASE ApprovePayout(q)
  <2>1. OnlyRow(q) /\ payout'[q].status = "SUBMITTED_TO_PROVIDER" /\ payout'[q].approved
    BY <1>0, <1>3 DEF ApprovePayout, OnlyRow, PayoutRows
  <2>2. RowTrue(q)'
    BY <1>0, <1>3, <2>1 DEF ApprovePayout, RowTrue, Gate
  <2> QED
    BY <1>3, <2>1, <2>2, RowOnly DEF ApprovePayout
<1>4. CASE CancelPayout(q)
  <2>1. Gate(q) = "UNKNOWN" /\ ~payout[q].approved
    BY <1>0, <1>4 DEF CancelPayout, RowTrue
  <2> QED
    BY <1>4, <2>1, ReleaseTrue, RowOnly DEF CancelPayout
<1>5. CASE LeaseExpires(q)
  <2>1. OnlyRow(q) /\ payout'[q].status = payout[q].status
        /\ payout'[q].approved = payout[q].approved
    BY <1>0, <1>5 DEF LeaseExpires, OnlyRow, PayoutRows
  <2>2. RowTrue(q)'
    BY <1>0, <1>5, <2>1 DEF LeaseExpires, RowTrue, Gate
  <2> QED
    BY <1>5, <2>1, <2>2, RowOnly DEF LeaseExpires
<1>6. CASE GatewayMoves(q)
  <2>1. /\ Gate(q) # "UNKNOWN" /\ Gate(q)' # "UNKNOWN" /\ Gate(q) \notin Closed
        /\ Gate(q) \in {"PAID", "REVERSED"} => Gate(q)' \in {"PAID", "REVERSED"}
        /\ \A p \in Quotes \ {q} : Gate(p)' = Gate(p)
    BY <1>0, <1>6 DEF GatewayMoves, Gate, Closed, GatewayRequests, GatewayStates
  <2>2. ASSUME NEW p \in Quotes PROVE ReportsTrue(p)' /\ RowTrue(p)'
    BY <1>6, <2>1 DEF GatewayMoves, ProviderAgrees, ReportsTrue, RowTrue
  <2>3. ASSUME NEW w \in Workers PROVE WorkerTrue(w)'
    BY <1>6, <2>1 DEF GatewayMoves, ProviderAgrees, WorkerTrue, TypeInv, WorkerHoldsPayout
  <2> QED
    BY <2>2, <2>3 DEF ProviderAgrees
<1>7. CASE GatewayReports(q)
  <2>1. PICK o \in OutcomesOf(gateway[q]) : reports' = [reports EXCEPT ![q] = @ \union {o}]
    BY <1>7 DEF GatewayReports
  <2>2. /\ o.kind = "SUCCEEDED" => Gate(q) \in {"PAID", "REVERSED"}
        /\ o.kind \in {"FAILED", "CANCELLED", "REVERSED"} => Gate(q) \in Closed
    BY <1>0, <1>7 DEF GatewayReports, OutcomesOf, KindOf, Gate, Closed, GatewayRequests, GatewayStates
  <2>3. ASSUME NEW p \in Quotes PROVE ReportsTrue(p)'
    BY <1>7, <2>1, <2>2 DEF GatewayReports, ProviderAgrees, ReportsTrue, Gate, TypeInv, TypeOK
  <2> QED
    BY <1>7, <2>3 DEF GatewayReports, ProviderAgrees, RowTrue, WorkerTrue, Gate
<1>8. CASE ApplySucceeded(q)
  <2>1. PICK c \in Reported(q, "SUCCEEDED") :
          \/ /\ AwaitsProvider(q)
             /\ payout' = [payout EXCEPT ![q] =
                   [@ EXCEPT !.status = "SUCCEEDED", !.claim = "NONE",
                             !.actual = c, !.settled = c]]
          \/ /\ payout[q].status = "SUCCEEDED"
             /\ payout' = [payout EXCEPT ![q] =
                   [@ EXCEPT !.actual = c, !.claim = "NONE"]]
    BY <1>8 DEF ApplySucceeded
  <2>2. Gate(q) \in {"PAID", "REVERSED"}
    BY <1>0, <2>1 DEF Reported, ReportsTrue
  <2>3. OnlyRow(q) /\ payout'[q].status = "SUCCEEDED"
        /\ payout'[q].approved = payout[q].approved
    <3>1. CASE payout' = [payout EXCEPT ![q] =
                   [@ EXCEPT !.status = "SUCCEEDED", !.claim = "NONE",
                             !.actual = c, !.settled = c]]
      BY <1>0, <3>1 DEF OnlyRow, PayoutRows
    <3>2. CASE /\ payout[q].status = "SUCCEEDED"
               /\ payout' = [payout EXCEPT ![q] = [@ EXCEPT !.actual = c, !.claim = "NONE"]]
      BY <1>0, <3>2 DEF OnlyRow, PayoutRows
    <3> QED
      BY <2>1, <3>1, <3>2
  <2>4. RowTrue(q)'
    BY <1>0, <1>8, <2>2, <2>3 DEF ApplySucceeded, RowTrue, Gate
  <2> QED
    BY <1>8, <2>3, <2>4, RowOnly DEF ApplySucceeded
<1>9. CASE ApplyFailure(q)
  <2>1. Gate(q) \in Closed
    BY <1>0, <1>9 DEF ApplyFailure, Reported, ReportsTrue
  <2> QED
    BY <1>9, <2>1, ReleaseTrue, RowOnly DEF ApplyFailure
<1>10. CASE ApplyPending(q)
  <2>1. OnlyRow(q) /\ payout'[q].status = "PROVIDER_PENDING"
        /\ payout'[q].approved = payout[q].approved
    BY <1>0, <1>10 DEF ApplyPending, OnlyRow, PayoutRows
  <2>2. RowTrue(q)'
    BY <1>0, <1>10, <2>1 DEF ApplyPending, RowTrue, Gate
  <2> QED
    BY <1>10, <2>1, <2>2, RowOnly DEF ApplyPending
<1>11. CASE ApplyReversal(q)
  <2>1. OnlyRow(q) /\ payout'[q].status = payout[q].status
        /\ payout'[q].approved = payout[q].approved
    BY <1>0, <1>11 DEF ApplyReversal, OnlyRow, PayoutRows
  <2>2. RowTrue(q)'
    BY <1>0, <1>11, <2>1 DEF ApplyReversal, RowTrue, Gate
  <2> QED
    BY <1>11, <2>1, <2>2, RowOnly DEF ApplyReversal
<1> QED
  BY <1>1, <1>2, <1>3, <1>4, <1>5, <1>6, <1>7, <1>8, <1>9, <1>10, <1>11 DEF PayoutStep

\* A Worker whose answer is written down changes its own row at most.
LEMMA FinalizeTrue ==
    ASSUME TypeInv, ProviderAgrees, NEW w \in Workers, NEW q \in Quotes,
           q = worker[w].quote, worker[w].pc # "IDLE", Finalize(w),
           OnlyRow(q), RowTrue(q)', payout'[q].approved = payout[q].approved,
           UNCHANGED <<gateway, reports>>
    PROVE  ProviderAgrees'
<1>1. ASSUME NEW p \in Quotes PROVE ReportsTrue(p)' /\ RowTrue(p)'
  <2>1. ReportsTrue(p)'
    BY DEF ProviderAgrees, ReportsTrue, Gate
  <2>2. CASE p # q
    BY <2>1, <2>2 DEF ProviderAgrees, RowTrue, OnlyRow, Gate
  <2> QED
    BY <2>1, <2>2
<1>2. ASSUME NEW v \in Workers PROVE WorkerTrue(v)'
  <2>1. worker'[v].quote = worker[v].quote /\ worker'[v].reply = worker[v].reply
        /\ (v = w => worker'[v].pc = "FINALIZED") /\ (v # w => worker'[v].pc = worker[v].pc)
    BY DEF Finalize, TypeInv, TypeOK, WorkerStates
  <2>2. worker[v].pc # "IDLE" =>
          payout'[worker[v].quote].approved = payout[worker[v].quote].approved
    BY DEF OnlyRow, TypeInv, WorkerHoldsPayout
  <2> QED
    BY <2>1, <2>2 DEF ProviderAgrees, WorkerTrue, Gate
<1> QED
  BY <1>1, <1>2 DEF ProviderAgrees

\* Neither does finalizeFailed, when the request ended or could not be sent.
LEMMA FinalizeFailedTrue ==
    ASSUME TypeInv, ProviderAgrees, NEW q \in Quotes, FinalizeFailed(q), UNCHANGED gateway,
           \/ Gate(q) \in Closed
           \/ Gate(q) = "UNKNOWN" /\ (~payout[q].approved \/ Preparation[q] = "FAILS")
    PROVE  RowTrue(q)' /\ OnlyRow(q) /\ payout'[q].approved = payout[q].approved
<1>1. CASE UNCHANGED payout
  BY <1>1 DEF RowTrue, OnlyRow, Gate, ProviderAgrees
<1> QED
  BY <1>1, ReleaseTrue DEF FinalizeFailed

\* Nor a Worker, when all Workers share one configuration.
LEMMA BusyWorkerTrue ==
    ASSUME SameConfiguration, TypeInv, ProviderAgrees, NEW w \in Workers, WorkerStep(w),
           NEW q \in Quotes, q = worker[w].quote, worker[w].pc # "IDLE"
    PROVE  ProviderAgrees'
<1>0. /\ payout \in [Quotes -> PayoutRows] /\ payout[q] \in PayoutRows
      /\ gateway \in [Quotes -> GatewayRequests] /\ gateway[q] \in GatewayRequests
      /\ worker \in [Workers -> WorkerStates] /\ worker[w] \in WorkerStates
      /\ RowTrue(q) /\ WorkerTrue(w)
  BY DEF TypeInv, TypeOK, ProviderAgrees
\* A row that keeps its status, or goes on waiting, needs no new justification.
<1>a. ASSUME UNCHANGED gateway, payout'[q].approved = payout[q].approved,
             \/ payout'[q].status = payout[q].status
             \/ payout'[q].status = "PROVIDER_PENDING" /\ AwaitsProvider(q)
      PROVE  RowTrue(q)'
  BY <1>0, <1>a DEF RowTrue, Gate, AwaitsProvider
<1>1. CASE ClaimApprovedPayout(w)
  <2>1. /\ OnlyRow(q) /\ payout'[q].approved = payout[q].approved
        /\ payout'[q].status = payout[q].status
        /\ UNCHANGED <<gateway, reports>>
    BY <1>0, <1>1 DEF ClaimApprovedPayout, OnlyRow, PayoutRows
  <2>2. RowTrue(q)'
    BY <1>a, <2>1
  <2>3. ASSUME NEW v \in Workers PROVE WorkerTrue(v)'
    <3>1. worker[v].pc # "IDLE" =>
            payout'[worker[v].quote].approved = payout[worker[v].quote].approved
      BY <2>1 DEF OnlyRow, TypeInv, WorkerHoldsPayout
    <3>2. CASE v # w
      <4>1. worker'[v] = worker[v]
        BY <1>0, <1>1, <3>2 DEF ClaimApprovedPayout
      <4> QED
        BY <2>1, <3>1, <4>1 DEF ProviderAgrees, WorkerTrue, Gate
    <3>3. CASE v = w
      <4>1. CASE Submittable(q) /\ worker' = [worker EXCEPT ![w].pc = "CLAIMED"]
        <5>1. worker'[w].quote = q /\ worker'[w].pc = "CLAIMED" /\ payout[q].approved
          BY <1>0, <4>1 DEF WorkerStates, Submittable
        <5> QED
          BY <2>1, <3>3, <5>1 DEF WorkerTrue
      <4>2. CASE worker' = [worker EXCEPT ![w].pc = "FINALIZED"]
        <5>1. worker'[w].pc = "FINALIZED"
          BY <1>0, <4>2 DEF WorkerStates
        <5> QED
          BY <3>3, <5>1 DEF WorkerTrue
      <4>3. CASE worker' = [worker EXCEPT ![w] = Idle]
        BY <1>0, <3>3, <4>3 DEF WorkerTrue, Idle
      <4> QED
        BY <1>0, <1>1, <4>1, <4>2, <4>3 DEF ClaimApprovedPayout
    <3> QED
      BY <3>2, <3>3
  <2> QED
    BY <2>1, <2>2, <2>3 DEF ProviderAgrees, ReportsTrue, RowTrue, OnlyRow, Gate
<1>2. CASE PreparationFails(w)
  <2>1. Preparation[q] = "FAILS" /\ Gate(q) = "UNKNOWN"
    BY <1>0, <1>2, PayoutAssumption DEF PreparationFails, SameConfiguration, RowTrue
  <2>2. /\ worker[w].pc = "CLAIMED" /\ FinalizeFailed(q) /\ Finalize(w)
        /\ UNCHANGED <<gateway, reports>>
    BY <1>2 DEF PreparationFails
  <2>3. RowTrue(q)' /\ OnlyRow(q) /\ payout'[q].approved = payout[q].approved
    BY <2>1, <2>2, FinalizeFailedTrue
  <2> QED
    BY <2>2, <2>3, FinalizeTrue
<1>3. CASE FinalizeRejected(w)
  <2>1. Gate(q) \in Closed
    BY <1>0, <1>3 DEF FinalizeRejected, WorkerTrue
  <2>2. /\ worker[w].pc = "REPLIED" /\ FinalizeFailed(q) /\ Finalize(w)
        /\ UNCHANGED <<gateway, reports>>
    BY <1>3 DEF FinalizeRejected
  <2>3. RowTrue(q)' /\ OnlyRow(q) /\ payout'[q].approved = payout[q].approved
    BY <2>1, <2>2, FinalizeFailedTrue
  <2> QED
    BY <2>2, <2>3, FinalizeTrue
<1>4. CASE FinalizeProviderResponse(w) \/ FinalizeUncertain(w)
  <2>1. /\ OnlyRow(q) /\ payout'[q].approved = payout[q].approved
        /\ \/ payout'[q].status = payout[q].status
           \/ payout'[q].status = "PROVIDER_PENDING" /\ AwaitsProvider(q)
    <3>1. CASE UNCHANGED payout
      BY <1>0, <3>1 DEF OnlyRow
    <3>2. CASE AwaitsProvider(q) /\ payout' = [payout EXCEPT ![q] =
                   [@ EXCEPT !.status = "PROVIDER_PENDING", !.claim = "NONE",
                             !.actual = worker[w].charge]]
      BY <1>0, <3>2 DEF OnlyRow, PayoutRows
    <3>3. CASE AwaitsProvider(q) /\ payout' = [payout EXCEPT ![q] =
                   [@ EXCEPT !.status = "PROVIDER_PENDING", !.claim = "NONE"]]
      BY <1>0, <3>3 DEF OnlyRow, PayoutRows
    <3> QED
      BY <1>4, <3>1, <3>2, <3>3 DEF FinalizeProviderResponse, FinalizeUncertain
  <2>2. worker[w].pc = "REPLIED" /\ Finalize(w) /\ UNCHANGED <<gateway, reports>>
    BY <1>4 DEF FinalizeProviderResponse, FinalizeUncertain
  <2>3. RowTrue(q)'
    BY <1>a, <2>1, <2>2
  <2> QED
    BY <2>1, <2>2, <2>3, FinalizeTrue
<1>5. CASE CallProvider(w)
  <2>0. PICK g \in RequestEffects(gateway[q]) : \E r \in Answers(g.state) :
          /\ gateway' = [gateway EXCEPT ![q] =
                [g EXCEPT !.calls = IF g.calls = 2 THEN 2 ELSE g.calls + 1]]
          /\ \E c \in IF r = "ACCEPTED" THEN {g.charge, NoCharge} ELSE {NoCharge} :
                worker' = [worker EXCEPT ![w] =
                    [@ EXCEPT !.pc = "REPLIED", !.reply = r, !.charge = c]]
    BY <1>5 DEF CallProvider
  <2>1. PICK r \in Answers(g.state), c \in {g.charge, NoCharge} :
          /\ gateway' = [gateway EXCEPT ![q] =
                [g EXCEPT !.calls = IF g.calls = 2 THEN 2 ELSE g.calls + 1]]
          /\ worker' = [worker EXCEPT ![w] =
                [@ EXCEPT !.pc = "REPLIED", !.reply = r, !.charge = c]]
    BY <2>0
  <2>2. g \in GatewayRequests
    BY <1>0, RequestEffectsTyped
  <2>3. /\ worker[w].pc = "CLAIMED" /\ payout[q].approved /\ Preparation[q] # "FAILS"
        /\ UNCHANGED <<payout, reports>>
    BY <1>0, <1>5 DEF CallProvider, WorkerTrue
  <2>4. \/ g.state = Gate(q)
        \/ Gate(q) = "UNKNOWN" /\ g.state \in {"REFUSED", "ACCEPTED"}
    <3>1. \/ g = gateway[q]
          \/ gateway[q].state = "UNKNOWN" /\ g = [gateway[q] EXCEPT !.state = "REFUSED"]
          \/ \E d \in Charges : gateway[q].state = "UNKNOWN"
                 /\ g = [gateway[q] EXCEPT !.state = "ACCEPTED", !.charge = d]
      BY DEF RequestEffects
    <3> QED
      BY <1>0, <3>1 DEF Gate, GatewayRequests
  <2>5. Gate(q)' = g.state /\ \A p \in Quotes \ {q} : Gate(p)' = Gate(p)
    BY <1>0, <2>1, <2>2 DEF Gate, GatewayRequests
  <2>6. ASSUME NEW p \in Quotes PROVE ReportsTrue(p)' /\ RowTrue(p)'
    <3>1. CASE p # q
      BY <2>3, <2>5, <3>1 DEF ProviderAgrees, ReportsTrue, RowTrue
    <3>2. CASE p = q
      BY <2>3, <2>4, <2>5, <3>2 DEF ProviderAgrees, ReportsTrue, RowTrue, Closed
    <3> QED
      BY <3>1, <3>2
  <2>7. ASSUME NEW v \in Workers PROVE WorkerTrue(v)'
    <3>1. CASE v # w
      <4>1. worker'[v] = worker[v]
        BY <1>0, <2>1, <3>1
      <4>2. worker[v].pc # "IDLE" /\ Gate(worker[v].quote) \in Closed =>
              Gate(worker[v].quote)' \in Closed
        BY <2>4, <2>5, <4>1 DEF TypeInv, WorkerHoldsPayout, Closed
      <4> QED
        BY <2>3, <4>1, <4>2 DEF ProviderAgrees, WorkerTrue
    <3>2. CASE v = w
      <4>1. worker'[w].quote = q /\ worker'[w].reply = r
        BY <1>0, <2>1 DEF WorkerStates
      <4>2. r = "REFUSED" => g.state \in Closed
        BY <2>2 DEF Answers, Closed, GatewayRequests, GatewayStates
      <4> QED
        BY <2>3, <2>5, <3>2, <4>1, <4>2 DEF WorkerTrue
    <3> QED
      BY <3>1, <3>2
  <2> QED
    BY <2>6, <2>7 DEF ProviderAgrees
<1>6. CASE CompleteSubmissionJob(w)
  <2>1. /\ OnlyRow(q) /\ payout'[q].approved = payout[q].approved
        /\ payout'[q].status = payout[q].status
        /\ UNCHANGED <<gateway, reports>>
    BY <1>0, <1>6 DEF CompleteSubmissionJob, OnlyRow, PayoutRows
  <2>2. RowTrue(q)'
    BY <1>a, <2>1
  <2>3. ASSUME NEW v \in Workers PROVE WorkerTrue(v)'
    <3>1. worker[v].pc # "IDLE" =>
            payout'[worker[v].quote].approved = payout[worker[v].quote].approved
      BY <2>1 DEF OnlyRow, TypeInv, WorkerHoldsPayout
    <3>2. worker'[v] = worker[v] \/ worker'[v].pc = "IDLE"
      BY <1>0, <1>6 DEF CompleteSubmissionJob, Idle
    <3> QED
      BY <2>1, <3>1, <3>2 DEF ProviderAgrees, WorkerTrue, Gate
  <2> QED
    BY <2>1, <2>2, <2>3 DEF ProviderAgrees, ReportsTrue, RowTrue, OnlyRow, Gate
<1> QED
  BY <1>1, <1>2, <1>3, <1>4, <1>5, <1>6 DEF WorkerStep, SelectCandidate

\* ProviderAgrees is inductive relative to StrongInv.
LEMMA ProviderStep ==
    ASSUME SameConfiguration, StrongInv, ProviderAgrees, [Next]_vars
    PROVE  ProviderAgrees'
<1>1. CASE UNCHANGED <<payout, gateway, reports>>
           /\ \A w \in Workers : \/ worker'[w] = worker[w]
                                  \/ worker'[w].pc \in {"IDLE", "SELECTED"}
  BY <1>1 DEF ProviderAgrees, ReportsTrue, RowTrue, WorkerTrue, Gate
<1>2. CASE OtherWalletActivity \/ UNCHANGED vars
  BY <1>1, <1>2 DEF OtherWalletActivity, vars, payoutVars
<1>3. ASSUME NEW w \in Workers, WorkerCrash(w) \/ \E q \in Quotes : SelectCandidate(w, q)
      PROVE  ProviderAgrees'
  <2>0. worker \in [Workers -> WorkerStates]
    BY DEF StrongInv, TypeInv, TypeOK
  <2>1. CASE WorkerCrash(w)
    BY <1>1, <2>0, <2>1 DEF WorkerCrash, Idle
  <2>2. ASSUME NEW q \in Quotes, SelectCandidate(w, q) PROVE ProviderAgrees'
    BY <1>1, <2>0, <2>2 DEF SelectCandidate, Idle
  <2> QED
    BY <1>3, <2>1, <2>2
<1>4. ASSUME NEW w \in Workers, WorkerStep(w), worker[w].pc # "IDLE"
      PROVE  ProviderAgrees'
  BY <1>4, BusyWorkerTrue DEF StrongInv, TypeInv, WorkerHoldsPayout
<1>5. ASSUME NEW w \in Workers, WorkerStep(w), worker[w].pc = "IDLE"
      PROVE  \E q \in Quotes : SelectCandidate(w, q)
  BY <1>5 DEF WorkerStep, ClaimApprovedPayout, PreparationFails, CallProvider,
              FinalizeProviderResponse, FinalizeRejected, FinalizeUncertain,
              CompleteSubmissionJob
<1> QED
  BY <1>2, <1>3, <1>4, <1>5, PayoutStepTrue DEF Next, StrongInv

\* When every Worker has the same configuration, the ledger follows the
\* Provider: nothing is settled that was not paid and nothing is released that
\* will be paid, whichever answers are lost and whichever lease runs out.
THEOREM LedgerSafe ==
    ASSUME SameConfiguration
    PROVE  Spec => []LedgerFollowsProvider
<1>1. Init => ProviderAgrees
  <2> SUFFICES ASSUME Init PROVE ProviderAgrees
    OBVIOUS
  <2>1. ASSUME NEW q \in Quotes PROVE ReportsTrue(q) /\ RowTrue(q)
    <3>1. /\ reports[q] = {} /\ gateway[q].state = "UNKNOWN"
          /\ payout[q].status = "NONE" /\ payout[q].approved = FALSE
      BY DEF Init, NoRow
    <3> QED
      BY <3>1 DEF ReportsTrue, RowTrue, Gate, Closed
  <2>2. ASSUME NEW w \in Workers PROVE WorkerTrue(w)
    BY DEF Init, Idle, WorkerTrue
  <2> QED
    BY <2>1, <2>2 DEF ProviderAgrees
<1>2. StrongInv /\ ProviderAgrees /\ [Next]_vars => ProviderAgrees'
  BY ProviderStep
<1>3. StrongInv /\ ProviderAgrees => LedgerFollowsProvider
  BY DEF ProviderAgrees, RowTrue, LedgerFollowsProvider, Gate, Closed
<1> QED
  BY <1>1, <1>2, <1>3, StrongInvariant, PTL DEF Spec
=============================================================================
