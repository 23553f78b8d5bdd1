------------------------------- MODULE Wallet -------------------------------
(***************************************************************************)
(* The Member Wallet: four compartments that project the sealed ledger,    *)
(* the platform accounts on the other side of a posting, and the Wallet    *)
(* status that gates what a Member may start.                              *)
(*                                                                         *)
(* Every component that moves money extends this module and changes a      *)
(* Wallet only through PostToWallet, as the code changes one only through  *)
(* a sealed ledger transaction and the projection rebuilt from it.         *)
(* Identity of ledger rows, descriptions and activities are left out.      *)
(***************************************************************************)
EXTENDS Integers, TLAPS

CONSTANTS
    Members,         \* Members who own a Wallet
    Capacity,        \* MAX_WALLET_CAPACITY_SATANG
    InitialWallet,   \* the Wallet each Member starts with
    ConversionLimits, \* amounts the Money Policy lets a Member convert
    StatusChanges    \* bound: the Wallet statuses an Admin or penalty sets

WalletStatuses == {"ACTIVE", "FROZEN", "SUSPENDED", "CLOSED"}

Wallets == [SPENDING: Int, FUNDING_RESERVED: Int,
            EARNINGS: Int, RESERVED_FOR_PAYOUTS: Int]

WalletTotal(w) ==
    w.SPENDING + w.FUNDING_RESERVED + w.EARNINGS + w.RESERVED_FOR_PAYOUTS

\* What deriveWalletProjectionInTransaction accepts; the ledger transaction
\* that would lead anywhere else is rolled back with its command.
ValidProjection(w) ==
    /\ w.SPENDING >= 0
    /\ w.FUNDING_RESERVED >= 0
    /\ w.EARNINGS >= 0
    /\ w.RESERVED_FOR_PAYOUTS >= 0
    /\ WalletTotal(w) <= Capacity

ASSUME WalletAssumption ==
    /\ Capacity \in Nat
    /\ InitialWallet \in [Members -> Wallets]
    /\ \A m \in Members : ValidProjection(InitialWallet[m])
    /\ ConversionLimits \subseteq Nat
    /\ StatusChanges \subseteq WalletStatuses

Platforms == [PLATFORM_REVENUE: Int, PLATFORM_SUSPENSE: Int]

VARIABLES
    wallet,       \* wallet[m]: the projection of m's four ledger accounts
    platform,     \* balances of the two platform ledger accounts
    walletStatus  \* walletStatus[m]

walletVars == <<wallet, platform, walletStatus>>

WalletTypeOK ==
    /\ wallet \in [Members -> Wallets]
    /\ platform \in Platforms
    /\ walletStatus \in [Members -> WalletStatuses]

WalletInit ==
    /\ wallet = InitialWallet
    /\ platform = [PLATFORM_REVENUE |-> 0, PLATFORM_SUSPENSE |-> 0]
    /\ walletStatus = [m \in Members |-> "ACTIVE"]

-----------------------------------------------------------------------------
(* A sealed ledger transaction posts one amount to each of the four        *)
(* accounts of a Wallet; the projection must accept the result.            *)
Posted(w, spending, funding, earnings, payouts) ==
    [SPENDING             |-> w.SPENDING + spending,
     FUNDING_RESERVED     |-> w.FUNDING_RESERVED + funding,
     EARNINGS             |-> w.EARNINGS + earnings,
     RESERVED_FOR_PAYOUTS |-> w.RESERVED_FOR_PAYOUTS + payouts]

PostToWallet(m, w) ==
    /\ ValidProjection(w)
    /\ wallet' = [wallet EXCEPT ![m] = w]

\* A ledger transaction that takes from one Wallet and credits Earnings of
\* another, or of the same.
Transferred(from, spending, funding, to, earnings) ==
    [m \in Members |->
        Posted(wallet[m], IF m = from THEN -spending ELSE 0,
                          IF m = from THEN -funding ELSE 0,
                          IF m = to THEN earnings ELSE 0, 0)]

PostTransfer(wallets) ==
    /\ \A m \in Members : ValidProjection(wallets[m])
    /\ wallet' = wallets

\* The same on the two platform accounts, which may run either way.
PostToPlatform(revenue, suspense) ==
    platform' = [PLATFORM_REVENUE  |-> platform.PLATFORM_REVENUE + revenue,
                 PLATFORM_SUSPENSE |-> platform.PLATFORM_SUSPENSE + suspense]

\* Only a Member's own operations need an ACTIVE Wallet.
StudentMayStart(m) == walletStatus[m] = "ACTIVE"

\* convertEarnings: Earnings become Spending.
ConvertEarnings(m, amount) ==
    /\ StudentMayStart(m)
    /\ amount \in ConversionLimits
    /\ wallet[m].EARNINGS >= amount
    /\ PostToWallet(m, Posted(wallet[m], amount, 0, -amount, 0))
    /\ UNCHANGED <<platform, walletStatus>>

\* changeWalletStatusInTransaction: CLOSED is terminal.
ChangeWalletStatus(m, s) ==
    /\ walletStatus[m] # s
    /\ walletStatus[m] # "CLOSED"
    /\ walletStatus' = [walletStatus EXCEPT ![m] = s]
    /\ UNCHANGED <<wallet, platform>>

-----------------------------------------------------------------------------
\* One balanced ledger transaction on at most one Wallet: what that Wallet
\* gains the platform accounts lose.
BalancedPosting ==
    LET PlatformTotal(p) == p.PLATFORM_REVENUE + p.PLATFORM_SUSPENSE
    IN  \/ wallet' = wallet /\ platform' = platform
        \/ \E m \in Members :
              /\ \A n \in Members \ {m} : wallet'[n] = wallet[n]
              /\ WalletTotal(wallet'[m]) + PlatformTotal(platform')
                   = WalletTotal(wallet[m]) + PlatformTotal(platform)

-----------------------------------------------------------------------------
(* Lemmas about ledger postings, for the components that move money. *)

\* The four balances of a Wallet are numbers.
LEMMA WalletFields ==
    ASSUME NEW w \in Wallets
    PROVE  /\ w.SPENDING \in Int
           /\ w.FUNDING_RESERVED \in Int
           /\ w.EARNINGS \in Int
           /\ w.RESERVED_FOR_PAYOUTS \in Int
BY DEF Wallets

\* What a ledger transaction makes of a Wallet: the projection adds to each
\* balance what was posted to its account, and to the total the sum.
LEMMA PostedFacts ==
    ASSUME NEW w \in Wallets, NEW s \in Int, NEW f \in Int, NEW e \in Int, NEW p \in Int
    PROVE  /\ Posted(w, s, f, e, p) \in Wallets
           /\ Posted(w, s, f, e, p).SPENDING = w.SPENDING + s
           /\ Posted(w, s, f, e, p).FUNDING_RESERVED = w.FUNDING_RESERVED + f
           /\ Posted(w, s, f, e, p).EARNINGS = w.EARNINGS + e
           /\ Posted(w, s, f, e, p).RESERVED_FOR_PAYOUTS = w.RESERVED_FOR_PAYOUTS + p
           /\ WalletTotal(Posted(w, s, f, e, p)) = WalletTotal(w) + s + f + e + p
BY WalletFields DEF Posted, Wallets, WalletTotal

\* A ledger transaction on one Wallet leaves every other Wallet alone.
LEMMA PostToWalletFacts ==
    ASSUME wallet \in [Members -> Wallets], NEW m \in Members, NEW w \in Wallets,
           PostToWallet(m, w)
    PROVE  /\ wallet' \in [Members -> Wallets]
           /\ wallet'[m] = w
           /\ \A n \in Members \ {m} : wallet'[n] = wallet[n]
           /\ ValidProjection(w)
BY DEF PostToWallet

\* What a posting does to the two platform accounts and their sum.
LEMMA PostToPlatformFacts ==
    ASSUME platform \in Platforms, NEW r \in Int, NEW s \in Int, PostToPlatform(r, s)
    PROVE  /\ platform' \in Platforms
           /\ platform'.PLATFORM_REVENUE + platform'.PLATFORM_SUSPENSE
                = platform.PLATFORM_REVENUE + platform.PLATFORM_SUSPENSE + r + s
BY DEF PostToPlatform, Platforms

\* What a transfer makes of each Wallet.
LEMMA TransferredFacts ==
    ASSUME wallet \in [Members -> Wallets], NEW from, NEW to,
           NEW s \in Int, NEW f \in Int, NEW e \in Int
    PROVE  /\ Transferred(from, s, f, to, e) \in [Members -> Wallets]
           /\ \A m \in Members :
                 WalletTotal(Transferred(from, s, f, to, e)[m])
                    = WalletTotal(wallet[m]) - (IF m = from THEN s + f ELSE 0)
                                             + (IF m = to THEN e ELSE 0)
           /\ \A m \in Members :
                 Transferred(from, s, f, to, e)[m].FUNDING_RESERVED
                    = wallet[m].FUNDING_RESERVED - (IF m = from THEN f ELSE 0)
<1> SUFFICES ASSUME NEW m \in Members
             PROVE  /\ Transferred(from, s, f, to, e)[m] \in Wallets
                    /\ WalletTotal(Transferred(from, s, f, to, e)[m])
                          = WalletTotal(wallet[m]) - (IF m = from THEN s + f ELSE 0)
                                                   + (IF m = to THEN e ELSE 0)
                    /\ Transferred(from, s, f, to, e)[m].FUNDING_RESERVED
                          = wallet[m].FUNDING_RESERVED - (IF m = from THEN f ELSE 0)
  BY DEF Transferred
<1> DEFINE ds == IF m = from THEN -s ELSE 0
           df == IF m = from THEN -f ELSE 0
           de == IF m = to THEN e ELSE 0
<1>1. ds \in Int /\ df \in Int /\ de \in Int /\ wallet[m] \in Wallets
  OBVIOUS
<1>2. Transferred(from, s, f, to, e)[m] = Posted(wallet[m], ds, df, de, 0)
  BY DEF Transferred
<1>3. ds + df = -(IF m = from THEN s + f ELSE 0) /\ df = -(IF m = from THEN f ELSE 0)
  OBVIOUS
<1> HIDE DEF ds, df
<1>4. /\ Posted(wallet[m], ds, df, de, 0) \in Wallets
      /\ WalletTotal(Posted(wallet[m], ds, df, de, 0)) = WalletTotal(wallet[m]) + ds + df + de + 0
      /\ Posted(wallet[m], ds, df, de, 0).FUNDING_RESERVED = wallet[m].FUNDING_RESERVED + df
  BY <1>1, PostedFacts
<1>5. WalletTotal(wallet[m]) \in Int /\ wallet[m].FUNDING_RESERVED \in Int
  BY <1>1, WalletFields DEF WalletTotal
<1> QED
  BY <1>1, <1>2, <1>3, <1>4, <1>5

\* The Wallet's own commands keep the types and what is reserved, and move
\* nothing in or out of the Wallet.
LEMMA WalletCommands ==
    ASSUME WalletTypeOK, WalletAssumption,
           \/ \E m \in Members, n \in ConversionLimits : ConvertEarnings(m, n)
           \/ \E m \in Members, s \in StatusChanges : ChangeWalletStatus(m, s)
    PROVE  /\ WalletTypeOK'
           /\ platform' = platform
           /\ \A m \in Members :
                 /\ wallet'[m].RESERVED_FOR_PAYOUTS = wallet[m].RESERVED_FOR_PAYOUTS
                 /\ wallet'[m].FUNDING_RESERVED = wallet[m].FUNDING_RESERVED
                 /\ WalletTotal(wallet'[m]) = WalletTotal(wallet[m])
<1>1. CASE \E m \in Members, n \in ConversionLimits : ConvertEarnings(m, n)
  <2>1. PICK m \in Members, n \in ConversionLimits : ConvertEarnings(m, n)
    BY <1>1
  <2>2. n \in Int /\ -n \in Int /\ wallet[m] \in Wallets /\ wallet \in [Members -> Wallets]
    BY WalletAssumption DEF WalletTypeOK
  <2> DEFINE w == Posted(wallet[m], n, 0, -n, 0)
  <2>3. /\ w \in Wallets
        /\ w.RESERVED_FOR_PAYOUTS = wallet[m].RESERVED_FOR_PAYOUTS + 0
        /\ w.FUNDING_RESERVED = wallet[m].FUNDING_RESERVED + 0
        /\ WalletTotal(w) = WalletTotal(wallet[m]) + n + 0 + (-n) + 0
    BY <2>2, PostedFacts
  <2>4. /\ WalletTotal(wallet[m]) \in Int /\ wallet[m].RESERVED_FOR_PAYOUTS \in Int
        /\ wallet[m].FUNDING_RESERVED \in Int
    BY <2>2, WalletFields DEF WalletTotal
  <2>5. PostToWallet(m, w) /\ UNCHANGED <<platform, walletStatus>>
    BY <2>1 DEF ConvertEarnings
  <2> HIDE DEF w
  <2>6. /\ wallet' \in [Members -> Wallets]
        /\ wallet'[m] = w
        /\ \A n2 \in Members \ {m} : wallet'[n2] = wallet[n2]
    BY <2>2, <2>3, <2>5, PostToWalletFacts
  <2> QED
    BY <2>2, <2>3, <2>4, <2>5, <2>6 DEF WalletTypeOK
<1>2. CASE \E m \in Members, s \in StatusChanges : ChangeWalletStatus(m, s)
  BY <1>2, WalletAssumption DEF ChangeWalletStatus, WalletTypeOK
<1> QED
  BY <1>1, <1>2
=============================================================================
