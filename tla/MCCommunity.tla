---------------------------- MODULE MCCommunity ----------------------------
(***************************************************************************)
(* Two Members, a Hirer and a Worker, with the Quest they did together:   *)
(* reviews, reports, the penalties that follow from them and the Wallet    *)
(* that a ban freezes.                                                     *)
(***************************************************************************)
EXTENDS Moderation, TLC

CONSTANTS h, w, q1, x1, k0, k1, k2

MCQuests == {q1}
MCHirerOf == q1 :> h
MCWorkerOf == q1 :> w
MCDueAt == [q \in MCQuests |-> 2]
MCAuthor == [x \in {x1} |-> h]
MCQuestOf == [x \in {x1} |-> q1]

=============================================================================
