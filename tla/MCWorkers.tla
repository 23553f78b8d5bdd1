----------------------------- MODULE MCWorkers -----------------------------
(***************************************************************************)
(* The background workers of an API process: the sweep of due Quests, and  *)
(* the sender of push alerts.  They share no row, so a behaviour follows   *)
(* one of them: two processes that sweep two Quests or one that sweeps     *)
(* three, one alert to the two devices of a Member, or two to one device.  *)
(***************************************************************************)
EXTENDS QuestSweep, PushDeliveries

CONSTANTS a, sweeper

MCRecipient == [n \in Alerts |-> a]

VARIABLE scene

workerVars == <<vars, pushVars, scene>>

WorkersInit ==
    /\ Init /\ PushInit
    /\ scene \in {"TWO_SWEEPS", "THREE_QUESTS", "TWO_DEVICES", "TWO_ALERTS"}

Pushes == scene \in {"TWO_DEVICES", "TWO_ALERTS"}

\* The Quests are numbered as they fall due, and what crashes is the sweeper.
\* The third Quest and the awards are in the scene of one process, without
\* crashes, whose money holds stay young.
StaysInSweeps ==
    /\ \A q, r \in Quests : q < r /\ stage'[q] = "WORK" => r \notin Range(overdue')
    /\ crashes' # crashes => \A p \in Processes : p # sweeper => sweep'[p] = sweep[p]
    /\ scene = "TWO_SWEEPS" =>
          /\ awarded' = {}
          /\ \A q \in Quests : q > 2 => stage'[q] = "WORK" /\ lastProof'[q] = "NONE"
    /\ scene = "THREE_QUESTS" =>
          /\ crashes' = 0
          /\ \A p \in Processes : p # sweeper => sweep'[p].phase = "IDLE"
          /\ \A q \in Quests : stage'[q] \notin {"WINDOW_OVER", "RELEASABLE"}

\* The second alert, or whatever happens to devices and processes, is not in
\* the scene.
StaysInScene ==
    /\ scene = "TWO_DEVICES" => alert'[2].status = "NONE"
    /\ scene = "TWO_ALERTS" => changes'.device <= 1 /\ changes'.crash = 0

SweepsInScene == ~Pushes /\ Next /\ StaysInSweeps

WorkersNext ==
    \/ SweepsInScene /\ UNCHANGED <<pushVars, scene>>
    \/ Pushes /\ PushNext /\ StaysInScene /\ UNCHANGED <<vars, scene>>

\* The fairness of either worker, where it is in the scene.
WorkersFairness ==
    /\ \A p \in Processes :
          WF_vars(~Pushes /\ (scene = "THREE_QUESTS" => p = sweeper) /\ Works(p))
    /\ WF_vars(~Pushes /\ \E q \in Quests : ReviewFallsDue(q))
    /\ \A p \in Senders : WF_pushVars(Pushes /\ SenderGoesOn(p))
    /\ \A n \in Alerts : WF_pushVars(Pushes /\ AttemptFallsDue(n))

WorkersSpec == WorkersInit /\ [][WorkersNext]_workerVars /\ WorkersFairness

-----------------------------------------------------------------------------
\* What is due is done, however small a batch is, and whatever the senders,
\* their attempts and the devices come to: the sweeps catch up with their
\* Quests again and again, and no alert stays in the outbox.
DueWorkIsDone == []<>(CaughtUp /\ OutboxEmpty)
=============================================================================
