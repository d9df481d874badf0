----------------------------- MODULE JobContract -----------------------------
(***************************************************************************)
(* What the control plane promises about every job, whatever the workers,   *)
(* sessions, deadlines and siblings around it do: the right to run it is    *)
(* granted to one attempt at a time, under numbers that only grow, at most  *)
(* Limit times; only the holder can make it succeed; a stop request is      *)
(* final.  One step may move several jobs, each by one of its own moves.    *)
(***************************************************************************)
EXTENDS Naturals

CONSTANTS Jobs, Limit

VARIABLES status, grants, holder, stop, winner

contractVars == <<status, grants, holder, stop, winner>>

ContractInit ==
    /\ status = [j \in Jobs |-> "unsubmitted"]
    /\ grants = [j \in Jobs |-> 0]
    /\ holder = [j \in Jobs |-> 0]
    /\ stop = [j \in Jobs |-> FALSE]
    /\ winner = [j \in Jobs |-> 0]

Keeps(f, j) == f'[j] = f[j]

Admit(j) ==
    /\ status[j] = "unsubmitted" /\ status'[j] = "waiting"
    /\ Keeps(grants, j) /\ Keeps(holder, j) /\ Keeps(stop, j) /\ Keeps(winner, j)

Grant(j) ==
    /\ status[j] = "waiting" /\ ~stop[j] /\ grants[j] < Limit[j]
    /\ status'[j] = "held"
    /\ grants'[j] = grants[j] + 1 /\ holder'[j] = grants'[j]
    /\ Keeps(stop, j) /\ Keeps(winner, j)

(* A stop request reaches the holder, or withdraws a waiting job.           *)
RequestStop(j) ==
    /\ ~stop[j] /\ stop'[j]
    /\ \/ status[j] = "waiting" /\ status'[j] = "cancelled"
       \/ status[j] = "held" /\ status'[j] = "held"
    /\ Keeps(grants, j) /\ Keeps(holder, j) /\ Keeps(winner, j)

Succeed(j) ==
    /\ status[j] = "held" /\ ~stop[j]
    /\ status'[j] = "succeeded"
    /\ winner'[j] = holder[j] /\ holder'[j] = 0
    /\ Keeps(grants, j) /\ Keeps(stop, j)

(* The holder loses the job, which fails or waits for another grant.        *)
Lose(j) ==
    /\ status[j] = "held" /\ ~stop[j]
    /\ \/ status'[j] = "failed"
       \/ status'[j] = "waiting" /\ grants[j] < Limit[j]
    /\ holder'[j] = 0
    /\ Keeps(grants, j) /\ Keeps(stop, j) /\ Keeps(winner, j)

(* A stopped holder ends; the stop may come with the end.                   *)
Cancel(j) ==
    /\ status[j] = "held" /\ status'[j] = "cancelled"
    /\ stop'[j] /\ holder'[j] = 0
    /\ Keeps(grants, j) /\ Keeps(winner, j)

Rest(j) ==
    /\ Keeps(status, j) /\ Keeps(grants, j) /\ Keeps(holder, j)
    /\ Keeps(stop, j) /\ Keeps(winner, j)

Move(j) ==
    \/ Admit(j) \/ Grant(j) \/ RequestStop(j) \/ Succeed(j) \/ Lose(j)
    \/ Cancel(j) \/ Rest(j)

ContractNext == \A j \in Jobs : Move(j)

ContractSpec == ContractInit /\ [][ContractNext]_contractVars
=============================================================================
