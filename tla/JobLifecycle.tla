---------------------------- MODULE JobLifecycle ----------------------------
(***************************************************************************)
(* What the queue promises for a job, whatever workers do: it is submitted *)
(* once, started at most MaxTries times, given back only while tries are   *)
(* left, and once finished it stays as it is.  Jobs may move together in   *)
(* one step (stale recovery handles every lost item in one transaction).   *)
(***************************************************************************)
EXTENDS Naturals

CONSTANTS Jobs, MaxTries

VARIABLES state, tries

Finished == {"completed", "failed", "cancelled"}

Init ==
  /\ state = [j \in Jobs |-> "absent"]
  /\ tries = [j \in Jobs |-> 0]

Submit(j) ==
  /\ state[j] = "absent" /\ state'[j] = "waiting"
  /\ tries'[j] = tries[j]

Start(j) ==
  /\ state[j] = "waiting" /\ state'[j] = "running"
  /\ tries[j] < MaxTries
  /\ tries'[j] = tries[j] + 1

GiveBack(j) ==
  /\ state[j] = "running" /\ state'[j] = "waiting"
  /\ tries[j] < MaxTries
  /\ tries'[j] = tries[j]

Finish(j) ==
  /\ state[j] = "running" /\ state'[j] \in Finished
  /\ tries'[j] = tries[j]

Rest(j) == state'[j] = state[j] /\ tries'[j] = tries[j]

Next == \A j \in Jobs : Submit(j) \/ Start(j) \/ GiveBack(j) \/ Finish(j) \/ Rest(j)

Spec == Init /\ [][Next]_<<state, tries>>

=============================================================================
