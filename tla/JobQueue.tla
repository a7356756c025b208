------------------------------ MODULE JobQueue ------------------------------
(***************************************************************************)
(* What a machine's job queue promises to whoever asks it for work: jobs   *)
(* are begun oldest first, each once; one that is begun is reported on or  *)
(* given up on; a report may still come for one that was given up on, and  *)
(* what was reported stays.  A machine that is removed takes its jobs.     *)
(***************************************************************************)
EXTENDS Naturals

CONSTANTS JobIds, AgentIds

VARIABLES owner,    \* owner[j]: the machine that job j is for
          state     \* state[j]: how far it is

Over == {"givenup", "done", "failed"}

Init == /\ owner = [j \in JobIds |-> 0]
        /\ state = [j \in JobIds |-> "none"]

Ask(j, a) ==
    /\ state[j] = "none"
    /\ owner' = [owner EXCEPT ![j] = a]
    /\ state' = [state EXCEPT ![j] = "queued"]

Begin(j) ==
    /\ state[j] = "queued"
    /\ \A i \in JobIds : i < j /\ owner[i] = owner[j] => state[i] # "queued"
    /\ state' = [state EXCEPT ![j] = "running"]
    /\ UNCHANGED owner

GiveUp(J) ==
    /\ \A j \in J : state[j] = "running"
    /\ state' = [j \in JobIds |-> IF j \in J THEN "givenup" ELSE state[j]]
    /\ UNCHANGED owner

Report(j, outcome) ==
    /\ state[j] \in {"running", "givenup"}
    /\ state' = [state EXCEPT ![j] = outcome]
    /\ UNCHANGED owner

Remove(a) ==
    /\ state' = [j \in JobIds |-> IF owner[j] = a THEN "gone" ELSE state[j]]
    /\ UNCHANGED owner

Next ==
    \/ \E j \in JobIds, a \in AgentIds : Ask(j, a)
    \/ \E j \in JobIds : Begin(j) \/ \E outcome \in {"done", "failed"} : Report(j, outcome)
    \/ \E J \in SUBSET JobIds : GiveUp(J)
    \/ \E a \in AgentIds : Remove(a)

Spec == Init /\ [][Next]_<<owner, state>>
=============================================================================
