------------------------------ MODULE Tidings ------------------------------
(***************************************************************************)
(* What the change feed promises a screen that listens: it hears of every  *)
(* change it may see, in the order they were told, until something happens *)
(* that the feed has no answer to.                                         *)
(***************************************************************************)
EXTENDS Sequences

CONSTANT Changes

VARIABLES due,    \* what the screen has not heard yet, in order
          lossy   \* whether it may have missed something

Init == due = <<>> /\ lossy = FALSE

Tell(c) == due' = Append(due, c) /\ UNCHANGED lossy
Hear    == due # <<>> /\ due' = Tail(due) /\ UNCHANGED lossy
Lose    == lossy' = TRUE

Next == (\E c \in Changes : Tell(c)) \/ Hear \/ Lose

(* What is told is heard in the end.                                       *)
Heard == \A c \in Changes : (\E i \in DOMAIN due : due[i] = c) ~> ((\A i \in DOMAIN due : due[i] # c) \/ lossy)

Spec == Init /\ [][Next]_<<due, lossy>> /\ Heard
=============================================================================
