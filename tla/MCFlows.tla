------------------------------- MODULE MCFlows -------------------------------
(* Small flows for TLC: what each one is for is said where it is made.     *)
EXTENDS Flows, TLC

CONSTANTS f1, f2, f3, boss, other

Do(kind)         == [kind |-> kind, only |-> "always"]
DoIf(kind, only) == [kind |-> kind, only |-> only]

(* Asks, and does one thing or the other; then asks again and goes on only *)
(* if it was approved, waiting in between.                                 *)
Asking == <<Do("ask"), DoIf("quiet", "approved"), DoIf("stop", "declined"),
            Do("ask"), Do("wait"), DoIf("quiet", "approved"), DoIf("quiet", "withdrawn")>>

AskTrigger == [f \in FlowIds |-> "record"]
AskSteps   == [f \in FlowIds |-> Asking]

(* Two that start one another by what they write, and one that the clock   *)
(* starts, which asks twice over before it starts the two: the first of    *)
(* its runs still waits when the next is due.                              *)
RingTrigger == [f \in FlowIds |-> IF f = f3 THEN "schedule" ELSE "record"]
RingSteps   == [f \in FlowIds |->
    IF f # f3 THEN <<Do("write")>>
    ELSE <<Do("ask"), DoIf("stop", "declined"), Do("ask"), DoIf("write", "approved"), DoIf("quiet", "withdrawn")>>]

(* The two, with a wait before one of them writes.                         *)
WaitSteps    == [f \in FlowIds |-> IF f = f1 THEN <<Do("write")>> ELSE <<Do("wait"), Do("write")>>]

(* The two, with a question before one of them writes.                     *)
PutSteps     == [f \in FlowIds |-> IF f = f1 THEN <<Do("write")>> ELSE <<Do("ask"), Do("write")>>]

(* One that asks, writes and asks again, and one that its write starts.    *)
LiveSteps    == [f \in FlowIds |-> IF f = f1 THEN <<Do("ask"), DoIf("write", "approved"), Do("ask"), Do("wait"), Do("quiet")>>
                                   ELSE <<Do("wait")>>]
LiveTrigger  == [f \in FlowIds |-> IF f = f1 THEN "manual" ELSE "record"]

Bosses == Permutations(Holders)
=============================================================================
