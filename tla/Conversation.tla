---------------------------- MODULE Conversation ----------------------------
(***************************************************************************)
(* A conversation, and one screen that shows it (server/records.py,        *)
(* web/kit_thread.js): how the screen stays true to the record store.      *)
(*                                                                         *)
(* Threads write lines: a new one is stamped before its transaction, an    *)
(* edit in it.  Then they tell the change feed, of which only the promise  *)
(* is used (Tidings).  The screen reads the conversation when it is        *)
(* opened; after that it asks, whenever it hears something and now and     *)
(* then, for what is as new as the newest it shows, and puts what is       *)
(* answered in place.  Answers come in any order.                          *)
(*                                                                         *)
(* The screen has no answer to some of what may happen: "met" notes it.    *)
(*                                                                         *)
(* Not here: what a line says; reactions, pins, read marks, threads; more   *)
(* lines than a page; a screen nobody looks at, which does not ask.        *)
(***************************************************************************)
EXTENDS Naturals, Sequences, FiniteSets

CONSTANTS
    Lines,
    MaxTime,     \* bound: seconds
    MaxWrites,   \* bound: lines created, edited and deleted
    MaxAsks,     \* bound: answers a screen waits for at once, all but one of them by its timer
    Hazards      \* what may happen of Kinds

(***************************************************************************)
(* "stamp":    a new line is committed with a stamp older than another's.  *)
(* "own":      the screen's own line is put in place, and is newer than    *)
(*             one it has not read.                                        *)
(* "overtake": an answer is put in place after a later one, and takes a    *)
(*             line back.                                                  *)
(* "missed":   the feed loses something it should have said.               *)
(* "gap":      a line is deleted after the screen has read it and before   *)
(*             it listens.                                                 *)
(* "revive":   an answer from before a deletion is put in place after it.  *)
(***************************************************************************)
Passed == {"stamp", "own", "overtake"}
Undead == {"missed", "gap", "revive"}

ASSUME ConstantsAssumption ==
    /\ MaxTime \in Nat /\ MaxWrites \in Nat /\ MaxAsks \in Nat
    /\ Hazards \subseteq Passed \cup Undead

VARIABLES
    clock,    \* in seconds, as stamps are
    row,      \* row[l]: line l in the database, or as it is about to be
    untold,   \* what is committed and not told of yet
    due,      \* the feed's: what the screen is still to hear
    screen,   \* whether the screen is open, and listens
    shown,    \* what it shows, rev 0 for nothing
    ask,      \* what it has asked for
    met,      \* history: what has happened
    writes

vars == <<clock, row, untold, due, screen, shown, ask, met, writes>>

Asks     == 1..MaxAsks
Copy     == [rev : 0..MaxWrites, at : 0..MaxTime]
Nothing  == [rev |-> 0, at |-> 0]
Free     == [pc |-> "free", since |-> 0, rows |-> [l \in Lines |-> Nothing]]
Events   == [line : Lines, deleted : BOOLEAN]

Happens(kinds) == kinds \subseteq Hazards /\ met' = met \cup kinds

There(l)  == row[l].is = "there"
InPlace(l) == IF There(l) THEN [rev |-> row[l].rev, at |-> row[l].at] ELSE Nothing

Feed == INSTANCE Tidings WITH Changes <- Events, lossy <- "missed" \in met

----------------------------------------------------------------------------
(* Threads that write.                                                     *)

Tick == clock < MaxTime /\ clock' = clock + 1 /\ UNCHANGED <<row, untold, due, screen, shown, ask, met, writes>>

(* create takes its stamp before it takes the write lock.                  *)
Stamp(l, mine) ==
    /\ row[l].is = "none" /\ (mine => screen \in {"open", "live"})
    /\ row' = [row EXCEPT ![l] = [is |-> "draft", rev |-> 0, at |-> clock, mine |-> mine]]
    /\ UNCHANGED <<clock, untold, due, screen, shown, ask, met, writes>>

Writes(l, deleted) ==
    /\ writes < MaxWrites /\ writes' = writes + 1
    /\ untold' = untold \cup {[line |-> l, deleted |-> deleted, rev |-> row'[l].rev]}

Create(l) ==
    /\ row[l].is = "draft"
    /\ row' = [row EXCEPT ![l].is = "there", ![l].rev = 1]
    /\ Writes(l, FALSE)
    /\ Happens({"stamp" : k \in {k \in Lines : row[k].is \in {"there", "gone"} /\ row[k].at > row[l].at}})
    /\ UNCHANGED <<clock, due, screen, shown, ask>>

(* update and delete stamp, if at all, under the lock.                     *)
Edit(l) ==
    /\ There(l)
    /\ row' = [row EXCEPT ![l].rev = @ + 1, ![l].at = clock, ![l].mine = FALSE]
    /\ Writes(l, FALSE)
    /\ UNCHANGED <<clock, due, screen, shown, ask, met>>

Delete(l) ==
    /\ There(l)
    /\ row' = [row EXCEPT ![l].is = "gone"]
    /\ Writes(l, TRUE)
    /\ UNCHANGED <<clock, due, screen, shown, ask, met>>

(* What was written is read again and told of; if it is no longer there    *)
(* the thread ends on that.  The screen's own line is its answer.          *)
Tell(w) ==
    /\ w \in untold /\ untold' = untold \ {w} /\ UNCHANGED <<clock, row, screen, shown, met, writes>>
    /\ LET l == w.line
       IN  IF ~w.deleted /\ ~There(l) THEN UNCHANGED <<due, ask>>
           ELSE /\ IF screen = "live" THEN Feed!Tell([line |-> l, deleted |-> w.deleted]) ELSE UNCHANGED due
                /\ IF ~w.deleted /\ row[l].mine /\ w.rev = 1
                   THEN \E i \in Asks :
                            /\ ask[i] = Free
                            /\ ask' = [ask EXCEPT ![i] = [pc |-> "sent", since |-> 0,
                                                          rows |-> [Free.rows EXCEPT ![l] = InPlace(l)]]]
                   ELSE UNCHANGED ask

----------------------------------------------------------------------------
(* The screen.                                                             *)

(* The newest of what is shown.                                            *)
Newest_past == {s + 1 : s \in {0} \cup {shown[l].at : l \in Lines}}
Newest      == {s \in {0} \cup {shown[l].at : l \in Lines} : \A l \in Lines : shown[l].at <= s}

(* Asks that are in the same state may be taken to be in order.            *)
AskFrom(i, since) ==
    /\ ask[i] = Free /\ \A j \in Asks : j < i => ask[j] # Free
    /\ ask' = [ask EXCEPT ![i] = [Free EXCEPT !.pc = "asked", !.since = since]]

Open ==
    /\ screen = "closed" /\ screen' = "loading"
    /\ \E i \in Asks : AskFrom(i, 0)
    /\ UNCHANGED <<clock, row, untold, due, shown, met, writes>>

(* The stream says hello.                                                  *)
Listen ==
    /\ screen = "open" /\ screen' = "live"
    /\ Happens({"gap" : l \in {l \in Lines : shown[l] # Nothing /\ row[l].is = "gone"
                                             /\ \A w \in untold : ~(w.line = l /\ w.deleted)}})
    /\ UNCHANGED <<clock, row, untold, due, shown, ask, writes>>

(* A deleted line is taken off; whatever it hears, the screen asks.        *)
TakenOff_not(e) == shown
TakenOff(e)     == IF e.deleted THEN [shown EXCEPT ![e.line] = Nothing] ELSE shown

Hear ==
    /\ UNCHANGED <<clock, row, untold, screen, met, writes>> /\ Feed!Hear
    /\ shown' = TakenOff(Head(due))
    /\ \E i \in Asks, s \in 0..MaxTime : s \in Newest' /\ AskFrom(i, s)

Lose ==
    /\ due # <<>> /\ due' = <<>> /\ Happens({"missed"})
    /\ UNCHANGED <<clock, row, untold, screen, shown, ask, writes>>

(* The timer.                                                              *)
Poll ==
    /\ screen \in {"open", "live"} /\ Cardinality({i \in Asks : ask[i] = Free}) > 1
    /\ \E i \in Asks, s \in Newest : AskFrom(i, s)
    /\ UNCHANGED <<clock, row, untold, due, screen, shown, met, writes>>

(* records.list, as it is when it is read.                                 *)
Since_after(s) == [l \in Lines |-> IF There(l) /\ row[l].at > s THEN InPlace(l) ELSE Nothing]
Since(s) == [l \in Lines |-> IF There(l) /\ row[l].at >= s THEN InPlace(l) ELSE Nothing]

Answer(i) ==
    /\ ask[i].pc = "asked"
    /\ ask' = [ask EXCEPT ![i].pc = "answered", ![i].rows = Since(ask[i].since)]
    /\ UNCHANGED <<clock, row, untold, due, screen, shown, met, writes>>

(* A screen that could not load is open all the same, with nothing on it.  *)
Freed(i) ==
    /\ ask' = [ask EXCEPT ![i] = Free]
    /\ screen' = IF screen = "loading" THEN "open" ELSE screen

Fail(i) ==
    /\ ask[i].pc = "asked" /\ Freed(i)
    /\ UNCHANGED <<clock, row, untold, due, shown, met, writes>>

(* merge: a line with another rev than is shown takes its place.           *)
Merged_once(rows) == [l \in Lines |-> IF shown[l].rev = 0 THEN rows[l] ELSE shown[l]]
Merged(rows) == [l \in Lines |-> IF rows[l].rev \notin {0, shown[l].rev} THEN rows[l] ELSE shown[l]]

Unread(l)  == There(l) /\ shown[l].rev # row[l].rev
ToBeTold(l) == \/ \E w \in untold : w.line = l /\ w.deleted
               \/ \E k \in DOMAIN due : due[k] = [line |-> l, deleted |-> TRUE]

What(a, l) ==
    {k \in {"overtake"} : a.rows[l].rev # 0 /\ a.rows[l].rev < shown[l].rev}
    \cup {k \in {"own"} : a.pc = "sent" /\ Unread(l) /\ \E m \in Lines : row[l].at < a.rows[m].at}
    \cup {k \in {"revive"} : a.rows[l].rev # 0 /\ row[l].is = "gone" /\ screen = "live" /\ ~ToBeTold(l)}

Merge(i) ==
    /\ ask[i].pc \in {"answered", "sent"} /\ Freed(i)
    /\ shown' = Merged(ask[i].rows)
    /\ Happens(UNION {What(ask[i], l) : l \in Lines})
    /\ UNCHANGED <<clock, row, untold, due, writes>>

----------------------------------------------------------------------------
Init ==
    /\ clock = 0 /\ row = [l \in Lines |-> [is |-> "none", rev |-> 0, at |-> 0, mine |-> FALSE]]
    /\ met = {} /\ writes = 0 /\ untold = {} /\ Feed!Init
    /\ screen = "closed" /\ shown = Free.rows /\ ask = [i \in Asks |-> Free]

Thread == \E l \in Lines : Create(l) \/ \E w \in untold : Tell(w)

Next ==
    \/ Tick \/ Thread
    \/ \E l \in Lines : (\E mine \in BOOLEAN : Stamp(l, mine)) \/ Edit(l) \/ Delete(l)
    \/ Open \/ Listen \/ Hear \/ Lose \/ Poll
    \/ \E i \in Asks : Answer(i) \/ Fail(i) \/ Merge(i)

Spec == Init /\ [][Next]_vars

(***************************************************************************)
(* Threads go on; a screen that is opened goes on to load and to listen,   *)
(* hears what it is told, asks by its timer, and is answered in the end.   *)
(***************************************************************************)
Fairness ==
    /\ WF_vars(Thread) /\ WF_vars(Listen) /\ WF_vars(Hear) /\ WF_vars(Poll)
    /\ SF_vars(\E i \in Asks : Answer(i)) /\ WF_vars(\E i \in Asks : Merge(i))
FairSpec == Spec /\ Fairness

----------------------------------------------------------------------------
(* Properties.                                                             *)

TypeOK ==
    /\ clock \in 0..MaxTime
    /\ row \in [Lines -> [is : {"none", "draft", "there", "gone"}, rev : 0..MaxWrites,
                          at : 0..MaxTime, mine : BOOLEAN]]
    /\ \A l \in Lines : row[l].rev <= writes
    /\ untold \subseteq [line : Lines, deleted : BOOLEAN, rev : 0..MaxWrites]
    /\ due \in Seq(Events)
    /\ screen \in {"closed", "loading", "open", "live"}
    /\ shown \in [Lines -> Copy]
    /\ ask \in [Asks -> [pc : {"free", "asked", "answered", "sent"}, since : 0..MaxTime, rows : [Lines -> Copy]]]
    /\ met \subseteq Hazards /\ writes \in 0..MaxWrites

(* What is older than the newest on the screen is on the screen as it is:  *)
(* the screen never asks for it again, and need not.                       *)
AllRead == \A l, k \in Lines : There(l) /\ row[l].at < shown[k].at => shown[l].rev = row[l].rev

(* And so it is until one of Passed has happened, whatever the feed loses. *)
NoneBehind == met \cap Passed = {} => AllRead

(* No line that is gone stays on the screen once it is told.               *)
GoneIsGone ==
    screen = "live" => \A l \in Lines : row[l].is = "gone" /\ ~ToBeTold(l) => shown[l].rev = 0

(* And so it is until one of Undead has happened.                          *)
NoGhosts == met \cap Undead = {} => GoneIsGone

(* A screen that is open comes to show what is there and nothing else,     *)
(* unless one of Passed or Undead has happened to it.                      *)
Right(l) ==
    IF There(l) THEN shown[l].rev = row[l].rev \/ met \cap Passed # {}
    ELSE shown[l].rev = 0 \/ met \cap Undead # {}
Settles == <>[](screen = "live" => \A l \in Lines : Right(l))
=============================================================================
