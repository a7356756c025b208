----------------------------- MODULE ChangeFeed -----------------------------
(***************************************************************************)
(* The change feed and a screen that listens to it over one connection,    *)
(* which drops and comes back (server/changefeed.py, web/changes.js).      *)
(*                                                                         *)
(* A request's thread that has written something tells the feed, which     *)
(* numbers the change and then wakes the streams that were waiting.  A     *)
(* stream looks, puts itself down to be woken, looks again and sleeps; what *)
(* it has found it sends one by one.                                       *)
(* The line delivers in order what it delivers, and loses what is on it    *)
(* when it drops; the screen comes back from the number it has.            *)
(*                                                                         *)
(* The protocol is not watertight: "met" notes what has happened to the    *)
(* screen that it has no answer to.                                        *)
(*                                                                         *)
(* Streams share nothing but the feed, so one of them stands for each.     *)
(* Not here: what a change says (only whether this screen may see it); the *)
(* limit.  A stream whose line has dropped is gone at once.                *)
(***************************************************************************)
EXTENDS Integers, Sequences

CONSTANTS
    HELD,        \* how many changes the feed remembers
    MaxSeq,      \* bound: changes told of between restarts
    MaxFaults,   \* bound: lines dropped and restarts
    Hazards      \* what may happen of Kinds

(***************************************************************************)
(* "early":   the first line drops before its hello is heard.              *)
(* "hello":   the line drops after a hello that names a number beyond what *)
(*            was sent, which is then where the screen comes back from.    *)
(* "horizon": more changes come than the feed holds.                       *)
(* "restart": the server numbers from one again.                           *)
(***************************************************************************)
Kinds  == {"early", "hello", "horizon", "restart"}
NoMark == MaxSeq + 1

ASSUME ConstantsAssumption ==
    MaxSeq \in Nat /\ MaxFaults \in Nat /\ HELD \in Nat \ {0} /\ Hazards \subseteq Kinds

VARIABLES
    seq,      \* the number of the last change
    held,     \* the last HELD changes
    stream,   \* the server's end of the line
    waking,   \* the stream was waiting when a change was told, and is not woken yet
    wire,     \* the events on their way
    mark,     \* the screen's seq, NoMark for null
    owed,     \* history: what the screen may see and has not heard, since it listens
    met,      \* history: what has happened to the screen
    faults

vars == <<seq, held, stream, waking, wire, mark, owed, met, faults>>

Changes == [n : 1..MaxSeq, seen : BOOLEAN]
Events  == [name : {"hello"}, n : 0..MaxSeq] \cup [name : {"change"}, change : Changes]
Change(c) == [name |-> "change", change |-> c]
Gone    == [pc |-> "none", cursor |-> 0, found |-> {}, woken |-> FALSE]

Owed == {owed[i] : i \in DOMAIN owed}

Happens(kinds) == kinds \subseteq Hazards /\ met' = met \cup kinds

Open      == stream.pc # "none"
Listening == Open \/ mark # NoMark
Waiting   == stream.pc \in {"again", "asleep"}

(* What the stream has yet to find, or will if the line comes back.        *)
Ahead(c) == c.n > (IF Open THEN stream.cursor ELSE mark) /\ c \notin stream.found

----------------------------------------------------------------------------
(* The feed.                                                               *)

(* What the deque lets go of when change n is put in it.                   *)
Evicted(n)      == {c \in held : c.n <= n - HELD}

(* listen, as far as it has the lock: numbered, held, and who is waiting.  *)
Tell(seen) ==
    LET c    == [n |-> seq + 1, seen |-> seen]
        lost == Evicted(seq + 1)
    IN  /\ seq < MaxSeq /\ seq' = seq + 1
        /\ held' = (held \ lost) \cup {c}
        /\ waking' = (waking \/ Waiting)
        /\ owed' = IF seen /\ Listening THEN Append(owed, c) ELSE owed
        /\ Happens({"horizon" : d \in {e \in lost : e \in Owed /\ Ahead(e)}})
        /\ UNCHANGED <<stream, wire, mark, faults>>

(* Its event is set when the lock is let go.                               *)
Wake ==
    /\ waking /\ waking' = FALSE
    /\ stream' = [stream EXCEPT !.woken = TRUE]
    /\ UNCHANGED <<seq, held, wire, mark, owed, met, faults>>

After(n) == {c \in held : c.n > n}

----------------------------------------------------------------------------
(* The stream.                                                             *)

(* The first time from where the feed is, and then from the screen's mark. *)
Connect_anew ==
    /\ ~Open /\ stream' = [Gone EXCEPT !.pc = "hello", !.cursor = seq]
    /\ UNCHANGED <<seq, held, waking, wire, mark, owed, met, faults>>
Connect ==
    /\ ~Open /\ stream' = [Gone EXCEPT !.pc = "hello", !.cursor = IF mark = NoMark THEN seq ELSE mark]
    /\ UNCHANGED <<seq, held, waking, wire, mark, owed, met, faults>>

Hello ==
    /\ stream.pc = "hello" /\ stream' = [stream EXCEPT !.pc = "look"]
    /\ wire' = Append(wire, [name |-> "hello", n |-> seq])
    /\ UNCHANGED <<seq, held, waking, mark, owed, met, faults>>

(* wait's two looks; between them it takes the lock to be put down.  One   *)
(* that has found something no longer waits.                               *)
Found ==
    /\ After(stream.cursor) # {}
    /\ stream' = [stream EXCEPT !.pc = "send", !.found = After(stream.cursor), !.woken = FALSE]
    /\ waking' = FALSE

Nothing(pc) ==
    /\ After(stream.cursor) = {}
    /\ stream' = [stream EXCEPT !.pc = pc] /\ UNCHANGED waking

Look ==
    /\ stream.pc = "look"
    /\ Found \/ Nothing("register")
    /\ UNCHANGED <<seq, held, wire, mark, owed, met, faults>>

Register_unlooked ==
    /\ stream.pc = "register" /\ stream' = [stream EXCEPT !.pc = "asleep"]
    /\ UNCHANGED <<seq, held, waking, wire, mark, owed, met, faults>>
Register ==
    /\ stream.pc = "register" /\ stream' = [stream EXCEPT !.pc = "again"]
    /\ UNCHANGED <<seq, held, waking, wire, mark, owed, met, faults>>

LookAgain ==
    /\ stream.pc = "again"
    /\ Found \/ Nothing("asleep")
    /\ UNCHANGED <<seq, held, wire, mark, owed, met, faults>>

(* Woken, or PING_SECONDS have gone by; then it looks.                     *)
Rise ==
    /\ stream.pc = "asleep"
    /\ stream' = [stream EXCEPT !.pc = "look", !.woken = FALSE] /\ waking' = FALSE
    /\ UNCHANGED <<seq, held, wire, mark, owed, met, faults>>

(* One by one, as far as the screen may see them.                          *)
First(cs) == {c \in cs : \A d \in cs : c.n <= d.n}

Send_skipping ==
    /\ stream.pc = "send"
    /\ stream' = [stream EXCEPT !.cursor = seq, !.found = {}, !.pc = "look"]
    /\ \E c \in First(stream.found) : wire' = IF c.seen THEN Append(wire, Change(c)) ELSE wire
    /\ UNCHANGED <<seq, held, waking, mark, owed, met, faults>>
Send ==
    /\ stream.pc = "send"
    /\ \E c \in First(stream.found) :
        /\ stream' = [stream EXCEPT !.cursor = c.n, !.found = @ \ {c},
                                    !.pc = IF stream.found = {c} THEN "look" ELSE "send"]
        /\ wire' = IF c.seen THEN Append(wire, Change(c)) ELSE wire
    /\ UNCHANGED <<seq, held, waking, mark, owed, met, faults>>

----------------------------------------------------------------------------
(* The screen.                                                             *)

HearHello ==
    /\ wire # <<>> /\ Head(wire).name = "hello" /\ wire' = Tail(wire)
    /\ mark' = Head(wire).n
    /\ UNCHANGED <<seq, held, stream, waking, owed, met, faults>>

(* What is owed is what it has not heard; heard out of turn, it stays.     *)
HearChange ==
    /\ wire # <<>> /\ Head(wire).name = "change" /\ wire' = Tail(wire)
    /\ mark' = Head(wire).change.n
    /\ owed' = IF owed # <<>> /\ Head(owed) = Head(wire).change THEN Tail(owed) ELSE owed
    /\ UNCHANGED <<seq, held, stream, waking, met, faults>>

(* The line drops, with what was on it.                                    *)
Missed(c) == IF mark = NoMark THEN {"early"} ELSE IF c.n <= mark THEN {"hello"}
             ELSE IF c \in held THEN {} ELSE {"horizon"}

Drop ==
    /\ Open /\ faults < MaxFaults /\ faults' = faults + 1
    /\ stream' = Gone /\ waking' = FALSE /\ wire' = <<>>
    /\ Happens(UNION {Missed(c) : c \in Owed})
    /\ UNCHANGED <<seq, held, mark, owed>>

(* Nothing of the feed is written down.                                    *)
Restart ==
    /\ faults < MaxFaults /\ faults' = faults + 1
    /\ Happens(IF Listening THEN {"restart"} ELSE {})
    /\ seq' = 0 /\ held' = {} /\ stream' = Gone /\ waking' = FALSE /\ wire' = <<>>
    /\ UNCHANGED <<mark, owed>>

----------------------------------------------------------------------------
Init ==
    /\ seq = 0 /\ held = {} /\ stream = Gone /\ waking = FALSE /\ wire = <<>>
    /\ mark = NoMark /\ owed = <<>> /\ met = {} /\ faults = 0

Stream == Connect \/ Hello \/ Look \/ Register \/ LookAgain \/ Rise \/ Send
Screen == HearHello \/ HearChange

Next ==
    \/ \E seen \in BOOLEAN : Tell(seen)
    \/ Wake \/ Stream \/ Screen \/ Drop \/ Restart

Spec == Init /\ [][Next]_vars

(* Streams go on and lines come back; nobody has to write.                 *)
FairSpec == Spec /\ WF_vars(Wake) /\ WF_vars(Stream) /\ WF_vars(Screen)

----------------------------------------------------------------------------
(* Properties.                                                             *)

TypeOK ==
    /\ seq \in 0..MaxSeq /\ held \subseteq Changes /\ \A c \in held : c.n \in seq - HELD + 1..seq
    /\ stream \in [pc : {"none", "hello", "look", "register", "again", "asleep", "send"},
                   cursor : 0..MaxSeq, found : SUBSET Changes, woken : BOOLEAN]
    /\ waking \in BOOLEAN /\ wire \in Seq(Events) /\ mark \in 0..MaxSeq \cup {NoMark}
    /\ owed \in Seq(Changes) /\ met \subseteq Hazards /\ faults \in 0..MaxFaults

(* The stream never sleeps through a change: what came between its look    *)
(* and its sleep it has seen, or it is being woken.                        *)
Awake == stream.pc = "asleep" => After(stream.cursor) = {} \/ stream.woken \/ waking

(* The screen hears of every change it may see, each in its turn and each  *)
(* in the end, however often its line drops, unless one of Kinds has       *)
(* happened to it.                                                         *)
Heard      == INSTANCE Tidings WITH due <- owed, lossy <- met # {}
Implements == Heard!Spec

(* "A client that drops comes back with ?since= and gets what it missed":  *)
(* what it has not heard is on the line, or is held and comes after the    *)
(* place the stream goes on from.                                          *)
ComesBack ==
    \A c \in Owed : \/ \E k \in DOMAIN wire : wire[k] = Change(c)
                   \/ c \in stream.found
                   \/ (c \in held /\ Ahead(c))

(* And so it is, until one of Kinds has happened.                          *)
NothingMissed == met = {} => ComesBack

(* A stream goes on from a place the feed has reached.                     *)
InReach == Open => stream.cursor <= seq
=============================================================================
