------------------------- MODULE ChangeFeed_proofs -------------------------
(* Proofs about ChangeFeed, for every value of its constants.              *)
EXTENDS ChangeFeed, SequenceTheorems, TLAPS

(***************************************************************************)
(* The invariant.  While nothing of Kinds has happened: the stream sends   *)
(* in order and has passed over nothing; the line is in order and behind   *)
(* the stream; what is owed is in order; and nothing is missed.            *)
(***************************************************************************)
Places == {"none", "hello", "look", "register", "again", "asleep", "send"}

OnStream ==
    /\ Open => stream.cursor <= seq
    /\ mark # NoMark => mark <= seq
    /\ \A c \in stream.found : stream.cursor <= c.n /\ c.n <= seq
    /\ \A c \in stream.found, d \in held : stream.cursor < d.n /\ d \notin stream.found => c.n < d.n

OnWire ==
    /\ ~Open => wire = <<>>
    /\ \A k \in 1..Len(wire) :
        /\ wire[k].name = "hello" => wire[k].n <= seq
        /\ wire[k].name = "change" => wire[k].change.n <= stream.cursor
    /\ \A j, k \in 1..Len(wire) :
        j < k /\ wire[j].name = "change" /\ wire[k].name = "change" => wire[j].change.n <= wire[k].change.n

InTurn ==
    /\ ~Listening => owed = <<>>
    /\ \A i \in 1..Len(owed) : owed[i].seen /\ owed[i].n <= seq
    /\ \A i, j \in 1..Len(owed) : i < j => owed[i].n < owed[j].n

Sound == met = {} => OnStream /\ OnWire /\ InTurn /\ ComesBack
Steady == stream.pc # "send" => stream.found = {}
IInv  == TypeOK /\ Steady /\ Sound

----------------------------------------------------------------------------
(* Types.                                                                  *)

LEMMA Numbers == MaxSeq \in Nat /\ MaxFaults \in Nat /\ HELD \in Nat \ {0} /\ NoMark \in Nat /\ NoMark \notin 0..MaxSeq
  BY ConstantsAssumption DEF NoMark

LEMMA GoneTyped ==
    /\ Gone \in [pc : Places, cursor : 0..MaxSeq, found : SUBSET Changes, woken : BOOLEAN]
    /\ Gone.pc = "none" /\ Gone.cursor = 0 /\ Gone.found = {} /\ Gone.woken = FALSE
    /\ <<>> \in Seq(Events) /\ <<>> \in Seq(Changes)
  <1>1. 0 \in 0..MaxSeq BY Numbers
  <1> QED BY <1>1, EmptySeq DEF Gone, Places

LEMMA InitTyped == Init => TypeOK /\ Steady
  <1> SUFFICES ASSUME Init PROVE TypeOK /\ Steady
    OBVIOUS
  <1>1. /\ stream \in [pc : Places, cursor : 0..MaxSeq, found : SUBSET Changes, woken : BOOLEAN]
        /\ wire \in Seq(Events) /\ owed \in Seq(Changes) /\ stream.found = {}
    BY GoneTyped DEF Init
  <1>2. 0 \in 0..MaxSeq /\ 0 \in 0..MaxFaults BY Numbers
  <1> QED BY <1>1, <1>2 DEF Init, TypeOK, Steady, Places

LEMMA StepTyped == TypeOK /\ Steady /\ [Next]_vars => TypeOK' /\ Steady'
  <1> SUFFICES ASSUME TypeOK, Steady, [Next]_vars PROVE TypeOK' /\ Steady'
    OBVIOUS
  <1> USE Numbers DEF TypeOK, Steady
  <1>1. ASSUME NEW seen \in BOOLEAN, Tell(seen) PROVE TypeOK' /\ Steady'
    <2> DEFINE c == [n |-> seq + 1, seen |-> seen]
    <2>1. c \in Changes /\ c.n = seq + 1 /\ seq' = seq + 1
      BY <1>1 DEF Tell, Changes
    <2>2. owed' \in Seq(Changes)
      BY <1>1, <2>1, AppendProperties DEF Tell
    <2>3. held' \subseteq Changes /\ \A d \in held' : d.n \in seq' - HELD + 1..seq'
      BY <1>1, <2>1 DEF Tell, Evicted, Changes
    <2>4. seq' \in 0..MaxSeq /\ met' \subseteq Hazards /\ waking' \in BOOLEAN
      BY <1>1 DEF Tell, Happens, Waiting
    <2> QED BY <1>1, <2>2, <2>3, <2>4 DEF Tell
  <1>2. CASE Wake
    BY <1>2 DEF Wake
  <1>3. CASE Connect
    BY <1>3 DEF Connect, Gone
  <1>4. CASE Hello
    <2> DEFINE e == [name |-> "hello", n |-> seq]
    <2>1. e \in Events BY DEF Events
    <2>2. wire' \in Seq(Events)
      BY <1>4, <2>1, AppendProperties DEF Hello
    <2> QED BY <1>4, <2>2 DEF Hello
  <1>5. CASE Look \/ LookAgain
    <2>1. /\ stream' \in [pc : Places, cursor : 0..MaxSeq, found : SUBSET Changes, woken : BOOLEAN]
          /\ stream'.pc # "send" => stream'.found = {}
      <3>1. CASE Found BY <3>1 DEF Found, After, Places
      <3>2. CASE Nothing("register") \/ Nothing("asleep") BY <1>5, <3>2 DEF Look, LookAgain, Nothing, Places
      <3> QED BY <1>5, <3>1, <3>2 DEF Look, LookAgain
    <2>2. waking' \in BOOLEAN /\ UNCHANGED <<seq, held, wire, mark, owed, met, faults>>
      BY <1>5 DEF Look, LookAgain, Found, Nothing
    <2> QED BY <2>1, <2>2 DEF Places
  <1>6. CASE Register
    BY <1>6 DEF Register
  <1>8. CASE Rise
    BY <1>8 DEF Rise
  <1>9. CASE Send
    <2>1. PICK c \in First(stream.found) : Send!2!(c)
      BY <1>9 DEF Send
    <2>2. c \in Changes /\ c \in stream.found BY DEF First
    <2>3. Change(c) \in Events BY <2>2 DEF Change, Events
    <2>4. wire' \in Seq(Events)
      BY <2>1, <2>3, AppendProperties
    <2>5. c.n \in 0..MaxSeq BY <2>2 DEF Changes
    <2>6. stream' \in [pc : Places, cursor : 0..MaxSeq, found : SUBSET Changes, woken : BOOLEAN]
      BY <2>1, <2>5 DEF Places
    <2>7. stream.found # {c} => stream'.pc = "send"
      BY <2>1
    <2>8. stream'.pc # "send" => stream'.found = {}
      BY <2>1, <2>7
    <2> QED BY <1>9, <2>4, <2>6, <2>8 DEF Send, Places
  <1>10. CASE HearHello
    <2>1. wire # <<>> /\ Head(wire) \in Events /\ Tail(wire) \in Seq(Events)
      BY <1>10, HeadTailProperties DEF HearHello
    <2>2. Head(wire).n \in 0..MaxSeq
      BY <1>10, <2>1 DEF HearHello, Events
    <2> QED BY <1>10, <2>1, <2>2 DEF HearHello
  <1>11. CASE HearChange
    <2>1. wire # <<>> /\ Head(wire) \in Events /\ Tail(wire) \in Seq(Events)
      BY <1>11, HeadTailProperties DEF HearChange
    <2>2. Head(wire).change.n \in 0..MaxSeq
      BY <1>11, <2>1 DEF HearChange, Events, Changes
    <2>3. owed' \in Seq(Changes)
      BY <1>11, HeadTailProperties DEF HearChange
    <2> QED BY <1>11, <2>1, <2>2, <2>3 DEF HearChange
  <1>12. CASE Drop \/ Restart
    <2>1. /\ stream' \in [pc : Places, cursor : 0..MaxSeq, found : SUBSET Changes, woken : BOOLEAN]
          /\ wire' \in Seq(Events) /\ stream'.found = {} /\ waking' = FALSE
      BY <1>12, GoneTyped DEF Drop, Restart
    <2>2. faults' \in 0..MaxFaults /\ met' \subseteq Hazards
      BY <1>12 DEF Drop, Restart, Happens
    <2>3. seq' \in 0..MaxSeq /\ ((held' = held /\ seq' = seq) \/ held' = {})
      BY <1>12 DEF Drop, Restart
    <2>4. UNCHANGED <<mark, owed>> BY <1>12 DEF Drop, Restart
    <2> QED BY <2>1, <2>2, <2>3, <2>4 DEF Places
  <1>14. CASE UNCHANGED vars
    BY <1>14 DEF vars
  <1> QED
    BY <1>1, <1>2, <1>3, <1>4, <1>5, <1>6, <1>8, <1>9, <1>10, <1>11, <1>12, <1>14
    DEF Next, Stream, Screen

(* What the feed, the line and the screen hold is always of its type; the  *)
(* feed holds the last HELD changes and no other (listen's deque).         *)
THEOREM TypeCorrect == Spec => []TypeOK
  <1>1. TypeOK /\ Steady /\ [Next]_vars => (TypeOK /\ Steady)'
    BY StepTyped
  <1> QED BY InitTyped, <1>1, PTL DEF Spec

----------------------------------------------------------------------------
(* Sleep.                                                                  *)

LEMMA StaysAwake == TypeOK /\ Awake /\ [Next]_vars => Awake'
  <1> SUFFICES ASSUME TypeOK, Awake, [Next]_vars, stream'.pc = "asleep"
               PROVE  After(stream.cursor)' = {} \/ stream'.woken \/ waking'
    BY DEF Awake
  <1> USE DEF TypeOK, Awake
  <1>1. ASSUME NEW seen \in BOOLEAN, Tell(seen) PROVE waking'
    BY <1>1 DEF Tell, Waiting
  <1>2. CASE Wake
    BY <1>2 DEF Wake
  <1>3. CASE Look \/ LookAgain
    <2>1. After(stream.cursor) = {} /\ held' = held /\ stream'.cursor = stream.cursor
      BY <1>3 DEF Look, LookAgain, Found, Nothing
    <2> QED BY <2>1 DEF After
  <1>4. CASE Connect \/ Hello \/ Register \/ Rise
    BY <1>4 DEF Connect, Hello, Register, Rise, Gone
  <1>5. CASE Send
    BY <1>5 DEF Send
  <1>6. CASE Screen \/ UNCHANGED vars
    <2>1. UNCHANGED <<held, stream, waking>>
      BY <1>6 DEF Screen, HearHello, HearChange, vars
    <2> QED BY <2>1 DEF After
  <1>7. CASE Drop \/ Restart
    BY <1>7 DEF Drop, Restart, Gone
  <1> QED BY <1>1, <1>2, <1>3, <1>4, <1>5, <1>6, <1>7 DEF Next, Stream

(* No stream sleeps through a change, however the thread that tells it and *)
(* the stream's two looks fall together (wait's second look).              *)
THEOREM NeverSleepsThrough == Spec => []Awake
  <1>1. Init => Awake
    BY DEF Init, Awake, Gone
  <1>2. TypeOK /\ Awake /\ [Next]_vars => Awake'
    BY StaysAwake
  <1> QED BY TypeCorrect, <1>1, <1>2, PTL DEF Spec

----------------------------------------------------------------------------
(* What is missed.                                                         *)

LEMMA OwedOf == ASSUME TypeOK PROVE \A c : c \in Owed <=> \E i \in 1..Len(owed) : owed[i] = c
  BY DEF Owed, TypeOK

(* A step that only moves the stream on, or lets it wait.                  *)
LEMMA SoundWaiting ==
    ASSUME TypeOK, Steady, Sound, Wake \/ Look \/ Register \/ LookAgain \/ Rise
    PROVE  Sound'
  <1> SUFFICES ASSUME met = {}, met' = {} PROVE OnStream' /\ OnWire' /\ InTurn' /\ ComesBack'
    BY DEF Sound, Wake, Look, Register, LookAgain, Rise
  <1> USE DEF Sound, TypeOK
  <1>1. UNCHANGED <<seq, held, wire, mark, owed>> /\ stream'.cursor = stream.cursor
    BY DEF Wake, Look, Register, LookAgain, Rise, Found, Nothing
  <1>2. Open' = Open
    BY DEF Wake, Look, Register, LookAgain, Rise, Found, Nothing, Open, Waiting
  <1>3. CASE stream'.found = stream.found
    <2>1. OnStream' BY <1>1, <1>2, <1>3 DEF OnStream
    <2>2. OnWire' BY <1>1, <1>2 DEF OnWire
    <2>3. InTurn' BY <1>1, <1>2 DEF InTurn, Listening
    <2>4. ComesBack' BY <1>1, <1>2, <1>3 DEF ComesBack, Ahead, Owed
    <2> QED BY <2>1, <2>2, <2>3, <2>4
  <1>4. CASE stream'.found # stream.found
    <2>1. stream'.found = {c \in held : c.n > stream.cursor} /\ stream.found = {} /\ Open
      BY <1>4 DEF Wake, Look, Register, LookAgain, Rise, Found, Nothing, After, Steady, Open
    <2>2. OnStream' BY <1>1, <1>2, <2>1 DEF OnStream, Changes
    <2>3. OnWire' BY <1>1, <1>2 DEF OnWire
    <2>4. InTurn' BY <1>1, <1>2 DEF InTurn, Listening
    <2>5. ComesBack' BY <1>1, <1>2, <2>1 DEF ComesBack, Ahead, Owed
    <2> QED BY <2>2, <2>3, <2>4, <2>5
  <1> QED BY <1>3, <1>4

LEMMA SoundTell ==
    ASSUME TypeOK, Steady, Sound, NEW seen \in BOOLEAN, Tell(seen)
    PROVE  Sound'
  <1> DEFINE c == [n |-> seq + 1, seen |-> seen]
  <1> SUFFICES ASSUME met' = {} PROVE OnStream' /\ OnWire' /\ InTurn' /\ ComesBack'
    BY DEF Sound
  <1> USE Numbers
  <1>0. met = {} /\ OnStream /\ OnWire /\ InTurn /\ ComesBack
    BY DEF Sound, Tell, Happens
  <1>1. /\ seq' = seq + 1 /\ seq < MaxSeq /\ held' = (held \ Evicted(seq + 1)) \cup {c}
        /\ c \in Changes /\ c.n = seq + 1 /\ c.seen = seen
        /\ UNCHANGED <<stream, wire, mark>>
    BY DEF Tell, Changes, TypeOK
  <1>2. Open' = Open /\ Listening' = Listening
    BY <1>1 DEF Open, Listening
  <1>3. OnStream'
    BY <1>0, <1>1, <1>2 DEF OnStream, TypeOK, Changes
  <1>4. OnWire'
    <2>1. \A k \in 1..Len(wire) : wire[k].name = "hello" => wire[k].n \in 0..MaxSeq
      BY ElementOfSeq DEF TypeOK, Events
    <2> QED BY <1>0, <1>1, <1>2, <2>1 DEF OnWire, TypeOK
  <1>5. CASE owed' = owed
    <2>1. InTurn'
      <3>1. \A i \in 1..Len(owed) : owed[i] \in Changes
        BY ElementOfSeq DEF TypeOK
      <3> QED BY <1>0, <1>1, <1>2, <1>5, <3>1 DEF InTurn, TypeOK, Changes
    <2>2. \A d \in Evicted(seq + 1) : ~(d \in Owed /\ Ahead(d))
      BY <1>0 DEF Tell, Happens
    <2>3. ComesBack'
      BY <1>0, <1>1, <1>2, <1>5, <2>2 DEF ComesBack, Ahead, Owed
    <2> QED BY <1>3, <1>4, <2>1, <2>3
  <1>6. CASE owed' # owed
    <2>1. seen /\ Listening /\ owed' = Append(owed, c)
      BY <1>6 DEF Tell
    <2>2. /\ Len(owed') = Len(owed) + 1 /\ Len(owed) \in Nat
          /\ \A i \in 1..Len(owed) : owed'[i] = owed[i] /\ owed[i] \in Changes
          /\ owed'[Len(owed) + 1] = c /\ owed' \in Seq(Changes)
      BY <1>1, <2>1, AppendProperties, ElementOfSeq, LenProperties DEF TypeOK
    <2>3. InTurn'
      <3>1. \A i \in 1..Len(owed') : owed'[i].seen /\ owed'[i].n <= seq'
        <4> SUFFICES ASSUME NEW i \in 1..Len(owed') PROVE owed'[i].seen /\ owed'[i].n <= seq'
          OBVIOUS
        <4>1. CASE i = Len(owed) + 1
          <5>1. owed'[i] = c BY <2>2, <4>1
          <5>2. c.seen BY <2>1
          <5>3. c.n <= seq' BY <1>1 DEF TypeOK
          <5> QED BY <5>1, <5>2, <5>3
        <4>2. CASE i \in 1..Len(owed)
          <5>1. owed'[i] = owed[i] /\ owed[i] \in Changes BY <2>2, <4>2
          <5>2. owed[i].seen BY <1>0, <4>2 DEF InTurn
          <5>3. owed[i].n <= seq' BY <1>0, <1>1, <4>2, <5>1 DEF InTurn, TypeOK, Changes
          <5> QED BY <5>1, <5>2, <5>3
        <4> QED BY <2>2, <4>1, <4>2
      <3>2. ASSUME NEW i \in 1..Len(owed'), NEW j \in 1..Len(owed'), i < j PROVE owed'[i].n < owed'[j].n
        <4>1. i \in 1..Len(owed) BY <2>2, <3>2
        <4>2. owed[i].n <= seq /\ owed[i].n \in Nat BY <1>0, <2>2, <4>1 DEF InTurn, Changes
        <4>3. CASE j = Len(owed) + 1 BY <1>1, <2>2, <4>1, <4>2, <4>3 DEF TypeOK
        <4>4. CASE j \in 1..Len(owed) BY <1>0, <2>2, <3>2, <4>1, <4>4 DEF InTurn
        <4> QED BY <2>2, <4>3, <4>4
      <3> QED BY <1>2, <2>1, <3>1, <3>2 DEF InTurn
    <2>4. Owed' = Owed \cup {c}
      <3>1. DOMAIN owed' = 1..Len(owed) + 1 /\ DOMAIN owed = 1..Len(owed)
        BY <2>2, LenProperties DEF TypeOK
      <3> QED BY <2>2, <3>1 DEF Owed
    <2>5. \A d \in Evicted(seq + 1) : ~(d \in Owed /\ Ahead(d))
      BY <1>0 DEF Tell, Happens
    <2>6. Ahead(c)
      <3>1. c.n > seq BY <1>1 DEF TypeOK
      <3>2. c \notin stream.found BY <1>0, <1>1 DEF OnStream, TypeOK
      <3>3. CASE Open BY <1>0, <3>1, <3>2, <3>3, <1>1 DEF OnStream, Ahead, TypeOK
      <3>4. CASE ~Open
        <4>1. mark # NoMark BY <2>1, <3>4 DEF Listening
        <4> QED BY <1>0, <3>1, <3>2, <3>4, <4>1, <1>1 DEF OnStream, Ahead, TypeOK
      <3> QED BY <3>3, <3>4
    <2>7. ComesBack'
      <3> SUFFICES ASSUME NEW d \in Owed'
                   PROVE  \/ \E k \in DOMAIN wire : wire[k] = Change(d)
                          \/ d \in stream.found
                          \/ (d \in held' /\ Ahead(d))
        BY <1>1, <1>2 DEF ComesBack, Ahead
      <3>1. CASE d = c BY <3>1, <2>6, <1>1
      <3>2. CASE d \in Owed BY <3>2, <1>0, <1>1, <2>5 DEF ComesBack
      <3> QED BY <2>4, <3>1, <3>2
    <2> QED BY <1>3, <1>4, <2>3, <2>7
  <1> QED BY <1>5, <1>6

(* The line comes and goes.                                                *)
LEMMA SoundLine ==
    ASSUME TypeOK, Steady, Sound, Connect \/ Drop \/ Restart
    PROVE  Sound'
  <1> SUFFICES ASSUME met' = {} PROVE OnStream' /\ OnWire' /\ InTurn' /\ ComesBack'
    BY DEF Sound
  <1> USE Numbers
  <1>0. met = {} /\ OnStream /\ OnWire /\ InTurn /\ ComesBack
    BY DEF Sound, Connect, Drop, Restart, Happens
  <1>1. CASE Connect
    <2>1. /\ ~Open /\ Open' /\ stream.found = {} /\ stream'.found = {} /\ wire = <<>>
          /\ stream'.cursor = (IF mark = NoMark THEN seq ELSE mark)
          /\ UNCHANGED <<seq, held, wire, mark, owed>>
      BY <1>0, <1>1 DEF Connect, Open, Gone, Steady, OnWire
    <2>2. OnStream' BY <1>0, <2>1 DEF OnStream, TypeOK
    <2>3. OnWire' BY <2>1, EmptySeq DEF OnWire
    <2>4. InTurn' BY <1>0, <2>1 DEF InTurn, Listening
    <2>5. ComesBack'
      <3>1. CASE mark = NoMark
        <4>1. Owed' = {} BY EmptySeq, <1>0, <2>1, <3>1 DEF InTurn, Listening, Owed
        <4> QED BY <4>1 DEF ComesBack
      <3>2. CASE mark # NoMark
        BY <1>0, <2>1, <3>2 DEF ComesBack, Ahead, Owed
      <3> QED BY <3>1, <3>2
    <2> QED BY <2>2, <2>3, <2>4, <2>5
  <1>2. CASE Drop
    <2>1. /\ Open /\ ~Open' /\ stream'.found = {} /\ wire' = <<>>
          /\ UNCHANGED <<seq, held, mark, owed>>
      BY <1>2, GoneTyped DEF Drop, Open
    <2>2. OnStream' BY <1>0, <2>1 DEF OnStream
    <2>3. OnWire' BY <2>1, EmptySeq DEF OnWire
    <2>4. \A d \in Owed : Missed(d) = {}
      BY <1>2 DEF Drop, Happens
    <2>5. \A d \in Owed : mark # NoMark /\ ~(d.n <= mark) /\ d \in held
      BY <2>4 DEF Missed
    <2>6. InTurn'
      <3>1. mark = NoMark => owed = <<>>
        <4>1. ASSUME owed # <<>> PROVE owed[1] \in Owed
          BY <4>1, OwedOf, LenProperties, EmptySeq DEF TypeOK
        <4> QED BY <4>1, <2>5
      <3> QED BY <1>0, <2>1, <3>1 DEF InTurn, Listening
    <2>7. ComesBack'
      <3>1. \A d \in Owed : d.n \in Nat BY <2>5 DEF TypeOK, Changes
      <3>2. mark \in Nat BY DEF TypeOK
      <3> QED BY <2>1, <2>5, <3>1, <3>2 DEF ComesBack, Ahead, Owed
    <2> QED BY <2>2, <2>3, <2>6, <2>7
  <1>3. CASE Restart
    <2>1. ~Listening BY <1>3 DEF Restart, Happens
    <2>2. /\ owed' = <<>> /\ mark' = NoMark /\ ~Open' /\ stream'.found = {} /\ wire' = <<>>
      BY <1>0, <1>3, <2>1, GoneTyped DEF Restart, Listening, InTurn, Open
    <2>3. OnStream' BY <2>2 DEF OnStream
    <2>4. OnWire' BY <2>2, EmptySeq DEF OnWire
    <2>5. InTurn' BY <2>2, EmptySeq DEF InTurn
    <2>6. ComesBack' BY <2>2, EmptySeq DEF ComesBack, Owed
    <2> QED BY <2>3, <2>4, <2>5, <2>6
  <1> QED BY <1>1, <1>2, <1>3

(* The stream says hello, and sends.                                       *)
LEMMA SoundSending ==
    ASSUME TypeOK, Steady, Sound, Hello \/ Send
    PROVE  Sound'
  <1> SUFFICES ASSUME met' = {} PROVE OnStream' /\ OnWire' /\ InTurn' /\ ComesBack'
    BY DEF Sound
  <1> USE Numbers
  <1>0. /\ met = {} /\ OnStream /\ OnWire /\ InTurn /\ ComesBack
        /\ Open /\ Open' /\ UNCHANGED <<seq, held, mark, owed>>
    <2>1. met = {} /\ UNCHANGED <<seq, held, mark, owed>> BY DEF Hello, Send
    <2>2. Open /\ Open' BY DEF Hello, Send, Open, TypeOK
    <2> QED BY <2>1, <2>2 DEF Sound
  <1>1. InTurn' BY <1>0 DEF InTurn, Listening
  <1>2. \A k \in 1..Len(wire) : wire[k] \in Events
    BY ElementOfSeq DEF TypeOK
  <1>3. CASE Hello
    <2> DEFINE e == [name |-> "hello", n |-> seq]
    <2>1. wire' = Append(wire, e) /\ e \in Events /\ e.name = "hello" /\ e.n = seq
      BY <1>3 DEF Hello, Events, TypeOK
    <2>2. /\ Len(wire) \in Nat /\ Len(wire') = Len(wire) + 1 /\ wire'[Len(wire) + 1] = e
          /\ \A k \in 1..Len(wire) : wire'[k] = wire[k]
          /\ DOMAIN wire = 1..Len(wire) /\ DOMAIN wire' = 1..Len(wire')
      BY <2>1, AppendProperties, LenProperties DEF TypeOK
    <2>3. stream'.cursor = stream.cursor /\ stream'.found = stream.found
      BY <1>3 DEF Hello, TypeOK
    <2>4. OnStream' BY <1>0, <2>3 DEF OnStream
    <2>5. OnWire' BY <1>0, <2>1, <2>2, <2>3 DEF OnWire, TypeOK
    <2>6. ComesBack' BY <1>0, <2>2, <2>3 DEF ComesBack, Ahead, Owed
    <2> QED BY <1>1, <2>4, <2>5, <2>6
  <1>4. CASE Send
    <2>1. PICK c \in First(stream.found) : Send!2!(c)
      BY <1>4 DEF Send
    <2>2. /\ c \in stream.found /\ c \in Changes /\ c.n \in Nat /\ \A d \in stream.found : c.n <= d.n
          /\ stream'.cursor = c.n /\ stream'.found = stream.found \ {c}
          /\ stream.cursor \in Nat /\ stream.cursor <= c.n /\ c.n <= seq
      BY <1>0, <2>1 DEF First, Changes, TypeOK, OnStream
    <2>3. OnStream'
      <3>1. \A d \in held : d.n \in Nat BY DEF TypeOK, Changes
      <3>2. \A d \in stream.found : d.n \in Nat BY DEF TypeOK, Changes
      <3> QED BY <1>0, <2>2, <3>1, <3>2 DEF OnStream
    <2>4. CASE wire' = wire
      <3>1. OnWire'
        <4>1. \A k \in 1..Len(wire) : wire[k].name = "change" => wire[k].change.n \in Nat
          BY <1>2 DEF Events, Changes
        <4> QED BY <1>0, <2>2, <2>4, <4>1 DEF OnWire
      <3>2. c \notin Owed \/ \E k \in DOMAIN wire : wire[k] = Change(c)
        <4>1. CASE c.seen
          <5>1. wire' = Append(wire, Change(c)) BY <2>1, <4>1
          <5>2. Change(c) \in Events BY <2>2 DEF Change, Events
          <5>3. Len(wire') = Len(wire) + 1 /\ Len(wire) \in Nat
            BY <5>1, <5>2, AppendProperties, LenProperties DEF TypeOK
          <5> QED BY <5>3, <2>4
        <4>2. CASE ~c.seen BY <4>2, <1>0, OwedOf DEF InTurn
        <4> QED BY <4>1, <4>2
      <3>3. ComesBack'
        <4> SUFFICES ASSUME NEW d \in Owed
                     PROVE  \/ \E k \in DOMAIN wire : wire[k] = Change(d)
                            \/ d \in stream'.found
                            \/ (d \in held /\ d.n > c.n /\ d \notin stream'.found)
          BY <1>0, <2>2, <2>4 DEF ComesBack, Ahead, Owed
        <4>1. CASE d = c BY <4>1, <3>2
        <4>2. CASE d \in held /\ Ahead(d)
          <5>1. stream.cursor < d.n /\ d \notin stream.found /\ d.n \in Nat
            BY <1>0, <4>2 DEF Ahead, TypeOK, Changes
          <5> QED BY <1>0, <2>2, <4>2, <5>1 DEF OnStream
        <4> QED BY <1>0, <2>2, <4>1, <4>2 DEF ComesBack
      <3> QED BY <1>1, <2>3, <3>1, <3>3
    <2>5. CASE wire' # wire
      <3>1. wire' = Append(wire, Change(c)) BY <2>1, <2>5
      <3>2. Change(c) \in Events /\ Change(c).name = "change" /\ Change(c).change = c
        BY <2>2 DEF Change, Events
      <3>3. /\ Len(wire) \in Nat /\ Len(wire') = Len(wire) + 1 /\ wire'[Len(wire) + 1] = Change(c)
            /\ \A k \in 1..Len(wire) : wire'[k] = wire[k]
            /\ DOMAIN wire = 1..Len(wire) /\ DOMAIN wire' = 1..Len(wire')
        BY <3>1, <3>2, AppendProperties, LenProperties DEF TypeOK
      <3>4. OnWire'
        <4>1. \A k \in 1..Len(wire) : wire[k].name = "change" => wire[k].change.n \in Nat
          BY <1>2 DEF Events, Changes
        <4>2. \A k \in 1..Len(wire') :
                /\ wire'[k].name = "hello" => wire'[k].n <= seq
                /\ wire'[k].name = "change" => wire'[k].change.n <= c.n
          BY <1>0, <2>2, <3>2, <3>3, <4>1 DEF OnWire
        <4>3. ASSUME NEW j \in 1..Len(wire'), NEW k \in 1..Len(wire'), j < k,
                     wire'[j].name = "change", wire'[k].name = "change"
              PROVE  wire'[j].change.n <= wire'[k].change.n
          <5>1. j \in 1..Len(wire) BY <3>3, <4>3
          <5>2. CASE k \in 1..Len(wire) BY <1>0, <3>3, <4>3, <5>1, <5>2 DEF OnWire
          <5>3. CASE k = Len(wire) + 1 BY <3>2, <3>3, <4>2, <4>3, <5>1, <5>3
          <5> QED BY <3>3, <5>2, <5>3
        <4> QED BY <1>0, <2>2, <4>2, <4>3 DEF OnWire
      <3>5. ComesBack'
        <4> SUFFICES ASSUME NEW d \in Owed
                     PROVE  \/ \E k \in DOMAIN wire' : wire'[k] = Change(d)
                            \/ d \in stream'.found
                            \/ (d \in held /\ d.n > c.n /\ d \notin stream'.found)
          BY <1>0, <2>2 DEF ComesBack, Ahead, Owed
        <4>1. CASE d = c BY <4>1, <3>3
        <4>2. CASE d \in held /\ Ahead(d)
          <5>1. stream.cursor < d.n /\ d \notin stream.found /\ d.n \in Nat
            BY <1>0, <4>2 DEF Ahead, TypeOK, Changes
          <5> QED BY <1>0, <2>2, <4>2, <5>1 DEF OnStream
        <4>3. CASE \E k \in DOMAIN wire : wire[k] = Change(d) BY <4>3, <3>3
        <4> QED BY <1>0, <2>2, <4>1, <4>2, <4>3 DEF ComesBack
      <3> QED BY <1>1, <2>3, <3>4, <3>5
    <2> QED BY <2>4, <2>5
  <1> QED BY <1>3, <1>4

(* The screen hears, in turn.                                              *)
LEMMA SoundHearing ==
    ASSUME TypeOK, Steady, Sound, HearHello \/ HearChange
    PROVE  Sound'
  <1> SUFFICES ASSUME met' = {} PROVE OnStream' /\ OnWire' /\ InTurn' /\ ComesBack'
    BY DEF Sound
  <1> USE Numbers
  <1>0. /\ met = {} /\ OnStream /\ OnWire /\ InTurn /\ ComesBack
        /\ wire # <<>> /\ wire' = Tail(wire) /\ UNCHANGED <<seq, held, stream>> /\ Open
    BY DEF Sound, HearHello, HearChange, OnWire
  <1>1. /\ Len(wire) \in Nat /\ Len(wire) > 0 /\ Head(wire) = wire[1] /\ Len(wire') = Len(wire) - 1
        /\ \A k \in 1..Len(wire') : wire'[k] = wire[k + 1]
        /\ DOMAIN wire = 1..Len(wire) /\ DOMAIN wire' = 1..Len(wire')
        /\ \A k \in 1..Len(wire) : wire[k] \in Events
    BY <1>0, HeadTailProperties, LenProperties, EmptySeq, ElementOfSeq DEF TypeOK
  <1>2. OnWire'
    <2>1. \A k \in 1..Len(wire') : k + 1 \in 1..Len(wire) BY <1>1
    <2> QED BY <1>0, <1>1, <2>1 DEF OnWire, Open
  <1>3. OnStream'
    <2>1. wire[1].name = "hello" => wire[1].n <= seq BY <1>0, <1>1 DEF OnWire
    <2>2. wire[1].name = "change" => wire[1].change.n <= seq
      <3>1. wire[1].name = "change" => wire[1].change.n \in Nat BY <1>1 DEF Events, Changes
      <3> QED BY <1>0, <1>1, <3>1 DEF OnWire, OnStream, TypeOK
    <2>3. mark' <= seq
      BY <1>1, <2>1, <2>2 DEF HearHello, HearChange
    <2> QED BY <1>0, <2>3 DEF OnStream, Open
  <1>4. ASSUME NEW d \in Owed, wire[1] # Change(d)
        PROVE  \/ \E k \in DOMAIN wire' : wire'[k] = Change(d)
               \/ d \in stream'.found
               \/ (d \in held' /\ Ahead(d)')
    <2>1. CASE \E k \in DOMAIN wire : wire[k] = Change(d)
      <3>1. PICK k \in 1..Len(wire) : wire[k] = Change(d) BY <2>1, <1>1
      <3>2. k - 1 \in 1..Len(wire') /\ (k - 1) + 1 = k BY <1>1, <1>4, <3>1
      <3>3. wire'[k - 1] = Change(d) BY <1>1, <3>1, <3>2
      <3> QED BY <1>1, <3>2, <3>3
    <2>2. CASE d \in held /\ Ahead(d) BY <1>0, <2>2 DEF Ahead, Open
    <2> QED BY <1>0, <2>1, <2>2 DEF ComesBack
  <1>5. CASE HearHello
    <2>1. owed' = owed BY <1>5 DEF HearHello
    <2>2. InTurn' BY <1>0, <2>1 DEF InTurn, Listening, Open
    <2>3. \A d \in Owed : wire[1] # Change(d) BY <1>1, <1>5 DEF HearHello, Change
    <2>4. ComesBack' BY <1>4, <2>1, <2>3 DEF ComesBack, Owed
    <2> QED BY <1>2, <1>3, <2>2, <2>4
  <1>6. CASE HearChange
    <2> DEFINE c == wire[1].change
    <2>1. wire[1].name = "change" /\ wire[1] = Change(c) /\ c \in Changes /\ c.n \in Nat /\ c.n <= stream.cursor
      BY <1>0, <1>1, <1>6 DEF HearChange, Events, Change, OnWire, Changes
    <2>2. owed' = (IF owed # <<>> /\ Head(owed) = c THEN Tail(owed) ELSE owed)
      BY <1>1, <1>6 DEF HearChange
    <2>3. /\ Len(owed) \in Nat /\ DOMAIN owed = 1..Len(owed)
          /\ \A i \in 1..Len(owed) : owed[i] \in Changes /\ owed[i].n \in Nat
      <3>1. \A i \in 1..Len(owed) : owed[i] \in Changes BY ElementOfSeq DEF TypeOK
      <3>2. \A d \in Changes : d.n \in Nat BY DEF Changes
      <3> QED BY <3>1, <3>2, LenProperties DEF TypeOK
    <2>4. CASE owed # <<>> /\ Head(owed) = c
      <3>1. /\ owed' = Tail(owed) /\ Len(owed) > 0 /\ owed[1] = c /\ Len(owed') = Len(owed) - 1
            /\ \A i \in 1..Len(owed') : owed'[i] = owed[i + 1] /\ i + 1 \in 1..Len(owed)
            /\ DOMAIN owed' = 1..Len(owed')
        BY <2>2, <2>3, <2>4, HeadTailProperties, LenProperties, EmptySeq DEF TypeOK
      <3>2. InTurn' BY <1>0, <3>1, <2>3 DEF InTurn, Listening, Open
      <3>3. \A d \in Owed' : d \in Owed /\ d # c
        <4>1. \A i \in 1..Len(owed') : owed[i + 1].n > owed[1].n
          BY <1>0, <3>1, <2>3 DEF InTurn
        <4>2. \A i \in 1..Len(owed') : owed'[i] # c BY <3>1, <4>1, <2>3
        <4> QED BY <3>1, <4>2, <2>3 DEF Owed
      <3>4. \A d \in Owed' : wire[1] # Change(d) BY <2>1, <3>3 DEF Change
      <3>5. ComesBack' BY <1>4, <3>3, <3>4 DEF ComesBack
      <3> QED BY <1>2, <1>3, <3>2, <3>5
    <2>5. CASE ~(owed # <<>> /\ Head(owed) = c)
      <3>1. owed' = owed BY <2>2, <2>5
      <3>2. InTurn' BY <1>0, <3>1 DEF InTurn, Listening, Open
      <3>3. c \notin Owed
        <4> SUFFICES ASSUME c \in Owed PROVE FALSE
          OBVIOUS
        <4>1. PICK i \in 1..Len(owed) : owed[i] = c BY <2>3 DEF Owed
        <4>2. owed # <<>> /\ Head(owed) = owed[1] /\ 1 \in 1..Len(owed)
          BY <4>1, <2>3, EmptySeq, HeadTailProperties DEF TypeOK
        <4>3. i # 1 /\ owed[1].n < c.n /\ owed[1] \in Owed
          BY <1>0, <2>3, <2>5, <4>1, <4>2 DEF InTurn, Owed
        <4>4. CASE \E k \in DOMAIN wire : wire[k] = Change(owed[1])
          <5>1. PICK k \in 1..Len(wire) : wire[k] = Change(owed[1]) BY <4>4, <1>1
          <5>2. wire[k].name = "change" /\ wire[k].change.n = owed[1].n BY <5>1 DEF Change
          <5>3. k # 1 BY <4>3, <5>2, <2>3, <4>2
          <5> QED BY <1>0, <1>1, <2>1, <4>3, <5>2, <5>3, <2>3 DEF OnWire
        <4>5. CASE owed[1] \in stream.found
          BY <1>0, <2>1, <2>3, <4>2, <4>3, <4>5 DEF OnStream, TypeOK
        <4>6. CASE owed[1] \in held /\ Ahead(owed[1])
          BY <1>0, <2>1, <2>3, <4>2, <4>3, <4>6 DEF Ahead, TypeOK
        <4> QED BY <1>0, <4>3, <4>4, <4>5, <4>6 DEF ComesBack
      <3>4. \A d \in Owed : wire[1] # Change(d) BY <2>1, <3>3 DEF Change
      <3>5. ComesBack' BY <1>4, <3>1, <3>4 DEF ComesBack, Owed
      <3> QED BY <1>2, <1>3, <3>2, <3>5
    <2> QED BY <2>4, <2>5
  <1> QED BY <1>5, <1>6

LEMMA InitSound == Init => Sound
  BY GoneTyped, EmptySeq, Numbers DEF Init, Sound, OnStream, OnWire, InTurn, ComesBack, Open, Listening, Owed, TypeOK

LEMMA StepSound == IInv /\ [Next]_vars => Sound'
  <1> SUFFICES ASSUME IInv, [Next]_vars PROVE Sound'
    OBVIOUS
  <1>1. CASE UNCHANGED vars
    BY <1>1 DEF vars, IInv, Sound, OnStream, OnWire, InTurn, ComesBack, Open, Listening, Ahead, Owed
  <1> QED
    BY <1>1, SoundWaiting, SoundTell, SoundLine, SoundSending, SoundHearing
    DEF IInv, Next, Stream, Screen

(* What the feed says of itself (changefeed.py, its first comment): a      *)
(* screen that drops and comes back gets what it missed, as long as none   *)
(* of Kinds has happened to it; whatever it has not heard is on its line   *)
(* or comes after the place its stream goes on from, and is still held.    *)
THEOREM MissesNothing == Spec => []NothingMissed
  <1>1. Init => IInv
    BY InitTyped, InitSound DEF IInv
  <1>2. IInv /\ [Next]_vars => IInv'
    BY StepTyped, StepSound DEF IInv
  <1>3. IInv => NothingMissed
    BY DEF IInv, Sound, NothingMissed
  <1> QED BY <1>1, <1>2, <1>3, PTL DEF Spec

----------------------------------------------------------------------------
(* What the feed promises (Tidings).                                       *)

(* Each step of the protocol is one of what is promised, or none of them:  *)
(* a change is told, the first of those owed is heard, or something of     *)
(* Kinds happens.  That what is told is heard in the end is for TLC.       *)
THEOREM KeepsItsPromise == Spec => Heard!Init /\ [][Heard!Next]_<<owed, met # {}>>
  <1>1. Init => Heard!Init
    BY DEF Init, Heard!Init
  <1>2. TypeOK /\ [Next]_vars => [Heard!Next]_<<owed, met # {}>>
    <2> SUFFICES ASSUME TypeOK, [Next]_vars, ~UNCHANGED <<owed, met # {}>> PROVE Heard!Next
      OBVIOUS
    <2>1. CASE met' # {}
      BY <2>1 DEF Heard!Next, Heard!Lose
    <2>2. CASE met' = {}
      <3>1. met = {}
        BY <2>2 DEF Next, Tell, Wake, Stream, Screen, Connect, Hello, Look, Register, LookAgain, Rise, Send,
                    HearHello, HearChange, Drop, Restart, Happens, vars
      <3>2. owed' # owed BY <2>2, <3>1
      <3>3. ASSUME NEW seen \in BOOLEAN, Tell(seen) PROVE Heard!Next
        <4> DEFINE c == [n |-> seq + 1, seen |-> seen]
        <4>1. c \in Changes /\ owed' = Append(owed, c)
          BY <3>2, <3>3, Numbers DEF Tell, Changes, TypeOK
        <4> QED BY <4>1, <2>2, <3>1 DEF Heard!Next, Heard!Tell
      <3>4. CASE HearChange
        BY <3>2, <3>4, <2>2, <3>1 DEF HearChange, Heard!Next, Heard!Hear
      <3> QED
        BY <3>2, <3>3, <3>4
        DEF Next, Wake, Stream, Screen, Connect, Hello, Look, Register, LookAgain, Rise, Send, HearHello,
            Drop, Restart, vars
    <2> QED BY <2>1, <2>2
  <1> QED BY TypeCorrect, <1>1, <1>2, PTL DEF Spec
----------------------------------------------------------------------------
(* Numbers.  Without a restart under a listening screen nobody has a       *)
(* number that the feed has not given: neither the screen, nor what is on  *)
(* its line, nor the stream and what it found.                             *)

NoRestart == "restart" \notin Hazards

Given ==
    /\ InReach
    /\ mark # NoMark => mark <= seq
    /\ \A c \in stream.found : c.n <= seq
    /\ \A k \in 1..Len(wire) : /\ wire[k].name = "hello" => wire[k].n <= seq
                               /\ wire[k].name = "change" => wire[k].change.n <= seq
    /\ ~Open => wire = <<>>

LEMMA StaysGiven == NoRestart /\ TypeOK /\ Steady /\ Given /\ [Next]_vars => Given'
  <1> SUFFICES ASSUME NoRestart, TypeOK, Steady, Given, [Next]_vars PROVE Given'
    OBVIOUS
  <1> USE Numbers DEF TypeOK, Given, InReach
  <1>1. \A k \in 1..Len(wire) : /\ wire[k].name = "hello" => wire[k].n \in 0..MaxSeq
                                /\ wire[k].name = "change" => wire[k].change.n \in 0..MaxSeq
    BY ElementOfSeq DEF Events, Changes
  <1>2. ASSUME NEW seen \in BOOLEAN, Tell(seen) PROVE Given'
    <2>1. seq' = seq + 1 /\ UNCHANGED <<stream, wire, mark>>
      BY <1>2 DEF Tell
    <2>2. \A c \in stream.found : c.n \in 0..MaxSeq
      BY DEF Changes
    <2>3. InReach' /\ (mark' # NoMark => mark' <= seq') /\ (~Open' => wire' = <<>>)
      BY <2>1 DEF Open
    <2>4. \A c \in stream'.found : c.n <= seq'
      BY <2>1, <2>2
    <2>5. \A k \in 1..Len(wire) : /\ wire[k].name = "hello" => wire[k].n <= seq + 1
                                  /\ wire[k].name = "change" => wire[k].change.n <= seq + 1
      BY <1>1
    <2>6. \A k \in 1..Len(wire') : /\ wire'[k].name = "hello" => wire'[k].n <= seq'
                                   /\ wire'[k].name = "change" => wire'[k].change.n <= seq'
      <3>1. seq' = seq + 1 /\ wire' = wire BY <2>1
      <3> QED BY <2>5, <3>1
    <2> QED BY <2>3, <2>4, <2>6
  <1>3. CASE Wake \/ Register \/ Rise
    <2>1. UNCHANGED <<seq, wire, mark>> /\ stream'.cursor = stream.cursor /\ stream'.found = stream.found
      BY <1>3 DEF Wake, Register, Rise
    <2>2. Open' = Open
      BY <1>3 DEF Wake, Register, Rise, Open, Waiting
    <2> QED BY <2>1, <2>2
  <1>4. CASE Look \/ LookAgain
    <2>1. UNCHANGED <<seq, wire, mark>> /\ stream'.cursor = stream.cursor /\ Open /\ Open'
      BY <1>4 DEF Look, LookAgain, Found, Nothing, Open
    <2>2. \A c \in stream'.found : c \in stream.found \/ c \in held
      <3>1. CASE Found
        BY <3>1 DEF Found, After
      <3>2. CASE Nothing("register") \/ Nothing("asleep")
        BY <3>2 DEF Nothing
      <3> QED BY <1>4, <3>1, <3>2 DEF Look, LookAgain
    <2>3. \A c \in held : c.n <= seq
      OBVIOUS
    <2>4. \A c \in stream'.found : c.n <= seq'
      BY <2>1, <2>2, <2>3
    <2> QED BY <2>1, <2>4
  <1>5. CASE Connect
    BY <1>5 DEF Connect, Gone, Open
  <1>6. CASE Hello
    <2> DEFINE e == [name |-> "hello", n |-> seq]
    <2>1. e \in Events BY DEF Events
    <2>2. /\ Len(wire') = Len(wire) + 1 /\ Len(wire) \in Nat /\ wire'[Len(wire) + 1] = e
          /\ \A k \in 1..Len(wire) : wire'[k] = wire[k]
      BY <1>6, <2>1, AppendProperties, LenProperties DEF Hello
    <2>3. Open' /\ UNCHANGED <<seq, mark>> /\ stream'.cursor = stream.cursor /\ stream'.found = stream.found /\ Open
      BY <1>6 DEF Hello, Open
    <2>4. \A k \in 1..Len(wire') : k \in 1..Len(wire) \/ k = Len(wire) + 1
      BY <2>2
    <2> QED BY <2>2, <2>3, <2>4
  <1>7. CASE Send
    <2>1. PICK c \in First(stream.found) : Send!2!(c)
      BY <1>7 DEF Send
    <2>2. c \in Changes /\ c \in stream.found /\ c.n <= seq BY DEF First
    <2>3. stream'.cursor = c.n /\ stream'.found \subseteq stream.found /\ Open' /\ UNCHANGED <<seq, mark>> /\ Open
      BY <1>7, <2>1 DEF Send, Open
    <2>4. CASE wire' = wire
      BY <2>2, <2>3, <2>4
    <2>5. CASE wire' = Append(wire, Change(c))
      <3>1. Change(c) \in Events BY <2>2 DEF Change, Events
      <3>2. /\ Len(wire') = Len(wire) + 1 /\ Len(wire) \in Nat /\ wire'[Len(wire) + 1] = Change(c)
            /\ \A k \in 1..Len(wire) : wire'[k] = wire[k]
        BY <2>5, <3>1, AppendProperties, LenProperties
      <3>3. \A k \in 1..Len(wire') : k \in 1..Len(wire) \/ k = Len(wire) + 1
        BY <3>2
      <3>4. Change(c).name = "change" /\ Change(c).change.n = c.n
        BY DEF Change
      <3> QED BY <2>2, <2>3, <3>2, <3>3, <3>4
    <2> QED BY <2>1, <2>4, <2>5
  <1>8. CASE Screen
    <2>1. wire # <<>> /\ wire' = Tail(wire) /\ UNCHANGED <<seq, stream>>
      BY <1>8 DEF Screen, HearHello, HearChange
    <2>2. /\ Len(wire') = Len(wire) - 1 /\ \A k \in 1..Len(wire') : wire'[k] = wire[k + 1]
          /\ Head(wire) = wire[1] /\ 1 \in 1..Len(wire) /\ Len(wire) \in Nat
      BY <2>1, HeadTailProperties, EmptySeq, LenProperties
    <2>3. mark' <= seq
      BY <1>8, <2>2 DEF Screen, HearHello, HearChange
    <2>4. \A k \in 1..Len(wire') : k + 1 \in 1..Len(wire)
      BY <2>2
    <2> QED BY <2>1, <2>2, <2>3, <2>4 DEF Open
  <1>9. CASE Drop
    BY <1>9, GoneTyped, EmptySeq DEF Drop, Open
  <1>10. CASE Restart
    <2>1. ~Listening
      BY <1>10 DEF Restart, Happens, NoRestart
    <2> QED BY <1>10, <2>1, GoneTyped, EmptySeq DEF Restart, Open, Listening
  <1>11. CASE UNCHANGED vars
    BY <1>11 DEF vars, Open
  <1> QED BY <1>2, <1>3, <1>4, <1>5, <1>6, <1>7, <1>8, <1>9, <1>10, <1>11 DEF Next, Stream

(* A stream never goes on from a place beyond the feed, so it finds what   *)
(* is told next, as long as the server does not start again while a screen *)
(* listens (ChangeFeed's numbers begin at one in every process).           *)
THEOREM WithinReach == ASSUME NoRestart PROVE Spec => []InReach
  <1>1. Init => Given
    BY GoneTyped, EmptySeq DEF Init, Given, InReach, Open
  <1>2. TypeOK /\ Steady /\ Given /\ [Next]_vars => Given'
    BY StaysGiven
  <1>3. TypeOK /\ Steady /\ [Next]_vars => (TypeOK /\ Steady)'
    BY StepTyped
  <1>4. Given => InReach
    BY DEF Given
  <1> QED BY InitTyped, <1>1, <1>2, <1>3, <1>4, PTL DEF Spec
=============================================================================
