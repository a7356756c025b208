------------------------ MODULE Conversation_proofs ------------------------
(* Proofs about Conversation, for every value of its constants.            *)
EXTENDS Conversation, SequenceTheorems, TLAPS

Written(l) == row[l].is \in {"there", "gone"}

(* A copy of line l, from now or from before.                              *)
Fits(c, l) ==
    /\ c.rev # 0 => Written(l) /\ c.rev <= row[l].rev /\ c.at <= row[l].at
    /\ c.rev # 0 /\ c.rev = row[l].rev => c.at = row[l].at
    /\ c.rev = 0 => c.at = 0

(***************************************************************************)
(* The invariant.  Stamps are not in the future, copies are of what was    *)
(* written, a deletion is told of what is gone.  Until one of Passed has   *)
(* happened, what is older than anything shown, or than what an ask is     *)
(* from, is shown as it is, and an answer leaves out nothing that is       *)
(* between what it is from and what it holds.                              *)
(***************************************************************************)
Places == {"free", "asked", "answered", "sent"}
States == {"none", "draft", "there", "gone"}
Row    == [is : States, rev : 0..MaxWrites, at : 0..MaxTime, mine : BOOLEAN]
Ask    == [pc : Places, since : 0..MaxTime, rows : [Lines -> Copy]]
Told   == [line : Lines, deleted : BOOLEAN, rev : 0..MaxWrites]

Copies ==
    /\ \A l \in Lines : row[l].at <= clock
    /\ \A l \in Lines : ~Written(l) => row[l].rev = 0
    /\ \A l \in Lines : There(l) => row[l].rev # 0
    /\ \A l \in Lines : Fits(shown[l], l)
    /\ \A i \in Asks, l \in Lines : Fits(ask[i].rows[l], l)
    /\ \A i \in Asks : ask[i].since = 0 \/ \E k \in Lines : Written(k) /\ ask[i].since <= row[k].at
    /\ \A w \in untold : w.deleted => row[w.line].is = "gone"
    /\ \A k \in 1..Len(due) : due[k].deleted => row[due[k].line].is = "gone"

AsIs(l) == shown[l].rev = row[l].rev

ReadBefore ==
    \A i \in Asks, l \in Lines :
        ask[i].pc \in {"asked", "answered"} /\ There(l) /\ row[l].at < ask[i].since => AsIs(l)

NothingLeftOut ==
    \A i \in Asks, l, k \in Lines :
        ask[i].pc = "answered" /\ There(l) /\ ask[i].since <= row[l].at /\ row[l].at < ask[i].rows[k].at
        => ask[i].rows[l].rev = row[l].rev

Read == met \cap Passed = {} => AllRead /\ ReadBefore /\ NothingLeftOut

----------------------------------------------------------------------------
(* Types.                                                                  *)

LEMMA Numbers == MaxTime \in Nat /\ MaxWrites \in Nat /\ MaxAsks \in Nat /\ 0 \in 0..MaxTime /\ 0 \in 0..MaxWrites
  BY ConstantsAssumption

LEMMA Typed ==
    TypeOK <=> /\ clock \in 0..MaxTime /\ row \in [Lines -> Row] /\ untold \subseteq Told /\ due \in Seq(Events)
               /\ screen \in {"closed", "loading", "open", "live"} /\ shown \in [Lines -> Copy]
               /\ ask \in [Asks -> Ask] /\ met \subseteq Hazards /\ writes \in 0..MaxWrites
               /\ \A l \in Lines : row[l].rev <= writes
  BY DEF TypeOK, Row, Ask, Told, Places, States

LEMMA FreeTyped ==
    /\ Free \in Ask /\ Free.rows \in [Lines -> Copy] /\ Free.pc = "free" /\ Free.since = 0
    /\ Nothing \in Copy /\ Nothing.rev = 0 /\ Nothing.at = 0
    /\ \A l \in Lines : Free.rows[l] = Nothing
  BY Numbers DEF Free, Nothing, Copy, Ask, Places

LEMMA InPlaceTyped ==
    ASSUME TypeOK, NEW l \in Lines
    PROVE  /\ InPlace(l) \in Copy
           /\ There(l) => InPlace(l).rev = row[l].rev /\ InPlace(l).at = row[l].at
           /\ ~There(l) => InPlace(l) = Nothing
  BY Typed, FreeTyped DEF InPlace, Copy, Row

(* What an ask becomes when the screen asks, from s.                       *)
LEMMA Asking ==
    ASSUME TypeOK, NEW i \in Asks, NEW s \in 0..MaxTime, AskFrom(i, s)
    PROVE  /\ ask' \in [Asks -> Ask] /\ ask[i] = Free
           /\ ask'[i].pc = "asked" /\ ask'[i].since = s /\ ask'[i].rows = Free.rows
           /\ \A j \in Asks : j # i => ask'[j] = ask[j]
  <1>1. [Free EXCEPT !.pc = "asked", !.since = s] \in Ask
    BY FreeTyped DEF Ask, Places
  <1> QED BY <1>1, Typed, FreeTyped DEF AskFrom, Ask

LEMMA Freeing ==
    ASSUME TypeOK, NEW i \in Asks, Freed(i)
    PROVE  /\ ask' \in [Asks -> Ask] /\ ask'[i] = Free /\ \A j \in Asks : j # i => ask'[j] = ask[j]
           /\ screen' \in {"closed", "loading", "open", "live"} /\ (screen' = "live" <=> screen = "live")
  BY Typed, FreeTyped DEF Freed

LEMMA Sending ==
    ASSUME TypeOK, NEW i \in Asks, NEW l \in Lines,
           ask' = [ask EXCEPT ![i] = [pc |-> "sent", since |-> 0, rows |-> [Free.rows EXCEPT ![l] = InPlace(l)]]]
    PROVE  /\ ask' \in [Asks -> Ask] /\ ask'[i].pc = "sent" /\ ask'[i].since = 0
           /\ ask'[i].rows[l] = InPlace(l) /\ \A m \in Lines : m # l => ask'[i].rows[m] = Nothing
           /\ \A j \in Asks : j # i => ask'[j] = ask[j]
  <1> DEFINE rows == [Free.rows EXCEPT ![l] = InPlace(l)]
  <1>1. rows \in [Lines -> Copy] /\ rows[l] = InPlace(l) /\ \A m \in Lines : m # l => rows[m] = Nothing
    BY FreeTyped, InPlaceTyped
  <1>2. [pc |-> "sent", since |-> 0, rows |-> rows] \in Ask
    BY <1>1, Numbers DEF Ask, Places
  <1> QED BY <1>1, <1>2, Typed

LEMMA InitTyped == Init => TypeOK
  <1> SUFFICES ASSUME Init PROVE TypeOK
    OBVIOUS
  <1>1. due = <<>> BY DEF Init, Feed!Init
  <1>2. due \in Seq(Events) BY <1>1, EmptySeq
  <1>3. row \in [Lines -> Row] BY Numbers DEF Init, Row, States
  <1>4. shown \in [Lines -> Copy] /\ ask \in [Asks -> Ask] BY FreeTyped DEF Init
  <1> QED BY <1>2, <1>3, <1>4, Numbers, Typed DEF Init

LEMMA StepTyped == TypeOK /\ [Next]_vars => TypeOK'
  <1> SUFFICES ASSUME TypeOK, [Next]_vars PROVE TypeOK'
    OBVIOUS
  <1>0. /\ clock \in 0..MaxTime /\ row \in [Lines -> Row] /\ untold \subseteq Told /\ due \in Seq(Events)
        /\ screen \in {"closed", "loading", "open", "live"} /\ shown \in [Lines -> Copy]
        /\ ask \in [Asks -> Ask] /\ met \subseteq Hazards /\ writes \in 0..MaxWrites
        /\ \A l \in Lines : row[l].rev <= writes
    BY Typed
  <1>a. ASSUME clock' \in 0..MaxTime, row' \in [Lines -> Row], untold' \subseteq Told, due' \in Seq(Events),
               screen' \in {"closed", "loading", "open", "live"}, shown' \in [Lines -> Copy],
               ask' \in [Asks -> Ask], met' \subseteq Hazards, writes' \in 0..MaxWrites,
               \A l \in Lines : row[l]'.rev <= writes'
        PROVE  TypeOK'
    BY <1>a DEF TypeOK, Row, Ask, Told, Places, States
  <1>1. CASE Tick
    BY <1>0, <1>1, <1>a, Numbers DEF Tick
  <1>2. ASSUME NEW l \in Lines, NEW mine \in BOOLEAN, Stamp(l, mine) PROVE TypeOK'
    <2>1. row' \in [Lines -> Row] /\ \A k \in Lines : row[k]'.rev <= writes
      BY <1>0, <1>2, Numbers DEF Stamp, Row, States
    <2> QED BY <1>0, <1>2, <2>1, <1>a DEF Stamp
  <1>3. ASSUME NEW l \in Lines, Create(l) \/ Edit(l) \/ Delete(l) PROVE TypeOK'
    <2>1. /\ writes < MaxWrites /\ writes' = writes + 1 /\ writes' \in 0..MaxWrites
          /\ \E d \in BOOLEAN : untold' = untold \cup {[line |-> l, deleted |-> d, rev |-> row'[l].rev]}
      <3>1. Writes(l, FALSE) \/ Writes(l, TRUE) BY <1>3 DEF Create, Edit, Delete
      <3>2. writes < MaxWrites /\ writes' = writes + 1 BY <3>1 DEF Writes
      <3>3. writes' \in 0..MaxWrites BY <1>0, <3>2, Numbers
      <3>4. \/ untold' = untold \cup {[line |-> l, deleted |-> FALSE, rev |-> row'[l].rev]}
            \/ untold' = untold \cup {[line |-> l, deleted |-> TRUE, rev |-> row'[l].rev]}
        BY <3>1 DEF Writes
      <3>6. \E d \in BOOLEAN : untold' = untold \cup {[line |-> l, deleted |-> d, rev |-> row'[l].rev]}
        BY <3>4, Zenon
      <3> QED BY <3>2, <3>3, <3>6
    <2>2. row' \in [Lines -> Row] /\ \A k \in Lines : row[k]'.rev <= writes'
      <3> DEFINE n == row[l].rev + 1
      <3>1. /\ 1 \in 0..MaxWrites /\ 1 <= writes' /\ n \in 0..MaxWrites /\ n <= writes'
            /\ \A k \in Lines : row[k].rev <= writes' /\ row[k] \in Row
        BY <1>0, <2>1, Numbers DEF Row
      <3>2. CASE Create(l) BY <1>0, <3>1, <3>2 DEF Create, Row, States
      <3>3. CASE Edit(l)
        <4>1. row' = [row EXCEPT ![l] = [row[l] EXCEPT !.rev = n, !.at = clock, !.mine = FALSE]]
          BY <1>0, <3>3 DEF Edit, Row
        <4>2. [row[l] EXCEPT !.rev = n, !.at = clock, !.mine = FALSE] \in Row
          BY <1>0, <3>1 DEF Row
        <4>3. [row[l] EXCEPT !.rev = n, !.at = clock, !.mine = FALSE].rev = n
          BY <1>0, <3>1 DEF Row
        <4> HIDE DEF n
        <4> QED BY <1>0, <3>1, <4>1, <4>2, <4>3
      <3>4. CASE Delete(l) BY <1>0, <3>1, <3>4 DEF Delete, Row, States
      <3> QED BY <1>3, <3>2, <3>3, <3>4
    <2>3. untold' \subseteq Told
      <3>1. row'[l].rev \in 0..MaxWrites BY <2>2 DEF Row
      <3> QED BY <1>0, <2>1, <3>1 DEF Told
    <2>4. met' \subseteq Hazards BY <1>0, <1>3 DEF Create, Edit, Delete, Happens
    <2>5. UNCHANGED <<clock, due, screen, shown, ask>> BY <1>3 DEF Create, Edit, Delete
    <2> QED BY <1>0, <2>1, <2>2, <2>3, <2>4, <2>5, <1>a
  <1>4. ASSUME NEW w \in untold, Tell(w) PROVE TypeOK'
    <2>1. w \in Told /\ w.line \in Lines BY <1>0 DEF Told
    <2>2. due' \in Seq(Events)
      <3>1. [line |-> w.line, deleted |-> w.deleted] \in Events BY <2>1 DEF Told, Events
      <3> QED BY <1>0, <1>4, <3>1, AppendProperties DEF Tell, Feed!Tell
    <2>3. ask' \in [Asks -> Ask] BY <1>0, <1>4, <2>1, Sending DEF Tell
    <2>4. /\ UNCHANGED <<clock, row, screen, shown, met, writes>> /\ untold' \subseteq Told
      BY <1>0, <1>4 DEF Tell
    <2> QED BY <1>0, <2>2, <2>3, <2>4, <1>a
  <1>5. CASE Open \/ Poll
    <2>1. /\ UNCHANGED <<clock, row, untold, due, shown, met, writes>>
          /\ screen' \in {"closed", "loading", "open", "live"}
      BY <1>0, <1>5 DEF Open, Poll
    <2>2. \A s \in Newest : s \in 0..MaxTime BY <1>0, Numbers DEF Newest, Copy
    <2>3. ask' \in [Asks -> Ask] BY <1>5, <2>2, Asking, Numbers DEF Open, Poll
    <2> QED BY <1>0, <2>1, <2>3, <1>a
  <1>6. CASE Listen \/ Lose
    <2>1. /\ UNCHANGED <<clock, row, untold, shown, ask, writes>> /\ met' \subseteq Hazards
          /\ screen' \in {"closed", "loading", "open", "live"}
      BY <1>0, <1>6 DEF Listen, Lose, Happens
    <2>2. due' \in Seq(Events) BY <1>0, <1>6, EmptySeq DEF Listen, Lose
    <2> QED BY <1>0, <2>1, <2>2, <1>a
  <1>7. CASE Hear
    <2>1. due # <<>> /\ Head(due) \in Events /\ due' = Tail(due) /\ due' \in Seq(Events)
      BY <1>0, <1>7, HeadTailProperties DEF Hear, Feed!Hear
    <2>2. shown' \in [Lines -> Copy] BY <1>0, <1>7, <2>1, FreeTyped DEF Hear, TakenOff
    <2>3. ask' \in [Asks -> Ask] BY <1>7, Asking DEF Hear
    <2> QED BY <1>0, <1>7, <2>1, <2>2, <2>3, <1>a DEF Hear
  <1>8. ASSUME NEW i \in Asks, Answer(i) PROVE TypeOK'
    <2>1. Since(ask[i].since) \in [Lines -> Copy] BY InPlaceTyped, FreeTyped DEF Since
    <2>2. ask' \in [Asks -> Ask] BY <1>0, <1>8, <2>1 DEF Answer, Ask, Places
    <2> QED BY <1>0, <1>8, <2>2, <1>a DEF Answer
  <1>9. ASSUME NEW i \in Asks, Fail(i) PROVE TypeOK'
    BY <1>0, <1>9, Freeing, <1>a DEF Fail
  <1>10. ASSUME NEW i \in Asks, Merge(i) PROVE TypeOK'
    <2>1. Merged(ask[i].rows) \in [Lines -> Copy] BY <1>0 DEF Merged, Ask
    <2> QED BY <1>0, <1>10, <2>1, Freeing, <1>a DEF Merge, Happens
  <1>11. CASE UNCHANGED vars
    BY <1>0, <1>11, <1>a DEF vars
  <1> QED
    BY <1>1, <1>2, <1>3, <1>4, <1>5, <1>6, <1>7, <1>8, <1>9, <1>10, <1>11 DEF Next, Thread

(* Stamps, revisions, asks and what is to be heard are always of their     *)
(* types (records, and the state drawConversation keeps).                  *)
THEOREM TypeCorrect == Spec => []TypeOK
  BY InitTyped, StepTyped, PTL DEF Spec

----------------------------------------------------------------------------
(* Ghosts.                                                                 *)

LEMMA StaysGhostless == TypeOK /\ NoGhosts /\ [Next]_vars => NoGhosts'
  <1> SUFFICES ASSUME TypeOK, NoGhosts, [Next]_vars, met' \cap Undead = {}, screen' = "live",
                      NEW l \in Lines, row'[l].is = "gone", ~ToBeTold(l)'
               PROVE  shown'[l].rev = 0
    BY DEF NoGhosts, GoneIsGone
  <1>0. /\ row \in [Lines -> Row] /\ untold \subseteq Told /\ due \in Seq(Events)
        /\ shown \in [Lines -> Copy] /\ ask \in [Asks -> Ask]
    BY Typed
  <1>1. met \subseteq met' => met \cap Undead = {}
    OBVIOUS
  <1>2. ASSUME met \subseteq met', screen = "live", row[l].is = "gone", ~ToBeTold(l) PROVE shown[l].rev = 0
    BY <1>1, <1>2 DEF NoGhosts, GoneIsGone
  <1>3. ASSUME met' = met, row' = row, untold' = untold, due' = due, screen' = screen PROVE shown[l].rev = 0
    BY <1>2, <1>3 DEF ToBeTold
  <1>4. CASE Tick
    BY <1>3, <1>4 DEF Tick
  <1>5. ASSUME NEW k \in Lines, NEW mine \in BOOLEAN, Stamp(k, mine) PROVE shown'[l].rev = 0
    <2>1. row[l].is = "gone" BY <1>0, <1>5 DEF Stamp, Row
    <2> QED BY <1>2, <1>5, <2>1 DEF Stamp, ToBeTold
  <1>6. ASSUME NEW k \in Lines, Create(k) \/ Edit(k) \/ Delete(k) PROVE shown'[l].rev = 0
    <2>1. /\ met \subseteq met' /\ untold \subseteq untold' /\ UNCHANGED <<due, screen, shown>>
      BY <1>6 DEF Create, Edit, Delete, Happens, Writes
    <2>2. row[l].is = "gone"
      <3>1. CASE k = l
        <4>1. ~Create(l) /\ ~Edit(l) BY <1>0 DEF Create, Edit, There, Row
        <4>2. Delete(l) BY <1>6, <3>1, <4>1
        <4>3. [line |-> l, deleted |-> TRUE, rev |-> row'[l].rev] \in untold' BY <4>2 DEF Delete, Writes
        <4> QED BY <4>3 DEF ToBeTold
      <3>2. CASE k # l BY <1>0, <1>6, <3>2 DEF Create, Edit, Delete, Row
      <3> QED BY <3>1, <3>2
    <2>3. ~ToBeTold(l) BY <2>1 DEF ToBeTold
    <2> QED BY <1>2, <2>1, <2>2, <2>3
  <1>7. ASSUME NEW w \in untold, Tell(w) PROVE shown'[l].rev = 0
    <2> DEFINE e == [line |-> w.line, deleted |-> w.deleted]
    <2>1. e \in Events BY <1>0 DEF Told, Events
    <2>2. due' = due \/ due' = Append(due, e) BY <1>7 DEF Tell, Feed!Tell
    <2>3. \A k \in DOMAIN due : k \in DOMAIN due' /\ due'[k] = due[k]
      <3>1. DOMAIN due = 1..Len(due) /\ Len(due) \in Nat BY <1>0, LenProperties
      <3>2. CASE due' = Append(due, e)
        <4>1. DOMAIN due' = 1..Len(due) + 1 BY <1>0, <2>1, <3>2, AppendProperties, LenProperties
        <4> QED BY <1>0, <2>1, <3>1, <3>2, <4>1, AppendProperties
      <3> QED BY <2>2, <3>2
    <2>4. CASE w.line = l /\ w.deleted
      <3>1. due' = Append(due, e) /\ e = [line |-> l, deleted |-> TRUE]
        <4>1. w.deleted = TRUE BY <1>0, <2>4 DEF Told
        <4> QED BY <1>7, <2>4, <4>1 DEF Tell, Feed!Tell
      <3>2. Len(due) + 1 \in DOMAIN due' /\ due'[Len(due) + 1] = e
        BY <1>0, <2>1, <3>1, AppendProperties, LenProperties
      <3> QED BY <3>1, <3>2 DEF ToBeTold
    <2>5. CASE ~(w.line = l /\ w.deleted)
      <3>1. untold' = untold \ {w} BY <1>7 DEF Tell
      <3>2. ~ToBeTold(l) BY <2>3, <2>5, <3>1 DEF ToBeTold
      <3> QED BY <1>2, <1>7, <3>2 DEF Tell
    <2> QED BY <2>4, <2>5
  <1>8. CASE Open
    BY <1>8 DEF Open
  <1>9. CASE Listen
    <2>1. "gap" \notin met' BY DEF Undead
    <2>2. ~(shown[l] # Nothing /\ row[l].is = "gone" /\ \A w \in untold : ~(w.line = l /\ w.deleted))
      BY <1>9, <2>1 DEF Listen, Happens
    <2>3. \A w \in untold : ~(w.line = l /\ w.deleted) BY <1>9 DEF Listen, ToBeTold
    <2>4. shown[l] = Nothing BY <1>9, <2>2, <2>3 DEF Listen
    <2> QED BY <1>9, <2>4, FreeTyped DEF Listen
  <1>10. CASE Hear
    <2>1. /\ due # <<>> /\ due' = Tail(due) /\ UNCHANGED <<row, untold, screen, met>>
      BY <1>10 DEF Hear, Feed!Hear
    <2>2. /\ Head(due) \in Events /\ Head(due) = due[1] /\ Len(due) \in Nat /\ DOMAIN due = 1..Len(due)
          /\ \A k \in 2..Len(due) : k - 1 \in DOMAIN due' /\ due'[k - 1] = due[k]
      <3>1. /\ Len(due') = Len(due) - 1 /\ DOMAIN due' = 1..Len(due') /\ DOMAIN due = 1..Len(due)
            /\ Head(due) \in Events /\ Len(due) \in Nat /\ \A k \in 1..Len(due') : due'[k] = due[k + 1]
        BY <1>0, <2>1, HeadTailProperties, LenProperties
      <3>2. \A k \in 2..Len(due) : k - 1 \in 1..Len(due') /\ (k - 1) + 1 = k BY <3>1
      <3> QED BY <1>0, <2>1, <3>1, <3>2, HeadTailProperties
    <2>3. CASE Head(due) = [line |-> l, deleted |-> TRUE]
      <3>1. Head(due).deleted = TRUE /\ Head(due).line = l BY <2>3
      <3>2. shown' = TakenOff(Head(due)) BY <1>10 DEF Hear
      <3>3. shown' = [shown EXCEPT ![l] = Nothing] BY <3>1, <3>2 DEF TakenOff
      <3> QED BY <1>0, <3>3, FreeTyped
    <2>4. CASE Head(due) # [line |-> l, deleted |-> TRUE]
      <3>1. ~ToBeTold(l)
        <4> SUFFICES ASSUME NEW k \in DOMAIN due, due[k] = [line |-> l, deleted |-> TRUE] PROVE FALSE
          BY <2>1 DEF ToBeTold
        <4>0. k # 1
          <5> SUFFICES ASSUME k = 1 PROVE FALSE
            OBVIOUS
          <5> QED BY <2>2, <2>4
        <4>1. k \in 2..Len(due) BY <2>2, <4>0
        <4> QED BY <2>2, <4>1 DEF ToBeTold
      <3>2. shown[l].rev = 0 BY <1>2, <2>1, <3>1
      <3>3. shown'[l] \in {shown[l], Nothing} BY <1>0, <1>10 DEF Hear, TakenOff
      <3> QED BY <3>2, <3>3, FreeTyped
    <2> QED BY <2>3, <2>4
  <1>11. CASE Lose
    BY <1>11 DEF Lose, Happens, Undead
  <1>12. CASE Poll
    BY <1>3, <1>12 DEF Poll
  <1>13. ASSUME NEW i \in Asks, Answer(i) PROVE shown'[l].rev = 0
    BY <1>3, <1>13 DEF Answer
  <1>14. ASSUME NEW i \in Asks, Fail(i) PROVE shown'[l].rev = 0
    BY <1>2, <1>14, Freeing DEF Fail, ToBeTold
  <1>15. ASSUME NEW i \in Asks, Merge(i) PROVE shown'[l].rev = 0
    <2>1. /\ screen = "live" /\ UNCHANGED <<row, untold, due>> /\ met \subseteq met'
      BY <1>15, Freeing DEF Merge, Happens
    <2>2. ~ToBeTold(l) BY <2>1 DEF ToBeTold
    <2>3. What(ask[i], l) \subseteq met'
      <3>1. met' = met \cup UNION {What(ask[i], k) : k \in Lines} BY <1>15 DEF Merge, Happens
      <3> HIDE DEF What
      <3> QED BY <3>1
    <2>4. ask[i].rows[l].rev = 0
      <3>1. "revive" \notin What(ask[i], l) BY <2>3 DEF Undead
      <3> QED BY <2>1, <2>2, <3>1 DEF What
    <2>5. shown'[l] = shown[l] BY <1>0, <1>15, <2>4 DEF Merge, Merged
    <2> QED BY <1>2, <2>1, <2>2, <2>5
  <1>16. CASE UNCHANGED vars
    BY <1>3, <1>16 DEF vars
  <1> QED
    BY <1>4, <1>5, <1>6, <1>7, <1>8, <1>9, <1>10, <1>11, <1>12, <1>13, <1>14, <1>15, <1>16 DEF Next, Thread

(* A line that is deleted leaves the screen when the screen hears of it,   *)
(* and does not come back, whatever the order of the deletion, its         *)
(* telling, and the answers on their way, until one of Undead has          *)
(* happened (listenChanges' handler in drawConversation).                  *)
THEOREM LeavesNoGhosts == Spec => []NoGhosts
  <1>1. Init => NoGhosts
    BY DEF Init, NoGhosts, GoneIsGone
  <1>2. TypeOK /\ NoGhosts /\ [Next]_vars => NoGhosts'
    BY StaysGhostless
  <1> QED BY TypeCorrect, <1>1, <1>2, PTL DEF Spec

----------------------------------------------------------------------------
(* Copies.                                                                 *)

LEMMA NothingFits == ASSUME NEW l \in Lines PROVE Fits(Nothing, l)
  BY FreeTyped DEF Fits

(* Steps that write nothing.                                               *)
LEMMA CopiesStill ==
    ASSUME TypeOK, Copies, UNCHANGED row, clock' >= clock, clock' \in Nat,
           \A w \in untold' : w \in untold,
           \A k \in 1..Len(due') : due'[k].deleted => row[due'[k].line].is = "gone",
           \A l \in Lines : Fits(shown'[l], l),
           \A i \in Asks, l \in Lines : Fits(ask'[i].rows[l], l),
           \A i \in Asks : ask'[i].since = 0 \/ \E k \in Lines : Written(k) /\ ask'[i].since <= row[k].at
    PROVE  Copies'
  <1>1. \A l \in Lines : row[l].at \in Nat BY Typed DEF Row
  <1>2. clock \in Nat BY Typed
  <1>3. \A l \in Lines : row'[l].at <= clock' BY <1>1, <1>2 DEF Copies
  <1> QED BY <1>3 DEF Copies, Fits, Written, There

LEMMA CopiesWritten ==
    ASSUME TypeOK, TypeOK', Copies, NEW l \in Lines,
           Create(l) \/ Edit(l) \/ Delete(l) \/ \E mine \in BOOLEAN : Stamp(l, mine)
    PROVE  Copies'
  <1>0. /\ row \in [Lines -> Row] /\ untold \subseteq Told /\ shown \in [Lines -> Copy] /\ ask \in [Asks -> Ask]
        /\ row' \in [Lines -> Row] /\ clock \in Nat /\ due \in Seq(Events)
    <2>1. row' \in [Lines -> Row] BY DEF TypeOK, Row, States
    <2> QED BY <2>1, Typed, Numbers
  <1>1. /\ UNCHANGED <<clock, due, shown, ask>> /\ \A k \in Lines : k # l => row'[k] = row[k]
    BY <1>0 DEF Create, Edit, Delete, Stamp
  <1>2. /\ row[l].rev \in Nat /\ row'[l].rev \in Nat /\ row[l].at \in Nat /\ row[l].at <= clock
        /\ row[l].rev <= row'[l].rev /\ row'[l].at <= clock
        /\ Written(l) => row[l].at <= row'[l].at
        /\ row'[l].rev = row[l].rev /\ Written(l) => row'[l].at = row[l].at
        /\ row[l].is = "gone" => row'[l].is = "gone"
    <2>1. row[l].rev \in Nat /\ row'[l].rev \in Nat /\ row[l].at \in Nat /\ row[l].at <= clock
      BY <1>0 DEF Row, Copies
    <2>2. CASE Create(l)
      <3>1. row[l].is = "draft" /\ row[l].rev = 0 BY <2>2 DEF Create, Copies, Written
      <3>2. row'[l].rev = 1 /\ row'[l].at = row[l].at BY <1>0, <2>2 DEF Create, Row
      <3> QED BY <2>1, <3>1, <3>2 DEF Written
    <2>3. CASE Edit(l)
      <3>1. row'[l].rev = row[l].rev + 1 /\ row'[l].at = clock /\ row[l].is = "there"
        BY <1>0, <2>3 DEF Edit, There, Row
      <3> QED BY <1>0, <2>1, <3>1 DEF Written
    <2>4. CASE Delete(l)
      <3>1. row'[l].rev = row[l].rev /\ row'[l].at = row[l].at /\ row[l].is = "there"
        BY <1>0, <2>4 DEF Delete, There, Row
      <3> QED BY <2>1, <3>1 DEF Written
    <2>5. CASE \E mine \in BOOLEAN : Stamp(l, mine)
      <3>1. row'[l].rev = 0 /\ row'[l].at = clock /\ row[l].is = "none" /\ row[l].rev = 0
        BY <1>0, <2>5 DEF Stamp, Copies, Written
      <3> QED BY <2>1, <3>1, <1>0 DEF Written
    <2> QED BY <2>2, <2>3, <2>4, <2>5
  <1>3. /\ Written(l) => Written(l)'
        /\ ~Written(l)' => row'[l].rev = 0
        /\ There(l)' => row'[l].rev # 0
    <2>1. CASE Create(l) \/ Edit(l) \/ Delete(l)
      <3>1. row'[l].is \in {"there", "gone"}
        <4>1. Create(l) => row'[l].is = "there" BY <1>0 DEF Create, Row
        <4>2. Edit(l) => row'[l].is = row[l].is /\ row[l].is = "there" BY <1>0 DEF Edit, There, Row
        <4>3. Delete(l) => row'[l].is = "gone" BY <1>0 DEF Delete, Row
        <4> QED BY <2>1, <4>1, <4>2, <4>3
      <3>2. Create(l) \/ Edit(l) => row'[l].rev # 0
        <4>1. Create(l) => row'[l].rev = 1 BY <1>0 DEF Create, Row
        <4>2. Edit(l) => row'[l].rev = row[l].rev + 1 BY <1>0 DEF Edit, Row
        <4> QED BY <1>2, <4>1, <4>2
      <3>3. Delete(l) => row'[l].is = "gone" BY <1>0 DEF Delete, Row
      <3> QED BY <2>1, <3>1, <3>2, <3>3 DEF Written, There
    <2>2. CASE \E mine \in BOOLEAN : Stamp(l, mine)
      <3>1. row'[l].is = "draft" /\ row'[l].rev = 0 /\ row[l].is = "none" BY <1>0, <2>2 DEF Stamp
      <3> QED BY <3>1 DEF Written, There
    <2> QED BY <2>1, <2>2
  <1>4. ASSUME NEW k \in Lines, NEW c \in Copy, Fits(c, k) PROVE Fits(c, k)'
    <2>1. c.rev \in Nat /\ c.at \in Nat BY DEF Copy
    <2>2. CASE k = l
      <3>1. ASSUME c.rev # 0 PROVE Written(l)' /\ c.rev <= row'[l].rev /\ c.at <= row'[l].at
        <4>1. Written(l) /\ c.rev <= row[l].rev /\ c.at <= row[l].at BY <1>4, <2>2, <3>1 DEF Fits
        <4>2. row'[l].at \in Nat BY <1>0 DEF Row
        <4> QED BY <1>2, <1>3, <2>1, <4>1, <4>2
      <3>2. ASSUME c.rev # 0, c.rev = row'[l].rev PROVE c.rev = row[l].rev /\ Written(l) /\ c.at = row[l].at
        <4>1. Written(l) /\ c.rev <= row[l].rev BY <1>4, <2>2, <3>2 DEF Fits
        <4>2. c.rev = row[l].rev BY <1>2, <2>1, <3>2, <4>1
        <4> QED BY <1>4, <2>2, <3>2, <4>1, <4>2 DEF Fits
      <3>3. c.rev # 0 /\ c.rev = row'[l].rev => c.at = row'[l].at
        BY <1>2, <3>2
      <3>4. c.rev = 0 => c.at = 0 BY <1>4 DEF Fits
      <3> QED BY <2>2, <3>1, <3>3, <3>4 DEF Fits
    <2>3. CASE k # l BY <1>1, <1>4, <2>3 DEF Fits, Written
    <2> QED BY <2>2, <2>3
  <1>5. \A k \in Lines : row'[k].at <= clock' BY <1>1, <1>2 DEF Copies
  <1>6. \A k \in Lines : ~Written(k)' => row'[k].rev = 0 BY <1>1, <1>3 DEF Copies, Written
  <1>7. \A k \in Lines : There(k)' => row'[k].rev # 0 BY <1>1, <1>3 DEF Copies, There
  <1>8. \A k \in Lines : Fits(shown[k], k)' BY <1>0, <1>1, <1>4 DEF Copies
  <1>9. \A i \in Asks, k \in Lines : Fits(ask[i].rows[k], k)'
    <2>1. \A i \in Asks, k \in Lines : ask[i].rows[k] \in Copy BY <1>0 DEF Ask
    <2> QED BY <1>1, <1>4, <2>1 DEF Copies
  <1>10. ASSUME NEW i \in Asks PROVE (ask[i].since = 0 \/ \E k \in Lines : Written(k) /\ ask[i].since <= row[k].at)'
    <2>1. CASE ask[i].since = 0 BY <1>1, <2>1
    <2>2. ASSUME NEW k \in Lines, Written(k), ask[i].since <= row[k].at PROVE Written(k)' /\ ask[i].since <= row'[k].at
      <3>1. ask[i].since \in Nat /\ row[k].at \in Nat /\ row'[k].at \in Nat BY <1>0 DEF Ask, Row
      <3>2. CASE k = l BY <1>2, <1>3, <2>2, <3>1, <3>2
      <3>3. CASE k # l BY <1>1, <2>2, <3>3 DEF Written
      <3> QED BY <3>2, <3>3
    <2> QED BY <1>1, <2>1, <2>2 DEF Copies
  <1>11. \A k \in Lines : row[k].is = "gone" => row'[k].is = "gone" BY <1>1, <1>2
  <1>12. \A w \in untold' : w.deleted => row'[w.line].is = "gone"
    <2>1. CASE Delete(l)
      <3>1. untold' = untold \cup {[line |-> l, deleted |-> TRUE, rev |-> row'[l].rev]} /\ row'[l].is = "gone"
        BY <1>0, <2>1 DEF Delete, Writes, Row
      <3> QED BY <1>0, <1>11, <3>1 DEF Copies, Told
    <2>2. CASE ~Delete(l)
      <3>1. untold' \subseteq untold \cup {[line |-> l, deleted |-> FALSE, rev |-> row'[l].rev]}
        BY <2>2 DEF Create, Edit, Stamp, Writes
      <3> QED BY <1>0, <1>11, <3>1 DEF Copies, Told
    <2> QED BY <2>1, <2>2
  <1>13. \A k \in 1..Len(due') : due'[k].deleted => row'[due'[k].line].is = "gone"
    <2>1. \A k \in 1..Len(due) : due[k].line \in Lines
      <3>1. \A k \in 1..Len(due) : due[k] \in Events BY <1>0, ElementOfSeq
      <3> QED BY <3>1 DEF Events
    <2> QED BY <1>1, <1>11, <2>1 DEF Copies
  <1> QED BY <1>5, <1>6, <1>7, <1>8, <1>9, <1>10, <1>12, <1>13 DEF Copies

LEMMA StepCopies == TypeOK /\ TypeOK' /\ Copies /\ [Next]_vars => Copies'
  <1> SUFFICES ASSUME TypeOK, TypeOK', Copies, [Next]_vars PROVE Copies'
    OBVIOUS
  <1>0. /\ row \in [Lines -> Row] /\ untold \subseteq Told /\ due \in Seq(Events) /\ clock \in Nat
        /\ shown \in [Lines -> Copy] /\ ask \in [Asks -> Ask]
    BY Typed, Numbers
  <1>1. /\ \A k \in 1..Len(due) : due[k].deleted => row[due[k].line].is = "gone"
        /\ \A l \in Lines : Fits(shown[l], l)
        /\ \A i \in Asks, l \in Lines : Fits(ask[i].rows[l], l)
        /\ \A i \in Asks : ask[i].since = 0 \/ \E k \in Lines : Written(k) /\ ask[i].since <= row[k].at
    BY DEF Copies
  <1>2. \A s \in Newest : s = 0 \/ \E k \in Lines : Written(k) /\ s <= row[k].at
    <2> SUFFICES ASSUME NEW k \in Lines, shown[k].at # 0 PROVE Written(k) /\ shown[k].at <= row[k].at
      BY DEF Newest
    <2> QED BY <1>1 DEF Fits
  <1>3. ASSUME NEW i \in Asks, NEW s \in 0..MaxTime, AskFrom(i, s),
               s = 0 \/ \E k \in Lines : Written(k) /\ s <= row[k].at
        PROVE  /\ \A j \in Asks, l \in Lines : Fits(ask'[j].rows[l], l)
               /\ \A j \in Asks : ask'[j].since = 0 \/ \E k \in Lines : Written(k) /\ ask'[j].since <= row[k].at
    BY <1>1, <1>3, Asking, FreeTyped, NothingFits
  <1>4. ASSUME NEW i \in Asks, Freed(i)
        PROVE  /\ \A j \in Asks, l \in Lines : Fits(ask'[j].rows[l], l)
               /\ \A j \in Asks : ask'[j].since = 0 \/ \E k \in Lines : Written(k) /\ ask'[j].since <= row[k].at
    BY <1>1, <1>4, Freeing, FreeTyped, NothingFits
  <1>5. CASE Tick
    BY <1>0, <1>1, <1>5, CopiesStill DEF Tick
  <1>6. ASSUME NEW l \in Lines, Create(l) \/ Edit(l) \/ Delete(l) \/ \E mine \in BOOLEAN : Stamp(l, mine)
        PROVE  Copies'
    BY <1>6, CopiesWritten
  <1>7. ASSUME NEW w \in untold, Tell(w) PROVE Copies'
    <2> DEFINE e == [line |-> w.line, deleted |-> w.deleted]
    <2>1. e \in Events /\ w.line \in Lines /\ (e.deleted => row[e.line].is = "gone") BY <1>0 DEF Told, Events, Copies
    <2>2. due' = due \/ due' = Append(due, e) BY <1>7 DEF Tell, Feed!Tell
    <2>3. \A k \in 1..Len(due') : due'[k].deleted => row[due'[k].line].is = "gone"
      <3>1. CASE due' = due BY <1>1, <3>1
      <3>2. CASE due' = Append(due, e)
        <4> HIDE DEF e
        <4>1. Len(due) \in Nat /\ Len(due') = Len(due) + 1 BY <1>0, <2>1, <3>2, AppendProperties, LenProperties
        <4>2. \A k \in 1..Len(due) : due'[k] = due[k] BY <1>0, <2>1, <3>2, AppendProperties
        <4>3. due'[Len(due) + 1] = e BY <1>0, <2>1, <3>2, AppendProperties
        <4>4. \A k \in 1..Len(due') : k \in 1..Len(due) \/ k = Len(due) + 1 BY <4>1
        <4> QED BY <1>1, <2>1, <4>2, <4>3, <4>4
      <3> QED BY <2>2, <3>1, <3>2
    <2>4. Fits(InPlace(w.line), w.line)
      <3>1. CASE There(w.line) BY <2>1, <3>1, InPlaceTyped, <1>0 DEF Fits, Written, There, Row, Copies
      <3>2. CASE ~There(w.line) BY <2>1, <3>2, InPlaceTyped, NothingFits
      <3> QED BY <3>1, <3>2
    <2>5. /\ \A i \in Asks, l \in Lines : Fits(ask'[i].rows[l], l)
          /\ \A i \in Asks : ask'[i].since = 0 \/ \E k \in Lines : Written(k) /\ ask'[i].since <= row[k].at
      <3>1. CASE ask' = ask BY <1>1, <3>1
      <3>2. CASE ask' # ask
        <4>1. PICK i \in Asks :
                ask' = [ask EXCEPT ![i] = [pc |-> "sent", since |-> 0,
                                           rows |-> [Free.rows EXCEPT ![w.line] = InPlace(w.line)]]]
          BY <1>7, <3>2 DEF Tell
        <4>2. /\ ask'[i].since = 0 /\ ask'[i].rows[w.line] = InPlace(w.line)
              /\ \A l \in Lines : l # w.line => ask'[i].rows[l] = Nothing
              /\ \A j \in Asks : j # i => ask'[j] = ask[j]
          BY <2>1, <4>1, Sending
        <4>3. \A l \in Lines : Fits(ask'[i].rows[l], l) BY <2>4, <4>2, NothingFits
        <4> QED BY <1>1, <4>2, <4>3
      <3> QED BY <3>1, <3>2
    <2> QED BY <1>0, <1>1, <1>7, <2>3, <2>5, CopiesStill DEF Tell
  <1>8. CASE Open \/ Poll
    <2>1. /\ UNCHANGED <<clock, row, untold, due, shown>>
          /\ \E i \in Asks, s \in 0..MaxTime : AskFrom(i, s) /\ (s = 0 \/ \E k \in Lines : Written(k) /\ s <= row[k].at)
      <3>1. \A s \in Newest : s \in 0..MaxTime BY <1>0, Numbers DEF Newest, Copy
      <3> QED BY <1>2, <1>8, <3>1, Numbers DEF Open, Poll
    <2> QED BY <1>0, <1>1, <1>3, <2>1, CopiesStill
  <1>9. CASE Listen \/ Lose
    <2>1. /\ UNCHANGED <<clock, row, untold, shown, ask>> /\ (due' = due \/ due' = <<>>)
      BY <1>9 DEF Listen, Lose
    <2>2. \A k \in 1..Len(due') : due'[k].deleted => row[due'[k].line].is = "gone"
      BY <1>1, <2>1, EmptySeq
    <2> QED BY <1>0, <1>1, <2>1, <2>2, CopiesStill
  <1>10. CASE Hear
    <2>1. /\ due # <<>> /\ due' = Tail(due) /\ UNCHANGED <<clock, row, untold>>
          /\ shown' = TakenOff(Head(due)) /\ \E i \in Asks, s \in 0..MaxTime : s \in Newest' /\ AskFrom(i, s)
      BY <1>10 DEF Hear, Feed!Hear
    <2>2. \A l \in Lines : shown'[l] \in {shown[l], Nothing} BY <1>0, <2>1 DEF TakenOff
    <2>3. \A l \in Lines : Fits(shown'[l], l) BY <1>1, <2>2, NothingFits
    <2>4. \A s \in Newest' : s = 0 \/ \E k \in Lines : Written(k) /\ s <= row[k].at
      <3> SUFFICES ASSUME NEW k \in Lines, shown'[k].at # 0 PROVE Written(k) /\ shown'[k].at <= row[k].at
        BY DEF Newest
      <3> QED BY <2>3 DEF Fits
    <2>5. \A k \in 1..Len(due') : due'[k].deleted => row[due'[k].line].is = "gone"
      <3>1. Len(due') = Len(due) - 1 /\ Len(due) \in Nat /\ \A k \in 1..Len(due') : due'[k] = due[k + 1]
        BY <1>0, <2>1, HeadTailProperties, LenProperties
      <3>2. \A k \in 1..Len(due') : k + 1 \in 1..Len(due) BY <3>1
      <3> QED BY <1>1, <3>1, <3>2
    <2> QED BY <1>0, <1>3, <2>1, <2>3, <2>4, <2>5, CopiesStill
  <1>11. ASSUME NEW i \in Asks, Answer(i) PROVE Copies'
    <2>1. \A l \in Lines : Fits(Since(ask[i].since)[l], l)
      <3> SUFFICES ASSUME NEW l \in Lines PROVE Fits(InPlace(l), l)
        BY NothingFits DEF Since
      <3>1. CASE There(l) BY <3>1, InPlaceTyped, <1>0 DEF Fits, Written, There, Row, Copies
      <3>2. CASE ~There(l) BY <3>2, InPlaceTyped, NothingFits
      <3> QED BY <3>1, <3>2
    <2>2. /\ ask'[i].rows = Since(ask[i].since) /\ ask'[i].since = ask[i].since
          /\ \A j \in Asks : j # i => ask'[j] = ask[j]
      BY <1>0, <1>11 DEF Answer, Ask
    <2>3. /\ \A j \in Asks, l \in Lines : Fits(ask'[j].rows[l], l)
          /\ \A j \in Asks : ask'[j].since = 0 \/ \E k \in Lines : Written(k) /\ ask'[j].since <= row[k].at
      BY <1>1, <2>1, <2>2
    <2> QED BY <1>0, <1>1, <1>11, <2>3, CopiesStill DEF Answer
  <1>12. ASSUME NEW i \in Asks, Fail(i) PROVE Copies'
    BY <1>0, <1>1, <1>4, <1>12, CopiesStill DEF Fail
  <1>13. ASSUME NEW i \in Asks, Merge(i) PROVE Copies'
    <2>1. \A l \in Lines : shown'[l] \in {shown[l], ask[i].rows[l]} BY <1>0, <1>13 DEF Merge, Merged
    <2>2. \A l \in Lines : Fits(shown'[l], l) BY <1>1, <2>1
    <2> QED BY <1>0, <1>1, <1>4, <1>13, <2>2, CopiesStill DEF Merge
  <1>14. CASE UNCHANGED vars
    BY <1>0, <1>1, <1>14, CopiesStill DEF vars
  <1> QED
    BY <1>5, <1>6, <1>7, <1>8, <1>9, <1>10, <1>11, <1>12, <1>13, <1>14 DEF Next, Thread

----------------------------------------------------------------------------
(* What has been read.                                                     *)

(* When a line is written, every stamp there is is as old, or older.       *)
LEMMA ReadWritten ==
    ASSUME TypeOK, TypeOK', Copies, Copies', Read, met' \cap Passed = {}, NEW l \in Lines,
           Create(l) \/ Edit(l) \/ Delete(l) \/ \E mine \in BOOLEAN : Stamp(l, mine)
    PROVE  AllRead' /\ ReadBefore' /\ NothingLeftOut'
  <1>0. /\ row \in [Lines -> Row] /\ shown \in [Lines -> Copy] /\ ask \in [Asks -> Ask]
        /\ row' \in [Lines -> Row] /\ clock \in Nat
    <2>1. row' \in [Lines -> Row] BY DEF TypeOK, Row, States
    <2> QED BY <2>1, Typed, Numbers
  <1>1. /\ UNCHANGED <<clock, due, shown, ask>> /\ \A k \in Lines : k # l => row'[k] = row[k]
    BY <1>0 DEF Create, Edit, Delete, Stamp
  <1>2. met \cap Passed = {}
    <2>1. met \subseteq met' BY DEF Create, Edit, Delete, Stamp, Happens
    <2> QED BY <2>1
  <1>3. AllRead /\ ReadBefore /\ NothingLeftOut BY <1>2 DEF Read
  <1>4. ASSUME There(l)', NEW k \in Lines, Written(k) PROVE row[k].at <= row'[l].at
    <2>1. row[k].at \in Nat /\ row[k].at <= clock BY <1>0 DEF Row, Copies
    <2>2. CASE Create(l)
      <3>1. row'[l].at = row[l].at /\ row[l].at \in Nat BY <1>0, <2>2 DEF Create, Row
      <3>2. ~(row[k].at > row[l].at)
        <4>1. "stamp" \notin met' BY DEF Passed
        <4> QED BY <1>4, <2>2, <4>1 DEF Create, Happens, Written
      <3> QED BY <2>1, <3>1, <3>2
    <2>3. CASE Edit(l)
      <3>1. row'[l].at = clock BY <1>0, <2>3 DEF Edit, Row
      <3> QED BY <2>1, <3>1
    <2>4. ~Delete(l) BY <1>0, <1>4 DEF Delete, There, Row
    <2>5. \A mine \in BOOLEAN : ~Stamp(l, mine) BY <1>0, <1>4 DEF Stamp, There, Row
    <2> QED BY <2>2, <2>3, <2>4, <2>5
  <1>5. ASSUME There(l)', NEW c \in Copy, NEW k \in Lines, Fits(c, k) PROVE ~(row'[l].at < c.at)
    <2>1. c.at \in Nat /\ row'[l].at \in Nat BY <1>0 DEF Copy, Row
    <2>2. CASE c.rev # 0
      <3>1. Written(k) /\ c.at <= row[k].at /\ row[k].at \in Nat BY <1>0, <1>5, <2>2 DEF Fits, Row
      <3>2. row[k].at <= row'[l].at BY <1>4, <1>5, <3>1
      <3> QED BY <2>1, <3>1, <3>2
    <2>3. CASE c.rev = 0 BY <1>5, <2>1, <2>3 DEF Fits
    <2> QED BY <2>2, <2>3
  <1>6. ASSUME There(l)', NEW i \in Asks PROVE ~(row'[l].at < ask[i].since)
    <2>1. ask[i].since \in Nat /\ row'[l].at \in Nat BY <1>0 DEF Ask, Row
    <2>2. ASSUME NEW k \in Lines, Written(k), ask[i].since <= row[k].at PROVE ask[i].since <= row'[l].at
      <3>1. row[k].at <= row'[l].at /\ row[k].at \in Nat BY <1>0, <1>4, <1>6, <2>2 DEF Row
      <3> QED BY <2>1, <2>2, <3>1
    <2> QED BY <2>1, <2>2 DEF Copies
  <1>7. AllRead'
    <2> SUFFICES ASSUME NEW m \in Lines, NEW k \in Lines, There(m)', row'[m].at < shown[k].at
                 PROVE  shown[m].rev = row'[m].rev
      BY <1>1 DEF AllRead
    <2>1. m # l BY <1>0, <1>5 DEF Copies
    <2> QED BY <1>1, <1>3, <2>1 DEF AllRead, There
  <1>8. ReadBefore'
    <2> SUFFICES ASSUME NEW i \in Asks, NEW m \in Lines, ask[i].pc \in {"asked", "answered"},
                        There(m)', row'[m].at < ask[i].since
                 PROVE  shown[m].rev = row'[m].rev
      BY <1>1 DEF ReadBefore, AsIs
    <2>1. m # l BY <1>6
    <2> QED BY <1>1, <1>3, <2>1 DEF ReadBefore, There, AsIs
  <1>9. NothingLeftOut'
    <2> SUFFICES ASSUME NEW i \in Asks, NEW m \in Lines, NEW k \in Lines, ask[i].pc = "answered",
                        There(m)', ask[i].since <= row'[m].at, row'[m].at < ask[i].rows[k].at
                 PROVE  ask[i].rows[m].rev = row'[m].rev
      BY <1>1 DEF NothingLeftOut
    <2>1. ask[i].rows[k] \in Copy /\ Fits(ask[i].rows[k], k) BY <1>0 DEF Copies, Ask
    <2>2. m # l BY <1>5, <2>1
    <2> QED BY <1>1, <1>3, <2>2 DEF NothingLeftOut, There
  <1> QED BY <1>7, <1>8, <1>9

(* An answer is put in place.                                              *)
LEMMA ReadMerged ==
    ASSUME TypeOK, Copies, Read, met' \cap Passed = {}, NEW i \in Asks, Merge(i)
    PROVE  AllRead' /\ ReadBefore' /\ NothingLeftOut'
  <1> DEFINE a == ask[i]
  <1>0. /\ row \in [Lines -> Row] /\ shown \in [Lines -> Copy] /\ ask \in [Asks -> Ask]
        /\ UNCHANGED row /\ a.pc \in {"answered", "sent"}
    BY Typed DEF Merge
  <1>1. AllRead /\ ReadBefore /\ NothingLeftOut
    <2>1. met \subseteq met' BY DEF Merge, Happens
    <2> QED BY <2>1 DEF Read
  <1>2. shown' = Merged(a.rows) BY DEF Merge
  <1>3. /\ ask' \in [Asks -> Ask] /\ ask'[i] = Free /\ Free.pc = "free" /\ \A j \in Asks : j # i => ask'[j] = ask[j]
    BY Freeing, FreeTyped DEF Merge
  <1>4. \A l \in Lines : What(a, l) \cap Passed = {}
    <2>1. met' = met \cup UNION {What(ask[i], k) : k \in Lines} BY DEF Merge, Happens
    <2> HIDE DEF What
    <2> QED BY <2>1
  <1>5. ASSUME NEW l \in Lines, There(l), shown[l].rev = row[l].rev PROVE shown'[l].rev = row[l].rev
    <2>1. ~(a.rows[l].rev # 0 /\ a.rows[l].rev < shown[l].rev) BY <1>4 DEF What, Passed
    <2>2. a.rows[l].rev \in Nat /\ shown[l].rev \in Nat /\ row[l].rev \in Nat BY <1>0 DEF Ask, Copy, Row
    <2>3. a.rows[l].rev = 0 \/ a.rows[l].rev <= row[l].rev BY DEF Copies, Fits
    <2>4. a.rows[l].rev \in {0, shown[l].rev} BY <1>5, <2>1, <2>2, <2>3
    <2> QED BY <1>2, <1>5, <2>4 DEF Merged
  <1>6. ASSUME NEW l \in Lines, NEW k \in Lines, There(l), row[l].at < a.rows[k].at PROVE shown'[l].rev = row[l].rev
    <2>1. CASE a.pc = "sent"
      <3>1. ~Unread(l) BY <1>4, <1>6, <2>1 DEF What, Passed
      <3> QED BY <1>5, <1>6, <3>1 DEF Unread
    <2>2. CASE a.pc = "answered"
      <3>1. a.since \in Nat /\ row[l].at \in Nat BY <1>0 DEF Ask, Row
      <3>2. CASE row[l].at < a.since BY <1>1, <1>5, <1>6, <2>2, <3>2 DEF ReadBefore, AsIs
      <3>3. CASE a.since <= row[l].at
        <4>1. a.rows[l].rev = row[l].rev BY <1>1, <1>6, <2>2, <3>3 DEF NothingLeftOut
        <4>2. row[l].rev # 0 BY <1>6 DEF Copies
        <4>3. shown'[l].rev = (IF a.rows[l].rev \notin {0, shown[l].rev} THEN a.rows[l] ELSE shown[l]).rev
          BY <1>2 DEF Merged
        <4> QED BY <4>1, <4>2, <4>3
      <3> QED BY <3>1, <3>2, <3>3
    <2> QED BY <1>0, <2>1, <2>2
  <1>7. AllRead'
    <2> SUFFICES ASSUME NEW l \in Lines, NEW k \in Lines, There(l), row[l].at < shown'[k].at
                 PROVE  shown'[l].rev = row[l].rev
      BY <1>0 DEF AllRead, There
    <2>1. shown'[k] \in {shown[k], a.rows[k]} BY <1>2 DEF Merged
    <2> QED BY <1>1, <1>5, <1>6, <2>1 DEF AllRead
  <1>8. ReadBefore'
    BY <1>0, <1>1, <1>3, <1>5 DEF ReadBefore, AsIs, There
  <1>9. NothingLeftOut'
    BY <1>0, <1>1, <1>3 DEF NothingLeftOut, There
  <1> QED BY <1>7, <1>8, <1>9

LEMMA StepRead == TypeOK /\ TypeOK' /\ Copies /\ Copies' /\ Read /\ [Next]_vars => Read'
  <1> SUFFICES ASSUME TypeOK, TypeOK', Copies, Copies', Read, [Next]_vars, met' \cap Passed = {}
               PROVE  AllRead' /\ ReadBefore' /\ NothingLeftOut'
    BY DEF Read
  <1>0. /\ row \in [Lines -> Row] /\ untold \subseteq Told /\ due \in Seq(Events)
        /\ shown \in [Lines -> Copy] /\ ask \in [Asks -> Ask]
    BY Typed
  <1>1. ASSUME met \subseteq met' PROVE AllRead /\ ReadBefore /\ NothingLeftOut
    BY <1>1 DEF Read
  <1>2. ASSUME met \subseteq met', UNCHANGED <<row, shown, ask>> PROVE AllRead' /\ ReadBefore' /\ NothingLeftOut'
    BY <1>1, <1>2 DEF AllRead, ReadBefore, NothingLeftOut, AsIs, There
  <1>3. ASSUME NEW i \in Asks, NEW s \in 0..MaxTime, AskFrom(i, s), met \subseteq met', UNCHANGED row,
               \A l \in Lines : There(l) => shown'[l] = shown[l],
               \A l \in Lines : There(l) /\ row[l].at < s => AsIs(l),
               AllRead'
        PROVE  AllRead' /\ ReadBefore' /\ NothingLeftOut'
    <2>1. /\ ask'[i].pc = "asked" /\ ask'[i].since = s /\ \A j \in Asks : j # i => ask'[j] = ask[j]
      BY <1>3, Asking
    <2>2. ReadBefore' BY <1>1, <1>3, <2>1 DEF ReadBefore, AsIs, There
    <2>3. NothingLeftOut' BY <1>1, <1>3, <2>1 DEF NothingLeftOut, There
    <2> QED BY <1>3, <2>2, <2>3
  <1>4. CASE Tick \/ Listen \/ Lose \/ UNCHANGED vars
    BY <1>2, <1>4 DEF Tick, Listen, Lose, Happens, vars
  <1>5. ASSUME NEW l \in Lines, Create(l) \/ Edit(l) \/ Delete(l) \/ \E mine \in BOOLEAN : Stamp(l, mine)
        PROVE  AllRead' /\ ReadBefore' /\ NothingLeftOut'
    BY <1>5, ReadWritten
  <1>6. ASSUME NEW w \in untold, Tell(w) PROVE AllRead' /\ ReadBefore' /\ NothingLeftOut'
    <2>1. UNCHANGED <<row, shown, met>> BY <1>6 DEF Tell
    <2>2. CASE ask' = ask BY <1>2, <2>1, <2>2
    <2>3. CASE ask' # ask
      <3>1. PICK i \in Asks :
              ask' = [ask EXCEPT ![i] = [pc |-> "sent", since |-> 0,
                                         rows |-> [Free.rows EXCEPT ![w.line] = InPlace(w.line)]]]
        BY <1>6, <2>3 DEF Tell
      <3>2. w.line \in Lines BY <1>0 DEF Told
      <3>3. ask'[i].pc = "sent" /\ \A j \in Asks : j # i => ask'[j] = ask[j] BY <3>1, <3>2, Sending
      <3> QED BY <1>1, <2>1, <3>3 DEF AllRead, ReadBefore, NothingLeftOut, AsIs, There
    <2> QED BY <2>2, <2>3
  <1>7. CASE Open
    <2>1. UNCHANGED <<row, shown, met>> /\ \E i \in Asks : AskFrom(i, 0) BY <1>7 DEF Open
    <2>2. \A l \in Lines : ~(row[l].at < 0) BY <1>0 DEF Row
    <2>3. AllRead' BY <1>1, <2>1 DEF AllRead, There
    <2> QED BY <1>3, <2>1, <2>2, <2>3, Numbers
  <1>8. CASE Poll
    <2>1. UNCHANGED <<row, shown, met>> /\ \E i \in Asks, s \in Newest : AskFrom(i, s) BY <1>8 DEF Poll
    <2>2. \A s \in Newest : s \in 0..MaxTime BY <1>0, Numbers DEF Newest, Copy
    <2>3. ASSUME NEW s \in Newest, NEW l \in Lines, There(l), row[l].at < s PROVE AsIs(l)
      <3>1. s # 0 BY <1>0, <2>3 DEF Row
      <3>2. PICK k \in Lines : s = shown[k].at BY <3>1 DEF Newest
      <3> QED BY <1>1, <2>1, <2>3, <3>2 DEF AllRead, AsIs
    <2>4. AllRead' BY <1>1, <2>1 DEF AllRead, There
    <2> QED BY <1>3, <2>1, <2>2, <2>3, <2>4
  <1>9. CASE Hear
    <2>1. /\ due # <<>> /\ UNCHANGED <<row, met>> /\ shown' = TakenOff(Head(due))
          /\ \E i \in Asks, s \in 0..MaxTime : s \in Newest' /\ AskFrom(i, s)
      BY <1>9 DEF Hear, Feed!Hear
    <2>2. Head(due) \in Events /\ (Head(due).deleted => row[Head(due).line].is = "gone")
      BY <1>0, <2>1, HeadTailProperties, LenProperties, EmptySeq DEF Copies
    <2>3. \A l \in Lines : There(l) => shown'[l] = shown[l]
      BY <1>0, <2>1, <2>2 DEF TakenOff, There, Events
    <2>4. \A l \in Lines : shown'[l] \in {shown[l], Nothing} BY <1>0, <2>1 DEF TakenOff
    <2>5. ASSUME NEW l \in Lines, NEW k \in Lines, There(l), row[l].at < shown'[k].at PROVE AsIs(l)
      <3>1. shown'[k] = shown[k]
        <4>1. ~(row[l].at < 0) BY <1>0 DEF Row
        <4> QED BY <2>4, <2>5, <4>1, FreeTyped
      <3> QED BY <1>1, <2>1, <2>5, <3>1 DEF AllRead, AsIs
    <2>6. AllRead' BY <2>1, <2>3, <2>5 DEF AllRead, There, AsIs
    <2>7. ASSUME NEW s \in Newest', NEW l \in Lines, There(l), row[l].at < s PROVE AsIs(l)
      <3>1. s # 0 BY <1>0, <2>7 DEF Row
      <3>2. PICK k \in Lines : s = shown'[k].at BY <3>1 DEF Newest
      <3> QED BY <2>5, <2>7, <3>2
    <2> QED BY <1>3, <2>1, <2>3, <2>6, <2>7
  <1>10. ASSUME NEW i \in Asks, Answer(i) PROVE AllRead' /\ ReadBefore' /\ NothingLeftOut'
    <2>1. /\ UNCHANGED <<row, shown, met>> /\ ask[i].pc = "asked" /\ \A j \in Asks : j # i => ask'[j] = ask[j]
          /\ ask'[i].since = ask[i].since /\ ask'[i].pc = "answered" /\ ask'[i].rows = Since(ask[i].since)
      BY <1>0, <1>10 DEF Answer, Ask
    <2>2. AllRead' BY <1>1, <2>1 DEF AllRead, There
    <2>3. ReadBefore' BY <1>1, <2>1 DEF ReadBefore, AsIs, There
    <2>4. \A l \in Lines : There(l) /\ ask[i].since <= row[l].at => Since(ask[i].since)[l].rev = row[l].rev
      <3> SUFFICES ASSUME NEW l \in Lines, There(l), ask[i].since <= row[l].at
                   PROVE  Since(ask[i].since)[l].rev = row[l].rev
        OBVIOUS
      <3>1. row[l].at >= ask[i].since BY <1>0 DEF Row, Ask
      <3>2. Since(ask[i].since)[l] = InPlace(l) BY <3>1 DEF Since
      <3> QED BY <3>2, InPlaceTyped
    <2>5. NothingLeftOut' BY <1>1, <2>1, <2>4 DEF NothingLeftOut, There
    <2> QED BY <2>2, <2>3, <2>5
  <1>11. ASSUME NEW i \in Asks, Fail(i) PROVE AllRead' /\ ReadBefore' /\ NothingLeftOut'
    <2>1. /\ UNCHANGED <<row, shown, met>> /\ ask'[i].pc = "free" /\ \A j \in Asks : j # i => ask'[j] = ask[j]
      BY <1>11, Freeing, FreeTyped DEF Fail
    <2> QED BY <1>1, <2>1 DEF AllRead, ReadBefore, NothingLeftOut, AsIs, There
  <1>12. ASSUME NEW i \in Asks, Merge(i) PROVE AllRead' /\ ReadBefore' /\ NothingLeftOut'
    BY <1>12, ReadMerged
  <1> QED
    BY <1>4, <1>5, <1>6, <1>7, <1>8, <1>9, <1>10, <1>11, <1>12 DEF Next, Thread

LEMMA InitRead == Init => Copies /\ Read
  <1> SUFFICES ASSUME Init PROVE Copies /\ Read
    OBVIOUS
  <1>1. /\ due = <<>> /\ \A l \in Lines : row[l].is = "none" /\ row[l].rev = 0 /\ row[l].at = 0
        /\ \A l \in Lines : shown[l] = Nothing
        /\ \A i \in Asks : ask[i] = Free
    BY FreeTyped DEF Init, Feed!Init
  <1>2. Copies BY <1>1, FreeTyped, NothingFits, EmptySeq DEF Init, Copies, Written, There
  <1>3. AllRead /\ ReadBefore /\ NothingLeftOut
    BY <1>1, FreeTyped DEF AllRead, ReadBefore, NothingLeftOut, There
  <1> QED BY <1>2, <1>3 DEF Read

(* The screen, which asks only for what is as new as the newest it shows,  *)
(* has on it as it is whatever is older, however edits, deletions, answers *)
(* and what the feed says or loses fall together, until one of Passed has  *)
(* happened (catchUp and merge in drawConversation, _since in the list).   *)
THEOREM LeavesNoneBehind == Spec => []NoneBehind
  <1>1. TypeOK /\ TypeOK' /\ Copies /\ [Next]_vars => Copies'
    BY StepCopies
  <1>2. Spec => []Copies
    BY TypeCorrect, InitRead, <1>1, PTL DEF Spec
  <1>3. TypeOK /\ TypeOK' /\ Copies /\ Copies' /\ Read /\ [Next]_vars => Read'
    BY StepRead
  <1>4. Spec => []Read
    BY TypeCorrect, InitRead, <1>2, <1>3, PTL DEF Spec
  <1>5. Read => NoneBehind
    BY DEF Read, NoneBehind
  <1> QED BY <1>4, <1>5, PTL
=============================================================================
