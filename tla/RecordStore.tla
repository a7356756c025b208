----------------------------- MODULE RecordStore -----------------------------
(***************************************************************************)
(* The record store (server/records.py) over one datamodel of cards that   *)
(* are ordered within a board and a stage, the way a CRM's deals are: the  *)
(* link to the board cascades a delete, the link to the stage is cleared   *)
(* by one.  Every card, board and stage is in a space all clients see.     *)
(*                                                                         *)
(* A step is one transaction, or one statement outside of any: update and  *)
(* delete take the write lock before they read, so each is one step; create*)
(* and sweep read first and lock with their first write, so another        *)
(* client's transaction fits in between.  The listeners are told after the *)
(* commit, by a step of their own.                                         *)
(*                                                                         *)
(* Not here: who may see and change what, sealing, datamodels kept by a    *)
(* backend, spaces' members and what they have looked at, locked records.  *)
(***************************************************************************)
EXTENDS Integers, FiniteSets

CONSTANTS
    Cards,       \* the ids create may draw, numbered: ids break ties of order
    Boards,
    Stages,
    NoStage,     \* the stage of a card that has none
    Clients,     \* threads that serve requests
    HomeOf,      \* HomeOf[s]: the board stage s is in
    MaxWrites,   \* bound: updates accepted in one behaviour
    Hazards      \* what happens in this instance, besides creates and updates

(***************************************************************************)
(* "race":    others commit between a create's or a sweep's look and write.*)
(* "cards":   cards are deleted.                                           *)
(* "boards":  boards are deleted, and with them what is in them.           *)
(* "stages":  stages are deleted, and links to them cleared.               *)
(* "expire":  an expire job takes cards that were done long ago.           *)
(***************************************************************************)
HazardKinds == {"race", "cards", "boards", "stages", "expire"}

ASSUME ConstantsAssumption ==
    /\ Cards \subseteq Nat \ {0} /\ IsFiniteSet(Cards)
    /\ Boards # {} /\ NoStage \notin Stages
    /\ HomeOf \in [Stages -> Boards]
    /\ MaxWrites \in Nat
    /\ Hazards \subseteq HazardKinds

Writes   == 1..MaxWrites
Groups   == Boards \X (Stages \cup {NoStage})
Places   == 0..Cardinality(Cards)
Moments  == {"open", "done", "long ago"}

VARIABLES
    boards,     \* the boards there are
    stages,     \* the stages there are
    cards,      \* the cards there are
    born,       \* ids that were ever drawn
    group,      \* group[i]: the board and the stage card i links to
    pos,        \* pos[i]: position
    rev,        \* rev[i]: rev
    said,       \* said[i]: the writes whose words the card holds
    stamp,      \* stamp[i]: when it was done, to the expire job
    lines,      \* record_changes: <<card, action, rev>>
    accepted,   \* history: the writes card i was answered well for
    writes,     \* updates so far
    untold,     \* history: the changes committed and not yet told
    doing,      \* doing[c]: what client c is at
    copy        \* copy[c]: the card it last read

content == <<said, stamp>>
things  == <<boards, stages>>
history == <<lines, untold>>
vars    == <<things, cards, born, group, pos, rev, content, history, accepted, writes, doing, copy>>

----------------------------------------------------------------------------
(* Order.  A name with a suffix is a slip the definition after it could    *)
(* have had: no specification uses it.                                     *)

(* _group_ids: the cards of a group.                                       *)
In(g, C) == {i \in C : group[i] = g}

(* ORDER BY position, created_at, id: ids are drawn in any order, so where *)
(* positions are the same either card may be the earlier one.              *)
Before(p, i, j) == p[i] < p[j] \/ (p[i] = p[j] /\ i < j)

Rank(p, i, S) == Cardinality({j \in S : Before(p, j, i)})

(* Where _renumber puts the cards of S that stand at p.                    *)
Renumbered_not(p, S) == p
Renumbered(p, S) == [i \in Cards |-> IF i \in S THEN Rank(p, i, S) ELSE p[i]]

(* And where it puts them when m is taken out and put back at place k.     *)
Inserted(p, S, m, k) ==
    LET others == S \ {m}
        spot   == IF k < Cardinality(others) THEN k ELSE Cardinality(others)
        shoved == [i \in Cards |-> IF i \notin others THEN p[i]
                                   ELSE Rank(p, i, others) + (IF Rank(p, i, others) < spot THEN 0 ELSE 1)]
    IN  [shoved EXCEPT ![m] = spot]

----------------------------------------------------------------------------
(* Transactions beside one another.                                        *)

AtRest    == [step |-> "rest"]
Telling(i, action, r) == [step |-> "tell", change |-> <<i, action, r>>]

(* Unless "race" is met, nobody commits between another's look and write.  *)
MayCommit(c) == "race" \in Hazards \/ \A d \in Clients : doing[d].step \notin {"insert", "expire"}

Asks(c) == doing[c] = AtRest /\ MayCommit(c)

(* _log, in the transaction of the change it is a line about.              *)
Commit_unlogged(changes) == untold' = untold \cup changes /\ lines' = lines
Commit(changes) ==
    /\ lines' = lines \cup changes
    /\ untold' = untold \cup changes

----------------------------------------------------------------------------
(* get: a client reads a card.                                             *)
Get(c, i) ==
    /\ doing[c] = AtRest
    /\ i \in cards
    /\ copy' = [copy EXCEPT ![c] = [card |-> i, rev |-> rev[i], said |-> said[i]]]
    /\ UNCHANGED <<things, cards, born, group, pos, rev, content, history, accepted, writes, doing>>

Reaches(g) == g[1] \in boards /\ g[2] \in stages \cup {NoStage}

(* create, up to its first write: the links reach something, and the new   *)
(* card is to go behind those of its group.                                *)
LookCreate(c, i, g) ==
    /\ Asks(c)
    /\ i \notin born
    /\ Reaches(g)
    /\ doing' = [doing EXCEPT ![c] =
          [step |-> "insert", card |-> i, group |-> g, place |-> Cardinality(In(g, cards))]]
    /\ born' = born \cup {i}
    /\ UNCHANGED <<things, cards, group, pos, rev, content, history, accepted, writes, copy>>

(* The insert and the rest of its transaction, at the end or at an index.  *)
InsertCreate(c) ==
    /\ doing[c].step = "insert"
    /\ LET i == doing[c].card
           g == doing[c].group
       IN  /\ cards' = cards \cup {i}
           /\ group' = [group EXCEPT ![i] = g]
           /\ \/ pos' = [pos EXCEPT ![i] = doing[c].place]
              \/ \E k \in Places : pos' = Inserted(pos, In(g, cards) \cup {i}, i, k)
           /\ rev' = [rev EXCEPT ![i] = 1]
           /\ Commit({<<i, "created", 1>>})
           /\ doing' = [doing EXCEPT ![c] = Telling(i, "created", 1)]
    /\ UNCHANGED <<things, born, content, accepted, writes, copy>>

(* A write that names the revision it was made from is refused on another. *)
Fresh_any(c, i) == copy[c].card = i
Fresh(c, i) == copy[c].card = i /\ copy[c].rev = rev[i]

(* The words of the write go into the card it was made from, or over what  *)
(* is there when it names no revision.                                     *)
Say(c, i, named) ==
    LET w == writes + 1
    IN  /\ w \in Writes /\ writes' = w
        /\ said' = [said EXCEPT ![i] = (IF named THEN copy[c].said ELSE {}) \cup {w}]
        /\ accepted' = [accepted EXCEPT ![i] = (IF named THEN @ ELSE {}) \cup {w}]

(* The stamp of a field that says done: set on entering, kept, cleared.    *)
Stamped(i, done) == IF ~done THEN "open" ELSE IF stamp[i] = "open" THEN "done" ELSE stamp[i]

(* The old group closes up; in the new one the card is last, or at index k.*)
Reorder(i, g) ==
    LET here  == In(group[i], cards)
        there == In(g, cards)
        left  == Renumbered([pos EXCEPT ![i] = Cardinality(there)], here \ {i})
    IN  IF group[i] = g
        THEN pos' = pos \/ \E k \in Places : pos' = Inserted(pos, here, i, k)
        ELSE \/ pos' = Renumbered(left, there \cup {i})
             \/ \E k \in Places : pos' = Inserted(left, there \cup {i}, i, k)

(* update and move: read, checked and written under the lock.              *)
Update(c, i, g, done, named) ==
    /\ Asks(c)
    /\ i \in cards
    /\ named => Fresh(c, i)
    /\ Reaches(g)
    /\ Say(c, i, named)
    /\ group' = [group EXCEPT ![i] = g]
    /\ stamp' = [stamp EXCEPT ![i] = Stamped(i, done)]
    /\ Reorder(i, g)
    /\ rev' = [rev EXCEPT ![i] = @ + 1]
    /\ Commit({<<i, "changed", rev[i] + 1>>})
    /\ doing' = [doing EXCEPT ![c] = Telling(i, "changed", rev[i] + 1)]
    /\ UNCHANGED <<things, cards, born, copy>>

(* The listeners are told of the record as it is now; if it is gone, the   *)
(* get before it raises and they are told nothing.                         *)
Tell(c) ==
    /\ doing[c].step = "tell"
    /\ LET change == doing[c].change
       IN  untold' = IF change[1] \in cards \/ change[2] = "deleted" THEN untold \ {change} ELSE untold
    /\ doing' = [doing EXCEPT ![c] = AtRest]
    /\ UNCHANGED <<things, cards, born, group, pos, rev, content, lines, accepted, writes, copy>>

----------------------------------------------------------------------------
(* Deletes: _delete and what it follows.                                   *)

(* The cards of C go; the groups they leave close up.                      *)
TakeOut_open(C) == cards' = cards \ C /\ pos' = pos
TakeOut_by_id(C) ==
    /\ cards' = cards \ C
    /\ pos' = [i \in Cards |-> IF i \in cards \ C /\ (\E j \in C : group[j] = group[i])
                               THEN Cardinality({j \in In(group[i], cards \ C) : j < i}) ELSE pos[i]]
TakeOut(C) ==
    /\ cards' = cards \ C
    /\ pos' = [i \in Cards |-> IF i \in cards \ C /\ (\E j \in C : group[j] = group[i])
                               THEN Rank(pos, i, In(group[i], cards \ C)) ELSE pos[i]]

Gone(C, action) == {<<i, action, rev[i]>> : i \in C}

DeleteCard(c, i) ==
    /\ "cards" \in Hazards
    /\ Asks(c)
    /\ i \in cards
    /\ TakeOut({i})
    /\ Commit(Gone({i}, "deleted"))
    /\ doing' = [doing EXCEPT ![c] = Telling(i, "deleted", rev[i])]
    /\ UNCHANGED <<things, born, group, rev, content, accepted, writes, copy>>

(* A link to a deleted stage is cleared: a new rev, the same position, and *)
(* no line.                                                                *)
Cleared(C) ==
    /\ group' = [i \in Cards |-> IF i \in C THEN <<group[i][1], NoStage>> ELSE group[i]]
    /\ rev' = [i \in Cards |-> IF i \in C THEN rev[i] + 1 ELSE rev[i]]

DeleteStage(c, s) ==
    /\ "stages" \in Hazards
    /\ Asks(c)
    /\ s \in stages
    /\ stages' = stages \ {s}
    /\ Cleared({i \in cards : group[i][2] = s})
    /\ UNCHANGED <<boards, cards, born, pos, content, history, accepted, writes, doing, copy>>

(* A board's cards go with it, and its stages, whose links are cleared.    *)
OfBoard_linked(b) == {i \in cards : group[i][1] = b /\ group[i][2] # NoStage}
OfBoard(b) == {i \in cards : group[i][1] = b}

DeleteBoard(c, b) ==
    /\ "boards" \in Hazards
    /\ Asks(c)
    /\ b \in boards
    /\ boards' = boards \ {b}
    /\ stages' = {s \in stages : HomeOf[s] # b}
    /\ TakeOut(OfBoard(b))
    /\ Cleared({i \in cards \ OfBoard(b) : group[i][2] \in stages \ stages'})
    /\ Commit(Gone(OfBoard(b), "deleted"))
    /\ UNCHANGED <<born, content, accepted, writes, doing, copy>>

----------------------------------------------------------------------------
(* The expire job: what was done long ago goes.                            *)

Old_done == {i \in cards : stamp[i] # "open"}
Old == {i \in cards : stamp[i] = "long ago"}

(* sweep, up to its first write.                                           *)
LookSweep(c) ==
    /\ "expire" \in Hazards
    /\ Asks(c)
    /\ Old # {}
    /\ doing' = [doing EXCEPT ![c] = [step |-> "expire", old |-> Old]]
    /\ UNCHANGED <<things, cards, born, group, pos, rev, content, history, accepted, writes, copy>>

(* What it found and is still there is deleted; the stamp is not looked at *)
(* again.                                                                  *)
Sweep(c) ==
    /\ doing[c].step = "expire"
    /\ LET old == doing[c].old \cap cards
       IN  TakeOut(old) /\ Commit(Gone(old, "expired"))
    /\ doing' = [doing EXCEPT ![c] = AtRest]
    /\ UNCHANGED <<things, born, group, rev, content, accepted, writes, copy>>

Age(i) ==
    /\ "expire" \in Hazards
    /\ i \in cards /\ stamp[i] = "done"
    /\ stamp' = [stamp EXCEPT ![i] = "long ago"]
    /\ UNCHANGED <<things, cards, born, group, pos, rev, said, history, accepted, writes, doing, copy>>

----------------------------------------------------------------------------
NoCopy == [card |-> 0, rev |-> 0, said |-> {}]

Init ==
    /\ boards = Boards /\ stages = Stages
    /\ cards = {} /\ born = {}
    /\ group = [i \in Cards |-> <<CHOOSE b \in Boards : TRUE, NoStage>>]
    /\ pos = [i \in Cards |-> 0]
    /\ rev = [i \in Cards |-> 0]
    /\ said = [i \in Cards |-> {}]
    /\ stamp = [i \in Cards |-> "open"]
    /\ lines = {} /\ untold = {}
    /\ accepted = [i \in Cards |-> {}]
    /\ writes = 0
    /\ doing = [c \in Clients |-> AtRest]
    /\ copy = [c \in Clients |-> NoCopy]

Serve(c) ==
    \/ \E i \in Cards : Get(c, i)
    \/ \E i \in Cards, g \in Groups : LookCreate(c, i, g)
    \/ InsertCreate(c)
    \/ \E i \in Cards, g \in Groups, done \in BOOLEAN, named \in BOOLEAN : Update(c, i, g, done, named)
    \/ Tell(c)
    \/ \E i \in Cards : DeleteCard(c, i)
    \/ \E s \in Stages : DeleteStage(c, s)
    \/ \E b \in Boards : DeleteBoard(c, b)
    \/ LookSweep(c)
    \/ Sweep(c)

Next == (\E c \in Clients : Serve(c)) \/ (\E i \in Cards : Age(i))

Spec == Init /\ [][Next]_vars

----------------------------------------------------------------------------
(* Properties.                                                             *)

Changes == Cards \X {"created", "changed", "deleted", "expired"} \X Nat

TableTypeOK ==
    /\ boards \subseteq Boards /\ stages \subseteq Stages
    /\ cards \subseteq Cards /\ born \subseteq Cards
    /\ group \in [Cards -> Groups]
    /\ pos \in [Cards -> Nat] /\ rev \in [Cards -> Nat]
    /\ said \in [Cards -> SUBSET Writes] /\ stamp \in [Cards -> Moments]

RequestTypeOK ==
    /\ lines \subseteq Changes /\ untold \subseteq lines
    /\ accepted \in [Cards -> SUBSET Writes] /\ writes \in Writes \cup {0}
    /\ doing \in [Clients -> {AtRest}
                   \cup [step : {"insert"}, card : Cards, group : Groups, place : Nat]
                   \cup [step : {"tell"}, change : Changes]
                   \cup [step : {"expire"}, old : SUBSET Cards]]
    /\ copy \in [Clients -> [card : Cards \cup {0}, rev : Nat, said : SUBSET Writes]]

TypeOK == TableTypeOK /\ RequestTypeOK

(* "Refuses a write that names an older one": a write answered well is in  *)
(* the card until somebody writes over it on purpose, whoever else writes, *)
(* moves cards or clears links in between.                                 *)
NothingLost == \A i \in cards : accepted[i] \subseteq said[i]

(* "Writes every change to record_changes": every revision a living card   *)
(* has had is on a line.                                                   *)
HistoryWhole ==
    \A i \in cards : \A r \in 1..rev[i] : <<i, "created", r>> \in lines \/ <<i, "changed", r>> \in lines

(* "Keeps positions inside each group of ordered_within as 0..n-1".        *)
Positions ==
    \A i \in cards : /\ pos[i] < Cardinality(In(group[i], cards))
                     /\ \A j \in In(group[i], cards) \ {i} : pos[j] # pos[i]

(* A link reaches a board and a stage that are there.                      *)
LinksReach == \A i \in cards : Reaches(group[i])

(* The sweep takes what is old when it goes, not what was old once.        *)
SweepTakesOld ==
    [][\A i \in cards : <<i, "expired", rev[i]>> \in lines' \ lines => stamp[i] = "long ago"]_vars

(* "Told after every create, change and delete that committed": once every *)
(* request is answered nothing committed is left to tell.                  *)
AllTold == (\A c \in Clients : doing[c] = AtRest) => untold = {}

(* The cards of each group, in the order of their positions, do what       *)
(* BoardOrder describes: what others do to a board moves no card past one  *)
(* that was before it.                                                     *)
Unstaged(g) == <<g[1], NoStage>>

Order == INSTANCE BoardOrder
         WITH Merged  <- [g \in Groups |-> Unstaged(g)],
              held    <- [g \in Groups |-> In(g, cards)],
              earlier <- {e \in cards \X cards : group[e[1]] = group[e[2]] /\ Before(pos, e[1], e[2])}

InOrder == Order!Spec
=============================================================================
