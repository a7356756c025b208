------------------------- MODULE RecordStore_proofs -------------------------
(* Proofs about RecordStore, for every value of its constants.             *)
EXTENDS RecordStore, FiniteSetTheorems, TLAPS

----------------------------------------------------------------------------
(* Ranks: counting those before it gives each card of a set a place of its *)
(* own, below the size of the set.                                         *)

Placed(p, S) ==
    \A i \in S : /\ p[i] < Cardinality(S)
                 /\ \A j \in S \ {i} : p[j] # p[i]

LEMMA Counted ==
    ASSUME NEW S \in SUBSET Cards
    PROVE  IsFiniteSet(S) /\ Cardinality(S) \in Nat
  <1>1. IsFiniteSet(Cards) /\ S \in SUBSET Cards
    BY ConstantsAssumption
  <1>2. IsFiniteSet(S)
    BY <1>1, FS_Subset
  <1> QED BY <1>2, FS_CardinalityType

LEMMA RankNat ==
    ASSUME NEW p, NEW i, NEW S \in SUBSET Cards
    PROVE  Rank(p, i, S) \in Nat
  <1>1. {j \in S : Before(p, j, i)} \in SUBSET Cards
    OBVIOUS
  <1> QED BY <1>1, Counted DEF Rank

LEMMA RankBelow ==
    ASSUME NEW p \in [Cards -> Nat], NEW S \in SUBSET Cards, NEW i \in S
    PROVE  Rank(p, i, S) < Cardinality(S)
  <1> DEFINE T == {j \in S : Before(p, j, i)}
  <1>1. T \in SUBSET S /\ i \notin T
    BY ConstantsAssumption DEF Before
  <1>2. IsFiniteSet(S) /\ Cardinality(S) \in Nat
    BY Counted
  <1>3. Cardinality(T) <= Cardinality(S) /\ (Cardinality(S) = Cardinality(T) => S = T)
    BY <1>1, <1>2, FS_Subset
  <1>4. Cardinality(T) \in Nat
    BY <1>1, Counted
  <1>5. S # T
    BY <1>1
  <1>6. Cardinality(T) < Cardinality(S)
    BY <1>2, <1>3, <1>4, <1>5
  <1> QED BY <1>6 DEF Rank

LEMMA RankGrows ==
    ASSUME NEW p \in [Cards -> Nat], NEW S \in SUBSET Cards, NEW i \in S, NEW j \in S, Before(p, i, j)
    PROVE  Rank(p, i, S) < Rank(p, j, S)
  <1> DEFINE T == {k \in S : Before(p, k, i)}
             U == {k \in S : Before(p, k, j)}
  <1>1. T \in SUBSET U /\ i \in U /\ i \notin T
    <2>1. ASSUME NEW k \in S, Before(p, k, i) PROVE Before(p, k, j)
      <3>1. k \in Nat /\ i \in Nat /\ j \in Nat /\ p[k] \in Nat /\ p[i] \in Nat /\ p[j] \in Nat
        BY ConstantsAssumption
      <3> QED BY <2>1, <3>1 DEF Before
    <2>2. i \in Nat /\ p[i] \in Nat
      BY ConstantsAssumption
    <2>3. ~Before(p, i, i)
      BY <2>2 DEF Before
    <2> QED BY <2>1, <2>3
  <1>2. IsFiniteSet(U) /\ Cardinality(U) \in Nat /\ Cardinality(T) \in Nat
    <2>1. U \in SUBSET Cards /\ T \in SUBSET Cards
      OBVIOUS
    <2> QED BY <2>1, Counted
  <1>3. Cardinality(T) <= Cardinality(U) /\ (Cardinality(U) = Cardinality(T) => U = T)
    BY <1>1, <1>2, FS_Subset
  <1>4. Cardinality(T) < Cardinality(U)
    BY <1>1, <1>2, <1>3
  <1>5. Rank(p, i, S) = Cardinality(T) /\ Rank(p, j, S) = Cardinality(U)
    BY DEF Rank
  <1> HIDE DEF T, U
  <1> QED BY <1>4, <1>5

LEMMA RankOwn ==
    ASSUME NEW p \in [Cards -> Nat], NEW S \in SUBSET Cards, NEW i \in S, NEW j \in S, i # j
    PROVE  Rank(p, i, S) # Rank(p, j, S)
  <1>1. Before(p, i, j) \/ Before(p, j, i)
    BY ConstantsAssumption DEF Before
  <1>2. Rank(p, i, S) \in Nat /\ Rank(p, j, S) \in Nat
    BY RankNat
  <1> QED BY <1>1, <1>2, RankGrows

(* Renumbering a group places it, and disturbs no other card.              *)
LEMMA RenumberedPlaced ==
    ASSUME NEW p \in [Cards -> Nat], NEW S \in SUBSET Cards
    PROVE  /\ Renumbered(p, S) \in [Cards -> Nat]
           /\ Placed(Renumbered(p, S), S)
           /\ \A i \in Cards \ S : Renumbered(p, S)[i] = p[i]
  <1>1. \A i \in S : Rank(p, i, S) \in Nat
    BY RankNat
  <1>2. Renumbered(p, S) \in [Cards -> Nat] /\ \A i \in Cards \ S : Renumbered(p, S)[i] = p[i]
    BY <1>1 DEF Renumbered
  <1>3. \A i \in S : Renumbered(p, S)[i] = Rank(p, i, S)
    BY DEF Renumbered
  <1>4. Placed(Renumbered(p, S), S)
    BY <1>3, RankBelow, RankOwn DEF Placed
  <1> QED BY <1>2, <1>4

(* So does putting one of its cards at a place.                            *)
LEMMA InsertedPlaced ==
    ASSUME NEW p \in [Cards -> Nat], NEW S \in SUBSET Cards, NEW m \in S, NEW k \in Nat
    PROVE  /\ Inserted(p, S, m, k) \in [Cards -> Nat]
           /\ Placed(Inserted(p, S, m, k), S)
           /\ \A i \in Cards \ S : Inserted(p, S, m, k)[i] = p[i]
  <1> DEFINE others == S \ {m}
             n == Cardinality(others)
             spot == IF k < n THEN k ELSE n
             q == Inserted(p, S, m, k)
             r == [i \in others |-> Rank(p, i, others)]
  <1>1. others \in SUBSET Cards
    OBVIOUS
  <1>2. n \in Nat /\ Cardinality(S) = n + 1
    <2>1. IsFiniteSet(S) /\ Cardinality(S) \in Nat /\ n \in Nat
      BY <1>1, Counted
    <2>2. n = Cardinality(S) - 1
      BY <2>1, FS_RemoveElement
    <2> QED BY <2>1, <2>2
  <1>3. \A i \in others : r[i] \in Nat /\ r[i] < n
    BY <1>1, RankNat, RankBelow
  <1>4. \A i, j \in others : i # j => r[i] # r[j]
    BY <1>1, RankOwn
  <1>5. spot \in Nat /\ spot <= n
    BY <1>2
  <1>6. /\ q[m] = spot
        /\ \A i \in others : q[i] = r[i] + (IF r[i] < spot THEN 0 ELSE 1)
        /\ \A i \in Cards \ S : q[i] = p[i]
    BY DEF Inserted
  <1> HIDE DEF n, spot, r
  <1>7. q \in [Cards -> Nat]
    <2>1. DOMAIN q = Cards /\ q = [i \in Cards |-> q[i]]
      BY DEF Inserted
    <2>2. \A i \in Cards : q[i] \in Nat
      BY <1>3, <1>5, <1>6
    <2> HIDE DEF q
    <2> QED BY <2>1, <2>2
  <1> HIDE DEF q
  <1>8. Placed(q, S)
    <2>1. \A i \in others : q[i] \in Nat /\ q[i] < n + 1 /\ q[i] # spot
      BY <1>2, <1>3, <1>5, <1>6
    <2>2. \A i, j \in others : i # j => q[i] # q[j]
      BY <1>3, <1>4, <1>5, <1>6
    <2>3. \A i \in S : q[i] < Cardinality(S)
      BY <1>2, <1>5, <1>6, <2>1
    <2>4. \A i \in S : \A j \in S \ {i} : q[j] # q[i]
      BY <1>6, <2>1, <2>2
    <2> QED BY <2>3, <2>4 DEF Placed
  <1> QED BY <1>6, <1>7, <1>8 DEF q
----------------------------------------------------------------------------
(* Type correctness.                                                       *)

LEMMA ReorderTyped ==
    ASSUME TypeOK, NEW i \in cards, NEW g \in Groups, Reorder(i, g)
    PROVE  pos' \in [Cards -> Nat]
  <1> DEFINE here == In(group[i], cards)
             there == In(g, cards)
             last == [pos EXCEPT ![i] = Cardinality(there)]
             left == Renumbered(last, here \ {i})
  <1>1. here \in SUBSET Cards /\ there \in SUBSET Cards /\ i \in here /\ pos \in [Cards -> Nat] /\ i \in Cards
    BY DEF TypeOK, TableTypeOK, In
  <1>2. Places \subseteq Nat
    BY DEF Places
  <1>3. last \in [Cards -> Nat]
    BY <1>1, Counted
  <1>4. left \in [Cards -> Nat]
    <2>1. here \ {i} \in SUBSET Cards
      BY <1>1
    <2> HIDE DEF last, here
    <2> QED BY <1>3, <2>1, RenumberedPlaced
  <1>5. there \cup {i} \in SUBSET Cards
    BY <1>1
  <1>6. CASE group[i] = g
    <2>1. \A k \in Places : Inserted(pos, here, i, k) \in [Cards -> Nat]
      BY <1>1, <1>2, InsertedPlaced
    <2> QED BY <1>1, <1>6, <2>1 DEF Reorder
  <1>7. CASE group[i] # g
    <2>1. \A k \in Places : Inserted(left, there \cup {i}, i, k) \in [Cards -> Nat]
      <3> HIDE DEF left, there
      <3> QED BY <1>2, <1>4, <1>5, InsertedPlaced
    <2>2. Renumbered(left, there \cup {i}) \in [Cards -> Nat]
      <3> HIDE DEF left, there
      <3> QED BY <1>4, <1>5, RenumberedPlaced
    <2>3. pos' = Renumbered(left, there \cup {i}) \/ \E k \in Places : pos' = Inserted(left, there \cup {i}, i, k)
      BY <1>7 DEF Reorder
    <2> HIDE DEF left, there
    <2> QED BY <2>1, <2>2, <2>3
  <1> QED BY <1>6, <1>7

LEMMA TakeOutTyped ==
    ASSUME TypeOK, NEW C \in SUBSET cards, TakeOut(C)
    PROVE  pos' \in [Cards -> Nat] /\ cards' \in SUBSET cards
  <1>1. \A i \in Cards : Rank(pos, i, In(group[i], cards \ C)) \in Nat
    <2>1. \A i \in Cards : In(group[i], cards \ C) \in SUBSET Cards
      BY DEF TypeOK, TableTypeOK, In
    <2> QED BY <2>1, RankNat
  <1> QED BY <1>1 DEF TakeOut, TypeOK, TableTypeOK

LEMMA TypeInit == Init => TypeOK
  <1> SUFFICES ASSUME Init PROVE TypeOK
    OBVIOUS
  <1>1. (CHOOSE b \in Boards : TRUE) \in Boards
    BY ConstantsAssumption
  <1>2. TableTypeOK
    BY <1>1 DEF Init, TableTypeOK, Groups, Moments
  <1>3. RequestTypeOK
    BY DEF Init, RequestTypeOK, NoCopy, AtRest
  <1> QED BY <1>2, <1>3 DEF TypeOK

LEMMA TypeStep == TypeOK /\ [Next]_vars => TypeOK'
  <1> SUFFICES ASSUME TypeOK, [Next]_vars PROVE TypeOK'
    OBVIOUS
  <1> USE DEF things, content, history
  <1>1. ASSUME NEW c \in Clients, NEW i \in Cards, Get(c, i) PROVE TypeOK'
    <2>1. TableTypeOK'
      BY <1>1 DEF Get, TypeOK, TableTypeOK
    <2>2. RequestTypeOK'
      BY <1>1 DEF Get, TypeOK, TableTypeOK, RequestTypeOK
    <2> QED BY <2>1, <2>2 DEF TypeOK
  <1>2. ASSUME NEW c \in Clients, NEW i \in Cards, NEW g \in Groups, LookCreate(c, i, g) PROVE TypeOK'
    <2>1. TableTypeOK'
      BY <1>2 DEF LookCreate, TypeOK, TableTypeOK
    <2>2. Cardinality(In(g, cards)) \in Nat
      <3>1. In(g, cards) \in SUBSET Cards
        BY DEF TypeOK, TableTypeOK, In
      <3> QED BY <3>1, Counted
    <2>3. RequestTypeOK'
      BY <1>2, <2>2 DEF LookCreate, TypeOK, RequestTypeOK
    <2> QED BY <2>1, <2>3 DEF TypeOK
  <1>3. ASSUME NEW c \in Clients, InsertCreate(c) PROVE TypeOK'
    <2> DEFINE i == doing[c].card
               g == doing[c].group
    <2>1. i \in Cards /\ g \in Groups /\ doing[c].place \in Nat
      BY <1>3 DEF InsertCreate, TypeOK, RequestTypeOK, AtRest
    <2>2. pos' \in [Cards -> Nat]
      <3>1. In(g, cards) \cup {i} \in SUBSET Cards
        BY <2>1 DEF TypeOK, TableTypeOK, In
      <3>2. \A k \in Places : Inserted(pos, In(g, cards) \cup {i}, i, k) \in [Cards -> Nat]
        <4>1. Places \subseteq Nat /\ i \in In(g, cards) \cup {i} /\ pos \in [Cards -> Nat]
          BY DEF Places, TypeOK, TableTypeOK
        <4> HIDE DEF i, g
        <4> QED BY <3>1, <4>1, InsertedPlaced
      <3> QED BY <1>3, <2>1, <3>2 DEF InsertCreate, TypeOK, TableTypeOK
    <2>3. TableTypeOK'
      BY <1>3, <2>1, <2>2 DEF InsertCreate, TypeOK, TableTypeOK
    <2>4. RequestTypeOK'
      BY <1>3, <2>1 DEF InsertCreate, Commit, Telling, AtRest, Changes, TypeOK, RequestTypeOK
    <2> QED BY <2>3, <2>4 DEF TypeOK
  <1>4. ASSUME NEW c \in Clients, NEW i \in Cards, NEW g \in Groups, NEW done \in BOOLEAN, NEW named \in BOOLEAN,
               Update(c, i, g, done, named)
        PROVE  TypeOK'
    <2>1. pos' \in [Cards -> Nat]
      BY <1>4, ReorderTyped DEF Update
    <2>2. said' \in [Cards -> SUBSET Writes] /\ accepted' \in [Cards -> SUBSET Writes] /\ writes' \in Writes
      BY <1>4 DEF Update, Say, TypeOK, TableTypeOK, RequestTypeOK
    <2>3. stamp' \in [Cards -> Moments]
      BY <1>4 DEF Update, Stamped, Moments, TypeOK, TableTypeOK
    <2>4. TableTypeOK'
      BY <1>4, <2>1, <2>2, <2>3 DEF Update, TypeOK, TableTypeOK
    <2>5. <<i, "changed", rev[i] + 1>> \in Changes
      BY DEF Changes, TypeOK, TableTypeOK
    <2>6. Commit({<<i, "changed", rev[i] + 1>>}) /\ doing' = [doing EXCEPT ![c] = Telling(i, "changed", rev[i] + 1)]
      BY <1>4 DEF Update
    <2>7. RequestTypeOK'
      <3>1. lines' \subseteq Changes /\ untold' \subseteq lines'
        BY <2>5, <2>6 DEF Commit, TypeOK, RequestTypeOK
      <3>2. Telling(i, "changed", rev[i] + 1) \in [step : {"tell"}, change : Changes]
        BY <2>5 DEF Telling
      <3> QED BY <1>4, <2>2, <2>6, <3>1, <3>2 DEF Update, TypeOK, RequestTypeOK
    <2> QED BY <2>4, <2>7 DEF TypeOK
  <1>5. ASSUME NEW c \in Clients, Tell(c) PROVE TypeOK'
    BY <1>5 DEF Tell, AtRest, TypeOK, TableTypeOK, RequestTypeOK
  <1>6. ASSUME NEW C \in SUBSET cards, NEW action \in {"deleted", "expired"}, Commit(Gone(C, action))
        PROVE  lines' \subseteq Changes /\ untold' \subseteq lines'
    BY <1>6 DEF Commit, Gone, Changes, TypeOK, TableTypeOK, RequestTypeOK
  <1>7. ASSUME NEW c \in Clients, NEW i \in Cards, DeleteCard(c, i) PROVE TypeOK'
    <2>1. TakeOut({i}) /\ {i} \in SUBSET cards /\ Commit(Gone({i}, "deleted"))
      BY <1>7 DEF DeleteCard
    <2>2. pos' \in [Cards -> Nat] /\ cards' \in SUBSET cards
      BY <2>1, TakeOutTyped
    <2>3. TableTypeOK'
      BY <1>7, <2>2 DEF DeleteCard, TypeOK, TableTypeOK
    <2>4. lines' \subseteq Changes /\ untold' \subseteq lines'
      BY <1>6, <2>1
    <2>5. RequestTypeOK'
      BY <1>7, <2>4 DEF DeleteCard, Telling, Changes, TypeOK, TableTypeOK, RequestTypeOK
    <2> QED BY <2>3, <2>5 DEF TypeOK
  <1>8. ASSUME NEW c \in Clients, NEW t \in Stages, DeleteStage(c, t) PROVE TypeOK'
    <2>1. TableTypeOK'
      BY <1>8 DEF DeleteStage, Cleared, Groups, TypeOK, TableTypeOK
    <2>2. RequestTypeOK'
      BY <1>8 DEF DeleteStage, TypeOK, RequestTypeOK
    <2> QED BY <2>1, <2>2 DEF TypeOK
  <1>9. ASSUME NEW c \in Clients, NEW b \in Boards, DeleteBoard(c, b) PROVE TypeOK'
    <2>1. TakeOut(OfBoard(b)) /\ OfBoard(b) \in SUBSET cards /\ Commit(Gone(OfBoard(b), "deleted"))
      BY <1>9 DEF DeleteBoard, OfBoard
    <2>2. pos' \in [Cards -> Nat] /\ cards' \in SUBSET cards
      BY <2>1, TakeOutTyped
    <2>3. group' \in [Cards -> Groups] /\ rev' \in [Cards -> Nat]
      BY <1>9 DEF DeleteBoard, Cleared, Groups, TypeOK, TableTypeOK
    <2>4. TableTypeOK'
      BY <1>9, <2>2, <2>3 DEF DeleteBoard, TypeOK, TableTypeOK
    <2>5. lines' \subseteq Changes /\ untold' \subseteq lines'
      BY <1>6, <2>1
    <2>6. RequestTypeOK'
      BY <1>9, <2>5 DEF DeleteBoard, TypeOK, RequestTypeOK
    <2> QED BY <2>4, <2>6 DEF TypeOK
  <1>10. ASSUME NEW c \in Clients, LookSweep(c) PROVE TypeOK'
    BY <1>10 DEF LookSweep, Old, AtRest, TypeOK, TableTypeOK, RequestTypeOK
  <1>11. ASSUME NEW c \in Clients, Sweep(c) PROVE TypeOK'
    <2> DEFINE old == doing[c].old \cap cards
    <2>1. TakeOut(old) /\ old \in SUBSET cards /\ Commit(Gone(old, "expired"))
      BY <1>11 DEF Sweep
    <2>2. pos' \in [Cards -> Nat] /\ cards' \in SUBSET cards
      BY <2>1, TakeOutTyped
    <2>3. TableTypeOK'
      BY <1>11, <2>2 DEF Sweep, TypeOK, TableTypeOK
    <2>4. lines' \subseteq Changes /\ untold' \subseteq lines'
      BY <1>6, <2>1
    <2>5. RequestTypeOK'
      BY <1>11, <2>4 DEF Sweep, AtRest, TypeOK, RequestTypeOK
    <2> QED BY <2>3, <2>5 DEF TypeOK
  <1>12. ASSUME NEW i \in Cards, Age(i) PROVE TypeOK'
    BY <1>12 DEF Age, Moments, TypeOK, TableTypeOK, RequestTypeOK
  <1>13. CASE UNCHANGED vars
    BY <1>13 DEF vars, TypeOK, TableTypeOK, RequestTypeOK
  <1> QED BY <1>1, <1>2, <1>3, <1>4, <1>5, <1>7, <1>8, <1>9, <1>10, <1>11, <1>12, <1>13 DEF Next, Serve

(* Every step keeps the table, the requests and the history well formed.   *)
THEOREM TypeCorrect == Spec => []TypeOK
  <1>1. Init => TypeOK
    BY TypeInit
  <1>2. TypeOK /\ [Next]_vars => TypeOK'
    BY TypeStep
  <1> QED BY <1>1, <1>2, PTL DEF Spec
----------------------------------------------------------------------------
(* No write is lost.  An id is drawn once, so an insert makes a card nobody*)
(* has read; a copy is never ahead of its card, and where the revisions    *)
(* agree so do the words.                                                  *)

Inserting(c) == doing[c].step = "insert"

Drawn ==
    /\ cards \subseteq born
    /\ \A c \in Clients : copy[c].card \in born \cup {0}
    /\ \A c \in Clients : Inserting(c) =>
          /\ doing[c].card \in born \ cards
          /\ \A d \in Clients : copy[d].card # doing[c].card
          /\ \A d \in Clients \ {c} : Inserting(d) => doing[d].card # doing[c].card

Faithful ==
    \A c \in Clients : \A i \in Cards : copy[c].card = i =>
        /\ copy[c].rev <= rev[i]
        /\ copy[c].rev = rev[i] => copy[c].said = said[i]

Kept == \A i \in Cards : accepted[i] \subseteq said[i]

KeptInv == TypeOK /\ Drawn /\ Faithful /\ Kept

LEMMA KeptInit == Init => KeptInv
  <1> SUFFICES ASSUME Init PROVE KeptInv
    OBVIOUS
  <1>1. Drawn
    BY DEF Init, Drawn, Inserting, AtRest, NoCopy
  <1>2. Faithful /\ Kept
    BY ConstantsAssumption DEF Init, Faithful, Kept, NoCopy
  <1> QED BY <1>1, <1>2, TypeInit DEF KeptInv

(* A step that draws, inserts and reads nothing.                           *)
LEMMA DrawnQuiet ==
    ASSUME Drawn, born' = born, cards' \subseteq cards, copy' = copy,
           \A c \in Clients : Inserting(c)' => doing'[c] = doing[c]
    PROVE  Drawn'
  BY DEF Drawn, Inserting

LEMMA DrawnStep == TypeOK /\ Drawn /\ [Next]_vars => Drawn'
  <1> SUFFICES ASSUME TypeOK, Drawn, [Next]_vars PROVE Drawn'
    OBVIOUS
  <1> USE DEF things, content, history
  <1>d. \A c \in Clients : \A x : doing' = [doing EXCEPT ![c] = x] =>
            /\ doing'[c] = x
            /\ \A d \in Clients \ {c} : doing'[d] = doing[d]
    BY DEF TypeOK, RequestTypeOK
  <1>1. ASSUME NEW c \in Clients, NEW i \in Cards, Get(c, i) PROVE Drawn'
    BY <1>1 DEF Get, Drawn, Inserting, TypeOK, RequestTypeOK
  <1>2. ASSUME NEW c \in Clients, NEW i \in Cards, NEW g \in Groups, LookCreate(c, i, g) PROVE Drawn'
    <2>1. i \notin born /\ born' = born \cup {i} /\ cards' = cards /\ copy' = copy
      BY <1>2 DEF LookCreate
    <2>2. doing'[c].step = "insert" /\ doing'[c].card = i /\ \A d \in Clients \ {c} : doing'[d] = doing[d]
      <3>1. doing' = [doing EXCEPT ![c] =
                [step |-> "insert", card |-> i, group |-> g, place |-> Cardinality(In(g, cards))]]
        BY <1>2 DEF LookCreate
      <3>2. doing'[c] = [step |-> "insert", card |-> i, group |-> g, place |-> Cardinality(In(g, cards))]
        BY <3>1, <1>d
      <3> QED BY <3>1, <3>2, <1>d
    <2>3. i # 0
      BY ConstantsAssumption
    <2>4. \A d \in Clients : copy[d].card # i
      BY <2>1, <2>3 DEF Drawn
    <2>5. \A d \in Clients \ {c} : Inserting(d) => doing[d].card # i
      BY <2>1 DEF Drawn
    <2>6. \A d \in Clients \ {c} : Inserting(d)' => Inserting(d) /\ doing'[d].card = doing[d].card
      BY <2>2 DEF Inserting
    <2>7. cards' \subseteq born' /\ i \notin cards /\ \A d \in Clients : copy'[d].card \in born' \cup {0}
      BY <2>1 DEF Drawn
    <2> QED BY <2>1, <2>2, <2>4, <2>5, <2>6, <2>7 DEF Drawn, Inserting
  <1>3. ASSUME NEW c \in Clients, InsertCreate(c) PROVE Drawn'
    <2>1. Inserting(c) /\ cards' = cards \cup {doing[c].card} /\ born' = born /\ copy' = copy
      BY <1>3 DEF InsertCreate, Inserting
    <2>2. doing'[c].step = "tell" /\ \A d \in Clients \ {c} : doing'[d] = doing[d]
      <3>1. doing' = [doing EXCEPT ![c] = Telling(doing[c].card, "created", 1)]
        BY <1>3 DEF InsertCreate
      <3>2. doing'[c] = Telling(doing[c].card, "created", 1)
        BY <3>1, <1>d
      <3> QED BY <3>1, <3>2, <1>d DEF Telling
    <2> QED BY <2>1, <2>2 DEF Drawn, Inserting
  <1>4. ASSUME NEW c \in Clients, doing'[c].step # "insert", \A d \in Clients \ {c} : doing'[d] = doing[d]
        PROVE  \A e \in Clients : Inserting(e)' => doing'[e] = doing[e]
    BY <1>4 DEF Inserting
  <1>5. ASSUME NEW c \in Clients, NEW i \in Cards, NEW g \in Groups, NEW done \in BOOLEAN, NEW named \in BOOLEAN,
               Update(c, i, g, done, named)
        PROVE  Drawn'
    <2>1. doing'[c] = Telling(i, "changed", rev[i] + 1) /\ \A d \in Clients \ {c} : doing'[d] = doing[d]
      BY <1>5, <1>d DEF Update
    <2>2. doing'[c].step # "insert"
      BY <2>1 DEF Telling, AtRest
    <2>3. \A e \in Clients : Inserting(e)' => doing'[e] = doing[e]
      BY <1>4, <2>1, <2>2
    <2> QED BY <1>5, <2>3, DrawnQuiet DEF Update
  <1>6. ASSUME NEW c \in Clients, Tell(c) PROVE Drawn'
    <2>1. doing'[c] = AtRest /\ \A d \in Clients \ {c} : doing'[d] = doing[d]
      BY <1>6, <1>d DEF Tell
    <2>2. doing'[c].step # "insert"
      BY <2>1 DEF Telling, AtRest
    <2>3. \A e \in Clients : Inserting(e)' => doing'[e] = doing[e]
      BY <1>4, <2>1, <2>2
    <2> QED BY <1>6, <2>3, DrawnQuiet DEF Tell
  <1>7. ASSUME NEW c \in Clients, NEW i \in Cards, DeleteCard(c, i) PROVE Drawn'
    <2>1. doing'[c] = Telling(i, "deleted", rev[i]) /\ \A d \in Clients \ {c} : doing'[d] = doing[d]
      BY <1>7, <1>d DEF DeleteCard
    <2>2. doing'[c].step # "insert"
      BY <2>1 DEF Telling, AtRest
    <2>3. \A e \in Clients : Inserting(e)' => doing'[e] = doing[e]
      BY <1>4, <2>1, <2>2
    <2> QED BY <1>7, <2>3, DrawnQuiet DEF DeleteCard, TakeOut
  <1>8. ASSUME NEW c \in Clients, NEW t \in Stages, DeleteStage(c, t) PROVE Drawn'
    BY <1>8, DrawnQuiet DEF DeleteStage
  <1>9. ASSUME NEW c \in Clients, NEW b \in Boards, DeleteBoard(c, b) PROVE Drawn'
    BY <1>9, DrawnQuiet DEF DeleteBoard, TakeOut
  <1>10. ASSUME NEW c \in Clients, LookSweep(c) PROVE Drawn'
    <2>1. doing'[c] = [step |-> "expire", old |-> Old] /\ \A d \in Clients \ {c} : doing'[d] = doing[d]
      BY <1>10, <1>d DEF LookSweep
    <2>2. doing'[c].step # "insert"
      BY <2>1 DEF Telling, AtRest
    <2>3. \A e \in Clients : Inserting(e)' => doing'[e] = doing[e]
      BY <1>4, <2>1, <2>2
    <2> QED BY <1>10, <2>3, DrawnQuiet DEF LookSweep
  <1>11. ASSUME NEW c \in Clients, Sweep(c) PROVE Drawn'
    <2>1. doing'[c] = AtRest /\ \A d \in Clients \ {c} : doing'[d] = doing[d]
      BY <1>11, <1>d DEF Sweep
    <2>2. doing'[c].step # "insert"
      BY <2>1 DEF Telling, AtRest
    <2>3. \A e \in Clients : Inserting(e)' => doing'[e] = doing[e]
      BY <1>4, <2>1, <2>2
    <2> QED BY <1>11, <2>3, DrawnQuiet DEF Sweep, TakeOut
  <1>12. ASSUME NEW i \in Cards, Age(i) PROVE Drawn'
    BY <1>12, DrawnQuiet DEF Age
  <1>13. CASE UNCHANGED vars
    BY <1>13, DrawnQuiet DEF vars
  <1> QED BY <1>1, <1>2, <1>3, <1>5, <1>6, <1>7, <1>8, <1>9, <1>10, <1>11, <1>12, <1>13 DEF Next, Serve

(* A step that raises revisions and lets the words be.                     *)
LEMMA FaithfulQuiet ==
    ASSUME TypeOK, TypeOK', Faithful, copy' = copy, said' = said, accepted' = accepted,
           \A i \in Cards : rev'[i] = rev[i] \/ rev'[i] = rev[i] + 1
    PROVE  Faithful' /\ (Kept => Kept')
  BY DEF Faithful, Kept, TypeOK, TableTypeOK, RequestTypeOK

LEMMA KeptStep == KeptInv /\ [Next]_vars => KeptInv'
  <1> SUFFICES ASSUME KeptInv, [Next]_vars PROVE Faithful' /\ Kept'
    BY TypeStep, DrawnStep DEF KeptInv
  <1> USE DEF things, content, history
  <1>t. TypeOK /\ TypeOK' /\ Faithful /\ Kept
    BY TypeStep DEF KeptInv
  <1>q. ASSUME copy' = copy, said' = said, accepted' = accepted,
               \A i \in Cards : rev'[i] = rev[i] \/ rev'[i] = rev[i] + 1
        PROVE  Faithful' /\ Kept'
    BY <1>t, <1>q, FaithfulQuiet
  <1>1. ASSUME NEW c \in Clients, NEW i \in Cards, Get(c, i) PROVE Faithful' /\ Kept'
    <2>1. copy' = [copy EXCEPT ![c] = [card |-> i, rev |-> rev[i], said |-> said[i]]]
      BY <1>1 DEF Get
    <2>2. rev' = rev /\ said' = said /\ accepted' = accepted /\ rev[i] \in Nat
      BY <1>1, <1>t DEF Get, TypeOK, TableTypeOK
    <2>3. copy'[c] = [card |-> i, rev |-> rev[i], said |-> said[i]] /\ \A d \in Clients \ {c} : copy'[d] = copy[d]
      BY <2>1, <1>t DEF TypeOK, RequestTypeOK
    <2> QED BY <1>t, <2>2, <2>3 DEF Faithful, Kept
  <1>2. ASSUME NEW c \in Clients, NEW i \in Cards, NEW g \in Groups, LookCreate(c, i, g) PROVE Faithful' /\ Kept'
    BY <1>2, <1>q DEF LookCreate
  <1>3. ASSUME NEW c \in Clients, InsertCreate(c) PROVE Faithful' /\ Kept'
    <2> DEFINE i == doing[c].card
    <2>1. \A d \in Clients : copy[d].card # i
      BY <1>3 DEF InsertCreate, KeptInv, Drawn, Inserting
    <2>2. copy' = copy /\ said' = said /\ accepted' = accepted /\ rev' = [rev EXCEPT ![i] = 1]
      BY <1>3 DEF InsertCreate
    <2>3. \A j \in Cards : j # i => rev'[j] = rev[j]
      BY <2>2, <1>t DEF TypeOK, TableTypeOK
    <2> HIDE DEF i
    <2> QED BY <1>t, <2>1, <2>2, <2>3 DEF Faithful, Kept
  <1>4. ASSUME NEW c \in Clients, NEW i \in Cards, NEW g \in Groups, NEW done \in BOOLEAN, NEW named \in BOOLEAN,
               Update(c, i, g, done, named)
        PROVE  Faithful' /\ Kept'
    <2>1. copy' = copy /\ rev' = [rev EXCEPT ![i] = @ + 1] /\ (named => copy[c].card = i /\ copy[c].rev = rev[i])
      BY <1>4 DEF Update, Fresh
    <2>2. /\ said' = [said EXCEPT ![i] = (IF named THEN copy[c].said ELSE {}) \cup {writes + 1}]
          /\ accepted' = [accepted EXCEPT ![i] = (IF named THEN @ ELSE {}) \cup {writes + 1}]
      BY <1>4 DEF Update, Say
    <2>3. named => copy[c].said = said[i]
      BY <1>t, <2>1 DEF Faithful
    <2>4. Kept'
      BY <1>t, <2>2, <2>3 DEF Kept, TypeOK, TableTypeOK, RequestTypeOK
    <2>5. rev'[i] = rev[i] + 1 /\ \A j \in Cards \ {i} : rev'[j] = rev[j] /\ said'[j] = said[j]
      BY <1>t, <2>1, <2>2 DEF TypeOK, TableTypeOK
    <2>6. \A d \in Clients : copy[d].rev \in Nat /\ rev[i] \in Nat
      BY <1>t DEF TypeOK, TableTypeOK, RequestTypeOK
    <2>7. Faithful'
      BY <1>t, <2>1, <2>5, <2>6 DEF Faithful
    <2> QED BY <2>4, <2>7
  <1>5. ASSUME NEW c \in Clients, Tell(c) PROVE Faithful' /\ Kept'
    BY <1>5, <1>q DEF Tell
  <1>6. ASSUME NEW c \in Clients, NEW i \in Cards, DeleteCard(c, i) PROVE Faithful' /\ Kept'
    BY <1>6, <1>q DEF DeleteCard
  <1>7. ASSUME NEW C, Cleared(C) PROVE \A i \in Cards : rev'[i] = rev[i] \/ rev'[i] = rev[i] + 1
    BY <1>7 DEF Cleared
  <1>8. ASSUME NEW c \in Clients, NEW t \in Stages, DeleteStage(c, t) PROVE Faithful' /\ Kept'
    BY <1>7, <1>8, <1>q DEF DeleteStage
  <1>9. ASSUME NEW c \in Clients, NEW b \in Boards, DeleteBoard(c, b) PROVE Faithful' /\ Kept'
    BY <1>7, <1>9, <1>q DEF DeleteBoard
  <1>10. ASSUME NEW c \in Clients, LookSweep(c) PROVE Faithful' /\ Kept'
    BY <1>10, <1>q DEF LookSweep
  <1>11. ASSUME NEW c \in Clients, Sweep(c) PROVE Faithful' /\ Kept'
    BY <1>11, <1>q DEF Sweep
  <1>12. ASSUME NEW i \in Cards, Age(i) PROVE Faithful' /\ Kept'
    BY <1>12, <1>q DEF Age
  <1>13. CASE UNCHANGED vars
    BY <1>13, <1>q DEF vars
  <1> QED BY <1>1, <1>2, <1>3, <1>4, <1>5, <1>6, <1>8, <1>9, <1>10, <1>11, <1>12, <1>13 DEF Next, Serve

(* A write that was answered well stays in its card until one that names no*)
(* revision writes over it, whatever else is met: races included.          *)
THEOREM NothingIsLost == Spec => []NothingLost
  <1>1. Init => KeptInv
    BY KeptInit
  <1>2. KeptInv /\ [Next]_vars => KeptInv'
    BY KeptStep
  <1>3. KeptInv => NothingLost
    BY DEF KeptInv, Kept, NothingLost, TypeOK, TableTypeOK
  <1> QED BY <1>1, <1>2, <1>3, PTL DEF Spec
----------------------------------------------------------------------------
(* Where nobody commits between another's look and its write, what was     *)
(* looked at is still so when it is written.                               *)

Unraced == "race" \notin Hazards

Between(c) == doing[c].step \in {"insert", "expire"}

Alone == \A c, d \in Clients : Between(c) /\ Between(d) => c = d

Looked ==
    \A c \in Clients : Inserting(c) =>
        /\ doing[c].card \notin cards
        /\ Reaches(doing[c].group)
        /\ doing[c].place = Cardinality(In(doing[c].group, cards))

StillOld == \A c \in Clients : doing[c].step = "expire" => \A i \in doing[c].old \cap cards : stamp[i] = "long ago"

LookedInv == TypeOK /\ Drawn /\ Alone /\ Looked /\ StillOld

NobodyBetween == \A c \in Clients : ~Between(c)

LEMMA NobodyLooked == NobodyBetween => Alone /\ Looked /\ StillOld
  BY DEF NobodyBetween, Between, Inserting, Alone, Looked, StillOld

(* Every step that writes leaves nobody between a look and a write.        *)
LEMMA WriteLeavesNobody ==
    ASSUME Unraced, Alone, NEW c \in Clients, MayCommit(c) \/ Between(c),
           doing'[c].step \notin {"insert", "expire"}, \A d \in Clients \ {c} : doing'[d] = doing[d]
    PROVE  NobodyBetween'
  BY DEF Unraced, MayCommit, Between, Alone, NobodyBetween

(* Which steps those are.                                                  *)
LEMMA WritersLeaveNobody ==
    ASSUME Unraced, TypeOK, Alone, NEW c \in Clients
    PROVE  /\ InsertCreate(c) => NobodyBetween'
           /\ \A i \in Cards, g \in Groups, done \in BOOLEAN, named \in BOOLEAN :
                 Update(c, i, g, done, named) => NobodyBetween'
           /\ \A i \in Cards : DeleteCard(c, i) => NobodyBetween'
           /\ \A t \in Stages : DeleteStage(c, t) => NobodyBetween'
           /\ \A b \in Boards : DeleteBoard(c, b) => NobodyBetween'
           /\ Sweep(c) => NobodyBetween'
  <1>a. Asks(c) => MayCommit(c) /\ ~Between(c)
    BY DEF Asks, AtRest, Between
  <1>d. \A x : doing' = [doing EXCEPT ![c] = x] => doing'[c] = x /\ \A d \in Clients \ {c} : doing'[d] = doing[d]
    BY DEF TypeOK, RequestTypeOK
  <1>1. ASSUME InsertCreate(c) PROVE NobodyBetween'
    <2>1. (Between(c)) /\ doing' = [doing EXCEPT ![c] = Telling(doing[c].card, "created", 1)]
      BY <1>1, <1>a DEF InsertCreate, Between
    <2>2. doing'[c] = Telling(doing[c].card, "created", 1) /\ \A d \in Clients \ {c} : doing'[d] = doing[d]
      BY <2>1, <1>d
    <2>3. doing'[c].step \notin {"insert", "expire"}
      BY <2>2 DEF Telling, AtRest
    <2> QED BY <2>1, <2>2, <2>3, WriteLeavesNobody
  <1>2. ASSUME NEW i \in Cards, NEW g \in Groups, NEW done \in BOOLEAN, NEW named \in BOOLEAN,
               Update(c, i, g, done, named)
        PROVE  NobodyBetween'
    <2>1. (MayCommit(c)) /\ doing' = [doing EXCEPT ![c] = Telling(i, "changed", rev[i] + 1)]
      BY <1>2, <1>a DEF Update
    <2>2. doing'[c] = Telling(i, "changed", rev[i] + 1) /\ \A d \in Clients \ {c} : doing'[d] = doing[d]
      BY <2>1, <1>d
    <2>3. doing'[c].step \notin {"insert", "expire"}
      BY <2>2 DEF Telling, AtRest
    <2> QED BY <2>1, <2>2, <2>3, WriteLeavesNobody
  <1>3. ASSUME NEW i \in Cards, DeleteCard(c, i) PROVE NobodyBetween'
    <2>1. (MayCommit(c)) /\ doing' = [doing EXCEPT ![c] = Telling(i, "deleted", rev[i])]
      BY <1>3, <1>a DEF DeleteCard
    <2>2. doing'[c] = Telling(i, "deleted", rev[i]) /\ \A d \in Clients \ {c} : doing'[d] = doing[d]
      BY <2>1, <1>d
    <2>3. doing'[c].step \notin {"insert", "expire"}
      BY <2>2 DEF Telling, AtRest
    <2> QED BY <2>1, <2>2, <2>3, WriteLeavesNobody
  <1>4. ASSUME NEW t \in Stages, DeleteStage(c, t) PROVE NobodyBetween'
    <2>1. MayCommit(c) /\ ~Between(c) /\ doing' = doing
      BY <1>4, <1>a DEF DeleteStage
    <2> QED BY <2>1, WriteLeavesNobody DEF Between
  <1>5. ASSUME NEW b \in Boards, DeleteBoard(c, b) PROVE NobodyBetween'
    <2>1. MayCommit(c) /\ ~Between(c) /\ doing' = doing
      BY <1>5, <1>a DEF DeleteBoard
    <2> QED BY <2>1, WriteLeavesNobody DEF Between
  <1>6. ASSUME Sweep(c) PROVE NobodyBetween'
    <2>1. (Between(c)) /\ doing' = [doing EXCEPT ![c] = AtRest]
      BY <1>6, <1>a DEF Sweep, Between
    <2>2. doing'[c] = AtRest /\ \A d \in Clients \ {c} : doing'[d] = doing[d]
      BY <2>1, <1>d
    <2>3. doing'[c].step \notin {"insert", "expire"}
      BY <2>2 DEF Telling, AtRest
    <2> QED BY <2>1, <2>2, <2>3, WriteLeavesNobody
  <1> QED BY <1>1, <1>2, <1>3, <1>4, <1>5, <1>6

LEMMA LookedInit == Init => LookedInv
  <1> SUFFICES ASSUME Init PROVE LookedInv
    OBVIOUS
  <1>1. NobodyBetween
    BY DEF Init, NobodyBetween, Between, AtRest
  <1> QED BY <1>1, NobodyLooked, KeptInit DEF LookedInv, KeptInv

LEMMA LookedStep == ASSUME Unraced PROVE LookedInv /\ [Next]_vars => LookedInv'
  <1> SUFFICES ASSUME LookedInv, [Next]_vars PROVE Alone' /\ Looked' /\ StillOld'
    BY TypeStep, DrawnStep DEF LookedInv
  <1> USE DEF things, content, history
  <1>t. TypeOK /\ Drawn /\ Alone /\ Looked /\ StillOld
    BY DEF LookedInv
  <1>n. NobodyBetween' => Alone' /\ Looked' /\ StillOld'
    BY NobodyLooked, PTL
  <1>d. \A c \in Clients : \A x : doing' = [doing EXCEPT ![c] = x] =>
            /\ doing'[c] = x
            /\ \A d \in Clients \ {c} : doing'[d] = doing[d]
    BY <1>t DEF TypeOK, RequestTypeOK
  <1>1. ASSUME NEW c \in Clients, NEW i \in Cards, Get(c, i) PROVE Alone' /\ Looked' /\ StillOld'
    BY <1>1, <1>t DEF Get, Alone, Between, Looked, Inserting, Reaches, In, StillOld
  <1>2. ASSUME NEW c \in Clients, NEW i \in Cards, NEW g \in Groups, LookCreate(c, i, g)
        PROVE  Alone' /\ Looked' /\ StillOld'
    <2>1. \A d \in Clients : ~Between(d)
      BY <1>2 DEF LookCreate, Asks, AtRest, MayCommit, Unraced, Between
    <2>2. doing' = [doing EXCEPT ![c] = [step |-> "insert", card |-> i, group |-> g, place |-> Cardinality(In(g, cards))]]
      BY <1>2 DEF LookCreate
    <2>3. doing'[c] = [step |-> "insert", card |-> i, group |-> g, place |-> Cardinality(In(g, cards))]
          /\ \A d \in Clients \ {c} : doing'[d] = doing[d]
      BY <2>2, <1>d
    <2>4. i \notin born /\ Reaches(g) /\ cards' = cards /\ group' = group /\ boards' = boards /\ stages' = stages
      BY <1>2 DEF LookCreate
    <2>5. i \notin cards
      BY <1>t, <2>4 DEF Drawn
    <2>6. Alone' /\ StillOld'
      <3>1. doing'[c].step = "insert" /\ \A d \in Clients \ {c} : ~Between(d)'
        BY <2>1, <2>3 DEF Between
      <3> QED BY <3>1 DEF Alone, Between, StillOld
    <2>7. Looked'
      BY <2>1, <2>3, <2>4, <2>5 DEF Looked, Inserting, Between, Reaches, In
    <2> QED BY <2>6, <2>7
  <1>3. ASSUME NEW c \in Clients, Tell(c) PROVE Alone' /\ Looked' /\ StillOld'
    <2>1. doing'[c] = AtRest /\ \A d \in Clients \ {c} : doing'[d] = doing[d]
      BY <1>3, <1>d DEF Tell
    <2>2. doing'[c].step = "rest"
      BY <2>1 DEF AtRest
    <2>3. \A d \in Clients : Between(d)' => doing'[d] = doing[d] /\ Between(d)
      BY <2>1, <2>2 DEF Between
    <2>4. cards' = cards /\ group' = group /\ boards' = boards /\ stages' = stages /\ stamp' = stamp
      BY <1>3 DEF Tell
    <2>5. Alone'
      BY <1>t, <2>3 DEF Alone
    <2>6. Looked'
      <3> SUFFICES ASSUME NEW d \in Clients, Inserting(d)'
                   PROVE  (/\ doing[d].card \notin cards /\ Reaches(doing[d].group)
                           /\ doing[d].place = Cardinality(In(doing[d].group, cards)))'
        BY DEF Looked
      <3>1. doing'[d] = doing[d] /\ Inserting(d)
        BY <2>3 DEF Between, Inserting
      <3> QED BY <1>t, <2>4, <3>1 DEF Looked, Reaches, In
    <2>7. StillOld'
      BY <1>t, <2>3, <2>4 DEF Between, StillOld
    <2> QED BY <2>5, <2>6, <2>7
  <1>4. ASSUME NEW c \in Clients, LookSweep(c) PROVE Alone' /\ Looked' /\ StillOld'
    <2>1. \A d \in Clients : ~Between(d)
      BY <1>4 DEF LookSweep, Asks, AtRest, MayCommit, Unraced, Between
    <2>2. doing'[c] = [step |-> "expire", old |-> Old] /\ \A d \in Clients \ {c} : doing'[d] = doing[d]
      BY <1>4, <1>d DEF LookSweep
    <2>3. cards' = cards /\ stamp' = stamp
      BY <1>4 DEF LookSweep
    <2>4. doing'[c].step = "expire" /\ doing'[c].old = Old
      BY <2>2
    <2>5. \A d \in Clients \ {c} : ~Between(d)'
      BY <2>1, <2>2 DEF Between
    <2> QED BY <2>3, <2>4, <2>5 DEF Alone, Between, Looked, Inserting, StillOld, Old
  <1>5. ASSUME NEW i \in Cards, Age(i) PROVE Alone' /\ Looked' /\ StillOld'
    BY <1>5, <1>t DEF Age, Alone, Between, Looked, Inserting, Reaches, In, StillOld, TypeOK, TableTypeOK
  <1>6. CASE UNCHANGED vars
    BY <1>6, <1>t DEF vars, Alone, Between, Looked, Inserting, Reaches, In, StillOld
  <1>7. ASSUME NEW c \in Clients,
               \/ InsertCreate(c) \/ Sweep(c)
               \/ \E i \in Cards, g \in Groups, done \in BOOLEAN, named \in BOOLEAN : Update(c, i, g, done, named)
               \/ \E i \in Cards : DeleteCard(c, i)
               \/ \E t \in Stages : DeleteStage(c, t)
               \/ \E b \in Boards : DeleteBoard(c, b)
        PROVE  Alone' /\ Looked' /\ StillOld'
    BY <1>7, <1>n, <1>t, WritersLeaveNobody
  <1> QED BY <1>1, <1>2, <1>3, <1>4, <1>5, <1>6, <1>7 DEF Next, Serve
(* What a board's delete leaves is on another board.                       *)
LEMMA LinksStep == ASSUME Unraced PROVE LookedInv /\ LinksReach /\ [Next]_vars => LinksReach'
  <1> SUFFICES ASSUME LookedInv, LinksReach, [Next]_vars PROVE LinksReach'
    OBVIOUS
  <1> USE DEF things, content, history
  <1>t. TypeOK /\ Looked
    BY DEF LookedInv
  <1>q. ASSUME cards' \subseteq cards, group' = group, boards' = boards, stages' = stages PROVE LinksReach'
    BY <1>q DEF LinksReach, Reaches
  <1>1. ASSUME NEW c \in Clients, InsertCreate(c) PROVE LinksReach'
    <2> DEFINE i == doing[c].card
               g == doing[c].group
    <2>1. Reaches(g)
      BY <1>1, <1>t DEF InsertCreate, Looked, Inserting
    <2>2. /\ cards' = cards \cup {i} /\ group' = [group EXCEPT ![i] = g]
          /\ boards' = boards /\ stages' = stages
      BY <1>1 DEF InsertCreate
    <2>3. i \in Cards
      BY <1>1, <1>t DEF InsertCreate, AtRest, TypeOK, RequestTypeOK
    <2>4. group'[i] = g /\ \A j \in cards \ {i} : group'[j] = group[j]
      BY <2>2, <2>3, <1>t DEF TypeOK, TableTypeOK
    <2> HIDE DEF i, g
    <2> QED BY <2>1, <2>2, <2>4 DEF LinksReach, Reaches
  <1>2. ASSUME NEW c \in Clients, NEW i \in Cards, NEW g \in Groups, NEW done \in BOOLEAN, NEW named \in BOOLEAN,
               Update(c, i, g, done, named)
        PROVE  LinksReach'
    <2>1. /\ Reaches(g) /\ cards' = cards /\ group' = [group EXCEPT ![i] = g]
          /\ boards' = boards /\ stages' = stages
      BY <1>2 DEF Update
    <2>2. group'[i] = g /\ \A j \in cards \ {i} : group'[j] = group[j]
      BY <2>1, <1>t DEF TypeOK, TableTypeOK
    <2> QED BY <2>1, <2>2 DEF LinksReach, Reaches
  <1>3. ASSUME NEW c \in Clients, NEW t \in Stages, DeleteStage(c, t) PROVE LinksReach'
    <2>1. \A i \in cards : IF group[i][2] = t THEN group'[i] = <<group[i][1], NoStage>> ELSE group'[i] = group[i]
      BY <1>3, <1>t DEF DeleteStage, Cleared, TypeOK, TableTypeOK
    <2>2. cards' = cards /\ boards' = boards /\ stages' = stages \ {t}
      BY <1>3 DEF DeleteStage
    <2> QED BY <2>1, <2>2 DEF LinksReach, Reaches
  <1>4. ASSUME NEW c \in Clients, NEW b \in Boards, DeleteBoard(c, b) PROVE LinksReach'
    <2>1. cards' = cards \ OfBoard(b) /\ boards' = boards \ {b} /\ stages' \subseteq stages
      BY <1>4 DEF DeleteBoard, TakeOut
    <2>2. \A i \in cards \ OfBoard(b) : IF group[i][2] \in stages \ stages'
                                        THEN group'[i] = <<group[i][1], NoStage>> ELSE group'[i] = group[i]
      BY <1>4, <1>t DEF DeleteBoard, Cleared, TypeOK, TableTypeOK
    <2>3. \A i \in cards \ OfBoard(b) : group[i][1] # b
      BY DEF OfBoard
    <2> QED BY <2>1, <2>2, <2>3 DEF LinksReach, Reaches
  <1>5. ASSUME NEW c \in Clients, NEW i \in Cards, DeleteCard(c, i) PROVE LinksReach'
    BY <1>5, <1>q DEF DeleteCard, TakeOut
  <1>6. ASSUME NEW c \in Clients, Sweep(c) PROVE LinksReach'
    BY <1>6, <1>q DEF Sweep, TakeOut
  <1>7. ASSUME NEW c \in Clients,
               \/ \E i \in Cards : Get(c, i)
               \/ \E i \in Cards, g \in Groups : LookCreate(c, i, g)
               \/ Tell(c) \/ LookSweep(c)
        PROVE  LinksReach'
    BY <1>7, <1>q DEF Get, LookCreate, Tell, LookSweep
  <1>8. ASSUME NEW i \in Cards, Age(i) PROVE LinksReach'
    BY <1>8, <1>q DEF Age
  <1>9. CASE UNCHANGED vars
    BY <1>9, <1>q DEF vars
  <1> QED BY <1>1, <1>2, <1>3, <1>4, <1>5, <1>6, <1>7, <1>8, <1>9 DEF Next, Serve

(* Cascades and clears leave no link to what is gone, where no transaction *)
(* comes between a create's look at its links and its insert.              *)
THEOREM LinksAlwaysReach == ASSUME Unraced PROVE Spec => []LinksReach
  <1>1. Init => LookedInv /\ LinksReach
    BY LookedInit DEF Init, LinksReach
  <1>2. LookedInv /\ LinksReach /\ [Next]_vars => LookedInv' /\ LinksReach'
    BY LookedStep, LinksStep
  <1> QED BY <1>1, <1>2, PTL DEF Spec

(* Only the sweep writes "expired", and what it looked at is still so.     *)
LEMMA ExpiredStep ==
    ASSUME LookedInv, [Next]_vars, NEW i \in cards, <<i, "expired", rev[i]>> \in lines' \ lines
    PROVE  stamp[i] = "long ago"
  <1> USE DEF things, content, history
  <1>1. ASSUME NEW c \in Clients, Sweep(c) PROVE stamp[i] = "long ago"
    <2>1. lines' = lines \cup Gone(doing[c].old \cap cards, "expired") /\ doing[c].step = "expire"
      BY <1>1 DEF Sweep, Commit
    <2>2. i \in doing[c].old \cap cards
      BY <2>1 DEF Gone
    <2> QED BY <2>1, <2>2 DEF LookedInv, StillOld
  <1>2. ASSUME NEW c \in Clients,
               \/ InsertCreate(c)
               \/ \E j \in Cards, g \in Groups, done \in BOOLEAN, named \in BOOLEAN : Update(c, j, g, done, named)
               \/ \E j \in Cards : DeleteCard(c, j)
               \/ \E b \in Boards : DeleteBoard(c, b)
        PROVE  FALSE
    <2>1. \E C : lines' = lines \cup C /\ \A change \in C : change[2] # "expired"
      <3>1. CASE InsertCreate(c)
        BY <3>1 DEF InsertCreate, Commit
      <3>2. ASSUME NEW j \in Cards, NEW g \in Groups, NEW done \in BOOLEAN, NEW named \in BOOLEAN,
                   Update(c, j, g, done, named)
            PROVE  \E C : lines' = lines \cup C /\ \A change \in C : change[2] # "expired"
        BY <3>2 DEF Update, Commit
      <3>3. ASSUME NEW C, Commit(Gone(C, "deleted"))
            PROVE  \E D : lines' = lines \cup D /\ \A change \in D : change[2] # "expired"
        <4>1. \A change \in Gone(C, "deleted") : change[2] # "expired"
          BY DEF Gone
        <4> QED BY <3>3, <4>1 DEF Commit
      <3>4. ASSUME NEW j \in Cards, DeleteCard(c, j)
            PROVE  \E D : lines' = lines \cup D /\ \A change \in D : change[2] # "expired"
        BY <3>3, <3>4 DEF DeleteCard
      <3>5. ASSUME NEW b \in Boards, DeleteBoard(c, b)
            PROVE  \E D : lines' = lines \cup D /\ \A change \in D : change[2] # "expired"
        BY <3>3, <3>5 DEF DeleteBoard
      <3> QED BY <1>2, <3>1, <3>2, <3>4, <3>5
    <2> QED BY <2>1
  <1>3. ASSUME NEW c \in Clients,
               \/ \E j \in Cards : Get(c, j)
               \/ \E j \in Cards, g \in Groups : LookCreate(c, j, g)
               \/ \E t \in Stages : DeleteStage(c, t)
               \/ Tell(c) \/ LookSweep(c)
        PROVE  FALSE
    BY <1>3 DEF Get, LookCreate, DeleteStage, Tell, LookSweep
  <1>4. ASSUME NEW j \in Cards, Age(j) PROVE FALSE
    BY <1>4 DEF Age
  <1>5. CASE UNCHANGED vars
    BY <1>5 DEF vars
  <1> QED BY <1>1, <1>2, <1>3, <1>4, <1>5 DEF Next, Serve

(* Where no transaction comes between its look and its deletes, a sweep    *)
(* takes only cards that are old as they go.                               *)
THEOREM SweepsTakeOld == ASSUME Unraced PROVE Spec => SweepTakesOld
  <1> DEFINE Takes == \A i \in cards : <<i, "expired", rev[i]>> \in lines' \ lines => stamp[i] = "long ago"
  <1>1. Init => LookedInv
    BY LookedInit
  <1>2. LookedInv /\ [Next]_vars => LookedInv'
    BY LookedStep
  <1>3. LookedInv /\ [Next]_vars => [Takes]_vars
    BY ExpiredStep
  <1>4. Spec => [][Takes]_vars
    <2> HIDE DEF Takes
    <2> QED BY <1>1, <1>2, <1>3, PTL DEF Spec
  <1> QED BY <1>4 DEF SweepTakesOld

----------------------------------------------------------------------------
(* Every revision has its line, where no link is ever cleared.             *)

Uncleared == Stages = {} \/ Hazards \cap {"boards", "stages"} = {}

LEMMA HistoryStep == ASSUME Uncleared PROVE TypeOK /\ HistoryWhole /\ [Next]_vars => HistoryWhole'
  <1> SUFFICES ASSUME TypeOK, HistoryWhole, [Next]_vars PROVE HistoryWhole'
    OBVIOUS
  <1> USE DEF things, content, history
  <1>q. ASSUME lines \subseteq lines', cards' \subseteq cards, \A i \in Cards : rev'[i] = rev[i] PROVE HistoryWhole'
    BY <1>q DEF HistoryWhole, TypeOK, TableTypeOK
  <1>1. ASSUME NEW c \in Clients, InsertCreate(c) PROVE HistoryWhole'
    <2> DEFINE i == doing[c].card
    <2>1. cards' = cards \cup {i} /\ rev' = [rev EXCEPT ![i] = 1] /\ lines' = lines \cup {<<i, "created", 1>>}
      BY <1>1 DEF InsertCreate, Commit
    <2>2. i \in Cards
      BY <1>1 DEF InsertCreate, AtRest, TypeOK, RequestTypeOK
    <2>3. rev'[i] = 1 /\ \A j \in cards \ {i} : rev'[j] = rev[j]
      BY <2>1, <2>2 DEF TypeOK, TableTypeOK
    <2> HIDE DEF i
    <2>4. \A r \in 1..rev'[i] : <<i, "created", r>> \in lines'
      BY <2>1, <2>3
    <2> QED BY <2>1, <2>3, <2>4 DEF HistoryWhole
  <1>2. ASSUME NEW c \in Clients, NEW i \in Cards, NEW g \in Groups, NEW done \in BOOLEAN, NEW named \in BOOLEAN,
               Update(c, i, g, done, named)
        PROVE  HistoryWhole'
    <2>1. i \in cards /\ cards' = cards /\ rev' = [rev EXCEPT ![i] = @ + 1] /\ lines' = lines \cup {<<i, "changed", rev[i] + 1>>}
      BY <1>2 DEF Update, Commit
    <2>2. rev[i] \in Nat /\ rev'[i] = rev[i] + 1 /\ \A j \in cards \ {i} : rev'[j] = rev[j]
      BY <2>1 DEF TypeOK, TableTypeOK
    <2>3. \A r \in 1..rev'[i] : r \in 1..rev[i] \/ r = rev[i] + 1
      BY <2>2
    <2> QED BY <2>1, <2>2, <2>3 DEF HistoryWhole
  <1>3. ASSUME NEW c \in Clients, NEW t \in Stages, DeleteStage(c, t) PROVE FALSE
    BY <1>3 DEF DeleteStage, Uncleared
  <1>4. ASSUME NEW c \in Clients, NEW b \in Boards, DeleteBoard(c, b) PROVE HistoryWhole'
    <2>1. Stages = {}
      BY <1>4 DEF DeleteBoard, Uncleared
    <2>2. \A i \in Cards : rev'[i] = rev[i]
      BY <1>4, <2>1 DEF DeleteBoard, Cleared, TypeOK, TableTypeOK
    <2> QED BY <1>4, <1>q, <2>2 DEF DeleteBoard, TakeOut, Commit
  <1>5. ASSUME NEW c \in Clients, NEW i \in Cards, DeleteCard(c, i) PROVE HistoryWhole'
    BY <1>5, <1>q DEF DeleteCard, TakeOut, Commit
  <1>6. ASSUME NEW c \in Clients, Sweep(c) PROVE HistoryWhole'
    BY <1>6, <1>q DEF Sweep, TakeOut, Commit
  <1>7. ASSUME NEW c \in Clients,
               \/ \E i \in Cards : Get(c, i)
               \/ \E i \in Cards, g \in Groups : LookCreate(c, i, g)
               \/ Tell(c) \/ LookSweep(c)
        PROVE  HistoryWhole'
    BY <1>7, <1>q DEF Get, LookCreate, Tell, LookSweep
  <1>8. ASSUME NEW i \in Cards, Age(i) PROVE HistoryWhole'
    BY <1>8, <1>q DEF Age
  <1>9. CASE UNCHANGED vars
    BY <1>9, <1>q DEF vars
  <1> QED BY <1>1, <1>2, <1>3, <1>4, <1>5, <1>6, <1>7, <1>8, <1>9 DEF Next, Serve

(* A living card's history has every one of its revisions, where nothing   *)
(* that links are cleared to is ever deleted.                              *)
THEOREM HistoryIsWhole == ASSUME Uncleared PROVE Spec => []HistoryWhole
  <1>1. Init => TypeOK /\ HistoryWhole
    BY TypeInit DEF Init, HistoryWhole
  <1>2. TypeOK /\ HistoryWhole /\ [Next]_vars => TypeOK' /\ HistoryWhole'
    BY TypeStep, HistoryStep
  <1> QED BY <1>1, <1>2, PTL DEF Spec
----------------------------------------------------------------------------
(* Positions: each group is placed, and each write keeps it so.            *)

Everywhere == \A h \in Groups : Placed(pos, In(h, cards))

LEMMA PlacedSame ==
    ASSUME NEW p, NEW q, NEW S, Placed(p, S), \A i \in S : q[i] = p[i]
    PROVE  Placed(q, S)
  BY DEF Placed

(* A card put behind the others of its group.                              *)
LEMMA PlacedLast ==
    ASSUME NEW p \in [Cards -> Nat], NEW S \in SUBSET Cards, NEW i \in Cards \ S, Placed(p, S)
    PROVE  Placed([p EXCEPT ![i] = Cardinality(S)], S \cup {i})
  <1> DEFINE q == [p EXCEPT ![i] = Cardinality(S)]
  <1>1. IsFiniteSet(S) /\ Cardinality(S) \in Nat
    BY Counted
  <1>2. Cardinality(S \cup {i}) = Cardinality(S) + 1
    BY <1>1, FS_AddElement
  <1>3. q[i] = Cardinality(S) /\ \A j \in S : q[j] = p[j] /\ q[j] \in Nat /\ q[j] < Cardinality(S)
    BY DEF Placed
  <1> HIDE DEF q
  <1>4. \A j \in S : q[j] # q[i]
    BY <1>1, <1>3
  <1>5. \A j \in S : \A k \in S \ {j} : q[j] # q[k]
    BY <1>3 DEF Placed
  <1>6. Placed(q, S \cup {i})
    BY <1>1, <1>2, <1>3, <1>4, <1>5 DEF Placed
  <1> QED BY <1>6 DEF q

LEMMA ReorderPlaced ==
    ASSUME TypeOK, Everywhere, NEW i \in cards, NEW g \in Groups,
           Reorder(i, g), group' = [group EXCEPT ![i] = g], cards' = cards
    PROVE  Everywhere'
  <1>o. PICK old \in Groups : old = group[i]
    BY DEF TypeOK, TableTypeOK
  <1> DEFINE here == In(group[i], cards)
             there == In(g, cards)
             last == [pos EXCEPT ![i] = Cardinality(there)]
             left == Renumbered(last, here \ {i})
  <1>1. here \in SUBSET Cards /\ there \in SUBSET Cards /\ i \in here /\ pos \in [Cards -> Nat] /\ i \in Cards
    BY DEF TypeOK, TableTypeOK, In
  <1>2. Places \subseteq Nat
    BY DEF Places
  <1>3. \A h \in Groups : In(h, cards) \in SUBSET Cards /\ Placed(pos, In(h, cards))
    BY DEF Everywhere, In, TypeOK, TableTypeOK
  <1>4. group'[i] = g /\ \A j \in Cards \ {i} : group'[j] = group[j]
    BY <1>1 DEF TypeOK, TableTypeOK
  <1>5. CASE group[i] = g
    <2>1. \A h \in Groups : In(h, cards)' = In(h, cards)
      BY <1>1, <1>4, <1>5 DEF In, TypeOK, TableTypeOK
    <2>2. CASE pos' = pos
      BY <1>3, <2>1, <2>2 DEF Everywhere
    <2>3. ASSUME NEW k \in Places, pos' = Inserted(pos, here, i, k) PROVE Everywhere'
      <3>1. Placed(pos', here) /\ \A j \in Cards \ here : pos'[j] = pos[j]
        <4>1. \A n \in Nat : /\ Placed(Inserted(pos, here, i, n), here)
                            /\ \A j \in Cards \ here : Inserted(pos, here, i, n)[j] = pos[j]
          BY <1>1, InsertedPlaced
        <4> HIDE DEF here
        <4> QED BY <1>2, <2>3, <4>1
      <3>2. ASSUME NEW h \in Groups, h # g PROVE Placed(pos', In(h, cards))
        <4>1. \A j \in In(h, cards) : pos'[j] = pos[j]
          BY <1>3, <1>5, <3>1, <3>2 DEF In
        <4> QED BY <1>3, <4>1, PlacedSame
      <3> QED BY <1>5, <2>1, <3>1, <3>2 DEF Everywhere
    <2> QED BY <1>1, <1>5, <2>2, <2>3 DEF Reorder
  <1>6. CASE group[i] # g
    <2>1. last \in [Cards -> Nat] /\ \A j \in Cards \ {i} : last[j] = pos[j]
      BY <1>1, Counted
    <2>2. here \ {i} \in SUBSET Cards /\ there \cup {i} \in SUBSET Cards /\ i \in there \cup {i}
      BY <1>1
    <2> HIDE DEF last, here, there
    <2>3. left \in [Cards -> Nat] /\ Placed(left, here \ {i}) /\ \A j \in Cards \ (here \ {i}) : left[j] = last[j]
      BY <2>1, <2>2, RenumberedPlaced
    <2>4. \/ pos' = Renumbered(left, there \cup {i})
          \/ \E k \in Places : pos' = Inserted(left, there \cup {i}, i, k)
      BY <1>6 DEF Reorder, last, here, there
    <2> HIDE DEF left
    <2>5. Placed(pos', there \cup {i}) /\ \A j \in Cards \ (there \cup {i}) : pos'[j] = left[j]
      <3>1. CASE pos' = Renumbered(left, there \cup {i})
        BY <2>2, <2>3, <3>1, RenumberedPlaced
      <3>2. ASSUME NEW k \in Places, pos' = Inserted(left, there \cup {i}, i, k)
            PROVE  Placed(pos', there \cup {i}) /\ \A j \in Cards \ (there \cup {i}) : pos'[j] = left[j]
        <4>1. \A n \in Nat : /\ Placed(Inserted(left, there \cup {i}, i, n), there \cup {i})
                            /\ \A j \in Cards \ (there \cup {i}) : Inserted(left, there \cup {i}, i, n)[j] = left[j]
          <5> DEFINE T == there \cup {i}
          <5>1. T \in SUBSET Cards /\ i \in T /\ left \in [Cards -> Nat]
            BY <2>2, <2>3
          <5> HIDE DEF T
          <5>2. \A n \in Nat : /\ Placed(Inserted(left, T, i, n), T)
                              /\ \A j \in Cards \ T : Inserted(left, T, i, n)[j] = left[j]
            BY <5>1, InsertedPlaced
          <5> QED BY <5>2 DEF T
        <4> QED BY <1>2, <3>2, <4>1
      <3> QED BY <2>4, <3>1, <3>2
    <2>6. /\ In(g, cards)' = there \cup {i} /\ In(old, cards)' = here \ {i}
          /\ \A h \in Groups \ {g, old} : In(h, cards)' = In(h, cards)
      BY <1>o, <1>1, <1>4, <1>6 DEF In, TypeOK, TableTypeOK, here, there
    <2>7. Placed(pos', here \ {i})
      <3>1. \A j \in here \ {i} : j \in Cards /\ j \notin there \cup {i}
        BY <1>1, <1>6 DEF In, here, there
      <3> QED BY <2>3, <2>5, <3>1, PlacedSame
    <2>8. ASSUME NEW h \in Groups \ {g, old} PROVE Placed(pos', In(h, cards))
      <3>1. \A j \in In(h, cards) : j \in Cards /\ j # i /\ j \notin there /\ j \notin here
        BY <1>o, <1>3, <2>8 DEF In, here, there
      <3>2. \A j \in In(h, cards) : pos'[j] = pos[j]
        BY <2>1, <2>3, <2>5, <3>1
      <3> QED BY <1>3, <3>2, PlacedSame
    <2> QED BY <2>5, <2>6, <2>7, <2>8 DEF Everywhere
  <1> QED BY <1>5, <1>6

LEMMA TakeOutPlaced ==
    ASSUME TypeOK, Everywhere, NEW C \in SUBSET cards, TakeOut(C), \A i \in cards : group'[i] = group[i]
    PROVE  Everywhere'
  <1> SUFFICES ASSUME NEW h \in Groups PROVE Placed(pos', In(h, cards)')
    BY DEF Everywhere
  <1>1. cards' = cards \ C /\ In(h, cards)' = In(h, cards \ C)
    BY DEF TakeOut, In
  <1>2. In(h, cards \ C) \in SUBSET Cards /\ pos \in [Cards -> Nat] /\ Placed(pos, In(h, cards))
    BY DEF In, TypeOK, TableTypeOK, Everywhere
  <1>3. CASE \E j \in C : group[j] = h
    <2>1. \A i \in In(h, cards \ C) : pos'[i] = Rank(pos, i, In(h, cards \ C))
      BY <1>2, <1>3 DEF TakeOut, In
    <2>2. \A i \in In(h, cards \ C) : pos'[i] < Cardinality(In(h, cards \ C))
      BY <1>2, <2>1, RankBelow
    <2>3. \A i \in In(h, cards \ C) : \A j \in In(h, cards \ C) \ {i} : pos'[j] # pos'[i]
      BY <1>2, <2>1, RankOwn
    <2> QED BY <1>1, <2>2, <2>3 DEF Placed
  <1>4. CASE ~\E j \in C : group[j] = h
    <2>1. In(h, cards \ C) = In(h, cards)
      BY <1>4 DEF In
    <2>2. \A i \in In(h, cards) : pos'[i] = pos[i]
      BY <1>2, <1>4, <2>1 DEF TakeOut, In
    <2> QED BY <1>1, <1>2, <2>1, <2>2, PlacedSame
  <1> QED BY <1>3, <1>4

LEMMA PositionsStep ==
    ASSUME Unraced, Uncleared PROVE LookedInv /\ Everywhere /\ [Next]_vars => Everywhere'
  <1> SUFFICES ASSUME LookedInv, Everywhere, [Next]_vars PROVE Everywhere'
    OBVIOUS
  <1> USE DEF things, content, history
  <1>t. TypeOK /\ Looked
    BY DEF LookedInv
  <1>q. ASSUME cards' = cards, group' = group, pos' = pos PROVE Everywhere'
    BY <1>q DEF Everywhere, In
  <1>1. ASSUME NEW c \in Clients, InsertCreate(c) PROVE Everywhere'
    <2>2. PICK i \in Cards, g \in Groups : i = doing[c].card /\ g = doing[c].group
      BY <1>1, <1>t DEF InsertCreate, AtRest, TypeOK, RequestTypeOK
    <2> DEFINE S == In(g, cards)
    <2>1. i \notin cards /\ doing[c].place = Cardinality(S)
      BY <1>1, <1>t, <2>2 DEF InsertCreate, Looked, Inserting
    <2>3. /\ cards' = cards \cup {i} /\ group' = [group EXCEPT ![i] = g]
          /\ \/ pos' = [pos EXCEPT ![i] = doing[c].place]
             \/ \E k \in Places : pos' = Inserted(pos, S \cup {i}, i, k)
      BY <1>1, <2>2 DEF InsertCreate
    <2>4. group'[i] = g /\ \A j \in Cards \ {i} : group'[j] = group[j]
      BY <2>2, <2>3, <1>t DEF TypeOK, TableTypeOK
    <2>5. In(g, cards)' = S \cup {i} /\ \A h \in Groups \ {g} : In(h, cards)' = In(h, cards)
      BY <2>1, <2>2, <2>3, <2>4, <1>t DEF In, TypeOK, TableTypeOK
    <2>6. S \in SUBSET Cards /\ i \in Cards \ S /\ pos \in [Cards -> Nat] /\ Placed(pos, S)
      BY <2>1, <2>2, <1>t DEF In, TypeOK, TableTypeOK, Everywhere
    <2>7. Places \subseteq Nat
      BY DEF Places
    <2> HIDE DEF S
    <2>8. Placed(pos', S \cup {i}) /\ \A j \in Cards \ (S \cup {i}) : pos'[j] = pos[j]
      <3>1. CASE pos' = [pos EXCEPT ![i] = doing[c].place]
        <4>1. pos' = [pos EXCEPT ![i] = Cardinality(S)]
          BY <2>1, <3>1
        <4>2. Placed(pos', S \cup {i})
          BY <2>6, <4>1, PlacedLast
        <4> QED BY <2>6, <4>1, <4>2
      <3>2. ASSUME NEW k \in Places, pos' = Inserted(pos, S \cup {i}, i, k)
            PROVE  Placed(pos', S \cup {i}) /\ \A j \in Cards \ (S \cup {i}) : pos'[j] = pos[j]
        <4>1. S \cup {i} \in SUBSET Cards /\ i \in S \cup {i} /\ k \in Nat
          BY <2>6, <2>7
        <4>2. \A n \in Nat : /\ Placed(Inserted(pos, S \cup {i}, i, n), S \cup {i})
                            /\ \A j \in Cards \ (S \cup {i}) : Inserted(pos, S \cup {i}, i, n)[j] = pos[j]
          BY <2>6, <4>1, InsertedPlaced
        <4>3. /\ Placed(Inserted(pos, S \cup {i}, i, k), S \cup {i})
              /\ \A j \in Cards \ (S \cup {i}) : Inserted(pos, S \cup {i}, i, k)[j] = pos[j]
          BY ONLY <4>1, <4>2
        <4> QED BY ONLY <3>2, <4>3
      <3> QED BY <2>3, <3>1, <3>2
    <2>9. ASSUME NEW h \in Groups \ {g} PROVE Placed(pos', In(h, cards))
      <3>1. \A j \in In(h, cards) : j \in Cards \ (S \cup {i})
        BY <2>1, <1>t DEF In, S, TypeOK, TableTypeOK
      <3>2. Placed(pos, In(h, cards))
        BY DEF Everywhere
      <3>3. \A j \in In(h, cards) : pos'[j] = pos[j]
        BY <2>8, <3>1
      <3> QED BY <3>2, <3>3, PlacedSame
    <2> QED BY <2>5, <2>8, <2>9 DEF Everywhere
  <1>2. ASSUME NEW c \in Clients, NEW i \in Cards, NEW g \in Groups, NEW done \in BOOLEAN, NEW named \in BOOLEAN,
               Update(c, i, g, done, named)
        PROVE  Everywhere'
    BY <1>2, <1>t, ReorderPlaced DEF Update
  <1>3. ASSUME NEW c \in Clients, NEW t \in Stages, DeleteStage(c, t) PROVE FALSE
    BY <1>3 DEF DeleteStage, Uncleared
  <1>4. ASSUME NEW c \in Clients, NEW b \in Boards, DeleteBoard(c, b) PROVE Everywhere'
    <2>1. Stages = {}
      BY <1>4 DEF DeleteBoard, Uncleared
    <2>2. \A i \in cards : group'[i] = group[i]
      BY <1>4, <1>t, <2>1 DEF DeleteBoard, Cleared, TypeOK, TableTypeOK
    <2>3. TakeOut(OfBoard(b)) /\ OfBoard(b) \in SUBSET cards
      BY <1>4 DEF DeleteBoard, OfBoard
    <2> QED BY <1>t, <2>2, <2>3, TakeOutPlaced
  <1>5. ASSUME NEW c \in Clients, NEW i \in Cards, DeleteCard(c, i) PROVE Everywhere'
    <2>1. TakeOut({i}) /\ {i} \in SUBSET cards /\ group' = group
      BY <1>5 DEF DeleteCard
    <2> QED BY <1>t, <2>1, TakeOutPlaced
  <1>6. ASSUME NEW c \in Clients, Sweep(c) PROVE Everywhere'
    <2>1. TakeOut(doing[c].old \cap cards) /\ group' = group
      BY <1>6 DEF Sweep
    <2> QED BY <1>t, <2>1, TakeOutPlaced
  <1>7. ASSUME NEW c \in Clients,
               \/ \E i \in Cards : Get(c, i)
               \/ \E i \in Cards, g \in Groups : LookCreate(c, i, g)
               \/ Tell(c) \/ LookSweep(c)
        PROVE  Everywhere'
    BY <1>7, <1>q DEF Get, LookCreate, Tell, LookSweep
  <1>8. ASSUME NEW i \in Cards, Age(i) PROVE Everywhere'
    BY <1>8, <1>q DEF Age
  <1>9. CASE UNCHANGED vars
    BY <1>9, <1>q DEF vars
  <1> QED BY <1>1, <1>2, <1>3, <1>4, <1>5, <1>6, <1>7, <1>8, <1>9 DEF Next, Serve

(* The positions of every group are 0..n-1, one each, where creates are not*)
(* raced and no links are cleared.                                         *)
THEOREM PositionsKept == ASSUME Unraced, Uncleared PROVE Spec => []Positions
  <1>1. Init => LookedInv /\ Everywhere
    BY LookedInit DEF Init, Everywhere, Placed, In
  <1>2. LookedInv /\ Everywhere /\ [Next]_vars => LookedInv' /\ Everywhere'
    BY LookedStep, PositionsStep
  <1>3. LookedInv /\ Everywhere => Positions
    BY DEF LookedInv, TypeOK, TableTypeOK, Everywhere, Placed, Positions, In
  <1> QED BY <1>1, <1>2, <1>3, PTL DEF Spec
----------------------------------------------------------------------------
(* The order of the cards, whatever happens to positions: a number may be  *)
(* missing or taken twice (a race, a cleared link), the order holds.       *)

(* Those of S stand at q as they stood at p.                               *)
Agree(p, q, S) == \A i, j \in S : Before(q, i, j) <=> Before(p, i, j)

LEMMA BeforeIsTotal ==
    ASSUME NEW p \in [Cards -> Nat], NEW i \in Cards, NEW j \in Cards, NEW k \in Cards
    PROVE  /\ i = j \/ Before(p, i, j) \/ Before(p, j, i)
           /\ ~Before(p, i, i)
           /\ Before(p, i, j) => ~Before(p, j, i)
           /\ Before(p, i, j) /\ Before(p, j, k) => Before(p, i, k)
  <1>1. i \in Nat /\ j \in Nat /\ k \in Nat /\ p[i] \in Nat /\ p[j] \in Nat /\ p[k] \in Nat
    BY ConstantsAssumption
  <1> QED BY <1>1 DEF Before

LEMMA SameAgree ==
    ASSUME NEW p, NEW q, NEW S, \A i \in S : q[i] = p[i]
    PROVE  Agree(p, q, S)
  BY DEF Agree, Before

LEMMA AgreeRead ==
    ASSUME NEW p, NEW q, NEW S, Agree(p, q, S), NEW o, NEW r, \A i \in S : o[i] = p[i] /\ r[i] = q[i]
    PROVE  Agree(o, r, S)
  BY DEF Agree, Before

(* Places that grow with the rank.                                         *)
LEMMA RanksAgree ==
    ASSUME NEW p \in [Cards -> Nat], NEW q \in [Cards -> Nat], NEW S \in SUBSET Cards,
           \A i, j \in S : Rank(p, i, S) < Rank(p, j, S) => q[i] < q[j]
    PROVE  Agree(p, q, S)
  <1> SUFFICES ASSUME NEW i \in S, NEW j \in S PROVE Before(q, i, j) <=> Before(p, i, j)
    BY DEF Agree
  <1>1. q[i] \in Nat /\ q[j] \in Nat
    OBVIOUS
  <1>2. ASSUME Before(p, i, j) PROVE Before(q, i, j)
    BY <1>2, RankGrows DEF Before
  <1>3. ASSUME Before(p, j, i) PROVE ~Before(q, i, j)
    <2>1. q[j] < q[i]
      BY <1>3, RankGrows
    <2> QED BY <1>1, <2>1 DEF Before
  <1>4. i = j => ~Before(q, i, j)
    BY BeforeIsTotal
  <1>5. i = j \/ Before(p, i, j) \/ Before(p, j, i)
    BY BeforeIsTotal
  <1>6. i = j => ~Before(p, i, j)
    BY BeforeIsTotal
  <1> QED BY <1>2, <1>3, <1>4, <1>5, <1>6

LEMMA RenumberedAgrees ==
    ASSUME NEW p \in [Cards -> Nat], NEW S \in SUBSET Cards
    PROVE  Agree(p, Renumbered(p, S), S)
  <1>1. Renumbered(p, S) \in [Cards -> Nat] /\ \A i \in S : Renumbered(p, S)[i] = Rank(p, i, S)
    BY RenumberedPlaced DEF Renumbered
  <1> QED BY <1>1, RanksAgree

LEMMA InsertedAgrees ==
    ASSUME NEW p \in [Cards -> Nat], NEW S \in SUBSET Cards, NEW m \in S, NEW k \in Nat
    PROVE  Agree(p, Inserted(p, S, m, k), S \ {m})
  <1> DEFINE others == S \ {m}
             spot == IF k < Cardinality(others) THEN k ELSE Cardinality(others)
             q == Inserted(p, S, m, k)
  <1>1. others \in SUBSET Cards /\ q \in [Cards -> Nat]
    BY InsertedPlaced
  <1>2. spot \in Nat
    BY <1>1, Counted
  <1>3. \A i \in others : q[i] = Rank(p, i, others) + (IF Rank(p, i, others) < spot THEN 0 ELSE 1)
    BY DEF Inserted
  <1>4. \A i \in others : Rank(p, i, others) \in Nat
    BY <1>1, RankNat
  <1> HIDE DEF others, spot, q
  <1>5. \A i, j \in others : Rank(p, i, others) < Rank(p, j, others) => q[i] < q[j]
    BY <1>2, <1>3, <1>4
  <1>6. Agree(p, q, others)
    BY <1>1, <1>5, RanksAgree
  <1> QED BY <1>6 DEF others, q

LEMMA ReorderAgrees ==
    ASSUME TypeOK, NEW i \in cards, NEW g \in Groups, Reorder(i, g)
    PROVE  \A h \in Groups : Agree(pos, pos', In(h, cards) \ {i})
  <1> SUFFICES ASSUME NEW h \in Groups PROVE Agree(pos, pos', In(h, cards) \ {i})
    OBVIOUS
  <1> DEFINE here == In(group[i], cards)
             there == In(g, cards)
             last == [pos EXCEPT ![i] = Cardinality(there)]
             left == Renumbered(last, here \ {i})
             rest == In(h, cards) \ {i}
  <1>1. here \in SUBSET Cards /\ there \in SUBSET Cards /\ i \in here /\ pos \in [Cards -> Nat] /\ i \in Cards
    BY DEF TypeOK, TableTypeOK, In
  <1>2. rest \in SUBSET Cards /\ Places \subseteq Nat
    BY DEF TypeOK, TableTypeOK, In, Places
  <1>3. h = group[i] => rest = here \ {i}
    OBVIOUS
  <1>4. h # group[i] => rest \cap here = {}
    BY DEF In
  <1>5. h = g => rest = there \ {i}
    OBVIOUS
  <1>6. h # g => rest \cap there = {}
    BY DEF In
  <1>7. CASE group[i] = g
    <2>1. CASE pos' = pos
      BY <2>1, SameAgree
    <2>2. ASSUME NEW k \in Places, pos' = Inserted(pos, here, i, k) PROVE Agree(pos, pos', rest)
      <3>1. Agree(pos, pos', here \ {i}) /\ \A j \in Cards \ here : pos'[j] = pos[j]
        <4> HIDE DEF here
        <4> QED BY <1>1, <1>2, <2>2, InsertedAgrees, InsertedPlaced
      <3>2. h # group[i] => Agree(pos, pos', rest)
        BY <1>2, <1>4, <3>1, SameAgree
      <3> QED BY <1>3, <3>1, <3>2
    <2> QED BY <1>7, <2>1, <2>2 DEF Reorder
  <1>8. CASE group[i] # g
    <2>1. last \in [Cards -> Nat] /\ \A j \in Cards \ {i} : last[j] = pos[j]
      BY <1>1, Counted
    <2>2. /\ left \in [Cards -> Nat] /\ Agree(last, left, here \ {i})
          /\ \A j \in Cards \ (here \ {i}) : left[j] = last[j]
      <3>1. here \ {i} \in SUBSET Cards
        BY <1>1
      <3> HIDE DEF last, here
      <3> QED BY <2>1, <3>1, RenumberedPlaced, RenumberedAgrees
    <2>3. there \cap here = {} /\ i \notin there
      BY <1>8 DEF In
    <2>4. there \cup {i} \in SUBSET Cards /\ there \in SUBSET (Cards \ here)
      BY <1>1, <2>3
    <2>5. /\ Agree(left, pos', there)
          /\ \A j \in Cards \ (there \cup {i}) : pos'[j] = left[j]
      <3>1. pos' = Renumbered(left, there \cup {i}) \/ \E k \in Places : pos' = Inserted(left, there \cup {i}, i, k)
        BY <1>8 DEF Reorder
      <3> HIDE DEF left, there
      <3>2. CASE pos' = Renumbered(left, there \cup {i})
        <4>1. Agree(left, pos', there \cup {i})
          BY <2>2, <2>4, <3>2, RenumberedAgrees
        <4>2. \A j \in Cards \ (there \cup {i}) : pos'[j] = left[j]
          BY <2>2, <2>4, <3>2, RenumberedPlaced
        <4> QED BY <4>1, <4>2 DEF Agree
      <3>3. ASSUME NEW k \in Places, pos' = Inserted(left, there \cup {i}, i, k)
            PROVE  /\ Agree(left, pos', there)
                   /\ \A j \in Cards \ (there \cup {i}) : pos'[j] = left[j]
        <4>1. Agree(left, pos', (there \cup {i}) \ {i})
          BY <1>2, <2>2, <2>4, <3>3, InsertedAgrees
        <4>2. (there \cup {i}) \ {i} = there
          BY <2>3
        <4>3. \A j \in Cards \ (there \cup {i}) : pos'[j] = left[j]
          BY <1>2, <2>2, <2>4, <3>3, InsertedPlaced
        <4> QED BY <4>1, <4>2, <4>3
      <3> QED BY <3>1, <3>2, <3>3
    <2> HIDE DEF last, left, here, there, rest
    <2>6. ASSUME h = g PROVE Agree(pos, pos', rest)
      <3>1. \A j \in there : left[j] = pos[j]
        BY <1>1, <2>1, <2>2, <2>3, <2>4
      <3>2. rest = there
        BY <1>5, <2>3, <2>6
      <3>3. Agree(pos, pos', there)
        BY <2>5, <3>1, AgreeRead
      <3> QED BY <3>2, <3>3
    <2>7. ASSUME h = group[i] PROVE Agree(pos, pos', rest)
      <3>1. \A j \in here \ {i} : pos'[j] = left[j] /\ last[j] = pos[j]
        BY <1>1, <2>1, <2>3, <2>5
      <3>2. Agree(pos, pos', here \ {i})
        BY <2>2, <3>1, AgreeRead
      <3> QED BY <1>3, <2>7, <3>2
    <2>8. ASSUME h # g, h # group[i] PROVE Agree(pos, pos', rest)
      <3>1. i \notin rest
        BY DEF rest
      <3>2. ASSUME NEW j \in rest PROVE pos'[j] = pos[j]
        <4>1. j \in Cards /\ j # i /\ j \notin here /\ j \notin there
          BY <1>2, <1>4, <1>6, <2>8, <3>1
        <4>2. pos'[j] = left[j]
          BY <2>5, <4>1
        <4>3. left[j] = last[j]
          BY <2>2, <4>1
        <4> QED BY <2>1, <4>1, <4>2, <4>3
      <3> QED BY <3>2, SameAgree
    <2> QED BY <2>6, <2>7, <2>8 DEF rest
  <1> QED BY <1>7, <1>8

LEMMA TakeOutAgrees ==
    ASSUME TypeOK, NEW C \in SUBSET cards, TakeOut(C)
    PROVE  \A h \in Groups : Agree(pos, pos', In(h, cards) \ C)
  <1> SUFFICES ASSUME NEW h \in Groups PROVE Agree(pos, pos', In(h, cards \ C))
    BY DEF In
  <1>1. In(h, cards \ C) \in SUBSET Cards /\ pos \in [Cards -> Nat] /\ pos' \in [Cards -> Nat]
    BY TakeOutTyped DEF In, TypeOK, TableTypeOK
  <1>2. CASE \E j \in C : group[j] = h
    <2>1. \A i \in In(h, cards \ C) : pos'[i] = Rank(pos, i, In(h, cards \ C))
      BY <1>1, <1>2 DEF TakeOut, In
    <2> QED BY <1>1, <2>1, RanksAgree
  <1>3. CASE ~\E j \in C : group[j] = h
    <2>1. \A i \in In(h, cards \ C) : pos'[i] = pos[i]
      BY <1>1, <1>3 DEF TakeOut, In
    <2> QED BY <2>1, SameAgree
  <1> QED BY <1>2, <1>3

----------------------------------------------------------------------------
(* Read as BoardOrder's lines, the table makes its steps.                  *)

HeldNow == [g \in Groups |-> In(g, cards)]
EarlierNow == {e \in cards \X cards : group[e[1]] = group[e[2]] /\ Before(pos, e[1], e[2])}

LEMMA LinesStand == TypeOK => Order!InOneLine(HeldNow, EarlierNow)
  <1> SUFFICES ASSUME TypeOK, NEW g \in Groups
               PROVE  /\ \A i, j \in In(g, cards) : i = j \/ <<i, j>> \in EarlierNow \/ <<j, i>> \in EarlierNow
                      /\ \A i \in In(g, cards) : <<i, i>> \notin EarlierNow
                      /\ \A i, j, k \in In(g, cards) :
                            <<i, j>> \in EarlierNow /\ <<j, k>> \in EarlierNow => <<i, k>> \in EarlierNow
    BY DEF Order!InOneLine, HeldNow
  <1>1. In(g, cards) \in SUBSET Cards /\ pos \in [Cards -> Nat]
    BY DEF TypeOK, TableTypeOK, In
  <1>2. \A i, j \in In(g, cards) : <<i, j>> \in EarlierNow <=> Before(pos, i, j)
    BY DEF EarlierNow, In
  <1> QED BY <1>1, <1>2, BeforeIsTotal

(* Two that stay and stay together keep their order, where positions agree.*)
LEMMA TheyKeep ==
    ASSUME TypeOK, NEW C, cards \ C \subseteq cards',
           \A h \in Groups : Agree(pos, pos', In(h, cards) \ C),
           \A i, j \in cards \ C : group[i] = group[j] => group'[i] = group'[j]
    PROVE  Order!OthersKeep(C)
  <1> SUFFICES ASSUME NEW h \in Groups, NEW i \in In(h, cards) \ C, NEW j \in In(h, cards) \ C
               PROVE  <<i, j>> \in EarlierNow' <=> <<i, j>> \in EarlierNow
    BY DEF Order!OthersKeep, HeldNow, EarlierNow
  <1>1. /\ i \in cards /\ j \in cards /\ i \in cards' /\ j \in cards'
        /\ group[i] = group[j] /\ group'[i] = group'[j]
    BY DEF In
  <1>2. Before(pos', i, j) <=> Before(pos, i, j)
    BY DEF Agree
  <1> QED BY <1>1, <1>2 DEF EarlierNow, Before

LEMMA PutStep ==
    ASSUME TypeOK, NEW i \in Cards, NEW g \in Groups, cards' = cards \cup {i}, group' = [group EXCEPT ![i] = g],
           \A h \in Groups : Agree(pos, pos', In(h, cards) \ {i})
    PROVE  Order!Put(i, g)
  <1>1. group'[i] = g /\ \A j \in Cards \ {i} : group'[j] = group[j]
    BY DEF TypeOK, TableTypeOK
  <1>2. cards \subseteq Cards
    BY DEF TypeOK, TableTypeOK
  <1>3. Order!OthersKeep({i})
    BY <1>1, <1>2, TheyKeep
  <1>4. \A h \in Groups : In(h, cards)' = IF h = g THEN In(h, cards) \cup {i} ELSE In(h, cards) \ {i}
    BY <1>1, <1>2 DEF In
  <1> QED BY <1>3, <1>4 DEF Order!Put

LEMMA TakeStep ==
    ASSUME TypeOK, NEW C \in SUBSET cards, TakeOut(C), group' = group
    PROVE  Order!Take(C)
  <1>1. cards' = cards \ C
    BY DEF TakeOut
  <1>2. Order!OthersKeep(C)
    BY <1>1, TakeOutAgrees, TheyKeep
  <1>3. \A h \in Groups : In(h, cards)' = In(h, cards) \ C
    BY <1>1 DEF In
  <1> QED BY <1>2, <1>3 DEF Order!Take

(* Links to the stages of T are cleared.                                   *)
LEMMA ClearStep ==
    ASSUME TypeOK, NEW C \in SUBSET cards, NEW T, cards' = cards \ C,
           \A h \in Groups : Agree(pos, pos', In(h, cards) \ C),
           Cleared({i \in cards \ C : group[i][2] \in T})
    PROVE  Order!Clear(C, {g \in Groups : g[2] \in T})
  <1> DEFINE to(g) == IF g[2] \in T THEN Unstaged(g) ELSE g
  <1>1. \A i \in cards \ C : group[i] \in Groups /\ group'[i] = to(group[i])
    BY DEF Cleared, Unstaged, TypeOK, TableTypeOK
  <1>2. Order!OthersKeep(C)
    BY <1>1, TheyKeep
  <1>3. \A h \in Groups : In(h, cards)' = UNION {In(g, cards) \ C : g \in {g \in Groups : to(g) = h}}
    BY <1>1 DEF In
  <1>4. \A g \in Groups :
            to(g) = IF g \in {k \in Groups : k[2] \in T} THEN [k \in Groups |-> Unstaged(k)][g] ELSE g
    OBVIOUS
  <1> QED BY <1>2, <1>3, <1>4 DEF Order!Clear

LEMMA StillLine ==
    ASSUME cards' = cards, group' = group, pos' = pos
    PROVE  UNCHANGED Order!line
  BY DEF Order!line, In, Before

LEMMA OrderStep == TypeOK /\ TypeOK' /\ [Next]_vars => [Order!Next]_(Order!line)
  <1> SUFFICES ASSUME TypeOK, TypeOK', [Next]_vars
               PROVE  \/ \E i \in Cards, g \in Groups : Order!Put(i, g)
                      \/ \E C \in SUBSET Cards : Order!Take(C)
                      \/ \E C \in SUBSET Cards, G \in SUBSET Groups : Order!Clear(C, G)
                      \/ UNCHANGED Order!line
    <2>1. TypeOK' => Order!InOneLine(HeldNow, EarlierNow)'
      BY LinesStand, PTL
    <2>2. TypeOK' => Order!InOneLine([g \in Groups |-> In(g, cards)]',
               {e \in cards \X cards : group[e[1]] = group[e[2]] /\ Before(pos, e[1], e[2])}')
      BY <2>1 DEF HeldNow, EarlierNow, Order!InOneLine
    <2> QED BY <2>2 DEF Order!Next
  <1> USE DEF things, content, history
  <1>c. cards \subseteq Cards
    BY DEF TypeOK, TableTypeOK
  <1>1. ASSUME NEW c \in Clients, InsertCreate(c) PROVE \E i \in Cards, g \in Groups : Order!Put(i, g)
    <2> DEFINE i == doing[c].card
               g == doing[c].group
    <2>1. i \in Cards /\ g \in Groups /\ doing[c].place \in Nat
      BY <1>1 DEF InsertCreate, TypeOK, RequestTypeOK, AtRest
    <2>2. /\ cards' = cards \cup {i} /\ group' = [group EXCEPT ![i] = g]
          /\ \/ pos' = [pos EXCEPT ![i] = doing[c].place]
             \/ \E k \in Places : pos' = Inserted(pos, In(g, cards) \cup {i}, i, k)
      BY <1>1 DEF InsertCreate
    <2> HIDE DEF i, g
    <2>3. pos \in [Cards -> Nat] /\ Places \subseteq Nat /\ \A h \in Groups : In(h, cards) \in SUBSET Cards
      BY DEF TypeOK, TableTypeOK, Places, In
    <2>4. ASSUME NEW h \in Groups PROVE Agree(pos, pos', In(h, cards) \ {i})
      <3>1. CASE pos' = [pos EXCEPT ![i] = doing[c].place]
        <4>1. \A j \in In(h, cards) \ {i} : pos'[j] = pos[j]
          BY <2>3, <3>1
        <4> QED BY <4>1, SameAgree
      <3>2. ASSUME NEW k \in Places, pos' = Inserted(pos, In(g, cards) \cup {i}, i, k)
            PROVE  Agree(pos, pos', In(h, cards) \ {i})
        <4>1. In(g, cards) \cup {i} \in SUBSET Cards /\ k \in Nat
          BY <2>1, <2>3
        <4>2. Agree(pos, pos', (In(g, cards) \cup {i}) \ {i})
          BY <2>3, <3>2, <4>1, InsertedAgrees
        <4>3. \A j \in Cards \ (In(g, cards) \cup {i}) : pos'[j] = pos[j]
          BY <2>3, <3>2, <4>1, InsertedPlaced
        <4>4. CASE h = g
          BY <4>2, <4>4 DEF Agree
        <4>5. CASE h # g
          <5>1. \A j \in In(h, cards) \ {i} : pos'[j] = pos[j]
            BY <2>3, <4>3, <4>5 DEF In
          <5> QED BY <5>1, SameAgree
        <4> QED BY <4>4, <4>5
      <3> QED BY <2>2, <3>1, <3>2
    <2> QED BY <2>1, <2>2, <2>4, PutStep
  <1>2. ASSUME NEW c \in Clients, NEW i \in Cards, NEW g \in Groups, NEW done \in BOOLEAN, NEW named \in BOOLEAN,
               Update(c, i, g, done, named)
        PROVE  Order!Put(i, g)
    <2>1. i \in cards /\ cards' = cards \cup {i} /\ group' = [group EXCEPT ![i] = g] /\ Reorder(i, g)
      BY <1>2 DEF Update
    <2> QED BY <2>1, ReorderAgrees, PutStep
  <1>3. ASSUME NEW c \in Clients, NEW i \in Cards, DeleteCard(c, i) PROVE \E C \in SUBSET Cards : Order!Take(C)
    BY <1>3, <1>c, TakeStep DEF DeleteCard
  <1>4. ASSUME NEW c \in Clients, Sweep(c) PROVE \E C \in SUBSET Cards : Order!Take(C)
    <2>1. TakeOut(doing[c].old \cap cards) /\ group' = group
      BY <1>4 DEF Sweep
    <2> QED BY <1>c, <2>1, TakeStep
  <1>5. ASSUME NEW c \in Clients, NEW s \in Stages, DeleteStage(c, s)
        PROVE  \E C \in SUBSET Cards, G \in SUBSET Groups : Order!Clear(C, G)
    <2>1. cards' = cards /\ pos' = pos /\ Cleared({i \in cards : group[i][2] = s})
      BY <1>5 DEF DeleteStage
    <2>2. {i \in cards : group[i][2] = s} = {i \in cards \ {} : group[i][2] \in {s}}
      OBVIOUS
    <2>3. Order!Clear({}, {g \in Groups : g[2] \in {s}})
      BY <2>1, <2>2, SameAgree, ClearStep
    <2> QED BY <2>3
  <1>6. ASSUME NEW c \in Clients, NEW b \in Boards, DeleteBoard(c, b)
        PROVE  \E C \in SUBSET Cards, G \in SUBSET Groups : Order!Clear(C, G)
    <2> PICK C, T : C = OfBoard(b) /\ T = stages \ stages'
      OBVIOUS
    <2>1. /\ TakeOut(C) /\ cards' = cards \ C
          /\ Cleared({i \in cards \ C : group[i][2] \in T})
      BY <1>6 DEF DeleteBoard, TakeOut
    <2>2. C \in SUBSET cards
      BY DEF OfBoard
    <2>3. Order!Clear(C, {g \in Groups : g[2] \in T})
      BY <2>1, <2>2, TakeOutAgrees, ClearStep
    <2> QED BY <1>c, <2>2, <2>3
  <1>7. ASSUME NEW c \in Clients,
               \/ \E i \in Cards : Get(c, i)
               \/ \E i \in Cards, g \in Groups : LookCreate(c, i, g)
               \/ Tell(c) \/ LookSweep(c)
        PROVE  UNCHANGED Order!line
    BY <1>7, StillLine DEF Get, LookCreate, Tell, LookSweep
  <1>8. ASSUME NEW i \in Cards, Age(i) PROVE UNCHANGED Order!line
    BY <1>8, StillLine DEF Age
  <1>9. CASE UNCHANGED vars
    BY <1>9, StillLine DEF vars
  <1> QED BY <1>1, <1>2, <1>3, <1>4, <1>5, <1>6, <1>7, <1>8, <1>9 DEF Next, Serve

(* Whatever is met (creates that race, links that are cleared, boards and  *)
(* old cards that go), no step but a card's own move takes it past another *)
(* of its group: the table, read by position and id, is what BoardOrder    *)
(* promises.                                                               *)
THEOREM KeepsTheOrder == Spec => InOrder
  <1>1. Init => Order!Init
    BY DEF Init, Order!Init, In
  <1>2. TypeOK /\ TypeOK' /\ [Next]_vars => [Order!Next]_(Order!line)
    BY OrderStep
  <1>3. Spec => []TypeOK
    BY TypeCorrect
  <1> QED BY <1>1, <1>2, <1>3, PTL DEF Spec, InOrder, Order!Spec
----------------------------------------------------------------------------
(* What listeners are told.  Where no card goes, what has been committed   *)
(* and not told is in the hands of the request that did it, and the record *)
(* it is to be told of is there.                                           *)

NoneGoes == Hazards \cap {"cards", "boards", "expire"} = {}

InHand ==
    /\ \A u \in untold : \E c \in Clients : doing[c] = [step |-> "tell", change |-> u]
    /\ \A c \in Clients : doing[c].step = "tell" => doing[c].change[1] \in cards
    /\ \A c \in Clients : doing[c].step # "expire"

LEMMA InHandStep == ASSUME NoneGoes PROVE TypeOK /\ InHand /\ [Next]_vars => InHand'
  <1> SUFFICES ASSUME TypeOK, InHand, [Next]_vars PROVE InHand'
    OBVIOUS
  <1> USE DEF things, content, history
  <1>d. doing \in [Clients -> {AtRest}
                   \cup [step : {"insert"}, card : Cards, group : Groups, place : Nat]
                   \cup [step : {"tell"}, change : Changes]
                   \cup [step : {"expire"}, old : SUBSET Cards]]
    BY DEF TypeOK, RequestTypeOK
  <1>1. ASSUME NEW c \in Clients, NEW change, doing[c].step # "tell", cards \subseteq cards', change[1] \in cards',
               untold' = untold \cup {change}, doing' = [doing EXCEPT ![c] = [step |-> "tell", change |-> change]]
        PROVE  InHand'
    <2>1. doing'[c] = [step |-> "tell", change |-> change] /\ \A d \in Clients \ {c} : doing'[d] = doing[d]
      BY <1>1, <1>d
    <2>2. \A u \in untold : \E d \in Clients \ {c} : doing[d] = [step |-> "tell", change |-> u]
      BY <1>1 DEF InHand
    <2> QED BY <1>1, <2>1, <2>2 DEF InHand
  <1>2. ASSUME NEW c \in Clients, InsertCreate(c) PROVE InHand'
    <2>1. cards' = cards \cup {doing[c].card} /\ doing[c].step = "insert"
      BY <1>2 DEF InsertCreate
    <2> DEFINE change == <<doing[c].card, "created", 1>>
    <2>2. untold' = untold \cup {change} /\ doing' = [doing EXCEPT ![c] = [step |-> "tell", change |-> change]]
      BY <1>2 DEF InsertCreate, Commit, Telling
    <2>3. change[1] \in cards'
      BY <2>1
    <2> HIDE DEF change
    <2> QED BY <1>1, <2>1, <2>2, <2>3
  <1>3. ASSUME NEW c \in Clients, NEW i \in Cards, NEW g \in Groups, NEW done \in BOOLEAN, NEW named \in BOOLEAN,
               Update(c, i, g, done, named)
        PROVE  InHand'
    <2>1. cards' = cards /\ i \in cards /\ doing[c].step # "tell"
      BY <1>3 DEF Update, Asks, AtRest
    <2> DEFINE change == <<i, "changed", rev[i] + 1>>
    <2>2. untold' = untold \cup {change} /\ doing' = [doing EXCEPT ![c] = [step |-> "tell", change |-> change]]
      BY <1>3 DEF Update, Commit, Telling
    <2>3. change[1] \in cards'
      BY <2>1
    <2> HIDE DEF change
    <2> QED BY <1>1, <2>1, <2>2, <2>3
  <1>4. ASSUME NEW c \in Clients, Tell(c) PROVE InHand'
    <2>1. /\ doing[c].step = "tell" /\ cards' = cards
          /\ doing' = [doing EXCEPT ![c] = AtRest]
          /\ untold' = untold \ {doing[c].change}
      BY <1>4 DEF Tell, InHand
    <2>2. doing'[c].step = "rest" /\ \A d \in Clients \ {c} : doing'[d] = doing[d]
      BY <1>d, <2>1 DEF AtRest
    <2>3. \A u \in untold' : \E d \in Clients \ {c} : doing[d] = [step |-> "tell", change |-> u]
      BY <2>1 DEF InHand
    <2> QED BY <2>1, <2>2, <2>3 DEF InHand
  <1>5. ASSUME NEW c \in Clients, NEW i \in Cards, NEW g \in Groups, LookCreate(c, i, g) PROVE InHand'
    <2>1. doing[c].step = "rest" /\ UNCHANGED <<cards, untold>>
      BY <1>5 DEF LookCreate, Asks, AtRest
    <2>2. doing'[c].step = "insert" /\ \A d \in Clients \ {c} : doing'[d] = doing[d]
      BY <1>5, <1>d DEF LookCreate
    <2> QED BY <2>1, <2>2 DEF InHand
  <1>6. ASSUME NEW c \in Clients,
               \/ LookSweep(c) \/ Sweep(c)
               \/ \E i \in Cards : DeleteCard(c, i)
               \/ \E b \in Boards : DeleteBoard(c, b)
        PROVE  FALSE
    BY <1>6 DEF LookSweep, Sweep, DeleteCard, DeleteBoard, NoneGoes, InHand
  <1>7. ASSUME UNCHANGED <<cards, untold, doing>> PROVE InHand'
    BY <1>7 DEF InHand
  <1>8. ASSUME NEW c \in Clients, (\E i \in Cards : Get(c, i)) \/ (\E t \in Stages : DeleteStage(c, t)) PROVE InHand'
    BY <1>7, <1>8 DEF Get, DeleteStage
  <1>9. ASSUME NEW i \in Cards, Age(i) PROVE InHand'
    BY <1>7, <1>9 DEF Age
  <1>10. CASE UNCHANGED vars
    BY <1>7, <1>10 DEF vars
  <1> QED BY <1>2, <1>3, <1>4, <1>5, <1>6, <1>8, <1>9, <1>10 DEF Next, Serve

(* "Told after every create, change and delete that committed"             *)
(* (records.py): so it is, whoever else writes, of creates and changes,    *)
(* where no card goes.                                                     *)
THEOREM AllAreTold == ASSUME NoneGoes PROVE Spec => []AllTold
  <1>1. Init => InHand
    BY DEF Init, InHand, AtRest
  <1>2. TypeOK /\ InHand /\ [Next]_vars => InHand'
    BY InHandStep
  <1>3. InHand => AllTold
    <2>1. AtRest.step = "rest" /\ \A u : [step |-> "tell", change |-> u].step = "tell"
      BY DEF AtRest
    <2> QED BY <2>1 DEF InHand, AllTold
  <1> QED BY TypeCorrect, <1>1, <1>2, <1>3, PTL DEF Spec
=============================================================================
