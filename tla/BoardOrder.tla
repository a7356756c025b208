----------------------------- MODULE BoardOrder -----------------------------
(***************************************************************************)
(* What "ordered_within" promises: the cards of each group stand in a line.*)
(* A card is put in at a place, moved to a place of any group, or taken    *)
(* out, and lines run together where a link that parted them is cleared.   *)
(* Whatever happens to some, the others keep their order.                  *)
(***************************************************************************)
CONSTANTS
    Cards,
    Groups,
    Merged      \* Merged[g]: the group g's cards are in once its link is cleared

VARIABLES
    held,       \* held[g]: the cards of group g
    earlier     \* <<i, j>>: i is before j in the group both are in

line == <<held, earlier>>

InOneLine(h, e) ==
    \A g \in Groups :
        /\ \A i, j \in h[g] : i = j \/ <<i, j>> \in e \/ <<j, i>> \in e
        /\ \A i \in h[g] : <<i, i>> \notin e
        /\ \A i, j, k \in h[g] : <<i, j>> \in e /\ <<j, k>> \in e => <<i, k>> \in e

(* Two that were in one group, and are not of C, stand as they stood.      *)
OthersKeep(C) == \A g \in Groups : \A i, j \in held[g] \ C : <<i, j>> \in earlier' <=> <<i, j>> \in earlier

Init ==
    /\ held = [g \in Groups |-> {}]
    /\ earlier = {}

(* A card of no group, or of one, goes to a place of g.                    *)
Put(i, g) ==
    /\ held' = [h \in Groups |-> IF h = g THEN held[h] \cup {i} ELSE held[h] \ {i}]
    /\ OthersKeep({i})

(* Cards go.                                                               *)
Take(C) ==
    /\ held' = [g \in Groups |-> held[g] \ C]
    /\ OthersKeep(C)

(* Cards go, and the link that made each group of G is cleared.            *)
Clear(C, G) ==
    LET to(g) == IF g \in G THEN Merged[g] ELSE g
    IN  /\ held' = [h \in Groups |-> UNION {held[g] \ C : g \in {g \in Groups : to(g) = h}}]
        /\ OthersKeep(C)

Next ==
    /\ \/ \E i \in Cards, g \in Groups : Put(i, g)
       \/ \E C \in SUBSET Cards : Take(C)
       \/ \E C \in SUBSET Cards, G \in SUBSET Groups : Clear(C, G)
    /\ InOneLine(held', earlier')

Spec == Init /\ [][Next]_line
=============================================================================
