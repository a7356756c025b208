---------------------------- MODULE MCLocalSyncs ----------------------------
EXTENDS LocalSyncs

CONSTANTS f1, f2, n1, n2, p1, p2

(* A folder for each place, and two folders of one name for one place.     *)
IntoOwn    == [f \in Folders |-> IF f = f1 THEN {p1} ELSE {p2}]
IntoShared == [f \in Folders |-> {p1}]

(* n1 is a folder when n2 is a file in it.                                 *)
Nested == {<<n2, n1>>}
=============================================================================
