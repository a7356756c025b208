-------------------------- MODULE LocalSyncs_proofs --------------------------
(* Proofs about LocalSyncs, for every value of its constants.              *)
EXTENDS LocalSyncs, SequenceTheorems, TLAPS

----------------------------------------------------------------------------
(* Types.                                                                  *)

(* The files, on both sides.                                               *)
FilesTyped ==
    /\ disk \in [Folders -> [Names -> Files]]
    /\ access \in [Folders -> [Names -> Access]]
    /\ there \subseteq Folders
    /\ drive \in [Places -> [Names -> Files]]
    /\ dirs \subseteq Places \X Names
    /\ now \in 0 .. MaxEdits /\ acts \in 0 .. MaxActs /\ faults \in 0 .. MaxFaults

(* The rows, and what the agent was told of them.                          *)
RowsTyped ==
    /\ rows \in Seq(Row) /\ Len(rows) <= MaxRows
    /\ \A i \in DOMAIN rows : rows[i].into \in Into[rows[i].folder]
    /\ listed \in Seq(Row) /\ Len(listed) <= Len(rows)
    /\ \A i \in DOMAIN listed : rows[i].folder = listed[i].folder /\ rows[i].into = listed[i].into
    /\ turn \in 1 .. Len(listed) + 1
    /\ step \notin {"rest", "turn"} => turn \in DOMAIN listed
    /\ late \subseteq [row : DOMAIN rows, name : Names]

(* What a pass knows.                                                      *)
PassTyped ==
    /\ step \in Steps
    /\ local \subseteq Names /\ left \subseteq Names /\ walked \subseteq Names
    /\ remote \in [Names -> Files]
    /\ IF step = "send" THEN sending \in [name : Names, at : 1 .. MaxEdits] ELSE sending = NoName
    /\ steady \in BOOLEAN

LEMMA TypeParts == TypeOK <=> FilesTyped /\ RowsTyped /\ PassTyped
  BY DEF TypeOK, FilesTyped, RowsTyped, PassTyped

LEMMA BoundsAreNumbers ==
    MaxRows \in Nat /\ MaxEdits \in Nat /\ MaxActs \in Nat /\ MaxFaults \in Nat
  BY ConstantsAssumption

LEMMA WrittenIsFile ==
    ASSUME now \in Nat, now < MaxEdits, NEW size \in Sizes, NEW at \in 1 .. MaxEdits
    PROVE  Written(size, at) \in Files /\ Written(size, at) # NoFile
  BY BoundsAreNumbers, ConstantsAssumption DEF Written, Files, NoFile

(* A file that is there has a content, a time and a size.                  *)
LEMMA FileThere ==
    ASSUME NEW d \in Files, d # NoFile
    PROVE  d \in [body : 1 .. MaxEdits, size : Sizes, at : 1 .. MaxEdits]
  BY DEF Files

(* What a file written in the drive makes a folder of.                     *)
LEMMA MadeTyped ==
    ASSUME dirs \subseteq Places \X Names, NEW p \in Places, NEW n \in Names
    PROVE  Made(p, n) \subseteq Places \X Names
  <1>1. {<<p, m>> : m \in {k \in Names : <<n, k>> \in Under}} \subseteq Places \X Names
    <2>1. \A m \in {k \in Names : <<n, k>> \in Under} : <<p, m>> \in Places \X Names
      OBVIOUS
    <2> QED BY <2>1, Zenon
  <1> QED BY <1>1, Zenon DEF Made

(* A call that is under way is for a row there has been.                   *)
LEMMA LateTyped ==
    ASSUME RowsTyped, NEW c \in late
    PROVE  c.row \in DOMAIN rows /\ c.name \in Names /\ rows[c.row].into \in Places
  <1>1. c.row \in DOMAIN rows /\ c.name \in Names
    BY DEF RowsTyped
  <1>2. rows[c.row] \in Row
    BY <1>1 DEF RowsTyped
  <1> QED BY <1>1, <1>2 DEF Row

(* The row the agent is at.                                                *)
LEMMA RowAtHand ==
    ASSUME RowsTyped, turn \in DOMAIN listed
    PROVE  /\ turn \in DOMAIN rows /\ turn \in Nat \ {0}
           /\ Folder \in Folders /\ Place \in Places /\ Place \in Into[Folder]
           /\ rows[turn].folder = Folder /\ rows[turn].into = Place
  <1>1. /\ rows \in Seq(Row) /\ listed \in Seq(Row) /\ Len(listed) <= Len(rows)
        /\ Len(rows) \in Nat /\ Len(listed) \in Nat
        /\ DOMAIN rows = 1 .. Len(rows) /\ DOMAIN listed = 1 .. Len(listed)
    BY DEF RowsTyped
  <1>2. turn \in DOMAIN rows /\ turn \in Nat \ {0}
    BY <1>1
  <1>3. listed[turn] \in Row
    BY <1>1
  <1> QED BY <1>2, <1>3 DEF RowsTyped, Row, Folder, Place

LEMMA InitTyped == Init => TypeOK
  <1> SUFFICES ASSUME Init PROVE TypeOK
    OBVIOUS
  <1>1. FilesTyped
    BY BoundsAreNumbers DEF Init, FilesTyped, Files, Access
  <1>2. RowsTyped
    BY BoundsAreNumbers DEF Init, RowsTyped
  <1>3. PassTyped
    BY DEF Init, PassTyped, Steps, Files
  <1> QED BY <1>1, <1>2, <1>3, TypeParts

(* Files change by the edits of people and by what the agent has done.     *)
LEMMA FilesStayTyped ==
    ASSUME TypeOK, [Next]_vars
    PROVE  FilesTyped'
  <1> USE TypeParts, BoundsAreNumbers
  <1>1. FilesTyped /\ RowsTyped /\ PassTyped
    OBVIOUS
  <1>2. ASSUME NEW f \in Folders, NEW n \in Names, NEW size \in Sizes, Edit(f, n, size) PROVE FilesTyped'
    <2>1. PICK at \in {now + 1} \cup (IF "quick" \in Hazards /\ disk[f][n] # NoFile THEN {disk[f][n].at} ELSE {}) :
             disk' = [disk EXCEPT ![f][n] = Written(size, at)]
      BY <1>2 DEF Edit
    <2>2. at \in 1 .. MaxEdits
      <3>1. disk[f][n] # NoFile => disk[f][n].at \in 1 .. MaxEdits
        BY <1>1, FileThere DEF FilesTyped
      <3> QED BY <1>1, <1>2, <2>1, <3>1 DEF FilesTyped, Edit
    <2>3. Written(size, at) \in Files
      BY <1>1, <1>2, <2>2, WrittenIsFile DEF FilesTyped, Edit
    <2>4. disk' \in [Folders -> [Names -> Files]]
      BY <1>1, <2>1, <2>3 DEF FilesTyped
    <2> QED BY <1>1, <1>2, <2>4 DEF FilesTyped, Edit, server
  <1>3. ASSUME NEW f \in Folders, NEW n \in Names, Erase(f, n) PROVE FilesTyped'
    BY <1>1, <1>3 DEF FilesTyped, Erase, server, Files
  <1>4. ASSUME NEW f \in Folders, NEW n \in Names, NEW a \in Access, Permit(f, n, a) PROVE FilesTyped'
    BY <1>1, <1>4 DEF FilesTyped, Permit, server
  <1>5. ASSUME NEW f \in Folders, Mount(f) PROVE FilesTyped'
    BY <1>1, <1>5 DEF FilesTyped, Mount, server
  <1>6. ASSUME NEW f \in Folders, NEW p \in Places, Create(f, p) PROVE FilesTyped'
    BY <1>1, <1>6 DEF FilesTyped, Create, machine, bounds
  <1>7. ASSUME NEW p \in Places, NEW n \in Names, NEW size \in Sizes, SaveInDrive(p, n, size) PROVE FilesTyped'
    <2>1. Written(size, now + 1) \in Files
      BY <1>1, <1>7, WrittenIsFile DEF FilesTyped, SaveInDrive
    <2>2. dirs' \subseteq Places \X Names
      BY <1>1, <1>7, MadeTyped DEF FilesTyped, SaveInDrive
    <2> QED BY <1>1, <1>7, <2>1, <2>2 DEF FilesTyped, SaveInDrive, machine
  <1>8. ASSUME NEW p \in Places, NEW n \in Names, DeleteInDrive(p, n) PROVE FilesTyped'
    BY <1>1, <1>8 DEF FilesTyped, DeleteInDrive, machine, Files
  <1>9. ASSUME NEW i \in DOMAIN rows, Delete(i) \/ Ask(i) PROVE FilesTyped'
    BY <1>1, <1>9 DEF FilesTyped, Delete, Ask, machine
  <1>10. ASSUME NEW i \in DOMAIN rows, Elapse(i) PROVE FilesTyped'
    BY <1>1, <1>10 DEF FilesTyped, Elapse, machine, bounds
  <1>11. CASE Tick \/ PassOver \/ EndTick \/ Look \/ Walk \/ List
    BY <1>1, <1>11 DEF FilesTyped, Tick, PassOver, EndTick, Look, Walk, List, machine, server, bounds
  <1>12. ASSUME NEW n \in Names, MatchSame(n) \/ MatchChanged(n) PROVE FilesTyped'
    BY <1>1, <1>12 DEF FilesTyped, MatchSame, MatchChanged, machine, server, bounds
  <1>13. ASSUME NEW n \in Names, Remove(n) PROVE FilesTyped'
    BY <1>1, <1>13 DEF FilesTyped, Remove, machine, bounds, Files
  <1>14. CASE Put
    <2>1. turn \in DOMAIN listed /\ step = "send"
      BY <1>1, <1>14 DEF Put, RowsTyped
    <2>2. sending.name \in Names /\ sending.at \in 1 .. MaxEdits
      BY <1>1, <2>1 DEF PassTyped
    <2>3. Folder \in Folders /\ Place \in Places
      BY <1>1, <2>1, RowAtHand
    <2>4. disk[Folder][sending.name] \in [body : 1 .. MaxEdits, size : Sizes, at : 1 .. MaxEdits]
      BY <1>1, <1>14, <2>2, <2>3, FileThere DEF FilesTyped, Put, Openable, Reach
    <2>5. Sent(Folder, sending.name, sending.at) \in Files
      BY <2>2, <2>4 DEF Sent, Files
    <2>6. drive' \in [Places -> [Names -> Files]]
      BY <1>1, <1>14, <2>2, <2>3, <2>5 DEF FilesTyped, Put
    <2>7. dirs' \subseteq Places \X Names
      BY <1>1, <1>14, <2>2, <2>3, MadeTyped DEF FilesTyped, Put
    <2> QED BY <1>1, <1>14, <2>6, <2>7 DEF FilesTyped, Put, machine, bounds
  <1>15. CASE Skip \/ AllSent \/ Done \/ Refused
    BY <1>1, <1>15 DEF FilesTyped, Skip, AllSent, Done, Refused, machine, server, bounds
  <1>16. CASE Unreached
    BY <1>1, <1>16 DEF FilesTyped, Unreached, machine
  <1>17. ASSUME NEW c \in late, LateRemove(c) PROVE FilesTyped'
    <2>1. UNCHANGED <<machine, dirs, bounds>>
      BY <1>17 DEF LateRemove
    <2>2. drive' = [drive EXCEPT ![rows[c.row].into][c.name] = NoFile] \/ drive' = drive
      BY <1>17 DEF LateRemove
    <2>3. drive' \in [Places -> [Names -> Files]]
      <3>1. c.name \in Names /\ rows[c.row].into \in Places
        BY <1>1, <1>17, LateTyped
      <3>2. PICK p \in Places, n \in Names : drive' = [drive EXCEPT ![p][n] = NoFile] \/ drive' = drive
        BY <2>2, <3>1
      <3>3. NoFile \in Files /\ drive \in [Places -> [Names -> Files]]
        BY <1>1 DEF Files, FilesTyped
      <3> QED BY <3>2, <3>3
    <2> QED BY <1>1, <2>1, <2>3 DEF FilesTyped, machine, bounds
  <1>18. CASE UNCHANGED vars
    BY <1>1, <1>18 DEF FilesTyped, vars, machine, server, bounds
  <1> QED BY <1>2, <1>3, <1>4, <1>5, <1>6, <1>7, <1>8, <1>9, <1>10, <1>11, <1>12, <1>13, <1>14, <1>15, <1>16,
             <1>17, <1>18 DEF Next, PersonStep, AgentStep

(* Rows are only added and only their marks change; what the agent was told*)
(* of stays told.                                                          *)
LEMMA RowsStayTyped ==
    ASSUME TypeOK, [Next]_vars
    PROVE  RowsTyped'
  <1> USE TypeParts, BoundsAreNumbers
  <1>1. FilesTyped /\ RowsTyped /\ PassTyped
    OBVIOUS
  <1>2. /\ rows \in Seq(Row) /\ listed \in Seq(Row) /\ Len(listed) <= Len(rows)
        /\ Len(rows) \in Nat /\ Len(listed) \in Nat
        /\ DOMAIN rows = 1 .. Len(rows) /\ DOMAIN listed = 1 .. Len(listed)
    BY <1>1 DEF RowsTyped
  (* Other rows with the same folders and places, as many or more.         *)
  <1>3. ASSUME rows' \in Seq(Row), Len(rows') <= MaxRows, Len(rows) <= Len(rows'),
               \A i \in DOMAIN rows : rows'[i].folder = rows[i].folder /\ rows'[i].into = rows[i].into,
               \A i \in DOMAIN rows' : rows'[i].into \in Into[rows'[i].folder],
               UNCHANGED <<listed, turn, step, late>>
        PROVE  RowsTyped'
    <2>1. Len(rows') \in Nat /\ DOMAIN rows' = 1 .. Len(rows')
      BY <1>3
    <2>2. late' \subseteq [row : DOMAIN rows', name : Names]
      BY <1>1, <1>2, <1>3, <2>1 DEF RowsTyped
    <2>3. \A i \in DOMAIN listed' : rows'[i].folder = listed'[i].folder /\ rows'[i].into = listed'[i].into
      BY <1>1, <1>2, <1>3 DEF RowsTyped
    <2> QED BY <1>1, <1>2, <1>3, <2>1, <2>2, <2>3 DEF RowsTyped
  <1>4. ASSUME NEW i \in DOMAIN rows, NEW r \in Row, r.folder = rows[i].folder, r.into = rows[i].into,
               rows' = [rows EXCEPT ![i] = r]
        PROVE  /\ rows' \in Seq(Row) /\ Len(rows') = Len(rows) /\ DOMAIN rows' = DOMAIN rows
               /\ \A j \in DOMAIN rows : rows'[j].folder = rows[j].folder /\ rows'[j].into = rows[j].into
               /\ \A j \in DOMAIN rows' : rows'[j].into \in Into[rows'[j].folder]
    <2>1. rows' \in Seq(Row) /\ Len(rows') = Len(rows) /\ DOMAIN rows' = DOMAIN rows
      BY <1>2, <1>4
    <2>2. \A j \in DOMAIN rows : rows'[j].folder = rows[j].folder /\ rows'[j].into = rows[j].into
      BY <1>2, <1>4
    <2> QED BY <1>1, <2>1, <2>2 DEF RowsTyped
  <1>5. ASSUME NEW f \in Folders, NEW p \in Places, Create(f, p) PROVE RowsTyped'
    <2> DEFINE r == [folder |-> f, into |-> p, on |-> TRUE, runNow |-> TRUE, last |-> "never", asked |-> TRUE]
    <2>1. r \in Row /\ rows' = Append(rows, r) /\ p \in Into[f] /\ r.into = p /\ r.folder = f
      BY <1>5 DEF Create, Row
    <2> HIDE DEF r
    <2>2. /\ rows' \in Seq(Row) /\ Len(rows') = Len(rows) + 1
          /\ \A i \in DOMAIN rows : rows'[i] = rows[i]
          /\ rows'[Len(rows) + 1] = r
          /\ DOMAIN rows' = DOMAIN rows \cup {Len(rows) + 1}
      BY <1>2, <2>1
    <2>3. Len(rows') <= MaxRows
      BY <1>2, <1>5, <2>2 DEF Create
    <2>4. \A i \in DOMAIN rows' : rows'[i].into \in Into[rows'[i].folder]
      BY <1>1, <2>1, <2>2 DEF RowsTyped
    <2>5. UNCHANGED <<listed, turn, step, late>>
      BY <1>5 DEF Create, pass
    <2> QED BY <1>2, <1>3, <2>2, <2>3, <2>4, <2>5
  <1>6. ASSUME NEW i \in DOMAIN rows, Delete(i) \/ Ask(i) \/ Elapse(i) PROVE RowsTyped'
    <2>1. rows[i] \in Row
      BY <1>2
    <2>2. PICK r \in Row : r.folder = rows[i].folder /\ r.into = rows[i].into /\ rows' = [rows EXCEPT ![i] = r]
      <3>1. CASE Delete(i)
        <4>1. [rows[i] EXCEPT !.on = FALSE] \in Row
          BY <2>1 DEF Row
        <4>2. rows' = [rows EXCEPT ![i] = [rows[i] EXCEPT !.on = FALSE]]
          BY <3>1 DEF Delete, RowsWithout
        <4> QED BY <2>1, <4>1, <4>2 DEF Row
      <3>2. CASE Ask(i)
        <4>1. [rows[i] EXCEPT !.runNow = TRUE, !.asked = TRUE] \in Row
          BY <2>1 DEF Row
        <4>2. rows' = [rows EXCEPT ![i] = [rows[i] EXCEPT !.runNow = TRUE, !.asked = TRUE]]
          BY <1>2, <3>2 DEF Ask
        <4> QED BY <2>1, <4>1, <4>2 DEF Row
      <3>3. CASE Elapse(i)
        <4>1. [rows[i] EXCEPT !.last = "long ago"] \in Row
          BY <2>1 DEF Row
        <4>2. rows' = [rows EXCEPT ![i] = [rows[i] EXCEPT !.last = "long ago"]]
          BY <3>3 DEF Elapse
        <4> QED BY <2>1, <4>1, <4>2 DEF Row
      <3> QED BY <1>6, <3>1, <3>2, <3>3
    <2>3. UNCHANGED <<listed, turn, step, late>>
      BY <1>6 DEF Delete, Ask, Elapse, pass
    <2> QED BY <1>1, <1>2, <1>3, <1>4, <2>2, <2>3 DEF RowsTyped
  <1>7. ASSUME UNCHANGED <<rows, listed, turn, late>>, step \notin {"rest", "turn"} \/ step' \in {"rest", "turn"}
                                                         \/ turn \in DOMAIN listed
        PROVE  RowsTyped'
    BY <1>1, <1>7 DEF RowsTyped
  <1>8. ASSUME UNCHANGED rows, listed' = <<>>, turn' = 1, step' = "rest",
               late' \subseteq [row : DOMAIN rows, name : Names]
        PROVE  RowsTyped'
    BY <1>1, <1>2, <1>8 DEF RowsTyped
  <1>9. CASE \E f \in Folders : \/ Mount(f)
                               \/ \E n \in Names : \/ \E size \in Sizes : Edit(f, n, size)
                                                   \/ Erase(f, n)
                                                   \/ \E a \in Access : Permit(f, n, a)
    BY <1>1, <1>9 DEF Edit, Erase, Permit, Mount, server, RowsTyped
  <1>10. CASE \E p \in Places, n \in Names : (\E size \in Sizes : SaveInDrive(p, n, size)) \/ DeleteInDrive(p, n)
    BY <1>1, <1>10 DEF SaveInDrive, DeleteInDrive, RowsTyped
  <1>11. CASE Tick
    BY <1>1, <1>2, <1>11 DEF Tick, server, RowsTyped
  <1>12. CASE PassOver
    BY <1>1, <1>2, <1>12 DEF PassOver, server, RowsTyped
  <1>13. CASE EndTick
    BY <1>1, <1>8, <1>13 DEF EndTick, server, RowsTyped
  <1>14. CASE Look
    <2>1. turn \in DOMAIN rows /\ turn \in DOMAIN listed /\ rows[turn] \in Row
      BY <1>1, <1>2, <1>14, RowAtHand DEF Look
    <2>2. [rows[turn] EXCEPT !.asked = FALSE] \in Row
      BY <2>1 DEF Row
    <2>3. rows' = [rows EXCEPT ![turn] = [rows[turn] EXCEPT !.asked = FALSE]]
      BY <1>14 DEF Look
    <2>4. UNCHANGED <<listed, turn, late>> /\ step' \in {"walk", "refused"}
      BY <1>14 DEF Look, Looked
    <2>5. [rows[turn] EXCEPT !.asked = FALSE].folder = rows[turn].folder
          /\ [rows[turn] EXCEPT !.asked = FALSE].into = rows[turn].into
      BY <2>1 DEF Row
    <2>6. /\ rows' \in Seq(Row) /\ Len(rows') = Len(rows) /\ DOMAIN rows' = DOMAIN rows
          /\ \A j \in DOMAIN rows : rows'[j].folder = rows[j].folder /\ rows'[j].into = rows[j].into
          /\ \A j \in DOMAIN rows' : rows'[j].into \in Into[rows'[j].folder]
      BY <1>4, <2>1, <2>2, <2>3, <2>5
    <2> QED BY <1>1, <1>2, <2>1, <2>4, <2>6 DEF RowsTyped
  <1>15. CASE Done
    <2>1. turn \in DOMAIN rows /\ turn \in DOMAIN listed /\ rows[turn] \in Row
      BY <1>1, <1>2, <1>15, RowAtHand DEF Done, RowsTyped
    <2>2. [rows[turn] EXCEPT !.runNow = FALSE, !.last = "lately"] \in Row
      BY <2>1 DEF Row
    <2>3. rows' = [rows EXCEPT ![turn] = [rows[turn] EXCEPT !.runNow = FALSE, !.last = "lately"]]
      BY <1>2, <1>15, <2>1 DEF Done, Finished
    <2>4. UNCHANGED <<listed, late>> /\ step' = "turn" /\ turn' = turn + 1
      BY <1>15 DEF Done
    <2>5. [rows[turn] EXCEPT !.runNow = FALSE, !.last = "lately"].folder = rows[turn].folder
          /\ [rows[turn] EXCEPT !.runNow = FALSE, !.last = "lately"].into = rows[turn].into
      BY <2>1 DEF Row
    <2>6. /\ rows' \in Seq(Row) /\ Len(rows') = Len(rows) /\ DOMAIN rows' = DOMAIN rows
          /\ \A j \in DOMAIN rows : rows'[j].folder = rows[j].folder /\ rows'[j].into = rows[j].into
          /\ \A j \in DOMAIN rows' : rows'[j].into \in Into[rows'[j].folder]
      BY <1>4, <2>1, <2>2, <2>3, <2>5
    <2> QED BY <1>1, <1>2, <2>1, <2>4, <2>6 DEF RowsTyped
  <1>16. CASE Walk \/ List \/ Put \/ Skip \/ AllSent \/ (\E n \in Names : MatchSame(n) \/ MatchChanged(n) \/ Remove(n))
    BY <1>7, <1>16 DEF Walk, List, Put, Skip, AllSent, MatchSame, MatchChanged, Remove, server
  <1>17. CASE Refused
    BY <1>1, <1>8, <1>17 DEF Refused, server, RowsTyped
  <1>18. CASE Unreached
    <2>1. late' \subseteq [row : DOMAIN rows, name : Names]
      <3>1. CASE late' = late
        BY <1>1, <3>1 DEF RowsTyped
      <3>2. CASE step = "take" /\ \E n \in left : late' = late \cup {[row |-> turn, name |-> n]}
        <4>1. turn \in DOMAIN rows /\ left \subseteq Names
          BY <1>1, <3>2, RowAtHand DEF RowsTyped, PassTyped
        <4> QED BY <1>1, <3>2, <4>1 DEF RowsTyped
      <3> QED BY <1>18, <3>1, <3>2 DEF Unreached
    <2> QED BY <1>8, <1>18, <2>1 DEF Unreached
  <1>19. ASSUME NEW c \in late, LateRemove(c) PROVE RowsTyped'
    BY <1>1, <1>19 DEF LateRemove, RowsTyped
  <1>20. CASE UNCHANGED vars
    BY <1>1, <1>20 DEF RowsTyped, vars, server, pass
  <1> QED BY <1>5, <1>6, <1>9, <1>10, <1>11, <1>12, <1>13, <1>14, <1>15, <1>16, <1>17, <1>18, <1>19, <1>20
      DEF Next, PersonStep, AgentStep

(* People change nothing of a pass but whether it is steady.               *)
LEMMA OffThePass ==
    ASSUME PersonStep
    PROVE  /\ UNCHANGED <<step, local, left, walked, remote, sending>>
           /\ steady' = steady \/ (\E f \in Folders : Touch(f)) \/ \E p \in Places : TouchPlace(p)
  <1>1. ASSUME NEW f \in Folders, NEW n \in Names, NEW size \in Sizes, Edit(f, n, size)
        PROVE  UNCHANGED <<step, local, left, walked, remote, sending>> /\ Touch(f)
    BY <1>1 DEF Edit
  <1>2. ASSUME NEW f \in Folders, NEW n \in Names, Erase(f, n) \/ \E a \in Access : Permit(f, n, a)
        PROVE  UNCHANGED <<step, local, left, walked, remote, sending>> /\ Touch(f)
    BY <1>2 DEF Erase, Permit
  <1>3. ASSUME NEW f \in Folders, Mount(f)
        PROVE  UNCHANGED <<step, local, left, walked, remote, sending>> /\ Touch(f)
    BY <1>3 DEF Mount
  <1>4. ASSUME NEW f \in Folders, NEW p \in Places, Create(f, p)
        PROVE  UNCHANGED <<step, local, left, walked, remote, sending, steady>>
    BY <1>4 DEF Create, pass
  <1>5. ASSUME NEW p \in Places, NEW n \in Names, NEW size \in Sizes, SaveInDrive(p, n, size)
        PROVE  UNCHANGED <<step, local, left, walked, remote, sending>> /\ TouchPlace(p)
    BY <1>5 DEF SaveInDrive
  <1>6. ASSUME NEW p \in Places, NEW n \in Names, DeleteInDrive(p, n)
        PROVE  UNCHANGED <<step, local, left, walked, remote, sending>> /\ TouchPlace(p)
    BY <1>6 DEF DeleteInDrive
  <1>7. ASSUME NEW i \in DOMAIN rows, Delete(i) \/ Ask(i)
        PROVE  UNCHANGED <<step, local, left, walked, remote, sending, steady>>
    BY <1>7 DEF Delete, Ask, pass
  <1> QED BY <1>1, <1>2, <1>3, <1>4, <1>5, <1>6, <1>7 DEF PersonStep

(* Each step of a pass knows what the one before it left.                  *)
LEMMA PassStaysTyped ==
    ASSUME TypeOK, [Next]_vars
    PROVE  PassTyped'
  <1> USE TypeParts, BoundsAreNumbers
  <1>1. FilesTyped /\ RowsTyped /\ PassTyped
    OBVIOUS
  <1>2. ASSUME UNCHANGED <<step, local, left, walked, remote, sending>>, steady' \in BOOLEAN PROVE PassTyped'
    BY <1>1, <1>2 DEF PassTyped, NoName
  <1>3. ASSUME EndPass, step' \in {"rest", "turn"} PROVE PassTyped'
    BY <1>3 DEF PassTyped, EndPass, Steps, Files
  <1>4. CASE PersonStep
    <2>1. UNCHANGED <<step, local, left, walked, remote, sending>>
      BY <1>4, OffThePass
    <2>2. CASE steady' = steady
      BY <1>1, <1>2, <2>1, <2>2 DEF PassTyped
    <2>3. CASE \E f \in Folders : Touch(f)
      BY <1>1, <1>2, <2>1, <2>3 DEF Touch, PassTyped
    <2>4. CASE \E p \in Places : TouchPlace(p)
      BY <1>1, <1>2, <2>1, <2>4 DEF TouchPlace, PassTyped
    <2> QED BY <1>4, <2>2, <2>3, <2>4, OffThePass
  <1>5. CASE \E i \in DOMAIN rows : Elapse(i)
    BY <1>1, <1>2, <1>5 DEF Elapse, pass, PassTyped
  <1>6. CASE \E c \in late : LateRemove(c)
    BY <1>1, <1>2, <1>6 DEF LateRemove, TouchPlace, PassTyped
  <1>7. CASE Tick \/ PassOver \/ EndTick
    BY <1>1, <1>7 DEF Tick, PassOver, EndTick, PassTyped, Steps
  <1>8. CASE Look
    BY <1>1, <1>8 DEF Look, Looked, PassTyped, Steps
  <1>9. CASE Walk
    BY <1>1, <1>9 DEF Walk, Walked, PassTyped, Steps
  <1>10. CASE List
    <2>1. Place \in Places
      BY <1>1, <1>10, RowAtHand DEF List, RowsTyped
    <2>2. remote' \in [Names -> Files]
      BY <1>1, <1>10, <2>1 DEF List, FilesTyped
    <2> QED BY <1>1, <1>10, <2>2 DEF List, PassTyped, Steps
  <1>11. ASSUME NEW n \in Names, MatchSame(n) \/ Remove(n) PROVE PassTyped'
    BY <1>1, <1>11 DEF MatchSame, Remove, PassTyped
  <1>12. ASSUME NEW n \in Names, MatchChanged(n) PROVE PassTyped'
    <2>1. Folder \in Folders
      BY <1>1, <1>12, RowAtHand DEF MatchChanged, RowsTyped
    <2>2. disk[Folder][n].at \in 1 .. MaxEdits
      BY <1>1, <1>12, <2>1, FileThere DEF MatchChanged, ToSend, Reach, FilesTyped
    <2> QED BY <1>1, <1>12, <2>2 DEF MatchChanged, PassTyped, Steps
  <1>13. CASE Put \/ Skip
    BY <1>1, <1>13 DEF Put, Skip, PassTyped, Steps
  <1>14. CASE AllSent
    BY <1>1, <1>14 DEF AllSent, Gone, PassTyped, Steps
  <1>15. CASE Done \/ Refused \/ Unreached
    BY <1>3, <1>15 DEF Done, Refused, Unreached
  <1>16. CASE UNCHANGED vars
    BY <1>1, <1>2, <1>16 DEF vars, pass, PassTyped
  <1> QED BY <1>4, <1>5, <1>6, <1>7, <1>8, <1>9, <1>10, <1>11, <1>12, <1>13, <1>14, <1>15, <1>16
      DEF Next, AgentStep

(* TypeOK: the agent's rows stay those of the table.                       *)
THEOREM TypeCorrect == Spec => []TypeOK
  <1>1. TypeOK /\ [Next]_vars => TypeOK'
    BY FilesStayTyped, RowsStayTyped, PassStaysTyped, TypeParts DEF TypeOK, FilesTyped, RowsTyped, PassTyped
  <1> QED BY InitTyped, <1>1, PTL DEF Spec

----------------------------------------------------------------------------
(* Times.                                                                  *)

(* No two folders may go to one place.                                     *)
OwnPlaces == \A f, g \in Folders : f # g => Into[f] \cap Into[g] = {}

(* No file is of a time to come.                                           *)
Timed ==
    /\ \A f \in Folders, n \in Names : disk[f][n].at <= now
    /\ \A p \in Places, n \in Names : drive[p][n].at <= now
    /\ step = "send" => sending.at <= now

LEMMA FileNumbers ==
    ASSUME FilesTyped
    PROVE  /\ now \in Nat
           /\ \A f \in Folders, n \in Names : disk[f][n] \in Files /\ disk[f][n].at \in Nat
           /\ \A p \in Places, n \in Names : drive[p][n] \in Files /\ drive[p][n].at \in Nat
           /\ NoFile.at = 0
  <1>1. \A d \in Files : d.at \in Nat
    BY BoundsAreNumbers DEF Files, NoFile
  <1> QED BY <1>1 DEF FilesTyped, NoFile

LEMMA TimesStay ==
    ASSUME TypeOK, TypeOK', Timed, [Next]_vars
    PROVE  Timed'
  <1>1. FilesTyped /\ RowsTyped /\ PassTyped
    BY TypeParts
  <1>2. FilesTyped'
    BY DEF TypeOK, FilesTyped
  <1>3. /\ now \in Nat
        /\ \A f \in Folders, n \in Names : disk[f][n].at \in Nat
        /\ \A p \in Places, n \in Names : drive[p][n].at \in Nat
        /\ NoFile.at = 0
    BY <1>1, FileNumbers
  <1>4. disk \in [Folders -> [Names -> Files]] /\ drive \in [Places -> [Names -> Files]]
    BY <1>1 DEF FilesTyped
  <1>5. step = "send" => sending.at \in Nat
    BY <1>1, BoundsAreNumbers DEF PassTyped
  <1>6. ASSUME UNCHANGED <<disk, drive>>, now' = now, step' = "send" => UNCHANGED <<step, sending>>
        PROVE  Timed'
    BY <1>6 DEF Timed
  <1>7. ASSUME NEW f \in Folders, NEW n \in Names, NEW size \in Sizes, Edit(f, n, size) PROVE Timed'
    <2>1. PICK at \in {now + 1} \cup (IF "quick" \in Hazards /\ disk[f][n] # NoFile THEN {disk[f][n].at} ELSE {}) :
             disk' = [disk EXCEPT ![f][n] = Written(size, at)]
      BY <1>7 DEF Edit
    <2>2. at <= now + 1 /\ at \in Nat
      BY <1>3, <2>1 DEF Timed
    <2>3. Written(size, at).at <= now'
      BY <1>7, <2>2 DEF Written, Edit
    <2>4. \A g \in Folders, m \in Names : disk'[g][m].at <= now'
      BY <1>3, <1>4, <1>7, <2>1, <2>3 DEF Timed, Edit
    <2>5. now' = now + 1 /\ UNCHANGED <<drive, step, sending>>
      BY <1>7 DEF Edit, server
    <2> QED BY <1>3, <1>5, <2>4, <2>5 DEF Timed
  <1>8. ASSUME NEW f \in Folders, NEW n \in Names, Erase(f, n) PROVE Timed'
    BY <1>3, <1>4, <1>8 DEF Timed, Erase, server
  <1>9. ASSUME NEW f \in Folders, NEW n \in Names, NEW a \in Access, Permit(f, n, a) PROVE Timed'
    BY <1>6, <1>9 DEF Permit, server
  <1>9a. ASSUME NEW f \in Folders, Mount(f) \/ \E p \in Places : Create(f, p) PROVE Timed'
    BY <1>6, <1>9a DEF Mount, Create, server, machine, pass, bounds
  <1>10. ASSUME NEW p \in Places, NEW n \in Names, NEW size \in Sizes, SaveInDrive(p, n, size) PROVE Timed'
    <2>1. /\ now' = now + 1 /\ UNCHANGED <<disk, step, sending>>
          /\ drive' = [drive EXCEPT ![p][n] = Written(size, now + 1)]
      BY <1>10 DEF SaveInDrive, machine
    <2>2. Written(size, now + 1).at = now + 1
      BY DEF Written
    <2>3. \A q \in Places, m \in Names : drive'[q][m].at <= now'
      BY <1>3, <1>4, <2>1, <2>2 DEF Timed
    <2> QED BY <1>3, <1>5, <2>1, <2>3 DEF Timed
  <1>11. ASSUME NEW p \in Places, NEW n \in Names, DeleteInDrive(p, n) PROVE Timed'
    BY <1>3, <1>4, <1>11 DEF Timed, DeleteInDrive, machine
  <1>12. CASE \E i \in DOMAIN rows : Delete(i) \/ Ask(i) \/ Elapse(i)
    BY <1>6, <1>12 DEF Delete, Ask, Elapse, machine, pass, bounds
  <1>13. CASE Tick \/ PassOver \/ EndTick \/ Look \/ Walk \/ List \/ Skip \/ AllSent \/ Done \/ Refused \/ Unreached
    <2>1. UNCHANGED <<disk, drive>> /\ now' = now
      BY <1>13 DEF Tick, PassOver, EndTick, Look, Walk, List, Skip, AllSent, Done, Refused, Unreached, machine, server, bounds
    <2>2. step' # "send"
      BY <1>13 DEF Tick, PassOver, EndTick, Look, Looked, Walk, List, Skip, AllSent, Done, Refused, Unreached
    <2> QED BY <1>6, <2>1, <2>2
  <1>14. ASSUME NEW n \in Names, MatchSame(n) PROVE Timed'
    BY <1>6, <1>14 DEF MatchSame, machine, server, bounds
  <1>15. ASSUME NEW n \in Names, MatchChanged(n) PROVE Timed'
    <2>1. Folder \in Folders
      BY <1>1, <1>15, RowAtHand DEF MatchChanged, RowsTyped
    <2>2. sending'.at <= now'
      BY <1>15, <2>1 DEF MatchChanged, Timed, bounds
    <2> QED BY <1>15, <2>2 DEF Timed, MatchChanged, machine, server, bounds
  <1>16. ASSUME NEW n \in Names, Remove(n) PROVE Timed'
    BY <1>3, <1>4, <1>16 DEF Timed, Remove, machine, bounds
  <1>17. CASE Put
    <2>1. Sent(Folder, sending.name, sending.at).at = sending.at
      <3>1. turn \in DOMAIN listed /\ sending.name \in Names
        BY <1>1, <1>17 DEF Put, RowsTyped, PassTyped
      <3>2. disk[Folder][sending.name] \in Files /\ disk[Folder][sending.name] # NoFile
        BY <1>1, <1>4, <1>17, <3>1, RowAtHand DEF Put, Openable, Reach
      <3> QED BY <3>2, FileThere DEF Sent
    <2>2. sending.at <= now /\ sending.at \in Nat
      BY <1>5, <1>17 DEF Put, Timed
    <2>3. UNCHANGED <<disk, now>> /\ step' # "send"
          /\ drive' = [drive EXCEPT ![Place][sending.name] = Sent(Folder, sending.name, sending.at)]
      BY <1>17 DEF Put, machine, bounds
    <2> DEFINE v == Sent(Folder, sending.name, sending.at)
    <2>4. v.at <= now
      BY <2>1, <2>2
    <2> HIDE DEF v
    <2>5. \A q \in Places, m \in Names : drive'[q][m] = drive[q][m] \/ drive'[q][m] = v
      BY <1>4, <2>3 DEF v
    <2> QED BY <2>3, <2>4, <2>5 DEF Timed
  <1>18. ASSUME NEW c \in late, LateRemove(c) PROVE Timed'
    <2>1. \A q \in Places, m \in Names : drive'[q][m] = drive[q][m] \/ drive'[q][m] = NoFile
      BY <1>4, <1>18 DEF LateRemove
    <2>2. UNCHANGED <<disk, now, step, sending>>
      BY <1>18 DEF LateRemove, machine, bounds
    <2> QED BY <1>3, <2>1, <2>2 DEF Timed
  <1>19. CASE UNCHANGED vars
    BY <1>6, <1>19 DEF vars, machine, server, pass, bounds
  <1>20. CASE PersonStep
    <2>1. CASE \E f \in Folders, n \in Names :
                  (\E size \in Sizes : Edit(f, n, size)) \/ Erase(f, n) \/ (\E a \in Access : Permit(f, n, a))
      <3>1. PICK f \in Folders, n \in Names :
               (\E size \in Sizes : Edit(f, n, size)) \/ Erase(f, n) \/ (\E a \in Access : Permit(f, n, a))
        BY <2>1
      <3>2. CASE \E size \in Sizes : Edit(f, n, size)
        BY <1>7, <3>2
      <3>3. CASE Erase(f, n)
        BY <1>8, <3>3
      <3>4. CASE \E a \in Access : Permit(f, n, a)
        BY <1>9, <3>4
      <3> QED BY <3>1, <3>2, <3>3, <3>4
    <2>2. CASE \E f \in Folders : Mount(f) \/ (\E p \in Places : Create(f, p))
      BY <1>9a, <2>2
    <2>3. CASE \E p \in Places, n \in Names : (\E size \in Sizes : SaveInDrive(p, n, size)) \/ DeleteInDrive(p, n)
      BY <1>10, <1>11, <2>3
    <2>4. CASE \E i \in DOMAIN rows : Delete(i) \/ Ask(i)
      BY <1>12, <2>4
    <2> QED BY <1>20, <2>1, <2>2, <2>3, <2>4 DEF PersonStep
  <1>21. CASE AgentStep
    BY <1>13, <1>14, <1>15, <1>16, <1>17, <1>21 DEF AgentStep
  <1> QED BY <1>12, <1>13, <1>18, <1>19, <1>20, <1>21 DEF Next

(* Where a step of the machine, of the drive and of the agent leaves files.*)
LEMMA FilesKeptOrGone ==
    ASSUME TypeOK, [Next]_vars,
           \A f \in Folders, n \in Names, size \in Sizes : ~ Edit(f, n, size),
           \A p \in Places, n \in Names, size \in Sizes : ~ SaveInDrive(p, n, size),
           ~ Put
    PROVE  /\ \A f \in Folders, n \in Names : disk'[f][n] \in {disk[f][n], NoFile}
           /\ \A p \in Places, n \in Names : drive'[p][n] \in {drive[p][n], NoFile}
  <1> DEFINE Kept == /\ \A f \in Folders, n \in Names : disk'[f][n] \in {disk[f][n], NoFile}
                     /\ \A p \in Places, n \in Names : drive'[p][n] \in {drive[p][n], NoFile}
  <1>1. disk \in [Folders -> [Names -> Files]] /\ drive \in [Places -> [Names -> Files]]
    BY DEF TypeOK
  <1>2. CASE UNCHANGED <<disk, drive>>
    BY <1>2
  <1>3. ASSUME NEW f \in Folders, NEW n \in Names, Erase(f, n) PROVE Kept
    BY <1>1, <1>3 DEF Erase, server
  <1>4. ASSUME NEW f \in Folders, NEW n \in Names, NEW a \in Access, Permit(f, n, a) PROVE Kept
    BY <1>2, <1>4 DEF Permit, server
  <1>5. ASSUME NEW f \in Folders, Mount(f) \/ \E p \in Places : Create(f, p) PROVE Kept
    BY <1>2, <1>5 DEF Mount, Create, server, machine
  <1>6. ASSUME NEW p \in Places, NEW n \in Names, DeleteInDrive(p, n) PROVE Kept
    BY <1>1, <1>6 DEF DeleteInDrive, machine
  <1>7. CASE \E i \in DOMAIN rows : Delete(i) \/ Ask(i) \/ Elapse(i)
    BY <1>2, <1>7 DEF Delete, Ask, Elapse, machine
  <1>8. CASE Tick \/ PassOver \/ EndTick \/ Look \/ Walk \/ List \/ Skip \/ AllSent \/ Done \/ Refused \/ Unreached
    BY <1>2, <1>8 DEF Tick, PassOver, EndTick, Look, Walk, List, Skip, AllSent, Done, Refused, Unreached, machine, server
  <1>9. ASSUME NEW n \in Names, MatchSame(n) \/ MatchChanged(n) PROVE Kept
    BY <1>2, <1>9 DEF MatchSame, MatchChanged, machine, server
  <1>10. ASSUME NEW n \in Names, Remove(n) PROVE Kept
    BY <1>1, <1>10 DEF Remove, machine
  <1>11. ASSUME NEW c \in late, LateRemove(c) PROVE Kept
    BY <1>1, <1>11 DEF LateRemove, machine
  <1>12. CASE UNCHANGED vars
    BY <1>2, <1>12 DEF vars, machine, server
  <1>13. CASE PersonStep
    <2>1. ASSUME NEW f \in Folders, NEW n \in Names,
                 (\E size \in Sizes : Edit(f, n, size)) \/ Erase(f, n) \/ (\E a \in Access : Permit(f, n, a))
          PROVE  Kept
      BY <1>3, <1>4, <2>1
    <2>2. ASSUME NEW p \in Places, NEW n \in Names,
                 (\E size \in Sizes : SaveInDrive(p, n, size)) \/ DeleteInDrive(p, n)
          PROVE  Kept
      BY <1>6, <2>2
    <2> QED BY <1>5, <1>7, <1>13, <2>1, <2>2 DEF PersonStep
  <1>14. CASE AgentStep
    BY <1>8, <1>9, <1>10, <1>14 DEF AgentStep
  <1> QED BY <1>7, <1>8, <1>11, <1>12, <1>13, <1>14 DEF Next

LEMMA StaleStays ==
    ASSUME TypeOK, Timed, StaleShows, [Next]_vars, "quick" \notin Hazards, OwnPlaces
    PROVE  StaleShows'
  <1>1. FilesTyped /\ RowsTyped /\ PassTyped
    BY TypeParts
  <1>2. /\ now \in Nat
        /\ \A f \in Folders, n \in Names : disk[f][n] \in Files /\ disk[f][n].at \in Nat
        /\ \A p \in Places, n \in Names : drive[p][n] \in Files /\ drive[p][n].at \in Nat
    BY <1>1, FileNumbers
  <1>3. disk \in [Folders -> [Names -> Files]] /\ drive \in [Places -> [Names -> Files]]
    BY <1>1 DEF FilesTyped
  <1>4. \A f \in Folders : Into[f] \subseteq Places
    BY ConstantsAssumption
  <1> SUFFICES ASSUME NEW g \in Folders, NEW m \in Names, NEW q \in Into[g],
                      disk'[g][m] # NoFile, drive'[q][m] # NoFile, drive'[q][m].body # disk'[g][m].body
               PROVE  disk'[g][m].size # drive'[q][m].size \/ disk'[g][m].at # drive'[q][m].at
    BY DEF StaleShows, Differs
  <1>5. CASE disk'[g][m] = disk[g][m] /\ drive'[q][m] = drive[q][m]
    BY <1>5 DEF StaleShows, Differs
  <1>6. ASSUME NEW f \in Folders, NEW n \in Names, NEW size \in Sizes, Edit(f, n, size)
        PROVE  disk'[g][m].at # drive'[q][m].at \/ disk'[g][m].size # drive'[q][m].size
    <2>1. disk' = [disk EXCEPT ![f][n] = Written(size, now + 1)] /\ drive' = drive
      BY <1>6 DEF Edit, server
    <2>2. CASE f = g /\ n = m
      <3>1. disk'[g][m].at = now + 1
        BY <1>3, <2>1, <2>2 DEF Written
      <3>2. drive'[q][m].at <= now
        BY <1>4, <2>1 DEF Timed
      <3> QED BY <1>2, <1>4, <2>1, <3>1, <3>2
    <2>3. CASE ~ (f = g /\ n = m)
      BY <1>3, <1>5, <2>1, <2>3
    <2> QED BY <2>2, <2>3
  <1>7. ASSUME NEW p \in Places, NEW n \in Names, NEW size \in Sizes, SaveInDrive(p, n, size)
        PROVE  disk'[g][m].at # drive'[q][m].at \/ disk'[g][m].size # drive'[q][m].size
    <2>1. drive' = [drive EXCEPT ![p][n] = Written(size, now + 1)] /\ disk' = disk
      BY <1>7 DEF SaveInDrive, machine
    <2>2. CASE p = q /\ n = m
      <3>1. drive'[q][m].at = now + 1
        BY <1>3, <2>1, <2>2 DEF Written
      <3>2. disk'[g][m].at <= now
        BY <2>1 DEF Timed
      <3> QED BY <1>2, <2>1, <3>1, <3>2
    <2>3. CASE ~ (p = q /\ n = m)
      BY <1>3, <1>4, <1>5, <2>1, <2>3
    <2> QED BY <2>2, <2>3
  <1>8. ASSUME Put
        PROVE  disk'[g][m].at # drive'[q][m].at \/ disk'[g][m].size # drive'[q][m].size
    <2>1. drive' = [drive EXCEPT ![Place][sending.name] = Sent(Folder, sending.name, sending.at)] /\ disk' = disk
      BY <1>8 DEF Put, machine
    <2>2. turn \in DOMAIN listed /\ sending.name \in Names
      BY <1>1, <1>8 DEF Put, RowsTyped, PassTyped
    <2>3. Folder \in Folders /\ Place \in Into[Folder]
      BY <1>1, <2>2, RowAtHand
    <2>4. CASE Place = q /\ sending.name = m
      <3>1. Folder = g
        BY <2>3, <2>4 DEF OwnPlaces
      <3>2. drive'[q][m] = Sent(g, m, sending.at)
        BY <1>3, <1>4, <2>1, <2>4, <3>1
      <3>3. drive'[q][m].body = disk[g][m].body
        BY <1>2, <2>1, <3>2, FileThere DEF Sent
      <3> QED BY <2>1, <3>3
    <2>5. CASE ~ (Place = q /\ sending.name = m)
      <3>1. drive'[q][m] = drive[q][m]
        BY <1>3, <1>4, <2>1, <2>5
      <3> QED BY <1>5, <2>1, <3>1
    <2> QED BY <2>4, <2>5
  <1>9. CASE /\ \A f \in Folders, n \in Names, size \in Sizes : ~ Edit(f, n, size)
             /\ \A p \in Places, n \in Names, size \in Sizes : ~ SaveInDrive(p, n, size)
             /\ ~ Put
    <2>1. disk'[g][m] = disk[g][m] /\ drive'[q][m] = drive[q][m]
      BY <1>4, <1>9, FilesKeptOrGone
    <2> QED BY <1>5, <2>1
  <1> QED BY <1>6, <1>7, <1>8, <1>9

LEMMA InitTimed == Init => Timed /\ StaleShows
  BY DEF Init, Timed, StaleShows, NoFile

(* StaleShows: with two seconds between edits and a place for each folder, *)
(* a copy that is not the file never looks like it.                        *)
THEOREM StaleAlwaysShows ==
    ASSUME "quick" \notin Hazards, OwnPlaces
    PROVE  Spec => []StaleShows
  <1>1. TypeOK /\ Timed /\ StaleShows /\ [Next]_vars /\ TypeOK' => (Timed /\ StaleShows)'
    BY TimesStay, StaleStays
  <1> QED BY InitTimed, TypeCorrect, <1>1, PTL DEF Spec

----------------------------------------------------------------------------
(* Asks.                                                                   *)

(* A row that is asked for has its mark, and the one a pass is over is not *)
(* asked for.                                                              *)
Marked ==
    /\ \A i \in DOMAIN rows : rows[i].asked => rows[i].runNow
    /\ \A i \in DOMAIN listed : listed[i].asked => listed[i].runNow
    /\ step \notin {"rest", "turn"} => ~ rows[turn].asked

LEMMA MarksStay ==
    ASSUME TypeOK, Marked, [Next]_vars, "midpass" \notin Hazards
    PROVE  Marked'
  <1>1. RowsTyped
    BY TypeParts
  <1>2. /\ rows \in Seq(Row) /\ listed \in Seq(Row)
        /\ DOMAIN rows = 1 .. Len(rows) /\ Len(rows) \in Nat
        /\ \A i \in DOMAIN rows : rows[i] \in Row
    BY <1>1 DEF RowsTyped
  <1>3. ASSUME UNCHANGED rows, listed' \in {listed, rows, <<>>},
               step' \notin {"rest", "turn"} => step \notin {"rest", "turn"} /\ turn' = turn
        PROVE  Marked'
    BY <1>3 DEF Marked
  <1>4. CASE \E f \in Folders : \/ Mount(f)
                               \/ \E n \in Names : \/ \E size \in Sizes : Edit(f, n, size)
                                                   \/ Erase(f, n)
                                                   \/ \E a \in Access : Permit(f, n, a)
    BY <1>3, <1>4 DEF Mount, Edit, Erase, Permit, server
  <1>5. CASE \E p \in Places, n \in Names : (\E size \in Sizes : SaveInDrive(p, n, size)) \/ DeleteInDrive(p, n)
    BY <1>3, <1>5 DEF SaveInDrive, DeleteInDrive
  <1>6. ASSUME NEW f \in Folders, NEW p \in Places, Create(f, p) PROVE Marked'
    <2> DEFINE r == [folder |-> f, into |-> p, on |-> TRUE, runNow |-> TRUE, last |-> "never", asked |-> TRUE]
    <2>1. rows' = Append(rows, r) /\ r.runNow = TRUE /\ r \in Row /\ UNCHANGED <<listed, step, turn>>
      BY <1>6 DEF Create, pass, Row
    <2> HIDE DEF r
    <2>2. DOMAIN rows' = DOMAIN rows \cup {Len(rows) + 1} /\ rows'[Len(rows) + 1] = r
          /\ \A i \in DOMAIN rows : rows'[i] = rows[i]
      BY <1>2, <2>1
    <2>3. step \notin {"rest", "turn"} => turn \in DOMAIN rows
      BY <1>1, RowAtHand DEF RowsTyped
    <2> QED BY <2>1, <2>2, <2>3 DEF Marked
  <1>7. ASSUME NEW i \in DOMAIN rows, Delete(i) \/ Elapse(i) PROVE Marked'
    <2>1. UNCHANGED <<listed, step, turn>> /\ DOMAIN rows' = DOMAIN rows
      BY <1>7 DEF Delete, RowsWithout, Elapse, pass
    <2>2. \A j \in DOMAIN rows : rows'[j].asked = rows[j].asked /\ rows'[j].runNow = rows[j].runNow
      BY <1>2, <1>7 DEF Delete, RowsWithout, Elapse, Row
    <2>3. step \notin {"rest", "turn"} => turn \in DOMAIN rows
      BY <1>1, RowAtHand DEF RowsTyped
    <2> QED BY <2>1, <2>2, <2>3 DEF Marked
  <1>8. ASSUME NEW i \in DOMAIN rows, Ask(i) PROVE Marked'
    <2>1. /\ UNCHANGED <<listed, step, turn>> /\ DOMAIN rows' = DOMAIN rows
          /\ rows' = [rows EXCEPT ![i].runNow = TRUE, ![i].asked = TRUE]
          /\ step \notin {"rest", "turn"} => turn # i
      BY <1>8 DEF Ask, pass, InPass
    <2>2. rows'[i].runNow /\ \A j \in DOMAIN rows : j # i => rows'[j] = rows[j]
      BY <1>2, <2>1 DEF Row
    <2>3. step \notin {"rest", "turn"} => turn \in DOMAIN rows
      BY <1>1, RowAtHand DEF RowsTyped
    <2> QED BY <2>1, <2>2, <2>3 DEF Marked
  <1>9. CASE Tick \/ PassOver \/ EndTick \/ Walk \/ List \/ Put \/ Skip \/ AllSent \/ Refused \/ Unreached
    BY <1>3, <1>9 DEF Tick, PassOver, EndTick, Walk, List, Put, Skip, AllSent, Refused, Unreached, server
  <1>10. CASE \E n \in Names : MatchSame(n) \/ MatchChanged(n) \/ Remove(n)
    BY <1>3, <1>10 DEF MatchSame, MatchChanged, Remove, server
  <1>11. CASE Look
    <2>1. turn \in DOMAIN rows /\ UNCHANGED <<listed, turn>> /\ rows' = [rows EXCEPT ![turn].asked = FALSE]
      BY <1>1, <1>11, RowAtHand DEF Look
    <2>2. /\ DOMAIN rows' = DOMAIN rows /\ rows'[turn].asked = FALSE
          /\ \A j \in DOMAIN rows : j # turn => rows'[j] = rows[j]
      BY <1>2, <2>1 DEF Row
    <2> QED BY <2>1, <2>2 DEF Marked
  <1>12. CASE Done
    <2>1. turn \in DOMAIN rows /\ ~ rows[turn].asked /\ UNCHANGED listed /\ step' = "turn"
      BY <1>1, <1>12, RowAtHand DEF Done, RowsTyped, Marked
    <2>2. rows' = [rows EXCEPT ![turn].runNow = FALSE, ![turn].last = "lately"]
      BY <1>12 DEF Done, Finished
    <2>3. /\ DOMAIN rows' = DOMAIN rows /\ rows'[turn].asked = rows[turn].asked
          /\ \A j \in DOMAIN rows : j # turn => rows'[j] = rows[j]
      BY <1>2, <2>1, <2>2 DEF Row
    <2> QED BY <2>1, <2>3 DEF Marked
  <1>13. CASE \E c \in late : LateRemove(c)
    BY <1>3, <1>13 DEF LateRemove
  <1>14. CASE UNCHANGED vars
    BY <1>3, <1>14 DEF vars, server, pass
  <1>15. CASE PersonStep
    BY <1>4, <1>5, <1>6, <1>7, <1>8, <1>15 DEF PersonStep
  <1>16. CASE AgentStep
    BY <1>9, <1>10, <1>11, <1>12, <1>16 DEF AgentStep
  <1> QED BY <1>7, <1>9, <1>13, <1>14, <1>15, <1>16 DEF Next

(* AskHonoured: a tick passes over no row it was told was asked for, if    *)
(* nobody asks for a pass over a row in the middle of one.                 *)
THEOREM AskIsHonoured ==
    ASSUME "midpass" \notin Hazards
    PROVE  Spec => AskHonoured
  <1>1. Init => Marked
    BY DEF Init, Marked
  <1>2. TypeOK /\ Marked /\ [Next]_vars => Marked'
    BY MarksStay
  <1>3. Marked /\ [Next]_vars => [PassOver => ~ (listed[turn].on /\ listed[turn].asked)]_vars
    BY DEF Marked, PassOver, Due
  <1> QED BY TypeCorrect, <1>1, <1>2, <1>3, PTL DEF Spec, AskHonoured

----------------------------------------------------------------------------
(* Passes.                                                                 *)

Passing == {"list", "match", "send", "take"}

(* A folder that is walked is there.                                       *)
Present == step = "walk" => Folder \in there

(* What was there is among what was walked, and is not to be taken.        *)
Seen ==
    /\ step \in Passing => walked \subseteq local
    /\ step = "take" => left \cap local = {}

Listable == \A f \in Folders, n \in Names : access[f][n] # "unlisted"

(* One row for a folder.                                                   *)
OneRow == \A i, j \in DOMAIN rows : rows[i].on /\ rows[j].on /\ rows[i].folder = rows[j].folder => i = j

LEMMA PresentStays ==
    ASSUME TypeOK, Present, [Next]_vars, "vanish" \notin Hazards
    PROVE  Present'
  <1>1. ASSUME step' = "walk" => step = "walk" /\ UNCHANGED <<listed, turn, there>> PROVE Present'
    BY <1>1 DEF Present, Folder
  <1>2. CASE PersonStep
    <2>1. ASSUME NEW f \in Folders, Mount(f) PROVE Present'
      <3>1. step = "walk" => Folder # f
        BY <2>1 DEF Mount
      <3>2. there' = (IF f \in there THEN there \ {f} ELSE there \cup {f}) /\ UNCHANGED <<listed, turn, step>>
        BY <2>1 DEF Mount
      <3> QED BY <3>1, <3>2 DEF Present, Folder
    <2>2. ASSUME NEW f \in Folders, NEW n \in Names,
                 (\E size \in Sizes : Edit(f, n, size)) \/ Erase(f, n) \/ (\E a \in Access : Permit(f, n, a))
          PROVE  Present'
      BY <1>1, <2>2 DEF Edit, Erase, Permit
    <2>3. ASSUME NEW f \in Folders, NEW p \in Places, Create(f, p) PROVE Present'
      BY <1>1, <2>3 DEF Create, machine, pass
    <2>4. ASSUME NEW p \in Places, NEW n \in Names,
                 (\E size \in Sizes : SaveInDrive(p, n, size)) \/ DeleteInDrive(p, n)
          PROVE  Present'
      BY <1>1, <2>4 DEF SaveInDrive, DeleteInDrive, machine
    <2>5. ASSUME NEW i \in DOMAIN rows, Delete(i) \/ Ask(i) PROVE Present'
      BY <1>1, <2>5 DEF Delete, Ask, machine, pass
    <2> QED BY <1>2, <2>1, <2>2, <2>3, <2>4, <2>5 DEF PersonStep
  <1>3. CASE Look
    BY <1>3 DEF Look, Looked, Present, Folder, machine
  <1>4. CASE Tick \/ PassOver \/ EndTick \/ Walk \/ List \/ Put \/ Skip \/ AllSent \/ Done \/ Refused \/ Unreached
    BY <1>1, <1>4 DEF Tick, PassOver, EndTick, Walk, List, Put, Skip, AllSent, Done, Refused, Unreached
  <1>5. CASE \E n \in Names : MatchSame(n) \/ MatchChanged(n) \/ Remove(n)
    BY <1>1, <1>5 DEF MatchSame, MatchChanged, Remove
  <1>6. CASE (\E i \in DOMAIN rows : Elapse(i)) \/ \E c \in late : LateRemove(c)
    BY <1>1, <1>6 DEF Elapse, LateRemove, machine, pass
  <1>7. CASE UNCHANGED vars
    BY <1>1, <1>7 DEF vars, machine, pass
  <1> QED BY <1>2, <1>3, <1>4, <1>5, <1>6, <1>7 DEF Next, AgentStep

LEMMA ListableStays ==
    ASSUME TypeOK, Listable, [Next]_vars, "unlisted" \notin Hazards
    PROVE  Listable'
  <1>1. CASE UNCHANGED access
    BY <1>1 DEF Listable
  <1>2. ASSUME NEW f \in Folders, NEW n \in Names, NEW a \in Access, Permit(f, n, a) PROVE Listable'
    <2>1. a # "unlisted" /\ access' = [access EXCEPT ![f][n] = a] /\ access \in [Folders -> [Names -> Access]]
      BY <1>2 DEF Permit, TypeOK
    <2> QED BY <2>1 DEF Listable
  <1>3. CASE \A f \in Folders, n \in Names, a \in Access : ~ Permit(f, n, a)
    BY <1>1, <1>3 DEF Next, PersonStep, AgentStep, Edit, Erase, Mount, SaveInDrive, DeleteInDrive, Create, Delete, Ask,
       Tick, PassOver, EndTick, Look, Walk, List, MatchSame, MatchChanged, Remove, Put, Skip, AllSent, Done, Refused,
       Unreached, Elapse, LateRemove, vars, machine
  <1> QED BY <1>2, <1>3

LEMMA OneRowStays ==
    ASSUME TypeOK, OneRow, [Next]_vars
    PROVE  OneRow'
  <1>1. /\ rows \in Seq(Row) /\ DOMAIN rows = 1 .. Len(rows) /\ Len(rows) \in Nat
        /\ \A i \in DOMAIN rows : rows[i] \in Row
    BY DEF TypeOK
  <1>2. ASSUME DOMAIN rows' = DOMAIN rows,
               \A i \in DOMAIN rows : rows'[i].folder = rows[i].folder /\ (rows'[i].on => rows[i].on)
        PROVE  OneRow'
    BY <1>2 DEF OneRow
  <1>3. ASSUME NEW f \in Folders, NEW p \in Places, Create(f, p) PROVE OneRow'
    <2> DEFINE r == [folder |-> f, into |-> p, on |-> TRUE, runNow |-> TRUE, last |-> "never", asked |-> TRUE]
    <2>1. rows' = Append(rows, r) /\ r.folder = f /\ r \in Row
      BY <1>3 DEF Create, Row
    <2> HIDE DEF r
    <2>2. DOMAIN rows' = DOMAIN rows \cup {Len(rows) + 1} /\ rows'[Len(rows) + 1] = r
          /\ \A i \in DOMAIN rows : rows'[i] = rows[i]
      BY <1>1, <2>1
    <2>3. \A i \in DOMAIN rows : rows[i].on => rows[i].folder # f
      BY <1>3 DEF Create
    <2> QED BY <2>1, <2>2, <2>3 DEF OneRow
  <1>4. ASSUME NEW i \in DOMAIN rows, Delete(i) \/ Ask(i) \/ Elapse(i) PROVE OneRow'
    <2>1. DOMAIN rows' = DOMAIN rows
      BY <1>4 DEF Delete, RowsWithout, Ask, Elapse
    <2>2. \A j \in DOMAIN rows : rows'[j].folder = rows[j].folder /\ (rows'[j].on => rows[j].on)
      <3>1. CASE Ask(i)
        <4>1. rows' = [rows EXCEPT ![i].runNow = TRUE, ![i].asked = TRUE]
          BY <3>1 DEF Ask
        <4> QED BY <1>1, <4>1 DEF Row
      <3>2. CASE Delete(i)
        <4>1. rows' = [rows EXCEPT ![i].on = FALSE]
          BY <3>2 DEF Delete, RowsWithout
        <4> QED BY <1>1, <4>1 DEF Row
      <3>3. CASE Elapse(i)
        <4>1. rows' = [rows EXCEPT ![i].last = "long ago"]
          BY <3>3 DEF Elapse
        <4> QED BY <1>1, <4>1 DEF Row
      <3> QED BY <1>4, <3>1, <3>2, <3>3
    <2> QED BY <1>2, <2>1, <2>2
  <1>5. CASE Look \/ Done
    <2>1. DOMAIN rows' = DOMAIN rows
      BY <1>5 DEF Look, Done, Finished
    <2>2. \A j \in DOMAIN rows : rows'[j].folder = rows[j].folder /\ (rows'[j].on => rows[j].on)
      <3>1. CASE Look
        BY <1>1, <3>1 DEF Look, Row
      <3>2. CASE Done
        <4>1. rows' = [rows EXCEPT ![turn].runNow = FALSE, ![turn].last = "lately"]
          BY <3>2 DEF Done, Finished
        <4> QED BY <1>1, <4>1 DEF Row
      <3> QED BY <1>5, <3>1, <3>2
    <2> QED BY <1>2, <2>1, <2>2
  <1>6. CASE UNCHANGED rows
    BY <1>2, <1>6
  <1>7. CASE PersonStep
    BY <1>3, <1>4, <1>6, <1>7 DEF PersonStep, Edit, Erase, Permit, Mount, SaveInDrive, DeleteInDrive, server
  <1>8. CASE AgentStep
    BY <1>5, <1>6, <1>8 DEF AgentStep, Tick, PassOver, EndTick, Walk, List, MatchSame, MatchChanged, Remove, Put, Skip,
       AllSent, Refused, server
  <1> QED BY <1>4, <1>6, <1>7, <1>8 DEF Next, Unreached, LateRemove, vars, server

LEMMA SeenStays ==
    ASSUME TypeOK, Present, Listable, Seen, [Next]_vars
    PROVE  Seen'
  <1>1. ASSUME UNCHANGED <<step, walked, local, left>> PROVE Seen'
    BY <1>1 DEF Seen
  <1>2. CASE PersonStep
    BY <1>1, <1>2, OffThePass
  <1>3. CASE (\E i \in DOMAIN rows : Elapse(i)) \/ \E c \in late : LateRemove(c)
    BY <1>1, <1>3 DEF Elapse, LateRemove, pass
  <1>4. CASE Tick \/ PassOver \/ EndTick \/ Look \/ Done \/ Refused \/ Unreached
    <2>1. step' \notin Passing
      BY <1>4 DEF Tick, PassOver, EndTick, Look, Looked, Done, Refused, Unreached, Passing
    <2> QED BY <2>1 DEF Seen, Passing
  <1>5. CASE Walk
    <2>1. Folder \in Folders /\ Folder \in there
      BY <1>5, TypeParts, RowAtHand DEF Walk, Present, RowsTyped
    <2>2. walked' \subseteq local' /\ step' = "list"
      BY <1>5, <2>1 DEF Walk, Walked, Reach, Listable
    <2> QED BY <2>2 DEF Seen
  <1>6. CASE List \/ Put \/ Skip
    BY <1>6 DEF List, Put, Skip, Seen, Passing
  <1>7. ASSUME NEW n \in Names, MatchSame(n) \/ MatchChanged(n) \/ Remove(n) PROVE Seen'
    BY <1>7 DEF MatchSame, MatchChanged, Remove, Seen, Passing
  <1>8. CASE AllSent
    BY <1>8 DEF AllSent, Gone, Seen, Passing
  <1>9. CASE UNCHANGED vars
    BY <1>1, <1>9 DEF vars, pass
  <1> QED BY <1>2, <1>3, <1>4, <1>5, <1>6, <1>7, <1>8, <1>9 DEF Next, AgentStep

LEMMA InitPassing == Init => Present /\ Listable /\ OneRow /\ Seen
  BY DEF Init, Present, Listable, OneRow, Seen, Passing

(* TakesOnlyGone: where folders can be listed and do not go just when they *)
(* are walked, and each has a place of its own, only what is gone from the *)
(* machine is taken to the Trash.                                          *)
THEOREM OnlyGoneIsTaken ==
    ASSUME "vanish" \notin Hazards, "unlisted" \notin Hazards, OwnPlaces
    PROVE  Spec => TakesOnlyGone
  <1> DEFINE Inv == Present /\ Listable /\ OneRow /\ Seen
  <1> DEFINE Taken == \A n \in Names : Remove(n) /\ drive[Place][n] # NoFile =>
                        /\ n \notin walked
                        /\ \A i \in DOMAIN rows : i # turn /\ rows[i].on /\ rows[i].into = Place
                              => ~ Reach(rows[i].folder, n)
  <1>1. TypeOK /\ Inv /\ [Next]_vars => Inv'
    BY PresentStays, ListableStays, OneRowStays, SeenStays
  <1>2. TypeOK /\ Inv => Taken
    <2> SUFFICES ASSUME TypeOK, Inv, NEW n \in Names, Remove(n)
                 PROVE  /\ n \notin walked
                        /\ \A i \in DOMAIN rows : i # turn /\ rows[i].on => rows[i].into # Place
      OBVIOUS
    <2>1. n \notin walked
      BY DEF Remove, Seen, Passing
    <2>2. /\ turn \in DOMAIN rows /\ rows[turn].on /\ rows[turn].folder = Folder
          /\ Folder \in Folders /\ Place \in Into[Folder]
      BY TypeParts, RowAtHand DEF Remove, RowsTyped
    <2>3. ASSUME NEW i \in DOMAIN rows, i # turn, rows[i].on PROVE rows[i].into # Place
      <3>1. rows[i] \in Row /\ rows[i].into \in Into[rows[i].folder]
        BY DEF TypeOK
      <3>2. rows[i].folder # Folder
        BY <2>2, <2>3 DEF OneRow
      <3> QED BY <2>2, <3>1, <3>2 DEF OwnPlaces, Row
    <2> QED BY <2>1, <2>3
  <1>3. TypeOK /\ Inv /\ [Next]_vars => [Taken]_vars
    BY <1>2
  <1> HIDE DEF Taken
  <1>4. Spec => [][Taken]_vars
    BY InitPassing, TypeCorrect, <1>1, <1>3, PTL DEF Spec
  <1> QED BY <1>4 DEF Taken, TakesOnlyGone

(* What there is to say of n when a pass has dealt with it.                *)
Settled(n) ==
    \/ disk[Folder][n].size = "huge" \/ access[Folder][n] # "open"
    \/ drive[Place][n].body = disk[Folder][n].body

(* What a pass knows that nobody has disturbed: the folder is as it was    *)
(* walked; the drive is as it was told, but for what the pass has done; and*)
(* what is not to come is settled or gone.                                 *)
Walking ==
    steady /\ step \in Passing =>
        /\ Folder \in there
        /\ local = Walked(Folder)

Matching ==
    steady /\ step \in {"match", "send"} =>
        /\ left \subseteq local
        /\ step = "send" => sending.name \in local \ left
        /\ \A n \in Names : n \in left \/ n \notin local => drive[Place][n] = remote[n]
        /\ \A n \in local \ left : (step = "send" /\ n = sending.name) \/ Settled(n)

Taking ==
    steady /\ step = "take" =>
        /\ left \cap local = {}
        /\ \A n \in Names \ local : n \in left \/ drive[Place][n] = NoFile
        /\ \A n \in local : Settled(n)

Known == Walking /\ Matching /\ Taking

(* A step beside the pass leaves what it knows, or it is not steady.       *)
LEMMA KnownBeside ==
    ASSUME TypeOK, Known, UNCHANGED <<step, listed, turn, local, remote, left, sending>>,
           steady' => steady,
           steady' /\ turn \in DOMAIN listed =>
               /\ disk'[Folder] = disk[Folder] /\ access'[Folder] = access[Folder]
               /\ Folder \in there <=> Folder \in there'
               /\ drive'[Place] = drive[Place]
    PROVE  Known'
  <1> SUFFICES ASSUME steady', step \in Passing PROVE Known'
    BY DEF Known, Walking, Matching, Taking, Passing
  <1>1. /\ steady /\ Folder' = Folder /\ Place' = Place
        /\ disk'[Folder] = disk[Folder] /\ access'[Folder] = access[Folder]
        /\ Folder \in there <=> Folder \in there'
        /\ drive'[Place] = drive[Place]
    BY DEF Folder, Place, Passing, TypeOK
  <1>2. Walked(Folder)' = Walked(Folder)
    BY <1>1 DEF Walked, Reach
  <1>3. \A n \in Names : Settled(n)' <=> Settled(n)
    BY <1>1 DEF Settled
  <1>4. Walking'
    BY <1>1, <1>2 DEF Known, Walking
  <1>5. local \subseteq Names
    BY DEF TypeOK
  <1>6. Matching'
    BY <1>1, <1>3, <1>5 DEF Known, Matching
  <1>7. Taking'
    BY <1>1, <1>3, <1>5 DEF Known, Taking
  <1> QED BY <1>4, <1>6, <1>7 DEF Known

LEMMA PeopleBeside ==
    ASSUME TypeOK, Known, PersonStep
    PROVE  Known'
  <1>1. disk \in [Folders -> [Names -> Files]] /\ drive \in [Places -> [Names -> Files]]
        /\ access \in [Folders -> [Names -> Access]]
    BY DEF TypeOK
  <1>2. turn \in DOMAIN listed => Folder \in Folders /\ Place \in Places
    BY TypeParts, RowAtHand
  <1>3. ASSUME NEW f \in Folders, NEW n \in Names, NEW size \in Sizes, Edit(f, n, size) PROVE Known'
    <2>1. \A g \in Folders : g # f => disk'[g] = disk[g]
      BY <1>1, <1>3 DEF Edit
    <2>2. UNCHANGED <<access, there, drive, step, listed, turn, local, remote, left, sending>>
      BY <1>3 DEF Edit, server
    <2>3. steady' => steady /\ ~ (turn \in DOMAIN listed /\ Folder = f)
      BY <1>3 DEF Edit, Touch
    <2> QED BY <1>2, <2>1, <2>2, <2>3, KnownBeside
  <1>4. ASSUME NEW f \in Folders, NEW n \in Names, Erase(f, n) PROVE Known'
    <2>1. \A g \in Folders : g # f => disk'[g] = disk[g]
      BY <1>1, <1>4 DEF Erase
    <2>2. UNCHANGED <<access, there, drive, step, listed, turn, local, remote, left, sending>>
      BY <1>4 DEF Erase, server
    <2>3. steady' => steady /\ ~ (turn \in DOMAIN listed /\ Folder = f)
      BY <1>4 DEF Erase, Touch
    <2> QED BY <1>2, <2>1, <2>2, <2>3, KnownBeside
  <1>5. ASSUME NEW f \in Folders, NEW n \in Names, NEW a \in Access, Permit(f, n, a) PROVE Known'
    <2>1. \A g \in Folders : g # f => access'[g] = access[g]
      BY <1>1, <1>5 DEF Permit
    <2>2. UNCHANGED <<disk, there, drive, step, listed, turn, local, remote, left, sending>>
      BY <1>5 DEF Permit, server
    <2>3. steady' => steady /\ ~ (turn \in DOMAIN listed /\ Folder = f)
      BY <1>5 DEF Permit, Touch
    <2> QED BY <1>2, <2>1, <2>2, <2>3, KnownBeside
  <1>6. ASSUME NEW f \in Folders, Mount(f) PROVE Known'
    <2>1. \A g \in Folders : g # f => (g \in there' <=> g \in there)
      BY <1>6 DEF Mount
    <2>2. UNCHANGED <<disk, access, drive, step, listed, turn, local, remote, left, sending>>
      BY <1>6 DEF Mount, server
    <2>3. steady' => steady /\ ~ (turn \in DOMAIN listed /\ Folder = f)
      BY <1>6 DEF Mount, Touch
    <2> QED BY <1>2, <2>1, <2>2, <2>3, KnownBeside
  <1>7. ASSUME NEW p \in Places, NEW n \in Names, (\E size \in Sizes : SaveInDrive(p, n, size)) \/ DeleteInDrive(p, n)
        PROVE  Known'
    <2>1. \A q \in Places : q # p => drive'[q] = drive[q]
      BY <1>1, <1>7 DEF SaveInDrive, DeleteInDrive
    <2>2. UNCHANGED <<machine, step, listed, turn, local, remote, left, sending>>
      BY <1>7 DEF SaveInDrive, DeleteInDrive
    <2>3. steady' => steady /\ ~ (turn \in DOMAIN listed /\ Place = p)
      BY <1>7 DEF SaveInDrive, DeleteInDrive, TouchPlace
    <2> QED BY <1>2, <2>1, <2>2, <2>3, KnownBeside DEF machine
  <1>8. ASSUME NEW f \in Folders, NEW p \in Places, Create(f, p) PROVE Known'
    BY <1>8, KnownBeside DEF Create, machine, pass
  <1>9. ASSUME NEW i \in DOMAIN rows, Delete(i) \/ Ask(i) PROVE Known'
    BY <1>9, KnownBeside DEF Delete, Ask, machine, pass
  <1>10. ASSUME NEW f \in Folders, NEW n \in Names,
                (\E size \in Sizes : Edit(f, n, size)) \/ Erase(f, n) \/ (\E a \in Access : Permit(f, n, a))
         PROVE  Known'
    BY <1>3, <1>4, <1>5, <1>10
  <1> QED BY <1>6, <1>7, <1>8, <1>9, <1>10 DEF PersonStep

LEMMA KnownStays ==
    ASSUME TypeOK, TypeOK', Present, StaleShows, Known, [Next]_vars
    PROVE  Known'
  <1>1. FilesTyped /\ RowsTyped /\ PassTyped
    BY TypeParts
  <1>2. step \in Passing \cup {"walk"} => /\ turn \in DOMAIN listed
                                        /\ Folder \in Folders /\ Place \in Places /\ Place \in Into[Folder]
    BY <1>1, RowAtHand DEF RowsTyped, Passing
  <1>3. disk \in [Folders -> [Names -> Files]] /\ drive \in [Places -> [Names -> Files]] /\ local \subseteq Names
    BY <1>1 DEF FilesTyped, PassTyped
  <1>4. ASSUME step' \notin Passing PROVE Known'
    BY <1>4 DEF Known, Walking, Matching, Taking, Passing
  <1>5. CASE PersonStep
    BY <1>5, PeopleBeside
  <1>6. ASSUME NEW i \in DOMAIN rows, Elapse(i) PROVE Known'
    BY <1>6, KnownBeside DEF Elapse, machine, pass
  <1>7. ASSUME NEW c \in late, LateRemove(c) PROVE Known'
    <2> DEFINE p == rows[c.row].into
    <2>1. UNCHANGED <<machine, step, listed, turn, local, remote, left, sending>>
      BY <1>7 DEF LateRemove
    <2>2. CASE UNCHANGED <<drive, steady>>
      BY <2>1, <2>2, KnownBeside DEF machine
    <2>3. CASE drive' = [drive EXCEPT ![p][c.name] = NoFile] /\ TouchPlace(p)
      <3>1. \A q \in Places : q # p => drive'[q] = drive[q]
        BY <1>3, <2>3
      <3>2. steady' => steady /\ ~ (turn \in DOMAIN listed /\ Place = p)
        BY <2>3 DEF TouchPlace
      <3>3. turn \in DOMAIN listed => Place \in Places
        BY <1>1, RowAtHand
      <3> QED BY <2>1, <3>1, <3>2, <3>3, KnownBeside DEF machine
    <2> QED BY <1>7, <2>2, <2>3 DEF LateRemove
  <1>8. CASE Tick \/ PassOver \/ EndTick \/ Look \/ Done \/ Refused \/ Unreached
    BY <1>4, <1>8 DEF Tick, PassOver, EndTick, Look, Looked, Done, Refused, Unreached, Passing
  <1>9. CASE Walk
    <2>1. Folder \in there /\ local' = Walked(Folder) /\ step' = "list" /\ UNCHANGED <<machine, listed, turn>>
      BY <1>9 DEF Walk, Present
    <2>2. Walking'
      BY <2>1 DEF Walking, Walked, Reach, Folder, machine
    <2> QED BY <2>1, <2>2 DEF Known, Matching, Taking
  <1>10. CASE List
    <2>1. /\ step = "list" /\ step' = "match" /\ remote' = drive[Place] /\ left' = local
          /\ UNCHANGED <<machine, server, listed, turn, local, steady>>
      BY <1>10 DEF List
    <2>2. Walking'
      BY <2>1 DEF Known, Walking, Walked, Reach, Folder, machine, Passing
    <2>3. Matching'
      BY <2>1 DEF Matching, Place, server
    <2> QED BY <2>1, <2>2, <2>3 DEF Known, Taking
  (* From here the folder is as it was, and what the pass knows of it.     *)
  <1>11. ASSUME UNCHANGED <<machine, listed, turn, local, steady>>, step \in Passing
         PROVE  Walking' /\ Folder' = Folder /\ Place' = Place
    BY <1>11 DEF Known, Walking, Walked, Reach, Folder, Place, machine
  <1>12. ASSUME NEW n \in Names, MatchSame(n) PROVE Known'
    <2>1. /\ step = "match" /\ n \in left /\ ~ ToSend(n) /\ left' = left \ {n}
          /\ UNCHANGED <<machine, server, step, listed, turn, local, remote, sending, steady>>
      BY <1>12 DEF MatchSame
    <2>2. Walking' /\ Folder' = Folder /\ Place' = Place
      BY <1>11, <2>1 DEF Passing
    <2>3. \A m \in Names : Settled(m)' <=> Settled(m)
      BY <2>1, <2>2 DEF Settled, machine, server
    <2>4. steady => Settled(n)
      <3> SUFFICES ASSUME steady PROVE Settled(n)
        OBVIOUS
      <3>1. n \in local /\ local = Walked(Folder) /\ drive[Place][n] = remote[n]
        BY <2>1 DEF Known, Matching, Walking, Passing
      <3>2. Reach(Folder, n) /\ disk[Folder][n] # NoFile
        BY <3>1 DEF Walked, Reach
      <3>3. CASE disk[Folder][n].size = "huge"
        BY <3>3 DEF Settled
      <3>4. CASE ~ Differs(remote[n], disk[Folder][n])
        <4>1. Folder \in Folders /\ Place \in Into[Folder]
          BY <1>2, <2>1 DEF Passing
        <4>2. drive[Place][n] # NoFile
          <5>1. disk[Folder][n].size \in Sizes
            BY <1>3, <3>2, <4>1, FileThere
          <5>2. disk[Folder][n].size # "none"
            BY <5>1, ConstantsAssumption
          <5> QED BY <3>1, <3>4, <5>2 DEF Differs, NoFile
        <4>3. ~ Differs(drive[Place][n], disk[Folder][n])
          BY <3>1, <3>4
        <4> QED BY <3>2, <4>1, <4>2, <4>3 DEF StaleShows, Settled
      <3> QED BY <2>1, <3>2, <3>3, <3>4 DEF ToSend
    <2>5. Matching'
      BY <1>3, <2>1, <2>2, <2>3, <2>4 DEF Known, Matching, server
    <2> QED BY <2>1, <2>2, <2>5 DEF Known, Taking
  <1>13. ASSUME NEW n \in Names, MatchChanged(n) PROVE Known'
    <2>1. /\ step = "match" /\ n \in left /\ step' = "send" /\ left' = left \ {n} /\ sending'.name = n
          /\ UNCHANGED <<machine, server, listed, turn, local, remote, steady>>
      BY <1>13 DEF MatchChanged
    <2>2. Walking' /\ Folder' = Folder /\ Place' = Place
      BY <1>11, <2>1 DEF Passing
    <2>3. \A m \in Names : Settled(m)' <=> Settled(m)
      BY <2>1, <2>2 DEF Settled, machine, server
    <2>4. Matching'
      BY <1>3, <2>1, <2>2, <2>3 DEF Known, Matching, server
    <2> QED BY <2>1, <2>2, <2>4 DEF Known, Taking
  <1>14. CASE Skip
    <2>1. /\ step = "send" /\ step' = "match" /\ ~ Openable(Folder, sending.name)
          /\ UNCHANGED <<machine, server, listed, turn, local, remote, left, steady>>
      BY <1>14 DEF Skip
    <2>2. Walking' /\ Folder' = Folder /\ Place' = Place
      BY <1>11, <2>1 DEF Passing
    <2>3. \A m \in Names : Settled(m)' <=> Settled(m)
      BY <2>1, <2>2 DEF Settled, machine, server
    <2>4. steady => Settled(sending.name)
      BY <2>1 DEF Known, Matching, Walking, Walked, Openable, Settled, Passing
    <2>5. Matching'
      BY <1>3, <2>1, <2>2, <2>3, <2>4 DEF Known, Matching, server
    <2> QED BY <2>1, <2>2, <2>5 DEF Known, Taking
  <1>15. CASE Put
    <2>1. Folder \in Folders /\ Place \in Places /\ sending.name \in Names /\ step = "send"
      BY <1>1, <1>2, <1>15 DEF Put, PassTyped, Passing
    <2>2. PICK k \in Names : k = sending.name
      BY <2>1
    <2>3. /\ step' = "match" /\ drive' = [drive EXCEPT ![Place][k] = Sent(Folder, k, sending.at)]
          /\ UNCHANGED <<machine, listed, turn, local, remote, left, steady>>
      BY <1>15, <2>2 DEF Put
    <2>4. Walking' /\ Folder' = Folder /\ Place' = Place
      BY <1>11, <2>1, <2>3 DEF Passing
    <2>5. \A m \in Names : m # k => drive'[Place][m] = drive[Place][m]
      BY <1>3, <2>1, <2>3
    <2>6. drive'[Place][k].body = disk[Folder][k].body
      <3>1. disk[Folder][k] \in Files /\ disk[Folder][k] # NoFile
        BY <1>3, <1>15, <2>1, <2>2 DEF Put, Openable, Reach
      <3>2. drive'[Place][k] = Sent(Folder, k, sending.at)
        BY <1>3, <2>1, <2>3
      <3> QED BY <3>1, <3>2, FileThere DEF Sent
    <2>7. Settled(k)' /\ \A m \in Names : m # k => (Settled(m)' <=> Settled(m))
      BY <2>3, <2>4, <2>5, <2>6 DEF Settled, machine
    <2>8. Matching'
      BY <1>3, <2>1, <2>2, <2>3, <2>4, <2>5, <2>7 DEF Known, Matching
    <2> QED BY <2>3, <2>4, <2>8 DEF Known, Taking
  <1>16. CASE AllSent
    <2>1. /\ step = "match" /\ left = {} /\ step' = "take" /\ left' = Gone
          /\ UNCHANGED <<machine, server, listed, turn, local, steady>>
      BY <1>16 DEF AllSent
    <2>2. Walking' /\ Folder' = Folder /\ Place' = Place
      BY <1>11, <2>1 DEF Passing
    <2>3. \A m \in Names : Settled(m)' <=> Settled(m)
      BY <2>1, <2>2 DEF Settled, machine, server
    <2>4. Taking'
      BY <1>3, <2>1, <2>2, <2>3 DEF Known, Matching, Taking, Gone, server
    <2> QED BY <2>1, <2>2, <2>4 DEF Known, Matching
  <1>17. ASSUME NEW n \in Names, Remove(n) PROVE Known'
    <2>1. /\ step = "take" /\ n \in left /\ left' = left \ {n}
          /\ drive' = [drive EXCEPT ![Place][n] = NoFile]
          /\ UNCHANGED <<machine, step, listed, turn, local, steady>>
      BY <1>17 DEF Remove
    <2>2. Walking' /\ Folder' = Folder /\ Place' = Place
      BY <1>11, <2>1 DEF Passing
    <2>3. drive'[Place][n] = NoFile /\ \A m \in Names : m # n => drive'[Place][m] = drive[Place][m]
      BY <1>2, <1>3, <2>1 DEF Passing
    <2>4. \A m \in Names : m # n => (Settled(m)' <=> Settled(m))
      BY <2>1, <2>2, <2>3 DEF Settled, machine
    <2>5. Taking'
      BY <1>3, <2>1, <2>2, <2>3, <2>4 DEF Known, Taking
    <2> QED BY <2>1, <2>2, <2>5 DEF Known, Matching
  <1>18. CASE UNCHANGED vars
    BY <1>18, KnownBeside DEF vars, machine, server, pass
  <1>19. CASE AgentStep
    BY <1>8, <1>9, <1>10, <1>12, <1>13, <1>14, <1>15, <1>16, <1>17, <1>19 DEF AgentStep
  <1> QED BY <1>5, <1>6, <1>7, <1>8, <1>18, <1>19 DEF Next

(* UpToDate: with two seconds between edits, a place for each folder and   *)
(* folders that do not go just when they are walked, a pass that nobody's  *)
(* change fell into leaves the place as the folder is.                     *)
THEOREM PassBringsUpToDate ==
    ASSUME "quick" \notin Hazards, "vanish" \notin Hazards, OwnPlaces
    PROVE  Spec => UpToDate
  <1>1. Init => Present /\ Known
    BY InitPassing DEF Init, Known, Walking, Matching, Taking
  <1>2. TypeOK /\ TypeOK' /\ Present /\ StaleShows /\ Known /\ [Next]_vars => (Present /\ Known)'
    BY PresentStays, KnownStays
  <1>3. TypeOK /\ Known => (Done /\ step = "take" /\ steady => Mirrors(Folder, Place))
    <2> SUFFICES ASSUME TypeOK, Known, Done, step = "take", steady, NEW n \in Names
                 PROVE  IF disk[Folder][n] = NoFile THEN drive[Place][n] = NoFile
                        ELSE \/ disk[Folder][n].size = "huge" \/ access[Folder][n] # "open"
                             \/ drive[Place][n].body = disk[Folder][n].body
      BY DEF Mirrors
    <2>1. Folder \in there /\ local = Walked(Folder) /\ left = {}
      BY DEF Done, Known, Walking, Passing
    <2>2. CASE n \in local
      <3>1. Settled(n)
        BY <2>2 DEF Known, Taking
      <3>2. disk[Folder][n] # NoFile
        BY <2>1, <2>2 DEF Walked, Reach
      <3> QED BY <3>1, <3>2 DEF Settled
    <2>3. CASE n \notin local
      <3>1. drive[Place][n] = NoFile
        BY <2>1, <2>3 DEF Known, Taking
      <3>2. disk[Folder][n] # NoFile => access[Folder][n] = "unlisted"
        BY <2>1, <2>3 DEF Walked, Reach
      <3> QED BY <3>1, <3>2
    <2> QED BY <2>2, <2>3
  <1>4. TypeOK /\ Known /\ [Next]_vars => [Done /\ step = "take" /\ steady => Mirrors(Folder, Place)]_vars
    BY <1>3
  <1>5. Spec => []StaleShows
    BY StaleAlwaysShows
  <1> QED BY TypeCorrect, <1>1, <1>2, <1>4, <1>5, PTL DEF Spec, UpToDate

=============================================================================
