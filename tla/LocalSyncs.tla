------------------------------ MODULE LocalSyncs ------------------------------
(***************************************************************************)
(* Local backups: the folders of one machine that its agent copies into    *)
(* the person's drive (server/syncs.py, routes/syncs.py, agent/sync.py).   *)
(*                                                                         *)
(* The agent has one thread.  A tick asks for the machine's rows and, one  *)
(* after another, makes a pass over each that is due: it looks for the     *)
(* folder, walks it, asks what the drive holds, sends what differs, takes  *)
(* what is gone to the Trash and says it has finished.  Each of these is a *)
(* step, and between any two the person edits files on the machine or in   *)
(* the drive, asks for a pass, or takes a row off.  A call that fails ends *)
(* the whole tick; a removal the agent gave up on may still be carried out *)
(* later.                                                                  *)
(*                                                                         *)
(* A file is its content (the number of the edit that made it), how big it *)
(* is and when it changed.  Edits are as far apart as the comparison of    *)
(* times needs (two seconds), but for those that are "quick".              *)
(*                                                                         *)
(* Not here: files renamed or put back with an older time; a walk that     *)
(* files move about under; one backup's place inside another's; folders    *)
(* taken away in the drive; clocks that disagree; the rest of a tick.      *)
(***************************************************************************)
EXTENDS Integers, Sequences

CONSTANTS
    Folders,   \* folders of the machine
    Names,     \* paths of files, relative to a folder
    Under,     \* the pairs of them where the first is below the second, a folder then
    Places,    \* folders in the drive
    Into,      \* Into[f]: the places a person may have f copied to
    Sizes,     \* how big files are, as far as it matters
    MaxRows,   \* bound: backups ever set up
    MaxEdits,  \* bound: files written, on the machine or in the drive
    MaxActs,   \* bound: what else people do, but for undoing it
    MaxFaults, \* bound: calls the agent gets no answer to
    Hazards    \* what is met: "quick", "midpass", "unlisted", "vanish"

(***************************************************************************)
(* "quick":    an edit within two seconds of the one before.               *)
(* "midpass":  a pass is asked for while one is under way.                 *)
(* "unlisted": a subfolder that may not be listed.                         *)
(* "vanish":   a folder that goes between being looked for and walked.     *)
(***************************************************************************)
Access == {"open", "locked", "unlisted"}
Steps  == {"rest", "turn", "walk", "list", "match", "send", "take", "refused"}

ASSUME ConstantsAssumption ==
    /\ Under \subseteq Names \X Names
    /\ Into \in [Folders -> SUBSET Places]
    /\ Sizes \subseteq {"small", "other", "huge"}  \* huge: MAX_FILE_BYTES or more
    /\ {MaxRows, MaxEdits, MaxActs, MaxFaults} \subseteq Nat
    /\ Hazards \subseteq {"quick", "midpass", "unlisted", "vanish"}

VARIABLES
    disk,     \* disk[f][n]: the machine's file, or NoFile
    access,   \* access[f][n]: whether the agent may read it
    there,    \* the folders the machine has at the moment
    drive,    \* drive[p][n]: the copy, or NoFile
    dirs,     \* <<p, n>>: n is a folder in the drive
    rows,     \* the table local_syncs, in the order of its ids
    step,     \* what the agent is at
    listed,   \* the rows as the tick was told them
    turn,     \* which of them the agent is at
    local,    \* the names it walked past
    remote,   \* what it was told the drive holds
    left,     \* the names it has still to deal with
    sending,  \* the file it is about to send: its name, and when it had changed
    late,     \* removals given up on that are still to happen
    steady,   \* history: nobody changed the folder or its place since the walk
    walked,   \* history: the names that were not gone at the walk
    now, acts, faults

machine == <<disk, access, there>>
server  == <<drive, dirs, rows, late>>
pass    == <<step, listed, turn, local, remote, left, sending, steady, walked>>
bounds  == <<now, acts, faults>>
vars    == <<machine, server, pass, bounds>>

NoFile == [body |-> 0, size |-> "none", at |-> 0]

NoName == [name |-> {}, at |-> 0]

(* A file written now, at its own time.                                    *)
Written(size, at) == [body |-> now + 1, size |-> size, at |-> at]

Folder == listed[turn].folder
Place  == listed[turn].into

(* The files of f that can be looked up.                                   *)
Reach(f, n) == f \in there /\ disk[f][n] # NoFile

InPass(i) == step \notin {"rest", "turn"} /\ turn = i

----------------------------------------------------------------------------
(* What a pass knew is gone with it.                                       *)
EndPass ==
    /\ local' = {} /\ left' = {} /\ walked' = {} /\ steady' = FALSE
    /\ remote' = [n \in Names |-> NoFile]
    /\ sending' = NoName

(* People, on the machine.  A name with a suffix is a slip the definition  *)
(* after it could have had: no specification uses it.                      *)

(* The history of a pass ends being steady when its folder is touched.     *)
Touch(f) == steady' = (steady /\ ~ (turn \in DOMAIN listed /\ Folder = f))

Edit(f, n, size) ==
    /\ now < MaxEdits /\ now' = now + 1
    /\ f \in there
    /\ \A m \in Names : <<n, m>> \in Under \/ <<m, n>> \in Under => disk[f][m] = NoFile
    /\ \E at \in {now + 1} \cup (IF "quick" \in Hazards /\ disk[f][n] # NoFile THEN {disk[f][n].at} ELSE {}) :
          disk' = [disk EXCEPT ![f][n] = Written(size, at)]
    /\ Touch(f)
    /\ UNCHANGED <<access, there, server, step, listed, turn, local, remote, left, sending, walked, acts, faults>>

Erase(f, n) ==
    /\ acts < MaxActs /\ acts' = acts + 1
    /\ Reach(f, n)
    /\ disk' = [disk EXCEPT ![f][n] = NoFile]
    /\ Touch(f)
    /\ UNCHANGED <<access, there, server, step, listed, turn, local, remote, left, sending, walked, now, faults>>

Permit(f, n, a) ==
    /\ IF a = "open" THEN acts' = acts ELSE acts < MaxActs /\ acts' = acts + 1
    /\ Reach(f, n) /\ access[f][n] # a
    /\ a = "unlisted" => "unlisted" \in Hazards
    /\ access' = [access EXCEPT ![f][n] = a]
    /\ Touch(f)
    /\ UNCHANGED <<disk, there, server, step, listed, turn, local, remote, left, sending, walked, now, faults>>

(* A folder goes, or is there again: a disk that is taken out.             *)
Mount(f) ==
    /\ IF f \in there THEN acts < MaxActs /\ acts' = acts + 1 ELSE acts' = acts
    /\ step = "walk" /\ Folder = f => "vanish" \in Hazards
    /\ there' = IF f \in there THEN there \ {f} ELSE there \cup {f}
    /\ Touch(f)
    /\ UNCHANGED <<disk, access, server, step, listed, turn, local, remote, left, sending, walked, now, faults>>

----------------------------------------------------------------------------
(* People, in the drive and on the page.                                   *)

TouchPlace(p) == steady' = (steady /\ ~ (turn \in DOMAIN listed /\ Place = p))

(* A file cannot be written where a folder is, nor below a file.           *)
Clash(p, n) == <<p, n>> \in dirs \/ \E m \in Names : <<n, m>> \in Under /\ drive[p][m] # NoFile

Made(p, n) == dirs \cup {<<p, m>> : m \in {k \in Names : <<n, k>> \in Under}}

SaveInDrive(p, n, size) ==
    /\ now < MaxEdits /\ now' = now + 1
    /\ ~ Clash(p, n)
    /\ drive' = [drive EXCEPT ![p][n] = Written(size, now + 1)]
    /\ dirs' = Made(p, n)
    /\ TouchPlace(p)
    /\ UNCHANGED <<machine, rows, late, step, listed, turn, local, remote, left, sending, walked, acts, faults>>

DeleteInDrive(p, n) ==
    /\ acts < MaxActs /\ acts' = acts + 1
    /\ drive[p][n] # NoFile
    /\ drive' = [drive EXCEPT ![p][n] = NoFile]
    /\ TouchPlace(p)
    /\ UNCHANGED <<machine, dirs, rows, late, step, listed, turn, local, remote, left, sending, walked, now, faults>>

(* SyncStore.create: one row for a folder, to be run at once.  "asked" is a*)
(* history: a pass was asked for and none has begun since.                 *)
Create(f, p) ==
    /\ Len(rows) < MaxRows
    /\ p \in Into[f]
    /\ \A i \in DOMAIN rows : rows[i].on => rows[i].folder # f
    /\ rows' = Append(rows, [folder |-> f, into |-> p, on |-> TRUE, runNow |-> TRUE, last |-> "never",
                             asked |-> TRUE])
    /\ UNCHANGED <<machine, drive, dirs, late, pass, bounds>>

(* SyncStore.delete: no number is used again.                              *)
RowsWithout_renumbered(i) == SubSeq(rows, 1, i - 1) \o SubSeq(rows, i + 1, Len(rows))
RowsWithout(i) == [rows EXCEPT ![i].on = FALSE]

Delete(i) ==
    /\ acts < MaxActs /\ acts' = acts + 1
    /\ rows[i].on
    /\ rows' = RowsWithout(i)
    /\ UNCHANGED <<machine, drive, dirs, late, pass, now, faults>>

Ask(i) ==
    /\ acts < MaxActs /\ acts' = acts + 1
    /\ rows[i].on
    /\ InPass(i) => "midpass" \in Hazards
    /\ rows' = [rows EXCEPT ![i].runNow = TRUE, ![i].asked = TRUE]
    /\ UNCHANGED <<machine, drive, dirs, late, pass, now, faults>>

(* As long as the row's interval goes by.                                  *)
Elapse(i) ==
    /\ rows[i].last = "lately"
    /\ rows' = [rows EXCEPT ![i].last = "long ago"]
    /\ UNCHANGED <<machine, drive, dirs, late, pass, bounds>>

----------------------------------------------------------------------------
(* The agent: LocalSyncs.tick.                                             *)

Tick ==
    /\ step = "rest"
    /\ step' = "turn" /\ turn' = 1
    /\ listed' = rows
    /\ UNCHANGED <<machine, server, local, remote, left, sending, steady, walked, bounds>>

(* _due, of a row as it was told.  Only the agent itself moves last_run.   *)
Due_interval(i) == rows[i].last # "lately"
Due_asked(i)    == listed[i].runNow
Due(i)          == listed[i].runNow \/ rows[i].last # "lately"

PassOver ==
    /\ step = "turn" /\ turn \in DOMAIN listed
    /\ ~ (listed[turn].on /\ Due(turn))
    /\ turn' = turn + 1
    /\ UNCHANGED <<machine, server, step, listed, local, remote, left, sending, steady, walked, bounds>>

EndTick ==
    /\ step = "turn" /\ turn \notin DOMAIN listed
    /\ step' = "rest" /\ turn' = 1 /\ listed' = <<>>
    /\ UNCHANGED <<machine, server, local, remote, left, sending, steady, walked, bounds>>

(* _pass, up to its walk: no folder, and the pass is refused.              *)
Looked_unchecked(f) == "walk"
Looked(f)           == IF f \in there THEN "walk" ELSE "refused"

Look ==
    /\ step = "turn" /\ turn \in DOMAIN listed
    /\ listed[turn].on /\ Due(turn)
    /\ step' = Looked(Folder)
    /\ rows' = [rows EXCEPT ![turn].asked = FALSE]
    /\ UNCHANGED <<machine, drive, dirs, late, listed, turn, local, remote, left, sending, steady, walked, bounds>>

(* _walk: what may not be listed is passed over, and said by nobody.       *)
Walked(f) == {n \in Names : Reach(f, n) /\ access[f][n] # "unlisted"}

Walk ==
    /\ step = "walk"
    /\ step' = "list"
    /\ local' = Walked(Folder)
    /\ steady' = TRUE
    /\ walked' = {n \in Names : Folder \in there => disk[Folder][n] # NoFile}
    /\ UNCHANGED <<machine, server, listed, turn, remote, left, sending, bounds>>

(* listing                                                                 *)
List ==
    /\ step = "list"
    /\ rows[turn].on
    /\ step' = "match"
    /\ remote' = drive[Place]
    /\ left' = local
    /\ UNCHANGED <<machine, server, listed, turn, local, sending, steady, walked, bounds>>

(* The look at one file: whether it is sent.                               *)
Differs_size(copy, here) == here.size # copy.size
Differs(copy, here)      == here.size # copy.size \/ here.at # copy.at

ToSend(n) == Reach(Folder, n) /\ disk[Folder][n].size # "huge" /\ Differs(remote[n], disk[Folder][n])

MatchSame(n) ==
    /\ step = "match" /\ n \in left
    /\ ~ ToSend(n)
    /\ left' = left \ {n}
    /\ UNCHANGED <<machine, server, step, listed, turn, local, remote, sending, steady, walked, bounds>>

MatchChanged(n) ==
    /\ step = "match" /\ n \in left
    /\ ToSend(n)
    /\ step' = "send"
    /\ left' = left \ {n}
    /\ sending' = [name |-> n, at |-> disk[Folder][n].at]
    /\ UNCHANGED <<machine, server, listed, turn, local, remote, steady, walked, bounds>>

(* What is sent is the file as it is when it is opened, with the time it   *)
(* had when it was looked at.                                              *)
Sent(f, n, at) == [disk[f][n] EXCEPT !.at = at]

Openable(f, n) == Reach(f, n) /\ access[f][n] = "open"

(* sync_put and put                                                        *)
Put ==
    /\ step = "send"
    /\ LET n == sending.name
       IN  /\ Openable(Folder, n)
           /\ rows[turn].on /\ ~ Clash(Place, n)
           /\ drive' = [drive EXCEPT ![Place][n] = Sent(Folder, n, sending.at)]
           /\ dirs' = Made(Place, n)
    /\ step' = "match" /\ sending' = NoName
    /\ UNCHANGED <<machine, rows, late, listed, turn, local, remote, left, steady, walked, bounds>>

(* A file that cannot be opened any more is skipped.                       *)
Skip ==
    /\ step = "send"
    /\ ~ Openable(Folder, sending.name)
    /\ step' = "match" /\ sending' = NoName
    /\ UNCHANGED <<machine, server, listed, turn, local, remote, left, steady, walked, bounds>>

(* What the drive holds and the walk did not see.                          *)
Gone_never == {}
Gone       == {n \in Names : remote[n] # NoFile} \ local

AllSent ==
    /\ step = "match" /\ left = {}
    /\ step' = "take"
    /\ left' = Gone
    /\ UNCHANGED <<machine, server, listed, turn, local, remote, sending, steady, walked, bounds>>

(* sync_remove and remove                                                  *)
Remove(n) ==
    /\ step = "take" /\ n \in left
    /\ rows[turn].on
    /\ drive' = [drive EXCEPT ![Place][n] = NoFile]
    /\ left' = left \ {n}
    /\ UNCHANGED <<machine, dirs, rows, late, step, listed, turn, local, remote, sending, steady, walked, bounds>>

(* sync_done and finished: the row is not asked for any more.              *)
Finished(i) == [rows EXCEPT ![i].runNow = FALSE, ![i].last = "lately"]

Done ==
    /\ (step = "take" /\ left = {}) \/ step = "refused"
    /\ rows[turn].on
    /\ rows' = Finished(turn)
    /\ step' = "turn" /\ turn' = turn + 1
    /\ EndPass
    /\ UNCHANGED <<machine, drive, dirs, late, listed, bounds>>

(* The server's no: the row is gone, or the file cannot be written.        *)
Refused ==
    /\ step \in {"list", "send", "take", "refused"}
    /\ step = "send" => Openable(Folder, sending.name)
    /\ ~ rows[turn].on \/ (step = "send" /\ Clash(Place, sending.name))
    /\ step' = "rest" /\ turn' = 1 /\ listed' = <<>>
    /\ EndPass
    /\ UNCHANGED <<machine, server, bounds>>

(* No answer, or the agent stopped: the tick is over.  A removal may be    *)
(* under way at the server all the same.                                   *)
Unreached ==
    /\ faults < MaxFaults /\ faults' = faults + 1
    /\ step # "rest" /\ step' = "rest" /\ turn' = 1 /\ listed' = <<>>
    /\ EndPass
    /\ late' \in {late} \cup (IF step = "take" THEN {late \cup {[row |-> turn, name |-> n]} : n \in left} ELSE {})
    /\ UNCHANGED <<machine, drive, dirs, rows, now, acts>>

LateRemove(c) ==
    /\ late' = late \ {c}
    /\ IF rows[c.row].on
       THEN /\ drive' = [drive EXCEPT ![rows[c.row].into][c.name] = NoFile]
            /\ TouchPlace(rows[c.row].into)
       ELSE UNCHANGED <<drive, steady>>
    /\ UNCHANGED <<machine, dirs, rows, step, listed, turn, local, remote, left, sending, walked, bounds>>

----------------------------------------------------------------------------
Init ==
    /\ disk = [f \in Folders |-> [n \in Names |-> NoFile]]
    /\ access = [f \in Folders |-> [n \in Names |-> "open"]]
    /\ there = Folders
    /\ drive = [p \in Places |-> [n \in Names |-> NoFile]]
    /\ dirs = {} /\ rows = <<>> /\ late = {}
    /\ step = "rest" /\ listed = <<>> /\ turn = 1
    /\ local = {} /\ left = {} /\ walked = {} /\ steady = FALSE
    /\ remote = [n \in Names |-> NoFile]
    /\ sending = NoName
    /\ now = 0 /\ acts = 0 /\ faults = 0

PersonStep ==
    \/ \E f \in Folders, n \in Names :
          (\E size \in Sizes : Edit(f, n, size)) \/ Erase(f, n) \/ (\E a \in Access : Permit(f, n, a))
    \/ \E f \in Folders : Mount(f) \/ (\E p \in Places : Create(f, p))
    \/ \E p \in Places, n \in Names : (\E size \in Sizes : SaveInDrive(p, n, size)) \/ DeleteInDrive(p, n)
    \/ \E i \in DOMAIN rows : Delete(i) \/ Ask(i)

AgentStep ==
    \/ Tick \/ PassOver \/ EndTick \/ Look \/ Walk \/ List
    \/ \E n \in Names : MatchSame(n) \/ MatchChanged(n) \/ Remove(n)
    \/ Put \/ Skip \/ AllSent \/ Done \/ Refused

Next ==
    \/ PersonStep \/ AgentStep \/ Unreached
    \/ \E i \in DOMAIN rows : Elapse(i)
    \/ \E c \in late : LateRemove(c)

Spec == Init /\ [][Next]_vars

(* The agent's thread goes on, intervals go by, and what is under way at   *)
(* the server is carried out.                                              *)
FairSpec ==
    /\ Spec
    /\ WF_vars(AgentStep)
    /\ \A i \in 1 .. MaxRows : WF_vars(i \in DOMAIN rows /\ Elapse(i))
    /\ WF_vars(\E c \in late : LateRemove(c))

----------------------------------------------------------------------------
(* Properties.                                                             *)

Files  == {NoFile} \cup [body : 1 .. MaxEdits, size : Sizes, at : 1 .. MaxEdits]
Row    == [folder : Folders, into : Places, on : BOOLEAN, runNow : BOOLEAN,
           last : {"never", "lately", "long ago"}, asked : BOOLEAN]

(* The types; and the agent is at a row it was told of, which is still the *)
(* row of that number.                                                     *)
TypeOK ==
    /\ disk \in [Folders -> [Names -> Files]]
    /\ access \in [Folders -> [Names -> Access]]
    /\ there \subseteq Folders
    /\ drive \in [Places -> [Names -> Files]]
    /\ dirs \subseteq Places \X Names
    /\ rows \in Seq(Row) /\ Len(rows) <= MaxRows
    /\ \A i \in DOMAIN rows : rows[i].into \in Into[rows[i].folder]
    /\ step \in Steps
    /\ listed \in Seq(Row) /\ Len(listed) <= Len(rows)
    /\ \A i \in DOMAIN listed : rows[i].folder = listed[i].folder /\ rows[i].into = listed[i].into
    /\ turn \in 1 .. Len(listed) + 1
    /\ step \notin {"rest", "turn"} => turn \in DOMAIN listed
    /\ local \subseteq Names /\ left \subseteq Names /\ walked \subseteq Names
    /\ remote \in [Names -> Files]
    /\ IF step = "send" THEN sending \in [name : Names, at : 1 .. MaxEdits] ELSE sending = NoName
    /\ late \subseteq [row : DOMAIN rows, name : Names]
    /\ steady \in BOOLEAN
    /\ now \in 0 .. MaxEdits /\ acts \in 0 .. MaxActs /\ faults \in 0 .. MaxFaults

(* A copy in the drive that is not the machine's file never looks like it: *)
(* it is of another size or was changed at another time, so that a pass    *)
(* sends the file again (agent/sync.py:104-110, the time put gives it).    *)
StaleShows ==
    \A f \in Folders, n \in Names : \A p \in Into[f] :
        disk[f][n] # NoFile /\ drive[p][n] # NoFile /\ drive[p][n].body # disk[f][n].body
            => Differs(drive[p][n], disk[f][n])

(* The place holds what the folder has, and nothing else, but for files    *)
(* too big and those that cannot be read.                                  *)
Mirrors(f, p) ==
    \A n \in Names :
        IF disk[f][n] = NoFile THEN drive[p][n] = NoFile
        ELSE disk[f][n].size = "huge" \/ access[f][n] # "open" \/ drive[p][n].body = disk[f][n].body

(* A pass that is said to have gone well, and that nobody's change fell    *)
(* into, leaves the place as the folder is (agent/sync.py:84-126).         *)
UpToDate ==
    [][Done /\ step = "take" /\ steady => Mirrors(Folder, Place)]_vars

(* What a pass takes to the Trash was gone from the machine: it was not    *)
(* there when the folder was walked, nor is it in another folder that is   *)
(* copied to the same place (agent/sync.py:118-122).                       *)
TakesOnlyGone ==
    [][\A n \in Names : Remove(n) /\ drive[Place][n] # NoFile =>
          /\ n \notin walked
          /\ \A i \in DOMAIN rows : i # turn /\ rows[i].on /\ rows[i].into = Place
                => ~ Reach(rows[i].folder, n)]_vars

(* A tick passes over no row it was told a pass was asked for of and has   *)
(* not been begun since: "run it on its next tick" (syncs.py:169-174).     *)
AskHonoured ==
    [][PassOver => ~ (listed[turn].on /\ listed[turn].asked)]_vars

(* When people have stopped, every backup whose folder is there comes to   *)
(* hold what the folder does, for good, whatever calls were lost or late   *)
(* ("kept up to date", syncs.py:1-2).                                      *)
Mirrored ==
    <>[](\A i \in DOMAIN rows : rows[i].on /\ rows[i].folder \in there => Mirrors(rows[i].folder, rows[i].into))
=============================================================================
