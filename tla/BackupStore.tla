---------------------------- MODULE BackupStore ----------------------------
(***************************************************************************)
(* The backups of one server in one bucket (server/backups.py over         *)
(* server/s3.py): a content store of one object per digest, shared by      *)
(* every snapshot, and a folder per snapshot holding an index per part and *)
(* a manifest, which is written last and makes the snapshot finished.      *)
(*                                                                         *)
(* One run at a time holds the running slot: a backup, with the sweep it   *)
(* ends in, or a restore.  delete_backup takes no slot, so an              *)
(* administrator's deletion runs beside whatever holds it.  A step of the  *)
(* model is one request that changes the bucket, or one look at it: the    *)
(* reads between two writes are one step.                                  *)
(*                                                                         *)
(* Not here: the archives a snapshot carries whole (quills.tar.gz,         *)
(* keys.tar.gz, a pg_dump), which name no object, and format 1 snapshots.  *)
(***************************************************************************)
EXTENDS Integers, FiniteSets

CONSTANTS
    Digests,          \* the distinct contents of files and database pieces
    Parts,            \* the parts that have an index: drives, shares, database
    LateParts,        \* those whose index key sorts after "manifest.json"
    Admins,           \* requests that delete a backup, one each at a time
    Server,           \* the server's own run, as a remover of objects
    MaxTime,          \* bound: the clock, and so the stamps, stop here
    KeepDays,         \* settings.keep_days, in the units of the clock
    UnfinishedAfter,  \* UNFINISHED_AFTER, in the units of the clock
    Looked,           \* how many of the newest snapshots _previous reads
    IndexCache,       \* INDEX_CACHE: how many indexes the process keeps
    Hazards,          \* the kinds of trouble this instance meets
    MaxFaults         \* bound: how often trouble strikes

(***************************************************************************)
(* "overlap": a deletion may run beside a backup or a restore.             *)
(* "put":     the bucket refuses a request of a backup.                    *)
(* "lost":    a PUT is carried out and its answer is lost.                 *)
(* "delete":  the bucket, or the process, fails a removal half way.        *)
(* "crash":   the process ends.                                            *)
(* "unstable": a large file changes between its hash and its upload.       *)
(***************************************************************************)
HazardKinds == {"overlap", "put", "lost", "delete", "crash", "unstable"}

ASSUME ConstantsAssumption ==
    /\ LateParts \subseteq Parts
    /\ Server \notin Admins
    /\ Hazards \subseteq HazardKinds
    /\ MaxTime \in Nat \ {0} /\ KeepDays \in Nat /\ UnfinishedAfter \in Nat
    /\ Looked \in Nat /\ IndexCache \in Nat /\ MaxFaults \in Nat

Times    == 1..MaxTime
Stamps   == Times
Removers == Admins \cup {Server}

VARIABLES
    now,        \* the clock
    lastStamp,  \* Backups._last_stamp; 0 after a restart
    objects,    \* digests whose object is in the store and holds that content
    names,      \* names[s][p]: the digests the index of part p of s lists
    indexes,    \* <<s, p>> whose index object is in the bucket
    parts,      \* parts[s]: the parts the manifest of s lists
    cache,      \* <<s, p>> whose index the process keeps in memory
    manifests,  \* the snapshots with a manifest: the finished ones
    pc,         \* what the slot's holder is at; "idle" is a free slot
    stamp,      \* the backup under way, or the snapshot being restored
    todo,       \* its parts still to back up
    entries,    \* the index being built: digests listed so far
    known,      \* Store.known
    uploaded,   \* Store.uploaded
    left,       \* digests a restore has still to write
    skipped,    \* digests a restore asked for and did not get
    drop,       \* drop[r]: objects remover r has still to delete
    going,      \* going[r]: snapshot folders r has still to delete
    doomed,     \* history: snapshots some remover has set out to remove
    faults      \* how often trouble has struck

bucket == <<objects, names, indexes, parts, manifests>>
run    == <<stamp, todo, entries, known, uploaded>>
rest   == <<left, skipped>>
rem    == <<drop, going, doomed>>
clock  == <<now, lastStamp>>
vars   == <<clock, bucket, cache, pc, run, rest, rem, faults>>

----------------------------------------------------------------------------
(* What the indexes say.  A name with a suffix, here and below, is a slip  *)
(* the definition after it could have had: no specification uses it.       *)

(* _references: every digest the snapshots of M name.                      *)
NamedBy(M) == {d \in Digests : \E s \in M : \E p \in parts[s] : d \in names[s][p]}

IndexesOf(M) == {x \in M \X Parts : x[2] \in parts[x[1]]}

(* The digests of ds that no snapshot of M names.                          *)
Unneeded_unasked(ds, M) == ds
Unneeded_none(ds, M) == {}
Unneeded(ds, M) == ds \ NamedBy(M)

(* _index: an index is in the bucket, or still in memory.                  *)
CanRead(X)  == X \subseteq indexes \cup cache
Remember(X) ==
    \E kept \in SUBSET (cache \cup X) :
        /\ \/ kept = cache \cup X
           \/ Cardinality(cache \cup X) > IndexCache /\ Cardinality(kept) = IndexCache
        /\ cache' = kept

(* The newest snapshots that _previous looks at, and of each part the      *)
(* latest index among them.                                                *)
Newest == {s \in manifests : Cardinality({t \in manifests : t > s}) < Looked}

Previous ==
    {x \in IndexesOf(Newest) : ~\E t \in Newest : t > x[1] /\ x[2] \in parts[t]}

PreviousKnown == {d \in Digests : \E x \in Previous : d \in names[x[1]][x[2]]}

Aged(s) == now > s + KeepDays

Folder(s) == s \in manifests \/ \E p \in Parts : <<s, p>> \in indexes

(* Older than the days kept, or never finished and older than a day.       *)
SweepGone_dayLate ==
    {s \in Stamps : Folder(s) /\ now > s + KeepDays + 1}
SweepGone ==
    {s \in Stamps : /\ Folder(s)
                    /\ IF s \in manifests THEN Aged(s) ELSE now > s + UnfinishedAfter}

----------------------------------------------------------------------------
(* Trouble, and who is at work.                                            *)

Strikes(kind) ==
    /\ kind \in Hazards
    /\ faults < MaxFaults
    /\ faults' = faults + 1

Removing(r) == going[r] # {} \/ drop[r] # {}

NobodyDeletes == \A a \in Admins : ~Removing(a)

(* The running slot: _begin to _end, the sweep's or the take-back's last   *)
(* request included.                                                       *)
SlotFree == pc = "idle" /\ ~Removing(Server)

(* The administrator's own care, unless "overlap" is met: no deletion is   *)
(* asked for while the slot is held, and no run is started during one.     *)
MayStart  == "overlap" \in Hazards \/ NobodyDeletes
MayDelete == "overlap" \in Hazards \/ SlotFree

----------------------------------------------------------------------------
(* A backup: backup() on the thread start_backup made.                     *)

(* The clock's stamp, or one past the last when the clock has not moved on.*)
NextStamp_clockOnly == now
NextStamp == IF now > lastStamp THEN now ELSE lastStamp + 1

(* _begin, and the head of backup(): the slot, the stamp, the parts.       *)
StartBackup(chosen) ==
    /\ SlotFree
    /\ MayStart
    /\ chosen # {}
    /\ NextStamp \in Stamps
    /\ pc' = "previous"
    /\ stamp' = NextStamp
    /\ lastStamp' = NextStamp
    /\ todo' = chosen
    /\ entries' = {}
    /\ known' = {}
    /\ uploaded' = {}
    /\ parts' = [parts EXCEPT ![NextStamp] = {}]
    /\ UNCHANGED <<now, objects, names, indexes, manifests, rest, rem, faults, cache>>

(* backup()'s except branch: what is left of the run is the list of what   *)
(* it put in the store.                                                    *)
FailRun ==
    /\ pc' = "takeback"
    /\ todo' = {} /\ entries' = {} /\ known' = {}
    /\ UNCHANGED <<stamp, uploaded>>

(* The run's own variables go out of scope.                                *)
EndRun_slotKept ==
    /\ pc' = pc
    /\ stamp' = 0
    /\ todo' = {} /\ entries' = {} /\ known' = {} /\ uploaded' = {}
EndRun ==
    /\ pc' = "idle"
    /\ stamp' = 0
    /\ todo' = {} /\ entries' = {} /\ known' = {} /\ uploaded' = {}

ReadPrevious ==
    /\ pc = "previous"
    /\ CanRead(Previous)
    /\ Remember(Previous)
    /\ pc' = "walk"
    /\ known' = PreviousKnown
    /\ UNCHANGED <<clock, bucket, stamp, todo, entries, uploaded, rest, rem, faults>>

ReadPreviousFails ==
    /\ pc = "previous"
    /\ \/ ~CanRead(Previous) /\ UNCHANGED faults
       \/ Strikes("put")
    /\ FailRun
    /\ UNCHANGED <<clock, bucket, rest, rem, cache>>

(* A file whose content the store is known to hold: listed, not sent.      *)
ListKnown(d) ==
    /\ pc = "walk" /\ todo # {}
    /\ d \in known \ entries
    /\ entries' = entries \cup {d}
    /\ UNCHANGED <<clock, bucket, pc, stamp, todo, known, uploaded, rest, rem, faults, cache>>

(* Any other: put in the store, then listed.                               *)
PutObject(d) ==
    /\ pc = "walk" /\ todo # {}
    /\ d \notin known
    /\ objects' = objects \cup {d}
    /\ known' = known \cup {d}
    /\ uploaded' = uploaded \cup {d}
    /\ entries' = entries \cup {d}
    /\ UNCHANGED <<clock, names, indexes, parts, manifests, pc, stamp, todo, rest, rem, faults, cache>>

(* The bucket refuses the object, or takes it and the answer is lost.      *)
PutObjectFails(d) ==
    /\ pc = "walk" /\ todo # {}
    /\ d \notin known
    /\ \/ Strikes("put") /\ UNCHANGED objects
       \/ Strikes("lost") /\ objects' = objects \cup {d}
    /\ FailRun
    /\ UNCHANGED <<clock, names, indexes, parts, manifests, rest, rem, cache>>

(* An answer that breaks off is an OSError, which _backup_folder takes for *)
(* a file it cannot read: the object is there, the file is left out.       *)
PutObjectSkipped(d) ==
    /\ pc = "walk" /\ todo # {}
    /\ d \notin known
    /\ Strikes("lost")
    /\ objects' = objects \cup {d}
    /\ UNCHANGED <<clock, names, indexes, parts, manifests, pc, run, rest, rem, cache>>

(* A large file that changed under the upload: the wrong content went to   *)
(* the key of the first hash, and the key is deleted.  The file is read    *)
(* again or left out.                                                      *)
PutUnstable(d) ==
    /\ pc = "walk" /\ todo # {}
    /\ d \notin known
    /\ Strikes("unstable")
    /\ objects' = objects \ {d}
    /\ UNCHANGED <<clock, names, indexes, parts, manifests, pc, run, rest, rem, cache>>

(* The part's tree is walked: its index goes up.                           *)
PutIndex(p) ==
    /\ pc = "walk"
    /\ p \in todo
    /\ names' = [names EXCEPT ![stamp][p] = entries]
    /\ indexes' = indexes \cup {<<stamp, p>>}
    /\ parts' = [parts EXCEPT ![stamp] = @ \cup {p}]
    /\ todo' = todo \ {p}
    /\ entries' = {}
    /\ UNCHANGED <<clock, objects, manifests, pc, stamp, known, uploaded, rest, rem, faults, cache>>

PutIndexFails ==
    /\ pc = "walk"
    /\ \E p \in todo :
        \/ Strikes("put") /\ UNCHANGED <<names, indexes>>
        \/ /\ Strikes("lost")
           /\ names' = [names EXCEPT ![stamp][p] = entries]
           /\ indexes' = indexes \cup {<<stamp, p>>}
    /\ FailRun
    /\ UNCHANGED <<clock, objects, parts, manifests, rest, rem, cache>>

(* The manifest, last of all: from here on the snapshot is finished.       *)
PutManifest ==
    /\ pc = "walk" /\ todo = {}
    /\ manifests' = manifests \cup {stamp}
    /\ pc' = "sweep"
    /\ UNCHANGED <<clock, objects, names, indexes, parts, run, rest, rem, faults, cache>>

PutManifestFails ==
    /\ pc = "walk" /\ todo = {}
    /\ \/ Strikes("put") /\ UNCHANGED manifests
       \/ Strikes("lost") /\ manifests' = manifests \cup {stamp}
    /\ FailRun
    /\ UNCHANGED <<clock, objects, names, indexes, parts, rest, rem, cache>>

(* _take_back: what the failed run uploaded and no finished snapshot names.*)
TakeBack ==
    /\ pc = "takeback"
    /\ IF uploaded = {}
       THEN UNCHANGED <<drop, cache>>
       ELSE /\ CanRead(IndexesOf(manifests))
            /\ Remember(IndexesOf(manifests))
            /\ drop' = [drop EXCEPT ![Server] = Unneeded(uploaded, manifests)]
    /\ EndRun
    /\ UNCHANGED <<clock, bucket, rest, going, doomed, faults>>

TakeBackFails ==
    /\ pc = "takeback" /\ uploaded # {}
    /\ \/ ~CanRead(IndexesOf(manifests)) /\ UNCHANGED faults
       \/ Strikes("put")
    /\ EndRun
    /\ UNCHANGED <<clock, bucket, rest, rem, cache>>

----------------------------------------------------------------------------
(* Taking snapshots away: sweep() at the end of a backup, delete_backup()  *)
(* when asked.  Both choose what goes from one look at the bucket, delete  *)
(* the objects only the going snapshots name, then their folders.          *)

SetOut(r, gone) ==
    /\ drop' = [drop EXCEPT ![r] = Unneeded(NamedBy(manifests \cap gone), manifests \ gone)]
    /\ going' = [going EXCEPT ![r] = gone]
    /\ doomed' = doomed \cup gone

Sweep ==
    /\ pc = "sweep"
    /\ IF SweepGone = {}
       THEN UNCHANGED <<rem, cache>>
       ELSE /\ CanRead(IndexesOf(manifests))
            /\ Remember(IndexesOf(manifests))
            /\ SetOut(Server, SweepGone)
    /\ EndRun
    /\ UNCHANGED <<clock, bucket, rest, faults>>

SweepFails ==
    /\ pc = "sweep"
    /\ \/ SweepGone # {} /\ ~CanRead(IndexesOf(manifests)) /\ UNCHANGED faults
       \/ Strikes("put")
    /\ EndRun
    /\ UNCHANGED <<clock, bucket, rest, rem, cache>>

DeleteBackup(a, s) ==
    /\ ~Removing(a)
    /\ MayDelete
    /\ Folder(s)
    /\ IF s \in manifests
       THEN CanRead(IndexesOf(manifests)) /\ Remember(IndexesOf(manifests))
       ELSE UNCHANGED cache
    /\ SetOut(a, {s})
    /\ UNCHANGED <<clock, bucket, pc, run, rest, faults>>

DropObject(r, d) ==
    /\ d \in drop[r]
    /\ objects' = objects \ {d}
    /\ drop' = [drop EXCEPT ![r] = @ \ {d}]
    /\ UNCHANGED <<clock, names, indexes, parts, manifests, pc, run, rest, going, doomed, faults, cache>>

(* delete_prefix goes through a folder in the order of its keys: database  *)
(* and drives, then the manifest, then the shares.                         *)
Early_none(s) == {}
Early(s) == {<<s, p>> : p \in Parts \ LateParts} \cap indexes
Late(s)  == {<<s, p>> : p \in LateParts} \cap indexes

DropFolder(r) ==
    /\ drop[r] = {}
    /\ \E s \in going[r] :
        /\ \A t \in going[r] : t <= s
        /\ \/ /\ \E x \in Early(s) : indexes' = indexes \ {x}
              /\ UNCHANGED <<manifests, names, going>>
           \/ /\ Early(s) = {} /\ s \in manifests
              /\ manifests' = manifests \ {s}
              /\ UNCHANGED <<indexes, names, going>>
           \/ /\ Early(s) = {} /\ s \notin manifests
              /\ \E x \in Late(s) : indexes' = indexes \ {x}
              /\ UNCHANGED <<manifests, names, going>>
           \/ /\ ~Folder(s)
              /\ names' = [names EXCEPT ![s] = [p \in Parts |-> {}]]
              /\ going' = [going EXCEPT ![r] = @ \ {s}]
              /\ UNCHANGED <<indexes, manifests>>
    /\ UNCHANGED <<clock, objects, parts, pc, run, rest, drop, doomed, faults, cache>>

(* The bucket refuses a delete: the removal ends where it is.              *)
RemovalFails(r) ==
    /\ Removing(r)
    /\ Strikes("delete")
    /\ drop' = [drop EXCEPT ![r] = {}]
    /\ going' = [going EXCEPT ![r] = {}]
    /\ UNCHANGED <<clock, bucket, pc, run, rest, doomed, cache>>

----------------------------------------------------------------------------
(* A restore of a drive or share of a finished snapshot: every file its    *)
(* index lists, one that cannot be had skipped.                            *)

StartRestore(s, p) ==
    /\ SlotFree
    /\ MayStart
    /\ s \in manifests /\ p \in parts[s]
    /\ CanRead({<<s, p>>}) /\ Remember({<<s, p>>})
    /\ pc' = "restore"
    /\ stamp' = s
    /\ left' = names[s][p]
    /\ skipped' = {}
    /\ UNCHANGED <<clock, bucket, todo, entries, known, uploaded, rem, faults>>

RestoreFile(d) ==
    /\ pc = "restore"
    /\ d \in left
    /\ left' = left \ {d}
    /\ \/ d \in objects /\ UNCHANGED <<skipped, faults>>
       \/ d \notin objects /\ skipped' = skipped \cup {d} /\ UNCHANGED faults
       \/ Strikes("put") /\ skipped' = skipped \cup {d}
    /\ UNCHANGED <<clock, bucket, pc, run, rem, cache>>

FinishRestore ==
    /\ pc = "restore"
    /\ left = {}
    /\ skipped' = {}
    /\ EndRun
    /\ UNCHANGED <<clock, bucket, left, rem, faults, cache>>

----------------------------------------------------------------------------
(* The clock, and the end of the process: what memory held is gone.  A     *)
(* restart takes longer than the seconds the stamps can be ahead by.       *)

Tick ==
    /\ now < MaxTime
    /\ now' = now + 1
    /\ UNCHANGED <<lastStamp, bucket, pc, run, rest, rem, faults, cache>>

Crash ==
    /\ Strikes("crash")
    /\ (\E r \in Removers : Removing(r)) => "delete" \in Hazards
    /\ \E t \in Times : t > now /\ t > lastStamp /\ now' = t
    /\ lastStamp' = 0
    /\ EndRun
    /\ left' = {} /\ skipped' = {}
    /\ drop' = [r \in Removers |-> {}]
    /\ going' = [r \in Removers |-> {}]
    /\ cache' = {}
    /\ UNCHANGED <<bucket, doomed>>

----------------------------------------------------------------------------
Init ==
    /\ now = 1
    /\ lastStamp = 0
    /\ objects = {}
    /\ names = [s \in Stamps |-> [p \in Parts |-> {}]]
    /\ indexes = {} /\ cache = {}
    /\ parts = [s \in Stamps |-> {}]
    /\ manifests = {}
    /\ pc = "idle"
    /\ stamp = 0
    /\ todo = {} /\ entries = {} /\ known = {} /\ uploaded = {}
    /\ left = {} /\ skipped = {}
    /\ drop = [r \in Removers |-> {}]
    /\ going = [r \in Removers |-> {}]
    /\ doomed = {}
    /\ faults = 0

Backup ==
    \/ \E chosen \in SUBSET Parts : StartBackup(chosen)
    \/ ReadPrevious
    \/ ReadPreviousFails
    \/ \E d \in Digests : ListKnown(d)
    \/ \E d \in Digests : PutObject(d)
    \/ \E d \in Digests : PutObjectFails(d)
    \/ \E d \in Digests : PutObjectSkipped(d)
    \/ \E d \in Digests : PutUnstable(d)
    \/ \E p \in Parts : PutIndex(p)
    \/ PutIndexFails
    \/ PutManifest
    \/ PutManifestFails
    \/ TakeBack
    \/ TakeBackFails

Removal ==
    \/ Sweep
    \/ SweepFails
    \/ \E a \in Admins, s \in Stamps : DeleteBackup(a, s)
    \/ \E r \in Removers, d \in Digests : DropObject(r, d)
    \/ \E r \in Removers : DropFolder(r)
    \/ \E r \in Removers : RemovalFails(r)

Restore ==
    \/ \E s \in Stamps, p \in Parts : StartRestore(s, p)
    \/ \E d \in Digests : RestoreFile(d)
    \/ FinishRestore

Next == Backup \/ Removal \/ Restore \/ Tick \/ Crash

Spec == Init /\ [][Next]_vars

(* The threads run on: a request made is answered, well or badly.          *)
Fairness ==
    /\ WF_vars(Backup /\ pc # "idle")
    /\ WF_vars(Sweep \/ SweepFails)
    /\ WF_vars(FinishRestore \/ \E d \in Digests : RestoreFile(d))
    /\ \A r \in Removers : WF_vars(DropFolder(r) \/ \E d \in Digests : DropObject(r, d))

FairSpec == Spec /\ Fairness

----------------------------------------------------------------------------
(* Properties.                                                             *)

BucketTypeOK ==
    /\ now \in Times /\ lastStamp \in Times \cup {0}
    /\ objects \subseteq Digests
    /\ names \in [Stamps -> [Parts -> SUBSET Digests]]
    /\ indexes \subseteq Stamps \X Parts /\ cache \subseteq Stamps \X Parts
    /\ parts \in [Stamps -> SUBSET Parts]
    /\ manifests \subseteq Stamps

RunTypeOK ==
    /\ pc \in {"idle", "previous", "walk", "takeback", "sweep", "restore"}
    /\ stamp \in Stamps \cup {0}
    /\ pc # "idle" => stamp # 0
    /\ todo \subseteq Parts
    /\ entries \subseteq Digests /\ known \subseteq Digests /\ uploaded \subseteq Digests
    /\ left \subseteq Digests /\ skipped \subseteq Digests

RemovalTypeOK ==
    /\ drop \in [Removers -> SUBSET Digests]
    /\ going \in [Removers -> SUBSET Stamps]
    /\ doomed \subseteq Stamps
    /\ faults \in 0..MaxFaults

TypeOK == BucketTypeOK /\ RunTypeOK /\ RemovalTypeOK

(* "Every snapshot is a complete picture of its day": every object a       *)
(* finished snapshot names is in the store, from its manifest's landing    *)
(* until somebody sets out to remove it - whatever the retention, failed   *)
(* runs and their take-back, and lost answers do in between.               *)
Complete == \A s \in manifests \ doomed : NamedBy({s}) \subseteq objects

(* What the bucket lists as finished and nobody is removing can be read:   *)
(* a manifest without its indexes would stop every later sweep.            *)
Legible == \A s \in manifests : IndexesOf({s}) \subseteq indexes \/ \E r \in Removers : s \in going[r]

(* A restore from a snapshot nobody is removing puts every file back,      *)
(* unless the bucket refuses one.                                          *)
RestoreWhole == pc = "restore" /\ stamp \notin doomed /\ faults = 0 => skipped = {}

(* What is finished is there, can be read, and is restored as it was.      *)
Whole == Complete /\ Legible /\ RestoreWhole

(* With no removal under way and no run at work, the store holds no object *)
(* that no finished snapshot names: what a failed run put up has gone, and *)
(* "with a snapshot goes every object no remaining snapshot names".        *)
NoOrphans ==
    SlotFree /\ NobodyDeletes => objects \subseteq NamedBy(manifests)

(* A sweep the bucket answers takes up every snapshot past its days.       *)
SweepTakesAged ==
    [][pc = "sweep" /\ pc' = "idle" /\ faults' = faults
        => \A s \in manifests : now > s + KeepDays => s \in going'[Server]]_vars

(* What a finished snapshot says never changes while it is there: no later *)
(* run takes its stamp, not even two in one second or one after a restart. *)
FinishedFrozen ==
    [][\A s \in manifests \cap manifests' :
        names'[s] = names[s] /\ parts'[s] = parts[s]]_vars

(* Why Complete and Legible hold: StampInv whatever happens, the rest as   *)
(* long as the administrator waits and removals are whole.                 *)
StampInv ==
    /\ \A s \in Stamps : Folder(s) \/ s \in doomed => s <= lastStamp \/ s < now
    /\ pc \in {"previous", "walk"} => stamp = lastStamp /\ \A s \in manifests : s < stamp

RunSound ==
    /\ pc # "idle" => \A r \in Removers : ~Removing(r)
    /\ pc = "previous" => parts[stamp] = {} /\ entries = {}
    /\ pc \in {"previous", "walk"} => stamp \notin doomed
    /\ pc = "walk" =>
        /\ entries \subseteq known /\ known \subseteq objects
        /\ \A p \in parts[stamp] : names[stamp][p] \subseteq known /\ <<stamp, p>> \in indexes

RemovalSound ==
    /\ \A s \in doomed \cap manifests : \E r \in Removers : s \in going[r]
    /\ \A r \in Removers : drop[r] \cap NamedBy(manifests \ doomed) = {}

KeepInv == RunSound /\ RemovalSound /\ Complete /\ Legible

(* Every run, failed or not, frees the slot in the end, and every removal  *)
(* comes to the end of its folders or is cut short.                        *)
RunEnds     == (pc # "idle") ~> SlotFree
RemovalEnds == \A r \in Removers, s \in Stamps : (s \in going[r]) ~> (s \notin going[r])
AllEnds     == RunEnds /\ RemovalEnds
=============================================================================
