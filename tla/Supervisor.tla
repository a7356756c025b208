----------------------------- MODULE Supervisor -----------------------------
(***************************************************************************)
(* server/quills/services.py: the supervisor, which keeps the processes of *)
(* the installed Quills in line with the registry.  Its own thread looks   *)
(* (Look .. Ended), the clock's thread starts the run jobs (ClkLook ..     *)
(* ClkRegister), an administrator's request rotates a token or restarts    *)
(* (Rotate, Restart, AdmEnded), and the registry changes under all three.  *)
(* A lock is held over each part of a request that the code holds it over; *)
(* the supervisor's part (Clear .. Release) is several steps, in which      *)
(* everything that takes no lock may happen.                               *)
(*                                                                         *)
(* A Quill here has at most one service and one run job; what its service  *)
(* is goes by the version, which is its installed_at.  A process is a name *)
(* [quill, kind, n]; what is known of it are the sets it is in.  Of time   *)
(* there is only that a wait ends; whether a job is due when it is looked  *)
(* at is any choice.  Not here: ports, logs, webhooks' secrets.            *)
(*                                                                         *)
(* Hazards names what may happen besides: "crash" the server dies and is   *)
(* started again; "late" a Quill is changed while its job is being         *)
(* started, or runs before the supervisor has looked; "off" a Quill is     *)
(* switched off while its job runs; "raise" a look fails midway when it    *)
(* has something to stop; "overflow" the wait of a service that fails for *)
(* good is computed, as the code does, by a power that at last is no float. *)
(***************************************************************************)
EXTENDS Naturals, FiniteSets

CONSTANTS Quills,    \* the Quills there can be
          Jobs,      \* those that have a run job
          Always,    \* the versions whose service is started again when it exits
          Once,      \* those whose service has one run to a start
          Bare,      \* those that have no code at all
          MaxEach,   \* bound: processes alive or in hand, of one kind of a Quill
          MaxActs,   \* bound: installs, removals, switches, requests, failures, stops
          Widest,    \* the failures in a row at which 2 ** failures is no float
          Hazards

ASSUME ConstantsFit ==
    /\ Jobs \subseteq Quills /\ "none" \notin Quills
    /\ Always \cap Once = {} /\ (Always \cup Once) \cap Bare = {}
    /\ MaxEach \in Nat /\ MaxActs \in Nat /\ Widest \in Nat

Processes == [quill : Quills, kind : {"service", "job"}, n : 1 .. MaxEach]

VARIABLES
    installed,  \* registry.quills: installed[q] is its installed_at, 0 when it is not there
    on,         \* the Quills switched on, with somebody to run as
    untold,     \* the registry has changed and its listeners are still to hear
    changed,    \* _changed
    alive,      \* the processes there are
    good,       \* those of them whose token is the one in quill_tokens
    current,    \* those started for the installed version
    old,        \* those a server that is gone left behind
    row,        \* quill_tokens: the Quills with a row
    mem,        \* _tokens: the Quills whose token the supervisor has
    serving,    \* _services: serving[q] is its process, {} when there is none
    job,        \* _jobs: job[q] is its process, {} when there is none
    book,       \* the rest of _services and _generation (see NoBook)
    sup, clk, adm,  \* the three threads: where each is and what it holds
    acts        \* how many acts there have been; an install's installed_at

world == <<installed, on, untold>>
procs == <<alive, good, current, old>>
memory == <<row, mem, serving, job, book>>
vars == <<world, changed, procs, memory, sup, clk, adm, acts>>

-----------------------------------------------------------------------------
NoBook == [known |-> FALSE, gen |-> 0, done |-> FALSE, failures |-> 0, waiting |-> FALSE]

SupIdle == [pc |-> "idle", saw |-> FALSE, snap |-> [q \in Quills |-> 0], todo |-> {}, doomed |-> {}]
ClkIdle == [pc |-> "idle", quill |-> "none", gen |-> 0, p |-> {}]
AdmIdle == [pc |-> "idle", quill |-> "none", doomed |-> {}]

OfQuill(q) == {p \in Processes : p.quill = q}

\* Whether nobody holds the supervisor's lock.
Unlocked == sup.pc # "keep"

\* Whatever some thread or table has in hand, alive or not.
Hands == (UNION {serving[q] \cup job[q] : q \in Quills})
            \cup sup.doomed \cup clk.p \cup adm.doomed

Fresh(q, kind) == {p \in Processes \ (alive \cup Hands) : p.quill = q /\ p.kind = kind}

\* The process that a start of a Quill's service or job is.
Spawned(q, kind) == CHOOSE p \in Fresh(q, kind) : TRUE

HasCode(q) == installed[q] \notin {0} \cup Bare

\* An environment that asks for no trouble: see "late" and "off".
Undisturbed(q) ==
    "late" \in Hazards \/ (clk.quill # q /\ (book[q].known \/ job[q] \cap alive = {}))
JobAtRest(q) == "off" \in Hazards \/ (clk.quill # q /\ job[q] \cap alive = {})

Act == acts < MaxActs /\ acts' = acts + 1

Init ==
    /\ installed = [q \in Quills |-> 1] /\ on = Quills
    /\ untold = FALSE /\ changed = TRUE
    /\ alive = {} /\ good = {} /\ current = {} /\ old = {}
    /\ row = {} /\ mem = {}
    /\ serving = [q \in Quills |-> {}] /\ job = [q \in Quills |-> {}]
    /\ book = [q \in Quills |-> NoBook]
    /\ sup = SupIdle /\ clk = ClkIdle /\ adm = AdmIdle
    /\ acts = 1

-----------------------------------------------------------------------------
(* The registry, its switches, and what processes do of themselves.        *)

\* A Quill installed, or again: registry.load puts it in place ...
Install(q) ==
    /\ Act /\ ~untold /\ Undisturbed(q)
    /\ installed' = [installed EXCEPT ![q] = acts']
    /\ current' = current \ OfQuill(q)
    /\ untold' = TRUE
    /\ UNCHANGED <<on, changed, alive, good, old, memory, sup, clk, adm>>

Uninstall(q) ==
    /\ Act /\ ~untold /\ Undisturbed(q)
    /\ installed[q] # 0
    /\ installed' = [installed EXCEPT ![q] = 0]
    /\ current' = current \ OfQuill(q)
    /\ untold' = TRUE
    /\ UNCHANGED <<on, changed, alive, good, old, memory, sup, clk, adm>>

\* ... and calls its listeners when it has.
Tell ==
    /\ untold /\ untold' = FALSE /\ changed' = TRUE
    /\ UNCHANGED <<installed, on, procs, memory, sup, clk, adm, acts>>

\* Switched off, or the one it runs as is no administrator any more.
SwitchOff(q) ==
    /\ Act /\ JobAtRest(q)
    /\ q \in on /\ on' = on \ {q}
    /\ UNCHANGED <<installed, untold, changed, procs, memory, sup, clk, adm>>

SwitchOn(q) ==
    /\ q \notin on /\ on' = on \cup {q}
    /\ UNCHANGED <<installed, untold, changed, procs, memory, sup, clk, adm, acts>>

Dies(p) ==
    /\ alive' = alive \ {p} /\ good' = good \ {p} /\ current' = current \ {p} /\ old' = old \ {p}
    /\ UNCHANGED <<world, changed, memory, sup, clk, adm, acts>>

Exit(p) == p \in alive /\ Dies(p)

\* A service's wait is over.
WaitOver(q) ==
    /\ book[q].waiting /\ book' = [book EXCEPT ![q].waiting = FALSE]
    /\ UNCHANGED <<world, changed, procs, row, mem, serving, job, sup, clk, adm, acts>>

-----------------------------------------------------------------------------
(* reconcile, the supervisor's thread.                                     *)

Look ==
    /\ sup.pc = "idle"
    /\ sup' = [sup EXCEPT !.pc = "look", !.saw = changed]
    /\ changed' = FALSE
    /\ UNCHANGED <<world, procs, memory, clk, adm, acts>>

Snapshot ==
    /\ sup.pc = "look"
    /\ sup' = [sup EXCEPT !.pc = "seen",
                          !.snap = [q \in Quills |-> IF HasCode(q) THEN installed[q] ELSE 0],
                          !.todo = {q \in Quills : installed[q] # 0}]
    /\ UNCHANGED <<world, changed, procs, memory, clk, adm, acts>>

\* The processes of the Quills in Q that the supervisor knows of.
Known_services(Q) == UNION {serving[q] : q \in Q}  \* jobs are dropped unended
Known(Q) == UNION {serving[q] \cup job[q] : q \in Q}

\* Under the lock: what is known of and was removed is forgotten, and its
\* token revoked; after a change, so are all tokens of what is not installed.
Clear ==
    /\ sup.pc = "seen"
    /\ LET gone == {q \in Quills : book[q].known} \ sup.todo
           revoked == gone \cup (IF sup.saw THEN row \ sup.todo ELSE {})
       IN  /\ sup' = [sup EXCEPT !.pc = "keep",
                                 !.todo = {q \in sup.todo : sup.snap[q] # 0},
                                 !.doomed = Known(gone)]
           /\ serving' = [q \in Quills |-> IF q \in gone THEN {} ELSE serving[q]]
           /\ job' = [q \in Quills |-> IF q \in gone THEN {} ELSE job[q]]
           /\ book' = [q \in Quills |-> IF q \in gone THEN NoBook ELSE book[q]]
           /\ mem' = mem \ revoked
           /\ row' = row \ revoked
           /\ good' = {p \in good : p.quill \notin revoked}
    /\ UNCHANGED <<world, changed, alive, current, old, clk, adm, acts>>

\* A turn of one Quill, and that it ends with D to be terminated.
Turn(q) == sup.pc = "keep" /\ q \in sup.todo
Over(q, D) == sup' = [sup EXCEPT !.todo = @ \ {q}, !.doomed = @ \cup D]

Renewed_never(q) == FALSE  \* installed_at is not looked at
Renewed(q) == book[q].gen \notin {0, sup.snap[q]}
Ready(q) == Turn(q) /\ ~Renewed(q) /\ q \in mem

\* What is kept of a Quill from now on: its entry, of the version in the snapshot.
Entry(q) == [book[q] EXCEPT !.known = TRUE, !.gen = sup.snap[q]]
Put(q, p, b) == /\ serving' = [serving EXCEPT ![q] = p]
                /\ book' = [book EXCEPT ![q] = b]

Renew_done(q) ==  \* what had its run is not forgotten
    /\ Turn(q) /\ Renewed(q)
    /\ sup' = [sup EXCEPT !.doomed = @ \cup Known({q})]
    /\ Put(q, {}, [book[q] EXCEPT !.gen = 0])
    /\ job' = [job EXCEPT ![q] = {}]
    /\ UNCHANGED <<world, changed, procs, row, mem, clk, adm, acts>>

\* Reinstalled: the old processes are old code.
Renew(q) ==
    /\ Turn(q) /\ Renewed(q)
    /\ sup' = [sup EXCEPT !.doomed = @ \cup Known({q})]
    /\ Put(q, {}, NoBook)
    /\ job' = [job EXCEPT ![q] = {}]
    /\ UNCHANGED <<world, changed, procs, row, mem, clk, adm, acts>>

\* A new token, after which the one before works no more.
Issued(q) == /\ row' = row \cup {q} /\ mem' = mem \cup {q}
             /\ good' = good \ OfQuill(q)

Issue(q) ==
    /\ Turn(q) /\ ~Renewed(q) /\ q \notin mem
    /\ Issued(q)
    /\ UNCHANGED <<world, changed, alive, current, old, serving, job, book, sup, clk, adm, acts>>

\* Switched off, nobody to run as, or no service but the job's.
Hold(q) ==
    /\ Ready(q) /\ (q \notin on \/ sup.snap[q] \notin Always \cup Once)
    /\ Over(q, serving[q]) /\ Put(q, {}, [Entry(q) EXCEPT !.done = FALSE])
    /\ UNCHANGED <<world, changed, procs, row, mem, job, clk, adm, acts>>

Kept(q) == Ready(q) /\ q \in on /\ sup.snap[q] \in Always \cup Once
Resting(q) == book[q].done \/ book[q].waiting

\* It runs, or it is not time to start it again.
Leave(q) ==
    /\ Kept(q)
    /\ serving[q] \cap alive # {} \/ (serving[q] = {} /\ Resting(q))
    /\ Over(q, {}) /\ Put(q, serving[q], Entry(q))
    /\ UNCHANGED <<world, changed, procs, row, mem, job, clk, adm, acts>>

Startable(q) == Kept(q) /\ serving[q] = {} /\ ~Resting(q)

\* The look ends in an exception, and what it meant to end with it.
Raised == sup' = SupIdle

\* _exited: a service that is not always to run has had its run.  One that is
\* waits, longer with each failure in a row unless it had stayed up a while;
\* the power is taken before the minimum is.
Exited(q) ==
    \/ /\ sup.snap[q] \in Once
       /\ Over(q, {}) /\ Put(q, {}, [Entry(q) EXCEPT !.done = TRUE])
    \/ /\ sup.snap[q] \in Always
       /\ \E f \in {0, book[q].failures} :
            IF f = Widest /\ "overflow" \in Hazards
            THEN Raised /\ Put(q, {}, Entry(q))
            ELSE Over(q, {}) /\ Put(q, {}, [Entry(q) EXCEPT !.waiting = TRUE,
                                 !.failures = IF f < Widest THEN f + 1 ELSE Widest])

\* It has exited since the last look.
Reap(q) ==
    /\ Kept(q) /\ serving[q] \ alive # {}
    /\ Exited(q)
    /\ UNCHANGED <<world, changed, procs, row, mem, job, clk, adm, acts>>

\* Its command did not start.
Fail(q) ==
    /\ Act /\ Startable(q)
    /\ Exited(q)
    /\ UNCHANGED <<world, changed, procs, row, mem, job, clk, adm>>

\* A process p of what is now installed, or was, with the token there is.
Begins(p, version) ==
    /\ alive' = alive \cup {p}
    /\ current' = IF version = installed[p.quill] THEN current \cup {p} ELSE current
    /\ good' = IF p.quill \in mem THEN good \cup {p} ELSE good
    /\ UNCHANGED old

Launch(q) ==
    /\ Startable(q) /\ Fresh(q, "service") # {}
    /\ LET p == Spawned(q, "service")
       IN  /\ Begins(p, sup.snap[q]) /\ Put(q, {p}, Entry(q))
    /\ Over(q, {})
    /\ UNCHANGED <<world, changed, row, mem, job, clk, adm, acts>>

\* An exception of some Quill's turn ends the look: the database is locked, the disk full.
Raise ==
    /\ Act /\ sup.pc = "keep"
    /\ sup.doomed = {} \/ "raise" \in Hazards
    /\ Raised
    /\ UNCHANGED <<world, changed, procs, memory, clk, adm>>

\* The lock is let go of, and _terminate signals what is to stop.
Release ==
    /\ sup.pc = "keep" /\ sup.todo = {}
    /\ sup' = [sup EXCEPT !.pc = "end"]
    /\ UNCHANGED <<world, changed, procs, memory, clk, adm, acts>>

\* SIGTERM or, after the grace, SIGKILL to what some thread is ending.
Killed(p) ==
    /\ p \in alive
    /\ (sup.pc \in {"end", "stop"} /\ p \in sup.doomed) \/ (adm.pc = "end" /\ p \in adm.doomed)
    /\ Dies(p)

Ended ==
    /\ sup.pc = "end" /\ sup.doomed \cap alive = {}
    /\ sup' = SupIdle
    /\ UNCHANGED <<world, changed, procs, memory, clk, adm, acts>>

-----------------------------------------------------------------------------
(* run_due, the clock's thread: one run job.                               *)

ClkLook(q) ==
    /\ clk.pc = "idle" /\ Unlocked
    /\ q \in Jobs \cap on /\ HasCode(q)
    /\ IF q \in mem THEN UNCHANGED <<row, mem, good>> ELSE Issued(q)
    /\ clk' = [clk EXCEPT !.pc = "check", !.quill = q, !.gen = installed[q]]
    /\ UNCHANGED <<world, changed, alive, current, old, serving, job, book, sup, adm, acts>>

\* A job that runs is left alone, and so is one whose `every` is not over.
ClkCheck ==
    /\ clk.pc = "check" /\ Unlocked
    /\ \/ clk' = ClkIdle
       \/ job[clk.quill] \cap alive = {} /\ clk' = [clk EXCEPT !.pc = "start"]
    /\ UNCHANGED <<world, changed, procs, memory, sup, adm, acts>>

\* With no lock held; a command that is not there is tried again when it is due.
ClkStart ==
    /\ clk.pc = "start" /\ Fresh(clk.quill, "job") # {}
    /\ LET p == Spawned(clk.quill, "job")
       IN  Begins(p, clk.gen) /\ clk' = [clk EXCEPT !.pc = "register", !.p = {p}]
    /\ UNCHANGED <<world, changed, memory, sup, adm, acts>>

ClkFail ==
    /\ clk.pc = "start"
    /\ clk' = ClkIdle
    /\ UNCHANGED <<world, changed, procs, memory, sup, adm, acts>>

ClkRegister ==
    /\ clk.pc = "register" /\ Unlocked
    /\ job' = [job EXCEPT ![clk.quill] = clk.p] /\ clk' = ClkIdle
    /\ UNCHANGED <<world, changed, procs, row, mem, serving, book, sup, adm, acts>>

-----------------------------------------------------------------------------
(* What an administrator asks.                                             *)

\* rotate: a new token, and then a restart; the Quill was looked up before.
Rotate(q) ==
    /\ Act /\ adm.pc = "idle" /\ Unlocked
    /\ Issued(q)
    /\ adm' = [adm EXCEPT !.pc = "issued", !.quill = q]
    /\ UNCHANGED <<world, changed, alive, current, old, serving, job, book, sup, clk>>

\* restart, under the lock: the process is let go of and its failures forgotten.
Restarting(q) ==
    /\ Unlocked
    /\ adm' = [pc |-> "end", quill |-> q, doomed |-> serving[q]]
    /\ Put(q, {}, [book[q] EXCEPT !.failures = 0, !.waiting = FALSE, !.done = FALSE])
    /\ UNCHANGED <<world, changed, procs, row, mem, job, sup, clk>>

Restart(q) == Act /\ adm.pc = "idle" /\ Restarting(q)
Rotated(q) == adm.pc = "issued" /\ adm.quill = q /\ Restarting(q) /\ UNCHANGED acts

AdmEnded ==
    /\ adm.pc = "end" /\ adm.doomed \cap alive = {}
    /\ adm' = AdmIdle
    /\ UNCHANGED <<world, changed, procs, memory, sup, clk, acts>>

-----------------------------------------------------------------------------
(* The server stops, or dies, and is started again.                        *)

\* stop: the thread has ended; every service and job is to end.
Stop ==
    /\ Act /\ sup.pc = "idle"
    /\ sup' = [sup EXCEPT !.pc = "stop", !.doomed = Known(Quills)]
    /\ job' = [q \in Quills |-> {}]
    /\ UNCHANGED <<world, changed, procs, row, mem, serving, book, clk, adm>>

\* A new server: what is in the database is there, what was in memory is not.
Anew ==
    /\ old' = alive /\ changed' = TRUE /\ untold' = FALSE
    /\ mem' = {} /\ serving' = [q \in Quills |-> {}] /\ job' = [q \in Quills |-> {}]
    /\ book' = [q \in Quills |-> NoBook]
    /\ sup' = SupIdle /\ clk' = ClkIdle /\ adm' = AdmIdle
    /\ UNCHANGED <<installed, on, alive, good, current, row>>

Stopped == sup.pc = "stop" /\ sup.doomed \cap alive = {} /\ Anew /\ UNCHANGED acts
Crash == "crash" \in Hazards /\ Act /\ Anew

-----------------------------------------------------------------------------
Supervise ==
    \/ Look \/ Snapshot \/ Clear \/ Release \/ Ended
    \/ \E q \in Quills : Renew(q) \/ Issue(q) \/ Hold(q) \/ Leave(q) \/ Reap(q) \/ Launch(q)

Next ==
    \/ Supervise \/ Raise
    \/ \E q \in Quills : Install(q) \/ Uninstall(q) \/ SwitchOff(q) \/ SwitchOn(q)
                            \/ WaitOver(q) \/ Fail(q)
    \/ Tell
    \/ \E p \in Processes : Exit(p) \/ Killed(p)
    \/ \E q \in Quills : ClkLook(q)
    \/ ClkCheck \/ ClkStart \/ ClkFail \/ ClkRegister
    \/ \E q \in Quills : Rotate(q) \/ Restart(q) \/ Rotated(q)
    \/ AdmEnded \/ Stop \/ Stopped \/ Crash

Spec == Init /\ [][Next]_vars

\* The threads go on, a wait ends, listeners are called, and a kill kills.  Who
\* waits for the lock gets it: its holder sleeps a second between two looks.
Fairness ==
    /\ WF_vars(Supervise) /\ WF_vars(Tell) /\ WF_vars(Stopped)
    /\ WF_vars(AdmEnded) /\ WF_vars(ClkStart)
    /\ SF_vars(ClkCheck) /\ SF_vars(ClkRegister)
    /\ \A q \in Quills : SF_vars(Rotated(q)) /\ WF_vars(WaitOver(q))
    /\ \A p \in Processes : WF_vars(Killed(p))

FairSpec == Spec /\ Fairness

-----------------------------------------------------------------------------
TypeOK ==
    /\ installed \in [Quills -> Nat] /\ acts \in Nat
    /\ on \subseteq Quills
    /\ untold \in BOOLEAN /\ changed \in BOOLEAN
    /\ alive \subseteq Processes /\ good \subseteq alive
    /\ current \subseteq alive /\ old \subseteq alive
    /\ row \subseteq Quills /\ mem \subseteq row
    /\ serving \in [Quills -> SUBSET Processes] /\ job \in [Quills -> SUBSET Processes]
    /\ book \in [Quills -> [known : BOOLEAN, gen : Nat, done : BOOLEAN,
                            failures : Nat, waiting : BOOLEAN]]
    /\ sup \in [pc : {"idle", "look", "seen", "keep", "end", "stop"}, saw : BOOLEAN,
                snap : [Quills -> Nat], todo : SUBSET Quills, doomed : SUBSET Processes]
    /\ clk \in [pc : {"idle", "check", "start", "register"}, quill : Quills \cup {"none"},
                gen : Nat, p : SUBSET Processes]
    /\ adm \in [pc : {"idle", "issued", "end"}, quill : Quills \cup {"none"},
                doomed : SUBSET Processes]

(***************************************************************************)
(* No process is lost sight of: each is a service's or a job's, or is being *)
(* started or ended by some thread, but for those a dead server left.      *)
(***************************************************************************)
InHand == alive \subseteq Hands \cup old

(***************************************************************************)
(* A service that runs can be heard: its token is the one that works, but  *)
(* between a rotation and the restart that is part of it.                  *)
(***************************************************************************)
Carries ==
    \A q \in Quills : (adm.pc = "issued" /\ adm.quill = q) \/ serving[q] \cap alive \subseteq good

Held == InHand /\ Carries

\* Whether p is a process the documentation says there should be.
Wanted(p) ==
    IF p \in old THEN p \notin good
    ELSE /\ installed[p.quill] # 0 /\ p \in current
         /\ p.quill \in on

(***************************************************************************)
(* Switching a Quill off, removing it and installing it again stop its     *)
(* processes (services.py:12-16); one that a dead server left, which no    *)
(* server stops, can in the end do nothing: its token works no more.       *)
(***************************************************************************)
StraysEnd == []<>(\A p \in alive : Wanted(p))

(***************************************************************************)
(* What StraysEnd rests on: whatever is not wanted is with somebody who is *)
(* ending it, or the tables are such that a look that comes to its end     *)
(* takes it: its Quill is gone, is of another version than what is known of*)
(* it, or is off.  What a dead server left has a token that the next look  *)
(* replaces or revokes.                                                    *)
(***************************************************************************)
Revoking(q) == sup.saw /\ (sup.pc = "look" \/ (sup.pc = "seen" /\ q \notin sup.todo))

LookEnds(p) ==
    LET q == p.quill
    IN  IF p \in old
        THEN q \notin mem /\ (HasCode(q) \/ changed \/ untold \/ Revoking(q))
        ELSE /\ p \in serving[q] \cup job[q]
             /\ book[q].known /\ book[q].gen # 0
             /\ \/ installed[q] \notin Bare \cup {book[q].gen}
                \/ p \in serving[q] /\ q \notin on

Caught == \A p \in alive : Wanted(p) \/ p \in sup.doomed \cup adm.doomed \/ LookEnds(p)

(***************************************************************************)
(* A service that is to be kept up is up again and again, whatever exits,  *)
(* fails to start, is rotated, restarted or installed again meanwhile.     *)
(***************************************************************************)
Deserves(q) == installed[q] \in Always /\ q \in on
KeptUp == \A q \in Quills : []<>(Deserves(q) => serving[q] \cap alive # {})

(***************************************************************************)
(* A job is "never twice at once" (services.py:40-41).                     *)
(***************************************************************************)
JobsApart == \A q \in Quills : Cardinality({p \in alive \ old : p.quill = q /\ p.kind = "job"}) <= 1
=============================================================================
