-------------------------------- MODULE Flows --------------------------------
(***************************************************************************)
(* Flows and the approvals they wait on (server/flows.py, approvals.py).   *)
(*                                                                         *)
(* A run is a record; what is to be done next is only in the runner's      *)
(* queue, in memory.  One worker takes from it; the threads that serve     *)
(* requests and the clock put on it, and so does the worker when a flow's  *)
(* own write is told.  A holder's answer is read, saved and told in three  *)
(* steps.  Each other step is one commit and what is put on the queue for  *)
(* it: a crash between the two is a crash after both, for both are lost.   *)
(*                                                                         *)
(* Not here: what steps say and read, except the answer; what an action    *)
(* step runs; who sees the record that fired; flows changed, switched off  *)
(* or deleted while they run; people who change a run or an approval by    *)
(* the record API.                                                         *)
(***************************************************************************)
EXTENDS Integers, Sequences, FiniteSets

CONSTANTS
    FlowIds,     \* the flows that are switched on
    Trigger,     \* Trigger[f]: what starts f: "record", "schedule" or "manual"
    Steps,       \* Steps[f]: its steps, counted from 1
    Owner,       \* who made them: the asker of their approvals
    Holders,     \* who holds the role that is asked
    NoFlow,
    Deepest,     \* DEPTH: how deep in flows a write may still start one
    Every,       \* how long from one scheduled run of a flow to the next
    MaxActs,     \* bound: writes and runs by hand in one behaviour
    MaxTime,     \* bound: ticks of the clock
    MaxCrashes,  \* bound: restarts
    MaxRuns,     \* the most runs the other bounds let there be, which liveness is said of
    Hazards      \* what is met: "race", "crash", "byhand", "fail"

(***************************************************************************)
(* "race":   two people answer one approval at once.                       *)
(* "crash":  the server stops and starts again.                            *)
(* "byhand": flows are run by hand, whatever their trigger.                *)
(* "fail":   a step fails.                                                 *)
(***************************************************************************)
StepKinds == {"write", "quiet", "ask", "wait", "stop"}
Answers   == {"approved", "declined", "withdrawn"}
People    == Holders \cup {Owner}
Never     == -1

ASSUME ConstantsAssumption ==
    /\ Trigger \in [FlowIds -> {"record", "schedule", "manual"}]
    /\ Steps \in [FlowIds -> Seq([kind : StepKinds, only : Answers \cup {"always"}])]
    /\ NoFlow \notin FlowIds
    /\ {Deepest, MaxActs, MaxTime, MaxCrashes, MaxRuns} \subseteq Nat /\ Every \in Nat \ {0}
    /\ Hazards \subseteq {"race", "crash", "byhand", "fail"}

VARIABLES
    runs,       \* the flow_run records, in the order they were made
    approvals,  \* the approval records
    queue,      \* FlowRunner._queue
    worker,     \* what the worker's thread is at
    scheduled,  \* FlowRunner._scheduled
    answering,  \* answering[p]: what p's request to answer is at
    now,
    did,        \* history: did[r], the steps run r has done, in order
    acts, crashes

records == <<runs, approvals, did>>
memory  == <<queue, worker, scheduled>>
bounds  == <<now, acts, crashes>>
vars    == <<records, memory, answering, bounds>>

Runs == DOMAIN runs

Idle == [at |-> "idle"]

NoAnswer == [id |-> 0, status |-> "none"]

----------------------------------------------------------------------------
(* The queue.  A name with a suffix is a slip the definition after it could*)
(* have had: no specification uses it.                                     *)

(* A change is told with how deep in flows its writer was and for which    *)
(* flow; "chain" is a history: how many flows led to it, one from another. *)
Change(depth, by, chain) == [kind |-> "change", depth |-> depth, by |-> by, chain |-> chain]
Answer_after(a, status, before) == [kind |-> "answer", id |-> a, status |-> status, before |-> status]
Answer(a, status, before) == [kind |-> "answer", id |-> a, status |-> status, before |-> before]
Run_below(r, depth) == [kind |-> "run", run |-> r, depth |-> depth - 1]
Run(r, depth) == [kind |-> "run", run |-> r, depth |-> depth]

Enqueued_unlessbusy(item) == IF worker.at = "idle" THEN Append(queue, item) ELSE queue
Enqueued(item) == Append(queue, item)

(* _start: a run of f, and the queue is told of it.                        *)
Start(f, depth, chain) ==
    /\ runs' = Append(runs, [flow |-> f, status |-> "running", step |-> 1, on |-> 0, wake |-> Never,
                             answer |-> NoAnswer, started |-> now, chain |-> chain])
    /\ did' = Append(did, <<>>)
    /\ queue' = Enqueued(Run(Len(runs) + 1, depth))

----------------------------------------------------------------------------
(* People.                                                                 *)

(* A person's write of a record that flows are waiting for.                *)
Write ==
    /\ acts < MaxActs /\ acts' = acts + 1
    /\ queue' = Enqueued(Change(0, NoFlow, 0))
    /\ UNCHANGED <<records, worker, scheduled, answering, now, crashes>>

(* run_now                                                                 *)
RunNow(f) ==
    /\ "byhand" \in Hazards
    /\ acts < MaxActs /\ acts' = acts + 1
    /\ Start(f, 0, 0)
    /\ UNCHANGED <<approvals, worker, scheduled, answering, now, crashes>>

(* Who may: the asker withdraws, a holder of the role says yes or no.      *)
MayAnswer(p, status) == IF status = "withdrawn" THEN p = Owner ELSE p \in Holders

(* answer, up to its update: the approval is open.                         *)
LookAnswer(p, a, status) ==
    /\ answering[p].step = "rest"
    /\ "race" \in Hazards \/ \A q \in People : answering[q].step # "save"
    /\ approvals[a].status = "requested"
    /\ MayAnswer(p, status)
    /\ answering' = [answering EXCEPT ![p] = [step |-> "save", id |-> a, status |-> status]]
    /\ UNCHANGED <<records, memory, bounds>>

(* The update, which names no revision.                                    *)
SaveAnswer(p) ==
    /\ answering[p].step = "save"
    /\ LET a == answering[p].id
       IN  /\ approvals' = [approvals EXCEPT ![a].status = answering[p].status]
           /\ answering' = [answering EXCEPT ![p] = [step |-> "tell", id |-> a, before |-> approvals[a].status]]
    /\ UNCHANGED <<runs, did, memory, bounds>>

(* The listener is told of the approval as it is by then.                  *)
TellAnswer(p) ==
    /\ answering[p].step = "tell"
    /\ LET a == answering[p].id
       IN  queue' = Enqueued(Answer(a, approvals[a].status, answering[p].before))
    /\ answering' = [answering EXCEPT ![p] = [step |-> "rest"]]
    /\ UNCHANGED <<records, worker, scheduled, bounds>>

----------------------------------------------------------------------------
(* The worker.                                                             *)

Taken(kind) == worker = Idle /\ queue # <<>> /\ Head(queue).kind = kind

(* _changed: the flows that have this trigger are looked at in turn.       *)
TakeChange ==
    /\ Taken("change")
    /\ LET change == Head(queue)
       IN  worker' = [at |-> "match", change |-> change, left |-> {f \in FlowIds : Trigger[f] = "record"}]
    /\ queue' = Tail(queue)
    /\ UNCHANGED <<records, scheduled, answering, bounds>>

Starts_deeper(f, change) == f # change.by /\ change.depth <= Deepest
Starts(f, change) == f # change.by /\ change.depth < Deepest

Match(f) ==
    /\ worker.at = "match" /\ f \in worker.left
    /\ worker' = [worker EXCEPT !.left = @ \ {f}]
    /\ LET change == worker.change
       IN  IF Starts(f, change) THEN Start(f, change.depth + 1, change.chain + 1)
           ELSE UNCHANGED <<runs, did, queue>>
    /\ UNCHANGED <<approvals, scheduled, answering, bounds>>

Matched ==
    /\ worker.at = "match" /\ worker.left = {}
    /\ worker' = Idle
    /\ UNCHANGED <<records, queue, scheduled, answering, bounds>>

(* _approval_changed: the run that waits on the approval is picked up at   *)
(* the step after.                                                         *)
WaitsOn(r, a) == runs[r].status = "waiting" /\ runs[r].on = a

StepAfter_same(r) == runs[r].step
StepAfter(r) == runs[r].step + 1

TakeAnswer ==
    /\ Taken("answer")
    /\ LET told == Head(queue)
           r    == approvals[told.id].run
       IN  IF told.status # "requested" /\ told.before # told.status /\ WaitsOn(r, told.id)
           THEN /\ runs' = [runs EXCEPT ![r].status = "running", ![r].on = 0, ![r].step = StepAfter(r),
                                        ![r].answer = [id |-> told.id, status |-> told.status]]
                /\ queue' = Append(Tail(queue), Run(r, 0))
           ELSE runs' = runs /\ queue' = Tail(queue)
    /\ UNCHANGED <<approvals, did, worker, scheduled, answering, bounds>>

(* _run_safely: only a run that is running is taken up, where it is at.    *)
TakeRun ==
    /\ Taken("run")
    /\ queue' = Tail(queue)
    /\ LET r == Head(queue).run
       IN  worker' = IF runs[r].status = "running"
                     THEN [at |-> "run", run |-> r, step |-> runs[r].step, depth |-> Head(queue).depth]
                     ELSE Idle
    /\ UNCHANGED <<records, scheduled, answering, bounds>>

(* _execute, a step at a time.                                             *)
Running == worker.at = "run"
Here    == runs[worker.run]
AtEnd   == worker.step > Len(Steps[Here.flow])
Step    == Steps[Here.flow][worker.step]

Applies_always(step, answer) == TRUE
Applies(step, answer) == step.only \in {"always", answer.status}

Doing(kind) == Running /\ ~AtEnd /\ Applies(Step, Here.answer) /\ Step.kind = kind

Done(r, k) == did' = [did EXCEPT ![r] = Append(@, k)]

(* The run is put down, with where it is.                                  *)
PutDown(status, on, wake) ==
    /\ runs' = [runs EXCEPT ![worker.run].status = status, ![worker.run].step = worker.step,
                            ![worker.run].on = on, ![worker.run].wake = wake]
    /\ worker' = Idle

Skip ==
    /\ Running /\ ~AtEnd /\ ~Applies(Step, Here.answer)
    /\ worker' = [worker EXCEPT !.step = @ + 1]
    /\ UNCHANGED <<records, queue, scheduled, answering, bounds>>

(* A set, a create or an action that writes what flows are waiting for.    *)
DoWrite ==
    /\ Doing("write")
    /\ Done(worker.run, worker.step)
    /\ queue' = Enqueued(Change(worker.depth, Here.flow, Here.chain))
    /\ worker' = [worker EXCEPT !.step = @ + 1]
    /\ UNCHANGED <<runs, approvals, scheduled, answering, bounds>>

(* A step that starts nothing: a notify, a write nobody waits for.         *)
DoQuiet ==
    /\ Doing("quiet")
    /\ Done(worker.run, worker.step)
    /\ worker' = [worker EXCEPT !.step = @ + 1]
    /\ UNCHANGED <<runs, approvals, queue, scheduled, answering, bounds>>

(* An approval is made, and may be answered, before the run is put down.   *)
DoAsk ==
    /\ Doing("ask")
    /\ Done(worker.run, worker.step)
    /\ approvals' = Append(approvals, [run |-> worker.run, step |-> worker.step, status |-> "requested"])
    /\ worker' = [at |-> "hold", run |-> worker.run, step |-> worker.step, on |-> Len(approvals) + 1]
    /\ UNCHANGED <<runs, queue, scheduled, answering, bounds>>

Hold ==
    /\ worker.at = "hold"
    /\ runs' = [runs EXCEPT ![worker.run].status = "waiting", ![worker.run].step = worker.step,
                            ![worker.run].on = worker.on,
                            ![worker.run].answer = [id |-> worker.on, status |-> "requested"]]
    /\ worker' = Idle
    /\ UNCHANGED <<approvals, did, queue, scheduled, answering, bounds>>

DoWait ==
    /\ Doing("wait")
    /\ Done(worker.run, worker.step)
    /\ PutDown("waiting", Here.on, now + 1)
    /\ UNCHANGED <<approvals, queue, scheduled, answering, bounds>>

DoStop ==
    /\ Doing("stop")
    /\ Done(worker.run, worker.step)
    /\ PutDown("stopped", Here.on, Here.wake)
    /\ UNCHANGED <<approvals, queue, scheduled, answering, bounds>>

End ==
    /\ Running /\ AtEnd
    /\ PutDown("done", Here.on, Here.wake)
    /\ UNCHANGED <<approvals, did, queue, scheduled, answering, bounds>>

(* A step raises: the run says so, and stays at the step it was taken up.  *)
Fail ==
    /\ "fail" \in Hazards
    /\ Running /\ ~AtEnd /\ Applies(Step, Here.answer) /\ Step.kind # "stop"
    /\ runs' = [runs EXCEPT ![worker.run].status = "failed"]
    /\ worker' = Idle
    /\ UNCHANGED <<approvals, did, queue, scheduled, answering, bounds>>

Work ==
    \/ TakeChange \/ (\E f \in FlowIds : Match(f)) \/ Matched
    \/ TakeAnswer \/ TakeRun
    \/ Skip \/ DoWrite \/ DoQuiet \/ DoAsk \/ Hold \/ DoWait \/ DoStop \/ End \/ Fail

----------------------------------------------------------------------------
(* The clock: run_due.                                                     *)

(* _scheduled, or where it says nothing (after a restart) the last run.    *)
RunsOf(f) == {r \in Runs : runs[r].flow = f}
LastStart_memory(f) == scheduled[f]
LastStart(f) ==
    IF scheduled[f] # Never \/ RunsOf(f) = {} THEN scheduled[f]
    ELSE runs[CHOOSE r \in RunsOf(f) : \A q \in RunsOf(f) : q <= r].started

StartDue(f) ==
    /\ Trigger[f] = "schedule"
    /\ LastStart(f) = Never \/ now - LastStart(f) >= Every
    /\ scheduled' = [scheduled EXCEPT ![f] = now]
    /\ Start(f, 0, 0)
    /\ UNCHANGED <<approvals, worker, answering, bounds>>

(* A run whose wait is over; only the clock picks these up, so it is still *)
(* waiting when it is updated.                                             *)
Wake(r) ==
    /\ runs[r].status = "waiting" /\ runs[r].wake # Never /\ runs[r].wake <= now
    /\ runs' = [runs EXCEPT ![r].status = "running", ![r].wake = Never, ![r].step = StepAfter(r)]
    /\ queue' = Enqueued(Run(r, 0))
    /\ UNCHANGED <<approvals, did, worker, scheduled, answering, bounds>>

Tick ==
    /\ now < MaxTime /\ now' = now + 1
    /\ UNCHANGED <<records, memory, answering, acts, crashes>>

(* A restart: what was in memory is gone, the queue too.                   *)
Crash ==
    /\ "crash" \in Hazards
    /\ crashes < MaxCrashes /\ crashes' = crashes + 1
    /\ queue' = <<>> /\ worker' = Idle /\ scheduled' = [f \in FlowIds |-> Never]
    /\ answering' = [p \in People |-> [step |-> "rest"]]
    /\ UNCHANGED <<records, now, acts>>

----------------------------------------------------------------------------
Init ==
    /\ runs = <<>> /\ approvals = <<>> /\ did = <<>>
    /\ queue = <<>> /\ worker = Idle /\ scheduled = [f \in FlowIds |-> Never]
    /\ answering = [p \in People |-> [step |-> "rest"]]
    /\ now = 0 /\ acts = 0 /\ crashes = 0

Next ==
    \/ Write
    \/ \E f \in FlowIds : RunNow(f)
    \/ \E p \in People, a \in DOMAIN approvals, status \in Answers : LookAnswer(p, a, status)
    \/ \E p \in People : SaveAnswer(p)
    \/ \E p \in People : TellAnswer(p)
    \/ Work
    \/ \E f \in FlowIds : StartDue(f)
    \/ \E r \in Runs : Wake(r)
    \/ Tick
    \/ Crash

Spec == Init /\ [][Next]_vars

(* The worker's thread and the clock's go on while the server does, and a  *)
(* request that is being served is served.                                 *)
Fairness ==
    /\ WF_vars(Work)
    /\ \A p \in People : WF_vars(SaveAnswer(p) \/ TellAnswer(p))
    /\ WF_vars(\E f \in FlowIds : StartDue(f)) /\ WF_vars(\E r \in Runs : Wake(r))

LiveSpec == Spec /\ Fairness

----------------------------------------------------------------------------
(* Properties.                                                             *)

Statuses == Answers \cup {"requested"}

RunRecords  == [flow : FlowIds, status : {"running", "waiting", "done", "failed", "stopped"}, step : Nat \ {0},
                on : Nat, wake : Nat \cup {Never}, answer : [id : Nat, status : Statuses \cup {"none"}],
                started : Nat, chain : Nat]
Approvals   == [run : Nat, step : Nat \ {0}, status : Statuses]
ChangeItems == [kind : {"change"}, depth : Nat, by : FlowIds \cup {NoFlow}, chain : Nat]
AnswerItems == [kind : {"answer"}, id : Nat, status : Statuses, before : Statuses]
RunItems    == [kind : {"run"}, run : Nat, depth : Nat]
Items       == ChangeItems \cup AnswerItems \cup RunItems
Workers     == {Idle} \cup [at : {"match"}, change : ChangeItems, left : SUBSET FlowIds]
               \cup [at : {"run"}, run : Nat, step : Nat \ {0}, depth : Nat]
               \cup [at : {"hold"}, run : Nat, step : Nat \ {0}, on : Nat]
Requests    == {[step |-> "rest"]} \cup [step : {"save"}, id : Nat, status : Answers]
               \cup [step : {"tell"}, id : Nat, before : Statuses]

(* What is named is there.                                                 *)
Named ==
    /\ \A r \in Runs : runs[r].on \in DOMAIN approvals \cup {0}
    /\ \A a \in DOMAIN approvals : approvals[a].run \in Runs
    /\ \A i \in DOMAIN queue : /\ queue[i].kind = "answer" => queue[i].id \in DOMAIN approvals
                               /\ queue[i].kind = "run" => queue[i].run \in Runs
    /\ worker.at \in {"run", "hold"} => worker.run \in Runs
    /\ worker.at = "hold" => worker.on \in DOMAIN approvals
    /\ \A p \in People : answering[p].step # "rest" => answering[p].id \in DOMAIN approvals

TypeOK ==
    /\ runs \in Seq(RunRecords) /\ approvals \in Seq(Approvals)
    /\ did \in Seq(Seq(Nat)) /\ Len(did) = Len(runs)
    /\ queue \in Seq(Items) /\ worker \in Workers
    /\ scheduled \in [FlowIds -> Nat \cup {Never}] /\ answering \in [People -> Requests]
    /\ {now, acts, crashes} \subseteq Nat
    /\ Named

(* A run does its steps in their order and none of them twice, whoever     *)
(* answers, wakes it or restarts the server meanwhile.                     *)
InTurn == \A r \in Runs : \A j, k \in DOMAIN did[r] : j < k => did[r][j] < did[r][k]

(* A step that is for one answer is only done once the approval before it  *)
(* holds that answer.                                                      *)
AskedBefore(r, k) == {a \in DOMAIN approvals : approvals[a].run = r /\ approvals[a].step < k}
OnlyIfAnswered ==
    \A r \in Runs : \A j \in DOMAIN did[r] :
        LET k    == did[r][j]
            only == Steps[runs[r].flow][k].only
        IN  only # "always" =>
              \E a \in AskedBefore(r, k) : /\ approvals[a].status = only
                                           /\ \A b \in AskedBefore(r, k) : b <= a

(* "An approval is answered once."                                         *)
AnsweredOnce ==
    [][\A a \in DOMAIN approvals : approvals[a].status # "requested" => approvals'[a].status = approvals[a].status]_vars

(* "Chains of flows stop three deep."                                      *)
ChainsStop == \A r \in Runs : runs[r].chain <= Deepest

(* "A schedule fires ... every so often from the last run."                *)
FromLastRun ==
    \A r \in Runs : \A q \in Runs :
        q < r /\ runs[q].flow = runs[r].flow /\ Trigger[runs[r].flow] = "schedule" =>
            runs[r].started - runs[q].started >= Every

(* The same, as it must be at every moment: where a run waits, or is about *)
(* to, on an approval that was answered, somebody's request is about to    *)
(* tell of it or the queue holds what the worker will go by.  And a run    *)
(* that is running is at the worker or on the queue.                       *)
WaitedFor(a) == \/ \E r \in Runs : WaitsOn(r, a)
                \/ worker.at = "hold" /\ worker.on = a
ToldOf(a) == \/ \E p \in People : answering[p].step = "tell" /\ answering[p].id = a
             \/ \E i \in DOMAIN queue : /\ queue[i].kind = "answer" /\ queue[i].id = a
                                        /\ queue[i].status \notin {"requested", queue[i].before}
AnswerOnItsWay == \A a \in DOMAIN approvals : approvals[a].status # "requested" /\ WaitedFor(a) => ToldOf(a)

AtWorker(r) == worker.at \in {"run", "hold"} /\ worker.run = r
Queued(r) == \E i \in DOMAIN queue : queue[i].kind = "run" /\ queue[i].run = r
RunOnItsWay == \A r \in Runs : runs[r].status = "running" => AtWorker(r) \/ Queued(r)

(* Nothing that has still to happen is forgotten.                          *)
OnTheirWay == AnswerOnItsWay /\ RunOnItsWay

(* "A run waiting on an approval or the clock is picked up when the answer *)
(* or the time comes."                                                     *)
Late(run) == /\ run.status = "waiting"
             /\ IF run.on # 0 THEN approvals[run.on].status # "requested" ELSE run.wake <= now
Overdue(r) == r \in {q \in Runs : Late(runs[q])}

(* Each said of every run there is: no behaviour makes more than MaxRuns.  *)
AllWatched == [](Len(runs) <= MaxRuns)

PickedUp == AllWatched /\ \A r \in 1..MaxRuns : Overdue(r) ~> ~Overdue(r)

(* A run that is running is carried on to a wait or to its end.            *)
Carried(r) == r \notin {q \in Runs : runs[q].status = "running"}
CarriedOn == AllWatched /\ \A r \in 1..MaxRuns : []<>Carried(r)

(* So every run gets as far as its people let it.                          *)
GoesOn == PickedUp /\ CarriedOn
=============================================================================
