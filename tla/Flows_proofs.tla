---------------------------- MODULE Flows_proofs ----------------------------
(* Proofs about Flows, for every value of its constants.                   *)
EXTENDS Flows, SequenceTheorems, TLAPS

----------------------------------------------------------------------------
(* Types.                                                                  *)

(* What is on the queue and what comes off it.                             *)
LEMMA QueueGrows ==
    ASSUME NEW q \in Seq(Items), NEW item \in Items
    PROVE  /\ Append(q, item) \in Seq(Items)
           /\ Len(Append(q, item)) = Len(q) + 1
           /\ DOMAIN Append(q, item) = 1..(Len(q) + 1)
           /\ DOMAIN q = 1..Len(q) /\ Len(q) \in Nat
           /\ \A i \in DOMAIN q : i \in DOMAIN Append(q, item) /\ Append(q, item)[i] = q[i]
           /\ Append(q, item)[Len(q) + 1] = item
  OBVIOUS

LEMMA QueueShrinks ==
    ASSUME NEW q \in Seq(Items), q # <<>>
    PROVE  /\ Head(q) \in Items /\ Head(q) = q[1] /\ 1 \in DOMAIN q
           /\ Tail(q) \in Seq(Items)
           /\ DOMAIN Tail(q) = 1..(Len(q) - 1)
           /\ \A i \in DOMAIN Tail(q) : i + 1 \in DOMAIN q /\ Tail(q)[i] = q[i + 1]
           /\ \A i \in DOMAIN q : i = 1 \/ (i - 1 \in DOMAIN Tail(q) /\ Tail(q)[i - 1] = q[i])
  OBVIOUS

(* What kind an item is of says what it holds.                             *)
LEMMA ItemKinds ==
    ASSUME NEW item \in Items
    PROVE  /\ item.kind \in {"change", "answer", "run"}
           /\ item.kind = "change" => item \in ChangeItems
           /\ item.kind = "answer" => item \in AnswerItems
           /\ item.kind = "run" => item \in RunItems
  BY DEF Items, ChangeItems, AnswerItems, RunItems

LEMMA ItemsMade ==
    /\ \A depth \in Nat, chain \in Nat, by \in FlowIds \cup {NoFlow} : Change(depth, by, chain) \in ChangeItems
    /\ \A a \in Nat, s \in Statuses, b \in Statuses : Answer(a, s, b) \in AnswerItems
    /\ \A r \in Nat, depth \in Nat : Run(r, depth) \in RunItems
    /\ ChangeItems \subseteq Items /\ AnswerItems \subseteq Items /\ RunItems \subseteq Items
  BY DEF Items, ChangeItems, AnswerItems, RunItems, Change, Answer, Run

LEMMA WorkerKinds ==
    ASSUME NEW w \in Workers
    PROVE  /\ w.at \in {"idle", "match", "run", "hold"}
           /\ w.at = "idle" => w = Idle
           /\ w.at = "match" => w \in [at : {"match"}, change : ChangeItems, left : SUBSET FlowIds]
           /\ w.at = "run" => w \in [at : {"run"}, run : Nat, step : Nat \ {0}, depth : Nat]
           /\ w.at = "hold" => w \in [at : {"hold"}, run : Nat, step : Nat \ {0}, on : Nat]
  BY DEF Workers, Idle

LEMMA RequestKinds ==
    ASSUME NEW w \in Requests
    PROVE  /\ w.step \in {"rest", "save", "tell"}
           /\ w.step = "rest" => w = [step |-> "rest"]
           /\ w.step = "save" => w \in [step : {"save"}, id : Nat, status : Answers]
           /\ w.step = "tell" => w \in [step : {"tell"}, id : Nat, before : Statuses]
  BY DEF Requests

Typed ==
    /\ runs \in Seq(RunRecords) /\ approvals \in Seq(Approvals)
    /\ did \in Seq(Seq(Nat)) /\ Len(did) = Len(runs)
    /\ queue \in Seq(Items) /\ worker \in Workers
    /\ scheduled \in [FlowIds -> Nat \cup {Never}] /\ answering \in [People -> Requests]
    /\ {now, acts, crashes} \subseteq Nat

LEMMA TypeParts == TypeOK <=> Typed /\ Named
  BY DEF TypeOK, Typed

(* A started run: typed, named nowhere else, and on the queue.             *)
LEMMA Started ==
    ASSUME TypeOK, NEW f \in FlowIds, NEW depth \in Nat, NEW chain \in Nat, Start(f, depth, chain)
    PROVE  /\ runs' \in Seq(RunRecords) /\ did' \in Seq(Seq(Nat)) /\ Len(did') = Len(runs')
           /\ queue' \in Seq(Items)
           /\ Len(runs') = Len(runs) + 1
           /\ \A r \in Runs : r \in Runs' /\ runs'[r] = runs[r] /\ did'[r] = did[r]
           /\ Runs' = Runs \cup {Len(runs) + 1} /\ Len(runs) + 1 \notin Runs
           /\ LET r == Len(runs) + 1
              IN  /\ runs'[r].status = "running" /\ runs'[r].on = 0 /\ runs'[r].step = 1 /\ runs'[r].chain = chain
                  /\ runs'[r].flow = f /\ did'[r] = <<>>
           /\ queue' = Append(queue, Run(Len(runs) + 1, depth))
           /\ Run(Len(runs) + 1, depth) \in RunItems
  <1> DEFINE run == [flow |-> f, status |-> "running", step |-> 1, on |-> 0, wake |-> Never,
                     answer |-> NoAnswer, started |-> now, chain |-> chain]
  <1>1. run \in RunRecords
    BY DEF TypeOK, RunRecords, NoAnswer, Statuses
  <1>2. Run(Len(runs) + 1, depth) \in RunItems /\ RunItems \subseteq Items
    <2>1. Len(runs) + 1 \in Nat
      BY DEF TypeOK
    <2> QED BY <2>1, ItemsMade
  <1>3. queue' = Append(queue, Run(Len(runs) + 1, depth)) /\ runs' = Append(runs, run) /\ did' = Append(did, <<>>)
    BY DEF Start, Enqueued
  <1>4. queue' \in Seq(Items)
    BY <1>2, <1>3, QueueGrows DEF TypeOK
  <1>5. /\ run.status = "running" /\ run.on = 0 /\ run.step = 1 /\ run.chain = chain /\ run.flow = f
    OBVIOUS
  <1> HIDE DEF run
  <1>6. /\ runs' \in Seq(RunRecords) /\ Len(runs') = Len(runs) + 1 /\ Len(runs) \in Nat
        /\ DOMAIN runs = 1..Len(runs) /\ DOMAIN runs' = 1..(Len(runs) + 1)
        /\ \A r \in 1..Len(runs) : runs'[r] = runs[r]
        /\ runs'[Len(runs) + 1] = run
    BY <1>1, <1>3 DEF TypeOK
  <1>7. /\ did' \in Seq(Seq(Nat)) /\ Len(did') = Len(did) + 1
        /\ \A r \in 1..Len(did) : did'[r] = did[r]
        /\ did'[Len(did) + 1] = <<>>
    <2>1. <<>> \in Seq(Nat)
      OBVIOUS
    <2> QED BY <1>3, <2>1 DEF TypeOK
  <1>8. Len(did) = Len(runs)
    BY DEF TypeOK
  <1> QED BY <1>2, <1>3, <1>4, <1>5, <1>6, <1>7, <1>8 DEF Runs

NamedItem(item) == /\ item.kind = "answer" => item.id \in DOMAIN approvals
                   /\ item.kind = "run" => item.run \in Runs
NamedQueue == \A i \in DOMAIN queue : NamedItem(queue[i])
NamedRecords == /\ \A r \in Runs : runs[r].on \in DOMAIN approvals \cup {0}
                /\ \A a \in DOMAIN approvals : approvals[a].run \in Runs
NamedWorker == /\ worker.at \in {"run", "hold"} => worker.run \in Runs
               /\ worker.at = "hold" => worker.on \in DOMAIN approvals
NamedAnswering == \A p \in People : answering[p].step # "rest" => answering[p].id \in DOMAIN approvals

LEMMA NamedParts == Named <=> NamedRecords /\ NamedQueue /\ NamedWorker /\ NamedAnswering
  BY DEF Named, NamedRecords, NamedQueue, NamedItem, NamedWorker, NamedAnswering

(* No record goes away.                                                    *)
Grows == Runs \subseteq Runs' /\ DOMAIN approvals \subseteq (DOMAIN approvals)'

LEMMA NamedAppend ==
    ASSUME TypeOK, Grows, NEW item \in Items, queue' = Append(queue, item),
           item.kind = "answer" => item.id \in (DOMAIN approvals)',
           item.kind = "run" => item.run \in Runs'
    PROVE  queue' \in Seq(Items) /\ NamedQueue'
  <1>1. queue \in Seq(Items) /\ NamedQueue
    BY NamedParts DEF TypeOK
  <1>2. \A i \in DOMAIN queue' : (i \in DOMAIN queue /\ queue'[i] = queue[i]) \/ queue'[i] = item
    BY <1>1, QueueGrows
  <1>3. queue' \in Seq(Items)
    BY <1>1, QueueGrows
  <1> QED BY <1>1, <1>2, <1>3 DEF NamedQueue, NamedItem, Grows

LEMMA NamedTail ==
    ASSUME TypeOK, Grows, queue # <<>>, queue' = Tail(queue)
    PROVE  queue' \in Seq(Items) /\ NamedQueue'
  <1>1. queue \in Seq(Items) /\ NamedQueue
    BY NamedParts DEF TypeOK
  <1>2. queue' \in Seq(Items) /\ \A i \in DOMAIN queue' : i + 1 \in DOMAIN queue /\ queue'[i] = queue[i + 1]
    BY <1>1, QueueShrinks
  <1> QED BY <1>1, <1>2 DEF NamedQueue, NamedItem, Grows

LEMMA NamedSame ==
    ASSUME TypeOK, Grows, queue' = queue
    PROVE  queue' \in Seq(Items) /\ NamedQueue'
  <1>1. queue \in Seq(Items) /\ NamedQueue
    BY NamedParts DEF TypeOK
  <1> QED BY <1>1 DEF NamedQueue, NamedItem, Grows

LEMMA InitTyped == Init => TypeOK
  BY ConstantsAssumption DEF Init, TypeOK, Named, Workers, Requests, Runs, Idle, Never

(* What the records hold.                                                  *)
LEMMA Approved ==
    ASSUME approvals \in Seq(Approvals), NEW a \in DOMAIN approvals
    PROVE  approvals[a] \in Approvals /\ approvals[a].run \in Nat /\ approvals[a].status \in Statuses
  <1>1. approvals[a] \in Approvals
    OBVIOUS
  <1> QED BY <1>1 DEF Approvals

LEMMA Recorded ==
    ASSUME runs \in Seq(RunRecords), NEW r \in Runs
    PROVE  /\ runs[r] \in RunRecords
           /\ runs[r].flow \in FlowIds /\ runs[r].step \in Nat \ {0} /\ runs[r].on \in Nat
           /\ runs[r].wake \in Nat \cup {Never} /\ runs[r].chain \in Nat /\ runs[r].started \in Nat
           /\ runs[r].status \in {"running", "waiting", "done", "failed", "stopped"}
           /\ runs[r].answer \in [id : Nat, status : Statuses \cup {"none"}]
  <1>1. runs[r] \in RunRecords
    BY DEF Runs
  <1> QED BY <1>1 DEF RunRecords

AllTyped == Typed /\ NamedRecords /\ NamedQueue /\ NamedWorker /\ NamedAnswering

LEMMA AllParts == TypeOK <=> AllTyped
  BY TypeParts, NamedParts DEF AllTyped

LEMMA AllPartsNext == AllTyped' => TypeOK'
  BY DEF AllTyped, TypeOK, Typed, Named, NamedRecords, NamedQueue, NamedItem, NamedWorker, NamedAnswering

(* A record that is changed stays one.                                     *)
LEMMA RunChanged ==
    ASSUME TypeOK, NEW r \in Runs, NEW run \in RunRecords, runs' = [runs EXCEPT ![r] = run],
           run.on \in DOMAIN approvals \cup {0}
    PROVE  /\ runs' \in Seq(RunRecords) /\ Len(runs') = Len(runs) /\ Runs' = Runs
           /\ runs'[r] = run /\ \A q \in Runs \ {r} : runs'[q] = runs[q]
           /\ \A q \in Runs : runs'[q].on \in DOMAIN approvals \cup {0}
  BY AllParts DEF AllTyped, Typed, NamedRecords, Runs

LEMMA StepDone ==
    ASSUME TypeOK, NEW r \in Runs, NEW k \in Nat, Done(r, k)
    PROVE  /\ did' \in Seq(Seq(Nat)) /\ Len(did') = Len(did)
           /\ did'[r] = Append(did[r], k) /\ \A q \in Runs \ {r} : did'[q] = did[q]
           /\ did[r] \in Seq(Nat)
  <1>1. did[r] \in Seq(Nat) /\ r \in DOMAIN did /\ did \in Seq(Seq(Nat)) /\ Runs = DOMAIN did
    BY DEF TypeOK, Runs
  <1>2. Append(did[r], k) \in Seq(Nat)
    BY <1>1
  <1> QED BY <1>1, <1>2 DEF Done

LEMMA WorkerAtRun ==
    ASSUME TypeOK, Running
    PROVE  /\ worker.run \in Runs /\ worker.run \in Nat /\ worker.step \in Nat \ {0} /\ worker.depth \in Nat
           /\ worker = [at |-> "run", run |-> worker.run, step |-> worker.step, depth |-> worker.depth]
  BY WorkerKinds DEF TypeOK, Named, Running

LEMMA PutDownTyped ==
    ASSUME TypeOK, Running, NEW status \in {"waiting", "done", "failed", "stopped"},
           NEW on \in Nat, on \in DOMAIN approvals \cup {0}, NEW wake \in Nat \cup {Never}, PutDown(status, on, wake)
    PROVE  /\ runs' \in Seq(RunRecords) /\ Len(runs') = Len(runs) /\ Runs' = Runs
           /\ \A q \in Runs \ {worker.run} : runs'[q] = runs[q]
           /\ \A q \in Runs : runs'[q].on \in DOMAIN approvals \cup {0}
           /\ runs'[worker.run].status = status /\ runs'[worker.run].on = on /\ runs'[worker.run].step = worker.step
           /\ runs'[worker.run].flow = runs[worker.run].flow /\ runs'[worker.run].chain = runs[worker.run].chain
           /\ worker' = Idle
  <1> DEFINE r == worker.run
             run == [runs[r] EXCEPT !.status = status, !.step = worker.step, !.on = on, !.wake = wake]
  <1>1. r \in Runs /\ worker.step \in Nat \ {0}
    BY WorkerAtRun
  <1>2. runs[r] \in RunRecords
    BY <1>1, Recorded DEF TypeOK
  <1>3. run \in RunRecords /\ run.status = status /\ run.on = on /\ run.step = worker.step
        /\ run.flow = runs[r].flow /\ run.chain = runs[r].chain
    BY <1>1, <1>2 DEF RunRecords
  <1>4. runs' = [runs EXCEPT ![r] = run] /\ worker' = Idle
    BY <1>1 DEF PutDown
  <1> HIDE DEF run, r
  <1>5. /\ runs' \in Seq(RunRecords) /\ Len(runs') = Len(runs) /\ Runs' = Runs
        /\ runs'[r] = run /\ \A q \in Runs \ {r} : runs'[q] = runs[q]
        /\ \A q \in Runs : runs'[q].on \in DOMAIN approvals \cup {0}
    BY <1>1, <1>3, <1>4, RunChanged
  <1> QED BY <1>3, <1>4, <1>5 DEF r

(* A step that keeps the worker at its run.                                *)
LEMMA GoneOn ==
    ASSUME TypeOK, Running, worker' = [worker EXCEPT !.step = @ + 1]
    PROVE  /\ worker' \in Workers /\ worker'.at = "run" /\ worker'.run = worker.run
           /\ worker'.step = worker.step + 1 /\ worker'.depth = worker.depth
  <1>1. worker.run \in Nat /\ worker.step \in Nat \ {0} /\ worker.depth \in Nat
        /\ worker = [at |-> "run", run |-> worker.run, step |-> worker.step, depth |-> worker.depth]
    BY WorkerAtRun
  <1>2. worker' = [at |-> "run", run |-> worker.run, step |-> worker.step + 1, depth |-> worker.depth]
    BY <1>1
  <1> QED BY <1>1, <1>2 DEF Workers

LEMMA IdleIs == Idle \in Workers /\ Idle.at = "idle"
  BY DEF Idle, Workers

LEMMA TypeStep == TypeOK /\ [Next]_vars => TypeOK'
  <1> SUFFICES ASSUME TypeOK, [Next]_vars PROVE TypeOK'
    OBVIOUS
  <1> USE DEF Runs
  <1>h. AllTyped
    BY AllParts
  <1>q. SUFFICES AllTyped'
    BY AllPartsNext
  <1> USE DEF AllTyped
  <1>1. CASE Write
    <2>1. Grows /\ Change(0, NoFlow, 0) \in ChangeItems /\ ChangeItems \subseteq Items
      BY <1>1, ItemsMade DEF Write, records, Grows
    <2>2. queue' \in Seq(Items) /\ NamedQueue'
      BY <1>1, <2>1, NamedAppend DEF Write, Enqueued, NamedItem, Change
    <2> QED BY <1>h, <1>1, <2>2 DEF Write, records, Typed, NamedRecords, NamedWorker, NamedAnswering
  <1>2. ASSUME NEW f \in FlowIds, NEW depth \in Nat, NEW chain \in Nat, Start(f, depth, chain), UNCHANGED approvals
        PROVE  /\ runs' \in Seq(RunRecords) /\ did' \in Seq(Seq(Nat)) /\ Len(did') = Len(runs')
               /\ Grows /\ NamedRecords' /\ queue' \in Seq(Items) /\ NamedQueue'
    <2>1. /\ runs' \in Seq(RunRecords) /\ did' \in Seq(Seq(Nat)) /\ Len(did') = Len(runs')
          /\ \A r \in Runs : runs'[r] = runs[r]
          /\ Runs' = Runs \cup {Len(runs) + 1}
          /\ runs'[Len(runs) + 1].on = 0
          /\ queue' = Append(queue, Run(Len(runs) + 1, depth))
          /\ Run(Len(runs) + 1, depth) \in RunItems
      BY <1>2, Started
    <2>2. Grows
      BY <1>2, <2>1 DEF Grows
    <2>3. NamedRecords'
      BY <1>2, <1>h, <2>1 DEF NamedRecords
    <2>4. Run(Len(runs) + 1, depth) \in Items
      BY <2>1, ItemsMade
    <2> DEFINE item == Run(Len(runs) + 1, depth)
    <2>5. item.kind = "run" /\ item.run = Len(runs) + 1
      BY DEF Run
    <2>6. \A i \in DOMAIN queue' : (i \in DOMAIN queue /\ queue'[i] = queue[i]) \/ queue'[i] = item
      BY <1>h, <2>1, <2>4, QueueGrows DEF Typed
    <2>7. queue' \in Seq(Items)
      BY <1>h, <2>1, <2>4, QueueGrows DEF Typed
    <2> HIDE DEF item
    <2>8. NamedQueue'
      BY <1>h, <2>1, <2>2, <2>5, <2>6 DEF NamedQueue, NamedItem, Grows
    <2> QED BY <2>1, <2>2, <2>3, <2>7, <2>8
  <1>3. ASSUME NEW f \in FlowIds, RunNow(f) PROVE AllTyped'
    <2>1. Start(f, 0, 0) /\ UNCHANGED approvals
      BY <1>3 DEF RunNow
    <2>2. /\ runs' \in Seq(RunRecords) /\ did' \in Seq(Seq(Nat)) /\ Len(did') = Len(runs')
          /\ Grows /\ NamedRecords' /\ queue' \in Seq(Items) /\ NamedQueue'
      BY <1>2, <2>1
    <2> QED BY <1>h, <1>3, <2>2 DEF RunNow, Typed, NamedWorker, NamedAnswering, Grows
  <1>4. ASSUME NEW p \in People, NEW a \in DOMAIN approvals, NEW status \in Answers, LookAnswer(p, a, status)
        PROVE  AllTyped'
    <2>1. UNCHANGED <<runs, approvals, did, queue, worker, scheduled, now, acts, crashes>>
      BY <1>4 DEF LookAnswer, records, memory, bounds
    <2>2. a \in Nat
      BY <1>h DEF Typed
    <2>3. /\ answering' \in [People -> Requests] /\ answering'[p].id = a
          /\ \A q \in People \ {p} : answering'[q] = answering[q]
      <3>1. [step |-> "save", id |-> a, status |-> status] \in Requests
        BY <2>2 DEF Requests
      <3> QED BY <1>4, <1>h, <3>1 DEF LookAnswer, Typed
    <2> QED BY <1>h, <2>1, <2>3 DEF Typed, NamedRecords, NamedQueue, NamedItem, NamedWorker, NamedAnswering
  <1>5. ASSUME NEW p \in People, SaveAnswer(p) PROVE AllTyped'
    <2> DEFINE a == answering[p].id
    <2>1. /\ answering[p] \in Requests /\ answering[p].step = "save"
          /\ a \in DOMAIN approvals /\ a \in Nat /\ answering[p].status \in Answers
      BY <1>5, <1>h, RequestKinds DEF SaveAnswer, Typed, NamedAnswering
    <2>2. UNCHANGED <<runs, did, queue, worker, scheduled, now, acts, crashes>>
      BY <1>5 DEF SaveAnswer, memory, bounds
    <2>3. /\ approvals' = [approvals EXCEPT ![a].status = answering[p].status]
          /\ answering' = [answering EXCEPT ![p] = [step |-> "tell", id |-> a, before |-> approvals[a].status]]
      BY <1>5 DEF SaveAnswer
    <2>4. approvals[a] \in Approvals /\ approvals[a].status \in Statuses
      BY <1>h, <2>1, Approved DEF Typed
    <2>5. [approvals[a] EXCEPT !.status = answering[p].status] \in Approvals
      BY <2>1, <2>4 DEF Approvals, Statuses
    <2> HIDE DEF a
    <2>6. /\ approvals' \in Seq(Approvals) /\ DOMAIN approvals' = DOMAIN approvals
          /\ \A b \in DOMAIN approvals : approvals'[b].run = approvals[b].run
      <3>1. approvals' = [approvals EXCEPT ![a] = [approvals[a] EXCEPT !.status = answering[p].status]]
        BY <2>3
      <3>2. approvals' \in Seq(Approvals) /\ DOMAIN approvals' = DOMAIN approvals
        BY <3>1, <1>h, <2>1, <2>5 DEF Typed
      <3>3. \A b \in DOMAIN approvals : approvals[b] \in Approvals
        BY <1>h DEF Typed
      <3>4. ASSUME NEW b \in DOMAIN approvals PROVE approvals'[b].run = approvals[b].run
        <4>1. CASE b = a
          BY <4>1, <3>1, <3>3 DEF Approvals
        <4>2. CASE b # a
          BY <4>2, <3>1
        <4> QED BY <4>1, <4>2
      <3> QED BY <3>2, <3>4
    <2>7. [step |-> "tell", id |-> a, before |-> approvals[a].status] \in Requests
      BY <2>1, <2>4 DEF Requests
    <2>8. /\ answering' \in [People -> Requests] /\ answering'[p].id = a
          /\ \A q \in People \ {p} : answering'[q] = answering[q]
      BY <1>h, <2>3, <2>7 DEF Typed
    <2> QED BY <1>h, <2>1, <2>2, <2>6, <2>8 DEF Typed, NamedRecords, NamedQueue, NamedItem, NamedWorker, NamedAnswering
  <1>6. ASSUME NEW p \in People, TellAnswer(p) PROVE AllTyped'
    <2> DEFINE a == answering[p].id
               item == Answer(a, approvals[a].status, answering[p].before)
    <2>1. /\ answering[p] \in Requests /\ answering[p].step = "tell"
          /\ a \in DOMAIN approvals /\ a \in Nat /\ answering[p].before \in Statuses
      BY <1>6, <1>h, RequestKinds DEF TellAnswer, Typed, NamedAnswering
    <2>2. UNCHANGED <<runs, approvals, did, worker, scheduled, now, acts, crashes>> /\ Grows
      BY <1>6 DEF TellAnswer, records, bounds, Grows
    <2>3. queue' = Append(queue, item) /\ answering' = [answering EXCEPT ![p] = [step |-> "rest"]]
      BY <1>6 DEF TellAnswer, Enqueued
    <2>4. approvals[a].status \in Statuses
      BY <1>h, <2>1, Approved DEF Typed
    <2>5. item \in Items /\ item.kind = "answer" /\ item.id = a
      BY <2>1, <2>4, ItemsMade DEF Answer
    <2> HIDE DEF item
    <2>6. queue' \in Seq(Items) /\ NamedQueue'
      BY <2>1, <2>2, <2>3, <2>5, NamedAppend
    <2>7. answering' \in [People -> Requests] /\ \A q \in People \ {p} : answering'[q] = answering[q]
      BY <1>h, <2>3 DEF Typed, Requests
    <2>8. answering'[p].step = "rest"
      BY <1>h, <2>3 DEF Typed
    <2> QED BY <1>h, <2>2, <2>6, <2>7, <2>8 DEF Typed, NamedRecords, NamedWorker, NamedAnswering
  <1>7. CASE TakeChange
    <2>1. /\ queue # <<>> /\ Head(queue).kind = "change" /\ queue' = Tail(queue)
          /\ worker' = [at |-> "match", change |-> Head(queue), left |-> {f \in FlowIds : Trigger[f] = "record"}]
          /\ UNCHANGED <<runs, approvals, did, scheduled, answering, now, acts, crashes>> /\ Grows
      BY <1>7 DEF TakeChange, Taken, records, bounds, Grows
    <2>2. Head(queue) \in ChangeItems
      BY <1>h, <2>1, QueueShrinks, ItemKinds DEF Typed
    <2>3. worker' \in Workers /\ worker'.at = "match"
      BY <2>1, <2>2 DEF Workers
    <2>4. queue' \in Seq(Items) /\ NamedQueue'
      BY <2>1, NamedTail
    <2> QED BY <1>h, <2>1, <2>3, <2>4 DEF Typed, NamedRecords, NamedWorker, NamedAnswering
  <1>8. ASSUME NEW f \in FlowIds, Match(f) PROVE AllTyped'
    <2>1. /\ worker \in [at : {"match"}, change : ChangeItems, left : SUBSET FlowIds]
          /\ worker' = [worker EXCEPT !.left = @ \ {f}]
          /\ UNCHANGED <<approvals, scheduled, answering, now, acts, crashes>>
      BY <1>8, <1>h, WorkerKinds DEF Match, Typed, bounds
    <2>2. worker' \in Workers /\ worker'.at = "match"
      BY <2>1 DEF Workers
    <2>3. worker.change.depth + 1 \in Nat /\ worker.change.chain + 1 \in Nat
      BY <2>1 DEF ChangeItems
    <2>4. CASE Starts(f, worker.change)
      <3>1. Start(f, worker.change.depth + 1, worker.change.chain + 1)
        BY <1>8, <2>4 DEF Match
      <3>2. /\ runs' \in Seq(RunRecords) /\ did' \in Seq(Seq(Nat)) /\ Len(did') = Len(runs')
            /\ Grows /\ NamedRecords' /\ queue' \in Seq(Items) /\ NamedQueue'
        BY <1>2, <2>1, <2>3, <3>1
      <3> QED BY <1>h, <2>1, <2>2, <3>2 DEF Typed, NamedWorker, NamedAnswering, Grows
    <2>5. CASE ~Starts(f, worker.change)
      <3>1. UNCHANGED <<runs, did, queue>> /\ Grows
        BY <1>8, <2>1, <2>5 DEF Match, Grows
      <3> QED BY <1>h, <2>1, <2>2, <3>1 DEF Typed, NamedRecords, NamedQueue, NamedItem, NamedWorker, NamedAnswering
    <2> QED BY <2>4, <2>5
  <1>9. CASE Matched
    BY <1>h, <1>9, IdleIs DEF Matched, records, bounds, Typed, NamedRecords, NamedQueue, NamedItem, NamedWorker, NamedAnswering
  <1>10. CASE TakeAnswer
    <2> DEFINE told == Head(queue)
               r    == approvals[told.id].run
    <2>1. /\ queue # <<>> /\ told.kind = "answer"
          /\ UNCHANGED <<approvals, did, worker, scheduled, answering, now, acts, crashes>>
      BY <1>10 DEF TakeAnswer, Taken, bounds
    <2>2. told \in AnswerItems /\ told.id \in DOMAIN approvals /\ told.id \in Nat /\ told.status \in Statuses
      <3>1. told \in AnswerItems /\ told = queue[1] /\ 1 \in DOMAIN queue
        BY <1>h, <2>1, QueueShrinks, ItemKinds DEF Typed
      <3> QED BY <1>h, <2>1, <3>1 DEF NamedQueue, NamedItem, AnswerItems
    <2>3. r \in Runs /\ r \in Nat
      BY <1>h, <2>2 DEF NamedRecords, Typed
    <2>4. /\ Tail(queue) \in Seq(Items)
          /\ \A i \in DOMAIN Tail(queue) : i + 1 \in DOMAIN queue /\ Tail(queue)[i] = queue[i + 1]
      BY <1>h, <2>1, QueueShrinks DEF Typed
    <2>5. CASE told.status # "requested" /\ told.before # told.status /\ WaitsOn(r, told.id)
      <3> DEFINE run == [runs[r] EXCEPT !.status = "running", !.on = 0, !.step = StepAfter(r),
                                        !.answer = [id |-> told.id, status |-> told.status]]
                 item == Run(r, 0)
      <3>1. runs' = [runs EXCEPT ![r].status = "running", ![r].on = 0, ![r].step = StepAfter(r),
                                 ![r].answer = [id |-> told.id, status |-> told.status]]
            /\ queue' = Append(Tail(queue), item)
        BY <1>10, <2>5 DEF TakeAnswer
      <3>2. runs[r] \in RunRecords
        BY <1>h, <2>3, Recorded DEF Typed
      <3>3. run \in RunRecords /\ run.on = 0
        <4>1. [id |-> told.id, status |-> told.status] \in [id : Nat, status : Statuses \cup {"none"}]
          BY <2>2
        <4>2. StepAfter(r) \in Nat \ {0}
          BY <3>2 DEF StepAfter, RunRecords
        <4> QED BY <3>2, <4>1, <4>2 DEF RunRecords
      <3>4. runs' = [runs EXCEPT ![r] = run]
        BY <3>1, <2>3
      <3>5. item \in Items /\ item.kind = "run" /\ item.run = r
        BY <2>3, ItemsMade DEF Run
      <3> HIDE DEF run, r, item
      <3>6. runs' \in Seq(RunRecords) /\ Len(runs') = Len(runs) /\ Runs' = Runs
            /\ \A q \in Runs : runs'[q].on \in DOMAIN approvals \cup {0}
        BY <2>3, <3>3, <3>4, RunChanged
      <3>7. /\ queue' \in Seq(Items)
            /\ \A i \in DOMAIN queue' : (i + 1 \in DOMAIN queue /\ queue'[i] = queue[i + 1]) \/ queue'[i] = item
        BY <3>1, <3>5, <2>4, QueueGrows
      <3>8. NamedQueue'
        BY <1>h, <2>1, <2>3, <3>5, <3>6, <3>7 DEF NamedQueue, NamedItem
      <3> QED BY <1>h, <2>1, <3>6, <3>7, <3>8 DEF Typed, NamedRecords, NamedWorker, NamedAnswering
    <2>6. CASE ~(told.status # "requested" /\ told.before # told.status /\ WaitsOn(r, told.id))
      <3>1. runs' = runs /\ queue' = Tail(queue) /\ Grows
        BY <1>10, <2>1, <2>6 DEF TakeAnswer, Grows
      <3>2. queue' \in Seq(Items) /\ NamedQueue'
        BY <2>1, <3>1, NamedTail
      <3> QED BY <1>h, <2>1, <3>1, <3>2 DEF Typed, NamedRecords, NamedWorker, NamedAnswering
    <2> QED BY <2>5, <2>6
  <1>11. CASE TakeRun
    <2>1. /\ queue # <<>> /\ Head(queue).kind = "run" /\ queue' = Tail(queue)
          /\ worker' = IF runs[Head(queue).run].status = "running"
                       THEN [at |-> "run", run |-> Head(queue).run, step |-> runs[Head(queue).run].step, depth |-> Head(queue).depth]
                       ELSE Idle
          /\ UNCHANGED <<runs, approvals, did, scheduled, answering, now, acts, crashes>> /\ Grows
      BY <1>11 DEF TakeRun, Taken, records, bounds, Grows
    <2>2. Head(queue) \in RunItems /\ Head(queue).run \in Runs /\ Head(queue).run \in Nat /\ Head(queue).depth \in Nat
      <3>1. Head(queue) \in RunItems /\ Head(queue) = queue[1] /\ 1 \in DOMAIN queue
        BY <1>h, <2>1, QueueShrinks, ItemKinds DEF Typed
      <3> QED BY <1>h, <2>1, <3>1 DEF NamedQueue, NamedItem, RunItems
    <2>3. runs[Head(queue).run].step \in Nat \ {0}
      BY <1>h, <2>2, Recorded DEF Typed
    <2>4. worker' \in Workers /\ ((worker'.at = "run" /\ worker'.run = Head(queue).run) \/ worker'.at = "idle")
      BY <2>1, <2>2, <2>3, IdleIs DEF Workers
    <2>5. queue' \in Seq(Items) /\ NamedQueue'
      BY <2>1, NamedTail
    <2> QED BY <1>h, <2>1, <2>2, <2>4, <2>5 DEF Typed, NamedRecords, NamedWorker, NamedAnswering
  <1>12. CASE Skip
    <2>1. worker' \in Workers /\ worker'.at = "run" /\ worker'.run = worker.run /\ worker.run \in Runs
      BY <1>12, GoneOn, WorkerAtRun DEF Skip
    <2> QED BY <1>h, <1>12, <2>1 DEF Skip, records, bounds, Typed, NamedRecords, NamedQueue, NamedItem, NamedWorker, NamedAnswering
  <1>13. CASE DoWrite
    <2> DEFINE item == Change(worker.depth, Here.flow, Here.chain)
    <2>1. Running /\ Done(worker.run, worker.step) /\ worker' = [worker EXCEPT !.step = @ + 1]
          /\ queue' = Append(queue, item)
          /\ UNCHANGED <<runs, approvals, scheduled, answering, now, acts, crashes>> /\ Grows
      BY <1>13 DEF DoWrite, Doing, Enqueued, bounds, Grows
    <2>2. worker.run \in Runs /\ worker.step \in Nat /\ worker.depth \in Nat
          /\ worker' \in Workers /\ worker'.at = "run" /\ worker'.run = worker.run
      BY <2>1, GoneOn, WorkerAtRun
    <2>3. item \in Items /\ item.kind = "change"
      BY <1>h, <2>2, Recorded, ItemsMade DEF Here, Typed, Change
    <2> HIDE DEF item
    <2>4. queue' \in Seq(Items) /\ NamedQueue'
      BY <2>1, <2>3, NamedAppend
    <2>5. did' \in Seq(Seq(Nat)) /\ Len(did') = Len(did)
      BY <2>1, <2>2, StepDone
    <2> QED BY <1>h, <2>1, <2>2, <2>4, <2>5 DEF Typed, NamedRecords, NamedWorker, NamedAnswering
  <1>14. CASE DoQuiet
    <2>1. Running /\ Done(worker.run, worker.step) /\ worker' = [worker EXCEPT !.step = @ + 1]
          /\ UNCHANGED <<runs, approvals, queue, scheduled, answering, now, acts, crashes>>
      BY <1>14 DEF DoQuiet, Doing, bounds
    <2>2. worker.run \in Runs /\ worker.step \in Nat
          /\ worker' \in Workers /\ worker'.at = "run" /\ worker'.run = worker.run
      BY <2>1, GoneOn, WorkerAtRun
    <2>3. did' \in Seq(Seq(Nat)) /\ Len(did') = Len(did)
      BY <2>1, <2>2, StepDone
    <2> QED BY <1>h, <2>1, <2>2, <2>3 DEF Typed, NamedRecords, NamedQueue, NamedItem, NamedWorker, NamedAnswering
  <1>15. CASE DoAsk
    <2> DEFINE approval == [run |-> worker.run, step |-> worker.step, status |-> "requested"]
    <2>1. Running /\ Done(worker.run, worker.step) /\ approvals' = Append(approvals, approval)
          /\ worker' = [at |-> "hold", run |-> worker.run, step |-> worker.step, on |-> Len(approvals) + 1]
          /\ UNCHANGED <<runs, queue, scheduled, answering, now, acts, crashes>>
      BY <1>15 DEF DoAsk, Doing, bounds
    <2>2. worker.run \in Runs /\ worker.run \in Nat /\ worker.step \in Nat \ {0}
      BY <2>1, WorkerAtRun
    <2>3. approval \in Approvals /\ approval.run = worker.run
      BY <2>2 DEF Approvals, Statuses
    <2> HIDE DEF approval
    <2>4. /\ approvals' \in Seq(Approvals) /\ DOMAIN approvals = 1..Len(approvals) /\ Len(approvals) \in Nat
          /\ DOMAIN approvals' = 1..(Len(approvals) + 1)
          /\ \A a \in DOMAIN approvals : approvals'[a] = approvals[a]
          /\ approvals'[Len(approvals) + 1] = approval
      BY <1>h, <2>1, <2>3 DEF Typed
    <2>5. worker' \in Workers /\ worker'.at = "hold" /\ worker'.run = worker.run /\ worker'.on = Len(approvals) + 1
      BY <2>1, <2>2, <2>4 DEF Workers
    <2>6. did' \in Seq(Seq(Nat)) /\ Len(did') = Len(did)
      BY <2>1, <2>2, StepDone
    <2>7. NamedRecords'
      BY <1>h, <2>1, <2>2, <2>3, <2>4 DEF NamedRecords
    <2>8. NamedQueue' /\ NamedWorker' /\ NamedAnswering'
      BY <1>h, <2>1, <2>2, <2>4, <2>5 DEF NamedQueue, NamedItem, NamedWorker, NamedAnswering
    <2> QED BY <1>h, <2>1, <2>4, <2>5, <2>6, <2>7, <2>8 DEF Typed
  <1>16. CASE Hold
    <2> DEFINE r == worker.run
               run == [runs[r] EXCEPT !.status = "waiting", !.step = worker.step, !.on = worker.on,
                                      !.answer = [id |-> worker.on, status |-> "requested"]]
    <2>1. /\ worker.at = "hold" /\ worker' = Idle
          /\ runs' = [runs EXCEPT ![r].status = "waiting", ![r].step = worker.step, ![r].on = worker.on,
                                  ![r].answer = [id |-> worker.on, status |-> "requested"]]
          /\ UNCHANGED <<approvals, did, queue, scheduled, answering, now, acts, crashes>>
      BY <1>16 DEF Hold, bounds
    <2>2. r \in Runs /\ worker.step \in Nat \ {0} /\ worker.on \in DOMAIN approvals /\ worker.on \in Nat
      BY <1>h, <2>1, WorkerKinds DEF Typed, NamedWorker
    <2>3. runs[r] \in RunRecords
      BY <1>h, <2>2, Recorded DEF Typed
    <2>4. run \in RunRecords /\ run.on = worker.on
      <3>1. [id |-> worker.on, status |-> "requested"] \in [id : Nat, status : Statuses \cup {"none"}]
        BY <2>2 DEF Statuses
      <3> QED BY <2>2, <2>3, <3>1 DEF RunRecords
    <2>5. runs' = [runs EXCEPT ![r] = run]
      BY <2>1, <2>2
    <2> HIDE DEF run, r
    <2>6. runs' \in Seq(RunRecords) /\ Len(runs') = Len(runs) /\ Runs' = Runs
          /\ \A q \in Runs : runs'[q].on \in DOMAIN approvals \cup {0}
      BY <2>2, <2>4, <2>5, RunChanged
    <2> QED BY <1>h, <2>1, <2>6, IdleIs DEF Typed, NamedRecords, NamedQueue, NamedItem, NamedWorker, NamedAnswering
  <1>17. ASSUME NEW status \in {"waiting", "done", "stopped"}, NEW wake \in Nat \cup {Never}, Running,
                PutDown(status, Here.on, wake)
         PROVE  /\ runs' \in Seq(RunRecords) /\ Len(runs') = Len(runs) /\ Runs' = Runs
                /\ \A q \in Runs : runs'[q].on \in DOMAIN approvals \cup {0}
                /\ worker' = Idle
    <2>1. Here.on \in Nat /\ Here.on \in DOMAIN approvals \cup {0}
      BY <1>h, <1>17, WorkerAtRun, Recorded DEF Here, Typed, NamedRecords
    <2> QED BY <1>17, <2>1, PutDownTyped
  <1>18. CASE DoWait
    <2>1. Running /\ Done(worker.run, worker.step) /\ PutDown("waiting", Here.on, now + 1)
          /\ UNCHANGED <<approvals, queue, scheduled, answering, now, acts, crashes>>
      BY <1>18 DEF DoWait, Doing, bounds
    <2>2. now + 1 \in Nat
      BY <1>h DEF Typed
    <2>3. did' \in Seq(Seq(Nat)) /\ Len(did') = Len(did)
      BY <2>1, StepDone, WorkerAtRun
    <2> QED BY <1>h, <1>17, <2>1, <2>2, <2>3, IdleIs DEF Typed, NamedRecords, NamedQueue, NamedItem, NamedWorker, NamedAnswering
  <1>19. CASE DoStop
    <2>1. Running /\ Done(worker.run, worker.step) /\ PutDown("stopped", Here.on, Here.wake)
          /\ UNCHANGED <<approvals, queue, scheduled, answering, now, acts, crashes>>
      BY <1>19 DEF DoStop, Doing, bounds
    <2>2. Here.wake \in Nat \cup {Never}
      BY <1>h, <2>1, WorkerAtRun, Recorded DEF Here, Typed
    <2>3. did' \in Seq(Seq(Nat)) /\ Len(did') = Len(did)
      BY <2>1, StepDone, WorkerAtRun
    <2> QED BY <1>h, <1>17, <2>1, <2>2, <2>3, IdleIs DEF Typed, NamedRecords, NamedQueue, NamedItem, NamedWorker, NamedAnswering
  <1>20. CASE End
    <2>1. Running /\ PutDown("done", Here.on, Here.wake)
          /\ UNCHANGED <<approvals, did, queue, scheduled, answering, now, acts, crashes>>
      BY <1>20 DEF End, bounds
    <2>2. Here.wake \in Nat \cup {Never}
      BY <1>h, <2>1, WorkerAtRun, Recorded DEF Here, Typed
    <2> QED BY <1>h, <1>17, <2>1, <2>2, IdleIs DEF Typed, NamedRecords, NamedQueue, NamedItem, NamedWorker, NamedAnswering
  <1>21. CASE Fail
    <2> DEFINE run == [runs[worker.run] EXCEPT !.status = "failed"]
    <2>1. Running /\ runs' = [runs EXCEPT ![worker.run].status = "failed"] /\ worker' = Idle
          /\ UNCHANGED <<approvals, did, queue, scheduled, answering, now, acts, crashes>>
      BY <1>21 DEF Fail, bounds
    <2>2. worker.run \in Runs
      BY <2>1, WorkerAtRun
    <2>3. run \in RunRecords /\ run.on = runs[worker.run].on
      <3>1. runs[worker.run] \in RunRecords
        BY <1>h, <2>2, Recorded DEF Typed
      <3> QED BY <3>1 DEF RunRecords
    <2>4. runs' = [runs EXCEPT ![worker.run] = run] /\ run.on \in DOMAIN approvals \cup {0}
      BY <1>h, <2>1, <2>2, <2>3 DEF NamedRecords
    <2> HIDE DEF run
    <2>5. runs' \in Seq(RunRecords) /\ Len(runs') = Len(runs) /\ Runs' = Runs
          /\ \A q \in Runs : runs'[q].on \in DOMAIN approvals \cup {0}
      BY <2>2, <2>3, <2>4, RunChanged
    <2> QED BY <1>h, <2>1, <2>5, IdleIs DEF Typed, NamedRecords, NamedQueue, NamedItem, NamedWorker, NamedAnswering
  <1>22. ASSUME NEW f \in FlowIds, StartDue(f) PROVE AllTyped'
    <2>1. Start(f, 0, 0) /\ UNCHANGED approvals
      BY <1>22 DEF StartDue
    <2>2. /\ runs' \in Seq(RunRecords) /\ did' \in Seq(Seq(Nat)) /\ Len(did') = Len(runs')
          /\ Grows /\ NamedRecords' /\ queue' \in Seq(Items) /\ NamedQueue'
      BY <1>2, <2>1
    <2>3. scheduled' \in [FlowIds -> Nat \cup {Never}]
      <3>1. now \in Nat /\ scheduled' = [scheduled EXCEPT ![f] = now]
        BY <1>h, <1>22 DEF StartDue, Typed
      <3> QED BY <1>h, <3>1 DEF Typed
    <2> QED BY <1>h, <1>22, <2>2, <2>3 DEF StartDue, bounds, Typed, NamedWorker, NamedAnswering, Grows
  <1>23. ASSUME NEW r \in Runs, Wake(r) PROVE AllTyped'
    <2> DEFINE run == [runs[r] EXCEPT !.status = "running", !.wake = Never, !.step = StepAfter(r)]
               item == Run(r, 0)
    <2>1. /\ runs' = [runs EXCEPT ![r].status = "running", ![r].wake = Never, ![r].step = StepAfter(r)]
          /\ queue' = Append(queue, item)
          /\ UNCHANGED <<approvals, did, worker, scheduled, answering, now, acts, crashes>>
      BY <1>23 DEF Wake, Enqueued, bounds
    <2>2. runs[r] \in RunRecords /\ r \in Nat
      BY <1>h, Recorded DEF Typed
    <2>3. run \in RunRecords /\ run.on = runs[r].on
      <3>1. StepAfter(r) \in Nat \ {0}
        BY <2>2 DEF StepAfter, RunRecords
      <3> QED BY <2>2, <3>1 DEF RunRecords
    <2>4. runs' = [runs EXCEPT ![r] = run] /\ run.on \in DOMAIN approvals \cup {0}
      BY <1>h, <2>1, <2>2, <2>3 DEF NamedRecords
    <2>5. item \in Items /\ item.kind = "run" /\ item.run = r
      BY <2>2, ItemsMade DEF Run
    <2> HIDE DEF run, item
    <2>6. runs' \in Seq(RunRecords) /\ Len(runs') = Len(runs) /\ Runs' = Runs
          /\ \A q \in Runs : runs'[q].on \in DOMAIN approvals \cup {0}
      BY <2>2, <2>3, <2>4, RunChanged
    <2>7. Grows
      BY <2>1, <2>6 DEF Grows
    <2>8. queue' \in Seq(Items) /\ NamedQueue'
      BY <2>1, <2>5, <2>6, <2>7, NamedAppend
    <2> QED BY <1>h, <2>1, <2>6, <2>8 DEF Typed, NamedRecords, NamedWorker, NamedAnswering
  <1>24. CASE Tick
    BY <1>h, <1>24 DEF Tick, records, memory, Typed, NamedRecords, NamedQueue, NamedItem, NamedWorker, NamedAnswering
  <1>25. CASE Crash
    <2>1. /\ queue' = <<>> /\ worker' = Idle /\ scheduled' = [f \in FlowIds |-> Never]
          /\ answering' = [p \in People |-> [step |-> "rest"]] /\ crashes' = crashes + 1
          /\ UNCHANGED <<runs, approvals, did, now, acts>>
      BY <1>25 DEF Crash, records
    <2>2. answering' \in [People -> Requests] /\ \A p \in People : answering'[p].step = "rest"
      BY <2>1 DEF Requests
    <2>3. queue' \in Seq(Items) /\ DOMAIN queue' = {}
      BY <2>1
    <2>4. scheduled' \in [FlowIds -> Nat \cup {Never}]
      BY <2>1
    <2> QED BY <1>h, <2>1, <2>2, <2>3, <2>4, IdleIs DEF Typed, NamedRecords, NamedQueue, NamedItem, NamedWorker, NamedAnswering
  <1>26. CASE UNCHANGED vars
    BY <1>h, <1>26 DEF vars, records, memory, bounds, Typed, NamedRecords, NamedQueue, NamedItem, NamedWorker, NamedAnswering
  <1> QED BY <1>1, <1>3, <1>4, <1>5, <1>6, <1>7, <1>8, <1>9, <1>10, <1>11, <1>12, <1>13, <1>14, <1>15, <1>16,
             <1>18, <1>19, <1>20, <1>21, <1>22, <1>23, <1>24, <1>25, <1>26 DEF Next, Work

(* In every behaviour each variable has its type, and what a run, an       *)
(* approval, a queued item, the worker or a request names is there.        *)
THEOREM TypeCorrect == Spec => []TypeOK
  <1>1. Init => TypeOK
    BY InitTyped
  <1>2. TypeOK /\ [Next]_vars => TypeOK'
    BY TypeStep
  <1> QED BY <1>1, <1>2, PTL DEF Spec

----------------------------------------------------------------------------
(* A run's steps are done in their order, each once.  Why: a run is in one *)
(* place.  It is on the queue once, or at the worker, or neither; only a   *)
(* run that is on the queue is taken up, only one that waits is put there  *)
(* again, and where it is taken up is past what it has done.               *)

On(q, r) == \E i \in DOMAIN q : q[i].kind = "run" /\ q[i].run = r
Once(q) == \A i \in DOMAIN q : \A j \in DOMAIN q :
              i # j /\ q[i].kind = "run" /\ q[j].kind = "run" => q[i].run # q[j].run

LEMMA OnAppend ==
    ASSUME NEW q \in Seq(Items), NEW item \in Items
    PROVE  /\ \A r : On(Append(q, item), r) <=> On(q, r) \/ (item.kind = "run" /\ item.run = r)
           /\ Once(q) /\ (item.kind = "run" => ~On(q, item.run)) => Once(Append(q, item))
  <1>1. /\ DOMAIN Append(q, item) = 1..(Len(q) + 1) /\ DOMAIN q = 1..Len(q) /\ Len(q) \in Nat
        /\ \A i \in DOMAIN q : i \in DOMAIN Append(q, item) /\ Append(q, item)[i] = q[i]
        /\ Append(q, item)[Len(q) + 1] = item
    BY QueueGrows
  <1>2. \A i \in DOMAIN Append(q, item) : i \in DOMAIN q \/ i = Len(q) + 1
    BY <1>1
  <1> DEFINE longer == Append(q, item)
  <1> HIDE DEF longer
  <1>3. /\ \A i \in DOMAIN q : i \in DOMAIN longer /\ longer[i] = q[i]
        /\ Len(q) + 1 \in DOMAIN longer /\ longer[Len(q) + 1] = item
        /\ \A i \in DOMAIN longer : i \in DOMAIN q \/ i = Len(q) + 1
    BY <1>1, <1>2 DEF longer
  <1>4. \A r : On(longer, r) <=> On(q, r) \/ (item.kind = "run" /\ item.run = r)
    BY <1>3 DEF On
  <1>5. Once(q) /\ (item.kind = "run" => ~On(q, item.run)) => Once(longer)
    BY <1>3 DEF On, Once
  <1> QED BY <1>4, <1>5 DEF longer

LEMMA OnTail ==
    ASSUME NEW q \in Seq(Items), q # <<>>
    PROVE  /\ \A r : On(Tail(q), r) => On(q, r)
           /\ Once(q) => Once(Tail(q))
           /\ Head(q).kind = "run" => On(q, Head(q).run)
           /\ Once(q) /\ Head(q).kind = "run" => ~On(Tail(q), Head(q).run)
           /\ \A r : On(q, r) => On(Tail(q), r) \/ (Head(q).kind = "run" /\ Head(q).run = r)
  <1>1. /\ Head(q) = q[1] /\ 1 \in DOMAIN q
        /\ \A i \in DOMAIN Tail(q) : i + 1 \in DOMAIN q /\ Tail(q)[i] = q[i + 1]
        /\ \A i \in DOMAIN q : i = 1 \/ (i - 1 \in DOMAIN Tail(q) /\ Tail(q)[i - 1] = q[i])
        /\ DOMAIN Tail(q) = 1..(Len(q) - 1)
    BY QueueShrinks
  <1>2. \A i \in DOMAIN Tail(q) : \A j \in DOMAIN Tail(q) : i # j => i + 1 # j + 1 /\ i + 1 # 1
    BY <1>1
  <1>5. \A i \in DOMAIN Tail(q) : i + 1 # 1
    BY <1>1
  <1> DEFINE rest == Tail(q)
  <1>3. /\ \A i \in DOMAIN rest : i + 1 \in DOMAIN q /\ rest[i] = q[i + 1] /\ i + 1 # 1
        /\ \A i \in DOMAIN rest : \A j \in DOMAIN rest : i # j => i + 1 # j + 1
        /\ \A i \in DOMAIN q : i = 1 \/ (i - 1 \in DOMAIN rest /\ rest[i - 1] = q[i])
    BY <1>1, <1>2, <1>5
  <1> HIDE DEF rest
  <1>4. /\ \A r : On(rest, r) => On(q, r)
        /\ Head(q).kind = "run" => On(q, Head(q).run)
        /\ \A r : On(q, r) => On(rest, r) \/ (Head(q).kind = "run" /\ Head(q).run = r)
    BY <1>1, <1>3 DEF On
  <1>6. /\ Once(q) => Once(rest)
        /\ Once(q) /\ Head(q).kind = "run" => ~On(rest, Head(q).run)
    BY <1>1, <1>3 DEF On, Once
  <1> QED BY <1>4, <1>6 DEF rest

Before(s, k) == \A j \in DOMAIN s : s[j] < k
Ascending(s) == \A j, k \in DOMAIN s : j < k => s[j] < s[k]

LEMMA AscendingAppend ==
    ASSUME NEW s \in Seq(Nat), NEW k \in Nat, Ascending(s), Before(s, k)
    PROVE  Ascending(Append(s, k)) /\ Before(Append(s, k), k + 1)
  <1> DEFINE t == Append(s, k)
  <1>1. /\ DOMAIN t = 1..(Len(s) + 1) /\ DOMAIN s = 1..Len(s) /\ Len(s) \in Nat
        /\ \A i \in DOMAIN s : t[i] = s[i] /\ s[i] \in Nat
        /\ t[Len(s) + 1] = k
    OBVIOUS
  <1> HIDE DEF t
  <1>2. \A i \in DOMAIN t : i \in DOMAIN s \/ i = Len(s) + 1
    BY <1>1
  <1>3. Before(t, k + 1)
    BY <1>1, <1>2 DEF Before
  <1>4. ASSUME NEW i \in DOMAIN t, NEW j \in DOMAIN t, i < j PROVE t[i] < t[j]
    <2>1. i \in DOMAIN s
      BY <1>1, <1>4
    <2>2. CASE j \in DOMAIN s
      BY <1>1, <1>4, <2>1, <2>2 DEF Ascending
    <2>3. CASE j = Len(s) + 1
      BY <1>1, <2>1, <2>3 DEF Before
    <2> QED BY <1>2, <2>2, <2>3
  <1> QED BY <1>3, <1>4 DEF Ascending, t

LEMMA BeforeMore ==
    ASSUME NEW s \in Seq(Nat), NEW k \in Nat, Before(s, k)
    PROVE  Before(s, k + 1)
  <1>1. \A j \in DOMAIN s : s[j] \in Nat
    OBVIOUS
  <1> QED BY <1>1 DEF Before

Place(r) ==
    /\ Ascending(did[r])
    /\ runs[r].status = "waiting" => Before(did[r], runs[r].step + 1)
    /\ On(queue, r) => ~AtWorker(r) /\ runs[r].status = "running" /\ Before(did[r], runs[r].step)
    /\ AtWorker(r) => /\ runs[r].status = "running"
                      /\ worker.at = "run" => Before(did[r], worker.step)
                      /\ worker.at = "hold" => Before(did[r], worker.step + 1)

Places == Once(queue) /\ \A r \in Runs : Place(r)

LEMMA Undisturbed ==
    ASSUME NEW r, Place(r), runs'[r] = runs[r], did'[r] = did[r],
           On(queue', r) => On(queue, r), AtWorker(r)' => worker' = worker
    PROVE  Place(r)'
  <1>1. AtWorker(r)' => AtWorker(r)
    BY DEF AtWorker
  <1> QED BY <1>1 DEF Place

(* What is named is a run that there is.                                   *)
LEMMA OnRuns ==
    ASSUME TypeOK, NEW r
    PROVE  (On(queue, r) => r \in Runs) /\ (AtWorker(r) => r \in Runs)
  BY DEF TypeOK, Named, On, AtWorker

LEMMA StartPlaces ==
    ASSUME TypeOK, Places, NEW f \in FlowIds, NEW depth \in Nat, NEW chain \in Nat, Start(f, depth, chain),
           \A r \in Runs' : AtWorker(r)' => worker' = worker
    PROVE  Places'
  <1> PICK n : n = Len(runs) + 1
    OBVIOUS
  <1> DEFINE item == Run(n, depth)
  <1>1. /\ \A r \in Runs : runs'[r] = runs[r] /\ did'[r] = did[r]
        /\ Runs' = Runs \cup {n} /\ n \notin Runs
        /\ runs'[n].status = "running" /\ runs'[n].step = 1 /\ did'[n] = <<>>
        /\ queue' = Append(queue, item) /\ item \in Items /\ item.kind = "run" /\ item.run = n
    BY Started, ItemsMade DEF Run
  <1> HIDE DEF item
  <1>2. /\ \A r : On(queue', r) <=> On(queue, r) \/ r = n
        /\ Once(queue')
    <2>1. ~On(queue, n)
      BY <1>1, OnRuns
    <2>2. queue \in Seq(Items)
      BY DEF TypeOK
    <2> QED BY <1>1, <2>1, <2>2, OnAppend DEF Places
  <1>3. ASSUME NEW r \in Runs PROVE Place(r)'
    <2>1. r \in Runs' /\ r # n
      BY <1>1
    <2>2. Place(r) /\ runs'[r] = runs[r] /\ did'[r] = did[r] /\ (On(queue', r) => On(queue, r))
      BY <1>1, <1>2, <2>1 DEF Places
    <2> QED BY <2>1, <2>2, Undisturbed
  <1>4. Place(n)'
    <2>1. ~AtWorker(n)'
      <3>1. ~AtWorker(n)
        BY <1>1, OnRuns
      <3>2. AtWorker(n)' => worker' = worker
        BY <1>1
      <3> QED BY <3>1, <3>2 DEF AtWorker
    <2>2. Before(did'[n], 1) /\ Ascending(did'[n])
      BY <1>1 DEF Before, Ascending
    <2> QED BY <1>1, <2>1, <2>2 DEF Place
  <1> QED BY <1>1, <1>2, <1>3, <1>4 DEF Places

(* Where the worker puts its run down.                                     *)
LEMMA PutDownPlaces ==
    ASSUME TypeOK, Places, NEW w \in Runs, AtWorker(w), Runs' = Runs, UNCHANGED queue, worker' = Idle,
           \A r \in Runs \ {w} : runs'[r] = runs[r] /\ did'[r] = did[r],
           Ascending(did'[w]), runs'[w].status # "running",
           runs'[w].status = "waiting" => Before(did'[w], runs'[w].step + 1)
    PROVE  Places'
  <1>1. \A r : ~AtWorker(r)'
    BY DEF AtWorker, Idle
  <1>2. ~On(queue, w)
    BY DEF Places, Place
  <1>3. Place(w)'
    BY <1>1, <1>2 DEF Place
  <1>4. \A r \in Runs \ {w} : Place(r)'
    BY <1>1, Undisturbed DEF Places
  <1> QED BY <1>3, <1>4 DEF Places

LEMMA PlacesStep == TypeOK /\ Places /\ [Next]_vars => Places'
  <1> SUFFICES ASSUME TypeOK, Places, [Next]_vars PROVE Places'
    OBVIOUS
  <1>q. queue \in Seq(Items) /\ runs \in Seq(RunRecords)
    BY DEF TypeOK
  <1>p. Once(queue) /\ \A r \in Runs : Place(r)
    BY DEF Places
  <1>d. \A r \in Runs : did[r] \in Seq(Nat)
    BY DEF TypeOK, Runs
  <1>1. ASSUME NEW item \in Items, item.kind # "run", queue' = Append(queue, item), UNCHANGED <<runs, did, worker>>
        PROVE  Places'
    <2>1. (\A r : On(queue', r) <=> On(queue, r)) /\ Once(queue')
      BY <1>q, <1>p, <1>1, OnAppend
    <2>2. Runs' = Runs
      BY <1>1 DEF Runs
    <2>3. \A r \in Runs : Place(r)'
      BY <1>p, <1>1, <2>1, Undisturbed
    <2> QED BY <2>1, <2>2, <2>3 DEF Places
  <1>2. ASSUME UNCHANGED <<runs, did, worker, queue>> PROVE Places'
    <2>1. Runs' = Runs
      BY <1>2 DEF Runs
    <2>2. \A r \in Runs : Place(r)'
      BY <1>p, <1>2, Undisturbed
    <2> QED BY <1>p, <1>2, <2>1, <2>2 DEF Places
  <1>3. ASSUME queue # <<>>, queue' = Tail(queue), \A r : ~AtWorker(r)', UNCHANGED <<runs, did>> PROVE Places'
    <2>1. (\A r : On(queue', r) => On(queue, r)) /\ Once(queue')
      BY <1>q, <1>p, <1>3, OnTail
    <2>2. Runs' = Runs
      BY <1>3 DEF Runs
    <2>3. \A r \in Runs : Place(r)'
      BY <1>p, <1>3, <2>1, Undisturbed
    <2> QED BY <2>1, <2>2, <2>3 DEF Places
  <1>4. CASE Write
    <2>1. Change(0, NoFlow, 0) \in Items /\ Change(0, NoFlow, 0).kind # "run"
      BY ItemsMade DEF Change
    <2> QED BY <1>1, <1>4, <2>1 DEF Write, Enqueued, records
  <1>5. ASSUME NEW f \in FlowIds, RunNow(f) PROVE Places'
    BY <1>5, StartPlaces DEF RunNow
  <1>6. ASSUME NEW p \in People, NEW a \in DOMAIN approvals, NEW status \in Answers, LookAnswer(p, a, status) PROVE Places'
    BY <1>2, <1>6 DEF LookAnswer, records, memory
  <1>7. ASSUME NEW p \in People, SaveAnswer(p) PROVE Places'
    BY <1>2, <1>7 DEF SaveAnswer, memory
  <1>8. ASSUME NEW p \in People, TellAnswer(p) PROVE Places'
    <2> DEFINE item == Answer(answering[p].id, approvals[answering[p].id].status, answering[p].before)
    <2>1. /\ answering[p] \in Requests /\ answering[p].step = "tell" /\ answering[p].id \in DOMAIN approvals
          /\ approvals \in Seq(Approvals)
      BY <1>8 DEF TypeOK, Named, TellAnswer
    <2>2. answering[p].id \in Nat /\ answering[p].before \in Statuses /\ approvals[answering[p].id].status \in Statuses
      BY <2>1, RequestKinds, Approved
    <2>3. item \in Items /\ item.kind # "run"
      BY <2>2, ItemsMade DEF Answer
    <2> HIDE DEF item
    <2>4. queue' = Append(queue, item) /\ UNCHANGED <<runs, did, worker>>
      BY <1>8 DEF TellAnswer, Enqueued, records, item
    <2> QED BY <1>1, <2>3, <2>4
  <1>9. CASE TakeChange
    <2>1. \A r : ~AtWorker(r)'
      BY <1>9 DEF TakeChange, AtWorker
    <2> QED BY <1>3, <1>9, <2>1 DEF TakeChange, Taken, records
  <1>10. ASSUME NEW f \in FlowIds, Match(f) PROVE Places'
    <2>1. /\ worker \in [at : {"match"}, change : ChangeItems, left : SUBSET FlowIds]
          /\ worker' = [worker EXCEPT !.left = @ \ {f}]
      BY <1>10, WorkerKinds DEF Match, TypeOK
    <2>2. worker'.at = "match" /\ worker.at = "match"
      BY <2>1
    <2>3. \A r : ~AtWorker(r)'
      BY <2>2 DEF AtWorker
    <2>4. CASE Starts(f, worker.change)
      <3>1. worker.change.depth + 1 \in Nat /\ worker.change.chain + 1 \in Nat
        BY <2>1 DEF ChangeItems
      <3>2. Start(f, worker.change.depth + 1, worker.change.chain + 1)
        BY <1>10, <2>4 DEF Match
      <3> QED BY <2>3, <3>1, <3>2, StartPlaces
    <2>5. CASE ~Starts(f, worker.change)
      <3>1. UNCHANGED <<runs, did, queue>> /\ Runs' = Runs
        BY <1>10, <2>5 DEF Match, Runs
      <3>2. \A r \in Runs : Place(r)'
        BY <1>p, <2>3, <3>1, Undisturbed
      <3> QED BY <1>p, <3>1, <3>2 DEF Places
    <2> QED BY <2>4, <2>5
  <1>11. CASE Matched
    <2>1. (\A r : ~AtWorker(r)') /\ UNCHANGED <<runs, did, queue>> /\ Runs' = Runs
      BY <1>11 DEF Matched, AtWorker, Idle, records, Runs
    <2>2. \A r \in Runs : Place(r)'
      BY <1>p, <2>1, Undisturbed
    <2> QED BY <1>p, <2>1, <2>2 DEF Places
  <1>12. CASE TakeAnswer
    <2> DEFINE told == Head(queue)
               r0   == approvals[told.id].run
    <2>1. /\ queue # <<>> /\ told.kind = "answer" /\ worker = Idle /\ UNCHANGED <<did, worker>>
      BY <1>12 DEF TakeAnswer, Taken
    <2>2. \A r : ~AtWorker(r) /\ ~AtWorker(r)'
      BY <2>1 DEF AtWorker, Idle
    <2>3. told \in AnswerItems /\ told.id \in DOMAIN approvals /\ r0 \in Runs /\ r0 \in Nat /\ runs[r0].step \in Nat
      <3>1. told \in AnswerItems /\ told = queue[1] /\ 1 \in DOMAIN queue
        BY <1>q, <2>1, QueueShrinks, ItemKinds
      <3>2. told.id \in DOMAIN approvals
        BY <2>1, <3>1 DEF TypeOK, Named
      <3>3. r0 \in Runs
        BY <3>2 DEF TypeOK, Named
      <3>4. r0 \in Nat
        BY <3>3, <1>q DEF Runs
      <3>5. runs[r0].step \in Nat
        BY <3>3, <1>q, Recorded
      <3> QED BY <3>1, <3>2, <3>3, <3>4, <3>5
    <2>4. CASE told.status # "requested" /\ told.before # told.status /\ WaitsOn(r0, told.id)
      <3> PICK w \in Nat : w = r0
        BY <2>3
      <3>1. /\ runs' = [runs EXCEPT ![w].status = "running", ![w].on = 0, ![w].step = StepAfter(w),
                                   ![w].answer = [id |-> told.id, status |-> told.status]]
            /\ queue' = Append(Tail(queue), Run(w, 0))
        BY <1>12, <2>4 DEF TakeAnswer
      <3>2. w \in Runs /\ runs[w].status = "waiting" /\ runs[w] \in RunRecords
        BY <2>3, <2>4, <1>q, Recorded DEF WaitsOn
      <3>3. /\ Runs' = Runs /\ \A r \in Runs \ {w} : runs'[r] = runs[r]
            /\ runs'[w].status = "running" /\ runs'[w].step = runs[w].step + 1
        BY <1>q, <3>1, <3>2 DEF Runs, StepAfter, RunRecords
      <3>4. Run(w, 0) \in Items /\ Run(w, 0).kind = "run" /\ Run(w, 0).run = w
        BY ItemsMade DEF Run
      <3>5. ~On(queue, w) /\ Before(did[w], runs[w].step + 1) /\ Ascending(did[w])
        BY <1>p, <3>2 DEF Place
      <3>6. Tail(queue) \in Seq(Items) /\ Once(Tail(queue)) /\ \A r : On(Tail(queue), r) => On(queue, r)
        BY <1>p, <1>q, <2>1, OnTail, QueueShrinks
      <3>7. Once(queue') /\ \A r : On(queue', r) <=> On(Tail(queue), r) \/ r = w
        BY <3>1, <3>4, <3>5, <3>6, OnAppend
      <3>8. Place(w)'
        BY <2>1, <2>2, <3>3, <3>5 DEF Place
      <3>9. ASSUME NEW r \in Runs \ {w} PROVE Place(r)'
        BY <1>p, <2>1, <3>3, <3>6, <3>7, Undisturbed
      <3> QED BY <3>3, <3>7, <3>8, <3>9 DEF Places
    <2>5. CASE ~(told.status # "requested" /\ told.before # told.status /\ WaitsOn(r0, told.id))
      <3>1. UNCHANGED runs /\ queue' = Tail(queue)
        BY <1>12, <2>5 DEF TakeAnswer
      <3> QED BY <1>3, <2>1, <2>2, <3>1
    <2> QED BY <2>4, <2>5
  <1>13. CASE TakeRun
    <2>1. /\ queue # <<>> /\ Head(queue).kind = "run" /\ queue' = Tail(queue) /\ worker = Idle
          /\ worker' = IF runs[Head(queue).run].status = "running"
                       THEN [at |-> "run", run |-> Head(queue).run, step |-> runs[Head(queue).run].step, depth |-> Head(queue).depth]
                       ELSE Idle
          /\ UNCHANGED <<runs, did>> /\ Runs' = Runs
      BY <1>13 DEF TakeRun, Taken, records, Runs
    <2> PICK w : w = Head(queue).run
      OBVIOUS
    <2>2. /\ Once(queue') /\ ~On(queue', w) /\ On(queue, w)
          /\ \A r : On(queue', r) => On(queue, r)
      BY <1>p, <1>q, <2>1, OnTail
    <2>3. w \in Runs /\ runs[w].status = "running" /\ Before(did[w], runs[w].step) /\ Ascending(did[w])
      BY <1>p, <2>2, OnRuns DEF Place
    <2>4. worker'.at = "run" /\ worker'.run = w /\ worker'.step = runs[w].step
      BY <2>1, <2>3
    <2>5. Place(w)'
      BY <2>1, <2>2, <2>3, <2>4 DEF Place
    <2>6. ASSUME NEW r \in Runs \ {w} PROVE Place(r)'
      <3>1. ~AtWorker(r)'
        BY <2>4 DEF AtWorker
      <3> QED BY <1>p, <2>1, <2>2, <3>1, Undisturbed
    <2> QED BY <2>1, <2>2, <2>5, <2>6 DEF Places
  <1>14. ASSUME NEW w \in Runs, worker.run = w, AtWorker(w), AtWorker(w)', worker'.run = w, UNCHANGED runs,
                \A r : On(queue', r) <=> On(queue, r), Once(queue'),
                \A r \in Runs \ {w} : did'[r] = did[r],
                Ascending(did'[w]),
                worker'.at = "run" => Before(did'[w], worker'.step),
                worker'.at = "hold" => Before(did'[w], worker'.step + 1)
         PROVE  Places'
    <2>1. Place(w)'
      BY <1>p, <1>14 DEF Place
    <2>2. ASSUME NEW r \in Runs \ {w} PROVE Place(r)'
      <3>1. ~AtWorker(r)'
        BY <1>14 DEF AtWorker
      <3> QED BY <1>p, <1>14, <3>1, Undisturbed
    <2>3. Runs' = Runs
      BY <1>14 DEF Runs
    <2> QED BY <1>14, <2>1, <2>2, <2>3 DEF Places
  <1>15. ASSUME Running
         PROVE  /\ worker.run \in Runs /\ AtWorker(worker.run) /\ worker.step \in Nat
                /\ Before(did[worker.run], worker.step) /\ Ascending(did[worker.run]) /\ did[worker.run] \in Seq(Nat)
    <2>1. worker.run \in Runs /\ worker.step \in Nat /\ AtWorker(worker.run) /\ worker.at = "run"
      BY <1>15, WorkerAtRun DEF AtWorker, Running
    <2> QED BY <1>p, <1>d, <2>1 DEF Place
  (* The worker does its step: the step is after all it has done.          *)
  <1>16. ASSUME Running, Done(worker.run, worker.step), NEW w, w = worker.run
         PROVE  /\ w \in Runs /\ AtWorker(w)
                /\ Ascending(did'[w]) /\ Before(did'[w], worker.step + 1)
                /\ \A r \in Runs \ {w} : did'[r] = did[r]
    <2>1. did'[w] = Append(did[w], worker.step) /\ \A r \in Runs \ {w} : did'[r] = did[r]
      BY <1>15, <1>16, StepDone
    <2>2. Ascending(Append(did[w], worker.step)) /\ Before(Append(did[w], worker.step), worker.step + 1)
      BY <1>15, <1>16, AscendingAppend
    <2> QED BY <1>15, <1>16, <2>1, <2>2
  <1>17. CASE Skip
    <2>1. /\ Running /\ worker' = [worker EXCEPT !.step = @ + 1] /\ UNCHANGED <<runs, did, queue>>
      BY <1>17 DEF Skip, records
    <2> PICK w : w = worker.run
      OBVIOUS
    <2>2. worker'.at = "run" /\ worker'.run = w /\ worker'.step = worker.step + 1
      BY <2>1, GoneOn
    <2>3. w \in Runs /\ AtWorker(w) /\ AtWorker(w)' /\ Ascending(did'[w]) /\ Before(did'[w], worker.step + 1)
      BY <1>15, <2>1, <2>2, BeforeMore DEF AtWorker
    <2> QED BY <1>p, <1>14, <2>1, <2>2, <2>3
  <1>18. CASE DoWrite \/ DoQuiet
    <2>1. /\ Running /\ Done(worker.run, worker.step) /\ worker' = [worker EXCEPT !.step = @ + 1] /\ UNCHANGED runs
          /\ queue' = queue \/ queue' = Append(queue, Change(worker.depth, Here.flow, Here.chain))
      BY <1>18 DEF DoWrite, DoQuiet, Doing, Enqueued
    <2> PICK w : w = worker.run
      OBVIOUS
    <2>2. worker'.at = "run" /\ worker'.run = w /\ worker'.step = worker.step + 1
      BY <2>1, GoneOn
    <2>3. /\ w \in Runs /\ AtWorker(w) /\ AtWorker(w)' /\ Ascending(did'[w]) /\ Before(did'[w], worker.step + 1)
          /\ \A r \in Runs \ {w} : did'[r] = did[r]
      BY <1>16, <2>1, <2>2 DEF AtWorker
    <2>4. (\A r : On(queue', r) <=> On(queue, r)) /\ Once(queue')
      <3> DEFINE item == Change(worker.depth, Here.flow, Here.chain)
      <3>1. item \in Items /\ item.kind # "run"
        BY <1>q, <2>1, WorkerAtRun, Recorded, ItemsMade DEF Here, Change
      <3> HIDE DEF item
      <3>2. queue' = queue \/ queue' = Append(queue, item)
        BY <2>1 DEF item
      <3>3. (\A r : On(Append(queue, item), r) <=> On(queue, r)) /\ Once(Append(queue, item))
        BY <1>p, <1>q, <3>1, OnAppend
      <3>4. CASE queue' = queue
        BY <1>p, <3>4
      <3>5. CASE queue' = Append(queue, item)
        BY <3>3, <3>5
      <3> QED BY <3>2, <3>4, <3>5
    <2> QED BY <1>14, <2>1, <2>2, <2>3, <2>4
  <1>19. CASE DoAsk
    <2>1. /\ Running /\ Done(worker.run, worker.step) /\ UNCHANGED <<runs, queue>>
          /\ worker' = [at |-> "hold", run |-> worker.run, step |-> worker.step, on |-> Len(approvals) + 1]
      BY <1>19 DEF DoAsk, Doing
    <2> PICK w : w = worker.run
      OBVIOUS
    <2>2. worker'.at = "hold" /\ worker'.run = w /\ worker'.step = worker.step
      BY <2>1
    <2>3. /\ w \in Runs /\ AtWorker(w) /\ AtWorker(w)' /\ Ascending(did'[w]) /\ Before(did'[w], worker.step + 1)
          /\ \A r \in Runs \ {w} : did'[r] = did[r]
      BY <1>16, <2>1, <2>2 DEF AtWorker
    <2> QED BY <1>p, <1>14, <2>1, <2>2, <2>3
  <1>20. CASE Hold
    <2> PICK w : w = worker.run
      OBVIOUS
    <2>1. /\ worker.at = "hold" /\ worker' = Idle /\ UNCHANGED <<did, queue>>
          /\ runs' = [runs EXCEPT ![w].status = "waiting", ![w].step = worker.step, ![w].on = worker.on,
                                  ![w].answer = [id |-> worker.on, status |-> "requested"]]
      BY <1>20 DEF Hold
    <2>2. w \in Runs /\ AtWorker(w)
      BY <2>1 DEF TypeOK, Named, AtWorker
    <2>3. Ascending(did[w]) /\ Before(did[w], worker.step + 1)
      BY <1>p, <2>1, <2>2 DEF Place
    <2>4. runs[w] \in RunRecords
      BY <1>q, <2>2, Recorded
    <2>5. /\ runs'[w].status = "waiting" /\ runs'[w].step = worker.step
          /\ Runs' = Runs /\ \A r \in Runs \ {w} : runs'[r] = runs[r]
      BY <1>q, <2>1, <2>2, <2>4 DEF Runs, RunRecords
    <2> QED BY <2>1, <2>2, <2>3, <2>5, PutDownPlaces
  <1>21. ASSUME Running, NEW w, w = worker.run, NEW status \in {"waiting", "done", "stopped"}, NEW wake \in Nat \cup {Never},
                PutDown(status, Here.on, wake), UNCHANGED queue,
                Done(worker.run, worker.step) \/ UNCHANGED did
         PROVE  Places'
    <2>1. Here.on \in Nat /\ Here.on \in DOMAIN approvals \cup {0}
      BY <1>q, <1>21, WorkerAtRun, Recorded DEF Here, TypeOK, Named
    <2>2. /\ Runs' = Runs /\ \A r \in Runs \ {w} : runs'[r] = runs[r]
          /\ runs'[w].status = status /\ runs'[w].step = worker.step /\ worker' = Idle
      BY <1>21, <2>1, PutDownTyped
    <2>3. /\ w \in Runs /\ AtWorker(w) /\ Ascending(did'[w]) /\ Before(did'[w], worker.step + 1)
          /\ \A r \in Runs \ {w} : did'[r] = did[r]
      <3>1. CASE Done(worker.run, worker.step)
        BY <1>16, <1>21, <3>1
      <3>2. CASE UNCHANGED did
        BY <1>15, <1>21, <3>2, BeforeMore
      <3> QED BY <1>21, <3>1, <3>2
    <2> QED BY <1>21, <2>2, <2>3, PutDownPlaces
  <1>22. CASE DoWait
    <2>1. Running /\ Done(worker.run, worker.step) /\ PutDown("waiting", Here.on, now + 1) /\ UNCHANGED queue
      BY <1>22 DEF DoWait, Doing
    <2>2. now + 1 \in Nat
      BY DEF TypeOK
    <2> QED BY <1>21, <2>1, <2>2
  <1>23. CASE DoStop
    <2>1. Running /\ Done(worker.run, worker.step) /\ PutDown("stopped", Here.on, Here.wake) /\ UNCHANGED queue
      BY <1>23 DEF DoStop, Doing
    <2>2. Here.wake \in Nat \cup {Never}
      BY <1>q, <2>1, WorkerAtRun, Recorded DEF Here
    <2> QED BY <1>21, <2>1, <2>2
  <1>24. CASE End
    <2>1. Running /\ UNCHANGED did /\ PutDown("done", Here.on, Here.wake) /\ UNCHANGED queue
      BY <1>24 DEF End
    <2>2. Here.wake \in Nat \cup {Never}
      BY <1>q, <2>1, WorkerAtRun, Recorded DEF Here
    <2> QED BY <1>21, <2>1, <2>2
  <1>25. CASE Fail
    <2> PICK w : w = worker.run
      OBVIOUS
    <2>1. /\ Running /\ worker' = Idle /\ UNCHANGED <<did, queue>>
          /\ runs' = [runs EXCEPT ![w].status = "failed"]
      BY <1>25 DEF Fail
    <2>2. w \in Runs /\ AtWorker(w) /\ Ascending(did[w]) /\ runs[w] \in RunRecords
      BY <1>q, <1>15, <2>1, Recorded
    <2>3. /\ runs'[w].status = "failed"
          /\ Runs' = Runs /\ \A r \in Runs \ {w} : runs'[r] = runs[r]
      BY <1>q, <2>1, <2>2 DEF Runs, RunRecords
    <2> QED BY <2>1, <2>2, <2>3, PutDownPlaces
  <1>26. ASSUME NEW f \in FlowIds, StartDue(f) PROVE Places'
    BY <1>26, StartPlaces DEF StartDue
  <1>27. ASSUME NEW w \in Runs, Wake(w) PROVE Places'
    <2>1. /\ runs' = [runs EXCEPT ![w].status = "running", ![w].wake = Never, ![w].step = StepAfter(w)]
          /\ queue' = Append(queue, Run(w, 0)) /\ UNCHANGED <<did, worker>> /\ runs[w].status = "waiting"
      BY <1>27 DEF Wake, Enqueued
    <2>2. runs[w] \in RunRecords /\ w \in Nat
      BY <1>q, Recorded DEF Runs
    <2>3. /\ Runs' = Runs /\ \A r \in Runs \ {w} : runs'[r] = runs[r]
          /\ runs'[w].status = "running" /\ runs'[w].step = runs[w].step + 1
      BY <1>q, <2>1, <2>2 DEF Runs, StepAfter, RunRecords
    <2>4. Run(w, 0) \in Items /\ Run(w, 0).kind = "run" /\ Run(w, 0).run = w
      BY <2>2, ItemsMade DEF Run
    <2>5. ~On(queue, w) /\ ~AtWorker(w) /\ Before(did[w], runs[w].step + 1) /\ Ascending(did[w])
      BY <1>p, <2>1 DEF Place
    <2>6. Once(queue') /\ \A r : On(queue', r) <=> On(queue, r) \/ r = w
      BY <1>p, <1>q, <2>1, <2>4, <2>5, OnAppend
    <2>7. Place(w)'
      <3>1. ~AtWorker(w)'
        BY <2>1, <2>5 DEF AtWorker
      <3> QED BY <2>1, <2>3, <2>5, <3>1 DEF Place
    <2>8. ASSUME NEW r \in Runs \ {w} PROVE Place(r)'
      BY <1>p, <2>1, <2>3, <2>6, Undisturbed
    <2> QED BY <2>3, <2>6, <2>7, <2>8 DEF Places
  <1>28. CASE Tick
    BY <1>2, <1>28 DEF Tick, records, memory
  <1>29. CASE Crash
    <2>1. queue' = <<>> /\ (\A r : ~AtWorker(r)') /\ UNCHANGED <<runs, did>> /\ Runs' = Runs
      BY <1>29 DEF Crash, records, AtWorker, Idle, Runs
    <2>2. Once(queue') /\ \A r : ~On(queue', r)
      BY <2>1 DEF Once, On
    <2>3. \A r \in Runs : Place(r)'
      BY <1>p, <2>1, <2>2, Undisturbed
    <2> QED BY <2>1, <2>2, <2>3 DEF Places
  <1>30. CASE UNCHANGED vars
    BY <1>2, <1>30 DEF vars, records, memory
  <1> QED BY <1>4, <1>5, <1>6, <1>7, <1>8, <1>9, <1>10, <1>11, <1>12, <1>13, <1>17, <1>18, <1>19, <1>20,
             <1>22, <1>23, <1>24, <1>25, <1>26, <1>27, <1>28, <1>29, <1>30 DEF Next, Work

(* Whoever answers, wakes or restarts, a run does its steps in their order *)
(* and none of them twice.                                                 *)
THEOREM StepsInTurn == Spec => []InTurn
  <1>1. Init => Places
    BY DEF Init, Places, Once, Runs
  <1>2. TypeOK /\ Places /\ [Next]_vars => Places'
    BY PlacesStep
  <1>3. Places => InTurn
    BY DEF Places, Place, Ascending, InTurn
  <1> QED BY <1>1, <1>2, <1>3, TypeCorrect, PTL DEF Spec

----------------------------------------------------------------------------
(* Chains stop where no flow asks or waits.  Why: what a change says of    *)
(* how deep it is is never less than how many flows led to it.             *)

NoPauses == \A f \in FlowIds : \A k \in 1..Len(Steps[f]) : Steps[f][k].kind \notin {"ask", "wait"}

(* Chains is how long the chain of each run is.                            *)
Chains == [r \in Runs |-> runs[r].chain]
DeepItem(item, chains) == /\ item.kind = "change" => item.chain <= item.depth
                          /\ item.kind = "run" => chains[item.run] <= item.depth
DeepQueue(q, chains) == \A i \in DOMAIN q : DeepItem(q[i], chains)

Deep ==
    /\ \A r \in Runs : runs[r].chain <= Deepest /\ runs[r].status # "waiting"
    /\ DeepQueue(queue, Chains)
    /\ worker.at = "match" => worker.change.chain <= worker.change.depth
    /\ worker.at = "run" => runs[worker.run].chain <= worker.depth
    /\ worker.at # "hold"

LEMMA DeepAppend ==
    ASSUME NEW q \in Seq(Items), NEW item \in Items, NEW c, DeepQueue(q, c), DeepItem(item, c)
    PROVE  DeepQueue(Append(q, item), c)
  <1>1. /\ \A i \in DOMAIN q : Append(q, item)[i] = q[i]
        /\ Append(q, item)[Len(q) + 1] = item
        /\ \A i \in DOMAIN Append(q, item) : i \in DOMAIN q \/ i = Len(q) + 1
    BY QueueGrows
  <1> QED BY <1>1 DEF DeepQueue

LEMMA DeepTail ==
    ASSUME NEW q \in Seq(Items), q # <<>>, NEW c, DeepQueue(q, c)
    PROVE  DeepQueue(Tail(q), c) /\ DeepItem(Head(q), c)
  <1>1. /\ Head(q) = q[1] /\ 1 \in DOMAIN q
        /\ \A i \in DOMAIN Tail(q) : i + 1 \in DOMAIN q /\ Tail(q)[i] = q[i + 1]
    BY QueueShrinks
  <1> QED BY <1>1 DEF DeepQueue

(* A change of the runs that keeps their chains.                           *)
LEMMA ChainsSame ==
    ASSUME Runs' = Runs, \A r \in Runs : runs'[r].chain = runs[r].chain
    PROVE  Chains' = Chains
  BY DEF Chains

LEMMA DeepStart ==
    ASSUME TypeOK, Deep, NEW f \in FlowIds, NEW depth \in Nat, NEW chain \in Nat, Start(f, depth, chain),
           chain <= depth, chain <= Deepest, worker'.at \notin {"run", "hold"} \/ worker' = worker,
           worker'.at = "match" => worker'.change.chain <= worker'.change.depth
    PROVE  Deep'
  <1> PICK n : n = Len(runs) + 1
    OBVIOUS
  <1> DEFINE item == Run(n, depth)
  <1>1. /\ \A r \in Runs : runs'[r] = runs[r]
        /\ Runs' = Runs \cup {n} /\ n \notin Runs
        /\ runs'[n].status = "running" /\ runs'[n].chain = chain
        /\ queue' = Append(queue, item) /\ item \in Items /\ item.kind = "run" /\ item.run = n /\ item.depth = depth
    BY Started, ItemsMade DEF Run
  <1> HIDE DEF item
  <1>2. /\ Chains'[n] = chain /\ \A r \in Runs : Chains'[r] = Chains[r]
    BY <1>1 DEF Chains
  <1>3. DeepQueue(queue, Chains')
    <2>1. \A i \in DOMAIN queue : queue[i].kind = "run" => queue[i].run \in Runs
      BY DEF TypeOK, Named
    <2> QED BY <1>2, <2>1 DEF Deep, DeepQueue, DeepItem
  <1>4. DeepItem(item, Chains')
    BY <1>1, <1>2 DEF DeepItem
  <1>5. DeepQueue(queue', Chains')
    <2>1. queue \in Seq(Items)
      BY DEF TypeOK
    <2> QED BY <1>1, <1>3, <1>4, <2>1, DeepAppend
  <1>6. \A r \in Runs' : runs'[r].chain <= Deepest /\ runs'[r].status # "waiting"
    BY <1>1 DEF Deep
  <1>7. worker'.at = "run" => runs'[worker'.run].chain <= worker'.depth
    BY <1>1, WorkerAtRun DEF Deep, Running
  <1>8. worker'.at # "hold"
    BY DEF Deep
  <1> QED BY <1>5, <1>6, <1>7, <1>8 DEF Deep

LEMMA DeepStep == NoPauses /\ TypeOK /\ Deep /\ [Next]_vars => Deep'
  <1> SUFFICES ASSUME NoPauses, TypeOK, Deep, [Next]_vars PROVE Deep'
    OBVIOUS
  <1>q. queue \in Seq(Items) /\ runs \in Seq(RunRecords) /\ worker \in Workers
    BY DEF TypeOK
  <1>n. Deepest \in Nat
    BY ConstantsAssumption
  <1>d. DeepQueue(queue, Chains) /\ \A r \in Runs : runs[r].status # "waiting"
    BY DEF Deep
  (* A change that is told, and one that comes off the queue.              *)
  <1>1. ASSUME UNCHANGED runs, DeepQueue(queue', Chains),
               worker' = worker \/ worker'.at = "idle"
        PROVE  Deep'
    <2>1. Chains' = Chains /\ Runs' = Runs
      BY <1>1 DEF Chains, Runs
    <2> QED BY <1>1, <2>1 DEF Deep
  <1>2. CASE Write
    <2>1. /\ Change(0, NoFlow, 0) \in Items /\ DeepItem(Change(0, NoFlow, 0), Chains)
      BY ItemsMade DEF Change, DeepItem
    <2>2. queue' = Append(queue, Change(0, NoFlow, 0)) /\ UNCHANGED <<runs, worker>>
      BY <1>2 DEF Write, Enqueued, records
    <2>3. DeepQueue(queue', Chains)
      BY <1>q, <1>d, <2>1, <2>2, DeepAppend
    <2> QED BY <1>1, <2>2, <2>3
  <1>3. ASSUME NEW f \in FlowIds, RunNow(f) PROVE Deep'
    BY <1>3, <1>n, DeepStart DEF RunNow, Deep
  <1>4. ASSUME NEW f \in FlowIds, StartDue(f) PROVE Deep'
    BY <1>4, <1>n, DeepStart DEF StartDue, Deep
  <1>5. ASSUME NEW p \in People, TellAnswer(p) PROVE Deep'
    <2> DEFINE item == Answer(answering[p].id, approvals[answering[p].id].status, answering[p].before)
    <2>1. /\ answering[p] \in Requests /\ answering[p].step = "tell" /\ answering[p].id \in DOMAIN approvals
          /\ approvals \in Seq(Approvals)
      BY <1>5 DEF TypeOK, Named, TellAnswer
    <2>2. answering[p].id \in Nat /\ answering[p].before \in Statuses /\ approvals[answering[p].id].status \in Statuses
      BY <2>1, RequestKinds, Approved
    <2>3. item \in Items /\ DeepItem(item, Chains)
      BY <2>2, ItemsMade DEF Answer, DeepItem
    <2> HIDE DEF item
    <2>4. queue' = Append(queue, item) /\ UNCHANGED <<runs, worker>>
      BY <1>5 DEF TellAnswer, Enqueued, records, item
    <2>5. DeepQueue(queue', Chains)
      BY <1>q, <1>d, <2>3, <2>4, DeepAppend
    <2> QED BY <1>1, <2>4, <2>5
  <1>6. CASE TakeChange
    <2>1. /\ queue # <<>> /\ Head(queue).kind = "change" /\ queue' = Tail(queue) /\ UNCHANGED runs
          /\ worker' = [at |-> "match", change |-> Head(queue), left |-> {f \in FlowIds : Trigger[f] = "record"}]
      BY <1>6 DEF TakeChange, Taken, records
    <2>2. DeepQueue(queue', Chains) /\ Head(queue).chain <= Head(queue).depth
      BY <1>q, <1>d, <2>1, DeepTail DEF DeepItem
    <2>3. worker'.at = "match" /\ worker'.change = Head(queue)
      BY <2>1
    <2>4. Chains' = Chains /\ Runs' = Runs
      BY <2>1 DEF Chains, Runs
    <2> QED BY <2>1, <2>2, <2>3, <2>4 DEF Deep
  <1>7. ASSUME NEW f \in FlowIds, Match(f) PROVE Deep'
    <2>1. /\ worker \in [at : {"match"}, change : ChangeItems, left : SUBSET FlowIds]
          /\ worker' = [worker EXCEPT !.left = @ \ {f}]
      BY <1>7, WorkerKinds DEF Match, TypeOK
    <2>2. worker'.at = "match" /\ worker.at = "match" /\ worker'.change = worker.change
      BY <2>1
    <2>3. /\ worker.change.chain <= worker.change.depth
          /\ worker.change.chain \in Nat /\ worker.change.depth \in Nat
      BY <2>1, <2>2 DEF Deep, ChangeItems
    <2>4. CASE Starts(f, worker.change)
      <3>1. Start(f, worker.change.depth + 1, worker.change.chain + 1)
        BY <1>7, <2>4 DEF Match
      <3>2. worker.change.depth + 1 <= Deepest
        BY <1>n, <2>3, <2>4 DEF Starts
      <3>3. /\ worker.change.depth + 1 \in Nat /\ worker.change.chain + 1 \in Nat
            /\ worker.change.chain + 1 <= worker.change.depth + 1 /\ worker.change.chain + 1 <= Deepest
        BY <1>n, <2>3, <3>2
      <3> QED BY <2>2, <2>3, <3>1, <3>3, DeepStart
    <2>5. CASE ~Starts(f, worker.change)
      <3>1. UNCHANGED <<runs, queue>> /\ Runs' = Runs /\ Chains' = Chains
        BY <1>7, <2>5 DEF Match, Runs, Chains
      <3> QED BY <2>2, <2>3, <3>1 DEF Deep
    <2> QED BY <2>4, <2>5
  <1>8. CASE TakeAnswer
    <2>1. /\ queue # <<>> /\ Head(queue).kind = "answer" /\ UNCHANGED worker
      BY <1>8 DEF TakeAnswer, Taken
    <2>2. approvals[Head(queue).id].run \in Runs
      <3>1. Head(queue) = queue[1] /\ 1 \in DOMAIN queue
        BY <1>q, <2>1, QueueShrinks
      <3> QED BY <2>1, <3>1 DEF TypeOK, Named
    <2>3. ~WaitsOn(approvals[Head(queue).id].run, Head(queue).id)
      BY <1>d, <2>2 DEF WaitsOn
    <2>4. UNCHANGED runs /\ queue' = Tail(queue)
      BY <1>8, <2>3 DEF TakeAnswer
    <2>5. DeepQueue(queue', Chains)
      BY <1>q, <1>d, <2>1, <2>4, DeepTail
    <2> QED BY <1>1, <2>1, <2>4, <2>5
  <1>9. CASE TakeRun
    <2>1. /\ queue # <<>> /\ Head(queue).kind = "run" /\ queue' = Tail(queue) /\ UNCHANGED runs
          /\ worker' = IF runs[Head(queue).run].status = "running"
                       THEN [at |-> "run", run |-> Head(queue).run, step |-> runs[Head(queue).run].step, depth |-> Head(queue).depth]
                       ELSE Idle
      BY <1>9 DEF TakeRun, Taken, records
    <2>2. Head(queue).run \in Runs
      <3>1. Head(queue) = queue[1] /\ 1 \in DOMAIN queue
        BY <1>q, <2>1, QueueShrinks
      <3> QED BY <2>1, <3>1 DEF TypeOK, Named
    <2>3. DeepQueue(queue', Chains) /\ runs[Head(queue).run].chain <= Head(queue).depth
      <3>1. DeepQueue(queue', Chains) /\ DeepItem(Head(queue), Chains)
        BY <1>q, <1>d, <2>1, DeepTail
      <3>2. Chains[Head(queue).run] = runs[Head(queue).run].chain
        BY <2>2 DEF Chains
      <3> QED BY <2>1, <3>1, <3>2 DEF DeepItem
    <2>4. Chains' = Chains /\ Runs' = Runs
      BY <2>1 DEF Chains, Runs
    <2>5. /\ worker'.at \in {"run", "idle"}
          /\ worker'.at = "run" => worker'.run = Head(queue).run /\ worker'.depth = Head(queue).depth
      BY <2>1 DEF Idle
    <2> QED BY <2>1, <2>3, <2>4, <2>5 DEF Deep
  <1>10. CASE Matched
    <2>1. UNCHANGED <<runs, queue>> /\ worker'.at = "idle"
      BY <1>10 DEF Matched, records, Idle
    <2> QED BY <1>1, <1>d, <2>1
  <1>11. CASE Skip \/ DoQuiet
    <2>1. Running /\ worker' = [worker EXCEPT !.step = @ + 1] /\ UNCHANGED <<runs, queue>>
      BY <1>11 DEF Skip, DoQuiet, Doing, records
    <2>2. worker'.at = "run" /\ worker'.run = worker.run /\ worker'.depth = worker.depth
      BY <2>1, GoneOn
    <2>3. Chains' = Chains /\ Runs' = Runs
      BY <2>1 DEF Chains, Runs
    <2> QED BY <2>1, <2>2, <2>3 DEF Deep, Running
  <1>12. CASE DoWrite
    <2> DEFINE item == Change(worker.depth, Here.flow, Here.chain)
    <2>1. /\ Running /\ worker' = [worker EXCEPT !.step = @ + 1] /\ UNCHANGED runs
          /\ queue' = Append(queue, item)
      BY <1>12 DEF DoWrite, Doing, Enqueued
    <2>2. worker'.at = "run" /\ worker'.run = worker.run /\ worker'.depth = worker.depth
      BY <2>1, GoneOn
    <2>3. Chains' = Chains /\ Runs' = Runs
      BY <2>1 DEF Chains, Runs
    <2>4. item \in Items
      BY <1>q, <2>1, WorkerAtRun, Recorded, ItemsMade DEF Here
    <2>5. DeepItem(item, Chains)
      BY <2>1 DEF Change, Here, DeepItem, Deep, Running
    <2> HIDE DEF item
    <2>6. DeepQueue(queue', Chains)
      BY <1>q, <1>d, <2>1, <2>4, <2>5, DeepAppend
    <2> QED BY <2>1, <2>2, <2>3, <2>6 DEF Deep, Running
  (* No flow asks or waits.                                                *)
  <1>13. ~DoAsk /\ ~DoWait
    <2>1. ASSUME Running, ~AtEnd, Step.kind \in {"ask", "wait"} PROVE FALSE
      <3>1. worker.step \in Nat \ {0} /\ Here.flow \in FlowIds
        BY <1>q, <2>1, WorkerAtRun, Recorded DEF Here
      <3>2. Steps[Here.flow] \in Seq([kind : StepKinds, only : Answers \cup {"always"}])
        BY <3>1, ConstantsAssumption
      <3>3. worker.step \in 1..Len(Steps[Here.flow])
        BY <2>1, <3>1, <3>2 DEF AtEnd
      <3> QED BY <2>1, <3>1, <3>3 DEF NoPauses, Step
    <2> QED BY <2>1 DEF DoAsk, DoWait, Doing
  <1>14. ~Hold
    BY DEF Hold, Deep
  <1>15. ASSUME NEW w \in Runs, NEW run, runs' = [runs EXCEPT ![w] = run], run \in RunRecords,
                run.chain = runs[w].chain, run.status # "waiting", UNCHANGED queue, worker' = Idle
         PROVE  Deep'
    <2>1. Runs' = Runs /\ runs'[w] = run /\ \A r \in Runs \ {w} : runs'[r] = runs[r]
      BY <1>q, <1>15 DEF Runs
    <2>2. Chains' = Chains
      BY <1>15, <2>1, ChainsSame
    <2> QED BY <1>15, <2>1, <2>2 DEF Deep, Idle
  <1>16. ASSUME Running, NEW status \in {"done", "failed", "stopped"}, NEW run, UNCHANGED queue, worker' = Idle,
                run = [runs[worker.run] EXCEPT !.status = status]
                \/ run = [runs[worker.run] EXCEPT !.status = status, !.step = worker.step,
                                                  !.on = Here.on, !.wake = Here.wake],
                runs' = [runs EXCEPT ![worker.run] = run]
         PROVE  Deep'
    <2>1. worker.run \in Runs /\ worker.step \in Nat \ {0} /\ runs[worker.run] \in RunRecords
      BY <1>q, <1>16, WorkerAtRun, Recorded
    <2>2. run \in RunRecords /\ run.chain = runs[worker.run].chain /\ run.status # "waiting"
      BY <1>16, <2>1 DEF RunRecords, Here
    <2> QED BY <1>15, <1>16, <2>1, <2>2
  <1>17. CASE DoStop \/ End
    <2>1. PICK status \in {"done", "stopped"} : Running /\ PutDown(status, Here.on, Here.wake) /\ UNCHANGED queue
      BY <1>17 DEF DoStop, End, Doing
    <2>2. runs' = [runs EXCEPT ![worker.run] =
                     [runs[worker.run] EXCEPT !.status = status, !.step = worker.step, !.on = Here.on, !.wake = Here.wake]]
          /\ worker' = Idle
      BY <2>1, WorkerAtRun DEF PutDown
    <2> QED BY <1>16, <2>1, <2>2
  <1>18. CASE Fail
    <2>1. Running /\ worker' = Idle /\ UNCHANGED queue
          /\ runs' = [runs EXCEPT ![worker.run] = [runs[worker.run] EXCEPT !.status = "failed"]]
      BY <1>18, WorkerAtRun DEF Fail
    <2> QED BY <1>16, <2>1
  <1>19. ASSUME NEW r \in Runs, Wake(r) PROVE FALSE
    BY <1>d, <1>19 DEF Wake
  <1>20. ASSUME NEW p \in People, NEW a \in DOMAIN approvals, NEW status \in Answers, LookAnswer(p, a, status) PROVE Deep'
    BY <1>1, <1>d, <1>20 DEF LookAnswer, records, memory
  <1>21. ASSUME NEW p \in People, SaveAnswer(p) PROVE Deep'
    BY <1>1, <1>d, <1>21 DEF SaveAnswer, memory
  <1>22. CASE Tick \/ UNCHANGED vars
    BY <1>1, <1>d, <1>22 DEF Tick, vars, records, memory
  <1>23. CASE Crash
    <2>1. UNCHANGED runs /\ queue' = <<>> /\ worker'.at = "idle"
      BY <1>23 DEF Crash, records, Idle
    <2>2. DeepQueue(queue', Chains)
      BY <2>1 DEF DeepQueue
    <2> QED BY <1>1, <2>1, <2>2
  <1> QED BY <1>2, <1>3, <1>4, <1>5, <1>6, <1>7, <1>8, <1>9, <1>10, <1>11, <1>12, <1>13, <1>14, <1>17, <1>18,
             <1>19, <1>20, <1>21, <1>22, <1>23 DEF Next, Work

(* Where no flow asks or waits, no run is started by a chain of more than  *)
(* Deepest flows, whatever the flows start one another.                    *)
THEOREM ChainsAreBounded == ASSUME NoPauses PROVE Spec => []ChainsStop
  <1>1. Init => Deep
    BY DEF Init, Deep, DeepQueue, Runs, Idle
  <1>2. TypeOK /\ Deep /\ [Next]_vars => Deep'
    BY DeepStep
  <1>3. Deep => ChainsStop
    BY DEF Deep, ChainsStop
  <1> QED BY <1>1, <1>2, <1>3, TypeCorrect, PTL DEF Spec

----------------------------------------------------------------------------
(* While the server does not stop, nothing is left behind.                 *)

Uncrashed == "crash" \notin Hazards

LEMMA QueuedOn == \A r : Queued(r) <=> On(queue, r)
  BY DEF Queued, On

OnWay(r) == runs[r].status = "running" => AtWorker(r) \/ On(queue, r)
OnWays == \A r \in Runs : OnWay(r)

LEMMA OnWayKept ==
    ASSUME NEW r, OnWay(r), runs'[r] = runs[r], On(queue, r) => On(queue', r) \/ AtWorker(r)' \/ runs[r].status # "running",
           AtWorker(r) => AtWorker(r)'
    PROVE  OnWay(r)'
  BY DEF OnWay

LEMMA OnWaysStep == Uncrashed /\ TypeOK /\ OnWays /\ [Next]_vars => OnWays'
  <1> SUFFICES ASSUME Uncrashed, TypeOK, OnWays, [Next]_vars PROVE OnWays'
    OBVIOUS
  <1>q. queue \in Seq(Items) /\ runs \in Seq(RunRecords)
    BY DEF TypeOK
  <1>w. \A r \in Runs : OnWay(r)
    BY DEF OnWays
  (* A step that queues something, or nothing, and leaves the worker where *)
  (* it is, or where no run is.                                            *)
  <1>1. ASSUME UNCHANGED runs, \A r : AtWorker(r) => AtWorker(r)', \A r : On(queue, r) => On(queue', r)
        PROVE  OnWays'
    BY <1>w, <1>1, OnWayKept DEF OnWays, Runs
  <1>2. ASSUME NEW item \in Items, queue' = Append(queue, item)
        PROVE  \A r : On(queue, r) => On(queue', r)
    BY <1>q, <1>2, OnAppend
  <1>3. CASE Write
    <2>1. Change(0, NoFlow, 0) \in Items
      BY ItemsMade
    <2>2. UNCHANGED <<runs, worker>> /\ queue' = Append(queue, Change(0, NoFlow, 0))
      BY <1>3 DEF Write, Enqueued, records
    <2> QED BY <1>1, <1>2, <2>1, <2>2 DEF AtWorker
  <1>4. ASSUME NEW f \in FlowIds, NEW depth \in Nat, NEW chain \in Nat, Start(f, depth, chain),
               \A r : AtWorker(r) => AtWorker(r)'
        PROVE  OnWays'
    <2> PICK n : n = Len(runs) + 1
      OBVIOUS
    <2>1. /\ \A r \in Runs : runs'[r] = runs[r]
          /\ Runs' = Runs \cup {n} /\ queue' = Append(queue, Run(n, depth))
          /\ Run(n, depth) \in Items /\ Run(n, depth).kind = "run" /\ Run(n, depth).run = n
      BY <1>4, Started, ItemsMade DEF Run
    <2>2. On(queue', n) /\ \A r : On(queue, r) => On(queue', r)
      BY <1>q, <2>1, OnAppend
    <2>3. ASSUME NEW r \in Runs PROVE OnWay(r)'
      BY <1>w, <1>4, <2>1, <2>2, OnWayKept
    <2>4. OnWay(n)'
      BY <2>2 DEF OnWay
    <2> QED BY <2>1, <2>3, <2>4 DEF OnWays
  <1>5. ASSUME NEW f \in FlowIds, RunNow(f) \/ StartDue(f) PROVE OnWays'
    BY <1>4, <1>5 DEF RunNow, StartDue, AtWorker
  <1>6. ASSUME NEW p \in People, TellAnswer(p) PROVE OnWays'
    <2> DEFINE item == Answer(answering[p].id, approvals[answering[p].id].status, answering[p].before)
    <2>1. /\ answering[p] \in Requests /\ answering[p].step = "tell" /\ answering[p].id \in DOMAIN approvals
          /\ approvals \in Seq(Approvals)
      BY <1>6 DEF TypeOK, Named, TellAnswer
    <2>2. answering[p].id \in Nat /\ answering[p].before \in Statuses /\ approvals[answering[p].id].status \in Statuses
      BY <2>1, RequestKinds, Approved
    <2>3. item \in Items
      BY <2>2, ItemsMade
    <2>4. queue' = Append(queue, item) /\ UNCHANGED <<runs, worker>>
      BY <1>6 DEF TellAnswer, Enqueued, records
    <2> HIDE DEF item
    <2> QED BY <1>1, <1>2, <2>3, <2>4 DEF AtWorker
  <1>7. CASE TakeChange
    <2>1. /\ queue # <<>> /\ Head(queue).kind = "change" /\ queue' = Tail(queue) /\ UNCHANGED runs /\ worker = Idle
      BY <1>7 DEF TakeChange, Taken, records
    <2>2. \A r : On(queue, r) => On(queue', r)
      BY <1>q, <2>1, OnTail
    <2> QED BY <1>1, <2>1, <2>2 DEF AtWorker, Idle
  <1>8. ASSUME NEW f \in FlowIds, Match(f) PROVE OnWays'
    <2>1. worker \in [at : {"match"}, change : ChangeItems, left : SUBSET FlowIds]
      BY <1>8, WorkerKinds DEF Match, TypeOK
    <2>2. \A r : ~AtWorker(r)
      BY <1>8 DEF Match, AtWorker
    <2>3. CASE Starts(f, worker.change)
      <3>1. worker.change.depth + 1 \in Nat /\ worker.change.chain + 1 \in Nat
        BY <2>1 DEF ChangeItems
      <3>2. Start(f, worker.change.depth + 1, worker.change.chain + 1)
        BY <1>8, <2>3 DEF Match
      <3> QED BY <1>4, <2>2, <3>1, <3>2
    <2>4. CASE ~Starts(f, worker.change)
      <3>1. UNCHANGED <<runs, queue>>
        BY <1>8, <2>4 DEF Match
      <3> QED BY <1>1, <2>2, <3>1
    <2> QED BY <2>3, <2>4
  <1>9. CASE Matched
    <2>1. (\A r : ~AtWorker(r)) /\ UNCHANGED <<runs, queue>>
      BY <1>9 DEF Matched, AtWorker, records
    <2> QED BY <1>1, <2>1
  <1>10. CASE TakeAnswer
    <2> PICK told : told = Head(queue)
      OBVIOUS
    <2> PICK w : w = approvals[told.id].run
      OBVIOUS
    <2>1. /\ queue # <<>> /\ told.kind = "answer" /\ worker = Idle /\ worker' = worker
      BY <1>10 DEF TakeAnswer, Taken
    <2>2. \A r : ~AtWorker(r)
      BY <2>1 DEF AtWorker, Idle
    <2>3. Tail(queue) \in Seq(Items) /\ \A r : On(queue, r) => On(Tail(queue), r)
      BY <1>q, <2>1, OnTail, QueueShrinks
    <2>4. CASE told.status # "requested" /\ told.before # told.status /\ WaitsOn(w, told.id)
      <3>1. /\ runs' = [runs EXCEPT ![w].status = "running", ![w].on = 0, ![w].step = StepAfter(w),
                                   ![w].answer = [id |-> told.id, status |-> told.status]]
            /\ queue' = Append(Tail(queue), Run(w, 0))
        BY <1>10, <2>4 DEF TakeAnswer
      <3>2. w \in Runs
        <4>1. told = queue[1] /\ 1 \in DOMAIN queue
          BY <1>q, <2>1, QueueShrinks
        <4>2. told.id \in DOMAIN approvals
          BY <2>1, <4>1 DEF TypeOK, Named
        <4> QED BY <4>2 DEF TypeOK, Named
      <3>3. Runs' = Runs /\ \A r \in Runs \ {w} : runs'[r] = runs[r]
        BY <1>q, <3>1, <3>2 DEF Runs
      <3>4. Run(w, 0) \in Items /\ Run(w, 0).kind = "run" /\ Run(w, 0).run = w
        <4>1. w \in Nat
          BY <1>q, <3>2 DEF Runs
        <4> QED BY <4>1, ItemsMade DEF Run
      <3>5. On(queue', w) /\ \A r : On(queue, r) => On(queue', r)
        BY <2>3, <3>1, <3>4, OnAppend
      <3>6. OnWay(w)'
        BY <3>5 DEF OnWay
      <3>7. \A r \in Runs \ {w} : OnWay(r)'
        BY <1>w, <2>2, <3>3, <3>5, OnWayKept
      <3> QED BY <3>3, <3>6, <3>7 DEF OnWays
    <2>5. CASE ~(told.status # "requested" /\ told.before # told.status /\ WaitsOn(w, told.id))
      <3>1. UNCHANGED runs /\ queue' = Tail(queue)
        BY <1>10, <2>5 DEF TakeAnswer
      <3> QED BY <1>1, <2>2, <2>3, <3>1
    <2> QED BY <2>4, <2>5
  <1>11. CASE TakeRun
    <2> PICK w : w = Head(queue).run
      OBVIOUS
    <2>1. /\ queue # <<>> /\ Head(queue).kind = "run" /\ queue' = Tail(queue) /\ worker = Idle /\ UNCHANGED runs
          /\ worker' = IF runs[w].status = "running"
                       THEN [at |-> "run", run |-> w, step |-> runs[w].step, depth |-> Head(queue).depth]
                       ELSE Idle
          /\ Runs' = Runs
      BY <1>11 DEF TakeRun, Taken, records, Runs
    <2>2. \A r : On(queue, r) => On(queue', r) \/ r = w
      BY <1>q, <2>1, OnTail
    <2>3. runs[w].status = "running" => AtWorker(w)'
      BY <2>1 DEF AtWorker
    <2>4. \A r : ~AtWorker(r)
      BY <2>1 DEF AtWorker, Idle
    <2>5. ASSUME NEW r \in Runs PROVE OnWay(r)'
      BY <1>w, <2>1, <2>2, <2>3, <2>4, OnWayKept
    <2> QED BY <2>1, <2>5 DEF OnWays
  <1>12. CASE Skip \/ DoQuiet
    <2>1. Running /\ worker' = [worker EXCEPT !.step = @ + 1] /\ UNCHANGED <<runs, queue>>
      BY <1>12 DEF Skip, DoQuiet, Doing, records
    <2> QED BY <1>1, <2>1, GoneOn DEF AtWorker
  <1>13. CASE DoWrite
    <2> DEFINE item == Change(worker.depth, Here.flow, Here.chain)
    <2>1. /\ Running /\ worker' = [worker EXCEPT !.step = @ + 1] /\ UNCHANGED runs
          /\ queue' = Append(queue, item)
      BY <1>13 DEF DoWrite, Doing, Enqueued
    <2>2. item \in Items
      BY <1>q, <2>1, WorkerAtRun, Recorded, ItemsMade DEF Here
    <2> HIDE DEF item
    <2> QED BY <1>1, <1>2, <2>1, <2>2, GoneOn DEF AtWorker
  <1>14. CASE DoAsk
    <2>1. /\ Running /\ UNCHANGED <<runs, queue>>
          /\ worker' = [at |-> "hold", run |-> worker.run, step |-> worker.step, on |-> Len(approvals) + 1]
      BY <1>14 DEF DoAsk, Doing
    <2> QED BY <1>1, <2>1 DEF AtWorker
  (* A run that is put down is running no more.                            *)
  <1>15. ASSUME NEW w \in Runs, w = worker.run, runs' \in Seq(RunRecords), Runs' = Runs, UNCHANGED queue,
                \A r \in Runs \ {w} : runs'[r] = runs[r], runs'[w].status # "running"
         PROVE  OnWays'
    <2>1. \A r \in Runs \ {w} : ~AtWorker(r)
      BY <1>15 DEF AtWorker
    <2>2. ASSUME NEW r \in Runs \ {w} PROVE OnWay(r)'
      BY <1>w, <1>15, <2>1, OnWayKept
    <2>3. OnWay(w)'
      BY <1>15 DEF OnWay
    <2> QED BY <1>15, <2>2, <2>3 DEF OnWays
  <1>16. ASSUME NEW w \in Runs, w = worker.run, UNCHANGED queue,
                NEW status \in {"waiting", "done", "failed", "stopped"}, NEW run \in RunRecords, run.status = status,
                runs' = [runs EXCEPT ![w] = run]
         PROVE  OnWays'
    BY <1>q, <1>15, <1>16 DEF Runs
  <1>17. CASE Hold
    <2> DEFINE run == [runs[worker.run] EXCEPT !.status = "waiting", !.step = worker.step, !.on = worker.on,
                                               !.answer = [id |-> worker.on, status |-> "requested"]]
    <2>1. worker.run \in Runs /\ worker.step \in Nat \ {0} /\ worker.on \in Nat
      BY <1>17, WorkerKinds DEF Hold, TypeOK, Named
    <2>2. runs' = [runs EXCEPT ![worker.run] = run] /\ UNCHANGED queue
      BY <1>17, <2>1 DEF Hold
    <2>3. runs[worker.run] \in RunRecords
      BY <1>q, <2>1, Recorded
    <2>4. run \in RunRecords /\ run.status = "waiting"
      <3>1. [id |-> worker.on, status |-> "requested"] \in [id : Nat, status : Statuses \cup {"none"}]
        BY <2>1 DEF Statuses
      <3> QED BY <2>1, <2>3, <3>1 DEF RunRecords
    <2> HIDE DEF run
    <2> QED BY <1>16, <2>1, <2>2, <2>4
  <1>18. ASSUME NEW status \in {"waiting", "done", "stopped"}, NEW wake \in Nat \cup {Never}, Running,
                PutDown(status, Here.on, wake), UNCHANGED queue
         PROVE  OnWays'
    <2>1. Here.on \in Nat /\ Here.on \in DOMAIN approvals \cup {0}
      BY <1>q, <1>18, WorkerAtRun, Recorded DEF Here, TypeOK, Named
    <2> PICK w : w = worker.run
      OBVIOUS
    <2>2. /\ runs' \in Seq(RunRecords) /\ Runs' = Runs /\ \A r \in Runs \ {w} : runs'[r] = runs[r]
          /\ runs'[w].status = status /\ w \in Runs
      BY <1>18, <2>1, PutDownTyped, WorkerAtRun
    <2> QED BY <1>15, <1>18, <2>2
  <1>19. CASE DoWait \/ DoStop \/ End
    <2>1. now + 1 \in Nat
      BY DEF TypeOK
    <2>2. Running => Here.wake \in Nat \cup {Never}
      BY <1>q, WorkerAtRun, Recorded DEF Here
    <2> QED BY <1>18, <1>19, <2>1, <2>2 DEF DoWait, DoStop, End, Doing
  <1>20. CASE Fail
    <2>1. Running /\ UNCHANGED queue
          /\ runs' = [runs EXCEPT ![worker.run] = [runs[worker.run] EXCEPT !.status = "failed"]]
      BY <1>20, WorkerAtRun DEF Fail
    <2>2. worker.run \in Runs /\ runs[worker.run] \in RunRecords
      BY <1>q, <2>1, WorkerAtRun, Recorded
    <2>3. [runs[worker.run] EXCEPT !.status = "failed"] \in RunRecords
          /\ [runs[worker.run] EXCEPT !.status = "failed"].status = "failed"
      BY <2>2 DEF RunRecords
    <2> QED BY <1>16, <2>1, <2>2, <2>3
  <1>21. ASSUME NEW w \in Runs, Wake(w) PROVE OnWays'
    <2>1. /\ runs' = [runs EXCEPT ![w].status = "running", ![w].wake = Never, ![w].step = StepAfter(w)]
          /\ queue' = Append(queue, Run(w, 0)) /\ worker' = worker
      BY <1>21 DEF Wake, Enqueued
    <2>2. Runs' = Runs /\ \A r \in Runs \ {w} : runs'[r] = runs[r]
      BY <1>q, <2>1 DEF Runs
    <2>3. Run(w, 0) \in Items /\ Run(w, 0).kind = "run" /\ Run(w, 0).run = w
      <3>1. w \in Nat
        BY <1>q DEF Runs
      <3> QED BY <3>1, ItemsMade DEF Run
    <2>4. On(queue', w) /\ \A r : On(queue, r) => On(queue', r)
      BY <1>q, <2>1, <2>3, OnAppend
    <2>5. \A r \in Runs \ {w} : OnWay(r)'
      BY <1>w, <2>1, <2>2, <2>4, OnWayKept DEF AtWorker
    <2>6. OnWay(w)'
      BY <2>4 DEF OnWay
    <2> QED BY <2>2, <2>5, <2>6 DEF OnWays
  <1>22. ASSUME NEW p \in People, NEW a \in DOMAIN approvals, NEW status \in Answers, LookAnswer(p, a, status) PROVE OnWays'
    BY <1>1, <1>22 DEF LookAnswer, records, memory, AtWorker
  <1>23. ASSUME NEW p \in People, SaveAnswer(p) PROVE OnWays'
    BY <1>1, <1>23 DEF SaveAnswer, memory, AtWorker
  <1>24. CASE Tick \/ UNCHANGED vars
    BY <1>1, <1>24 DEF Tick, vars, records, memory, AtWorker
  <1>25. ~Crash
    BY DEF Crash, Uncrashed
  <1> QED BY <1>3, <1>5, <1>6, <1>7, <1>8, <1>9, <1>10, <1>11, <1>12, <1>13, <1>14, <1>17, <1>19, <1>20,
             <1>21, <1>22, <1>23, <1>24, <1>25 DEF Next, Work

(* While the server does not stop, a run that is running is at the worker  *)
(* or on the queue: it is never forgotten.                                 *)
THEOREM RunsOnTheirWay == ASSUME Uncrashed PROVE Spec => []RunOnItsWay
  <1>1. Init => OnWays
    BY DEF Init, OnWays, Runs
  <1>2. TypeOK /\ OnWays /\ [Next]_vars => OnWays'
    BY OnWaysStep
  <1>3. OnWays => RunOnItsWay
    BY QueuedOn DEF OnWays, OnWay, RunOnItsWay
  <1> QED BY <1>1, <1>2, <1>3, TypeCorrect, PTL DEF Spec

----------------------------------------------------------------------------
(* No answer is forgotten either.  Why: who answers an open approval sees  *)
(* it was open, whoever answers beside them, and tells of it; a run waits  *)
(* on one thing at a time, and on an approval of its own.                  *)

HeldRun(r) ==
    /\ runs[r].status = "running" => runs[r].on = 0 /\ runs[r].wake = Never
    /\ runs[r].status = "waiting" => /\ runs[r].on = 0 \/ runs[r].wake = Never
                                     /\ runs[r].on # 0 => approvals[runs[r].on].run = r

Held == /\ \A r \in Runs : HeldRun(r)
        /\ worker.at = "hold" => approvals[worker.on].run = worker.run

FirstOn(q, a) == \E i \in DOMAIN q : /\ q[i].kind = "answer" /\ q[i].id = a
                                     /\ q[i].before = "requested" /\ q[i].status # "requested"
FirstAt(p, a) == answering[p].step = "tell" /\ answering[p].id = a /\ answering[p].before = "requested"
FirstTold(a) == (\E p \in People : FirstAt(p, a)) \/ FirstOn(queue, a)
Told(a) == approvals[a].status # "requested" /\ WaitedFor(a) => FirstTold(a)
Tolds == \A a \in DOMAIN approvals : Told(a)

LEMMA FirstAppend ==
    ASSUME NEW q \in Seq(Items), NEW item \in Items
    PROVE  /\ \A a : FirstOn(q, a) => FirstOn(Append(q, item), a)
           /\ item.kind = "answer" /\ item.before = "requested" /\ item.status # "requested"
                => FirstOn(Append(q, item), item.id)
  <1>1. /\ \A i \in DOMAIN q : i \in DOMAIN Append(q, item) /\ Append(q, item)[i] = q[i]
        /\ Len(q) + 1 \in DOMAIN Append(q, item) /\ Append(q, item)[Len(q) + 1] = item
    BY QueueGrows
  <1> QED BY <1>1 DEF FirstOn

LEMMA FirstTail ==
    ASSUME NEW q \in Seq(Items), q # <<>>, NEW a, FirstOn(q, a)
    PROVE  \/ FirstOn(Tail(q), a)
           \/ /\ Head(q).kind = "answer" /\ Head(q).id = a
              /\ Head(q).before = "requested" /\ Head(q).status # "requested"
  <1>1. /\ Head(q) = q[1]
        /\ \A i \in DOMAIN q : i = 1 \/ (i - 1 \in DOMAIN Tail(q) /\ Tail(q)[i - 1] = q[i])
    BY QueueShrinks
  <1> QED BY <1>1 DEF FirstOn

(* The approvals there are keep the run they are of.                       *)
OfTheirRuns == \A a \in DOMAIN approvals : approvals'[a].run = approvals[a].run

LEMMA HeldKept ==
    ASSUME TypeOK, OfTheirRuns, NEW r \in Runs, HeldRun(r), runs'[r] = runs[r]
    PROVE  HeldRun(r)'
  <1>1. runs[r].on \in DOMAIN approvals \cup {0}
    BY DEF TypeOK, Named
  <1> QED BY <1>1 DEF HeldRun, OfTheirRuns

LEMMA ToldKept ==
    ASSUME NEW a, Told(a), approvals'[a].status = approvals[a].status, WaitedFor(a)' => WaitedFor(a),
           FirstTold(a) => FirstTold(a)'
    PROVE  Told(a)'
  BY DEF Told

(* A step that changes one run at most, and the approvals not at all.      *)
LEMMA NoApprovalChanged ==
    ASSUME TypeOK, Held, Tolds, UNCHANGED approvals, Runs \subseteq Runs',
           \A r \in Runs' : HeldRun(r)' /\ (r \in Runs \/ runs'[r].status = "running"),
           worker'.at = "hold" => worker' = worker,
           \A a \in DOMAIN approvals : WaitedFor(a)' => WaitedFor(a),
           \A a \in DOMAIN approvals : WaitedFor(a)' /\ FirstTold(a) => FirstTold(a)'
    PROVE  Held' /\ Tolds'
  BY DEF Held, Tolds, Told

LEMMA WaitedKept ==
    ASSUME TypeOK, NEW a, \A r \in Runs' : WaitsOn(r, a)' => r \in Runs /\ WaitsOn(r, a),
           worker'.at = "hold" => worker' = worker
    PROVE  WaitedFor(a)' => WaitedFor(a)
  BY DEF WaitedFor

LEMMA ToldStep == Uncrashed /\ TypeOK /\ Places /\ Held /\ Tolds /\ [Next]_vars => Held' /\ Tolds'
  <1> SUFFICES ASSUME Uncrashed, TypeOK, Places, Held, Tolds, [Next]_vars PROVE Held' /\ Tolds'
    OBVIOUS
  <1>q. queue \in Seq(Items) /\ runs \in Seq(RunRecords) /\ approvals \in Seq(Approvals)
    BY DEF TypeOK
  <1>h. \A r \in Runs : HeldRun(r)
    BY DEF Held
  <1>o. UNCHANGED approvals => OfTheirRuns
    BY DEF OfTheirRuns
  (* No run is changed; what is told is told.                              *)
  <1>1. ASSUME UNCHANGED <<runs, approvals>>, worker'.at = "hold" => worker' = worker,
               \A a \in DOMAIN approvals : FirstTold(a) => FirstTold(a)'
        PROVE  Held' /\ Tolds'
    <2>1. \A r \in Runs : HeldRun(r)'
      BY <1>h, <1>o, <1>1, HeldKept
    <2>2. Runs' = Runs
      BY <1>1 DEF Runs
    <2>3. \A a : WaitedFor(a)' => WaitedFor(a)
      BY <1>1, <2>2, WaitedKept DEF WaitsOn
    <2> QED BY <1>1, <2>1, <2>2, <2>3, NoApprovalChanged
  <1>2. ASSUME UNCHANGED answering, UNCHANGED queue \/ (\E item \in Items : queue' = Append(queue, item))
        PROVE  \A a : FirstTold(a) => FirstTold(a)'
    BY <1>q, <1>2, FirstAppend DEF FirstTold, FirstAt
  <1>3. CASE Write
    <2>1. UNCHANGED <<runs, approvals, worker, answering>> /\ \E item \in Items : queue' = Append(queue, item)
      BY <1>3, ItemsMade DEF Write, Enqueued, records
    <2> QED BY <1>1, <1>2, <2>1
  <1>4. ASSUME NEW f \in FlowIds, NEW depth \in Nat, NEW chain \in Nat, Start(f, depth, chain),
               worker'.at = "hold" => worker' = worker, UNCHANGED <<approvals, answering>>
        PROVE  Held' /\ Tolds'
    <2> PICK n : n = Len(runs) + 1
      OBVIOUS
    <2>1. /\ \A r \in Runs : runs'[r] = runs[r]
          /\ Runs' = Runs \cup {n} /\ runs'[n].status = "running" /\ runs'[n].on = 0
          /\ \E item \in Items : queue' = Append(queue, item)
      BY <1>4, Started, ItemsMade
    <2>2. runs'[n].wake = Never
      <3>1. runs' = Append(runs, [flow |-> f, status |-> "running", step |-> 1, on |-> 0, wake |-> Never,
                                  answer |-> NoAnswer, started |-> now, chain |-> chain])
        BY <1>4 DEF Start
      <3> QED BY <1>q, <3>1
    <2>3. \A r \in Runs' : HeldRun(r)' /\ (r \in Runs \/ runs'[r].status = "running")
      <3>1. HeldRun(n)'
        BY <2>1, <2>2 DEF HeldRun
      <3>2. \A r \in Runs : HeldRun(r)'
        BY <1>h, <1>o, <1>4, <2>1, HeldKept
      <3> QED BY <2>1, <3>1, <3>2
    <2>4. \A a : WaitedFor(a)' => WaitedFor(a)
      BY <1>4, <2>1, WaitedKept DEF WaitsOn
    <2>5. \A a : FirstTold(a) => FirstTold(a)'
      BY <1>2, <1>4, <2>1
    <2> QED BY <1>4, <2>1, <2>3, <2>4, <2>5, NoApprovalChanged
  <1>5. ASSUME NEW f \in FlowIds, RunNow(f) \/ StartDue(f) PROVE Held' /\ Tolds'
    BY <1>4, <1>5 DEF RunNow, StartDue
  <1>6. ASSUME NEW p \in People, NEW a \in DOMAIN approvals, NEW status \in Answers, LookAnswer(p, a, status) PROVE Held' /\ Tolds'
    <2>1. UNCHANGED <<runs, approvals, queue, worker>> /\ answering[p].step = "rest"
          /\ \A o \in People \ {p} : answering'[o] = answering[o]
      BY <1>6 DEF LookAnswer, records, memory, TypeOK
    <2>2. \A b : FirstTold(b) => FirstTold(b)'
      BY <2>1 DEF FirstTold, FirstAt
    <2> QED BY <1>1, <2>1, <2>2
  <1>7. CASE TakeChange
    <2>1. /\ queue # <<>> /\ Head(queue).kind = "change" /\ queue' = Tail(queue)
          /\ UNCHANGED <<runs, approvals, answering>> /\ worker'.at # "hold"
      BY <1>7 DEF TakeChange, Taken, records
    <2>2. \A a : FirstTold(a) => FirstTold(a)'
      BY <1>q, <2>1, FirstTail DEF FirstTold, FirstAt
    <2> QED BY <1>1, <2>1, <2>2
  <1>8. ASSUME NEW f \in FlowIds, Match(f) PROVE Held' /\ Tolds'
    <2>1. /\ worker \in [at : {"match"}, change : ChangeItems, left : SUBSET FlowIds]
          /\ worker' = [worker EXCEPT !.left = @ \ {f}] /\ UNCHANGED <<approvals, answering>>
      BY <1>8, WorkerKinds DEF Match, TypeOK
    <2>2. worker'.at # "hold"
      BY <2>1
    <2>3. CASE Starts(f, worker.change)
      <3>1. worker.change.depth + 1 \in Nat /\ worker.change.chain + 1 \in Nat
        BY <2>1 DEF ChangeItems
      <3>2. Start(f, worker.change.depth + 1, worker.change.chain + 1)
        BY <1>8, <2>3 DEF Match
      <3> QED BY <1>4, <2>1, <2>2, <3>1, <3>2
    <2>4. CASE ~Starts(f, worker.change)
      <3>1. UNCHANGED <<runs, queue>>
        BY <1>8, <2>4 DEF Match
      <3> QED BY <1>1, <1>2, <2>1, <2>2, <3>1
    <2> QED BY <2>3, <2>4
  <1>9. CASE Matched \/ Tick \/ UNCHANGED vars
    <2>1. UNCHANGED <<runs, approvals, answering, queue>> /\ (worker'.at = "hold" => worker' = worker)
      BY <1>9 DEF Matched, Tick, vars, records, memory, Idle
    <2> QED BY <1>1, <1>2, <2>1
  <1>10. CASE TakeRun
    <2>1. /\ queue # <<>> /\ Head(queue).kind = "run" /\ queue' = Tail(queue)
          /\ UNCHANGED <<runs, approvals, answering>> /\ worker'.at # "hold"
      BY <1>10 DEF TakeRun, Taken, records, Idle
    <2>2. \A a : FirstTold(a) => FirstTold(a)'
      BY <1>q, <2>1, FirstTail DEF FirstTold, FirstAt
    <2> QED BY <1>1, <2>1, <2>2
  <1>11. CASE Skip \/ DoQuiet \/ DoWrite
    <2>1. /\ Running /\ worker' = [worker EXCEPT !.step = @ + 1] /\ UNCHANGED <<runs, approvals, answering>>
          /\ UNCHANGED queue \/ queue' = Append(queue, Change(worker.depth, Here.flow, Here.chain))
      BY <1>11 DEF Skip, DoQuiet, DoWrite, Doing, Enqueued, records
    <2>2. Change(worker.depth, Here.flow, Here.chain) \in Items
      BY <1>q, <2>1, WorkerAtRun, Recorded, ItemsMade DEF Here
    <2>3. worker'.at # "hold"
      BY <2>1, GoneOn
    <2> QED BY <1>1, <1>2, <2>1, <2>2, <2>3
  (* The first answer is in the request that saved it until it is told;    *)
  (* one that comes after it takes nothing away.                           *)
  <1>12. ASSUME NEW p \in People, SaveAnswer(p) PROVE Held' /\ Tolds'
    <2> PICK a : a = answering[p].id
      OBVIOUS
    <2>1. /\ answering[p] \in Requests /\ answering[p].step = "save"
          /\ a \in DOMAIN approvals /\ answering[p].status \in Answers
      BY <1>12, RequestKinds DEF SaveAnswer, TypeOK, Named
    <2>2. /\ approvals' = [approvals EXCEPT ![a].status = answering[p].status]
          /\ answering' = [answering EXCEPT ![p] = [step |-> "tell", id |-> a, before |-> approvals[a].status]]
          /\ UNCHANGED <<runs, queue, worker>>
      BY <1>12 DEF SaveAnswer, memory
    <2>3. \A b \in DOMAIN approvals : approvals[b] \in Approvals
      BY <1>q
    <2>4. DOMAIN approvals' = DOMAIN approvals /\ OfTheirRuns
          /\ \A b \in DOMAIN approvals \ {a} : approvals'[b] = approvals[b]
      <3>1. DOMAIN approvals' = DOMAIN approvals /\ \A b \in DOMAIN approvals \ {a} : approvals'[b] = approvals[b]
        BY <2>2
      <3>2. approvals'[a].run = approvals[a].run
        BY <2>1, <2>2, <2>3 DEF Approvals
      <3> QED BY <3>1, <3>2 DEF OfTheirRuns
    <2>5. /\ answering'[p] = [step |-> "tell", id |-> a, before |-> approvals[a].status]
          /\ \A o \in People \ {p} : answering'[o] = answering[o]
      BY <2>2 DEF TypeOK
    <2>6. Held'
      <3>1. Runs' = Runs /\ \A r \in Runs : HeldRun(r)'
        BY <1>h, <2>2, <2>4, HeldKept DEF Runs
      <3>2. worker.at = "hold" => worker.on \in DOMAIN approvals
        BY DEF TypeOK, Named
      <3> QED BY <2>2, <2>4, <3>1, <3>2 DEF Held, OfTheirRuns
    <2>7. \A b : (WaitedFor(b)' <=> WaitedFor(b)) /\ (FirstTold(b) => FirstTold(b)')
      <3>1. \A b : WaitedFor(b)' <=> WaitedFor(b)
        BY <2>2 DEF WaitedFor, WaitsOn, Runs
      <3>2. \A b : FirstTold(b) => FirstTold(b)'
        BY <2>1, <2>2, <2>5 DEF FirstTold, FirstAt
      <3> QED BY <3>1, <3>2
    <2>8. Told(a)'
      <3>1. CASE approvals[a].status = "requested"
        BY <2>5, <3>1 DEF Told, FirstTold, FirstAt
      <3>2. CASE approvals[a].status # "requested"
        BY <2>1, <2>7, <3>2 DEF Told, Tolds
      <3> QED BY <3>1, <3>2
    <2>9. ASSUME NEW b \in DOMAIN approvals \ {a} PROVE Told(b)'
      BY <2>4, <2>7, ToldKept DEF Tolds
    <2> QED BY <2>4, <2>6, <2>8, <2>9 DEF Tolds
  <1>13. ASSUME NEW p \in People, TellAnswer(p) PROVE Held' /\ Tolds'
    <2> DEFINE item == Answer(answering[p].id, approvals[answering[p].id].status, answering[p].before)
    <2>1. /\ answering[p] \in Requests /\ answering[p].step = "tell" /\ answering[p].id \in DOMAIN approvals
      BY <1>13 DEF TypeOK, Named, TellAnswer
    <2>2. answering[p].id \in Nat /\ answering[p].before \in Statuses /\ approvals[answering[p].id].status \in Statuses
      BY <1>q, <2>1, RequestKinds, Approved
    <2>3. item \in Items /\ item.kind = "answer" /\ item.id = answering[p].id
          /\ item.before = answering[p].before /\ item.status = approvals[answering[p].id].status
      BY <2>2, ItemsMade DEF Answer
    <2> HIDE DEF item
    <2>4. queue' = Append(queue, item) /\ UNCHANGED <<runs, approvals, worker>>
          /\ \A o \in People \ {p} : answering'[o] = answering[o]
      BY <1>13 DEF TellAnswer, Enqueued, records, item, TypeOK
    <2>5. ASSUME NEW a \in DOMAIN approvals PROVE WaitedFor(a)' /\ approvals[a].status # "requested" => FirstTold(a)'
      <3>1. WaitedFor(a)' <=> WaitedFor(a)
        BY <2>4 DEF WaitedFor, WaitsOn, Runs
      <3>2. CASE FirstAt(p, a)
        <4>1. answering[p].id = a /\ answering[p].before = "requested"
          BY <3>2 DEF FirstAt
        <4>2. approvals[a].status # "requested" => FirstOn(queue', a)
          BY <1>q, <2>3, <2>4, <4>1, FirstAppend
        <4> QED BY <4>2 DEF FirstTold
      <3>3. CASE ~FirstAt(p, a)
        <4>1. \A o \in People : FirstAt(o, a) => FirstAt(o, a)'
          BY <2>4, <3>3 DEF FirstAt
        <4>2. FirstOn(queue, a) => FirstOn(queue', a)
          BY <1>q, <2>3, <2>4, FirstAppend
        <4> QED BY <3>1, <4>1, <4>2 DEF Tolds, Told, FirstTold
      <3> QED BY <3>2, <3>3
    <2>6. Held'
      <3>1. Runs' = Runs /\ \A r \in Runs : HeldRun(r)'
        BY <1>h, <1>o, <2>4, HeldKept DEF Runs
      <3> QED BY <2>4, <3>1 DEF Held
    <2> QED BY <2>4, <2>5, <2>6 DEF Tolds, Told
  (* The first answer is gone by: whatever run waited for it is picked up. *)
  <1>14. CASE TakeAnswer
    <2> PICK told : told = Head(queue)
      OBVIOUS
    <2> PICK w : w = approvals[told.id].run
      OBVIOUS
    <2>1. /\ queue # <<>> /\ told.kind = "answer" /\ worker = Idle /\ UNCHANGED <<worker, approvals, answering>>
      BY <1>14 DEF TakeAnswer, Taken
    <2>2. told.id \in DOMAIN approvals /\ told.id # 0 /\ w \in Runs
      <3>1. told = queue[1] /\ 1 \in DOMAIN queue
        BY <1>q, <2>1, QueueShrinks
      <3>2. told.id \in DOMAIN approvals
        BY <2>1, <3>1 DEF TypeOK, Named
      <3>3. 0 \notin DOMAIN approvals
        BY <1>q
      <3> QED BY <3>2, <3>3 DEF TypeOK, Named
    <2>3. \A a : (\E p \in People : FirstAt(p, a)) => (\E p \in People : FirstAt(p, a))'
      BY <2>1 DEF FirstAt
    <2>4. \A a : FirstOn(queue, a) => \/ FirstOn(Tail(queue), a)
                                      \/ told.id = a /\ told.before = "requested" /\ told.status # "requested"
      BY <1>q, <2>1, FirstTail
    <2>5. worker'.at # "hold"
      BY <2>1 DEF Idle
    <2>6. \A a \in DOMAIN approvals : \A r \in Runs : WaitsOn(r, a) => r = approvals[a].run
      <3>1. 0 \notin DOMAIN approvals
        BY <1>q
      <3> QED BY <1>h, <3>1 DEF HeldRun, WaitsOn
    <2>7. CASE told.status # "requested" /\ told.before # told.status /\ WaitsOn(w, told.id)
      <3>1. /\ runs' = [runs EXCEPT ![w].status = "running", ![w].on = 0, ![w].step = StepAfter(w),
                                   ![w].answer = [id |-> told.id, status |-> told.status]]
            /\ queue' = Append(Tail(queue), Run(w, 0))
        BY <1>14, <2>7 DEF TakeAnswer
      <3>2. runs[w] \in RunRecords /\ runs[w].wake = Never
        <4>1. runs[w].on = told.id /\ runs[w].status = "waiting"
          BY <2>7 DEF WaitsOn
        <4> QED BY <1>q, <1>h, <2>2, <4>1, Recorded DEF HeldRun
      <3>3. /\ Runs' = Runs /\ \A r \in Runs \ {w} : runs'[r] = runs[r]
            /\ runs'[w].status = "running" /\ runs'[w].on = 0 /\ runs'[w].wake = Never
        BY <1>q, <2>2, <3>1, <3>2 DEF Runs, RunRecords
      <3>4. \A r \in Runs : HeldRun(r)'
        <4>1. HeldRun(w)'
          BY <3>3 DEF HeldRun
        <4>2. \A r \in Runs \ {w} : HeldRun(r)'
          BY <1>h, <1>o, <2>1, <3>3, HeldKept
        <4> QED BY <4>1, <4>2
      <3>5. \A a : WaitedFor(a)' => WaitedFor(a)
        BY <2>5, <3>3, WaitedKept DEF WaitsOn
      <3>6. ASSUME NEW a \in DOMAIN approvals, WaitedFor(a)', FirstTold(a) PROVE FirstTold(a)'
        <4>1. a # told.id
          <5>1. PICK r \in Runs : WaitsOn(r, a)'
            BY <2>5, <3>3, <3>6 DEF WaitedFor
          <5>2. r # w /\ WaitsOn(r, a)
            BY <3>3, <5>1 DEF WaitsOn
          <5> QED BY <2>6, <5>2
        <4>2. Tail(queue) \in Seq(Items) /\ Run(w, 0) \in Items
          <5>1. w \in Nat
            BY <1>q, <2>2 DEF Runs
          <5> QED BY <1>q, <2>1, <5>1, QueueShrinks, ItemsMade
        <4>3. FirstOn(Tail(queue), a) => FirstOn(queue', a)
          BY <3>1, <4>2, FirstAppend
        <4> QED BY <2>3, <2>4, <3>6, <4>1, <4>3 DEF FirstTold
      <3> QED BY <2>1, <2>5, <3>3, <3>4, <3>5, <3>6, NoApprovalChanged
    <2>8. CASE ~(told.status # "requested" /\ told.before # told.status /\ WaitsOn(w, told.id))
      <3>1. UNCHANGED runs /\ queue' = Tail(queue)
        BY <1>14, <2>8 DEF TakeAnswer
      <3>2. Runs' = Runs /\ \A r \in Runs : HeldRun(r)'
        BY <1>h, <1>o, <2>1, <3>1, HeldKept DEF Runs
      <3>3. \A a : WaitedFor(a)' => WaitedFor(a)
        BY <2>5, <3>1, <3>2, WaitedKept DEF WaitsOn
      <3>4. ASSUME NEW a \in DOMAIN approvals, WaitedFor(a)', FirstTold(a) PROVE FirstTold(a)'
        <4>1. PICK r \in Runs : WaitsOn(r, a)
          BY <2>5, <3>1, <3>2, <3>4 DEF WaitedFor, WaitsOn
        <4>2. r = approvals[a].run
          BY <2>6, <4>1
        <4>3. ~(told.id = a /\ told.before = "requested" /\ told.status # "requested")
          BY <2>8, <4>1, <4>2
        <4> QED BY <2>3, <2>4, <3>1, <3>4, <4>3 DEF FirstTold
      <3> QED BY <2>1, <2>5, <3>1, <3>2, <3>3, <3>4, NoApprovalChanged
    <2> QED BY <2>7, <2>8
  <1>15. CASE DoAsk
    <2> PICK n : n = Len(approvals) + 1
      OBVIOUS
    <2>1. /\ Running /\ UNCHANGED <<runs, queue, answering>>
          /\ approvals' = Append(approvals, [run |-> worker.run, step |-> worker.step, status |-> "requested"])
          /\ worker' = [at |-> "hold", run |-> worker.run, step |-> worker.step, on |-> n]
      BY <1>15 DEF DoAsk, Doing
    <2>2. /\ DOMAIN approvals' = DOMAIN approvals \cup {n} /\ n \notin DOMAIN approvals
          /\ \A a \in DOMAIN approvals : approvals'[a] = approvals[a]
          /\ approvals'[n] = [run |-> worker.run, step |-> worker.step, status |-> "requested"]
      BY <1>q, <2>1
    <2>3. Held'
      <3>1. OfTheirRuns /\ Runs' = Runs
        BY <2>1, <2>2 DEF OfTheirRuns, Runs
      <3>2. \A r \in Runs : HeldRun(r)'
        BY <1>h, <2>1, <3>1, HeldKept
      <3> QED BY <2>1, <2>2, <3>1, <3>2 DEF Held
    <2>4. Told(n)'
      BY <2>2 DEF Told
    <2>5. ASSUME NEW a \in DOMAIN approvals PROVE Told(a)'
      <3>1. WaitedFor(a)' => WaitedFor(a)
        BY <2>1, <2>2 DEF WaitedFor, WaitsOn, Runs
      <3>2. FirstTold(a) => FirstTold(a)'
        BY <2>1 DEF FirstTold, FirstAt
      <3> QED BY <2>2, <3>1, <3>2, ToldKept DEF Tolds
    <2> QED BY <2>2, <2>3, <2>4, <2>5 DEF Tolds
  (* A run that was running waited for nothing.                            *)
  <1>16. ASSUME NEW w \in Runs, w = worker.run, Runs' = Runs, UNCHANGED <<approvals, queue, answering>>,
                worker'.at # "hold", HeldRun(w)', \A r \in Runs \ {w} : runs'[r] = runs[r],
                runs'[w].status = "waiting" /\ runs'[w].on # 0 => worker.at = "hold" /\ worker.on = runs'[w].on
         PROVE  Held' /\ Tolds'
    <2>1. \A r \in Runs : HeldRun(r)'
      BY <1>h, <1>o, <1>16, HeldKept
    <2>2. ASSUME NEW a \in DOMAIN approvals PROVE WaitedFor(a)' => WaitedFor(a)
      <3>1. a # 0
        BY <1>q
      <3> QED BY <1>16, <3>1 DEF WaitedFor, WaitsOn
    <2>3. \A a : FirstTold(a) => FirstTold(a)'
      BY <1>16 DEF FirstTold, FirstAt
    <2> QED BY <1>16, <2>1, <2>2, <2>3, NoApprovalChanged
  <1>17. ASSUME worker.at \in {"run", "hold"}
         PROVE  /\ worker.run \in Runs /\ runs[worker.run] \in RunRecords
                /\ runs[worker.run].on = 0 /\ runs[worker.run].wake = Never
    <2>1. worker.run \in Runs /\ runs[worker.run] \in RunRecords
      BY <1>q, <1>17, Recorded DEF TypeOK, Named
    <2>2. runs[worker.run].status = "running"
      BY <1>17, <2>1 DEF Places, Place, AtWorker
    <2> QED BY <1>h, <2>1, <2>2 DEF HeldRun
  <1>18. CASE Hold
    <2> PICK w : w = worker.run
      OBVIOUS
    <2>1. /\ worker.at = "hold" /\ worker' = Idle /\ UNCHANGED <<approvals, queue, answering>>
          /\ runs' = [runs EXCEPT ![w].status = "waiting", ![w].step = worker.step, ![w].on = worker.on,
                                  ![w].answer = [id |-> worker.on, status |-> "requested"]]
      BY <1>18 DEF Hold
    <2>2. w \in Runs /\ runs[w] \in RunRecords /\ runs[w].wake = Never
      BY <1>17, <2>1
    <2>3. /\ Runs' = Runs /\ \A r \in Runs \ {w} : runs'[r] = runs[r]
          /\ runs'[w].status = "waiting" /\ runs'[w].on = worker.on /\ runs'[w].wake = Never
      BY <1>q, <2>1, <2>2 DEF Runs, RunRecords
    <2>4. approvals[worker.on].run = w
      BY <2>1 DEF Held
    <2>5. HeldRun(w)'
      BY <2>1, <2>3, <2>4 DEF HeldRun
    <2> QED BY <1>16, <2>1, <2>2, <2>3, <2>5 DEF Idle
  <1>19. ASSUME NEW status \in {"waiting", "done", "stopped"}, NEW wake \in Nat \cup {Never}, Running,
                PutDown(status, Here.on, wake), UNCHANGED <<approvals, queue, answering>>
         PROVE  Held' /\ Tolds'
    <2> PICK w : w = worker.run
      OBVIOUS
    <2>1. Here.on = 0 /\ w \in Runs
      BY <1>17, <1>19 DEF Here, Running
    <2>2. /\ Runs' = Runs /\ \A r \in Runs \ {w} : runs'[r] = runs[r]
          /\ runs'[w].status = status /\ runs'[w].on = 0 /\ worker' = Idle
      BY <1>19, <2>1, PutDownTyped
    <2>3. HeldRun(w)'
      BY <2>2 DEF HeldRun
    <2> QED BY <1>16, <1>19, <2>1, <2>2, <2>3 DEF Idle
  <1>20. CASE DoWait \/ DoStop \/ End
    <2>1. now + 1 \in Nat
      BY DEF TypeOK
    <2>2. Running => Here.wake \in Nat \cup {Never}
      BY <1>q, WorkerAtRun, Recorded DEF Here
    <2> QED BY <1>19, <1>20, <2>1, <2>2 DEF DoWait, DoStop, End, Doing
  <1>21. CASE Fail
    <2> PICK w : w = worker.run
      OBVIOUS
    <2>1. /\ Running /\ worker' = Idle /\ UNCHANGED <<approvals, queue, answering>>
          /\ runs' = [runs EXCEPT ![w].status = "failed"]
      BY <1>21 DEF Fail
    <2>2. w \in Runs /\ runs[w] \in RunRecords
      BY <1>17, <2>1 DEF Running
    <2>3. /\ Runs' = Runs /\ \A r \in Runs \ {w} : runs'[r] = runs[r]
          /\ runs'[w].status = "failed"
      BY <1>q, <2>1, <2>2 DEF Runs, RunRecords
    <2>4. HeldRun(w)'
      BY <2>3 DEF HeldRun
    <2> QED BY <1>16, <2>1, <2>2, <2>3, <2>4 DEF Idle
  <1>22. ASSUME NEW w \in Runs, Wake(w) PROVE Held' /\ Tolds'
    <2>1. /\ runs' = [runs EXCEPT ![w].status = "running", ![w].wake = Never, ![w].step = StepAfter(w)]
          /\ queue' = Append(queue, Run(w, 0)) /\ UNCHANGED <<worker, approvals, answering>>
          /\ runs[w].status = "waiting" /\ runs[w].wake # Never
      BY <1>22 DEF Wake, Enqueued
    <2>2. runs[w] \in RunRecords /\ runs[w].on = 0
      BY <1>q, <1>h, <2>1, Recorded DEF HeldRun
    <2>3. /\ Runs' = Runs /\ \A r \in Runs \ {w} : runs'[r] = runs[r]
          /\ runs'[w].status = "running" /\ runs'[w].on = 0 /\ runs'[w].wake = Never
      BY <1>q, <2>1, <2>2 DEF Runs, RunRecords
    <2>4. \A r \in Runs : HeldRun(r)'
      <3>1. HeldRun(w)'
        BY <2>3 DEF HeldRun
      <3>2. \A r \in Runs \ {w} : HeldRun(r)'
        BY <1>h, <1>o, <2>1, <2>3, HeldKept
      <3> QED BY <3>1, <3>2
    <2>5. \A a : WaitedFor(a)' => WaitedFor(a)
      BY <2>1, <2>3, WaitedKept DEF WaitsOn
    <2>6. \A a : FirstTold(a) => FirstTold(a)'
      <3>1. Run(w, 0) \in Items
        <4>1. w \in Nat
          BY <1>q DEF Runs
        <4> QED BY <4>1, ItemsMade
      <3> QED BY <1>2, <2>1, <3>1
    <2> QED BY <2>1, <2>3, <2>4, <2>5, <2>6, NoApprovalChanged
  <1>23. ~Crash
    BY DEF Crash, Uncrashed
  <1> QED BY <1>3, <1>5, <1>6, <1>7, <1>8, <1>9, <1>10, <1>11, <1>12, <1>13, <1>14, <1>15, <1>18,
             <1>20, <1>21, <1>22, <1>23 DEF Next, Work

(* While the server does not stop, the answer a run waits for is on its    *)
(* way to it: about to be told, or on the queue.                           *)
THEOREM AnswersOnTheirWay == ASSUME Uncrashed PROVE Spec => []AnswerOnItsWay
  <1>1. Init => Places /\ Held /\ Tolds
    BY DEF Init, Places, Once, Held, Tolds, Runs, Idle
  <1>2. TypeOK /\ Places /\ Held /\ Tolds /\ [Next]_vars => Places' /\ Held' /\ Tolds'
    BY PlacesStep, ToldStep
  <1>3. Tolds => AnswerOnItsWay
    <2>1. \A a : FirstTold(a) => ToldOf(a)
      BY DEF FirstTold, FirstAt, FirstOn, ToldOf
    <2> QED BY <2>1 DEF Tolds, Told, AnswerOnItsWay
  <1> QED BY <1>1, <1>2, <1>3, TypeCorrect, PTL DEF Spec

(* Nothing that has still to happen is forgotten while the server is up.   *)
THEOREM AllOnTheirWay == ASSUME Uncrashed PROVE Spec => []OnTheirWay
  <1>1. AnswerOnItsWay /\ RunOnItsWay => OnTheirWay
    BY DEF OnTheirWay
  <1> QED BY <1>1, AnswersOnTheirWay, RunsOnTheirWay, PTL

----------------------------------------------------------------------------
(* A schedule counts from the last run, though what is in memory of it is  *)
(* lost in a restart: the runs are recorded in the order they started.     *)

ByClock == "byhand" \notin Hazards

Clocked ==
    /\ \A r \in Runs : runs[r].started <= now
    /\ \A q, r \in Runs : q < r => runs[q].started <= runs[r].started
    /\ \A f \in FlowIds : Trigger[f] = "schedule" /\ scheduled[f] # Never =>
          \A r \in RunsOf(f) : runs[r].started <= scheduled[f]
    /\ \A f \in FlowIds : RunsOf(f) # {} => \E r \in RunsOf(f) : \A q \in RunsOf(f) : q <= r
    /\ worker.at = "match" => \A f \in worker.left : Trigger[f] = "record"

(* No run is started, and none is of another flow or another time.         *)
RunsStay == Runs' = Runs /\ \A r \in Runs : runs'[r].flow = runs[r].flow /\ runs'[r].started = runs[r].started

LEMMA RunStays ==
    ASSUME TypeOK, NEW w \in Runs, NEW run \in RunRecords, runs' = [runs EXCEPT ![w] = run],
           run.flow = runs[w].flow, run.started = runs[w].started
    PROVE  RunsStay
  BY DEF TypeOK, Runs, RunsStay

(* Every step starts one run, or leaves them as they began.                *)
LEMMA RunsStep ==
    ASSUME TypeOK, [Next]_vars
    PROVE  \/ RunsStay
           \/ \E f \in FlowIds, depth \in Nat, chain \in Nat :
                Start(f, depth, chain) /\ (RunNow(f) \/ Match(f) \/ StartDue(f))
  <1>q. runs \in Seq(RunRecords)
    BY DEF TypeOK
  <1>1. ASSUME UNCHANGED runs PROVE RunsStay
    BY <1>1 DEF RunsStay, Runs
  <1>2. ASSUME NEW f \in FlowIds, RunNow(f) \/ StartDue(f)
        PROVE  \E depth \in Nat, chain \in Nat : Start(f, depth, chain)
    BY <1>2 DEF RunNow, StartDue
  <1>3. ASSUME NEW f \in FlowIds, Match(f)
        PROVE  RunsStay \/ \E depth \in Nat, chain \in Nat : Start(f, depth, chain)
    <2>1. worker \in [at : {"match"}, change : ChangeItems, left : SUBSET FlowIds]
      BY <1>3, WorkerKinds DEF Match, TypeOK
    <2>2. worker.change.depth + 1 \in Nat /\ worker.change.chain + 1 \in Nat
      BY <2>1 DEF ChangeItems
    <2> QED BY <1>1, <1>3, <2>2 DEF Match
  <1>4. CASE TakeAnswer
    <2> PICK w : w = approvals[Head(queue).id].run
      OBVIOUS
    <2>1. CASE UNCHANGED runs
      BY <1>1, <2>1
    <2>2. CASE runs' = [runs EXCEPT ![w].status = "running", ![w].on = 0, ![w].step = StepAfter(w),
                                    ![w].answer = [id |-> Head(queue).id, status |-> Head(queue).status]]
      <3>1. queue \in Seq(Items) /\ queue # <<>> /\ Head(queue).kind = "answer"
        BY <1>4 DEF TakeAnswer, Taken, TypeOK
      <3>2. Head(queue) = queue[1] /\ 1 \in DOMAIN queue /\ Head(queue) \in AnswerItems
        BY <3>1, QueueShrinks, ItemKinds
      <3>3. w \in Runs
        BY <3>1, <3>2 DEF TypeOK, Named
      <3>4. runs[w] \in RunRecords /\ StepAfter(w) \in Nat \ {0}
        BY <1>q, <3>3, Recorded DEF StepAfter
      <3> DEFINE run == [runs[w] EXCEPT !.status = "running", !.on = 0, !.step = StepAfter(w),
                                        !.answer = [id |-> Head(queue).id, status |-> Head(queue).status]]
      <3>5. run \in RunRecords /\ run.flow = runs[w].flow /\ run.started = runs[w].started
        BY <3>2, <3>4 DEF RunRecords, AnswerItems
      <3>6. runs' = [runs EXCEPT ![w] = run]
        BY <2>2
      <3> HIDE DEF run
      <3> QED BY <3>3, <3>5, <3>6, RunStays
    <2> QED BY <1>4, <2>1, <2>2 DEF TakeAnswer
  <1>5. CASE Hold
    <2> PICK w : w = worker.run
      OBVIOUS
    <2>1. /\ worker.at = "hold"
          /\ runs' = [runs EXCEPT ![w].status = "waiting", ![w].step = worker.step, ![w].on = worker.on,
                                  ![w].answer = [id |-> worker.on, status |-> "requested"]]
      BY <1>5 DEF Hold
    <2>2. w \in Runs /\ worker.step \in Nat \ {0} /\ worker.on \in Nat
      BY <2>1, WorkerKinds DEF TypeOK, Named
    <2>3. runs[w] \in RunRecords
      BY <1>q, <2>2, Recorded
    <2> DEFINE run == [runs[w] EXCEPT !.status = "waiting", !.step = worker.step, !.on = worker.on,
                                      !.answer = [id |-> worker.on, status |-> "requested"]]
    <2>4. run \in RunRecords /\ run.flow = runs[w].flow /\ run.started = runs[w].started
      BY <2>2, <2>3 DEF RunRecords, Statuses
    <2>5. runs' = [runs EXCEPT ![w] = run]
      BY <2>1
    <2> HIDE DEF run
    <2> QED BY <2>2, <2>4, <2>5, RunStays
  <1>6. ASSUME NEW status \in {"waiting", "done", "stopped"}, NEW wake \in Nat \cup {Never}, Running,
               PutDown(status, Here.on, wake)
        PROVE  RunsStay
    <2> PICK w : w = worker.run
      OBVIOUS
    <2>1. w \in Runs /\ worker.step \in Nat \ {0}
      BY <1>6, WorkerAtRun
    <2>2. runs[w] \in RunRecords /\ Here.on \in Nat
      BY <1>q, <2>1, Recorded DEF Here
    <2> DEFINE run == [runs[w] EXCEPT !.status = status, !.step = worker.step, !.on = Here.on, !.wake = wake]
    <2>3. run \in RunRecords /\ run.flow = runs[w].flow /\ run.started = runs[w].started
      BY <2>1, <2>2 DEF RunRecords
    <2>4. runs' = [runs EXCEPT ![w] = run]
      BY <1>6 DEF PutDown
    <2> HIDE DEF run
    <2> QED BY <2>1, <2>3, <2>4, RunStays
  <1>7. CASE DoWait \/ DoStop \/ End
    <2>1. now + 1 \in Nat
      BY DEF TypeOK
    <2>2. Running => Here.wake \in Nat \cup {Never}
      BY <1>q, WorkerAtRun, Recorded DEF Here
    <2> QED BY <1>6, <1>7, <2>1, <2>2 DEF DoWait, DoStop, End, Doing
  <1>8. CASE Fail
    <2> PICK w : w = worker.run
      OBVIOUS
    <2>1. Running /\ runs' = [runs EXCEPT ![w].status = "failed"]
      BY <1>8 DEF Fail
    <2>2. w \in Runs /\ runs[w] \in RunRecords
      BY <1>q, <2>1, WorkerAtRun, Recorded
    <2> DEFINE run == [runs[w] EXCEPT !.status = "failed"]
    <2>3. run \in RunRecords /\ run.flow = runs[w].flow /\ run.started = runs[w].started
      BY <2>2 DEF RunRecords
    <2>4. runs' = [runs EXCEPT ![w] = run]
      BY <2>1
    <2> HIDE DEF run
    <2> QED BY <2>2, <2>3, <2>4, RunStays
  <1>9. ASSUME NEW w \in Runs, Wake(w) PROVE RunsStay
    <2>1. runs[w] \in RunRecords /\ StepAfter(w) \in Nat \ {0}
      BY <1>q, Recorded DEF StepAfter
    <2> DEFINE run == [runs[w] EXCEPT !.status = "running", !.wake = Never, !.step = StepAfter(w)]
    <2>2. run \in RunRecords /\ run.flow = runs[w].flow /\ run.started = runs[w].started
      BY <2>1 DEF RunRecords
    <2>3. runs' = [runs EXCEPT ![w] = run]
      BY <1>9 DEF Wake
    <2> HIDE DEF run
    <2> QED BY <2>2, <2>3, RunStays
  <1> QED
    BY <1>1, <1>2, <1>3, <1>4, <1>5, <1>7, <1>8, <1>9
    DEF Next, Work, vars, records, memory, Write, LookAnswer, SaveAnswer, TellAnswer, TakeChange, Matched, TakeRun,
        Skip, DoWrite, DoQuiet, DoAsk, Tick, Crash

(* Where no run is started or only the clock moves.                        *)
LEMMA ClockedStays ==
    ASSUME TypeOK, Clocked, RunsStay, now <= now', now' \in Nat,
           \A f \in FlowIds : scheduled'[f] = scheduled[f] \/ scheduled'[f] = Never,
           worker'.at = "match" => \A f \in worker'.left : Trigger[f] = "record"
    PROVE  Clocked'
  <1>1. \A r \in Runs : runs[r].started \in Nat /\ Runs' = Runs /\ now \in Nat
    BY Recorded DEF TypeOK, RunsStay
  <1>2. \A f \in FlowIds : RunsOf(f)' = RunsOf(f) /\ RunsOf(f) \subseteq Runs
    BY DEF RunsOf, RunsStay
  <1>3. \A r \in Runs : runs'[r].started <= now'
    <2>1. \A s, n, m \in Nat : s <= n /\ n <= m => s <= m
      OBVIOUS
    <2> QED BY <1>1, <2>1 DEF Clocked, RunsStay
  <1>4. \A q, r \in Runs : q < r => runs'[q].started <= runs'[r].started
    BY DEF Clocked, RunsStay
  <1>5. \A f \in FlowIds : Trigger[f] = "schedule" /\ scheduled'[f] # Never =>
            \A r \in RunsOf(f) : runs'[r].started <= scheduled'[f]
    BY <1>2 DEF Clocked, RunsStay
  <1>6. \A f \in FlowIds : RunsOf(f)' # {} => \E r \in RunsOf(f)' : \A q \in RunsOf(f)' : q <= r
    BY <1>2 DEF Clocked
  <1>7. \A f \in FlowIds : Trigger[f] = "schedule" /\ scheduled'[f] # Never =>
            \A r \in RunsOf(f)' : runs'[r].started <= scheduled'[f]
    BY <1>2, <1>5
  <1>8. /\ \A r \in Runs' : runs'[r].started <= now'
        /\ \A q, r \in Runs' : q < r => runs'[q].started <= runs'[r].started
    BY <1>3, <1>4 DEF RunsStay
  <1> QED BY <1>6, <1>7, <1>8 DEF Clocked

LEMMA ClockedStart ==
    ASSUME TypeOK, Clocked, NEW f \in FlowIds, NEW depth \in Nat, NEW chain \in Nat, Start(f, depth, chain), UNCHANGED now,
           \A g \in FlowIds : scheduled'[g] = scheduled[g] \/ (g = f /\ scheduled'[g] = now),
           Trigger[f] = "schedule" => scheduled'[f] = now,
           worker'.at = "match" => \A g \in worker'.left : Trigger[g] = "record"
    PROVE  Clocked'
  <1> PICK n : n = Len(runs) + 1
    OBVIOUS
  <1>1. /\ \A r \in Runs : runs'[r] = runs[r]
        /\ Runs' = Runs \cup {n} /\ runs'[n].flow = f
    BY Started
  <1>2. runs \in Seq(RunRecords) /\ now \in Nat /\ n \in Nat /\ \A r \in Runs : r < n /\ r \in Nat
    BY DEF TypeOK, Runs
  <1>3. runs'[n].started = now
    BY <1>2 DEF Start
  <1>4. \A r \in Runs : runs[r].started \in Nat /\ runs[r].started <= now
    BY <1>2, Recorded DEF Clocked
  <1>5. \A r \in Runs' : runs'[r].started <= now
    BY <1>1, <1>2, <1>3, <1>4
  <1>6. \A q, r \in Runs' : q < r => runs'[q].started <= runs'[r].started
    <2> SUFFICES ASSUME NEW q \in Runs', NEW r \in Runs', q < r PROVE runs'[q].started <= runs'[r].started
      OBVIOUS
    <2>1. CASE r = n
      BY <1>3, <1>5, <2>1
    <2>2. CASE r \in Runs
      <3>1. q \in Runs
        BY <1>1, <1>2, <2>2
      <3> QED BY <1>1, <2>2, <3>1 DEF Clocked
    <2> QED BY <1>1, <2>1, <2>2
  <1>7. /\ RunsOf(f)' = RunsOf(f) \cup {n}
        /\ \A g \in FlowIds \ {f} : RunsOf(g)' = RunsOf(g)
    BY <1>1, <1>2 DEF RunsOf
  <1>8. \A g \in FlowIds : RunsOf(g) \subseteq Runs
    BY DEF RunsOf
  <1>9. ASSUME NEW g \in FlowIds, Trigger[g] = "schedule", scheduled'[g] # Never, NEW r \in RunsOf(g)'
        PROVE  runs'[r].started <= scheduled'[g]
    <2>1. CASE g = f
      <3>1. r \in Runs'
        BY <1>1, <1>7, <1>8, <1>9, <2>1
      <3> QED BY <1>5, <1>9, <2>1, <3>1
    <2>2. CASE g # f
      <3>1. r \in RunsOf(g) /\ r \in Runs /\ scheduled'[g] = scheduled[g]
        BY <1>7, <1>8, <1>9, <2>2
      <3> QED BY <1>1, <1>9, <3>1 DEF Clocked
    <2> QED BY <2>1, <2>2
  <1>10. ASSUME NEW g \in FlowIds, RunsOf(g)' # {} PROVE \E r \in RunsOf(g)' : \A q \in RunsOf(g)' : q <= r
    <2>1. CASE g = f
      <3>1. n \in RunsOf(g)' /\ \A q \in RunsOf(g)' : q <= n
        BY <1>2, <1>7, <1>8, <2>1
      <3> QED BY <3>1
    <2>2. CASE g # f
      BY <1>7, <1>10, <2>2 DEF Clocked
    <2> QED BY <2>1, <2>2
  <1> QED BY <1>5, <1>6, <1>9, <1>10 DEF Clocked

LEMMA ClockedStep == ByClock /\ TypeOK /\ Clocked /\ [Next]_vars => Clocked'
  <1> SUFFICES ASSUME ByClock, TypeOK, Clocked, [Next]_vars PROVE Clocked'
    OBVIOUS
  <1>1. now \in Nat /\ scheduled \in [FlowIds -> Nat \cup {Never}]
    BY DEF TypeOK
  <1>2. worker'.at = "match" => \A f \in worker'.left : Trigger[f] = "record"
    <2>1. ASSUME UNCHANGED worker \/ worker'.at # "match" PROVE worker'.at = "match" => \A f \in worker'.left : Trigger[f] = "record"
      BY <2>1 DEF Clocked
    <2>2. CASE TakeChange
      BY <2>2 DEF TakeChange
    <2>3. ASSUME NEW f \in FlowIds, Match(f) PROVE \A g \in worker'.left : Trigger[g] = "record"
      <3>1. /\ worker \in [at : {"match"}, change : ChangeItems, left : SUBSET FlowIds]
            /\ worker' = [worker EXCEPT !.left = @ \ {f}]
        BY <2>3, WorkerKinds DEF Match, TypeOK
      <3>2. worker'.left = worker.left \ {f} /\ worker.at = "match"
        BY <3>1
      <3> QED BY <3>2 DEF Clocked
    <2>4. ASSUME Skip \/ DoWrite \/ DoQuiet PROVE worker'.at # "match"
      BY <2>4, GoneOn DEF Skip, DoWrite, DoQuiet, Doing
    <2>5. \A w : worker' = [at |-> "hold", run |-> w.run, step |-> w.step, on |-> Len(approvals) + 1] => worker'.at # "match"
      OBVIOUS
    <2>6. DoAsk => worker'.at # "match"
      BY <2>5 DEF DoAsk
    <2>7. TakeRun => worker'.at # "match"
      BY DEF TakeRun, Idle
    <2>8. worker' = Idle => worker'.at # "match"
      BY IdleIs
    <2> QED
      BY <2>1, <2>2, <2>3, <2>4, <2>6, <2>7, <2>8
      DEF Next, Work, vars, records, memory, Write, RunNow, LookAnswer, SaveAnswer, TellAnswer, Matched, TakeAnswer,
          Hold, DoWait, DoStop, End, Fail, PutDown, StartDue, Wake, Tick, Crash
  <1>3. ASSUME NEW f \in FlowIds, NEW depth \in Nat, NEW chain \in Nat, Start(f, depth, chain), Match(f) PROVE Clocked'
    <2>1. UNCHANGED <<now, scheduled>>
      BY <1>3 DEF Match, bounds
    <2>2. Trigger[f] = "record"
      BY <1>3 DEF Match, Clocked
    <2> QED BY <1>2, <1>3, <2>1, <2>2, ClockedStart
  <1>4. ASSUME NEW f \in FlowIds, NEW depth \in Nat, NEW chain \in Nat, Start(f, depth, chain), StartDue(f) PROVE Clocked'
    <2>1. scheduled' = [scheduled EXCEPT ![f] = now] /\ UNCHANGED now
      BY <1>4 DEF StartDue, bounds
    <2>2. scheduled'[f] = now /\ \A g \in FlowIds : g # f => scheduled'[g] = scheduled[g]
      BY <1>1, <2>1
    <2> QED BY <1>2, <1>4, <2>1, <2>2, ClockedStart
  <1>5. \A f \in FlowIds : ~RunNow(f)
    BY DEF RunNow, ByClock
  <1>6. ASSUME RunsStay PROVE Clocked'
    <2>t. now' = now \/ now' = now + 1
      BY DEF Next, Work, vars, records, memory, bounds, Write, RunNow, LookAnswer, SaveAnswer, TellAnswer, TakeChange,
          Match, Matched, TakeAnswer, TakeRun, Skip, DoWrite, DoQuiet, DoAsk, Hold, DoWait, DoStop, End, Fail,
          StartDue, Wake, Tick, Crash
    <2>1. now' \in Nat /\ now <= now'
      BY <1>1, <2>t
    <2>2. \A f \in FlowIds : ~StartDue(f)
      <3>1. \A f \in FlowIds : StartDue(f) => Runs' # Runs
        BY Started DEF StartDue
      <3> QED BY <1>6, <3>1 DEF RunsStay
    <2>3. scheduled' = scheduled \/ scheduled' = [f \in FlowIds |-> Never]
      BY <2>2 DEF Next, Work, vars, records, memory, Write, RunNow, LookAnswer, SaveAnswer, TellAnswer, TakeChange,
          Match, Matched, TakeAnswer, TakeRun, Skip, DoWrite, DoQuiet, DoAsk, Hold, DoWait, DoStop, End, Fail,
          Wake, Tick, Crash
    <2> QED BY <1>2, <1>6, <2>1, <2>3, ClockedStays
  <1> QED BY <1>3, <1>4, <1>5, <1>6, RunsStep

(* A flow is due only long enough after each run it had.                   *)
LEMMA DueIsLater ==
    ASSUME TypeOK, Clocked, NEW f \in FlowIds, StartDue(f), NEW q \in RunsOf(f)
    PROVE  now - runs[q].started >= Every
  <1>1. /\ runs \in Seq(RunRecords) /\ now \in Nat /\ scheduled[f] \in Nat \cup {Never} /\ q \in Runs
        /\ Trigger[f] = "schedule" /\ RunsOf(f) \subseteq Runs
        /\ LastStart(f) = Never \/ now - LastStart(f) >= Every
    BY DEF TypeOK, StartDue, RunsOf
  <1>2. Never \notin Nat /\ Every \in Nat /\ runs[q].started \in Nat
    BY <1>1, ConstantsAssumption, Recorded DEF Never
  <1>3. LastStart(f) \in Nat /\ runs[q].started <= LastStart(f)
    <2>1. CASE scheduled[f] # Never
      BY <1>1, <2>1 DEF LastStart, Clocked
    <2>2. CASE scheduled[f] = Never
      <3> DEFINE last == CHOOSE r \in RunsOf(f) : \A p \in RunsOf(f) : p <= r
      <3>1. LastStart(f) = runs[last].started
        BY <2>2 DEF LastStart
      <3>2. \E r \in RunsOf(f) : \A p \in RunsOf(f) : p <= r
        BY DEF Clocked
      <3>3. last \in RunsOf(f) /\ \A p \in RunsOf(f) : p <= last
        BY <3>2
      <3> HIDE DEF last
      <3>4. last \in Runs /\ runs[last].started \in Nat /\ q <= last
        BY <1>1, <3>3, Recorded
      <3>5. q = last \/ q < last
        <4>1. q \in Nat /\ last \in Nat
          BY <1>1, <3>4 DEF Runs
        <4> QED BY <3>4, <4>1
      <3> QED BY <1>1, <1>2, <3>1, <3>4, <3>5 DEF Clocked
    <2> QED BY <2>1, <2>2
  <1>4. LastStart(f) # Never
    BY <1>2, <1>3
  <1> QED BY <1>1, <1>2, <1>3, <1>4

(* "A schedule fires ... every so often from the last run", over restarts  *)
(* too, where flows are not run by hand beside their schedule.             *)
THEOREM CountsFromLastRun == ASSUME ByClock PROVE Spec => []FromLastRun
  <1> DEFINE IInv == TypeOK /\ Clocked /\ FromLastRun
  <1>1. Init => IInv
    BY InitTyped DEF Init, Clocked, FromLastRun, Runs, RunsOf, Idle
  <1>2. IInv /\ [Next]_vars => IInv'
    <2> SUFFICES ASSUME IInv, [Next]_vars PROVE FromLastRun'
      BY TypeStep, ClockedStep
    <2>1. CASE RunsStay
      BY <2>1 DEF FromLastRun, RunsStay
    <2>2. ASSUME NEW f \in FlowIds, NEW depth \in Nat, NEW chain \in Nat, Start(f, depth, chain),
                 Match(f) \/ StartDue(f)
          PROVE  FromLastRun'
      <3> PICK n : n = Len(runs) + 1
        OBVIOUS
      <3>1. /\ \A r \in Runs : runs'[r] = runs[r]
            /\ Runs' = Runs \cup {n} /\ runs'[n].flow = f
        BY <2>2, Started
      <3>2. runs \in Seq(RunRecords) /\ n \in Nat /\ \A r \in Runs : r < n /\ r \in Nat
        BY DEF TypeOK, Runs
      <3>3. runs'[n].started = now
        BY <2>2, <3>2 DEF Start
      <3>4. Match(f) => Trigger[f] # "schedule"
        BY DEF Match, Clocked
      <3>5. ASSUME NEW q \in Runs, runs[q].flow = f, Trigger[f] = "schedule" PROVE now - runs[q].started >= Every
        BY <2>2, <3>4, <3>5, DueIsLater DEF RunsOf
      <3>6. \A q, r \in Runs' : q < r => q \in Runs
        BY <3>1, <3>2
      <3> QED BY <3>1, <3>3, <3>5, <3>6 DEF FromLastRun
    <2>3. \A f \in FlowIds : ~RunNow(f)
      BY DEF RunNow, ByClock
    <2> QED BY <2>1, <2>2, <2>3, RunsStep
  <1> QED BY <1>1, <1>2, PTL DEF Spec

----------------------------------------------------------------------------
(* A step that is for one answer is done only on that answer.  Why: where  *)
(* an approval is answered once, what the queue says of an answer stays    *)
(* so; and a run that can go on goes by its latest approval.               *)

InOrderAsked == "race" \notin Hazards

Saving(p) == answering[p].step = "save"

Truthful ==
    /\ \A p \in People : Saving(p) => approvals[answering[p].id].status = "requested"
    /\ \A p, q \in People : p # q => ~(Saving(p) /\ Saving(q))
    /\ \A i \in DOMAIN queue : queue[i].kind = "answer" /\ queue[i].status # "requested" =>
          approvals[queue[i].id].status = queue[i].status

Latest(a, r) ==
    /\ a \in DOMAIN approvals /\ approvals[a].run = r
    /\ \A b \in DOMAIN approvals : approvals[b].run = r => b <= a

(* Whether the run may still do a step.                                    *)
Live(r) == \/ runs[r].status = "waiting"
           \/ On(queue, r)
           \/ worker.at = "run" /\ worker.run = r

OnlyAt(r, k) ==
    LET only == Steps[runs[r].flow][k].only
    IN  only # "always" =>
          /\ only \in Answers
          /\ \E a \in AskedBefore(r, k) : /\ approvals[a].status = only
                                          /\ \A b \in AskedBefore(r, k) : b <= a
OnlyIf(r) == \A j \in DOMAIN did[r] : OnlyAt(r, did[r][j])

AskedDone(r) ==
    \A a \in DOMAIN approvals : approvals[a].run = r => \E j \in DOMAIN did[r] : did[r][j] = approvals[a].step

GoesBy(r) ==
    /\ HeldRun(r) /\ AskedDone(r) /\ OnlyIf(r)
    /\ runs[r].status = "waiting" /\ runs[r].on # 0 => Latest(runs[r].on, r)
    /\ Live(r) /\ runs[r].answer.status \in Answers =>
          Latest(runs[r].answer.id, r) /\ approvals[runs[r].answer.id].status = runs[r].answer.status

Truly ==
    /\ Truthful
    /\ worker.at = "hold" => Latest(worker.on, worker.run)
    /\ \A r \in Runs : GoesBy(r)

(* The approvals that there are stay, and an answer given stays given.     *)
AsksStay ==
    \A a \in DOMAIN approvals :
        /\ a \in (DOMAIN approvals)'
        /\ approvals'[a].run = approvals[a].run /\ approvals'[a].step = approvals[a].step
        /\ approvals[a].status # "requested" => approvals'[a].status = approvals[a].status
NoNewAsk(r) == \A a \in (DOMAIN approvals)' : approvals'[a].run = r => a \in DOMAIN approvals

LEMMA LatestKept ==
    ASSUME AsksStay, NEW r, NoNewAsk(r), NEW a, Latest(a, r)
    PROVE  Latest(a, r)'
  BY DEF AsksStay, NoNewAsk, Latest

(* What is asked at a step or after it does not bear on the step.          *)
LEMMA OnlyAtKept ==
    ASSUME AsksStay, NEW r, NEW k \in Nat, OnlyAt(r, k), runs'[r].flow = runs[r].flow,
           \A a \in (DOMAIN approvals)' : approvals'[a].run = r => a \in DOMAIN approvals \/ ~(approvals'[a].step < k)
    PROVE  OnlyAt(r, k)'
  <1> DEFINE only == Steps[runs[r].flow][k].only
  <1>1. AskedBefore(r, k)' = AskedBefore(r, k)
    BY DEF AskedBefore, AsksStay
  <1>2. \A a \in AskedBefore(r, k) : approvals[a].status # "requested" => approvals'[a].status = approvals[a].status
    BY DEF AskedBefore, AsksStay
  <1>3. only' = only
    OBVIOUS
  <1>4. "requested" \notin Answers
    BY DEF Answers
  <1>5. only # "always" =>
          /\ only \in Answers
          /\ \E a \in AskedBefore(r, k) : /\ approvals[a].status = only
                                          /\ \A b \in AskedBefore(r, k) : b <= a
    BY DEF OnlyAt
  <1> HIDE DEF only
  <1>6. only' # "always" =>
          /\ only' \in Answers
          /\ \E a \in AskedBefore(r, k)' : /\ approvals'[a].status = only'
                                           /\ \A b \in AskedBefore(r, k)' : b <= a
    BY <1>1, <1>2, <1>3, <1>4, <1>5
  <1> QED BY <1>6 DEF OnlyAt, only

(* Where a run does a step at most, and asks at that step if it asks.      *)
LEMMA DidKept ==
    ASSUME TypeOK, NEW r \in Runs, AsksStay, AskedDone(r), OnlyIf(r), runs'[r].flow = runs[r].flow,
           NEW k \in Nat,
           \/ did'[r] = did[r] /\ NoNewAsk(r)
           \/ /\ did'[r] = Append(did[r], k) /\ OnlyAt(r, k) /\ Before(did[r], k)
              /\ \A a \in (DOMAIN approvals)' : approvals'[a].run = r => a \in DOMAIN approvals \/ approvals'[a].step = k
    PROVE  AskedDone(r)' /\ OnlyIf(r)'
  <1>1. did[r] \in Seq(Nat) /\ \A j \in DOMAIN did[r] : did[r][j] \in Nat
    <2>1. did[r] \in Seq(Nat)
      BY DEF TypeOK, Runs
    <2> QED BY <2>1
  <1>2. CASE did'[r] = did[r] /\ NoNewAsk(r)
    <2>1. AskedDone(r)'
      BY <1>2 DEF AskedDone, AsksStay, NoNewAsk
    <2>2. \A j \in DOMAIN did[r] : OnlyAt(r, did[r][j])'
      <3> SUFFICES ASSUME NEW i \in DOMAIN did[r] PROVE OnlyAt(r, did[r][i])'
        OBVIOUS
      <3> PICK m \in Nat : m = did[r][i]
        BY <1>1
      <3>1. OnlyAt(r, m)
        BY DEF OnlyIf
      <3>2. OnlyAt(r, m)'
        BY <1>2, <3>1, OnlyAtKept DEF NoNewAsk
      <3> QED BY <1>2, <3>2 DEF OnlyAt, AskedBefore
    <2> QED BY <1>2, <2>1, <2>2 DEF OnlyIf
  <1>3. CASE /\ did'[r] = Append(did[r], k) /\ OnlyAt(r, k) /\ Before(did[r], k)
             /\ \A a \in (DOMAIN approvals)' : approvals'[a].run = r => a \in DOMAIN approvals \/ approvals'[a].step = k
    <2> PICK s \in Seq(Nat) : s = did[r]
      BY <1>1
    <2> PICK t : t = did'[r]
      OBVIOUS
    <2>1. /\ \A j \in DOMAIN s : j \in DOMAIN t /\ t[j] = s[j] /\ s[j] \in Nat /\ s[j] < k
          /\ \A j \in DOMAIN t : j \in DOMAIN s \/ t[j] = k
          /\ \E j \in DOMAIN t : t[j] = k
      <3>1. Len(s) + 1 \in DOMAIN t /\ t[Len(s) + 1] = k
        BY <1>3
      <3>2. \A j \in DOMAIN t : j \in DOMAIN s \/ j = Len(s) + 1
        BY <1>3
      <3>3. \A j \in DOMAIN s : j \in DOMAIN t /\ t[j] = s[j]
        BY <1>3
      <3> QED BY <1>1, <1>3, <3>1, <3>2, <3>3 DEF Before
    <2>2. AskedDone(r)'
      <3>1. \A a \in DOMAIN approvals : approvals[a].run = r => \E j \in DOMAIN s : s[j] = approvals[a].step
        BY DEF AskedDone
      <3>2. \A a \in (DOMAIN approvals)' : approvals'[a].run = r => \E j \in DOMAIN t : t[j] = approvals'[a].step
        BY <1>3, <2>1, <3>1 DEF AsksStay
      <3> QED BY <3>2 DEF AskedDone
    <2>3. ASSUME NEW m \in Nat, m < k \/ m = k, OnlyAt(r, m) PROVE OnlyAt(r, m)'
      <3>1. \A a \in (DOMAIN approvals)' : approvals'[a].run = r => a \in DOMAIN approvals \/ ~(approvals'[a].step < m)
        BY <1>3, <2>3
      <3> QED BY <2>3, <3>1, OnlyAtKept
    <2>4. OnlyAt(r, k)'
      BY <1>3, <2>3
    <2>5. \A j \in DOMAIN s : OnlyAt(r, s[j])
      BY DEF OnlyIf
    <2>6. ASSUME NEW i \in DOMAIN t PROVE OnlyAt(r, t[i])'
      <3> PICK m \in Nat : m = t[i] /\ (m < k \/ m = k)
        BY <2>1
      <3>1. OnlyAt(r, m)'
        <4>1. CASE m = k
          BY <2>4, <4>1
        <4>2. CASE m < k
          <5>1. OnlyAt(r, m)
            BY <2>1, <2>5, <4>2
          <5> QED BY <2>3, <4>2, <5>1
        <4> QED BY <4>1, <4>2
      <3> QED BY <3>1 DEF OnlyAt, AskedBefore
    <2> QED BY <2>2, <2>6 DEF OnlyIf
  <1> QED BY <1>2, <1>3

(* A run that may go on as it could, or on its latest approval's answer.   *)
LEMMA GoesByMoved ==
    ASSUME TypeOK, NEW r \in Runs, AsksStay, NoNewAsk(r), GoesBy(r), HeldRun(r)', runs'[r].flow = runs[r].flow,
           NEW k \in Nat,
           did'[r] = did[r] \/ (did'[r] = Append(did[r], k) /\ OnlyAt(r, k) /\ Before(did[r], k)),
           runs'[r].status = "waiting" /\ runs'[r].on # 0 => Latest(runs'[r].on, r),
           Live(r)' /\ runs'[r].answer.status \in Answers =>
             Latest(runs'[r].answer.id, r) /\ approvals[runs'[r].answer.id].status = runs'[r].answer.status
    PROVE  GoesBy(r)'
  <1>1. AskedDone(r)' /\ OnlyIf(r)'
    BY DidKept DEF GoesBy, NoNewAsk
  <1> PICK on : on = runs'[r].on
    OBVIOUS
  <1> PICK answer : answer = runs'[r].answer
    OBVIOUS
  <1>2. runs'[r].status = "waiting" /\ on # 0 => Latest(on, r)'
    BY LatestKept
  <1>3. Live(r)' /\ answer.status \in Answers =>
          Latest(answer.id, r)' /\ approvals'[answer.id].status = answer.status
    <2>1. Live(r)' /\ answer.status \in Answers =>
            Latest(answer.id, r) /\ approvals[answer.id].status = answer.status
      OBVIOUS
    <2>2. Latest(answer.id, r) => Latest(answer.id, r)' /\ answer.id \in DOMAIN approvals
      BY LatestKept DEF Latest
    <2>3. "requested" \notin Answers
      BY DEF Answers
    <2> QED BY <2>1, <2>2, <2>3 DEF AsksStay
  <1>4. runs'[r].status = "waiting" /\ runs'[r].on # 0 => Latest(runs[r].on, r)'
    BY <1>2 DEF Latest
  <1>5. Live(r)' /\ runs'[r].answer.status \in Answers =>
          Latest(runs[r].answer.id, r)' /\ approvals'[runs'[r].answer.id].status = runs'[r].answer.status
    BY <1>3 DEF Latest
  <1> QED BY <1>1, <1>4, <1>5 DEF GoesBy

(* A run that nothing happens to.                                          *)
LEMMA GoesByKept ==
    ASSUME TypeOK, NEW r \in Runs, AsksStay, NoNewAsk(r), GoesBy(r), runs'[r] = runs[r], did'[r] = did[r],
           Live(r)' => Live(r)
    PROVE  GoesBy(r)'
  <1>1. HeldRun(r)'
    BY HeldKept DEF GoesBy, OfTheirRuns, AsksStay
  <1>2. 0 \in Nat
    OBVIOUS
  <1> QED BY <1>1, <1>2, GoesByMoved DEF GoesBy

(* What is said of answers, where no request is further on and the queue   *)
(* is told of none.                                                        *)
LEMMA TruthfulKept ==
    ASSUME TypeOK, Truthful, AsksStay,
           \A a \in DOMAIN approvals : approvals'[a].status = approvals[a].status,
           answering' = answering \/ \A p \in People : answering'[p].step = "rest",
           \A i \in DOMAIN queue' : queue'[i].kind # "answer" \/ \E j \in DOMAIN queue : queue'[i] = queue[j]
    PROVE  Truthful'
  <1>1. /\ \A p \in People : answering[p].step # "rest" => answering[p].id \in DOMAIN approvals
        /\ \A i \in DOMAIN queue : queue[i].kind = "answer" => queue[i].id \in DOMAIN approvals
    BY DEF TypeOK, Named
  <1>2. \A p \in People : Saving(p)' => Saving(p) /\ answering'[p] = answering[p]
    BY DEF Saving
  <1> QED BY <1>1, <1>2 DEF Truthful, Saving

LEMMA TruthfulStep == InOrderAsked /\ TypeOK /\ Truthful /\ [Next]_vars => Truthful'
  <1> SUFFICES ASSUME InOrderAsked, TypeOK, Truthful, [Next]_vars PROVE Truthful'
    OBVIOUS
  <1>q. queue \in Seq(Items) /\ approvals \in Seq(Approvals)
    BY DEF TypeOK
  <1>1. UNCHANGED approvals => AsksStay /\ \A a \in DOMAIN approvals : approvals'[a].status = approvals[a].status
    BY DEF AsksStay
  <1>2. ASSUME NEW item \in Items, item.kind # "answer", queue' = Append(queue, item)
        PROVE  \A i \in DOMAIN queue' : queue'[i].kind # "answer" \/ \E j \in DOMAIN queue : queue'[i] = queue[j]
    <2>1. \A i \in DOMAIN queue' : (i \in DOMAIN queue /\ queue'[i] = queue[i]) \/ queue'[i] = item
      BY <1>q, <1>2, QueueGrows
    <2> QED BY <1>2, <2>1
  <1>3. ASSUME queue # <<>>, queue' = Tail(queue)
        PROVE  \A i \in DOMAIN queue' : queue'[i].kind # "answer" \/ \E j \in DOMAIN queue : queue'[i] = queue[j]
    <2>1. \A i \in DOMAIN queue' : i + 1 \in DOMAIN queue /\ queue'[i] = queue[i + 1]
      BY <1>q, <1>3, QueueShrinks
    <2> QED BY <2>1
  <1>4. CASE UNCHANGED <<approvals, answering, queue>>
    BY <1>1, <1>4, TruthfulKept
  <1>5. ASSUME NEW f \in FlowIds, NEW depth \in Nat, NEW chain \in Nat, Start(f, depth, chain), UNCHANGED <<approvals, answering>>
        PROVE  Truthful'
    <2> DEFINE item == Run(Len(runs) + 1, depth)
    <2>1. queue' = Append(queue, item) /\ item \in Items /\ item.kind = "run"
      BY <1>5, Started, ItemsMade DEF Run
    <2> HIDE DEF item
    <2> QED BY <1>1, <1>2, <1>5, <2>1, TruthfulKept
  <1>6. CASE Write
    <2>1. Change(0, NoFlow, 0) \in Items /\ Change(0, NoFlow, 0).kind # "answer"
      BY ItemsMade DEF Change
    <2> QED BY <1>1, <1>2, <1>6, <2>1, TruthfulKept DEF Write, Enqueued, records
  <1>7. ASSUME NEW p \in People, NEW a \in DOMAIN approvals, NEW status \in Answers, LookAnswer(p, a, status) PROVE Truthful'
    <2>1. /\ UNCHANGED <<approvals, queue>> /\ approvals[a].status = "requested"
          /\ \A q \in People : ~Saving(q)
          /\ answering' = [answering EXCEPT ![p] = [step |-> "save", id |-> a, status |-> status]]
      BY <1>7 DEF LookAnswer, records, memory, InOrderAsked, Saving
    <2>2. answering'[p].id = a /\ \A q \in People \ {p} : answering'[q] = answering[q]
      BY <2>1 DEF TypeOK
    <2> QED BY <2>1, <2>2 DEF Truthful, Saving
  <1>8. ASSUME NEW p \in People, SaveAnswer(p) PROVE Truthful'
    <2> PICK a : a = answering[p].id
      OBVIOUS
    <2>1. /\ Saving(p) /\ UNCHANGED queue
          /\ approvals' = [approvals EXCEPT ![a].status = answering[p].status]
          /\ answering' = [answering EXCEPT ![p] = [step |-> "tell", id |-> a, before |-> approvals[a].status]]
      BY <1>8 DEF SaveAnswer, memory, Saving
    <2>2. approvals[a].status = "requested" /\ \A q \in People \ {p} : ~Saving(q)
      BY <2>1 DEF Truthful
    <2>3. \A q \in People : ~Saving(q)'
      <3>1. answering'[p].step = "tell" /\ \A q \in People \ {p} : answering'[q] = answering[q]
        BY <2>1 DEF TypeOK
      <3> QED BY <2>2, <3>1 DEF Saving
    <2>4. ASSUME NEW i \in DOMAIN queue, queue[i].kind = "answer", queue[i].status # "requested"
          PROVE  approvals'[queue[i].id].status = queue[i].status
      <3>1. queue[i].id # a
        BY <2>2, <2>4 DEF Truthful
      <3>2. queue[i].id \in DOMAIN approvals
        BY <2>4 DEF TypeOK, Named
      <3>3. \A b \in DOMAIN approvals : b # a => approvals'[b] = approvals[b]
        BY <2>1
      <3> QED BY <2>4, <3>1, <3>2, <3>3 DEF Truthful
    <2> QED BY <2>1, <2>3, <2>4 DEF Truthful
  <1>9. ASSUME NEW p \in People, TellAnswer(p) PROVE Truthful'
    <2> PICK a : a = answering[p].id
      OBVIOUS
    <2> DEFINE item == Answer(a, approvals[a].status, answering[p].before)
    <2>1. /\ answering[p] \in Requests /\ answering[p].step = "tell" /\ a \in DOMAIN approvals
          /\ queue' = Append(queue, item) /\ UNCHANGED approvals
          /\ answering' = [answering EXCEPT ![p] = [step |-> "rest"]]
      BY <1>9 DEF TypeOK, Named, TellAnswer, Enqueued, records
    <2>2. a \in Nat /\ answering[p].before \in Statuses /\ approvals[a].status \in Statuses
      BY <1>q, <2>1, RequestKinds, Approved
    <2>3. item \in Items /\ item.id = a /\ item.status = approvals[a].status
      BY <2>2, ItemsMade DEF Answer
    <2> HIDE DEF item
    <2>4. \A i \in DOMAIN queue' : (i \in DOMAIN queue /\ queue'[i] = queue[i]) \/ queue'[i] = item
      BY <1>q, <2>1, <2>3, QueueGrows
    <2>5. \A q \in People : Saving(q)' => Saving(q) /\ answering'[q] = answering[q]
      <3>1. answering'[p].step = "rest" /\ \A q \in People \ {p} : answering'[q] = answering[q]
        BY <2>1 DEF TypeOK
      <3> QED BY <3>1 DEF Saving
    <2> QED BY <2>1, <2>3, <2>4, <2>5 DEF Truthful
  <1>10. CASE TakeChange \/ TakeRun
    <2>1. queue # <<>> /\ queue' = Tail(queue) /\ UNCHANGED <<approvals, answering>>
      BY <1>10 DEF TakeChange, TakeRun, Taken, records
    <2> QED BY <1>1, <1>3, <2>1, TruthfulKept
  <1>11. CASE TakeAnswer
    <2> PICK w : w = approvals[Head(queue).id].run
      OBVIOUS
    <2>1. /\ queue # <<>> /\ Head(queue).kind = "answer" /\ UNCHANGED <<approvals, answering>>
          /\ queue' = Tail(queue) \/ queue' = Append(Tail(queue), Run(w, 0))
      BY <1>11 DEF TakeAnswer, Taken
    <2>2. Head(queue) = queue[1] /\ 1 \in DOMAIN queue /\ Tail(queue) \in Seq(Items)
      BY <1>q, <2>1, QueueShrinks
    <2>3. w \in Nat
      <3>1. w \in Runs
        BY <2>1, <2>2 DEF TypeOK, Named
      <3> QED BY <3>1 DEF TypeOK, Runs
    <2> DEFINE item == Run(w, 0)
    <2>4. item \in Items /\ item.kind = "run"
      BY <2>3, ItemsMade DEF Run
    <2> HIDE DEF item
    <2>5. \A i \in DOMAIN Tail(queue) : \E j \in DOMAIN queue : Tail(queue)[i] = queue[j]
      BY <1>q, <2>1, QueueShrinks
    <2>6. \A i \in DOMAIN Append(Tail(queue), item) :
            Append(Tail(queue), item)[i] = item \/ \E j \in DOMAIN queue : Append(Tail(queue), item)[i] = queue[j]
      <3> PICK rest \in Seq(Items) : rest = Tail(queue)
        BY <2>2
      <3>1. \A i \in DOMAIN Append(rest, item) :
              Append(rest, item)[i] = item \/ (i \in DOMAIN rest /\ Append(rest, item)[i] = rest[i])
        BY <2>4, QueueGrows
      <3> QED BY <2>5, <3>1
    <2>7. \A i \in DOMAIN queue' : queue'[i].kind # "answer" \/ \E j \in DOMAIN queue : queue'[i] = queue[j]
      BY <2>1, <2>4, <2>5, <2>6 DEF item
    <2> QED BY <1>1, <2>1, <2>7, TruthfulKept
  <1>12. ASSUME NEW f \in FlowIds, Match(f) PROVE Truthful'
    <2>1. UNCHANGED <<approvals, answering>>
      BY <1>12 DEF Match
    <2>2. worker.change.depth + 1 \in Nat /\ worker.change.chain + 1 \in Nat
      BY <1>12, WorkerKinds DEF Match, TypeOK, ChangeItems
    <2>3. UNCHANGED queue \/ Start(f, worker.change.depth + 1, worker.change.chain + 1)
      BY <1>12 DEF Match
    <2> QED BY <1>4, <1>5, <2>1, <2>2, <2>3
  <1>13. CASE DoWrite
    <2> DEFINE item == Change(worker.depth, Here.flow, Here.chain)
    <2>1. Running /\ queue' = Append(queue, item) /\ UNCHANGED <<approvals, answering>>
      BY <1>13 DEF DoWrite, Doing, Enqueued
    <2>2. item \in Items /\ item.kind # "answer"
      BY <2>1, WorkerAtRun, Recorded, ItemsMade DEF Here, Change, TypeOK
    <2> HIDE DEF item
    <2> QED BY <1>1, <1>2, <2>1, <2>2, TruthfulKept
  <1>14. CASE DoAsk
    <2> PICK w : w = [run |-> worker.run, step |-> worker.step, status |-> "requested"]
      OBVIOUS
    <2>1. approvals' = Append(approvals, w) /\ UNCHANGED <<queue, answering>>
      BY <1>14 DEF DoAsk
    <2>2. \A a \in DOMAIN approvals : a \in (DOMAIN approvals)' /\ approvals'[a] = approvals[a]
      BY <1>q, <2>1
    <2>3. AsksStay
      BY <2>2 DEF AsksStay
    <2> QED BY <2>1, <2>2, <2>3, TruthfulKept
  <1>15. ASSUME NEW w \in Runs, Wake(w) PROVE Truthful'
    <2>1. w \in Nat
      BY DEF TypeOK, Runs
    <2>2. queue' = Append(queue, Run(w, 0)) /\ UNCHANGED <<approvals, answering>>
      BY <1>15 DEF Wake, Enqueued
    <2>3. Run(w, 0) \in Items /\ Run(w, 0).kind # "answer"
      BY <2>1, ItemsMade DEF Run
    <2> QED BY <1>1, <1>2, <2>2, <2>3, TruthfulKept
  <1>16. CASE Crash
    <2>1. queue' = <<>> /\ UNCHANGED approvals /\ \A p \in People : answering'[p].step = "rest"
      BY <1>16 DEF Crash, records
    <2> QED BY <1>1, <2>1, TruthfulKept
  <1>17. ASSUME NEW f \in FlowIds, RunNow(f) \/ StartDue(f) PROVE Truthful'
    <2>1. Start(f, 0, 0) /\ UNCHANGED <<approvals, answering>>
      BY <1>17 DEF RunNow, StartDue
    <2> QED BY <1>5, <2>1
  <1> QED
    BY <1>4, <1>6, <1>7, <1>8, <1>9, <1>10, <1>11, <1>12, <1>13, <1>14, <1>15, <1>16, <1>17
    DEF Next, Work, vars, records, memory, Matched, Skip, DoQuiet, Hold, DoWait, DoStop, End, Fail, Tick

(* What a step that is for one answer is done on, is that answer.          *)
LEMMA AppliesTo ==
    ASSUME TypeOK, Places, Running, ~AtEnd, Applies(Step, Here.answer), NEW w \in Runs, w = worker.run,
           NEW k \in Nat, k = worker.step, GoesBy(w)
    PROVE  OnlyAt(w, k)
  <1> DEFINE steps == Steps[runs[w].flow]
             only  == steps[k].only
  <1>1. only \in Answers \cup {"always"}
    <2>1. steps \in Seq([kind : StepKinds, only : Answers \cup {"always"}])
      BY Recorded, ConstantsAssumption DEF TypeOK
    <2>2. k \in 1..Len(steps)
      <3>1. k # 0 /\ ~(k > Len(steps))
        BY WorkerAtRun DEF AtEnd, Here
      <3>2. Len(steps) \in Nat
        BY <2>1
      <3> QED BY <3>1, <3>2
    <2> HIDE DEF steps
    <2>3. steps[k] \in [kind : StepKinds, only : Answers \cup {"always"}]
      <3>1. \A S : steps \in Seq(S) => steps[k] \in S
        BY <2>2
      <3> QED BY <2>1, <3>1
    <2> QED BY <2>3
  <1>2. only \in {"always", runs[w].answer.status}
    BY DEF Applies, Step, Here
  <1>3. only # "always" =>
          /\ only \in Answers
          /\ \E a \in AskedBefore(w, k) : /\ approvals[a].status = only
                                          /\ \A b \in AskedBefore(w, k) : b <= a
    <2> SUFFICES ASSUME only # "always"
                 PROVE  /\ only \in Answers
                        /\ \E a \in AskedBefore(w, k) : /\ approvals[a].status = only
                                                        /\ \A b \in AskedBefore(w, k) : b <= a
      OBVIOUS
    <2> PICK a : a = runs[w].answer.id
      OBVIOUS
    <2>1. only \in Answers /\ only = runs[w].answer.status /\ Live(w)
      BY <1>1, <1>2 DEF Live, Running
    <2>2. Latest(a, w) /\ approvals[a].status = only
      BY <2>1 DEF GoesBy
    <2>3. approvals[a].step < k
      <3>1. Before(did[w], k)
        BY DEF Places, Place, AtWorker, Running
      <3>2. \E j \in DOMAIN did[w] : did[w][j] = approvals[a].step
        BY <2>2 DEF GoesBy, AskedDone, Latest
      <3> QED BY <3>1, <3>2 DEF Before
    <2> QED BY <2>1, <2>2, <2>3 DEF Latest, AskedBefore
  <1> QED BY <1>3 DEF OnlyAt

LEMMA TrulyStep == InOrderAsked /\ TypeOK /\ Places /\ Truly /\ [Next]_vars => Truly'
  <1> SUFFICES ASSUME InOrderAsked, TypeOK, Places, Truly, [Next]_vars PROVE Truly'
    OBVIOUS
  <1>q. queue \in Seq(Items) /\ runs \in Seq(RunRecords) /\ approvals \in Seq(Approvals)
    BY DEF TypeOK
  <1>t. Truthful'
    BY TruthfulStep DEF Truly
  <1>g. \A r \in Runs : GoesBy(r) /\ HeldRun(r)
    BY DEF Truly, GoesBy
  <1>a. UNCHANGED approvals => AsksStay /\ \A r : NoNewAsk(r)
    BY DEF AsksStay, NoNewAsk
  <1>w. Running => worker.run \in Runs /\ worker.step \in Nat /\ ~On(queue, worker.run)
                   /\ runs[worker.run].status = "running" /\ Before(did[worker.run], worker.step)
    BY WorkerAtRun DEF Places, Place, AtWorker, Running
  (* No run is changed.                                                    *)
  <1>1. ASSUME AsksStay, \A r : NoNewAsk(r), UNCHANGED <<runs, did>>, worker'.at = "hold" => worker' = worker,
               \A r \in Runs : Live(r)' => Live(r)
        PROVE  Truly'
    <2>1. \A r \in Runs : GoesBy(r)'
      BY <1>g, <1>1, GoesByKept
    <2>2. worker'.at = "hold" => Latest(worker.on, worker.run)'
      <3> PICK a, r : a = worker.on /\ r = worker.run
        OBVIOUS
      <3>1. worker.at = "hold" => Latest(a, r)
        BY DEF Truly
      <3>2. Latest(a, r) => Latest(a, r)'
        BY <1>1, LatestKept
      <3> QED BY <1>1, <3>1, <3>2 DEF Latest
    <2>3. Runs' = Runs
      BY <1>1 DEF Runs
    <2> QED BY <1>t, <2>1, <2>2, <2>3 DEF Truly
  (* One run is changed, and the approvals are not.                        *)
  <1>2. ASSUME NEW w \in Runs, Runs' = Runs, UNCHANGED approvals, worker'.at # "hold", GoesBy(w)',
               \A r \in Runs \ {w} : runs'[r] = runs[r] /\ did'[r] = did[r],
               \A r \in Runs \ {w} : Live(r)' => Live(r)
        PROVE  Truly'
    <2>1. \A r \in Runs \ {w} : GoesBy(r)'
      BY <1>a, <1>g, <1>2, GoesByKept
    <2> QED BY <1>t, <1>2, <2>1 DEF Truly
  <1>3. ASSUME NEW item \in Items, queue' = Append(queue, item), item.kind # "run"
        PROVE  \A r : On(queue', r) <=> On(queue, r)
    BY <1>q, <1>3, OnAppend
  <1>4. CASE UNCHANGED <<runs, did, approvals, queue, worker>>
    BY <1>1, <1>4, <1>a DEF Live
  <1>5. ASSUME NEW item \in Items, queue' = Append(queue, item), item.kind # "run", UNCHANGED <<runs, did, approvals, worker>>
        PROVE  Truly'
    BY <1>1, <1>3, <1>5, <1>a DEF Live
  <1>6. CASE Write
    <2>1. Change(0, NoFlow, 0) \in Items /\ Change(0, NoFlow, 0).kind # "run"
      BY ItemsMade DEF Change
    <2> QED BY <1>5, <1>6, <2>1 DEF Write, Enqueued, records
  <1>7. ASSUME NEW p \in People, SaveAnswer(p) PROVE Truly'
    <2> PICK a : a = answering[p].id
      OBVIOUS
    <2>1. /\ UNCHANGED <<runs, did, queue, worker>>
          /\ approvals' = [approvals EXCEPT ![a].status = answering[p].status]
          /\ approvals[a].status = "requested" /\ a \in DOMAIN approvals
      BY <1>7 DEF SaveAnswer, memory, Truly, Truthful, Saving, TypeOK, Named
    <2>2. approvals[a] \in Approvals
      BY <1>q, <2>1, Approved
    <2>3. /\ (DOMAIN approvals)' = DOMAIN approvals
          /\ \A b \in DOMAIN approvals : b # a => approvals'[b] = approvals[b]
          /\ approvals'[a].run = approvals[a].run /\ approvals'[a].step = approvals[a].step
      BY <1>q, <2>1, <2>2 DEF Approvals
    <2>4. AsksStay /\ \A r : NoNewAsk(r)
      BY <2>1, <2>3 DEF AsksStay, NoNewAsk
    <2> QED BY <1>1, <2>1, <2>4 DEF Live
  <1>8. ASSUME NEW p \in People, TellAnswer(p) PROVE Truly'
    <2> DEFINE item == Answer(answering[p].id, approvals[answering[p].id].status, answering[p].before)
    <2>1. /\ answering[p] \in Requests /\ answering[p].step = "tell" /\ answering[p].id \in DOMAIN approvals
      BY <1>8 DEF TypeOK, Named, TellAnswer
    <2>2. answering[p].id \in Nat /\ answering[p].before \in Statuses /\ approvals[answering[p].id].status \in Statuses
      BY <1>q, <2>1, RequestKinds, Approved
    <2>3. item \in Items /\ item.kind # "run"
      BY <2>2, ItemsMade DEF Answer
    <2> HIDE DEF item
    <2>4. queue' = Append(queue, item) /\ UNCHANGED <<runs, did, approvals, worker>>
      BY <1>8 DEF TellAnswer, Enqueued, records, item
    <2> QED BY <1>5, <2>3, <2>4
  <1>9. CASE TakeChange
    <2>1. /\ queue # <<>> /\ queue' = Tail(queue) /\ UNCHANGED <<runs, did, approvals>> /\ worker'.at = "match"
      BY <1>9 DEF TakeChange, Taken, records
    <2>2. \A r : On(queue', r) => On(queue, r)
      BY <1>q, <2>1, OnTail
    <2> QED BY <1>1, <1>a, <2>1, <2>2 DEF Live
  <1>10. ASSUME NEW f \in FlowIds, NEW depth \in Nat, NEW chain \in Nat, Start(f, depth, chain), UNCHANGED approvals,
                worker' = worker \/ worker'.at = "match"
         PROVE  Truly'
    <2> PICK n : n = Len(runs) + 1
      OBVIOUS
    <2> DEFINE item == Run(n, depth)
    <2>1. /\ \A r \in Runs : runs'[r] = runs[r] /\ did'[r] = did[r]
          /\ Runs' = Runs \cup {n} /\ n \notin Runs
          /\ runs'[n].status = "running" /\ runs'[n].on = 0 /\ did'[n] = <<>>
          /\ queue' = Append(queue, item) /\ item \in Items /\ item.kind = "run" /\ item.run = n
      BY <1>10, Started, ItemsMade DEF Run
    <2> HIDE DEF item
    <2>2. \A r : On(queue', r) <=> On(queue, r) \/ r = n
      BY <1>q, <2>1, OnAppend
    <2>3. runs'[n].wake = Never /\ runs'[n].answer = NoAnswer
      <3>1. runs' = Append(runs, [flow |-> f, status |-> "running", step |-> 1, on |-> 0, wake |-> Never,
                                  answer |-> NoAnswer, started |-> now, chain |-> chain])
        BY <1>10 DEF Start
      <3> QED BY <1>q, <3>1
    <2>4. ASSUME NEW r \in Runs PROVE GoesBy(r)'
      <3>1. Live(r)' => Live(r)
        BY <1>10, <2>1, <2>2 DEF Live
      <3> QED BY <1>a, <1>g, <1>10, <2>1, <3>1, GoesByKept
    <2>5. GoesBy(n)'
      <3>1. HeldRun(n)'
        BY <2>1, <2>3 DEF HeldRun
      <3>2. AskedDone(n)' /\ OnlyIf(n)'
        <4>1. \A a \in DOMAIN approvals : approvals[a].run # n
          BY <2>1 DEF TypeOK, Named
        <4> QED BY <1>10, <2>1, <4>1 DEF AskedDone, OnlyIf
      <3>3. runs'[n].answer.status \notin Answers
        BY <2>3 DEF NoAnswer, Answers
      <3> QED BY <2>1, <3>1, <3>2, <3>3 DEF GoesBy
    <2>6. worker'.at = "hold" => Latest(worker.on, worker.run)'
      BY <1>10 DEF Truly, Latest
    <2> QED BY <1>t, <1>10, <2>1, <2>4, <2>5, <2>6 DEF Truly
  <1>11. ASSUME NEW f \in FlowIds, Match(f) PROVE Truly'
    <2>1. /\ worker \in [at : {"match"}, change : ChangeItems, left : SUBSET FlowIds]
          /\ worker' = [worker EXCEPT !.left = @ \ {f}] /\ UNCHANGED approvals
      BY <1>11, WorkerKinds DEF Match, TypeOK
    <2>2. worker'.at = "match" /\ worker.change.depth + 1 \in Nat /\ worker.change.chain + 1 \in Nat
      BY <2>1 DEF ChangeItems
    <2>3. UNCHANGED <<runs, did, queue>> \/ Start(f, worker.change.depth + 1, worker.change.chain + 1)
      BY <1>11 DEF Match
    <2>4. CASE UNCHANGED <<runs, did, queue>>
      BY <1>1, <1>a, <2>1, <2>2, <2>4 DEF Live
    <2> QED BY <1>10, <2>1, <2>2, <2>3, <2>4
  <1>12. CASE Matched \/ Crash
    <2>1. UNCHANGED <<runs, did, approvals>> /\ worker'.at = "idle" /\ (queue' = queue \/ queue' = <<>>)
      BY <1>12, IdleIs DEF Matched, Crash, records
    <2>2. \A r : On(queue', r) => On(queue, r)
      BY <2>1 DEF On
    <2> QED BY <1>1, <1>a, <2>1, <2>2 DEF Live
  <1>13. CASE TakeRun
    <2>1. /\ queue # <<>> /\ Head(queue).kind = "run" /\ queue' = Tail(queue)
          /\ worker' = IF runs[Head(queue).run].status = "running"
                       THEN [at |-> "run", run |-> Head(queue).run, step |-> runs[Head(queue).run].step, depth |-> Head(queue).depth]
                       ELSE Idle
          /\ UNCHANGED <<runs, did, approvals>>
      BY <1>13 DEF TakeRun, Taken, records
    <2>2. On(queue, Head(queue).run) /\ \A r : On(queue', r) => On(queue, r)
      BY <1>q, <2>1, OnTail
    <2>3. worker'.at # "hold" /\ (worker'.at = "run" => worker'.run = Head(queue).run)
      BY <2>1, IdleIs
    <2> QED BY <1>1, <1>a, <2>1, <2>2, <2>3 DEF Live
  <1>14. CASE Skip
    <2>1. Running /\ worker' = [worker EXCEPT !.step = @ + 1] /\ UNCHANGED <<runs, did, approvals, queue>>
      BY <1>14 DEF Skip, records
    <2>2. worker'.at = "run" /\ worker'.run = worker.run
      BY <2>1, GoneOn
    <2> QED BY <1>1, <1>a, <2>1, <2>2 DEF Live, Running
  <1>15. CASE TakeAnswer
    <2> PICK told, w : told = Head(queue) /\ w = approvals[told.id].run
      OBVIOUS
    <2>1. /\ queue # <<>> /\ told.kind = "answer" /\ worker = Idle /\ UNCHANGED <<did, worker, approvals>>
      BY <1>15 DEF TakeAnswer, Taken
    <2>2. told \in AnswerItems /\ told = queue[1] /\ 1 \in DOMAIN queue /\ told.id \in DOMAIN approvals /\ w \in Runs
      <3>1. told \in AnswerItems /\ told = queue[1] /\ 1 \in DOMAIN queue
        BY <1>q, <2>1, QueueShrinks, ItemKinds
      <3>2. told.id \in DOMAIN approvals
        BY <2>1, <3>1 DEF TypeOK, Named
      <3>3. w \in Runs
        BY <3>2 DEF TypeOK, Named
      <3> QED BY <3>1, <3>2, <3>3
    <2>3. Tail(queue) \in Seq(Items) /\ \A r : On(Tail(queue), r) => On(queue, r)
      BY <1>q, <2>1, OnTail, QueueShrinks
    <2>4. worker'.at = "idle" /\ worker.at = "idle"
      BY <2>1, IdleIs
    <2>5. CASE told.status # "requested" /\ told.before # told.status /\ WaitsOn(w, told.id)
      <3>1. /\ runs' = [runs EXCEPT ![w].status = "running", ![w].on = 0, ![w].step = StepAfter(w),
                                   ![w].answer = [id |-> told.id, status |-> told.status]]
            /\ queue' = Append(Tail(queue), Run(w, 0))
        BY <1>15, <2>5 DEF TakeAnswer
      <3>2. runs[w] \in RunRecords /\ w \in Nat /\ runs[w].status = "waiting" /\ runs[w].on = told.id /\ told.id # 0
        <4>1. told.id # 0
          BY <1>q, <2>2
        <4> QED BY <1>q, <2>2, <2>5, <4>1, Recorded DEF WaitsOn, Runs
      <3>3. /\ Runs' = Runs /\ \A r \in Runs \ {w} : runs'[r] = runs[r]
            /\ runs'[w].status = "running" /\ runs'[w].on = 0 /\ runs'[w].flow = runs[w].flow
            /\ runs'[w].wake = runs[w].wake /\ runs'[w].answer = [id |-> told.id, status |-> told.status]
        BY <1>q, <2>2, <3>1, <3>2 DEF Runs, RunRecords
      <3>4. Run(w, 0) \in Items /\ Run(w, 0).kind = "run" /\ Run(w, 0).run = w
        BY <3>2, ItemsMade DEF Run
      <3>5. \A r : On(queue', r) <=> On(Tail(queue), r) \/ r = w
        <4> DEFINE rest == Tail(queue)
                   item == Run(w, 0)
        <4>1. rest \in Seq(Items) /\ item \in Items /\ item.kind = "run" /\ item.run = w
          BY <2>3, <3>4
        <4> HIDE DEF rest, item
        <4>2. \A r : On(Append(rest, item), r) <=> On(rest, r) \/ r = w
          BY <4>1, OnAppend
        <4> QED BY <3>1, <4>2 DEF rest, item
      <3>6. \A r \in Runs \ {w} : Live(r)' => Live(r)
        BY <2>3, <2>4, <3>3, <3>5 DEF Live
      <3>7. Latest(told.id, w) /\ approvals[told.id].status = told.status
        <4>1. approvals[told.id].status = told.status
          BY <2>1, <2>2, <2>5 DEF Truly, Truthful
        <4> QED BY <1>g, <2>2, <3>2, <4>1 DEF GoesBy
      <3>8. HeldRun(w)'
        BY <1>g, <2>2, <3>2, <3>3 DEF HeldRun
      <3>9. /\ runs'[w].answer.id = told.id /\ runs'[w].answer.status = told.status
            /\ runs'[w].status # "waiting" /\ did'[w] = did[w] /\ GoesBy(w)
        BY <1>g, <2>1, <2>2, <3>3
      <3>10. GoesBy(w)'
        BY <1>a, <2>1, <2>2, <3>2, <3>3, <3>7, <3>8, <3>9, GoesByMoved
      <3> QED BY <1>2, <2>1, <2>2, <2>4, <3>3, <3>6, <3>10
    <2>6. CASE ~(told.status # "requested" /\ told.before # told.status /\ WaitsOn(w, told.id))
      <3>1. UNCHANGED runs /\ queue' = Tail(queue)
        BY <1>15, <2>6 DEF TakeAnswer
      <3> QED BY <1>1, <1>a, <2>1, <2>3, <2>4, <3>1 DEF Live
    <2> QED BY <2>5, <2>6
  (* The worker does its step.                                             *)
  <1>16. ASSUME NEW kind, Doing(kind), Done(worker.run, worker.step), NEW w, w = worker.run, NEW k, k = worker.step
         PROVE  /\ w \in Runs /\ k \in Nat /\ OnlyAt(w, k) /\ Before(did[w], k)
                /\ did'[w] = Append(did[w], k) /\ \A r \in Runs \ {w} : did'[r] = did[r]
    <2>1. Running /\ w \in Runs /\ k \in Nat /\ Before(did[w], k)
      BY <1>16, <1>w DEF Doing
    <2>2. OnlyAt(w, k)
      BY <1>16, <1>g, <2>1, AppliesTo DEF Doing
    <2> QED BY <1>16, <2>1, <2>2, StepDone
  <1>17. CASE DoWrite \/ DoQuiet
    <2> PICK w, k : w = worker.run /\ k = worker.step
      OBVIOUS
    <2>1. /\ Running /\ worker' = [worker EXCEPT !.step = @ + 1] /\ UNCHANGED <<runs, approvals>>
          /\ queue' = queue \/ queue' = Append(queue, Change(worker.depth, Here.flow, Here.chain))
      BY <1>17 DEF DoWrite, DoQuiet, Doing, Enqueued
    <2>2. worker'.at = "run" /\ worker'.run = w
      BY <2>1, GoneOn
    <2>3. /\ w \in Runs /\ k \in Nat /\ OnlyAt(w, k) /\ Before(did[w], k)
          /\ did'[w] = Append(did[w], k) /\ \A r \in Runs \ {w} : did'[r] = did[r]
      BY <1>16, <1>17 DEF DoWrite, DoQuiet
    <2>4. \A r : On(queue', r) <=> On(queue, r)
      <3> DEFINE item == Change(worker.depth, Here.flow, Here.chain)
      <3>1. item \in Items /\ item.kind # "run"
        BY <1>q, <2>1, WorkerAtRun, Recorded, ItemsMade DEF Here, Change
      <3> HIDE DEF item
      <3>2. queue' = queue \/ queue' = Append(queue, item)
        BY <2>1 DEF item
      <3> QED BY <1>3, <3>1, <3>2
    <2>5. \A r \in Runs : Live(r)' => Live(r)
      BY <2>1, <2>2, <2>4 DEF Live, Running
    <2>6. HeldRun(w)'
      BY <1>a, <1>g, <2>1, <2>3, HeldKept DEF AsksStay, OfTheirRuns
    <2>7. GoesBy(w)'
      BY <1>a, <1>g, <2>1, <2>3, <2>5, <2>6, GoesByMoved DEF GoesBy
    <2>8. Runs' = Runs
      BY <2>1 DEF Runs
    <2> QED BY <1>2, <2>1, <2>2, <2>3, <2>5, <2>7, <2>8
  <1>18. CASE DoAsk
    <2> PICK w, k, n : w = worker.run /\ k = worker.step /\ n = Len(approvals) + 1
      OBVIOUS
    <2>1. /\ Running /\ UNCHANGED <<runs, queue>>
          /\ worker' = [at |-> "hold", run |-> w, step |-> k, on |-> n]
          /\ approvals' = Append(approvals, [run |-> w, step |-> k, status |-> "requested"])
      BY <1>18 DEF DoAsk, Doing
    <2>2. /\ w \in Runs /\ k \in Nat /\ OnlyAt(w, k) /\ Before(did[w], k)
          /\ did'[w] = Append(did[w], k) /\ \A r \in Runs \ {w} : did'[r] = did[r]
      BY <1>16, <1>18 DEF DoAsk
    <2>3. worker'.at = "hold" /\ worker'.run = w /\ worker'.on = n
      BY <2>1
    <2>4. /\ DOMAIN approvals = 1..Len(approvals) /\ (DOMAIN approvals)' = 1..n /\ Len(approvals) \in Nat
          /\ \A a \in DOMAIN approvals : a \in (DOMAIN approvals)' /\ approvals'[a] = approvals[a]
          /\ \A a \in (DOMAIN approvals)' : a \in DOMAIN approvals \/ a = n
          /\ approvals'[n].run = w /\ approvals'[n].step = k
      BY <1>q, <2>1
    <2>5. AsksStay /\ \A r : r # w => NoNewAsk(r)
      BY <2>4 DEF AsksStay, NoNewAsk
    <2>6. \A r \in Runs : (Live(r)' => Live(r)) /\ (r = w => ~Live(r)')
      BY <1>w, <2>1, <2>3 DEF Live
    <2>7. \A r \in Runs \ {w} : GoesBy(r)'
      BY <1>g, <2>1, <2>2, <2>5, <2>6, GoesByKept
    <2>8. HeldRun(w)'
      BY <1>g, <2>1, <2>2, <2>5, HeldKept DEF AsksStay, OfTheirRuns
    <2>9. AskedDone(w)' /\ OnlyIf(w)'
      <3>1. \A a \in (DOMAIN approvals)' : approvals'[a].run = w => a \in DOMAIN approvals \/ approvals'[a].step = k
        BY <2>4
      <3>2. AskedDone(w) /\ OnlyIf(w) /\ runs'[w].flow = runs[w].flow
        BY <1>g, <2>1, <2>2 DEF GoesBy
      <3> QED BY <1>g, <2>2, <2>5, <3>1, <3>2, DidKept
    <2>10. runs'[w].status # "waiting"
      BY <1>w, <2>1
    <2>11. GoesBy(w)'
      BY <2>2, <2>6, <2>8, <2>9, <2>10 DEF GoesBy
    <2>12. Latest(n, w)'
      BY <2>4 DEF Latest
    <2>13. Latest(worker.on, worker.run)'
      BY <2>3, <2>12 DEF Latest
    <2>14. Runs' = Runs
      BY <2>1 DEF Runs
    <2> QED BY <1>t, <2>7, <2>11, <2>13, <2>14 DEF Truly
  <1>19. CASE Hold
    <2> PICK w, a : w = worker.run /\ a = worker.on
      OBVIOUS
    <2>1. /\ worker.at = "hold" /\ worker' = Idle /\ UNCHANGED <<did, queue, approvals>>
          /\ runs' = [runs EXCEPT ![w].status = "waiting", ![w].step = worker.step, ![w].on = a,
                                  ![w].answer = [id |-> a, status |-> "requested"]]
      BY <1>19 DEF Hold
    <2>2. w \in Runs /\ runs[w] \in RunRecords
      BY <1>q, <2>1, Recorded DEF TypeOK, Named
    <2>3. runs[w].status = "running" /\ ~On(queue, w)
      BY <2>1, <2>2 DEF Places, Place, AtWorker
    <2>4. /\ runs'[w].status = "waiting" /\ runs'[w].on = a /\ runs'[w].answer.status = "requested"
          /\ runs'[w].wake = runs[w].wake /\ runs'[w].flow = runs[w].flow
          /\ Runs' = Runs /\ \A r \in Runs \ {w} : runs'[r] = runs[r]
      BY <1>q, <2>1, <2>2 DEF Runs, RunRecords
    <2>5. worker'.at = "idle"
      BY <2>1, IdleIs
    <2>6. Latest(a, w)
      BY <2>1 DEF Truly
    <2>7. HeldRun(w)'
      BY <1>g, <2>1, <2>2, <2>3, <2>4, <2>6 DEF HeldRun, Latest
    <2>8. runs'[w].answer.status \notin Answers /\ 0 \in Nat
      BY <2>4 DEF Answers
    <2>9. GoesBy(w)'
      BY <1>a, <1>g, <2>1, <2>2, <2>4, <2>6, <2>7, <2>8, GoesByMoved
    <2>10. \A r \in Runs \ {w} : Live(r)' => Live(r)
      BY <2>1, <2>4, <2>5 DEF Live
    <2> QED BY <1>2, <2>1, <2>2, <2>4, <2>5, <2>9, <2>10
  (* The run at the worker is put down, its answer as it was.              *)
  <1>20. ASSUME Running, NEW w, w = worker.run, NEW run \in RunRecords, runs' = [runs EXCEPT ![w] = run],
                run.flow = runs[w].flow, run.answer = runs[w].answer, run.on = 0, run.status # "running",
                worker' = Idle, UNCHANGED <<queue, approvals>>,
                UNCHANGED did \/ \E kind : Doing(kind) /\ Done(worker.run, worker.step)
         PROVE  Truly'
    <2> PICK k : k = worker.step
      OBVIOUS
    <2>1. w \in Runs /\ k \in Nat /\ Live(w)
      BY <1>20, <1>w DEF Live, Running
    <2>2. /\ runs'[w] = run /\ Runs' = Runs /\ \A r \in Runs \ {w} : runs'[r] = runs[r]
      BY <1>20, <2>1 DEF Runs
    <2>3. worker'.at = "idle"
      BY <1>20, IdleIs
    <2>4. /\ did'[w] = did[w] \/ (did'[w] = Append(did[w], k) /\ OnlyAt(w, k) /\ Before(did[w], k))
          /\ \A r \in Runs \ {w} : did'[r] = did[r]
      BY <1>16, <1>20
    <2>5. HeldRun(w)'
      BY <1>20, <2>2 DEF HeldRun
    <2>6. GoesBy(w)'
      <3>1. runs'[w].answer.status \in Answers =>
              Latest(runs'[w].answer.id, w) /\ approvals[runs'[w].answer.id].status = runs'[w].answer.status
        BY <1>20, <1>g, <2>1, <2>2 DEF GoesBy
      <3> QED BY <1>20, <1>a, <1>g, <2>1, <2>2, <2>4, <2>5, <3>1, GoesByMoved
    <2>7. \A r \in Runs \ {w} : Live(r)' => Live(r)
      BY <1>20, <2>2, <2>3 DEF Live
    <2> QED BY <1>2, <1>20, <2>1, <2>2, <2>3, <2>4, <2>6, <2>7
  <1>21. ASSUME Running, NEW status \in {"waiting", "done", "stopped"}, NEW wake \in Nat \cup {Never},
                PutDown(status, Here.on, wake), UNCHANGED <<queue, approvals>>,
                UNCHANGED did \/ \E kind : Doing(kind) /\ Done(worker.run, worker.step)
         PROVE  Truly'
    <2> PICK w : w = worker.run
      OBVIOUS
    <2>1. w \in Runs /\ runs[w] \in RunRecords /\ worker.step \in Nat \ {0} /\ runs[w].on = 0
      BY <1>q, <1>21, <1>w, <1>g, WorkerAtRun, Recorded DEF HeldRun
    <2> DEFINE run == [runs[w] EXCEPT !.status = status, !.step = worker.step, !.on = 0, !.wake = wake]
    <2>2. /\ run \in RunRecords /\ run.flow = runs[w].flow /\ run.answer = runs[w].answer /\ run.on = 0
          /\ run.status # "running"
      BY <2>1 DEF RunRecords
    <2>3. runs' = [runs EXCEPT ![w] = run] /\ worker' = Idle
      BY <1>21, <2>1 DEF PutDown, Here
    <2> HIDE DEF run
    <2> QED BY <1>20, <1>21, <2>2, <2>3
  <1>22. CASE DoWait \/ DoStop \/ End
    <2>1. now + 1 \in Nat
      BY DEF TypeOK
    <2>2. Running => Here.wake \in Nat \cup {Never}
      BY <1>q, WorkerAtRun, Recorded DEF Here
    <2>3. CASE DoWait
      <3>1. Running /\ PutDown("waiting", Here.on, now + 1) /\ UNCHANGED <<queue, approvals>>
            /\ \E kind : Doing(kind) /\ Done(worker.run, worker.step)
        BY <2>3 DEF DoWait, Doing
      <3> QED BY <1>21, <2>1, <3>1
    <2>4. CASE DoStop
      <3>1. Running /\ PutDown("stopped", Here.on, Here.wake) /\ UNCHANGED <<queue, approvals>>
            /\ \E kind : Doing(kind) /\ Done(worker.run, worker.step)
        BY <2>4 DEF DoStop, Doing
      <3> QED BY <1>21, <2>2, <3>1
    <2>5. CASE End
      <3>1. Running /\ PutDown("done", Here.on, Here.wake) /\ UNCHANGED <<queue, approvals, did>>
        BY <2>5 DEF End
      <3> QED BY <1>21, <2>2, <3>1
    <2> QED BY <1>22, <2>3, <2>4, <2>5
  <1>23. CASE Fail
    <2> PICK w : w = worker.run
      OBVIOUS
    <2>1. /\ Running /\ worker' = Idle /\ UNCHANGED <<did, queue, approvals>>
          /\ runs' = [runs EXCEPT ![w].status = "failed"]
      BY <1>23 DEF Fail
    <2>2. w \in Runs /\ runs[w] \in RunRecords /\ runs[w].on = 0
      BY <1>q, <1>w, <1>g, <2>1, Recorded DEF HeldRun
    <2> DEFINE run == [runs[w] EXCEPT !.status = "failed"]
    <2>3. /\ run \in RunRecords /\ run.flow = runs[w].flow /\ run.answer = runs[w].answer /\ run.on = 0
          /\ run.status # "running"
      BY <2>2 DEF RunRecords
    <2>4. runs' = [runs EXCEPT ![w] = run]
      BY <2>1
    <2> HIDE DEF run
    <2> QED BY <1>20, <2>1, <2>3, <2>4
  <1>24. ASSUME NEW w \in Runs, Wake(w) PROVE Truly'
    <2>1. /\ runs[w].status = "waiting" /\ runs[w].wake # Never /\ UNCHANGED <<did, worker, approvals>>
          /\ runs' = [runs EXCEPT ![w].status = "running", ![w].wake = Never, ![w].step = StepAfter(w)]
          /\ queue' = Append(queue, Run(w, 0))
      BY <1>24 DEF Wake, Enqueued
    <2>2. runs[w] \in RunRecords /\ w \in Nat /\ runs[w].on = 0
      BY <1>q, <1>g, <2>1, Recorded DEF Runs, HeldRun
    <2>3. /\ Runs' = Runs /\ \A r \in Runs \ {w} : runs'[r] = runs[r]
          /\ runs'[w].status = "running" /\ runs'[w].on = 0 /\ runs'[w].wake = Never
          /\ runs'[w].flow = runs[w].flow /\ runs'[w].answer = runs[w].answer
      BY <1>q, <2>1, <2>2 DEF Runs, RunRecords
    <2>4. Run(w, 0) \in Items /\ Run(w, 0).kind = "run" /\ Run(w, 0).run = w
      BY <2>2, ItemsMade DEF Run
    <2>5. \A r : On(queue', r) <=> On(queue, r) \/ r = w
      BY <1>q, <2>1, <2>4, OnAppend
    <2>6. \A r \in Runs \ {w} : Live(r)' => Live(r)
      BY <2>1, <2>3, <2>5 DEF Live
    <2>7. HeldRun(w)'
      BY <2>3 DEF HeldRun
    <2>8. Live(w) /\ did'[w] = did[w] /\ runs'[w].status # "waiting" /\ GoesBy(w)
      BY <1>g, <2>1, <2>3 DEF Live
    <2>9. runs'[w].answer.status \in Answers =>
            Latest(runs'[w].answer.id, w) /\ approvals[runs'[w].answer.id].status = runs'[w].answer.status
      BY <2>3, <2>8 DEF GoesBy
    <2>10. GoesBy(w)'
      BY <1>a, <2>1, <2>2, <2>3, <2>7, <2>8, <2>9, GoesByMoved
    <2>11. \A r \in Runs : GoesBy(r)'
      BY <1>a, <1>g, <2>1, <2>3, <2>6, <2>10, GoesByKept
    <2>12. worker'.at = "hold" => Latest(worker.on, worker.run)'
      BY <2>1 DEF Truly, Latest
    <2> QED BY <1>t, <2>3, <2>11, <2>12 DEF Truly
  <1>25. ASSUME NEW f \in FlowIds, RunNow(f) \/ StartDue(f) PROVE Truly'
    <2>1. Start(f, 0, 0) /\ UNCHANGED <<approvals, worker>>
      BY <1>25 DEF RunNow, StartDue
    <2> QED BY <1>10, <2>1
  <1> QED
    BY <1>4, <1>6, <1>7, <1>8, <1>9, <1>11, <1>12, <1>13, <1>14, <1>15, <1>17, <1>18, <1>19, <1>22, <1>23, <1>24, <1>25
    DEF Next, Work, vars, records, memory, LookAnswer, Tick

(* Where an approval is answered by one at a time, a step that is for one  *)
(* answer is done only once its run's latest approval holds that answer,   *)
(* over restarts and failures too.                                         *)
THEOREM StepsAsAnswered == ASSUME InOrderAsked PROVE Spec => []OnlyIfAnswered
  <1>1. Init => Places /\ Truly
    BY DEF Init, Places, Once, Truly, Truthful, Saving, Runs, Idle
  <1>2. TypeOK /\ Places /\ Truly /\ [Next]_vars => Places' /\ Truly'
    BY PlacesStep, TrulyStep
  <1>3. Truly => OnlyIfAnswered
    BY DEF Truly, GoesBy, OnlyIf, OnlyAt, OnlyIfAnswered
  <1> QED BY <1>1, <1>2, <1>3, TypeCorrect, PTL DEF Spec
(* "An approval is answered once." (approvals.py): so it is where nobody   *)
(* answers between another's look and his write, whatever the worker and   *)
(* restarts do meanwhile.                                                  *)
THEOREM AnswersOnce == ASSUME InOrderAsked PROVE Spec => AnsweredOnce
  <1> DEFINE Kept == \A a \in DOMAIN approvals :
                       approvals[a].status # "requested" => approvals'[a].status = approvals[a].status
  <1>1. Init => Truthful
    BY DEF Init, Truthful, Saving
  <1>2. TypeOK /\ Truthful /\ [Next]_vars => Kept
    <2> SUFFICES ASSUME TypeOK, Truthful, [Next]_vars PROVE Kept
      OBVIOUS
    <2>1. CASE UNCHANGED approvals
      BY <2>1
    <2>2. ASSUME NEW p \in People, SaveAnswer(p) PROVE Kept
      <3>1. Saving(p) /\ approvals' = [approvals EXCEPT ![answering[p].id].status = answering[p].status]
        BY <2>2 DEF SaveAnswer, Saving
      <3>2. approvals[answering[p].id].status = "requested"
        BY <3>1 DEF Truthful
      <3> QED BY <3>1, <3>2
    <2>3. CASE DoAsk
      <3>1. approvals \in Seq(Approvals)
        BY DEF TypeOK
      <3>2. \A a \in DOMAIN approvals : approvals'[a] = approvals[a]
        BY <2>3, <3>1 DEF DoAsk
      <3> QED BY <3>2
    <2>4. ASSUME NEW f \in FlowIds, RunNow(f) \/ Match(f) \/ StartDue(f) PROVE UNCHANGED approvals
      BY <2>4 DEF RunNow, Match, StartDue
    <2>5. TakeChange \/ Matched \/ TakeRun \/ Skip => UNCHANGED approvals
      BY DEF TakeChange, Matched, TakeRun, Skip, records
    <2>6. DoWrite \/ DoQuiet \/ Hold \/ DoWait \/ DoStop \/ End \/ Fail => UNCHANGED approvals
      BY DEF DoWrite, DoQuiet, Hold, DoWait, DoStop, End, Fail
    <2>7. Write \/ Tick \/ Crash => UNCHANGED approvals
      BY DEF Write, Tick, Crash, records
    <2>8. ASSUME NEW p \in People, NEW a \in DOMAIN approvals, NEW status \in Answers,
                 LookAnswer(p, a, status)
          PROVE  UNCHANGED approvals
      BY <2>8 DEF LookAnswer, records
    <2>9. ASSUME NEW p \in People, TellAnswer(p) PROVE UNCHANGED approvals
      BY <2>9 DEF TellAnswer, records
    <2>10. ASSUME NEW r \in Runs, Wake(r) PROVE UNCHANGED approvals
      BY <2>10 DEF Wake
    <2>11. UNCHANGED vars => UNCHANGED approvals
      BY DEF vars, records
    <2>12. TakeAnswer => UNCHANGED approvals
      BY Zenon DEF TakeAnswer
    <2> QED
      BY <2>1, <2>2, <2>3, <2>4, <2>5, <2>6, <2>7, <2>8, <2>9, <2>10, <2>11, <2>12 DEF Next, Work
  <1>3. TypeOK /\ Truthful /\ [Next]_vars => Truthful'
    BY TruthfulStep
  <1> QED BY TypeCorrect, <1>1, <1>2, <1>3, PTL DEF Spec, AnsweredOnce
=============================================================================
