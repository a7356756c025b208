-------------------------- MODULE AgentJobs_proofs --------------------------
(* Proofs about AgentJobs, for every value of its constants.               *)
EXTENDS AgentJobs, TLAPS

JobStates == {"none", "queued", "running", "givenup", "done", "failed", "gone"}
Jobs      == [agent : 0..MaxAgents, age : 0..StaleAfter + 1, state : JobStates]

WellMade(c) == c \in Calls /\ (c.job # 0 <=> c.pc \in WithJob)

----------------------------------------------------------------------------
(* Calls.                                                                  *)

LEMMA IdleMade ==
    ASSUME NEW c \in Calls
    PROVE  WellMade(Idle(c)) /\ Idle(c).pc = "idle" /\ Idle(c).token = c.token /\ Idle(c).job = 0
  <1>1. 0 \in 0..MaxJobs BY ConstantsAssumption
  <1> QED BY <1>1 DEF Idle, WellMade, Calls, Places, WithJob, Telling

LEMMA StayedMade ==
    ASSUME NEW c \in Calls, WellMade(c), NEW pc \in Places, c.pc \in WithJob <=> pc \in WithJob
    PROVE  LET d == [c EXCEPT !.pc = pc]
           IN  WellMade(d) /\ d.pc = pc /\ d.job = c.job /\ d.token = c.token
  BY DEF WellMade, Calls

(* What the server makes of a call.                                        *)
Handled(c, d) ==
    /\ WellMade(d) /\ d.token = c.token
    /\ \/ d = Idle(c) /\ jobs' = jobs
       \/ /\ c.pc = "sent" /\ d.pc = "in" /\ Valid(c.token) /\ jobs' = jobs
       \/ /\ c.pc = "reporting" /\ d.pc = "heard" /\ d.job = c.job /\ jobs' = jobs
       \/ /\ c.pc = "in" /\ d.pc = "looked" /\ d.job \in Oldest(c.token.agent) /\ jobs' = jobs
       \/ /\ c.pc = "looked" /\ d.pc \in {"idle", "answered"} /\ jobs' = Claimed(c.job)
          /\ d.pc = "answered" => d.job = c.job
       \/ /\ c.pc = "heard" /\ d.pc = "ready"
          /\ jobs[c.job].state # "gone"
          /\ \E outcome \in {"done", "failed"} : jobs' = [jobs EXCEPT ![c.job] = Put(c.job, outcome)]

LEMMA Serving ==
    ASSUME NEW w, NEW c \in Calls, WellMade(c), Serve(w, c)
    PROVE  /\ \E d : Goes(w, c, d) /\ Handled(c, d)
           /\ UNCHANGED <<enrolment, begun, faults>>
  <1> USE DEF Places, AtServer, Claiming, Telling, WithJob
  <1>1. CASE Arrive(w, c)
    <2>1. CASE Valid(c.token) /\ c.pc = "sent"
      <3> DEFINE d == [c EXCEPT !.pc = "in"]
      <3>1. Goes(w, c, d) /\ jobs' = jobs
        BY <1>1, <2>1 DEF Arrive, Calls
      <3>2. WellMade(d) /\ d.pc = "in" /\ d.token = c.token
        BY <2>1, StayedMade
      <3> HIDE DEF d
      <3> QED BY <3>1, <3>2, <2>1 DEF Handled, Serve
    <2>2. CASE Valid(c.token) /\ c.pc = "reporting"
      <3> DEFINE d == [c EXCEPT !.pc = "heard"]
      <3>1. Goes(w, c, d) /\ jobs' = jobs
        BY <1>1, <2>2 DEF Arrive, Calls
      <3>2. WellMade(d) /\ d.pc = "heard" /\ d.token = c.token /\ d.job = c.job
        BY <2>2, StayedMade
      <3> HIDE DEF d
      <3> QED BY <3>1, <3>2, <2>2, Serve(w, c) DEF Handled, Serve
    <2>3. CASE ~Valid(c.token)
      <3>1. Goes(w, c, Idle(c)) /\ jobs' = jobs
        BY <1>1, <2>3 DEF Arrive
      <3> QED BY <3>1, IdleMade, Serve(w, c) DEF Handled, Serve
    <2> QED BY <1>1, <2>1, <2>2, <2>3 DEF Arrive
  <1>2. CASE Look(w, c)
    <2>1. CASE Goes(w, c, Idle(c))
      BY <1>2, <2>1, IdleMade, Serve(w, c) DEF Handled, Serve, Look
    <2>2. CASE \E j \in Oldest(c.token.agent) : Goes(w, c, [c EXCEPT !.pc = "looked", !.job = j])
      <3>1. PICK j \in Oldest(c.token.agent) : Goes(w, c, [c EXCEPT !.pc = "looked", !.job = j])
        BY <2>2
      <3> DEFINE d == [c EXCEPT !.pc = "looked", !.job = j]
      <3>2. j \in 0..MaxJobs /\ j # 0
        BY ConstantsAssumption DEF Oldest, Firsts, Queued, JobIds
      <3>3. WellMade(d) /\ d.pc = "looked" /\ d.job = j /\ d.token = c.token
        BY <3>2 DEF WellMade, Calls
      <3>4. Goes(w, c, d)
        BY <3>1
      <3> HIDE DEF d
      <3> QED BY <3>1, <3>3, <3>4, <1>2, Serve(w, c) DEF Handled, Serve, Look
    <2> QED BY <1>2, <2>1, <2>2 DEF Look
  <1>3. CASE Take(w, c)
    <2>1. CASE jobs[c.job].state = "gone"
      <3>1. Goes(w, c, Idle(c)) /\ c.pc = "looked" /\ jobs' = Claimed(c.job)
        BY <1>3, <2>1 DEF Take
      <3> QED BY <3>1, IdleMade, Serve(w, c) DEF Handled, Serve
    <2>2. CASE jobs[c.job].state # "gone"
      <3> DEFINE d == [c EXCEPT !.pc = "answered"]
      <3>1. Goes(w, c, d) /\ c.pc = "looked" /\ jobs' = Claimed(c.job)
        BY <1>3, <2>2 DEF Take
      <3>2. WellMade(d) /\ d.pc = "answered" /\ d.job = c.job /\ d.token = c.token
        BY <3>1, StayedMade
      <3> HIDE DEF d
      <3> QED BY <3>1, <3>2, Serve(w, c) DEF Handled, Serve
    <2> QED BY <2>1, <2>2
  <1>4. CASE Finish(w, c)
    <2>1. CASE UNCHANGED jobs /\ Goes(w, c, Idle(c))
      BY <2>1, IdleMade, Serve(w, c) DEF Handled, Serve
    <2>2. CASE /\ jobs[c.job].state # "gone" /\ jobs[c.job].agent = c.token.agent
               /\ \E outcome \in {"done", "failed"} : jobs' = [jobs EXCEPT ![c.job] = Put(c.job, outcome)]
               /\ Goes(w, c, [c EXCEPT !.pc = "ready", !.job = 0])
      <3> DEFINE d == [c EXCEPT !.pc = "ready", !.job = 0]
      <3>1. 0 \in 0..MaxJobs
        BY ConstantsAssumption
      <3>2. WellMade(d) /\ d.pc = "ready" /\ d.token = c.token
        BY <3>1 DEF WellMade, Calls
      <3>3. Goes(w, c, d) /\ c.pc = "heard"
        BY <2>2, <1>4 DEF Finish
      <3> HIDE DEF d
      <3> QED BY <3>2, <3>3, <2>2, Serve(w, c) DEF Handled, Serve
    <2> QED BY <1>4, <2>1, <2>2 DEF Finish
  <1> QED BY <1>1, <1>2, <1>3, <1>4 DEF Serve

(* Where the call then is.                                                 *)
LEMMA Going ==
    ASSUME TypeOK, NEW w, NEW c, NEW d, WellMade(d), Goes(w, c, d)
    PROVE  /\ proc' \in [Machines -> Calls] /\ late' \subseteq LateCalls
           /\ \A e \in {proc'[m] : m \in Machines} \cup late' :
                  e \in {proc[m] : m \in Machines} \cup late \cup {d}
  BY DEF TypeOK, WellMade, Goes

----------------------------------------------------------------------------
(* Types.                                                                  *)

AllCalls == {proc[m] : m \in Machines} \cup late

LEMMA Made ==
    ASSUME TypeOK, NEW c \in AllCalls
    PROVE  WellMade(c)
  BY DEF TypeOK, AllCalls, WellMade, LateCalls

(* TypeOK, with what it says of calls said call by call.                   *)
LEMMA CallsTyped ==
    ASSUME proc' \in [Machines -> Calls], late' \subseteq LateCalls,
           \A m \in Machines : WellMade(proc'[m]), \A c \in late' : WellMade(c)
    PROVE  \A c \in {proc'[m] : m \in Machines} \cup late' : c.job # 0 <=> c.pc \in WithJob
  BY DEF WellMade

LEMMA PutTyped ==
    ASSUME TypeOK, NEW j \in JobIds, NEW s \in JobStates
    PROVE  Put(j, s) \in Jobs /\ Put(j, s).agent = jobs[j].agent /\ Put(j, s).state = s
  <1>1. 0 \in 0..StaleAfter + 1
    BY ConstantsAssumption
  <1> QED BY <1>1 DEF Put, Jobs, JobStates, TypeOK

LEMMA HandledTyped ==
    ASSUME TypeOK, NEW c, WellMade(c), NEW d, Handled(c, d)
    PROVE  jobs' \in [JobIds -> Jobs]
  <1>1. jobs \in [JobIds -> Jobs]
    BY DEF TypeOK, Jobs, JobStates
  <1>2. c.pc \in {"looked", "heard"} => c.job \in JobIds
    BY ConstantsAssumption DEF WellMade, Calls, WithJob, Telling, JobIds
  <1>3. ASSUME c.pc = "looked" PROVE Claimed(c.job) \in [JobIds -> Jobs]
    <2>1. 0 \in 0..StaleAfter + 1
      BY ConstantsAssumption
    <2> QED BY <1>1, <1>2, <1>3, <2>1 DEF Claimed, Jobs, JobStates
  <1>4. ASSUME NEW o \in {"done", "failed"}, c.pc = "heard"
        PROVE  [jobs EXCEPT ![c.job] = Put(c.job, o)] \in [JobIds -> Jobs]
    BY <1>1, <1>2, <1>4, PutTyped DEF JobStates
  <1> QED BY <1>1, <1>3, <1>4 DEF Handled

LEMMA NameTyped ==
    ASSUME TypeOK, NEW a \in AgentIds, NEW k \in Firsts(Unused)
    PROVE  /\ k \in 1..MaxTokens
           /\ [agent |-> a, number |-> k] \in Tokens
  BY ConstantsAssumption DEF Firsts, Unused, Tokens, AgentIds

LEMMA GivenTyped ==
    ASSUME TypeOK, NEW m \in Machines, NEW t \in Tokens, Given(m, t)
    PROVE  /\ proc' \in [Machines -> Calls] /\ faults' \in 0..MaxFaults
           /\ \A k \in Machines : WellMade(proc'[k]) /\ proc'[k].pc = proc[k].pc /\ proc'[k].job = proc[k].job
  <1>1. \A k \in Machines : proc[k] \in Calls /\ WellMade(proc[k])
    BY Made DEF TypeOK, AllCalls
  <1>2. CASE proc' = proc /\ faults' = faults + 1 /\ faults < MaxFaults
    BY <1>1, <1>2, ConstantsAssumption DEF TypeOK
  <1>3. ASSUME NEW S \in SUBSET Machines, UNCHANGED faults,
               proc' = [k \in Machines |-> IF k \in S /\ proc[k].pc = "idle"
                                           THEN [proc[k] EXCEPT !.token = t] ELSE proc[k]]
        PROVE  /\ proc' \in [Machines -> Calls] /\ faults' \in 0..MaxFaults
               /\ \A k \in Machines : WellMade(proc'[k]) /\ proc'[k].pc = proc[k].pc /\ proc'[k].job = proc[k].job
    BY <1>1, <1>3 DEF TypeOK, WellMade, Calls
  <1> QED BY <1>2, <1>3 DEF Given

LEMMA InsertTyped ==
    ASSUME TypeOK, NEW m \in Machines, NEW n \in Names, NEW t \in Tickets \cup {NoTicket}, Insert(m, n, t)
    PROVE  /\ agents' \in [AgentIds -> [state : {"none", "enrolled", "gone"}, name : Names \cup {NoName},
                                       token : 0..MaxTokens, by : Tickets \cup {NoTicket}]]
           /\ proc' \in [Machines -> Calls] /\ faults' \in 0..MaxFaults
           /\ \A k \in Machines : WellMade(proc'[k])
  <1>1. PICK a \in Firsts(Free), k \in Firsts(Unused) :
               /\ agents' = [agents EXCEPT ![a] = [state |-> "enrolled", name |-> n, token |-> k, by |-> t]]
               /\ Given(m, [agent |-> a, number |-> k])
    BY DEF Insert
  <1>2. a \in AgentIds
    BY DEF Firsts, Free
  <1>3. k \in 0..MaxTokens /\ [agent |-> a, number |-> k] \in Tokens
    BY <1>2, NameTyped, ConstantsAssumption
  <1>4. /\ proc' \in [Machines -> Calls] /\ faults' \in 0..MaxFaults
        /\ \A i \in Machines : WellMade(proc'[i])
    BY <1>1, <1>3, GivenTyped
  <1> QED BY <1>1, <1>2, <1>3, <1>4 DEF TypeOK

(* A process that moves on, or that goes back to be idle.                  *)
LEMMA ProcMoves ==
    ASSUME TypeOK, NEW m \in Machines, NEW d, WellMade(d), proc' = [proc EXCEPT ![m] = d]
    PROVE  proc' \in [Machines -> Calls] /\ \A k \in Machines : WellMade(proc'[k])
  BY Made DEF TypeOK, AllCalls, WellMade

LEMMA StepTyped ==
    ASSUME TypeOK, Next
    PROVE  TypeOK'
  <1> DEFINE Good == /\ jobs' \in [JobIds -> Jobs]
                     /\ proc' \in [Machines -> Calls] /\ \A k \in Machines : WellMade(proc'[k])
                     /\ late' \subseteq LateCalls /\ \A c \in late' : WellMade(c)
                     /\ faults' \in 0..MaxFaults
  <1>a. jobs \in [JobIds -> Jobs] /\ \A k \in Machines : proc[k] \in Calls /\ WellMade(proc[k])
    BY Made DEF TypeOK, Jobs, JobStates, AllCalls
  <1>b. late \subseteq LateCalls /\ \A c \in late : WellMade(c) /\ c \in Calls
    BY Made DEF TypeOK, AllCalls, LateCalls
  <1>c. ASSUME Good, UNCHANGED <<enrolment, begun>> PROVE TypeOK'
    BY <1>c, CallsTyped DEF TypeOK, Jobs, JobStates, enrolment
  <1>d. ASSUME UNCHANGED <<proc, late, faults>>
        PROVE  /\ proc' \in [Machines -> Calls] /\ \A k \in Machines : WellMade(proc'[k])
               /\ late' \subseteq LateCalls /\ \A c \in late' : WellMade(c)
               /\ faults' \in 0..MaxFaults
    BY <1>d, <1>a, <1>b DEF TypeOK
  <1>1. ASSUME NEW j \in JobIds, NEW a \in AgentIds, Ask(j, a) PROVE TypeOK'
    <2>1. jobs' \in [JobIds -> Jobs]
      BY <1>1, <1>a DEF Ask, Jobs, JobStates, AgentIds
    <2> QED BY <1>1, <2>1, <1>c, <1>d DEF Ask
  <1>2. ASSUME NEW a \in AgentIds, Remove(a) PROVE TypeOK'
    <2>1. jobs' \in [JobIds -> Jobs]
      BY <1>2, <1>a, PutTyped DEF Remove, JobStates
    <2>2. agents' \in [AgentIds -> [state : {"none", "enrolled", "gone"}, name : Names \cup {NoName},
                                   token : 0..MaxTokens, by : Tickets \cup {NoTicket}]]
      BY <1>2 DEF Remove, TypeOK
    <2> QED BY <1>2, <2>1, <2>2, <1>d, CallsTyped DEF Remove, TypeOK, Jobs, JobStates
  <1>3. ASSUME NEW m \in Machines, NEW n \in Names, EnrollSelf(m, n) PROVE TypeOK'
    <2> DEFINE Result == /\ agents' \in [AgentIds -> [state : {"none", "enrolled", "gone"}, name : Names \cup {NoName},
                                   token : 0..MaxTokens, by : Tickets \cup {NoTicket}]]
                         /\ proc' \in [Machines -> Calls] /\ faults' \in 0..MaxFaults
                         /\ \A k \in Machines : WellMade(proc'[k])
    <2>1. ASSUME Insert(m, n, NoTicket) PROVE Result
      BY <2>1, InsertTyped
    <2>2. ASSUME NEW a \in Named(n), NEW k \in Firsts(Unused), agents' = [agents EXCEPT ![a].token = k],
                 Given(m, [agent |-> a, number |-> k])
          PROVE  Result
      <3>1. a \in AgentIds
        BY DEF Named
      <3>2. k \in 0..MaxTokens /\ [agent |-> a, number |-> k] \in Tokens
        BY <3>1, NameTyped, ConstantsAssumption
      <3>3. /\ proc' \in [Machines -> Calls] /\ faults' \in 0..MaxFaults
            /\ \A i \in Machines : WellMade(proc'[i])
        BY <2>2, <3>2, GivenTyped
      <3> QED BY <2>2, <3>1, <3>2, <3>3 DEF TypeOK
    <2>3. Result
      <3> HIDE DEF Result
      <3> QED BY <1>3, <2>1, <2>2 DEF EnrollSelf
    <2> QED BY <1>3, <2>3, <1>b, CallsTyped DEF EnrollSelf, TypeOK
  <1>4. ASSUME NEW t \in Tickets, MakeTicket(t) \/ Lapse(t) PROVE TypeOK'
    BY <1>4 DEF MakeTicket, Lapse, TypeOK
  <1>5. ASSUME NEW m \in Machines, NEW t \in Tickets, NEW n \in Names, LookTicket(m, t, n) PROVE TypeOK'
    BY <1>5 DEF LookTicket, TypeOK
  <1>6. ASSUME NEW c \in joining, Enroll(c) PROVE TypeOK'
    <2>1. c.machine \in Machines /\ c.ticket \in Tickets /\ c.name \in Names /\ joining' \subseteq joining
      BY <1>6 DEF TypeOK, Enroll
    <2>2. CASE UNCHANGED <<agents, tickets, proc, faults>>
      BY <1>6, <2>1, <2>2 DEF Enroll, TypeOK
    <2>3. CASE Insert(c.machine, c.name, c.ticket) /\ tickets' = [tickets EXCEPT ![c.ticket] = "used"]
      <3>1. /\ agents' \in [AgentIds -> [state : {"none", "enrolled", "gone"}, name : Names \cup {NoName},
                                   token : 0..MaxTokens, by : Tickets \cup {NoTicket}]]
            /\ proc' \in [Machines -> Calls] /\ faults' \in 0..MaxFaults
            /\ \A k \in Machines : WellMade(proc'[k])
        BY <2>1, <2>3, InsertTyped
      <3>2. tickets' \in [Tickets -> {"none", "open", "used", "lapsed"}]
        BY <2>3 DEF TypeOK
      <3> QED BY <1>6, <2>1, <3>1, <3>2, <1>b, CallsTyped DEF Enroll, TypeOK
    <2> QED BY <1>6, <2>2, <2>3 DEF Enroll
  <1>7. ASSUME NEW m \in Machines, Process(m) PROVE TypeOK'
    <2> USE DEF Places, AtServer, Claiming, Telling, WithJob
    <2>1. CASE Heartbeat(m)
      <3>1. jobs' \in [JobIds -> Jobs]
        BY <2>1, <1>a, PutTyped DEF Heartbeat, Reaped, JobStates
      <3>2. CASE At(m, "ready") /\ UNCHANGED faults
        <4>1. WellMade([proc[m] EXCEPT !.pc = "ready"])
          BY <2>1, <1>a, StayedMade DEF Heartbeat
        <4>2. proc' = [proc EXCEPT ![m] = [proc[m] EXCEPT !.pc = "ready"]]
          BY <3>2 DEF At, TypeOK
        <4>3. proc' \in [Machines -> Calls] /\ \A k \in Machines : WellMade(proc'[k])
          BY <4>1, <4>2, ProcMoves
        <4> QED BY <2>1, <3>1, <3>2, <4>3, <1>b, <1>c DEF Heartbeat, TypeOK
      <3>3. CASE faults < MaxFaults /\ faults' = faults + 1 /\ UNCHANGED proc
        <4>1. faults' \in 0..MaxFaults
          BY <3>3, ConstantsAssumption DEF TypeOK
        <4>2. proc' \in [Machines -> Calls] /\ \A k \in Machines : WellMade(proc'[k])
          BY <3>3, <1>a DEF TypeOK
        <4> QED BY <2>1, <3>1, <4>1, <4>2, <1>b, <1>c DEF Heartbeat
      <3> QED BY <2>1, <3>2, <3>3 DEF Heartbeat
    <2>2. ASSUME NEW pc \in Places, At(m, pc), proc[m].pc \in WithJob <=> pc \in WithJob,
                 UNCHANGED <<enrolment, jobs, late, faults>>, begun' \in [JobIds -> Nat]
          PROVE  TypeOK'
      <3>1. WellMade([proc[m] EXCEPT !.pc = pc])
        BY <2>2, <1>a, StayedMade
      <3>2. proc' = [proc EXCEPT ![m] = [proc[m] EXCEPT !.pc = pc]]
        BY <2>2 DEF At, TypeOK
      <3>3. proc' \in [Machines -> Calls] /\ \A k \in Machines : WellMade(proc'[k])
        BY <3>1, <3>2, ProcMoves
      <3> QED BY <2>2, <3>3, <1>b, CallsTyped DEF TypeOK, enrolment
    <2>3. CASE Claim(m)
      <3>1. begun' \in [JobIds -> Nat]
        BY <2>3 DEF Claim, TypeOK
      <3> QED BY <2>2, <2>3, <3>1 DEF Claim
    <2>4. CASE Begin(m)
      <3>1. begun' \in [JobIds -> Nat]
        <4>1. begun \in [JobIds -> Nat]
          BY DEF TypeOK
        <4>2. begun' = [begun EXCEPT ![proc[m].job] = begun[proc[m].job] + 1]
          BY <2>4 DEF Begin
        <4>3. \A j \in JobIds : begun[j] \in Nat /\ begun[j] + 1 \in Nat
          BY <4>1
        <4> QED BY <4>1, <4>2, <4>3
      <3> QED BY <2>2, <2>4, <3>1 DEF Begin
    <2>5. CASE Report(m)
      <3>1. begun' \in [JobIds -> Nat]
        BY <2>5 DEF Report, TypeOK
      <3> QED BY <2>2, <2>5, <3>1 DEF Report
    <2> QED BY <1>7, <2>1, <2>3, <2>4, <2>5 DEF Process
  <1>8. ASSUME NEW m \in Machines, GiveUp(m) PROVE TypeOK'
    <2>1. WellMade(Idle(proc[m]))
      BY <1>a, IdleMade
    <2>2. proc' = [proc EXCEPT ![m] = Idle(proc[m])]
      BY <1>8 DEF GiveUp, TypeOK
    <2>3. proc' \in [Machines -> Calls] /\ \A k \in Machines : WellMade(proc'[k])
      BY <2>1, <2>2, ProcMoves
    <2>4. late' \subseteq LateCalls /\ \A c \in late' : WellMade(c)
      BY <1>8, <1>a, <1>b DEF GiveUp, LateCalls
    <2>5. faults' \in 0..MaxFaults
      BY <1>8, ConstantsAssumption DEF GiveUp, TypeOK
    <2> QED BY <1>8, <2>3, <2>4, <2>5, <1>a, <1>c DEF GiveUp
  <1>9. ASSUME NEW w, NEW c \in AllCalls, Serve(w, c) PROVE TypeOK'
    <2>0. c \in Calls /\ WellMade(c)
      BY <1>a, <1>b DEF AllCalls
    <2>1. PICK d : Goes(w, c, d) /\ Handled(c, d)
      BY <2>0, <1>9, Serving
    <2>2. UNCHANGED <<enrolment, begun, faults>>
      BY <2>0, <1>9, Serving
    <2>3. WellMade(d)
      BY <2>1 DEF Handled
    <2>4. /\ proc' \in [Machines -> Calls] /\ late' \subseteq LateCalls
          /\ \A e \in {proc'[m] : m \in Machines} \cup late' : e \in AllCalls \cup {d}
      BY <2>1, <2>3, Going DEF AllCalls
    <2>5. \A e \in AllCalls \cup {d} : WellMade(e)
      BY <2>3, Made
    <2>6. (\A k \in Machines : WellMade(proc'[k])) /\ \A e \in late' : WellMade(e)
      BY <2>4, <2>5
    <2>7. jobs' \in [JobIds -> Jobs]
      BY <2>0, <2>1, HandledTyped
    <2>8. faults' \in 0..MaxFaults
      BY <2>2 DEF TypeOK
    <2> QED BY <2>2, <2>4, <2>6, <2>7, <2>8, <1>c
  <1>10. CASE Tick
    <2>1. jobs' \in [JobIds -> Jobs]
      BY <1>10, <1>a, ConstantsAssumption DEF Tick, Jobs
    <2> QED BY <1>10, <2>1, <1>c, <1>d DEF Tick
  <1>11. ASSUME NEW m \in Machines, Serve(m, proc[m]) PROVE TypeOK'
    BY <1>11, <1>9 DEF AllCalls
  <1>12. ASSUME NEW c \in late, Serve(Nobody, c) PROVE TypeOK'
    BY <1>12, <1>9 DEF AllCalls
  <1> QED BY <1>1, <1>2, <1>3, <1>4, <1>5, <1>6, <1>7, <1>8, <1>10, <1>11, <1>12 DEF Next

LEMMA InitTyped == Init => TypeOK
  BY ConstantsAssumption DEF Init, TypeOK, Calls, Places, Tokens, NoToken, LateCalls, WithJob, Telling

(* Every step keeps the tables, the processes and the late calls well      *)
(* formed, and a call names a job exactly when it is about one.            *)
THEOREM TypeCorrect == Spec => []TypeOK
  <1>1. TypeOK /\ [Next]_vars => TypeOK'
    <2>1. TypeOK /\ UNCHANGED vars => TypeOK'
      BY DEF TypeOK, vars, enrolment
    <2> QED BY <2>1, StepTyped
  <1> QED BY <1>1, InitTyped, PTL DEF Spec

----------------------------------------------------------------------------
(* Each job is begun once, where one process at a time has an agent's      *)
(* token.  Why: while a claim of such a process is at the server or its    *)
(* answer on the way, no other process's is for that agent; so nobody can  *)
(* have begun the job it read as queued.                                   *)

Solo == {"twice", "rotate"} \cap Hazards = {}

Flying == Claiming \cup {"answered"}

(* A row's token, though the row may be gone.                              *)
Current(t) == t.agent \in AgentIds /\ agents[t.agent].state # "none" /\ agents[t.agent].token = t.number

Held ==
    /\ \A m, k \in Machines :
          m # k /\ Current(proc[m].token) /\ Current(proc[k].token) => proc[m].token.agent # proc[k].token.agent
    /\ \A m \in Machines : proc[m].pc \in Flying => Current(proc[m].token)
    /\ \A m \in Machines : proc[m].token.number \notin Unused

Begun ==
    /\ RunOnce
    /\ \A j \in JobIds : jobs[j].state \in {"none", "queued"} => begun[j] = 0
    /\ \A m \in Machines : proc[m].pc \in {"looked", "answered"} =>
          LET j == proc[m].job
          IN  begun[j] = 0 /\ jobs[j].agent = proc[m].token.agent /\ jobs[j].state # "none"
    /\ \A m \in Machines : proc[m].pc = "answered" => jobs[proc[m].job].state # "queued"

(* Machine m gets agent a's new token k, or nobody does.                   *)
Enrols(m, a, k) ==
    /\ a \in AgentIds /\ k \in Firsts(Unused) /\ m \in Machines /\ proc[m].pc = "idle"
    /\ agents[a].state = "none" \/ ~InFlight(a)
    /\ \E r : agents' = [agents EXCEPT ![a] = r] /\ r.token = k /\ r.state = "enrolled"
    /\ \/ proc' = proc
       \/ proc' = [proc EXCEPT ![m] = [proc[m] EXCEPT !.token = [agent |-> a, number |-> k]]]

LEMMA GivenOne ==
    ASSUME TypeOK, Solo, NEW m \in Machines, NEW t, proc[m].pc = "idle", Given(m, t)
    PROVE  \/ proc' = proc
           \/ proc' = [proc EXCEPT ![m] = [proc[m] EXCEPT !.token = t]]
  <1>1. CASE proc' = proc
    BY <1>1
  <1>2. CASE proc' = [k \in Machines |-> IF k \in {m} /\ proc[k].pc = "idle"
                                        THEN [proc[k] EXCEPT !.token = t] ELSE proc[k]]
    BY <1>2 DEF TypeOK
  <1> QED BY <1>1, <1>2 DEF Given, Solo

LEMMA InsertEnrols ==
    ASSUME TypeOK, Solo, NEW m \in Machines, NEW n, NEW t, proc[m].pc = "idle", Insert(m, n, t)
    PROVE  \E a, k : Enrols(m, a, k)
  <1>1. PICK a \in Firsts(Free), k \in Firsts(Unused) :
               /\ agents' = [agents EXCEPT ![a] = [state |-> "enrolled", name |-> n, token |-> k, by |-> t]]
               /\ Given(m, [agent |-> a, number |-> k])
    BY DEF Insert
  <1>2. a \in AgentIds /\ agents[a].state = "none"
    BY DEF Firsts, Free
  <1>3. \/ proc' = proc
        \/ proc' = [proc EXCEPT ![m] = [proc[m] EXCEPT !.token = [agent |-> a, number |-> k]]]
    BY <1>1, GivenOne
  <1> DEFINE r == [state |-> "enrolled", name |-> n, token |-> k, by |-> t]
  <1>4. agents' = [agents EXCEPT ![a] = r] /\ r.token = k /\ r.state = "enrolled"
    BY <1>1
  <1> HIDE DEF r
  <1> QED BY <1>2, <1>3, <1>4 DEF Enrols

LEMMA SelfEnrols ==
    ASSUME TypeOK, Solo, NEW m \in Machines, NEW n \in Names, EnrollSelf(m, n)
    PROVE  (\E a, k : Enrols(m, a, k)) /\ UNCHANGED <<jobs, late, begun>>
  <1>1. CASE Insert(m, n, NoTicket)
    BY <1>1, InsertEnrols DEF EnrollSelf
  <1>2. CASE \E a \in Named(n), k \in Firsts(Unused) :
               /\ ~InFlight(a)
               /\ agents' = [agents EXCEPT ![a].token = k]
               /\ Given(m, [agent |-> a, number |-> k])
    <2>1. PICK a \in Named(n), k \in Firsts(Unused) :
               /\ ~InFlight(a)
               /\ agents' = [agents EXCEPT ![a].token = k]
               /\ Given(m, [agent |-> a, number |-> k])
      BY <1>2
    <2>2. a \in AgentIds /\ agents[a].state = "enrolled"
      BY DEF Named
    <2>3. \/ proc' = proc
          \/ proc' = [proc EXCEPT ![m] = [proc[m] EXCEPT !.token = [agent |-> a, number |-> k]]]
      BY <2>1, GivenOne DEF EnrollSelf
    <2> DEFINE r == [agents[a] EXCEPT !.token = k]
    <2>4. agents' = [agents EXCEPT ![a] = r] /\ r.token = k /\ r.state = "enrolled"
      BY <2>1, <2>2 DEF TypeOK
    <2> HIDE DEF r
    <2>5. Enrols(m, a, k)
      BY <2>1, <2>2, <2>3, <2>4 DEF Enrols, EnrollSelf
    <2> QED BY <2>5 DEF EnrollSelf
  <1> QED BY <1>1, <1>2 DEF EnrollSelf, Solo

LEMMA TicketEnrols ==
    ASSUME TypeOK, Solo, NEW c \in joining, Enroll(c)
    PROVE  /\ UNCHANGED <<jobs, late, begun>>
           /\ UNCHANGED <<agents, proc>> \/ \E m, a, k : Enrols(m, a, k)
  <1>1. c.machine \in Machines
    BY DEF TypeOK
  <1> QED BY <1>1, InsertEnrols DEF Enroll

LEMMA Served ==
    ASSUME TypeOK, NEW m \in Machines, Serve(m, proc[m])
    PROVE  /\ UNCHANGED <<enrolment, late, begun, faults>>
           /\ \E d : proc' = [proc EXCEPT ![m] = d] /\ Handled(proc[m], d)
  <1>1. proc[m] \in Calls /\ WellMade(proc[m])
    BY Made DEF TypeOK, AllCalls
  <1>2. m # Nobody
    BY ConstantsAssumption
  <1>3. UNCHANGED <<enrolment, begun, faults>> /\ \E d : Goes(m, proc[m], d) /\ Handled(proc[m], d)
    BY <1>1, Serving
  <1>4. PICK d : Goes(m, proc[m], d) /\ Handled(proc[m], d)
    BY <1>3
  <1>5. proc' = [proc EXCEPT ![m] = d] /\ UNCHANGED late
    BY <1>2, <1>4 DEF Goes
  <1> QED BY <1>3, <1>4, <1>5

LEMMA ServedLate ==
    ASSUME TypeOK, NEW c \in late, Serve(Nobody, c)
    PROVE  /\ UNCHANGED <<enrolment, proc, begun, faults>>
           /\ \E d : late' = (late \ {c}) \cup ({d} \cap LateCalls) /\ Handled(c, d)
  <1>1. c \in Calls /\ WellMade(c)
    BY Made DEF TypeOK, AllCalls, LateCalls
  <1>2. UNCHANGED <<enrolment, begun, faults>> /\ \E d : Goes(Nobody, c, d) /\ Handled(c, d)
    BY <1>1, Serving
  <1>3. PICK d : Goes(Nobody, c, d) /\ Handled(c, d)
    BY <1>2
  <1>4. late' = (late \ {c}) \cup ({d} \cap LateCalls) /\ UNCHANGED proc
    BY <1>3, ConstantsAssumption DEF Goes
  <1> QED BY <1>2, <1>3, <1>4

LEMMA OneChanged ==
    ASSUME TypeOK, NEW m \in Machines, NEW d, proc' = [proc EXCEPT ![m] = d]
    PROVE  proc'[m] = d /\ \A i \in Machines : i # m => proc'[i] = proc[i]
  <1>1. proc = [i \in Machines |-> proc[i]]
    BY DEF TypeOK
  <1> HIDE DEF TypeOK
  <1> QED BY <1>1

LEMMA HeldStep ==
    ASSUME TypeOK, Solo, Held, Next
    PROVE  Held'
  <1> USE DEF Flying, Claiming
  <1>0. \A m \in Machines : proc[m] \in Calls /\ proc[m].token \in Tokens
    BY DEF TypeOK, Calls
  <1>1. ASSUME NEW m, NEW a, NEW k, Enrols(m, a, k) PROVE Held'
    <2>1. k \in Unused /\ a \in AgentIds /\ m \in Machines /\ k \in 1..MaxTokens
      BY <1>1 DEF Enrols, Firsts, Unused
    <2>2. PICK r : agents' = [agents EXCEPT ![a] = r] /\ r.token = k /\ r.state = "enrolled"
      BY <1>1 DEF Enrols
    <2>3. /\ agents'[a].token = k /\ agents'[a].state = "enrolled"
          /\ \A b \in AgentIds : b # a => agents'[b] = agents[b]
      BY <2>1, <2>2 DEF TypeOK
    <2>4. \A i \in Unused' : i \in Unused /\ i # k
      <3>1. \A i \in Spent : i \in Spent' \/ i < k
        BY <2>1, <2>3 DEF Spent, Unused
      <3>2. k \in Spent'
        BY <2>1, <2>3 DEF Spent
      <3>3. \A i \in Spent \cup Spent' : i \in Nat
        BY <2>1, <2>3, ConstantsAssumption DEF Spent, TypeOK
      <3> QED BY <3>1, <3>2, <3>3, <2>1, ConstantsAssumption DEF Unused
    <2>5. \A i \in Machines : /\ proc'[i].pc = proc[i].pc
                              /\ proc'[i].token = proc[i].token
                                    \/ (i = m /\ proc'[i].token = [agent |-> a, number |-> k])
      <3>1. CASE proc' = proc
        BY <3>1
      <3>2. CASE proc' = [proc EXCEPT ![m] = [proc[m] EXCEPT !.token = [agent |-> a, number |-> k]]]
        <4>1. /\ proc'[m] = [proc[m] EXCEPT !.token = [agent |-> a, number |-> k]]
              /\ \A i \in Machines : i # m => proc'[i] = proc[i]
          BY <3>2, <2>1, OneChanged
        <4> QED BY <4>1, <2>1, <1>0 DEF Calls
      <3> QED BY <1>1, <3>1, <3>2 DEF Enrols
    <2>6. \A i \in Machines : proc'[i].token = proc[i].token /\ Current(proc[i].token)'
                => proc[i].token.agent # a /\ Current(proc[i].token)
      <3> SUFFICES ASSUME NEW i \in Machines, proc'[i].token = proc[i].token, Current(proc[i].token)'
                   PROVE  proc[i].token.agent # a /\ Current(proc[i].token)
        OBVIOUS
      <3>1. proc[i].token.number # k
        BY <2>1 DEF Held
      <3> QED BY <3>1, <2>3 DEF Current
    <2>7. \A i \in Machines : proc[i].pc \in Flying => Current(proc[i].token)' /\ proc'[i].token = proc[i].token
      <3> SUFFICES ASSUME NEW i \in Machines, proc[i].pc \in Flying
                   PROVE  Current(proc[i].token)' /\ proc'[i].token = proc[i].token
        OBVIOUS
      <3>1. Current(proc[i].token) /\ i # m
        BY <1>1 DEF Held, Enrols
      <3>2. proc[i].token.agent # a
        BY <1>1, <3>1 DEF Enrols, InFlight, Current
      <3>3. proc'[i].token = proc[i].token
        BY <3>1, <2>5
      <3> QED BY <3>1, <3>2, <3>3, <2>3 DEF Current
    <2>8. \A i, l \in Machines :
             i # l /\ Current(proc[i].token)' /\ Current(proc[l].token)' => (proc[i].token.agent # proc[l].token.agent)'
      BY <2>5, <2>6 DEF Held
    <2>9. \A i \in Machines : (proc[i].token.number \notin Unused)'
      BY <2>4, <2>5 DEF Held
    <2> QED BY <2>5, <2>7, <2>8, <2>9 DEF Held
  <1>2. ASSUME NEW m \in Machines, NEW d, proc' = [proc EXCEPT ![m] = d], d.token = proc[m].token,
               d.pc \in Flying => proc[m].pc \in Flying \/ Current(proc[m].token),
               UNCHANGED agents
        PROVE  Held'
    <2>1. \A i \in Machines : proc'[i].token = proc[i].token
      BY <1>2 DEF TypeOK
    <2>2. \A i \in Machines : i # m => proc'[i] = proc[i]
      BY <1>2 DEF TypeOK
    <2>3. proc'[m] = d
      BY <1>2 DEF TypeOK
    <2>4. Unused' = Unused /\ \A t : Current(t)' <=> Current(t)
      BY <1>2 DEF Unused, Spent, Current
    <2>5. \A i \in Machines : proc'[i].pc \in Flying => Current(proc[i].token)
      BY <1>2, <2>2, <2>3 DEF Held
    <2>6. \A i \in Machines : Current(proc[i].token)' <=> Current(proc[i].token)
      BY <2>1, <2>4, <1>2 DEF Current
    <2> QED BY <2>1, <2>4, <2>5, <2>6 DEF Held
  <1>3. ASSUME UNCHANGED <<agents, proc>> PROVE Held'
    BY <1>3 DEF Held, Current, Unused, Spent
  <1>4. ASSUME NEW a \in AgentIds, Remove(a) PROVE Held'
    <2>1. /\ \A b \in AgentIds : agents'[b].token = agents[b].token /\ (agents'[b].state = "none" <=> agents[b].state = "none")
          /\ proc' = proc
      BY <1>4 DEF Remove, TypeOK
    <2>2. \A i \in Machines : Current(proc[i].token)' <=> Current(proc[i].token)
      BY <2>1 DEF Current
    <2>3. Unused' = Unused
      BY <2>1 DEF Unused, Spent
    <2> QED BY <2>1, <2>2, <2>3 DEF Held
  <1>5. ASSUME NEW m \in Machines, Process(m) PROVE Held'
    <2>1. ASSUME NEW pc, At(m, pc), UNCHANGED agents, pc \in Flying => proc[m].pc \in Flying PROVE Held'
      <3> DEFINE d == [proc[m] EXCEPT !.pc = pc]
      <3>1. proc' = [proc EXCEPT ![m] = d]
        BY <2>1 DEF At, TypeOK
      <3>2. d.token = proc[m].token /\ d.pc = pc
        BY <1>0 DEF Calls
      <3> HIDE DEF d
      <3> QED BY <2>1, <3>1, <3>2, <1>2
    <2> QED BY <1>5, <2>1, <1>3 DEF Process, Heartbeat, Claim, Begin, Report, enrolment
  <1>6. ASSUME NEW m \in Machines, GiveUp(m) PROVE Held'
    <2>1. proc' = [proc EXCEPT ![m] = Idle(proc[m])] /\ UNCHANGED agents
      BY <1>6 DEF GiveUp, TypeOK, enrolment
    <2>2. Idle(proc[m]).token = proc[m].token /\ Idle(proc[m]).pc = "idle"
      BY <1>0, IdleMade
    <2> QED BY <2>1, <2>2, <1>2
  <1>7. ASSUME NEW m \in Machines, Serve(m, proc[m]) PROVE Held'
    <2>1. PICK d : proc' = [proc EXCEPT ![m] = d] /\ Handled(proc[m], d)
      BY <1>7, Served
    <2>2. UNCHANGED agents
      BY <1>7, Served DEF enrolment
    <2>3. d.token = proc[m].token /\ (d.pc \in Flying => proc[m].pc \in Flying \/ Current(proc[m].token))
      BY <2>1, <1>0, IdleMade DEF Handled, Valid, Current
    <2> QED BY <2>1, <2>2, <2>3, <1>2
  <1>8. ASSUME NEW c \in late, Serve(Nobody, c) PROVE Held'
    BY <1>8, <1>3, ServedLate DEF enrolment
  <1>9. ASSUME NEW m \in Machines, NEW n \in Names, EnrollSelf(m, n) PROVE Held'
    BY <1>9, <1>1, SelfEnrols
  <1>10. ASSUME NEW c \in joining, Enroll(c) PROVE Held'
    BY <1>10, <1>1, <1>3, TicketEnrols
  <1> QED BY <1>3, <1>4, <1>5, <1>6, <1>7, <1>8, <1>9, <1>10 DEF Next, Ask, MakeTicket, Lapse, LookTicket, Tick, enrolment

LEMMA BegunStep ==
    ASSUME TypeOK, Solo, Held, Begun, Next
    PROVE  Begun'
  <1>0. /\ \A m \in Machines : proc[m] \in Calls /\ WellMade(proc[m])
        /\ jobs \in [JobIds -> Jobs] /\ begun \in [JobIds -> Nat]
    BY Made DEF TypeOK, AllCalls, Jobs, JobStates
  <1>a. ASSUME NEW m \in Machines, proc[m].pc \in WithJob PROVE proc[m].job \in JobIds
    BY <1>a, <1>0, ConstantsAssumption DEF WellMade, Calls, JobIds
  <1>b. "looked" \in WithJob /\ "answered" \in WithJob /\ "running" \in WithJob /\ "heard" \in WithJob
    BY DEF WithJob, Telling
  (* Nothing is begun, no job is queued again, no call comes nearer.       *)
  <1>1. ASSUME UNCHANGED begun,
               \A j \in JobIds : /\ jobs'[j].state \in {"none", "queued"} => jobs[j].state \in {"none", "queued"}
                                 /\ jobs[j].state # "none" => jobs'[j].agent = jobs[j].agent /\ jobs'[j].state # "none"
                                 /\ jobs[j].state \notin {"none", "queued"} => jobs'[j].state # "queued",
               \A m \in Machines : proc'[m].pc \in {"looked", "answered"} =>
                    proc'[m].pc = proc[m].pc /\ proc'[m].job = proc[m].job /\ proc'[m].token = proc[m].token
        PROVE  Begun'
    <2>1. RunOnce' /\ \A j \in JobIds : jobs'[j].state \in {"none", "queued"} => begun'[j] = 0
      BY <1>1 DEF Begun, RunOnce
    <2>2. ASSUME NEW m \in Machines, proc'[m].pc \in {"looked", "answered"}
          PROVE  /\ begun'[proc'[m].job] = 0 /\ jobs'[proc'[m].job].agent = proc'[m].token.agent
                 /\ jobs'[proc'[m].job].state # "none"
                 /\ proc'[m].pc = "answered" => jobs'[proc'[m].job].state # "queued"
      BY <1>1, <2>2, <1>a, <1>b DEF Begun
    <2> QED BY <2>1, <2>2 DEF Begun
  <1>2. ASSUME NEW m \in Machines, NEW d, proc' = [proc EXCEPT ![m] = d], d.pc \notin {"looked", "answered"}
        PROVE  \A i \in Machines : proc'[i].pc \in {"looked", "answered"} =>
                    proc'[i].pc = proc[i].pc /\ proc'[i].job = proc[i].job /\ proc'[i].token = proc[i].token
    BY <1>2 DEF TypeOK
  <1>3. ASSUME NEW j \in JobIds, NEW a \in AgentIds, Ask(j, a) PROVE Begun'
    <2>1. \A i \in JobIds : i # j => jobs'[i] = jobs[i]
      BY <1>3, <1>0 DEF Ask
    <2>2. jobs[j].state = "none" /\ jobs'[j].state = "queued" /\ UNCHANGED <<proc, begun>>
      BY <1>3, <1>0 DEF Ask, Jobs
    <2> QED BY <2>1, <2>2, <1>1
  <1>4. ASSUME NEW a \in AgentIds, Remove(a) PROVE Begun'
    <2>1. \A j \in JobIds : jobs'[j] = jobs[j] \/ (jobs'[j].state = "gone" /\ jobs'[j].agent = jobs[j].agent)
      BY <1>4, PutTyped DEF Remove, JobStates
    <2>2. UNCHANGED <<proc, begun>>
      BY <1>4 DEF Remove
    <2> QED BY <2>1, <2>2, <1>1
  <1>5. CASE Tick
    <2>1. \A j \in JobIds : jobs'[j].state = jobs[j].state /\ jobs'[j].agent = jobs[j].agent
      BY <1>5, <1>0 DEF Tick, Jobs
    <2>2. UNCHANGED <<proc, begun>>
      BY <1>5 DEF Tick
    <2> QED BY <2>1, <2>2, <1>1
  <1>6. ASSUME NEW m, NEW a, NEW k, Enrols(m, a, k), UNCHANGED <<jobs, begun>> PROVE Begun'
    <2>1. \A i \in Machines : proc'[i].pc \in {"looked", "answered"} =>
                    proc'[i].pc = proc[i].pc /\ proc'[i].job = proc[i].job /\ proc'[i].token = proc[i].token
      BY <1>6, <1>0 DEF Enrols, TypeOK, Calls
    <2> QED BY <2>1, <1>6, <1>1
  <1>7. ASSUME NEW m \in Machines, Process(m) PROVE Begun'
    <2>0. ASSUME NEW pc, At(m, pc), pc \notin {"looked", "answered"}
          PROVE  \A i \in Machines : proc'[i].pc \in {"looked", "answered"} =>
                    proc'[i].pc = proc[i].pc /\ proc'[i].job = proc[i].job /\ proc'[i].token = proc[i].token
      BY <2>0, <1>0 DEF At, TypeOK, Calls
    <2>1. CASE Heartbeat(m)
      <3>1. \A j \in JobIds : \/ jobs'[j] = jobs[j]
                              \/ /\ jobs[j].state = "running" /\ jobs'[j].state = "givenup"
                                 /\ jobs'[j].agent = jobs[j].agent
        BY <2>1, PutTyped DEF Heartbeat, Reaped, Stale, JobStates
      <3>2. \A i \in Machines : proc'[i].pc \in {"looked", "answered"} =>
                    proc'[i].pc = proc[i].pc /\ proc'[i].job = proc[i].job /\ proc'[i].token = proc[i].token
        BY <2>0, <2>1 DEF Heartbeat
      <3>3. UNCHANGED begun
        BY <2>1 DEF Heartbeat
      <3> QED BY <3>1, <3>2, <3>3, <1>1
    <2>2. CASE Claim(m)
      BY <2>2, <2>0, <1>1 DEF Claim
    <2>3. CASE Report(m)
      BY <2>3, <2>0, <1>1 DEF Report
    <2>4. CASE Begin(m)
      <3> DEFINE j == proc[m].job
      <3>1. j \in JobIds /\ proc[m].pc = "answered"
        BY <2>4, <1>a, <1>b DEF Begin
      <3>2. /\ begun' = [begun EXCEPT ![j] = begun[j] + 1] /\ UNCHANGED jobs
            /\ proc' = [proc EXCEPT ![m] = [proc[m] EXCEPT !.pc = "running"]]
        BY <2>4 DEF Begin, At, TypeOK
      <3>3. begun[j] = 0 /\ jobs[j].agent = proc[m].token.agent /\ jobs[j].state \notin {"none", "queued"}
        BY <3>1 DEF Begun
      <3>4. begun'[j] = 1 /\ \A i \in JobIds : i # j => begun'[i] = begun[i]
        BY <3>1, <3>2, <3>3, <1>0
      <3>5. /\ \A i \in Machines : i # m => proc'[i] = proc[i]
            /\ proc'[m].pc = "running"
        BY <3>2, <1>0 DEF TypeOK, Calls
      <3>6. ASSUME NEW i \in Machines, i # m, proc[i].pc \in {"looked", "answered"}
            PROVE  proc[i].job # j /\ proc[i].job \in JobIds
        <4>1. Current(proc[i].token) /\ Current(proc[m].token)
          BY <3>1, <3>6 DEF Held, Flying, Claiming
        <4>2. proc[i].token.agent # proc[m].token.agent
          BY <4>1, <3>6 DEF Held
        <4>3. jobs[proc[i].job].agent = proc[i].token.agent
          BY <3>6 DEF Begun
        <4> QED BY <4>2, <4>3, <3>3, <3>6, <1>a, <1>b
      <3> HIDE DEF j
      <3>7. RunOnce'
        BY <3>4 DEF Begun, RunOnce
      <3>8. \A i \in JobIds : jobs'[i].state \in {"none", "queued"} => begun'[i] = 0
        BY <3>2, <3>3, <3>4 DEF Begun
      <3>9. \A i \in Machines : proc'[i].pc \in {"looked", "answered"} =>
              /\ begun'[proc'[i].job] = 0 /\ jobs'[proc'[i].job].agent = proc'[i].token.agent
              /\ jobs'[proc'[i].job].state # "none"
              /\ proc'[i].pc = "answered" => jobs'[proc'[i].job].state # "queued"
        BY <3>2, <3>4, <3>5, <3>6 DEF Begun
      <3> QED BY <3>7, <3>8, <3>9 DEF Begun
    <2> QED BY <1>7, <2>1, <2>2, <2>3, <2>4 DEF Process
  <1>8. ASSUME NEW m \in Machines, GiveUp(m) PROVE Begun'
    <2>1. proc' = [proc EXCEPT ![m] = Idle(proc[m])] /\ UNCHANGED <<jobs, begun>>
      BY <1>8 DEF GiveUp, TypeOK
    <2>2. Idle(proc[m]).pc = "idle"
      BY <1>0, IdleMade
    <2> QED BY <2>1, <2>2, <1>1, <1>2
  <1>9. ASSUME NEW c, NEW d, WellMade(c), Handled(c, d) PROVE
               \A j \in JobIds : /\ jobs'[j].state \in {"none", "queued"} => jobs[j].state \in {"none", "queued"}
                                 /\ jobs[j].state # "none" => jobs'[j].agent = jobs[j].agent /\ jobs'[j].state # "none"
                                 /\ jobs[j].state \notin {"none", "queued"} => jobs'[j].state # "queued"
    <2>1. CASE jobs' = jobs
      BY <2>1
    <2>2. CASE c.pc = "looked" /\ jobs' = Claimed(c.job)
      BY <2>2, <1>0 DEF Claimed, Jobs
    <2>3. CASE c.pc = "heard" /\ jobs[c.job].state # "gone" /\ \E o \in {"done", "failed"} : jobs' = [jobs EXCEPT ![c.job] = Put(c.job, o)]
      <3>1. c.job \in JobIds
        BY <2>3, <1>9, <1>b, ConstantsAssumption DEF WellMade, Calls, JobIds
      <3>2. \A j \in JobIds : jobs'[j] = jobs[j] \/ (jobs'[j].state \in {"done", "failed"} /\ jobs'[j].agent = jobs[j].agent)
        BY <2>3, <3>1, <1>0, PutTyped DEF JobStates
      <3> QED BY <3>2
    <2> QED BY <1>9, <2>1, <2>2, <2>3 DEF Handled
  <1>10. ASSUME NEW m \in Machines, Serve(m, proc[m]) PROVE Begun'
    <2>1. PICK d : proc' = [proc EXCEPT ![m] = d] /\ Handled(proc[m], d)
      BY <1>10, Served
    <2>2. UNCHANGED begun
      BY <1>10, Served
    <2>3. CASE d.pc \notin {"looked", "answered"}
      BY <2>1, <2>2, <2>3, <1>0, <1>1, <1>2, <1>9
    <2>4. CASE d.pc \in {"looked", "answered"}
      <3> DEFINE j == d.job
      <3>0. d.pc # "idle" /\ d.token = proc[m].token /\ d # Idle(proc[m])
        BY <2>1, <2>4, <1>0, IdleMade DEF Handled
      <3>1. CASE d.pc = "looked"
        <4>1. j \in Oldest(proc[m].token.agent) /\ jobs' = jobs
          BY <2>1, <3>0, <3>1 DEF Handled
        <4>2. j \in JobIds /\ jobs[j].state = "queued" /\ jobs[j].agent = proc[m].token.agent
          BY <4>1 DEF Oldest, Firsts, Queued
        <4>3. begun[j] = 0
          BY <4>2 DEF Begun
        <4>4. \A i \in Machines : proc'[i].pc \in {"looked", "answered"} => proc'[i] = proc[i] \/ (i = m /\ proc'[i] = d)
          BY <2>1, OneChanged
        <4>5. ASSUME NEW i \in Machines, proc'[i].pc \in {"looked", "answered"}
              PROVE  /\ begun'[proc'[i].job] = 0 /\ jobs'[proc'[i].job].agent = proc'[i].token.agent
                     /\ jobs'[proc'[i].job].state # "none"
                     /\ proc'[i].pc = "answered" => jobs'[proc'[i].job].state # "queued"
          <5>1. CASE proc'[i] = proc[i]
            BY <4>1, <4>5, <5>1, <2>2 DEF Begun
          <5>2. CASE i = m /\ proc'[i] = d
            BY <4>1, <4>2, <4>3, <5>2, <2>2, <3>0, <3>1
          <5> QED BY <4>4, <4>5, <5>1, <5>2
        <4>6. RunOnce' /\ \A i \in JobIds : jobs'[i].state \in {"none", "queued"} => begun'[i] = 0
          BY <4>1, <2>2 DEF Begun, RunOnce
        <4> QED BY <4>5, <4>6 DEF Begun
      <3>2. CASE d.pc = "answered"
        <4>1. proc[m].pc = "looked" /\ j = proc[m].job /\ jobs' = Claimed(j)
          BY <2>1, <3>0, <3>2 DEF Handled
        <4>2. j \in JobIds /\ begun[j] = 0 /\ jobs[j].agent = proc[m].token.agent /\ jobs[j].state # "none"
          BY <4>1, <1>a, <1>b DEF Begun
        <4>3. /\ jobs'[j].agent = jobs[j].agent /\ jobs'[j].state \notin {"none", "queued"}
              /\ \A i \in JobIds : i # j => jobs'[i] = jobs[i]
          BY <4>1, <4>2, <1>0 DEF Claimed, Jobs
        <4>4. \A i \in Machines : proc'[i] = proc[i] \/ (i = m /\ proc'[i] = d)
          BY <2>1, OneChanged
        <4>5. \A i \in JobIds : /\ jobs'[i].state \in {"none", "queued"} => jobs[i].state \in {"none", "queued"}
                                /\ jobs[i].state # "none" => jobs'[i].agent = jobs[i].agent /\ jobs'[i].state # "none"
                                /\ jobs[i].state \notin {"none", "queued"} => jobs'[i].state # "queued"
          BY <4>2, <4>3
        <4>6. ASSUME NEW i \in Machines, proc'[i].pc \in {"looked", "answered"}
              PROVE  /\ begun'[proc'[i].job] = 0 /\ jobs'[proc'[i].job].agent = proc'[i].token.agent
                     /\ jobs'[proc'[i].job].state # "none"
                     /\ proc'[i].pc = "answered" => jobs'[proc'[i].job].state # "queued"
          <5>1. CASE proc'[i] = proc[i]
            <6>1. proc[i].job \in JobIds /\ begun' = begun
              BY <4>6, <5>1, <2>2, <1>a, <1>b
            <6>2. /\ begun[proc[i].job] = 0 /\ jobs[proc[i].job].agent = proc[i].token.agent
                  /\ jobs[proc[i].job].state # "none"
                  /\ proc[i].pc = "answered" => jobs[proc[i].job].state # "queued"
              BY <4>6, <5>1 DEF Begun
            <6>3. jobs[proc[i].job].state = "queued" \/ jobs'[proc[i].job].state # "queued"
              BY <6>1, <6>2, <4>5
            <6> QED BY <6>1, <6>2, <6>3, <4>5, <5>1
          <5>2. CASE i = m /\ proc'[i] = d
            BY <4>2, <4>3, <5>2, <2>2, <3>0
          <5> QED BY <4>4, <5>1, <5>2
        <4>7. RunOnce' /\ \A i \in JobIds : jobs'[i].state \in {"none", "queued"} => begun'[i] = 0
          <5>1. begun' = begun
            BY <2>2
          <5> QED BY <4>5, <5>1 DEF Begun, RunOnce
        <4> QED BY <4>6, <4>7 DEF Begun
      <3> QED BY <2>4, <3>1, <3>2
    <2> QED BY <2>3, <2>4
  <1>11. ASSUME NEW c \in late, Serve(Nobody, c) PROVE Begun'
    <2>1. PICK d : Handled(c, d)
      BY <1>11, ServedLate
    <2>2. UNCHANGED <<proc, begun>> /\ WellMade(c)
      BY <1>11, ServedLate, Made DEF AllCalls
    <2> QED BY <2>1, <2>2, <1>1, <1>9
  <1>12. ASSUME UNCHANGED <<jobs, proc, begun>> PROVE Begun'
    BY <1>12, <1>1
  <1>13. ASSUME NEW m \in Machines, NEW n \in Names, EnrollSelf(m, n) PROVE Begun'
    BY <1>13, <1>6, SelfEnrols
  <1>14. ASSUME NEW c \in joining, Enroll(c) PROVE Begun'
    BY <1>14, <1>6, <1>12, TicketEnrols
  <1> QED BY <1>3, <1>4, <1>5, <1>7, <1>8, <1>10, <1>11, <1>12, <1>13, <1>14 DEF Next, MakeTicket, Lapse, LookTicket

(* With one process to a token, no job is ever begun twice, whatever calls *)
(* are lost, late or given up on.                                          *)
THEOREM RunsOnce == ASSUME Solo PROVE Spec => []RunOnce
  <1>1. Init => Held /\ Begun
    BY DEF Init, Held, Begun, RunOnce, Current, Unused, Spent, Flying, Claiming, NoToken
  <1>2. TypeOK /\ Held /\ Begun /\ [Next]_vars => Held' /\ Begun'
    <2>1. TypeOK /\ Held /\ Begun /\ UNCHANGED vars => Held' /\ Begun'
      BY DEF Held, Begun, RunOnce, Current, Unused, Spent, vars, enrolment
    <2> QED BY <2>1, HeldStep, BegunStep
  <1>3. Begun => RunOnce
    BY DEF Begun
  <1> QED BY <1>1, <1>2, <1>3, TypeCorrect, PTL DEF Spec

----------------------------------------------------------------------------
(* The machines' jobs are the queue they promise (JobQueue).               *)

(* A call that ends in a report.                                           *)
Tells(c) == c.pc \in {"running"} \cup Telling

(* Jobs are asked for in the order of their ids, and a job that a claim    *)
(* read and that is still queued is the oldest of its machine's.           *)
Ordered ==
    /\ \A j \in JobIds : jobs[j].state = "none" => jobs[j].agent = 0
    /\ \A i, j \in JobIds : i < j /\ jobs[j].state # "none" => jobs[i].state # "none"
    /\ \A c \in AllCalls : c.pc = "looked" =>
          /\ jobs[c.job].state # "none"
          /\ jobs[c.job].state = "queued" =>
                \A i \in JobIds : i < c.job /\ jobs[i].agent = jobs[c.job].agent => jobs[i].state # "queued"

(* One call at most, of a process or late, will ever report on a job, and  *)
(* until it does nothing has been reported on it.                          *)
Sole ==
    /\ \A j \in JobIds : jobs[j].state \in {"done", "failed"} => begun[j] # 0
    /\ \A c \in AllCalls : Tells(c) =>
          begun[c.job] # 0 /\ jobs[c.job].state \in {"running", "givenup", "gone"}
    /\ \A m, k \in Machines : m # k /\ Tells(proc[m]) /\ Tells(proc[k]) => proc[m].job # proc[k].job
    /\ \A m \in Machines, c \in late : Tells(proc[m]) /\ Tells(c) => proc[m].job # c.job
    /\ \A c, d \in late : c # d /\ Tells(c) /\ Tells(d) => c.job # d.job

LEMMA JobOfCall ==
    ASSUME NEW c, WellMade(c), c.pc \in WithJob
    PROVE  c.job \in JobIds
  BY ConstantsAssumption DEF WellMade, Calls, JobIds

(* What a step that is no new request does to the jobs.                    *)
JobsGoOn ==
    \A j \in JobIds : /\ jobs'[j].agent = jobs[j].agent
                      /\ jobs'[j].state = "none" <=> jobs[j].state = "none"
                      /\ jobs'[j].state = "queued" => jobs[j].state = "queued"

LEMMA HandledGoesOn ==
    ASSUME TypeOK, NEW c, WellMade(c), NEW d, Handled(c, d), c.pc = "looked" => jobs[c.job].state # "none",
           c.pc = "heard" => jobs[c.job].state # "none"
    PROVE  JobsGoOn
  <1>0. jobs \in [JobIds -> Jobs] /\ {"looked", "heard"} \subseteq WithJob
    BY DEF TypeOK, Jobs, JobStates, WithJob, Telling
  <1>1. CASE jobs' = jobs
    BY <1>1 DEF JobsGoOn
  <1>2. CASE c.pc = "looked" /\ jobs' = Claimed(c.job)
    BY <1>2, <1>0 DEF Claimed, Jobs, JobsGoOn
  <1>3. CASE c.pc = "heard" /\ \E o \in {"done", "failed"} : jobs' = [jobs EXCEPT ![c.job] = Put(c.job, o)]
    <2>1. c.job \in JobIds
      BY <1>3, <1>0, JobOfCall
    <2>2. \A j \in JobIds : \/ jobs'[j] = jobs[j]
                            \/ j = c.job /\ jobs'[j].state \in {"done", "failed"} /\ jobs'[j].agent = jobs[j].agent
      BY <1>3, <2>1, <1>0, PutTyped DEF JobStates
    <2> QED BY <1>3, <2>2 DEF JobsGoOn
  <1> QED BY <1>1, <1>2, <1>3 DEF Handled

LEMMA JobsMove ==
    ASSUME TypeOK, Ordered, Sole, Next
    PROVE  JobsGoOn \/ \E j \in JobIds, a \in AgentIds : Ask(j, a)
  <1>0. jobs \in [JobIds -> Jobs] /\ \A c \in AllCalls : WellMade(c)
    BY Made DEF TypeOK, Jobs, JobStates
  <1>1. ASSUME UNCHANGED jobs PROVE JobsGoOn
    BY <1>1 DEF JobsGoOn
  <1>2. ASSUME NEW a \in AgentIds, Remove(a) PROVE JobsGoOn
    <2>1. \A j \in JobIds : \/ jobs'[j] = jobs[j]
                            \/ jobs[j].agent = a /\ jobs'[j].state = "gone" /\ jobs'[j].agent = jobs[j].agent
      BY <1>2, PutTyped DEF Remove, JobStates
    <2>2. a # 0
      BY DEF AgentIds
    <2> QED BY <2>1, <2>2 DEF Ordered, JobsGoOn
  <1>3. ASSUME NEW m \in Machines, Heartbeat(m) PROVE JobsGoOn
    <2>1. \A j \in JobIds : \/ jobs'[j] = jobs[j]
                            \/ /\ jobs[j].state = "running" /\ jobs'[j].state = "givenup"
                               /\ jobs'[j].agent = jobs[j].agent
      BY <1>3, PutTyped DEF Heartbeat, Reaped, Stale, JobStates
    <2> QED BY <2>1 DEF JobsGoOn
  <1>4. CASE Tick
    BY <1>4, <1>0 DEF Tick, Jobs, JobsGoOn
  <1>5. ASSUME NEW c \in AllCalls, NEW d, Handled(c, d) PROVE JobsGoOn
    <2>1. c.pc = "looked" => jobs[c.job].state # "none"
      BY DEF Ordered
    <2>2. c.pc = "heard" => jobs[c.job].state # "none"
      BY DEF Sole, Tells, Telling
    <2> QED BY <1>5, <1>0, <2>1, <2>2, HandledGoesOn
  <1>6. ASSUME NEW m \in Machines, Serve(m, proc[m]) PROVE JobsGoOn
    BY <1>6, <1>5, Served DEF AllCalls
  <1>7. ASSUME NEW c \in late, Serve(Nobody, c) PROVE JobsGoOn
    BY <1>7, <1>5, ServedLate DEF AllCalls
  <1> QED
    BY <1>1, <1>2, <1>3, <1>4, <1>6, <1>7
    DEF Next, EnrollSelf, MakeTicket, Lapse, LookTicket, Enroll, Process, Claim, Begin, Report, GiveUp

(* Where a call that has read a job comes from.                            *)
LEMMA CallsLook ==
    ASSUME TypeOK, Next, NEW c \in AllCalls', c.pc = "looked"
    PROVE  \/ \E b \in AllCalls : b.pc = "looked" /\ b.job = c.job
           \/ jobs' = jobs /\ c.job \in JobIds /\ c.job \in Oldest(c.token.agent)
  <1> DEFINE Was == \E b \in AllCalls : b.pc = "looked" /\ b.job = c.job
  <1>0. \A m \in Machines : proc[m] \in Calls
    BY DEF TypeOK
  <1>a. AllCalls = {proc[m] : m \in Machines} \cup late
    BY DEF AllCalls
  <1>1. CASE c \in late'
    <2>1. CASE c \in late
      BY <2>1 DEF AllCalls
    <2>2. ASSUME NEW m \in Machines, GiveUp(m) PROVE Was
      BY <1>1, <2>2, <1>a DEF GiveUp
    <2>3. ASSUME NEW b \in late, Serve(Nobody, b), c \notin late
          PROVE  jobs' = jobs /\ c.job \in Oldest(c.token.agent)
      <3>1. PICK d : late' = (late \ {b}) \cup ({d} \cap LateCalls) /\ Handled(b, d)
        BY <2>3, ServedLate
      <3>2. c = d
        BY <3>1, <1>1, <2>3
      <3>3. b \in Calls
        BY DEF TypeOK, LateCalls
      <3> QED BY <3>1, <3>2, <3>3, IdleMade DEF Handled
    <2>4. ASSUME c \notin late PROVE (\E m \in Machines : GiveUp(m)) \/ \E b \in late : Serve(Nobody, b)
      BY <1>1, <2>4, Served
      DEF Next, Ask, Remove, EnrollSelf, MakeTicket, Lapse, LookTicket, Enroll, Process, Heartbeat, Claim,
          Begin, Report, Tick
    <2> QED BY <2>1, <2>2, <2>3, <2>4 DEF Oldest, Firsts, Queued
  <1>2. ASSUME NEW m \in Machines, c = proc'[m]
        PROVE  Was \/ (jobs' = jobs /\ c.job \in JobIds /\ c.job \in Oldest(c.token.agent))
    <2>1. ASSUME proc'[m].pc = proc[m].pc, proc'[m].job = proc[m].job PROVE Was
      BY <1>2, <2>1 DEF AllCalls
    <2>2. ASSUME NEW k \in Machines, NEW pc, At(k, pc), pc # "looked" PROVE Was
      <3>1. proc' = [proc EXCEPT ![k] = [proc[k] EXCEPT !.pc = pc]]
        BY <2>2 DEF At, TypeOK
      <3>2. k # m
        <4>1. proc'[k] = [proc[k] EXCEPT !.pc = pc]
          BY <3>1, OneChanged
        <4>2. proc'[k].pc = pc
          BY <4>1, <1>0 DEF Calls
        <4> QED BY <4>2, <2>2, <1>2
      <3>3. proc'[m] = proc[m]
        BY <3>1, <3>2, OneChanged
      <3> QED BY <3>3, <1>2 DEF AllCalls
    <2>3. ASSUME NEW k \in Machines, Process(k) PROVE Was
      <3>1. CASE UNCHANGED proc
        BY <3>1, <2>1
      <3> QED BY <2>2, <2>3, <3>1 DEF Process, Heartbeat, Claim, Begin, Report
    <2>4. ASSUME NEW k \in Machines, GiveUp(k) PROVE Was
      <3>1. proc' = [proc EXCEPT ![k] = Idle(proc[k])]
        BY <2>4 DEF GiveUp, TypeOK
      <3>2. Idle(proc[k]).pc = "idle"
        BY <1>0, IdleMade
      <3>3. proc'[m] = proc[m]
        BY <3>1, <3>2, <1>2, OneChanged
      <3> QED BY <3>3, <1>2 DEF AllCalls
    <2>5. ASSUME NEW k \in Machines, Serve(k, proc[k])
          PROVE  Was \/ (jobs' = jobs /\ c.job \in Oldest(c.token.agent))
      <3>1. PICK d : proc' = [proc EXCEPT ![k] = d] /\ Handled(proc[k], d)
        BY <2>5, Served
      <3>2. CASE k = m
        <4>1. c = d
          BY <3>1, <3>2, <1>2, OneChanged
        <4> QED BY <3>1, <4>1, <1>0, IdleMade DEF Handled
      <3>3. CASE k # m
        <4>1. proc'[m] = proc[m]
          BY <3>1, <3>3, OneChanged
        <4> QED BY <4>1, <1>2 DEF AllCalls
      <3> QED BY <3>2, <3>3
    <2>6. ASSUME NEW k \in Machines, NEW n \in Names, EnrollSelf(k, n) PROVE Was
      <3>1. proc'[m].pc = proc[m].pc /\ proc'[m].job = proc[m].job
        <4>1. ASSUME NEW t \in Tokens, Given(k, t) PROVE proc'[m].pc = proc[m].pc /\ proc'[m].job = proc[m].job
          BY <4>1, GivenTyped
        <4> QED BY <2>6, <4>1, NameTyped DEF EnrollSelf, Insert, Named, Firsts, Free
      <3> QED BY <3>1, <2>1
    <2>7. ASSUME NEW b \in joining, Enroll(b) PROVE Was
      <3>1. b.machine \in Machines
        BY DEF TypeOK
      <3>2. proc'[m].pc = proc[m].pc /\ proc'[m].job = proc[m].job
        <4>1. ASSUME NEW t \in Tokens, Given(b.machine, t) PROVE proc'[m].pc = proc[m].pc /\ proc'[m].job = proc[m].job
          BY <4>1, <3>1, GivenTyped
        <4> QED BY <2>7, <4>1, NameTyped DEF Enroll, Insert, Firsts, Free
      <3> QED BY <3>2, <2>1
    <2>8. ASSUME NEW b \in late, Serve(Nobody, b) PROVE Was
      BY <2>8, <2>1, ServedLate
    <2> QED
      BY <2>1, <2>3, <2>4, <2>5, <2>6, <2>7, <2>8
      DEF Next, Ask, Remove, MakeTicket, Lapse, LookTicket, Tick, Oldest, Firsts, Queued
  <1> QED BY <1>1, <1>2, <1>a DEF AllCalls

LEMMA OrderedStep ==
    ASSUME TypeOK, Ordered, Sole, Next
    PROVE  Ordered'
  <1>0. jobs \in [JobIds -> Jobs] /\ JobIds \subseteq Nat
    BY DEF TypeOK, Jobs, JobStates, JobIds
  <1>1. \A c \in AllCalls : c.pc = "looked" => c.job \in JobIds
    BY Made, JobOfCall DEF WithJob
  <1>2. ASSUME NEW c \in AllCalls', c.pc = "looked"
        PROVE  \/ \E b \in AllCalls : b.pc = "looked" /\ b.job = c.job
               \/ jobs' = jobs /\ c.job \in JobIds /\ c.job \in Oldest(c.token.agent)
    BY <1>2, CallsLook
  (* Of a call's job, from what was true of it before.                     *)
  <1>3. ASSUME NEW c \in AllCalls', c.pc = "looked"
        PROVE  /\ c.job \in JobIds /\ jobs[c.job].state # "none"
               /\ jobs[c.job].state = "queued" =>
                    \A i \in JobIds : i < c.job /\ jobs[i].agent = jobs[c.job].agent => jobs[i].state # "queued"
    <2>1. CASE \E b \in AllCalls : b.pc = "looked" /\ b.job = c.job
      BY <2>1, <1>1 DEF Ordered
    <2>2. CASE c.job \in JobIds /\ c.job \in Oldest(c.token.agent)
      BY <2>2, <1>0 DEF Oldest, Firsts, Queued
    <2> QED BY <1>2, <1>3, <2>1, <2>2
  <1>4. CASE JobsGoOn
    <2>1. ASSUME NEW c \in AllCalls', c.pc = "looked"
          PROVE  /\ jobs'[c.job].state # "none"
                 /\ jobs'[c.job].state = "queued" =>
                      \A i \in JobIds : i < c.job /\ jobs'[i].agent = jobs'[c.job].agent => jobs'[i].state # "queued"
      BY <2>1, <1>3, <1>4 DEF JobsGoOn
    <2> QED BY <2>1, <1>4 DEF Ordered, JobsGoOn
  <1>5. ASSUME NEW j \in JobIds, NEW a \in AgentIds, Ask(j, a) PROVE Ordered'
    <2>1. \A i \in JobIds : i # j => jobs'[i] = jobs[i]
      BY <1>5, <1>0 DEF Ask
    <2>2. /\ jobs[j].state = "none" /\ jobs'[j].state = "queued" /\ jobs'[j].agent = a
          /\ \A i \in JobIds : i < j => jobs[i].state # "none"
      BY <1>5, <1>0 DEF Ask, Jobs
    <2>3. ASSUME NEW i \in JobIds, i > j PROVE jobs[i].state = "none"
      BY <2>2, <2>3, <1>0 DEF Ordered
    <2>4. ASSUME NEW c \in AllCalls', c.pc = "looked"
          PROVE  /\ jobs'[c.job].state # "none"
                 /\ jobs'[c.job].state = "queued" =>
                      \A i \in JobIds : i < c.job /\ jobs'[i].agent = jobs'[c.job].agent => jobs'[i].state # "queued"
      <3>1. c.job \in JobIds /\ jobs[c.job].state # "none"
        BY <2>4, <1>3
      <3>2. c.job # j /\ ~(c.job > j)
        BY <3>1, <2>2, <2>3
      <3>3. \A i \in JobIds : i < c.job => i # j
        <4>1. \A l \in JobIds : l # j /\ ~(l > j) => \A i \in JobIds : i < l => i # j
          BY DEF JobIds
        <4> QED BY <3>1, <3>2, <4>1
      <3> QED BY <2>1, <2>4, <1>3, <3>1, <3>2, <3>3
    <2>5. \A i, l \in JobIds : i < l /\ jobs'[l].state # "none" => jobs'[i].state # "none"
      BY <2>1, <2>2, <1>0 DEF Ordered
    <2>6. \A i \in JobIds : jobs'[i].state = "none" => jobs'[i].agent = 0
      BY <2>1, <2>2 DEF Ordered
    <2> QED BY <2>4, <2>5, <2>6 DEF Ordered
  <1> QED BY <1>4, <1>5, JobsMove

(* No other call than before will report.                                  *)
NoMoreTell ==
    /\ \A m \in Machines : Tells(proc'[m]) => Tells(proc[m]) /\ proc'[m].job = proc[m].job
    /\ \A c \in late' : Tells(c) => c \in late

LEMMA SoleStays ==
    ASSUME TypeOK, Sole, NoMoreTell, begun' = begun,
           \A j \in JobIds : jobs'[j].state \in {"done", "failed"} => begun[j] # 0,
           \A c \in AllCalls' : Tells(c) => jobs'[c.job].state \in {"running", "givenup", "gone"}
    PROVE  Sole'
  <1>1. \A c \in AllCalls' : Tells(c) => begun'[c.job] # 0
    <2>1. ASSUME NEW c \in AllCalls', Tells(c) PROVE \E b \in AllCalls : Tells(b) /\ b.job = c.job
      BY <2>1 DEF AllCalls, NoMoreTell
    <2> QED BY <2>1 DEF Sole
  <1>2. \A m, k \in Machines : m # k /\ Tells(proc'[m]) /\ Tells(proc'[k]) => proc'[m].job # proc'[k].job
    BY DEF Sole, NoMoreTell
  <1>3. \A m \in Machines, c \in late' : Tells(proc'[m]) /\ Tells(c) => proc'[m].job # c.job
    BY DEF Sole, NoMoreTell
  <1>4. \A c, d \in late' : c # d /\ Tells(c) /\ Tells(d) => c.job # d.job
    BY DEF Sole, NoMoreTell
  <1> QED BY <1>1, <1>2, <1>3, <1>4 DEF Sole, Tells

(* No job is reported on.                                                  *)
Untold ==
    \A j \in JobIds :
        /\ jobs'[j].state \in {"done", "failed"} => jobs'[j].state = jobs[j].state
        /\ jobs[j].state \in {"running", "givenup", "gone"} => jobs'[j].state \in {"running", "givenup", "gone"}

LEMMA SoleUntold ==
    ASSUME TypeOK, Sole, NoMoreTell, begun' = begun, Untold
    PROVE  Sole'
  <1>1. \A j \in JobIds : jobs'[j].state \in {"done", "failed"} => begun[j] # 0
    BY DEF Sole, Untold
  <1>2. ASSUME NEW c \in AllCalls', Tells(c)
        PROVE  jobs'[c.job].state \in {"running", "givenup", "gone"}
    <2>1. PICK b \in AllCalls : Tells(b) /\ b.job = c.job
      BY <1>2 DEF AllCalls, NoMoreTell
    <2>2. b.job \in JobIds
      BY <2>1, Made, JobOfCall DEF Tells, WithJob
    <2> QED BY <2>1, <2>2 DEF Sole, Untold
  <1> QED BY <1>1, <1>2, SoleStays

(* A report that arrives: no other call has its job.                       *)
LEMMA SoleReported ==
    ASSUME TypeOK, Sole, NoMoreTell, begun' = begun, NEW j \in JobIds, begun[j] # 0,
           NEW o \in {"done", "failed"}, jobs' = [jobs EXCEPT ![j] = Put(j, o)],
           \A c \in AllCalls' : Tells(c) => c.job # j
    PROVE  Sole'
  <1>0. jobs \in [JobIds -> Jobs]
    BY DEF TypeOK, Jobs, JobStates
  <1>1. \A i \in JobIds : i # j => jobs'[i] = jobs[i]
    BY <1>0
  <1>2. \A i \in JobIds : jobs'[i].state \in {"done", "failed"} => begun[i] # 0
    BY <1>1 DEF Sole
  <1>3. ASSUME NEW c \in AllCalls', Tells(c)
        PROVE  jobs'[c.job].state \in {"running", "givenup", "gone"}
    <2>1. PICK b \in AllCalls : Tells(b) /\ b.job = c.job
      BY <1>3 DEF AllCalls, NoMoreTell
    <2>2. b.job \in JobIds
      BY <2>1, Made, JobOfCall DEF Tells, WithJob
    <2>3. b.job # j
      BY <2>1, <1>3
    <2> QED BY <2>1, <2>2, <2>3, <1>1 DEF Sole
  <1> QED BY <1>2, <1>3, SoleStays

LEMMA SoleServe ==
    ASSUME TypeOK, Sole, NEW m \in Machines, Serve(m, proc[m])
    PROVE  Sole'
  <1>0. /\ proc[m] \in Calls /\ WellMade(proc[m]) /\ proc[m] \in AllCalls
        /\ jobs \in [JobIds -> Jobs]
    BY Made DEF TypeOK, AllCalls, Jobs, JobStates
  <1>1. PICK d : proc' = [proc EXCEPT ![m] = d] /\ Handled(proc[m], d)
    BY Served
  <1>2. begun' = begun /\ late' = late
    BY Served
  <1>3. proc'[m] = d /\ \A i \in Machines : i # m => proc'[i] = proc[i]
    BY <1>1, OneChanged
  <1>4. Tells(d) => Tells(proc[m]) /\ d.job = proc[m].job
    BY <1>0, <1>1, IdleMade DEF Handled, Tells, Telling
  <1>5. NoMoreTell
    BY <1>2, <1>3, <1>4 DEF NoMoreTell
  <1>6. CASE jobs' = jobs
    BY <1>2, <1>5, <1>6, SoleUntold DEF Untold
  <1>7. CASE jobs' = Claimed(proc[m].job)
    <2>1. Untold
      BY <1>7, <1>0 DEF Claimed, Untold, Jobs
    <2> QED BY <1>2, <1>5, <2>1, SoleUntold
  <1>8. CASE /\ proc[m].pc = "heard" /\ d.pc = "ready"
             /\ \E o \in {"done", "failed"} : jobs' = [jobs EXCEPT ![proc[m].job] = Put(proc[m].job, o)]
    <2>1. Tells(proc[m]) /\ ~Tells(d)
      BY <1>8 DEF Tells, Telling
    <2>2. proc[m].job \in JobIds /\ begun[proc[m].job] # 0
      BY <2>1, <1>0, JobOfCall DEF Sole, Tells, WithJob
    <2>3. ASSUME NEW c \in AllCalls', Tells(c) PROVE c.job # proc[m].job
      BY <2>1, <2>3, <1>2, <1>3 DEF Sole, AllCalls
    <2> QED BY <1>2, <1>5, <1>8, <2>2, <2>3, SoleReported
  <1> QED BY <1>1, <1>6, <1>7, <1>8 DEF Handled

LEMMA SoleServeLate ==
    ASSUME TypeOK, Sole, NEW c \in late, Serve(Nobody, c)
    PROVE  Sole'
  <1>0. /\ c \in Calls /\ WellMade(c) /\ c \in AllCalls
        /\ jobs \in [JobIds -> Jobs]
    BY Made DEF TypeOK, AllCalls, Jobs, JobStates, LateCalls
  <1>1. PICK d : late' = (late \ {c}) \cup ({d} \cap LateCalls) /\ Handled(c, d)
    BY ServedLate
  <1>2. begun' = begun /\ proc' = proc
    BY ServedLate
  <1>3. CASE jobs' = jobs /\ Tells(d)
    <2>1. Tells(c) /\ d.job = c.job
      BY <1>0, <1>1, <1>3, IdleMade DEF Handled, Tells, Telling
    <2>2. \A e \in late' : e = d \/ (e \in late /\ e # c)
      BY <1>1
    <2>3. \A e \in late' : Tells(e) => \E b \in late : Tells(b) /\ b.job = e.job
      BY <2>1, <2>2
    <2>4. \A e \in AllCalls' : Tells(e) => \E b \in AllCalls : Tells(b) /\ b.job = e.job
      BY <2>3, <1>2 DEF AllCalls
    <2>5. \A e \in AllCalls' : Tells(e) =>
            begun'[e.job] # 0 /\ jobs'[e.job].state \in {"running", "givenup", "gone"}
      BY <2>4, <1>2, <1>3 DEF Sole
    <2>6. \A k \in Machines, e \in late' : Tells(proc'[k]) /\ Tells(e) => proc'[k].job # e.job
      BY <2>3, <1>2 DEF Sole
    <2>7. \A e, f \in late' : e # f /\ Tells(e) /\ Tells(f) => e.job # f.job
      BY <2>1, <2>2 DEF Sole
    <2> QED BY <2>5, <2>6, <2>7, <1>2, <1>3 DEF Sole, Tells
  <1>4. CASE ~Tells(d)
    <2>1. NoMoreTell
      BY <1>1, <1>2, <1>4 DEF NoMoreTell
    <2>2. CASE jobs' = jobs
      BY <1>2, <2>1, <2>2, SoleUntold DEF Untold
    <2>3. CASE jobs' = Claimed(c.job)
      <3>1. Untold
        BY <2>3, <1>0 DEF Claimed, Untold, Jobs
      <3> QED BY <1>2, <2>1, <3>1, SoleUntold
    <2>4. CASE /\ c.pc = "heard" /\ d.pc = "ready"
               /\ \E o \in {"done", "failed"} : jobs' = [jobs EXCEPT ![c.job] = Put(c.job, o)]
      <3>1. Tells(c)
        BY <2>4 DEF Tells, Telling
      <3>2. c.job \in JobIds /\ begun[c.job] # 0
        BY <3>1, <1>0, JobOfCall DEF Sole, Tells, WithJob
      <3>3. ASSUME NEW e \in AllCalls', Tells(e) PROVE e.job # c.job
        <4>1. e \in {proc[k] : k \in Machines} \/ (e \in late /\ e # c)
          BY <3>3, <1>1, <1>2, <1>4 DEF AllCalls
        <4> QED BY <4>1, <3>1, <3>3 DEF Sole
      <3> QED BY <1>2, <2>1, <2>4, <3>2, <3>3, SoleReported
    <2> QED BY <1>1, <2>2, <2>3, <2>4 DEF Handled
  <1>5. Tells(d) => jobs' = jobs
    BY <1>0, <1>1, IdleMade DEF Handled, Tells, Telling
  <1> QED BY <1>3, <1>4, <1>5

LEMMA SoleStep ==
    ASSUME TypeOK, Solo, Held, Begun, Sole, Next
    PROVE  Sole'
  <1>0. /\ jobs \in [JobIds -> Jobs] /\ begun \in [JobIds -> Nat]
        /\ \A m \in Machines : proc[m] \in Calls /\ WellMade(proc[m])
    BY Made DEF TypeOK, AllCalls, Jobs, JobStates
  <1>1. ASSUME UNCHANGED <<proc, late, begun>>, Untold PROVE Sole'
    BY <1>1, SoleUntold DEF NoMoreTell
  <1>2. ASSUME UNCHANGED jobs PROVE Untold
    BY <1>2 DEF Untold
  <1>3. ASSUME NEW j \in JobIds, NEW a \in AgentIds, Ask(j, a) PROVE Sole'
    <2>1. Untold
      BY <1>3, <1>0 DEF Ask, Untold, Jobs
    <2> QED BY <1>1, <1>3, <2>1 DEF Ask
  <1>4. ASSUME NEW a \in AgentIds, Remove(a) PROVE Sole'
    <2>1. Untold
      BY <1>4, PutTyped DEF Remove, JobStates, Untold
    <2> QED BY <1>1, <1>4, <2>1 DEF Remove
  <1>5. CASE Tick
    <2>1. Untold
      BY <1>5, <1>0 DEF Tick, Jobs, Untold
    <2> QED BY <1>1, <1>5, <2>1 DEF Tick
  <1>6. ASSUME NEW m, NEW a, NEW k, Enrols(m, a, k), UNCHANGED <<jobs, late, begun>> PROVE Sole'
    <2>1. \A i \in Machines : proc'[i].pc = proc[i].pc /\ proc'[i].job = proc[i].job
      BY <1>6, <1>0 DEF Enrols, TypeOK, Calls
    <2>2. NoMoreTell
      BY <2>1, <1>6 DEF NoMoreTell, Tells
    <2> QED BY <2>2, <1>6, <1>2, SoleUntold
  <1>7. ASSUME NEW m \in Machines, Process(m) PROVE Sole'
    <2>0. ASSUME NEW pc, At(m, pc)
          PROVE  /\ proc'[m].pc = pc /\ proc'[m].job = proc[m].job
                 /\ \A i \in Machines : i # m => proc'[i] = proc[i]
      BY <2>0, <1>0 DEF At, TypeOK, Calls
    <2>1. CASE Heartbeat(m)
      <3>1. Untold
        BY <2>1, PutTyped DEF Heartbeat, Reaped, Stale, JobStates, Untold
      <3>2. CASE proc' = proc
        BY <2>1, <3>1, <3>2, <1>1 DEF Heartbeat
      <3>3. CASE At(m, "ready")
        <4>1. NoMoreTell
          BY <2>0, <2>1, <3>3 DEF NoMoreTell, Tells, Telling, Heartbeat
        <4> QED BY <2>1, <3>1, <4>1, SoleUntold DEF Heartbeat
      <3> QED BY <2>1, <3>2, <3>3 DEF Heartbeat
    <2>2. CASE Claim(m)
      <3>1. NoMoreTell
        BY <2>0, <2>2 DEF NoMoreTell, Tells, Telling, Claim
      <3> QED BY <2>2, <3>1, <1>2, SoleUntold DEF Claim
    <2>3. CASE Report(m)
      <3>1. NoMoreTell
        BY <2>0, <2>3 DEF NoMoreTell, Tells, Telling, Report
      <3> QED BY <2>3, <3>1, <1>2, SoleUntold DEF Report
    <2>4. CASE Begin(m)
      <3> DEFINE j == proc[m].job
      <3>1. j \in JobIds /\ proc[m].pc = "answered" /\ proc[m] \in AllCalls
        BY <2>4, <1>0, JobOfCall DEF Begin, WithJob, AllCalls
      <3>2. begun[j] = 0 /\ jobs[j].state \notin {"none", "queued"}
        BY <3>1 DEF Begun
      <3>3. jobs[j].state \in {"running", "givenup", "gone"}
        BY <3>1, <3>2, <1>0 DEF Sole, Jobs, JobStates
      <3>4. begun' = [begun EXCEPT ![j] = begun[j] + 1] /\ UNCHANGED <<jobs, late>>
        BY <2>4 DEF Begin
      <3>5. begun'[j] # 0 /\ \A i \in JobIds : i # j => begun'[i] = begun[i]
        BY <3>1, <3>2, <3>4, <1>0
      <3>6. /\ proc'[m].pc = "running" /\ proc'[m].job = j
            /\ \A i \in Machines : i # m => proc'[i] = proc[i]
        BY <2>0, <2>4 DEF Begin
      <3> HIDE DEF j
      <3>7. ASSUME NEW c \in AllCalls, Tells(c) PROVE c.job # j /\ c.job \in JobIds
        BY <3>2, <3>7, Made, JobOfCall DEF Sole, Tells, WithJob
      <3>8. \A c \in AllCalls' : c = proc'[m] \/ c \in AllCalls
        BY <3>4, <3>6 DEF AllCalls
      <3>9. ASSUME NEW c \in AllCalls', Tells(c)
            PROVE  begun'[c.job] # 0 /\ jobs'[c.job].state \in {"running", "givenup", "gone"}
        <4>1. CASE c = proc'[m]
          BY <4>1, <3>3, <3>4, <3>5, <3>6
        <4>2. CASE c \in AllCalls
          BY <4>2, <3>4, <3>5, <3>7, <3>9 DEF Sole
        <4> QED BY <4>1, <4>2, <3>8
      <3>10. \A i \in JobIds : jobs'[i].state \in {"done", "failed"} => begun'[i] # 0
        BY <3>3, <3>4, <3>5 DEF Sole
      <3>11. \A i, k \in Machines : i # k /\ Tells(proc'[i]) /\ Tells(proc'[k]) => proc'[i].job # proc'[k].job
        BY <3>6, <3>7 DEF Sole, AllCalls
      <3>12. \A i \in Machines, c \in late' : Tells(proc'[i]) /\ Tells(c) => proc'[i].job # c.job
        BY <3>4, <3>6, <3>7 DEF Sole, AllCalls
      <3> QED BY <3>4, <3>9, <3>10, <3>11, <3>12 DEF Sole, Tells
    <2> QED BY <1>7, <2>1, <2>2, <2>3, <2>4 DEF Process
  <1>8. ASSUME NEW m \in Machines, GiveUp(m) PROVE Sole'
    <2>1. proc' = [proc EXCEPT ![m] = Idle(proc[m])] /\ UNCHANGED <<jobs, begun>>
      BY <1>8 DEF GiveUp, TypeOK
    <2>2. ~Tells(proc'[m]) /\ \A i \in Machines : i # m => proc'[i] = proc[i]
      BY <2>1, <1>0, IdleMade, OneChanged DEF Tells, Telling
    <2>3. late' \subseteq late \cup {proc[m]}
      BY <1>8 DEF GiveUp
    <2>4. \A c \in AllCalls' : Tells(c) => c \in AllCalls
      BY <2>2, <2>3 DEF AllCalls
    <2>5. \A i \in Machines, c \in late' : Tells(proc'[i]) /\ Tells(c) => proc'[i].job # c.job
      BY <2>2, <2>3 DEF Sole
    <2>6. \A c, d \in late' : c # d /\ Tells(c) /\ Tells(d) => c.job # d.job
      BY <2>3 DEF Sole
    <2>7. \A i, k \in Machines : i # k /\ Tells(proc'[i]) /\ Tells(proc'[k]) => proc'[i].job # proc'[k].job
      BY <2>2 DEF Sole
    <2> QED BY <2>1, <2>4, <2>5, <2>6, <2>7 DEF Sole, Tells
  <1>9. ASSUME NEW m \in Machines, NEW n \in Names, EnrollSelf(m, n) PROVE Sole'
    BY <1>9, <1>6, SelfEnrols
  <1>10. ASSUME NEW c \in joining, Enroll(c) PROVE Sole'
    <2>1. UNCHANGED <<jobs, late, begun>>
      BY <1>10, TicketEnrols
    <2> QED BY <1>10, <2>1, <1>1, <1>2, <1>6, TicketEnrols
  <1> QED
    BY <1>1, <1>2, <1>3, <1>4, <1>5, <1>7, <1>8, <1>9, <1>10, SoleServe, SoleServeLate
    DEF Next, MakeTicket, Lapse, LookTicket

(* What the server makes of a call is a step of the queue, or none of it.  *)
LEMMA HandledQueue ==
    ASSUME TypeOK, Ordered, Sole, NEW c \in AllCalls, NEW d, Handled(c, d),
           [j \in JobIds |-> jobs'[j].state] # [j \in JobIds |-> jobs[j].state]
    PROVE  Queue!Next
  <1> DEFINE j == c.job
  <1>0. jobs \in [JobIds -> Jobs] /\ WellMade(c)
    BY Made DEF TypeOK, Jobs, JobStates
  <1>1. CASE c.pc = "looked" /\ jobs' = Claimed(j)
    <2>1. j \in JobIds
      BY <1>0, <1>1, JobOfCall DEF WithJob
    <2>2. jobs[j].state = "queued" /\ jobs' = [jobs EXCEPT ![j].state = "running", ![j].age = 0]
      BY <1>1 DEF Claimed
    <2>3. \A i \in JobIds : i < j /\ jobs[i].agent = jobs[j].agent => jobs[i].state # "queued"
      BY <1>1, <2>2 DEF Ordered
    <2>4. /\ jobs'[j].state = "running" /\ jobs'[j].agent = jobs[j].agent
          /\ \A i \in JobIds : i # j => jobs'[i] = jobs[i]
      BY <2>1, <2>2, <1>0 DEF Jobs
    <2> HIDE DEF j
    <2>5. [i \in JobIds |-> jobs'[i].state] = [[i \in JobIds |-> jobs[i].state] EXCEPT ![j] = "running"]
      BY <2>1, <2>4
    <2>6. [i \in JobIds |-> jobs'[i].agent] = [i \in JobIds |-> jobs[i].agent]
      BY <2>4
    <2>7. Queue!Begin(j)
      BY <2>1, <2>2, <2>3, <2>5, <2>6 DEF Queue!Begin
    <2> QED BY <2>1, <2>7 DEF Queue!Next
  <1>2. CASE c.pc = "heard" /\ \E o \in {"done", "failed"} : jobs' = [jobs EXCEPT ![j] = Put(j, o)]
    <2>1. j \in JobIds
      BY <1>0, <1>2, JobOfCall DEF WithJob, Telling
    <2>2. PICK o \in {"done", "failed"} : jobs' = [jobs EXCEPT ![j] = Put(j, o)]
      BY <1>2
    <2>3. /\ jobs'[j].state = o /\ jobs'[j].agent = jobs[j].agent
          /\ \A i \in JobIds : i # j => jobs'[i] = jobs[i]
      BY <2>1, <2>2, <1>0, PutTyped DEF JobStates
    <2>4. jobs[j].state \in {"running", "givenup"}
      BY <1>2, Handled(c, d) DEF Handled, Sole, Tells, Telling
    <2> HIDE DEF j
    <2>5. Queue!Report(j, o)
      BY <2>1, <2>3, <2>4 DEF Queue!Report
    <2> QED BY <2>1, <2>5 DEF Queue!Next
  <1> QED BY <1>1, <1>2 DEF Handled

LEMMA QueueStep ==
    ASSUME TypeOK, Ordered, Sole, [Next]_vars
    PROVE  [Queue!Next]_<<[j \in JobIds |-> jobs[j].agent], [j \in JobIds |-> jobs[j].state]>>
  <1> SUFFICES ASSUME Next,
                      \/ [j \in JobIds |-> jobs'[j].agent] # [j \in JobIds |-> jobs[j].agent]
                      \/ [j \in JobIds |-> jobs'[j].state] # [j \in JobIds |-> jobs[j].state]
               PROVE  Queue!Next
    BY DEF vars
  <1>0. jobs \in [JobIds -> Jobs]
    BY DEF TypeOK, Jobs, JobStates
  <1>1. ASSUME NEW j \in JobIds, NEW a \in AgentIds, Ask(j, a) PROVE Queue!Next
    <2>1. /\ jobs'[j].state = "queued" /\ jobs'[j].agent = a
          /\ \A i \in JobIds : i # j => jobs'[i] = jobs[i]
      BY <1>1, <1>0 DEF Ask, Jobs
    <2>2. [i \in JobIds |-> jobs'[i].state] = [[i \in JobIds |-> jobs[i].state] EXCEPT ![j] = "queued"]
      BY <2>1
    <2>3. [i \in JobIds |-> jobs'[i].agent] = [[i \in JobIds |-> jobs[i].agent] EXCEPT ![j] = a]
      BY <2>1
    <2>4. Queue!Ask(j, a)
      BY <1>1, <2>2, <2>3 DEF Ask, Queue!Ask
    <2> QED BY <2>4 DEF Queue!Next
  <1>2. ASSUME NEW a \in AgentIds, Remove(a) PROVE Queue!Next
    <2>1. \A j \in JobIds : /\ jobs'[j].agent = jobs[j].agent
                            /\ jobs'[j].state = IF jobs[j].agent = a THEN "gone" ELSE jobs[j].state
      BY <1>2, PutTyped DEF Remove, JobStates
    <2>2. Queue!Remove(a)
      BY <2>1 DEF Queue!Remove
    <2> QED BY <2>2 DEF Queue!Next
  <1>3. ASSUME NEW m \in Machines, Heartbeat(m) PROVE Queue!Next
    <2>1. PICK J \in SUBSET JobIds : J = {j \in JobIds : Stale(j)}
      OBVIOUS
    <2>2. \A j \in JobIds : /\ jobs'[j].agent = jobs[j].agent
                            /\ jobs'[j].state = IF j \in J THEN "givenup" ELSE jobs[j].state
      BY <1>3, <2>1, PutTyped DEF Heartbeat, Reaped, JobStates
    <2>3. \A j \in J : jobs[j].state = "running"
      BY <2>1 DEF Stale
    <2>4. Queue!GiveUp(J)
      BY <2>2, <2>3 DEF Queue!GiveUp
    <2> QED BY <2>4 DEF Queue!Next
  <1>4. ASSUME UNCHANGED jobs PROVE FALSE
    BY <1>4
  <1>5. ASSUME Tick PROVE FALSE
    <2>1. \A j \in JobIds : jobs'[j].agent = jobs[j].agent /\ jobs'[j].state = jobs[j].state
      BY <1>5, <1>0 DEF Tick, Jobs
    <2> QED BY <2>1
  <1>6. ASSUME NEW c \in AllCalls, NEW d, Handled(c, d) PROVE Queue!Next
    <2>1. c.pc = "looked" => jobs[c.job].state # "none"
      BY DEF Ordered
    <2>2. c.pc = "heard" => jobs[c.job].state # "none"
      BY DEF Sole, Tells, Telling
    <2>3. \A j \in JobIds : jobs'[j].agent = jobs[j].agent
      BY <1>6, <2>1, <2>2, Made, HandledGoesOn DEF JobsGoOn
    <2> QED BY <1>6, <2>3, HandledQueue
  <1>7. ASSUME NEW m \in Machines, Serve(m, proc[m]) PROVE Queue!Next
    BY <1>7, <1>6, Served DEF AllCalls
  <1>8. ASSUME NEW c \in late, Serve(Nobody, c) PROVE Queue!Next
    BY <1>8, <1>6, ServedLate DEF AllCalls
  <1> QED
    BY <1>1, <1>2, <1>3, <1>4, <1>5, <1>7, <1>8
    DEF Next, EnrollSelf, MakeTicket, Lapse, LookTicket, Enroll, Process, Claim, Begin, Report, GiveUp

(* With one process to a token, the tables of the machines and their jobs  *)
(* are the queue that whoever asks is promised: the oldest first, each     *)
(* reported on at most once, and what is reported is never undone, though  *)
(* claims and reports are lost, come late, or were given up on.            *)
THEOREM IsTheQueue == ASSUME Solo PROVE Spec => Implements
  <1> DEFINE IInv == TypeOK /\ Held /\ Begun /\ Ordered /\ Sole
  <1>1. Init => IInv
    <2>1. Init => Held /\ Begun
      BY DEF Init, Held, Begun, RunOnce, Current, Unused, Spent, Flying, Claiming, NoToken
    <2>2. Init => Ordered /\ Sole
      BY DEF Init, Ordered, Sole, AllCalls, Tells, Telling
    <2> QED BY <2>1, <2>2, InitTyped
  <1>2. IInv /\ [Next]_vars => IInv'
    <2>1. IInv /\ UNCHANGED vars => IInv'
      BY DEF TypeOK, Held, Begun, RunOnce, Current, Unused, Spent, Ordered, Sole, AllCalls, vars, enrolment
    <2> QED BY <2>1, StepTyped, HeldStep, BegunStep, OrderedStep, SoleStep
  <1>3. Init => Queue!Init
    BY DEF Init, Queue!Init
  <1>4. IInv /\ [Next]_vars
          => [Queue!Next]_<<[j \in JobIds |-> jobs[j].agent], [j \in JobIds |-> jobs[j].state]>>
    BY QueueStep
  <1> QED BY <1>1, <1>2, <1>3, <1>4, PTL DEF Spec, Implements, Queue!Spec
----------------------------------------------------------------------------
(* A token enrols one machine, unless two use it at once ("race").  Why:   *)
(* who has found it unused is alone with it, and it is used when he writes.*)

NoRace == "race" \notin Hazards

Tokened ==
    /\ \A c, d \in joining : c.ticket = d.ticket => c = d
    /\ \A c \in joining : tickets[c.ticket] \in {"open", "lapsed"}
    /\ \A a \in AgentIds : agents[a].by \in Tickets => tickets[agents[a].by] = "used"

LEMMA TokenedStep ==
    ASSUME NoRace, TypeOK, Tokened, EnrolledOnce, [Next]_vars
    PROVE  Tokened' /\ EnrolledOnce'
  <1> USE DEF TypeOK, Tokened, EnrolledOnce
  <1>1. CASE UNCHANGED enrolment
    BY <1>1 DEF enrolment
  <1>2. ASSUME NEW a \in AgentIds, Remove(a) PROVE Tokened' /\ EnrolledOnce'
    <2>1. \A b \in AgentIds : agents'[b].by = agents[b].by
      BY <1>2 DEF Remove
    <2> QED BY <1>2, <2>1 DEF Remove
  <1>3. ASSUME NEW m \in Machines, NEW n \in Names, EnrollSelf(m, n) PROVE Tokened' /\ EnrolledOnce'
    <2>1. UNCHANGED <<tickets, joining>>
      BY <1>3 DEF EnrollSelf
    <2>2. \A b \in AgentIds : agents'[b].by = agents[b].by \/ agents'[b].by = NoTicket
      <3>1. CASE \E a \in AgentIds, k \in Nat : agents' = [agents EXCEPT ![a].token = k]
        BY <3>1
      <3>2. CASE \E a \in AgentIds, k \in Nat :
                   agents' = [agents EXCEPT ![a] = [state |-> "enrolled", name |-> n, token |-> k, by |-> NoTicket]]
        BY <3>2
      <3>3. Named(n) \subseteq AgentIds /\ Firsts(Free) \subseteq AgentIds /\ Firsts(Unused) \subseteq Nat
        BY ConstantsAssumption DEF Named, Firsts, Free, Unused
      <3> QED BY <1>3, <3>1, <3>2, <3>3 DEF EnrollSelf, Insert
    <2> QED BY <2>1, <2>2, ConstantsAssumption
  <1>4. ASSUME NEW t \in Tickets, MakeTicket(t) \/ Lapse(t) PROVE Tokened' /\ EnrolledOnce'
    <2>1. UNCHANGED <<agents, joining>>
      BY <1>4 DEF MakeTicket, Lapse
    <2>2. \A u \in Tickets : \/ tickets'[u] = tickets[u]
                             \/ tickets[u] = "none" /\ tickets'[u] = "open"
                             \/ tickets[u] = "open" /\ tickets'[u] = "lapsed"
      BY <1>4 DEF MakeTicket, Lapse
    <2> QED BY <2>1, <2>2
  <1>5. ASSUME NEW m \in Machines, NEW t \in Tickets, NEW n \in Names, LookTicket(m, t, n)
        PROVE  Tokened' /\ EnrolledOnce'
    <2> DEFINE d == [machine |-> m, ticket |-> t, name |-> n]
    <2>1. UNCHANGED <<agents, tickets>> /\ joining' = joining \cup {d} /\ tickets[t] = "open"
      BY <1>5 DEF LookTicket
    <2>2. \A c \in joining : c.ticket # t
      BY <1>5 DEF LookTicket, NoRace
    <2> QED BY <2>1, <2>2
  <1>6. ASSUME NEW c \in joining, Enroll(c) PROVE Tokened' /\ EnrolledOnce'
    <2>1. CASE UNCHANGED <<agents, tickets>>
      BY <1>6, <2>1 DEF Enroll
    <2>2. CASE Insert(c.machine, c.name, c.ticket) /\ tickets' = [tickets EXCEPT ![c.ticket] = "used"]
      <3>1. PICK a \in AgentIds, k \in Firsts(Unused) :
              agents' = [agents EXCEPT ![a] = [state |-> "enrolled", name |-> c.name, token |-> k, by |-> c.ticket]]
        BY <2>2 DEF Insert, Firsts, Free
      <3>2. /\ joining' = joining \ {c} /\ c.ticket \in Tickets /\ tickets'[c.ticket] = "used"
            /\ agents'[a].by = c.ticket /\ \A b \in AgentIds \ {a} : agents'[b].by = agents[b].by
            /\ \A u \in Tickets \ {c.ticket} : tickets'[u] = tickets[u]
        BY <1>6, <2>2, <3>1 DEF Enroll
      <3>3. \A b \in AgentIds : agents[b].by # c.ticket
        BY <3>2
      <3>4. EnrolledOnce' BY <3>2, <3>3
      <3>5. Tokened' BY <3>2, <3>3
      <3> QED BY <3>4, <3>5
    <2> QED BY <1>6, <2>1, <2>2 DEF Enroll
  <1> QED
    BY <1>1, <1>2, <1>3, <1>4, <1>5, <1>6
    DEF Next, Ask, Process, Heartbeat, Claim, Begin, Report, GiveUp, Serve, Tick, vars, enrolment

(* "enrolment token has already been used" (agents.py, enroll): no token   *)
(* enrols two machines, removed ones counted, when nobody else enrols with *)
(* it between one machine's look and its write.                            *)
THEOREM TokenEnrolsOne == ASSUME NoRace PROVE Spec => []EnrolledOnce
  <1>1. Init => Tokened /\ EnrolledOnce
    BY ConstantsAssumption DEF Init, Tokened, EnrolledOnce
  <1>2. TypeOK /\ Tokened /\ EnrolledOnce /\ [Next]_vars => (Tokened /\ EnrolledOnce)'
    BY TokenedStep
  <1> QED BY TypeCorrect, <1>1, <1>2, PTL DEF Spec
=============================================================================
