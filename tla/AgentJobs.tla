------------------------------ MODULE AgentJobs ------------------------------
(***************************************************************************)
(* A person's machines and the jobs they are asked to do (server/agents.py,*)
(* routes/agents.py, agent/runner.py).                                     *)
(*                                                                         *)
(* The agent's process beats, then claims, runs and reports one job after  *)
(* another until there is none.  Each call goes through the server in      *)
(* steps: it arrives and its token is looked up, then the handler reads,   *)
(* then it writes.  A call the process has given up on (a time-out, a lost *)
(* answer, a crash) may still be on its way or at the server: it is "late".*)
(*                                                                         *)
(* A step of the model that writes is one transaction.  Ids are given in   *)
(* the order of the inserts and never again, as SQLite does.               *)
(*                                                                         *)
(* Not here: what a job does; what a heartbeat says of the machine; the    *)
(* Quills' handlers; local backups, which the same tick runs next          *)
(* (LocalSyncs).                                                           *)
(***************************************************************************)
EXTENDS Naturals, FiniteSets

CONSTANTS
    Names,       \* what machines are called: an owner has one agent of a name
    Machines,    \* processes of cloudmorrow-agent
    Tickets,     \* enrolment tokens
    MaxAgents,   \* bound: agents enrolled in one behaviour
    MaxTokens,   \* bound: tokens given to agents
    MaxJobs,     \* bound: jobs asked for
    StaleAfter,  \* JOB_STALE_MINUTES
    MaxFaults,   \* bound: calls given up on, processes killed, answers lost
    Hazards      \* what is met: "twice", "rotate", "race"

(***************************************************************************)
(* "twice":  two processes run with one agent's token.                     *)
(* "rotate": a machine enrols again while a claim is at the server.        *)
(* "race":   two machines use one enrolment token at once.                 *)
(***************************************************************************)
AgentIds == 1..MaxAgents
JobIds   == 1..MaxJobs
NoName   == "none"
NoTicket == "self"
Nobody   == "nobody"

ASSUME ConstantsAssumption ==
    /\ {MaxAgents, MaxTokens, MaxJobs, MaxFaults} \subseteq Nat /\ StaleAfter \in Nat \ {0}
    /\ NoName \notin Names /\ NoTicket \notin Tickets /\ Nobody \notin Machines
    /\ Hazards \subseteq {"twice", "rotate", "race"}

VARIABLES
    agents,    \* the agents table: name, current token's number, ticket it came by
    tickets,   \* the enrollment_tokens table
    joining,   \* calls of enroll that have read their ticket
    jobs,      \* the jobs table
    proc,      \* proc[m]: what the process is at, its token, its call's job
    late,      \* calls that nobody waits for
    begun,     \* history: how often a process began job j
    faults

enrolment == <<agents, tickets, joining>>
vars == <<enrolment, jobs, proc, late, begun, faults>>

NoToken == [agent |-> 0, number |-> 0]
Tokens  == [agent : 0..MaxAgents, number : 0..MaxTokens]

(* Where a call is: on its way, let in, or having read.                    *)
Claiming  == {"in", "looked"}
Telling   == {"reporting", "heard"}
WithJob   == {"looked", "answered", "running"} \cup Telling
AtServer  == {"sent"} \cup Claiming \cup Telling
Places    == {"idle", "ready", "answered", "running"} \cup AtServer
Calls     == [pc : Places, token : Tokens, job : 0..MaxJobs]
LateCalls == {c \in Calls : c.pc \in AtServer}

(* A name with a suffix is a slip the definition after it could have had:  *)
(* no specification uses it.                                               *)
Idle_keeping(c) == [c EXCEPT !.pc = "idle"]
Idle(c) == [c EXCEPT !.pc = "idle", !.job = 0]

Firsts(S) == {a \in S : \A b \in S : a <= b}

(* by_token: no row has the hash of a token that was replaced.             *)
Valid(t) == /\ t.agent \in AgentIds
            /\ agents[t.agent].state = "enrolled" /\ agents[t.agent].token = t.number

----------------------------------------------------------------------------
(* Jobs.                                                                   *)

Queued_unended(a) == {j \in JobIds : jobs[j].agent = a /\ jobs[j].state \in {"queued", "running"}}
Queued(a) == {j \in JobIds : jobs[j].agent = a /\ jobs[j].state = "queued"}

Oldest(a) == Firsts(Queued(a))

(* Only a running job's age is ever looked at, so it is kept for no other. *)
Put(j, state) == [jobs[j] EXCEPT !.state = state, !.age = 0]

(* reap_stale: jobs begun long ago.  "givenup" is JOB_FAILED with its own  *)
(* words in the result.                                                    *)
Stale_queued(j) == jobs[j].state = "queued" /\ jobs[j].age > StaleAfter
Stale(j) == jobs[j].state = "running" /\ jobs[j].age > StaleAfter

Reaped == [j \in JobIds |-> IF Stale(j) THEN Put(j, "givenup") ELSE jobs[j]]

(* claim_next's UPDATE, which changes a row that is still queued.          *)
Claimed_always(j) == [jobs EXCEPT ![j].state = "running", ![j].age = 0]
Claimed(j) == IF jobs[j].state = "queued" THEN [jobs EXCEPT ![j].state = "running", ![j].age = 0] ELSE jobs

(* JobStore.create: the machine must be there.                             *)
Ask(j, a) ==
    /\ jobs[j].state = "none" /\ \A i \in JobIds : i < j => jobs[i].state # "none"
    /\ agents[a].state = "enrolled"
    /\ jobs' = [jobs EXCEPT ![j].agent = a, ![j].state = "queued"]
    /\ UNCHANGED <<enrolment, proc, late, begun, faults>>

(* AgentStore.delete: the jobs go with it.                                 *)
Remove(a) ==
    /\ agents[a].state = "enrolled"
    /\ agents' = [agents EXCEPT ![a].state = "gone"]
    /\ jobs' = [j \in JobIds |-> IF jobs[j].agent = a THEN Put(j, "gone") ELSE jobs[j]]
    /\ UNCHANGED <<tickets, joining, proc, late, begun, faults>>

Tick ==
    /\ \E j \in JobIds : jobs[j].state = "running" /\ jobs[j].age <= StaleAfter
    /\ jobs' = [j \in JobIds |-> IF jobs[j].state = "running" /\ jobs[j].age <= StaleAfter
                                 THEN [jobs[j] EXCEPT !.age = @ + 1] ELSE jobs[j]]
    /\ UNCHANGED <<enrolment, proc, late, begun, faults>>

----------------------------------------------------------------------------
(* Enrolling.                                                              *)

Named(n) == {a \in AgentIds : agents[a].state = "enrolled" /\ agents[a].name = n}
Free     == {a \in AgentIds : agents[a].state = "none"}

(* Tokens are numbered in the order they are given.                        *)
Spent  == {agents[a].token : a \in AgentIds}
Unused == {k \in 1..MaxTokens : \A i \in Spent : i < k}

(* The process starts with the token it was given, alone unless "twice";   *)
(* or, when the answer is lost, goes on with the one it had.               *)
Given(m, t) ==
    \/ \E started \in SUBSET Machines :
         /\ m \in started /\ ("twice" \in Hazards \/ started = {m})
         /\ proc' = [k \in Machines |-> IF k \in started /\ proc[k].pc = "idle"
                                        THEN [proc[k] EXCEPT !.token = t] ELSE proc[k]]
         /\ UNCHANGED faults
    \/ /\ faults < MaxFaults /\ faults' = faults + 1 /\ UNCHANGED proc

(* A row under the next id, with a token that goes to machine m.           *)
Insert(m, n, t) ==
    \E a \in Firsts(Free), k \in Firsts(Unused) :
        /\ agents' = [agents EXCEPT ![a] = [state |-> "enrolled", name |-> n, token |-> k, by |-> t]]
        /\ Given(m, [agent |-> a, number |-> k])

InFlight(a) == \E m \in Machines : proc[m].token.agent = a /\ proc[m].pc \in Claiming \cup {"answered"}

(* enroll_for_user: a name that is known gets a new token.                 *)
EnrollSelf(m, n) ==
    /\ proc[m].pc = "idle"
    /\ \/ \E a \in Named(n), k \in Firsts(Unused) :
            /\ "rotate" \in Hazards \/ ~InFlight(a)
            /\ agents' = [agents EXCEPT ![a].token = k]
            /\ Given(m, [agent |-> a, number |-> k])
       \/ Named(n) = {} /\ Insert(m, n, NoTicket)
    /\ UNCHANGED <<tickets, joining, jobs, late, begun>>

MakeTicket(t) ==
    /\ tickets[t] = "none"
    /\ tickets' = [tickets EXCEPT ![t] = "open"]
    /\ UNCHANGED <<agents, joining, jobs, proc, late, begun, faults>>

Lapse(t) ==
    /\ tickets[t] = "open"
    /\ tickets' = [tickets EXCEPT ![t] = "lapsed"]
    /\ UNCHANGED <<agents, joining, jobs, proc, late, begun, faults>>

(* enroll, as far as it only reads.                                        *)
LookTicket(m, t, n) ==
    /\ proc[m].pc = "idle" /\ tickets[t] = "open"
    /\ \A c \in joining : c.machine # m /\ ("race" \in Hazards \/ c.ticket # t)
    /\ joining' = joining \cup {[machine |-> m, ticket |-> t, name |-> n]}
    /\ UNCHANGED <<agents, tickets, jobs, proc, late, begun, faults>>

(* The insert and the mark, or the name is taken and neither.              *)
Enroll(c) ==
    /\ joining' = joining \ {c}
    /\ \/ /\ Named(c.name) # {}
          /\ UNCHANGED <<agents, tickets, proc, faults>>
       \/ /\ Named(c.name) = {} /\ proc[c.machine].pc = "idle"
          /\ Insert(c.machine, c.name, c.ticket)
          /\ tickets' = [tickets EXCEPT ![c.ticket] = "used"]
    /\ UNCHANGED <<jobs, late, begun>>

----------------------------------------------------------------------------
(* The agent's process.                                                    *)

At(m, pc) == proc' = [proc EXCEPT ![m].pc = pc]

(* The heartbeat gives up on stale jobs, whosever they are; if its answer  *)
(* is lost the tick ends there.                                            *)
Heartbeat(m) ==
    /\ proc[m].pc = "idle" /\ Valid(proc[m].token)
    /\ jobs' = Reaped
    /\ \/ At(m, "ready") /\ UNCHANGED faults
       \/ faults < MaxFaults /\ faults' = faults + 1 /\ UNCHANGED proc
    /\ UNCHANGED <<enrolment, late, begun>>

Claim(m) ==
    /\ proc[m].pc = "ready"
    /\ At(m, "sent")
    /\ UNCHANGED <<enrolment, jobs, late, begun, faults>>

Begin(m) ==
    /\ proc[m].pc = "answered"
    /\ At(m, "running")
    /\ begun' = [begun EXCEPT ![proc[m].job] = @ + 1]
    /\ UNCHANGED <<enrolment, jobs, late, faults>>

Report(m) ==
    /\ proc[m].pc = "running"
    /\ At(m, "reporting")
    /\ UNCHANGED <<enrolment, jobs, late, begun, faults>>

(* No answer, a lost one, or the process is killed.  The call may go on by *)
(* itself; at most one of a kind does, which is a bound.                   *)
GiveUp(m) ==
    /\ proc[m].pc \in AtServer \cup {"answered", "running"}
    /\ faults < MaxFaults /\ faults' = faults + 1
    /\ proc' = [proc EXCEPT ![m] = Idle(@)]
    /\ \/ UNCHANGED late
       \/ proc[m].pc \in AtServer /\ proc[m] \notin late /\ late' = late \cup {proc[m]}
    /\ UNCHANGED <<enrolment, jobs, begun>>

----------------------------------------------------------------------------
(* The server's steps of call c, which w waits for, or nobody when it is   *)
(* late; then it goes on until it would answer.                            *)

Goes(w, c, d) ==
    \/ /\ w \in Machines
       /\ proc' = [proc EXCEPT ![w] = d] /\ UNCHANGED late
    \/ /\ w = Nobody
       /\ late' = (late \ {c}) \cup ({d} \cap LateCalls)
       /\ UNCHANGED proc

(* get_current_agent                                                       *)
Arrive(w, c) ==
    /\ c.pc \in {"sent", "reporting"}
    /\ Goes(w, c, IF Valid(c.token) THEN [c EXCEPT !.pc = IF @ = "sent" THEN "in" ELSE "heard"]
                  ELSE Idle(c))
    /\ UNCHANGED jobs

(* claim_next's SELECT; null ends the tick's claims.                       *)
Look(w, c) ==
    /\ c.pc = "in"
    /\ \/ Queued(c.token.agent) = {} /\ Goes(w, c, Idle(c))
       \/ \E j \in Oldest(c.token.agent) : Goes(w, c, [c EXCEPT !.pc = "looked", !.job = j])
    /\ UNCHANGED jobs

(* Its UPDATE, and what is then in the row is the answer, whoever set it.  *)
Take(w, c) ==
    /\ c.pc = "looked"
    /\ jobs' = Claimed(c.job)
    /\ Goes(w, c, IF jobs[c.job].state = "gone" THEN Idle(c) ELSE [c EXCEPT !.pc = "answered"])

(* finish, which asks only whose job it is.                                *)
Finish(w, c) ==
    /\ c.pc = "heard"
    /\ \/ /\ jobs[c.job].state # "gone" /\ jobs[c.job].agent = c.token.agent
          /\ \E outcome \in {"done", "failed"} : jobs' = [jobs EXCEPT ![c.job] = Put(c.job, outcome)]
          /\ Goes(w, c, [c EXCEPT !.pc = "ready", !.job = 0])
       \/ /\ jobs[c.job].state = "gone" \/ jobs[c.job].agent # c.token.agent
          /\ UNCHANGED jobs
          /\ Goes(w, c, Idle(c))

Serve(w, c) ==
    /\ Arrive(w, c) \/ Look(w, c) \/ Take(w, c) \/ Finish(w, c)
    /\ UNCHANGED <<enrolment, begun, faults>>

----------------------------------------------------------------------------
Init ==
    /\ agents = [a \in AgentIds |-> [state |-> "none", name |-> NoName, token |-> 0, by |-> NoTicket]]
    /\ tickets = [t \in Tickets |-> "none"]
    /\ joining = {}
    /\ jobs = [j \in JobIds |-> [agent |-> 0, state |-> "none", age |-> 0]]
    /\ proc = [m \in Machines |-> [pc |-> "idle", token |-> NoToken, job |-> 0]]
    /\ late = {}
    /\ begun = [j \in JobIds |-> 0]
    /\ faults = 0

Process(m) == Heartbeat(m) \/ Claim(m) \/ Begin(m) \/ Report(m)

Next ==
    \/ \E j \in JobIds, a \in AgentIds : Ask(j, a)
    \/ \E a \in AgentIds : Remove(a)
    \/ \E m \in Machines, n \in Names : EnrollSelf(m, n)
    \/ \E t \in Tickets : MakeTicket(t) \/ Lapse(t)
    \/ \E m \in Machines, t \in Tickets, n \in Names : LookTicket(m, t, n)
    \/ \E c \in joining : Enroll(c)
    \/ \E m \in Machines : Process(m) \/ GiveUp(m) \/ Serve(m, proc[m])
    \/ \E c \in late : Serve(Nobody, c)
    \/ Tick

Spec == Init /\ [][Next]_vars

(* The process goes on ticking and the server answering; nobody has to ask,*)
(* enrol or remove, and a late call may never get further.                 *)
Fairness == /\ \A m \in Machines : WF_vars(Process(m)) /\ WF_vars(Serve(m, proc[m]))
            /\ WF_vars(Tick)

FairSpec == Spec /\ Fairness

----------------------------------------------------------------------------
(* Properties.                                                             *)

TypeOK ==
    /\ agents \in [AgentIds -> [state : {"none", "enrolled", "gone"}, name : Names \cup {NoName},
                                token : 0..MaxTokens, by : Tickets \cup {NoTicket}]]
    /\ tickets \in [Tickets -> {"none", "open", "used", "lapsed"}]
    /\ joining \subseteq [machine : Machines, ticket : Tickets, name : Names]
    /\ jobs \in [JobIds -> [agent : 0..MaxAgents, age : 0..StaleAfter + 1,
                            state : {"none", "queued", "running", "givenup", "done", "failed", "gone"}]]
    /\ proc \in [Machines -> Calls]
    /\ late \subseteq LateCalls
    /\ \A c \in {proc[m] : m \in Machines} \cup late : c.job # 0 <=> c.pc \in WithJob
    /\ begun \in [JobIds -> Nat]
    /\ faults \in 0..MaxFaults

(* No job is begun twice, however claims are lost, late or given up on, as *)
(* long as one process at a time has an agent's token.                     *)
RunOnce == \A j \in JobIds : begun[j] <= 1

(* A job is taken oldest first, reported on at most once, and neither a    *)
(* late call nor giving up on it ever undoes a report.                     *)
Queue == INSTANCE JobQueue WITH owner <- [j \in JobIds |-> jobs[j].agent],
                                state <- [j \in JobIds |-> jobs[j].state]
Implements == Queue!Spec

(* What is asked of a machine whose process has a good token is over in    *)
(* the end, reported on or given up on.                                    *)
Serves(m, a) == Valid(proc[m].token) /\ proc[m].token.agent = a
Ended ==
    \A j \in JobIds :
        jobs[j].state \in {"queued", "running"}
            ~> \/ jobs[j].state \in Queue!Over \cup {"gone"}
               \/ ~\E m \in Machines : Serves(m, jobs[j].agent)

(* An enrolment token enrols one machine: not with "race".                 *)
EnrolledOnce ==
    \A a, b \in AgentIds : agents[a].by \in Tickets /\ agents[a].by = agents[b].by => a = b
=============================================================================
