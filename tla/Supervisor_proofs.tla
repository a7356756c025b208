------------------------- MODULE Supervisor_proofs --------------------------
(* Proofs about Supervisor, for every value of its constants.              *)
EXTENDS Supervisor, TLAPS

Books == [known : BOOLEAN, gen : Nat, done : BOOLEAN, failures : Nat, waiting : BOOLEAN]
Sups  == [pc : {"idle", "look", "seen", "keep", "end", "stop"}, saw : BOOLEAN,
          snap : [Quills -> Nat], todo : SUBSET Quills, doomed : SUBSET Processes]
Clks  == [pc : {"idle", "check", "start", "register"}, quill : Quills \cup {"none"},
          gen : Nat, p : SUBSET Processes]
Adms  == [pc : {"idle", "issued", "end"}, quill : Quills \cup {"none"},
          doomed : SUBSET Processes]

----------------------------------------------------------------------------
(* The records that the actions make.                                      *)

LEMMA Blank == NoBook \in Books /\ SupIdle \in Sups /\ ClkIdle \in Clks /\ AdmIdle \in Adms
  BY DEF NoBook, SupIdle, ClkIdle, AdmIdle, Books, Sups, Clks, Adms

LEMMA Typed ==
    TypeOK <=>
      /\ installed \in [Quills -> Nat] /\ acts \in Nat /\ on \subseteq Quills
      /\ untold \in BOOLEAN /\ changed \in BOOLEAN
      /\ alive \subseteq Processes /\ good \subseteq alive
      /\ current \subseteq alive /\ old \subseteq alive
      /\ row \subseteq Quills /\ mem \subseteq row
      /\ serving \in [Quills -> SUBSET Processes] /\ job \in [Quills -> SUBSET Processes]
      /\ book \in [Quills -> Books] /\ sup \in Sups /\ clk \in Clks /\ adm \in Adms
  BY DEF TypeOK, Books, Sups, Clks, Adms

LEMMA KnownTyped ==
    ASSUME TypeOK, NEW Q \in SUBSET Quills
    PROVE  Known(Q) \subseteq Processes
  BY DEF TypeOK, Known

LEMMA SpawnedFresh ==
    ASSUME NEW q, NEW kind, Fresh(q, kind) # {}
    PROVE  /\ Spawned(q, kind) \in Processes
           /\ Spawned(q, kind) \notin alive \cup Hands
           /\ Spawned(q, kind).quill = q
  BY DEF Spawned, Fresh

LEMMA TurnTyped ==
    ASSUME TypeOK, NEW q \in Quills, NEW D \in SUBSET Processes, Over(q, D)
    PROVE  sup' \in Sups
  BY DEF TypeOK, Over, Sups

LEMMA EntryTyped ==
    ASSUME TypeOK, NEW q \in Quills
    PROVE  Entry(q) \in Books
  <1>1. book[q] \in Books /\ sup.snap[q] \in Nat
    BY Typed DEF Sups
  <1> QED BY <1>1 DEF Entry, Books

LEMMA PutTyped ==
    ASSUME TypeOK, NEW q \in Quills, NEW p \in SUBSET Processes, NEW b \in Books, Put(q, p, b)
    PROVE  serving' \in [Quills -> SUBSET Processes] /\ book' \in [Quills -> Books]
  BY DEF TypeOK, Put, Books

LEMMA ExitedPuts ==
    ASSUME TypeOK, NEW q \in Quills, Exited(q)
    PROVE  /\ sup' = SupIdle \/ Over(q, {})
           /\ \E b \in Books : b.known /\ Put(q, {}, b)
           /\ "overflow" \notin Hazards => Over(q, {})
  <1> DEFINE e == Entry(q)
  <1>1. e \in Books /\ e.known
    BY EntryTyped DEF Entry, TypeOK
  <1>2. CASE Over(q, {}) /\ Put(q, {}, [Entry(q) EXCEPT !.done = TRUE])
    <2>1. [e EXCEPT !.done = TRUE] \in Books /\ [e EXCEPT !.done = TRUE].known
      BY <1>1 DEF Books
    <2> QED BY <1>2, <2>1
  <1>3. ASSUME NEW f \in {0, book[q].failures}, f = Widest, "overflow" \in Hazards,
               Raised, Put(q, {}, Entry(q))
        PROVE  sup' = SupIdle /\ \E b \in Books : b.known /\ Put(q, {}, b)
    BY <1>1, <1>3 DEF Raised
  <1>4. ASSUME NEW f \in {0, book[q].failures}, Over(q, {}),
               Put(q, {}, [Entry(q) EXCEPT !.waiting = TRUE,
                                           !.failures = IF f < Widest THEN f + 1 ELSE Widest])
        PROVE  \E b \in Books : b.known /\ Put(q, {}, b)
    <2> DEFINE n == IF f < Widest THEN f + 1 ELSE Widest
    <2>1. n \in Nat
      BY ConstantsFit DEF TypeOK, Books
    <2> HIDE DEF n
    <2>2. [e EXCEPT !.waiting = TRUE, !.failures = n] \in Books
          /\ [e EXCEPT !.waiting = TRUE, !.failures = n].known
      BY <1>1, <2>1 DEF Books
    <2> QED BY <1>4, <2>2 DEF n
  <1> QED BY <1>2, <1>3, <1>4 DEF Exited

----------------------------------------------------------------------------
(* Types.                                                                  *)

LEMMA DeathTyped ==
    ASSUME TypeOK, NEW p, Dies(p)
    PROVE  TypeOK'
  <1> QED BY Typed DEF Dies, world, memory, TypeOK

LEMMA IssuedTyped ==
    ASSUME TypeOK, NEW q \in Quills, Issued(q)
    PROVE  row' \subseteq Quills /\ mem' \subseteq row' /\ good' \subseteq alive
  BY DEF TypeOK, Issued

LEMMA BeginsTyped ==
    ASSUME TypeOK, NEW p \in Processes, NEW v, Begins(p, v)
    PROVE  /\ alive' \subseteq Processes /\ good' \subseteq alive'
           /\ current' \subseteq alive' /\ old' \subseteq alive'
  BY DEF TypeOK, Begins

LEMMA TypeInit == Init => TypeOK
  <1> SUFFICES ASSUME Init PROVE TypeOK
    OBVIOUS
  <1>1. /\ serving \in [Quills -> SUBSET Processes] /\ job \in [Quills -> SUBSET Processes]
        /\ book \in [Quills -> Books] /\ sup \in Sups /\ clk \in Clks /\ adm \in Adms
    BY Blank DEF Init
  <1> QED BY <1>1, Typed DEF Init

(* An act, counted.                                                        *)
LEMMA ActTyped ==
    ASSUME TypeOK, Act
    PROVE  acts' \in Nat
  <1>1. acts \in Nat
    BY Typed
  <1> QED BY <1>1 DEF Act

LEMMA RegistryTyped ==
    ASSUME TypeOK, NEW q \in Quills,
           Install(q) \/ Uninstall(q) \/ SwitchOff(q) \/ SwitchOn(q) \/ WaitOver(q) \/ Tell
    PROVE  TypeOK'
  <1>1. CASE Install(q) \/ Uninstall(q)
    <2>1. acts' \in Nat /\ installed' \in [Quills -> Nat] /\ current' \subseteq alive
      <3>1. installed \in [Quills -> Nat] /\ current \subseteq alive /\ acts' \in Nat
        BY <1>1, Typed, ActTyped DEF Install, Uninstall
      <3> QED BY <1>1, <3>1 DEF Install, Uninstall
    <2> QED BY <1>1, <2>1 DEF TypeOK, Install, Uninstall, memory
  <1>2. CASE SwitchOff(q) \/ SwitchOn(q)
    <2>1. acts' \in Nat /\ on' \subseteq Quills
      BY <1>2, Typed, ActTyped DEF SwitchOff, SwitchOn
    <2>2. UNCHANGED <<installed, untold, changed, procs, memory, sup, clk, adm>>
      BY <1>2 DEF SwitchOff, SwitchOn
    <2> QED BY <2>1, <2>2 DEF TypeOK, procs, memory
  <1>3. CASE WaitOver(q)
    <2>1. book \in [Quills -> Books]
      BY Typed
    <2>2. book' \in [Quills -> Books]
      BY <1>3, <2>1 DEF WaitOver, Books
    <2>3. UNCHANGED <<world, changed, procs, row, mem, serving, job, sup, clk, adm, acts>>
      BY <1>3 DEF WaitOver
    <2> QED BY <2>2, <2>3 DEF TypeOK, Books, world, procs
  <1>4. CASE Tell
    BY <1>4 DEF TypeOK, Tell, procs, memory
  <1> QED BY <1>1, <1>2, <1>3, <1>4

LEMMA LookTyped ==
    ASSUME TypeOK, Look \/ Snapshot \/ Release \/ Ended \/ Raise
    PROVE  TypeOK'
  <1>1. sup' \in Sups /\ changed' \in BOOLEAN /\ acts' \in Nat
    <2>1. CASE Look BY <2>1 DEF TypeOK, Look, Sups
    <2>2. CASE Snapshot
      <3> DEFINE snap == [q \in Quills |-> IF HasCode(q) THEN installed[q] ELSE 0]
      <3>1. snap \in [Quills -> Nat]
        BY DEF TypeOK
      <3> HIDE DEF snap
      <3> QED BY <2>2, <3>1 DEF TypeOK, Snapshot, Sups, snap
    <2>3. CASE Release BY <2>3 DEF TypeOK, Release, Sups
    <2>4. CASE Ended BY <2>4, Blank DEF TypeOK, Ended
    <2>5. CASE Raise BY <2>5, Blank DEF TypeOK, Raise, Raised, Act
    <2> QED BY <2>1, <2>2, <2>3, <2>4, <2>5
  <1>2. UNCHANGED <<world, procs, memory, clk, adm>>
    BY DEF Look, Snapshot, Release, Ended, Raise
  <1> QED BY <1>1, <1>2 DEF TypeOK, Sups, world, procs, memory

LEMMA ClearTyped ==
    ASSUME TypeOK, Clear
    PROVE  TypeOK'
  <1> DEFINE gone == {q \in Quills : book[q].known} \ sup.todo
  <1>1. PICK revoked : /\ mem' = mem \ revoked /\ row' = row \ revoked
                       /\ good' = {p \in good : p.quill \notin revoked}
    BY DEF Clear
  <1>2. Known(gone) \subseteq Processes
    BY KnownTyped
  <1>3. /\ sup' = [sup EXCEPT !.pc = "keep", !.todo = {q \in sup.todo : sup.snap[q] # 0},
                              !.doomed = Known(gone)]
        /\ serving' = [q \in Quills |-> IF q \in gone THEN {} ELSE serving[q]]
        /\ job' = [q \in Quills |-> IF q \in gone THEN {} ELSE job[q]]
        /\ book' = [q \in Quills |-> IF q \in gone THEN NoBook ELSE book[q]]
        /\ UNCHANGED <<world, changed, alive, current, old, clk, adm, acts>>
    BY DEF Clear
  <1> HIDE DEF gone
  <1>4. sup' \in Sups
    BY <1>2, <1>3 DEF TypeOK, Sups
  <1>5. /\ serving' \in [Quills -> SUBSET Processes] /\ job' \in [Quills -> SUBSET Processes]
        /\ book' \in [Quills -> Books]
    BY <1>3, Blank DEF TypeOK, Books
  <1> QED BY <1>1, <1>3, <1>4, <1>5 DEF TypeOK, Sups, Books, world

LEMMA KeepUpTyped ==
    ASSUME TypeOK, NEW q \in Quills,
           Renew(q) \/ Issue(q) \/ Hold(q) \/ Leave(q) \/ Reap(q) \/ Launch(q) \/ Fail(q)
    PROVE  TypeOK'
  <1> USE DEF world, procs
  <1>1. serving[q] \in SUBSET Processes /\ {} \in SUBSET Processes /\ Known({q}) \in SUBSET Processes
    BY KnownTyped DEF TypeOK
  <1>2. CASE Renew(q)
    <2>1. sup' \in Sups
      BY <1>1, <1>2 DEF Renew, TypeOK, Sups
    <2>2. serving' \in [Quills -> SUBSET Processes] /\ book' \in [Quills -> Books]
      BY <1>1, <1>2, Blank, PutTyped DEF Renew
    <2>3. job' \in [Quills -> SUBSET Processes]
      BY <1>2 DEF Renew, TypeOK
    <2> QED BY <1>2, <2>1, <2>2, <2>3 DEF Renew, TypeOK, Sups, Books
  <1>3. CASE Issue(q)
    BY <1>3, IssuedTyped DEF Issue, TypeOK
  <1>4. CASE Hold(q)
    <2>1. [Entry(q) EXCEPT !.done = FALSE] \in Books
      BY EntryTyped DEF Books
    <2>2. serving' \in [Quills -> SUBSET Processes] /\ book' \in [Quills -> Books]
      BY <1>1, <1>4, <2>1, PutTyped DEF Hold
    <2>3. sup' \in Sups
      BY <1>1, <1>4, TurnTyped DEF Hold
    <2> QED BY <1>4, <2>2, <2>3 DEF Hold, TypeOK, Sups, Books
  <1>5. CASE Leave(q)
    <2>1. serving' \in [Quills -> SUBSET Processes] /\ book' \in [Quills -> Books]
      BY <1>1, <1>5, EntryTyped, PutTyped DEF Leave
    <2>2. sup' \in Sups
      BY <1>1, <1>5, TurnTyped DEF Leave
    <2> QED BY <1>5, <2>1, <2>2 DEF Leave, TypeOK, Sups, Books
  <1>6. CASE Reap(q) \/ Fail(q)
    <2>1. Exited(q) /\ acts' \in Nat /\ UNCHANGED <<world, changed, procs, row, mem, job, clk, adm>>
      BY <1>6 DEF Reap, Fail, Act, TypeOK
    <2>2. PICK b \in Books : Put(q, {}, b)
      BY <2>1, ExitedPuts
    <2>3. serving' \in [Quills -> SUBSET Processes] /\ book' \in [Quills -> Books]
      BY <1>1, <2>2, PutTyped
    <2>4. sup' \in Sups
      BY <1>1, <2>1, ExitedPuts, Blank, TurnTyped
    <2> QED BY <2>1, <2>3, <2>4 DEF TypeOK, Sups, Books
  <1>7. CASE Launch(q)
    <2> DEFINE p == Spawned(q, "service")
    <2>1. p \in Processes
      BY <1>7, SpawnedFresh DEF Launch
    <2>2. Begins(p, sup.snap[q]) /\ Put(q, {p}, Entry(q)) /\ Over(q, {})
          /\ UNCHANGED <<world, changed, row, mem, job, clk, adm, acts>>
      BY <1>7 DEF Launch
    <2> HIDE DEF p
    <2>3. /\ alive' \subseteq Processes /\ good' \subseteq alive'
          /\ current' \subseteq alive' /\ old' \subseteq alive'
      BY <2>1, <2>2, BeginsTyped
    <2>4. serving' \in [Quills -> SUBSET Processes] /\ book' \in [Quills -> Books]
      BY <2>1, <2>2, EntryTyped, PutTyped
    <2>5. sup' \in Sups
      BY <1>1, <2>2, TurnTyped
    <2> QED BY <2>2, <2>3, <2>4, <2>5 DEF TypeOK, Sups, Books
  <1> QED BY <1>2, <1>3, <1>4, <1>5, <1>6, <1>7

LEMMA ClockTyped ==
    ASSUME TypeOK, (\E q \in Quills : ClkLook(q)) \/ ClkCheck \/ ClkStart \/ ClkFail \/ ClkRegister
    PROVE  TypeOK'
  <1> USE DEF world, procs, memory
  <1>1. CASE \E q \in Quills : ClkLook(q)
    <2>1. PICK q \in Quills : ClkLook(q)
      BY <1>1
    <2>2. row' \subseteq Quills /\ mem' \subseteq row' /\ good' \subseteq alive
      <3>1. CASE q \in mem BY <2>1, <3>1 DEF ClkLook, TypeOK
      <3>2. CASE q \notin mem BY <2>1, <3>2, IssuedTyped DEF ClkLook
      <3> QED BY <3>1, <3>2
    <2>3. clk' \in Clks
      BY <2>1 DEF ClkLook, TypeOK, Clks
    <2> QED BY <2>1, <2>2, <2>3 DEF ClkLook, TypeOK, Clks
  <1>2. CASE ClkCheck \/ ClkFail
    <2>1. clk' \in Clks
      BY <1>2, Blank DEF ClkCheck, ClkFail, TypeOK, Clks
    <2> QED BY <1>2, <2>1 DEF ClkCheck, ClkFail, TypeOK, Clks
  <1>3. CASE ClkStart
    <2> DEFINE p == Spawned(clk.quill, "job")
    <2>1. p \in Processes
      BY <1>3, SpawnedFresh DEF ClkStart
    <2>2. Begins(p, clk.gen) /\ clk' = [clk EXCEPT !.pc = "register", !.p = {p}]
          /\ UNCHANGED <<world, changed, memory, sup, adm, acts>>
      BY <1>3 DEF ClkStart
    <2> HIDE DEF p
    <2>3. /\ alive' \subseteq Processes /\ good' \subseteq alive'
          /\ current' \subseteq alive' /\ old' \subseteq alive'
      BY <2>1, <2>2, BeginsTyped
    <2>4. clk' \in Clks
      BY <2>1, <2>2 DEF TypeOK, Clks
    <2> QED BY <2>2, <2>3, <2>4 DEF TypeOK, Clks
  <1>4. CASE ClkRegister
    <2>1. job' \in [Quills -> SUBSET Processes] /\ clk' \in Clks
      BY <1>4, Blank DEF ClkRegister, TypeOK
    <2> QED BY <1>4, <2>1 DEF ClkRegister, TypeOK, Clks
  <1> QED BY <1>1, <1>2, <1>3, <1>4

LEMMA AdminTyped ==
    ASSUME TypeOK, (\E q \in Quills : Rotate(q) \/ Restart(q) \/ Rotated(q)) \/ AdmEnded
    PROVE  TypeOK'
  <1> USE DEF world, procs, memory
  <1>1. CASE \E q \in Quills : Rotate(q)
    <2>1. PICK q \in Quills : Rotate(q)
      BY <1>1
    <2>2. adm' \in Adms /\ acts' \in Nat
      <3>1. adm \in Adms /\ acts' \in Nat
        BY <2>1, Typed, ActTyped DEF Rotate
      <3> QED BY <2>1, <3>1 DEF Rotate, Adms
    <2> QED BY <2>1, <2>2, IssuedTyped DEF Rotate, TypeOK, Adms
  <1>2. CASE \E q \in Quills : Restart(q) \/ Rotated(q)
    <2>1. PICK q \in Quills : Restart(q) \/ Rotated(q)
      BY <1>2
    <2>2. Restarting(q) /\ acts' \in Nat
      BY <2>1 DEF Restart, Rotated, Act, TypeOK
    <2>3. serving[q] \in SUBSET Processes /\ {} \in SUBSET Processes
      BY DEF TypeOK
    <2>4. [book[q] EXCEPT !.failures = 0, !.waiting = FALSE, !.done = FALSE] \in Books
      <3>1. book[q] \in Books
        BY Typed
      <3> QED BY <3>1 DEF Books
    <2>5. serving' \in [Quills -> SUBSET Processes] /\ book' \in [Quills -> Books]
      BY <2>2, <2>3, <2>4, PutTyped DEF Restarting
    <2>6. adm' \in Adms
      BY <2>2, <2>3 DEF Restarting, Adms
    <2> QED BY <2>2, <2>5, <2>6 DEF Restarting, TypeOK, Adms, Books
  <1>3. CASE AdmEnded
    <2>1. adm' \in Adms
      BY <1>3, Blank DEF AdmEnded
    <2> QED BY <1>3, <2>1 DEF AdmEnded, TypeOK, Adms
  <1> QED BY <1>1, <1>2, <1>3

LEMMA EndTyped ==
    ASSUME TypeOK, Stop \/ Stopped \/ Crash
    PROVE  TypeOK'
  <1>1. CASE Stop
    <2>1. Known(Quills) \subseteq Processes
      BY KnownTyped
    <2>2. sup' \in Sups /\ acts' \in Nat
      <3>1. sup \in Sups /\ acts' \in Nat
        BY <1>1, Typed, ActTyped DEF Stop
      <3> QED BY <1>1, <2>1, <3>1 DEF Stop, Sups
    <2>3. job' \in [Quills -> SUBSET Processes]
      BY <1>1 DEF Stop
    <2> QED BY <1>1, <2>2, <2>3 DEF Stop, TypeOK, Sups, world, procs
  <1>2. CASE Stopped \/ Crash
    <2>1. Anew /\ acts' \in Nat
      BY <1>2 DEF Stopped, Crash, Act, TypeOK
    <2>2. /\ serving' \in [Quills -> SUBSET Processes] /\ job' \in [Quills -> SUBSET Processes]
          /\ book' \in [Quills -> Books] /\ sup' \in Sups /\ clk' \in Clks /\ adm' \in Adms
      BY <2>1, Blank DEF Anew
    <2>3. /\ installed' \in [Quills -> Nat] /\ on' \subseteq Quills
          /\ untold' \in BOOLEAN /\ changed' \in BOOLEAN
          /\ alive' \subseteq Processes /\ good' \subseteq alive'
          /\ current' \subseteq alive' /\ old' \subseteq alive'
          /\ row' \subseteq Quills /\ mem' \subseteq row'
      BY <2>1 DEF Anew, TypeOK
    <2> QED BY <2>1, <2>2, <2>3 DEF TypeOK, Books, Sups, Clks, Adms
  <1> QED BY <1>1, <1>2

LEMMA TypeStep == TypeOK /\ [Next]_vars => TypeOK'
  <1> SUFFICES ASSUME TypeOK, [Next]_vars PROVE TypeOK'
    OBVIOUS
  <1>1. CASE UNCHANGED vars
    BY <1>1 DEF TypeOK, vars, world, procs, memory
  <1>2. CASE Next
    <2>1. CASE \E p \in Processes : Exit(p) \/ Killed(p)
      BY <2>1, DeathTyped DEF Exit, Killed
    <2>2. CASE \E q \in Quills : Install(q) \/ Uninstall(q) \/ SwitchOff(q) \/ SwitchOn(q) \/ WaitOver(q)
      BY <2>2, RegistryTyped
    <2>3. CASE Tell
      BY <2>3 DEF TypeOK, Tell, procs, memory
    <2>4. CASE Look \/ Snapshot \/ Release \/ Ended \/ Raise
      BY <2>4, LookTyped
    <2>5. CASE Clear
      BY <2>5, ClearTyped
    <2>6. CASE \E q \in Quills : \/ Renew(q) \/ Issue(q) \/ Hold(q) \/ Leave(q)
                                 \/ Reap(q) \/ Launch(q) \/ Fail(q)
      BY <2>6, KeepUpTyped
    <2>7. CASE (\E q \in Quills : ClkLook(q)) \/ ClkCheck \/ ClkStart \/ ClkFail \/ ClkRegister
      BY <2>7, ClockTyped
    <2>8. CASE (\E q \in Quills : Rotate(q) \/ Restart(q) \/ Rotated(q)) \/ AdmEnded
      BY <2>8, AdminTyped
    <2>9. CASE Stop \/ Stopped \/ Crash
      BY <2>9, EndTyped
    <2> QED BY <1>2, <2>1, <2>2, <2>3, <2>4, <2>5, <2>6, <2>7, <2>8, <2>9 DEF Next, Supervise
  <1> QED BY <1>1, <1>2

(* Every step of the threads, the registry and the processes keeps the     *)
(* tables well formed, and a token is in memory only with its row.         *)
THEOREM TypeCorrect == Spec => []TypeOK
  BY TypeInit, TypeStep, PTL DEF Spec

----------------------------------------------------------------------------
(* No process is lost sight of, and a service's token works.               *)

NoRaise == "raise" \notin Hazards /\ "overflow" \notin Hazards

(* Where each thread has what it has in hand.                              *)
HandsAt ==
    /\ sup.pc \in {"idle", "look", "seen"} => sup.doomed = {}
    /\ adm.pc # "end" => adm.doomed = {}
    /\ clk.pc # "register" => clk.p = {}
    /\ clk.pc # "idle" => clk.quill \in Quills
    /\ clk.pc \in {"start", "register"} => job[clk.quill] \cap alive = {}

(* A service's entry: at most one process, of its Quill, and only when the *)
(* Quill is known of and its token in memory.                              *)
Entries ==
    \A q \in Quills :
        /\ \A p, r \in serving[q] : p = r
        /\ serving[q] \subseteq OfQuill(q)
        /\ serving[q] # {} => book[q].known /\ q \in mem

Inv == TypeOK /\ InHand /\ Carries /\ HandsAt /\ Entries

LEMMA HandsAre ==
    /\ \A p : p \in Hands <=> \/ p \in sup.doomed \cup clk.p \cup adm.doomed
                              \/ \E q \in Quills : p \in serving[q] \cup job[q]
    /\ \A p : p \in Hands' <=> \/ p \in sup'.doomed \cup clk'.p \cup adm'.doomed
                               \/ \E q \in Quills : p \in serving'[q] \cup job'[q]
  BY DEF Hands

LEMMA HeldInit == Init => Inv
  <1> SUFFICES ASSUME Init PROVE Inv
    OBVIOUS
  <1>1. TypeOK
    BY TypeInit
  <1>2. InHand /\ Carries /\ Entries
    BY DEF Init, InHand, Carries, Entries
  <1>3. HandsAt
    BY DEF Init, HandsAt, SupIdle, ClkIdle, AdmIdle
  <1> QED BY <1>1, <1>2, <1>3 DEF Inv

(* A step that changes nothing of what the processes are held by.          *)
LEMMA Elsewhere ==
    ASSUME Inv, UNCHANGED <<alive, good, old, mem, serving, job, sup, clk, adm>>,
           \A q \in Quills : book'[q].known = book[q].known
    PROVE  (InHand /\ Carries /\ HandsAt /\ Entries)'
  <1>1. Hands' = Hands
    BY HandsAre
  <1>2. InHand' /\ Carries' /\ HandsAt'
    BY <1>1 DEF Inv, InHand, Carries, HandsAt
  <1>3. Entries'
    BY DEF Inv, Entries
  <1> QED BY <1>2, <1>3

LEMMA DeathHeld ==
    ASSUME Inv, NEW p, Dies(p)
    PROVE  (InHand /\ Carries /\ HandsAt /\ Entries)'
  <1>1. /\ alive' = alive \ {p} /\ good' = good \ {p} /\ old' = old \ {p}
        /\ UNCHANGED <<mem, serving, job, book, sup, clk, adm>>
    BY DEF Dies, memory
  <1>2. Hands' = Hands
    BY <1>1, HandsAre
  <1>3. InHand' /\ Carries' /\ HandsAt'
    BY <1>1, <1>2 DEF Inv, InHand, Carries, HandsAt
  <1>4. Entries'
    BY <1>1 DEF Inv, Entries
  <1> QED BY <1>3, <1>4

(* A new token kills the one before, so nothing of that Quill may be       *)
(* serving, unless a rotation is under way.                                *)
LEMMA IssuedHeld ==
    ASSUME Inv, NEW q \in Quills, Issued(q),
           serving[q] = {} \/ (adm'.pc = "issued" /\ adm'.quill = q),
           UNCHANGED <<alive, serving>>,
           adm' = adm \/ adm.pc = "idle"
    PROVE  Carries'
  <1> SUFFICES ASSUME NEW r \in Quills, ~(adm'.pc = "issued" /\ adm'.quill = r)
               PROVE  serving[r] \cap alive \subseteq good'
    BY DEF Carries
  <1>1. serving[r] \cap alive \subseteq good
    BY DEF Inv, Carries
  <1>2. r # q \/ serving[r] = {}
    OBVIOUS
  <1> QED BY <1>1, <1>2 DEF Issued, OfQuill, Inv, Entries

LEMMA LookHeld ==
    ASSUME Inv, NoRaise, Look \/ Snapshot \/ Release \/ Ended \/ Raise
    PROVE  (InHand /\ Carries /\ HandsAt /\ Entries)'
  <1>1. UNCHANGED <<alive, good, old, mem, serving, job, book, clk, adm>>
    BY DEF Look, Snapshot, Release, Ended, Raise, procs, memory
  <1>2. sup \in Sups
    BY Typed DEF Inv
  <1>3. /\ sup'.doomed \subseteq sup.doomed /\ (sup.doomed \ sup'.doomed) \cap alive = {}
        /\ sup'.pc \in {"idle", "look", "seen"} => sup'.doomed = {}
    <2>1. CASE Look \/ Snapshot \/ Release
      BY <2>1, <1>2 DEF Look, Snapshot, Release, Inv, HandsAt, Sups
    <2>2. CASE Ended \/ Raise
      BY <2>2 DEF Ended, Raise, Raised, SupIdle, NoRaise
    <2> QED BY <2>1, <2>2
  <1>4. InHand'
    BY <1>1, <1>3, HandsAre DEF Inv, InHand
  <1>5. Carries' /\ Entries'
    BY <1>1 DEF Inv, Carries, Entries
  <1>6. HandsAt'
    BY <1>1, <1>3 DEF Inv, HandsAt
  <1> QED BY <1>4, <1>5, <1>6

LEMMA ClearHeld ==
    ASSUME Inv, Clear
    PROVE  (InHand /\ Carries /\ HandsAt /\ Entries)'
  <1> DEFINE gone == {q \in Quills : book[q].known} \ sup.todo
             revoked == gone \cup (IF sup.saw THEN row \ sup.todo ELSE {})
  <1>1. /\ mem' = mem \ revoked
        /\ good' = {p \in good : p.quill \notin revoked}
        /\ serving' = [q \in Quills |-> IF q \in gone THEN {} ELSE serving[q]]
        /\ job' = [q \in Quills |-> IF q \in gone THEN {} ELSE job[q]]
        /\ book' = [q \in Quills |-> IF q \in gone THEN NoBook ELSE book[q]]
        /\ UNCHANGED <<alive, old, clk, adm>>
    BY DEF Clear
  <1>2. sup'.pc = "keep" /\ sup'.doomed = Known(gone) /\ sup.doomed = {} /\ sup.pc = "seen"
    BY Typed DEF Clear, Inv, HandsAt, Sups
  <1>3. \A q \in Quills : q \in revoked => serving'[q] = {}
    <2> SUFFICES ASSUME NEW q \in Quills, q \in revoked, q \notin gone PROVE serving[q] = {}
      BY <1>1
    <2>1. q \notin sup.todo
      OBVIOUS
    <2>2. ~book[q].known
      BY <2>1
    <2> QED BY <2>2 DEF Inv, Entries
  <1>4. gone \subseteq Quills
    OBVIOUS
  <1> HIDE DEF gone, revoked
  <1>5. \A q \in gone : serving[q] \cup job[q] \subseteq Known(gone)
    BY DEF Known
  <1>6. InHand'
    <2> SUFFICES ASSUME NEW p \in alive, p \notin old PROVE p \in Hands'
      BY <1>1 DEF InHand
    <2>1. p \in Hands
      BY DEF Inv, InHand
    <2>2. CASE p \in clk.p \cup adm.doomed
      BY <2>2, <1>1, HandsAre
    <2>3. CASE \E q \in Quills : p \in serving[q] \cup job[q]
      <3>1. PICK q \in Quills : p \in serving[q] \cup job[q]
        BY <2>3
      <3>2. CASE q \in gone
        BY <3>1, <3>2, <1>2, <1>5, HandsAre
      <3>3. CASE q \notin gone
        BY <3>1, <3>3, <1>1, HandsAre
      <3> QED BY <3>2, <3>3
    <2> QED BY <2>1, <2>2, <2>3, <1>2, HandsAre
  <1>7. Carries'
    <2> SUFFICES ASSUME NEW q \in Quills, ~(adm.pc = "issued" /\ adm.quill = q)
                 PROVE  serving'[q] \cap alive \subseteq good'
      BY <1>1 DEF Carries
    <2>1. CASE q \in revoked
      BY <2>1, <1>3
    <2>2. CASE q \notin revoked
      <3>1. serving'[q] \subseteq serving[q]
        BY <1>1
      <3>2. serving[q] \cap alive \subseteq good /\ serving[q] \subseteq OfQuill(q)
        BY DEF Inv, Carries, Entries
      <3> QED BY <3>1, <3>2, <2>2, <1>1 DEF OfQuill
    <2> QED BY <2>1, <2>2
  <1>8. HandsAt'
    <2>1. \A q : job[q] \cap alive = {} /\ q \in Quills => job'[q] \cap alive = {}
      BY <1>1
    <2>2. clk.pc \in {"start", "register"} => job'[clk.quill] \cap alive = {}
      BY <2>1, <1>1 DEF Inv, HandsAt
    <2> QED BY <1>1, <1>2, <2>2 DEF Inv, HandsAt
  <1>9. Entries'
    <2> SUFFICES ASSUME NEW q \in Quills
                 PROVE  /\ \A p, r \in serving'[q] : p = r
                        /\ serving'[q] \subseteq OfQuill(q)
                        /\ serving'[q] # {} => book'[q].known /\ q \in mem'
      BY DEF Entries, OfQuill
    <2>1. CASE serving'[q] = {}
      BY <2>1
    <2>2. CASE serving'[q] # {}
      <3>1. q \notin gone /\ q \notin revoked
        BY <2>2, <1>1, <1>3
      <3> QED BY <3>1, <1>1 DEF Inv, Entries
    <2> QED BY <2>1, <2>2
  <1> QED BY <1>6, <1>7, <1>8, <1>9

(* What a Quill's turn does: its live processes stay its own, or are among *)
(* those to be stopped; a process that is new is its service.              *)
LEMMA TurnInHand ==
    ASSUME Inv, NEW q \in Quills, NEW s, NEW b, Put(q, s, b),
           UNCHANGED <<old, clk, adm>>,
           job' = [job EXCEPT ![q] = {}] \/ job' = job,
           alive' = alive \cup (s \ serving[q]),
           sup.doomed \subseteq sup'.doomed,
           (serving[q] \cup job[q]) \cap alive \subseteq s \cup job'[q] \cup sup'.doomed
    PROVE  InHand'
  <1> SUFFICES ASSUME NEW p \in alive', p \notin old PROVE p \in Hands'
    BY DEF InHand
  <1>1. serving' = [serving EXCEPT ![q] = s] /\ serving \in [Quills -> SUBSET Processes]
        /\ job \in [Quills -> SUBSET Processes]
    BY Typed DEF Put, Inv
  <1>2. CASE p \in s
    BY <1>1, <1>2, HandsAre
  <1>3. CASE p \notin s
    <2>1. p \in alive /\ p \in Hands
      BY <1>3 DEF Inv, InHand
    <2>2. CASE p \in sup.doomed \cup clk.p \cup adm.doomed
      BY <2>2, HandsAre
    <2>3. ASSUME NEW r \in Quills, p \in serving[r] \cup job[r]
          PROVE  p \in Hands'
      <3>1. CASE r = q
        BY <3>1, <2>1, <2>3, <1>1, <1>3, HandsAre
      <3>2. CASE r # q
        <4>1. serving'[r] = serving[r] /\ job'[r] = job[r]
          BY <3>2, <1>1
        <4> QED BY <4>1, <2>3, HandsAre
      <3> QED BY <3>1, <3>2
    <2> QED BY <2>1, <2>2, <2>3, HandsAre
  <1> QED BY <1>2, <1>3

(* And the rest of the invariant, when its token is there if it serves.    *)
LEMMA TurnHeld ==
    ASSUME Inv, NEW q \in Quills, NEW s, NEW b, Put(q, s, b),
           UNCHANGED <<old, mem, clk, adm>>,
           job' = [job EXCEPT ![q] = {}] \/ job' = job,
           alive' = alive \cup (s \ serving[q]),
           good \subseteq good', (s \ serving[q]) \subseteq good',
           sup'.pc \notin {"idle", "look", "seen"},
           s = {} \/ (q \in mem /\ b.known),
           \A p, r \in s : p = r, s \subseteq OfQuill(q),
           (s \ serving[q]) \cap Hands = {}
    PROVE  (Carries /\ HandsAt /\ Entries)'
  <1>1. /\ serving \in [Quills -> SUBSET Processes] /\ job \in [Quills -> SUBSET Processes]
        /\ book \in [Quills -> Books]
    BY Typed DEF Inv
  <1>2. /\ \A r \in Quills : serving'[r] = IF r = q THEN s ELSE serving[r]
        /\ \A r \in Quills : book'[r] = IF r = q THEN b ELSE book[r]
        /\ \A r \in Quills : job'[r] \subseteq job[r]
    BY <1>1 DEF Put
  <1>3. Carries'
    <2> SUFFICES ASSUME NEW r \in Quills, ~(adm.pc = "issued" /\ adm.quill = r)
                 PROVE  serving'[r] \cap alive' \subseteq good'
      BY DEF Carries
    <2>1. serving[r] \cap alive \subseteq good
      BY DEF Inv, Carries
    <2>2. (s \ serving[q]) \cap serving[r] = {}
      BY HandsAre
    <2> QED BY <2>1, <2>2, <1>2
  <1>4. HandsAt'
    <2>1. clk.pc \in {"start", "register"} => job'[clk.quill] \cap alive' = {}
      <3> SUFFICES ASSUME clk.pc \in {"start", "register"} PROVE job'[clk.quill] \cap alive' = {}
        OBVIOUS
      <3>1. clk.quill \in Quills /\ job[clk.quill] \cap alive = {}
        BY DEF Inv, HandsAt
      <3>2. (s \ serving[q]) \cap job[clk.quill] = {}
        BY <3>1, HandsAre
      <3> QED BY <3>1, <3>2, <1>2
    <2> QED BY <2>1 DEF Inv, HandsAt
  <1>5. Entries'
    <2> SUFFICES ASSUME NEW r \in Quills
                 PROVE  /\ \A x, y \in serving'[r] : x = y
                        /\ serving'[r] \subseteq OfQuill(r)
                        /\ serving'[r] # {} => book'[r].known /\ r \in mem
      BY DEF Entries, OfQuill
    <2>1. CASE r = q
      BY <2>1, <1>2
    <2>2. CASE r # q
      BY <2>2, <1>2 DEF Inv, Entries
    <2> QED BY <2>1, <2>2
  <1> QED BY <1>3, <1>4, <1>5

LEMMA KeepUpHeld ==
    ASSUME Inv, NoRaise, NEW q \in Quills,
           Renew(q) \/ Issue(q) \/ Hold(q) \/ Leave(q) \/ Reap(q) \/ Launch(q) \/ Fail(q)
    PROVE  (InHand /\ Carries /\ HandsAt /\ Entries)'
  <1> USE DEF procs
  <1>1. /\ sup.pc = "keep" /\ sup \in Sups /\ serving[q] \subseteq Processes
        /\ job[q] \subseteq Processes
    <2>1. Turn(q)
      BY DEF Renew, Issue, Hold, Leave, Reap, Launch, Fail, Ready, Kept, Startable
    <2> QED BY <2>1, Typed DEF Inv, Turn
  <1>2. /\ \A x, y \in serving[q] : x = y
        /\ serving[q] \subseteq OfQuill(q)
        /\ serving[q] # {} => q \in mem
    BY DEF Inv, Entries
  <1>3. ASSUME NEW D, Over(q, D)
        PROVE  sup'.pc = "keep" /\ sup'.doomed = sup.doomed \cup D
    BY <1>1, <1>3 DEF Over, Sups
  <1>4. CASE Renew(q)
    <2>1. sup'.pc = "keep" /\ sup'.doomed = sup.doomed \cup Known({q})
      BY <1>1, <1>4 DEF Renew, Sups
    <2>2. serving[q] \cup job[q] \subseteq Known({q})
      BY DEF Known
    <2>3. Put(q, {}, NoBook) /\ job' = [job EXCEPT ![q] = {}]
          /\ UNCHANGED <<alive, good, old, mem, clk, adm>>
      BY <1>4 DEF Renew
    <2>4. InHand'
      BY <2>1, <2>2, <2>3, TurnInHand
    <2>5. (Carries /\ HandsAt /\ Entries)'
      <3> DEFINE b == NoBook
      <3>1. Put(q, {}, b)
        BY <2>3
      <3> HIDE DEF b
      <3>2. /\ alive' = alive \cup ({} \ serving[q]) /\ good \subseteq good'
            /\ ({} \ serving[q]) \subseteq good' /\ ({} \ serving[q]) \cap Hands = {}
            /\ {} \subseteq OfQuill(q) /\ sup'.pc \notin {"idle", "look", "seen"}
        BY <2>1, <2>3
      <3>3. job' = [job EXCEPT ![q] = {}] \/ job' = job
        BY <2>3
      <3>4. UNCHANGED <<old, mem, clk, adm>>
        BY <2>3
      <3> QED BY <3>1, <3>2, <3>3, <3>4, TurnHeld
    <2> QED BY <2>4, <2>5
  <1>5. CASE Issue(q)
    <2>1. /\ Issued(q) /\ q \notin mem
          /\ UNCHANGED <<alive, old, serving, job, book, sup, clk, adm>>
      BY <1>5 DEF Issue
    <2>2. serving[q] = {}
      BY <2>1, <1>2
    <2>3. Carries'
      BY <2>1, <2>2, IssuedHeld
    <2>4. InHand' /\ HandsAt'
      BY <2>1, HandsAre DEF Inv, InHand, HandsAt
    <2>5. Entries'
      BY <2>1 DEF Inv, Entries, Issued
    <2> QED BY <2>3, <2>4, <2>5
  <1>6. CASE Hold(q)
    <2> DEFINE b == [Entry(q) EXCEPT !.done = FALSE]
    <2>1. Put(q, {}, b) /\ Over(q, serving[q])
          /\ UNCHANGED <<alive, good, old, mem, job, clk, adm>>
      BY <1>6 DEF Hold
    <2> HIDE DEF b
    <2>2. sup'.pc = "keep" /\ sup'.doomed = sup.doomed \cup serving[q]
      BY <2>1, <1>3
    <2>3. InHand'
      BY <2>1, <2>2, TurnInHand
    <2>4. (Carries /\ HandsAt /\ Entries)'
      BY <2>1, <2>2, TurnHeld
    <2> QED BY <2>3, <2>4
  <1>7. CASE Leave(q)
    <2>1. /\ Put(q, serving[q], Entry(q)) /\ Over(q, {}) /\ q \in mem
          /\ UNCHANGED <<alive, good, old, mem, job, clk, adm>>
      BY <1>7 DEF Leave, Kept, Ready
    <2>2. sup'.pc = "keep" /\ sup'.doomed = sup.doomed \cup {}
      BY <2>1, <1>3
    <2>3. Entry(q).known
      BY Typed DEF Entry, Inv, Books
    <2> HIDE DEF Entry
    <2>4. InHand'
      BY <2>1, <2>2, TurnInHand
    <2>5. (Carries /\ HandsAt /\ Entries)'
      BY <2>1, <2>2, <2>3, <1>2, TurnHeld
    <2> QED BY <2>4, <2>5
  <1>8. CASE Reap(q) \/ Fail(q)
    <2>1. Exited(q) /\ UNCHANGED <<alive, good, old, mem, job, clk, adm>>
      BY <1>8 DEF Reap, Fail
    <2>2. PICK b \in Books : Put(q, {}, b)
      BY <2>1, ExitedPuts DEF Inv
    <2>3. Over(q, {})
      BY <2>1, ExitedPuts DEF Inv, NoRaise
    <2>4. sup'.pc = "keep" /\ sup'.doomed = sup.doomed \cup {}
      BY <2>3, <1>3
    <2>5. serving[q] \cap alive = {}
      BY <1>8, <1>2 DEF Reap, Fail, Startable
    <2>6. InHand'
      BY <2>1, <2>2, <2>4, <2>5, TurnInHand
    <2>7. (Carries /\ HandsAt /\ Entries)'
      BY <2>1, <2>2, <2>4, TurnHeld
    <2> QED BY <2>6, <2>7
  <1>9. CASE Launch(q)
    <2> DEFINE p == Spawned(q, "service")
    <2>1. p \in Processes /\ p \notin alive \cup Hands /\ p.quill = q
      BY <1>9, SpawnedFresh DEF Launch
    <2>2. /\ Begins(p, sup.snap[q]) /\ Put(q, {p}, Entry(q)) /\ Over(q, {})
          /\ q \in mem /\ serving[q] = {}
          /\ UNCHANGED <<mem, job, clk, adm>>
      BY <1>9 DEF Launch, Startable, Kept, Ready
    <2> HIDE DEF p
    <2>3. alive' = alive \cup {p} /\ good' = good \cup {p} /\ old' = old
      BY <2>1, <2>2 DEF Begins
    <2>4. sup'.pc = "keep" /\ sup'.doomed = sup.doomed \cup {}
      BY <2>2, <1>3
    <2>5. Entry(q).known
      BY Typed DEF Entry, Inv, Books
    <2> HIDE DEF Entry
    <2>6. InHand'
      BY <2>2, <2>3, <2>4, TurnInHand
    <2>7. {p} \subseteq OfQuill(q)
      BY <2>1 DEF OfQuill
    <2>8. (Carries /\ HandsAt /\ Entries)'
      BY <2>1, <2>2, <2>3, <2>4, <2>5, <2>7, TurnHeld
    <2> QED BY <2>6, <2>8
  <1> QED BY <1>4, <1>5, <1>6, <1>7, <1>8, <1>9

LEMMA ClockHeld ==
    ASSUME Inv, (\E q \in Quills : ClkLook(q)) \/ ClkCheck \/ ClkStart \/ ClkFail \/ ClkRegister
    PROVE  (InHand /\ Carries /\ HandsAt /\ Entries)'
  <1>1. clk \in Clks
    BY Typed DEF Inv
  <1>2. CASE \E q \in Quills : ClkLook(q)
    <2>1. PICK q \in Quills : ClkLook(q)
      BY <1>2
    <2>2. /\ UNCHANGED <<alive, old, serving, job, book, sup, adm>>
          /\ clk.pc = "idle" /\ clk'.pc = "check" /\ clk'.quill = q /\ clk'.p = clk.p
      BY <2>1, <1>1 DEF ClkLook, Clks
    <2>3. InHand' /\ HandsAt'
      BY <2>2, HandsAre DEF Inv, InHand, HandsAt
    <2>4. CASE q \in mem
      <3>1. UNCHANGED <<mem, good>>
        BY <2>1, <2>4 DEF ClkLook
      <3>2. Carries' /\ Entries'
        BY <3>1, <2>2 DEF Inv, Carries, Entries
      <3> QED BY <3>2, <2>3
    <2>5. CASE q \notin mem
      <3>1. Issued(q) /\ serving[q] = {}
        BY <2>1, <2>5 DEF ClkLook, Inv, Entries
      <3>2. Carries'
        BY <3>1, <2>2, IssuedHeld
      <3>3. Entries'
        BY <3>1, <2>2 DEF Inv, Entries, Issued
      <3> QED BY <3>2, <3>3, <2>3
    <2> QED BY <2>4, <2>5
  <1>3. CASE ClkCheck \/ ClkFail
    <2>1. UNCHANGED <<alive, good, old, mem, serving, job, book, sup, adm>>
      BY <1>3 DEF ClkCheck, ClkFail, procs, memory
    <2>2. clk.p = {} /\ clk'.p = {}
      BY <1>3, <1>1 DEF ClkCheck, ClkFail, ClkIdle, Inv, HandsAt, Clks
    <2>3. /\ clk'.pc \in {"idle", "start"}
          /\ clk'.pc # "idle" => clk'.quill \in Quills /\ job[clk'.quill] \cap alive = {}
      BY <1>3, <1>1 DEF ClkCheck, ClkFail, ClkIdle, Inv, HandsAt, Clks
    <2>4. InHand'
      BY <2>1, <2>2, HandsAre DEF Inv, InHand
    <2>5. Carries' /\ Entries'
      BY <2>1 DEF Inv, Carries, Entries
    <2>6. HandsAt'
      BY <2>1, <2>2, <2>3 DEF Inv, HandsAt
    <2> QED BY <2>4, <2>5, <2>6
  <1>4. CASE ClkStart
    <2> DEFINE p == Spawned(clk.quill, "job")
    <2>1. p \in Processes /\ p \notin alive \cup Hands
      BY <1>4, SpawnedFresh DEF ClkStart
    <2>2. /\ Begins(p, clk.gen) /\ clk' = [clk EXCEPT !.pc = "register", !.p = {p}]
          /\ clk.pc = "start"
          /\ UNCHANGED <<mem, serving, job, book, sup, adm>>
      BY <1>4 DEF ClkStart, memory
    <2> HIDE DEF p
    <2>3. alive' = alive \cup {p} /\ good \subseteq good' /\ old' = old
      BY <2>2 DEF Begins
    <2>4. clk'.pc = "register" /\ clk'.p = {p} /\ clk'.quill = clk.quill /\ clk.p = {}
      BY <2>2, <1>1 DEF Clks, Inv, HandsAt
    <2>5. InHand'
      BY <2>2, <2>3, <2>4, HandsAre DEF Inv, InHand
    <2>6. \A q \in Quills : p \notin serving[q] /\ p \notin job[q]
      BY <2>1, HandsAre
    <2>7. Carries'
      BY <2>2, <2>3, <2>6 DEF Inv, Carries
    <2>8. HandsAt'
      BY <2>2, <2>3, <2>4, <2>6 DEF Inv, HandsAt
    <2>9. Entries'
      BY <2>2 DEF Inv, Entries
    <2> QED BY <2>5, <2>7, <2>8, <2>9
  <1>5. CASE ClkRegister
    <2>1. /\ job' = [job EXCEPT ![clk.quill] = clk.p] /\ clk' = ClkIdle /\ clk.pc = "register"
          /\ UNCHANGED <<alive, good, old, mem, serving, book, sup, adm>>
      BY <1>5 DEF ClkRegister, procs
    <2>2. clk.quill \in Quills /\ job[clk.quill] \cap alive = {}
      BY <2>1 DEF Inv, HandsAt
    <2>3. job \in [Quills -> SUBSET Processes]
      BY Typed DEF Inv
    <2>4. InHand'
      <3> SUFFICES ASSUME NEW p \in alive, p \notin old PROVE p \in Hands'
        BY <2>1 DEF InHand
      <3>1. p \in Hands
        BY DEF Inv, InHand
      <3>2. CASE p \in clk.p
        BY <3>2, <2>1, <2>2, <2>3, HandsAre
      <3>3. ASSUME NEW q \in Quills, p \in serving[q] \cup job[q]
            PROVE  p \in Hands'
        <4>1. p \in job[q] => q # clk.quill
          BY <2>2
        <4> QED BY <4>1, <3>3, <2>1, <2>3, HandsAre
      <3> QED BY <3>1, <3>2, <3>3, <2>1, HandsAre
    <2>5. Carries' /\ Entries'
      BY <2>1 DEF Inv, Carries, Entries
    <2>6. HandsAt'
      BY <2>1 DEF Inv, HandsAt, ClkIdle
    <2> QED BY <2>4, <2>5, <2>6
  <1> QED BY <1>2, <1>3, <1>4, <1>5

LEMMA AdminHeld ==
    ASSUME Inv, (\E q \in Quills : Rotate(q) \/ Restart(q) \/ Rotated(q)) \/ AdmEnded
    PROVE  (InHand /\ Carries /\ HandsAt /\ Entries)'
  <1>1. adm \in Adms
    BY Typed DEF Inv
  <1>2. CASE \E q \in Quills : Rotate(q)
    <2>1. PICK q \in Quills : Rotate(q)
      BY <1>2
    <2>2. /\ Issued(q) /\ adm.pc = "idle"
          /\ adm'.pc = "issued" /\ adm'.quill = q /\ adm'.doomed = adm.doomed
          /\ UNCHANGED <<alive, old, serving, job, book, sup, clk>>
      BY <2>1, <1>1 DEF Rotate, Adms
    <2>3. Carries'
      BY <2>2, IssuedHeld
    <2>4. InHand' /\ HandsAt'
      BY <2>2, HandsAre DEF Inv, InHand, HandsAt
    <2>5. Entries'
      BY <2>2 DEF Inv, Entries, Issued
    <2> QED BY <2>3, <2>4, <2>5
  <1>3. CASE \E q \in Quills : Restart(q) \/ Rotated(q)
    <2>1. PICK q \in Quills : Restart(q) \/ Rotated(q)
      BY <1>3
    <2>2. /\ Restarting(q) /\ adm.pc # "end"
          /\ adm.pc = "issued" => adm.quill = q
      BY <2>1 DEF Restart, Rotated
    <2> DEFINE b == [book[q] EXCEPT !.failures = 0, !.waiting = FALSE, !.done = FALSE]
    <2>3. /\ adm' = [pc |-> "end", quill |-> q, doomed |-> serving[q]] /\ Put(q, {}, b)
          /\ UNCHANGED <<alive, good, old, mem, job, sup, clk>>
      BY <2>2 DEF Restarting, procs
    <2>4. adm.doomed = {}
      BY <2>2 DEF Inv, HandsAt
    <2>5. serving \in [Quills -> SUBSET Processes] /\ book \in [Quills -> Books]
      BY Typed DEF Inv
    <2> HIDE DEF b
    <2>6. /\ \A r \in Quills : serving'[r] = IF r = q THEN {} ELSE serving[r]
          /\ \A r \in Quills : book'[r] = IF r = q THEN b ELSE book[r]
      BY <2>3, <2>5 DEF Put
    <2>7. InHand'
      <3> SUFFICES ASSUME NEW p \in alive, p \notin old PROVE p \in Hands'
        BY <2>3 DEF InHand
      <3>1. p \in Hands
        BY DEF Inv, InHand
      <3>2. ASSUME NEW r \in Quills, p \in serving[r] \cup job[r]
            PROVE  p \in Hands'
        <4>1. CASE p \in serving[r] /\ r = q
          BY <4>1, <2>3, HandsAre
        <4>2. CASE p \in job[r] \/ r # q
          BY <4>2, <3>2, <2>3, <2>6, HandsAre
        <4> QED BY <4>1, <4>2, <3>2
      <3> QED BY <3>1, <3>2, <2>3, <2>4, HandsAre
    <2>8. Carries'
      BY <2>2, <2>3, <2>6 DEF Inv, Carries
    <2>9. HandsAt'
      BY <2>3 DEF Inv, HandsAt
    <2>10. Entries'
      BY <2>3, <2>6 DEF Inv, Entries, OfQuill
    <2> QED BY <2>7, <2>8, <2>9, <2>10
  <1>4. CASE AdmEnded
    <2>1. /\ adm.pc = "end" /\ adm'.pc = "idle" /\ adm'.doomed = {} /\ adm.doomed \cap alive = {}
          /\ UNCHANGED <<alive, good, old, mem, serving, job, book, sup, clk>>
      BY <1>4 DEF AdmEnded, AdmIdle, procs, memory
    <2>2. InHand'
      BY <2>1, HandsAre DEF Inv, InHand
    <2>3. Carries' /\ HandsAt' /\ Entries'
      BY <2>1 DEF Inv, Carries, HandsAt, Entries
    <2> QED BY <2>2, <2>3
  <1> QED BY <1>2, <1>3, <1>4

LEMMA EndHeld ==
    ASSUME Inv, Stop \/ Stopped \/ Crash
    PROVE  (InHand /\ Carries /\ HandsAt /\ Entries)'
  <1>1. CASE Stop
    <2>1. /\ UNCHANGED <<alive, good, old, mem, serving, book, clk, adm>>
          /\ job' = [q \in Quills |-> {}] /\ sup.pc = "idle"
          /\ sup' = [sup EXCEPT !.pc = "stop", !.doomed = Known(Quills)]
      BY <1>1 DEF Stop, procs
    <2>2. sup \in Sups
      BY Typed DEF Inv
    <2>3. sup'.pc = "stop" /\ sup'.doomed = Known(Quills) /\ sup.doomed = {}
      BY <2>1, <2>2 DEF Sups, Inv, HandsAt
    <2>4. \A p : p \in Hands => p \in Hands'
      BY <2>1, <2>3, HandsAre DEF Known
    <2>5. InHand'
      BY <2>1, <2>4 DEF Inv, InHand
    <2>6. Carries' /\ Entries'
      BY <2>1 DEF Inv, Carries, Entries
    <2>7. HandsAt'
      BY <2>1, <2>3 DEF Inv, HandsAt
    <2> QED BY <2>5, <2>6, <2>7
  <1>2. CASE Stopped \/ Crash
    <2>1. Anew
      BY <1>2 DEF Stopped, Crash
    <2>2. InHand' /\ Carries' /\ Entries'
      BY <2>1 DEF Anew, InHand, Carries, Entries
    <2>3. HandsAt'
      BY <2>1 DEF Anew, HandsAt, SupIdle, ClkIdle, AdmIdle
    <2> QED BY <2>2, <2>3
  <1> QED BY <1>1, <1>2

LEMMA RegistryHeld ==
    ASSUME Inv, NEW q \in Quills,
           Install(q) \/ Uninstall(q) \/ SwitchOff(q) \/ SwitchOn(q) \/ WaitOver(q) \/ Tell
    PROVE  (InHand /\ Carries /\ HandsAt /\ Entries)'
  <1>1. UNCHANGED <<alive, good, old, mem, serving, job, sup, clk, adm>>
    BY DEF Install, Uninstall, SwitchOff, SwitchOn, WaitOver, Tell, procs, memory
  <1>2. book \in [Quills -> Books]
    BY Typed DEF Inv
  <1>3. \A r \in Quills : book'[r].known = book[r].known
    <2>1. CASE WaitOver(q)
      BY <2>1, <1>2 DEF WaitOver, Books
    <2>2. CASE ~WaitOver(q)
      BY <2>2 DEF Install, Uninstall, SwitchOff, SwitchOn, Tell, memory
    <2> QED BY <2>1, <2>2
  <1> QED BY <1>1, <1>3, Elsewhere

LEMMA HeldStep == Inv /\ NoRaise /\ [Next]_vars => Inv'
  <1> SUFFICES ASSUME Inv, NoRaise, [Next]_vars PROVE Inv'
    OBVIOUS
  <1>1. TypeOK'
    BY TypeStep DEF Inv
  <1>2. (InHand /\ Carries /\ HandsAt /\ Entries)'
    <2>1. CASE UNCHANGED vars
      BY <2>1, Elsewhere DEF vars, world, procs, memory
    <2>2. CASE \E p \in Processes : Exit(p) \/ Killed(p)
      BY <2>2, DeathHeld DEF Exit, Killed
    <2>3. CASE \E q \in Quills : Install(q) \/ Uninstall(q) \/ SwitchOff(q) \/ SwitchOn(q) \/ WaitOver(q)
      BY <2>3, RegistryHeld
    <2>4. CASE Tell
      BY <2>4, Elsewhere DEF Tell, procs, memory
    <2>5. CASE Look \/ Snapshot \/ Release \/ Ended \/ Raise
      BY <2>5, LookHeld
    <2>6. CASE Clear
      BY <2>6, ClearHeld
    <2>7. CASE \E q \in Quills : \/ Renew(q) \/ Issue(q) \/ Hold(q) \/ Leave(q)
                                 \/ Reap(q) \/ Launch(q) \/ Fail(q)
      BY <2>7, KeepUpHeld
    <2>8. CASE (\E q \in Quills : ClkLook(q)) \/ ClkCheck \/ ClkStart \/ ClkFail \/ ClkRegister
      BY <2>8, ClockHeld
    <2>9. CASE (\E q \in Quills : Rotate(q) \/ Restart(q) \/ Rotated(q)) \/ AdmEnded
      BY <2>9, AdminHeld
    <2>10. CASE Stop \/ Stopped \/ Crash
      BY <2>10, EndHeld
    <2> QED BY <2>1, <2>2, <2>3, <2>4, <2>5, <2>6, <2>7, <2>8, <2>9, <2>10 DEF Next, Supervise
  <1> QED BY <1>1, <1>2 DEF Inv

(* If no look ends in an exception with something to stop, then whatever   *)
(* is installed, removed, switched, rotated, restarted, killed or crashes  *)
(* meanwhile, no process is lost sight of, and a service that runs has the *)
(* token that works, but between a rotation and its restart.               *)
THEOREM KeepsHold == ASSUME NoRaise PROVE Spec => []Held
  <1>1. Init => Inv
    BY HeldInit
  <1>2. Inv /\ [Next]_vars => Inv'
    BY HeldStep
  <1>3. Inv => Held
    BY DEF Inv, Held
  <1> QED BY <1>1, <1>2, <1>3, PTL DEF Spec
----------------------------------------------------------------------------
(* Whatever is not wanted is with somebody who is ending it, or in a table *)
(* from which the next look that comes to its end takes it.                *)

(* No look loses what it was to end, a Quill is changed while no job of it *)
(* is on its way, and every version has code.                              *)
Undisturbing == NoRaise /\ Hazards \cap {"late", "off"} = {} /\ Bare = {}

(* Versions are counted by the acts; an entry is of one if it is known of; *)
(* only what the look saw installed has a turn.                            *)
Versions ==
    \A q \in Quills :
        /\ installed[q] <= acts /\ sup.snap[q] <= acts /\ book[q].gen <= acts
        /\ book[q].known <=> book[q].gen # 0
        /\ sup.pc = "keep" /\ q \in sup.todo => sup.snap[q] # 0

(* A service of another version than the one installed has an entry of     *)
(* another version.                                                        *)
ServicesDiffer ==
    \A q \in Quills : \A p \in serving[q] \cap alive : p \in current \/ book[q].gen # installed[q]

(* So has a job, and its Quill is on.                                      *)
JobsDiffer ==
    \A q \in Quills : \A p \in job[q] \cap alive :
        /\ p.quill = q /\ q \in on
        /\ p \in current \/ book[q].gen \notin {0, installed[q]}

(* A job on its way is of the version installed, which is on.              *)
Starting ==
    /\ clk.pc # "idle" => /\ clk.quill \in on /\ clk.gen = installed[clk.quill] /\ clk.gen # 0
    /\ \A p \in clk.p \cap alive : p.quill = clk.quill /\ p \in current

(* What is of the version installed is installed; what has a good token    *)
(* has a row; and the token of what a dead server left is to be replaced,  *)
(* or a look is due, or under way, that revokes it.                        *)
Pending(q) == installed[q] # 0 \/ changed \/ untold \/ Revoking(q)

Tokens ==
    /\ \A p \in current : installed[p.quill] # 0
    /\ \A p \in good : p.quill \in row
    /\ \A p \in old \cap good : p.quill \notin mem /\ Pending(p.quill)

Dated == Versions /\ ServicesDiffer /\ JobsDiffer /\ Starting /\ Tokens
CaughtInv == Inv /\ Dated

LEMMA CaughtInit == Init => CaughtInv
  <1> SUFFICES ASSUME Init PROVE CaughtInv
    OBVIOUS
  <1>1. /\ book = [q \in Quills |-> NoBook] /\ NoBook.known = FALSE /\ NoBook.gen = 0
        /\ sup.pc = "idle" /\ sup.snap = [q \in Quills |-> 0]
        /\ installed = [q \in Quills |-> 1] /\ acts = 1
    BY DEF Init, NoBook, SupIdle
  <1>2. Versions
    BY <1>1 DEF Versions
  <1>3. ServicesDiffer /\ JobsDiffer /\ Tokens
    BY DEF Init, ServicesDiffer, JobsDiffer, Tokens
  <1>4. Starting
    BY DEF Init, Starting, ClkIdle
  <1> QED BY <1>2, <1>3, <1>4, HeldInit DEF CaughtInv, Dated

(* With that, everything is caught.                                        *)
LEMMA CaughtThen == ASSUME Undisturbing, CaughtInv PROVE Caught
  <1> SUFFICES ASSUME NEW p \in alive, ~Wanted(p), p \notin sup.doomed \cup adm.doomed PROVE LookEnds(p)
    BY DEF Caught
  <1>1. p.quill \in Quills /\ Bare = {}
    BY Typed DEF CaughtInv, Dated, Inv, Processes, Undisturbing
  <1>2. CASE p \in old
    <2>1. p \in good
      BY <1>2 DEF Wanted
    <2>2. p.quill \notin mem /\ Pending(p.quill)
      BY <1>2, <2>1 DEF CaughtInv, Dated, Tokens
    <2> QED BY <1>1, <1>2, <2>2 DEF LookEnds, Pending, HasCode
  <1>3. CASE p \notin old
    <2>1. p \in clk.p \/ \E q \in Quills : p \in serving[q] \cup job[q]
      BY <1>3, HandsAre DEF CaughtInv, Dated, Inv, InHand
    <2>2. p \notin clk.p
      <3> SUFFICES ASSUME p \in clk.p PROVE FALSE
        OBVIOUS
      <3>1. clk.pc = "register"
        BY DEF CaughtInv, Dated, Inv, HandsAt
      <3> QED BY <1>3, <3>1 DEF CaughtInv, Dated, Starting, Wanted
    <2>3. ASSUME NEW q \in Quills, p \in serving[q] PROVE LookEnds(p)
      <3>1. p.quill = q /\ book[q].known /\ book[q].gen # 0
        BY <2>3 DEF CaughtInv, Dated, Inv, Entries, OfQuill, Versions
      <3>2. p \in current \/ book[q].gen # installed[q]
        BY <2>3 DEF CaughtInv, Dated, ServicesDiffer
      <3>3. installed[q] = 0 \/ p \notin current \/ q \notin on
        BY <1>3, <3>1 DEF Wanted
      <3> QED BY <1>1, <1>3, <2>3, <3>1, <3>2, <3>3 DEF LookEnds
    <2>4. ASSUME NEW q \in Quills, p \in job[q] PROVE LookEnds(p)
      <3>1. p.quill = q /\ q \in on /\ (p \in current \/ book[q].gen \notin {0, installed[q]})
        BY <2>4 DEF CaughtInv, Dated, JobsDiffer
      <3>2. p \notin current
        BY <1>3, <3>1 DEF CaughtInv, Dated, Tokens, Wanted
      <3>3. book[q].known
        BY <3>1, <3>2 DEF CaughtInv, Dated, Versions
      <3> QED BY <1>1, <1>3, <2>4, <3>1, <3>2, <3>3 DEF LookEnds
    <2> QED BY <2>1, <2>2, <2>3, <2>4
  <1> QED BY <1>2, <1>3

(* What keeps each part.                                                   *)
LEMMA TablesKept ==
    ASSUME ServicesDiffer, JobsDiffer, alive' \subseteq alive, current \cap alive' \subseteq current',
           installed' = installed, on \subseteq on',
           \A q \in Quills : /\ serving'[q] \subseteq serving[q] /\ job'[q] \subseteq job[q]
                             /\ \/ book'[q].gen = book[q].gen
                                \/ book[q].gen = 0 /\ serving'[q] = {}
                                \/ serving'[q] \cup job'[q] = {}
    PROVE  ServicesDiffer' /\ JobsDiffer'
  BY DEF ServicesDiffer, JobsDiffer

LEMMA StartingKept ==
    ASSUME Inv, Starting, clk' = clk \/ clk' = ClkIdle, alive' \subseteq alive,
           current \cap alive' \subseteq current', on \subseteq on', installed' = installed
    PROVE  Starting'
  BY DEF Starting, ClkIdle

LEMMA TokensKept ==
    ASSUME Tokens, good' \subseteq good, old' \subseteq old, current' \subseteq current,
           installed' = installed,
           \A p \in good' : p.quill \in row => p.quill \in row',
           \A p \in old' \cap good' : (p.quill \notin mem => p.quill \notin mem')
                                      /\ (Pending(p.quill) => Pending(p.quill)')
    PROVE  Tokens'
  BY DEF Tokens

LEMMA VersionsKept ==
    ASSUME TypeOK, TypeOK', Versions, acts <= acts', installed' = installed,
           sup'.snap = sup.snap \/ sup' = SupIdle,
           sup'.pc = "keep" => sup.pc = "keep" /\ sup'.todo \subseteq sup.todo,
           \A q \in Quills : \/ book'[q] = NoBook
                             \/ book'[q].gen = book[q].gen /\ book'[q].known = book[q].known
                             \/ book'[q].known /\ book'[q].gen = sup.snap[q] /\ sup.snap[q] # 0
    PROVE  Versions'
  <1>1. SupIdle.snap = [q \in Quills |-> 0] /\ NoBook.gen = 0 /\ NoBook.known = FALSE
    BY DEF SupIdle, NoBook
  <1>2. acts \in Nat /\ acts' \in Nat
    BY DEF TypeOK
  <1>3. \A q \in Quills : /\ installed[q] \in Nat /\ sup.snap[q] \in Nat /\ book[q].gen \in Nat
                          /\ sup'.snap[q] \in Nat /\ book'[q].gen \in Nat
    BY DEF TypeOK
  <1> SUFFICES ASSUME NEW q \in Quills
               PROVE  /\ installed[q] <= acts' /\ sup'.snap[q] <= acts' /\ book'[q].gen <= acts'
                      /\ book'[q].known <=> book'[q].gen # 0
                      /\ sup'.pc = "keep" /\ q \in sup'.todo => sup'.snap[q] # 0
    BY DEF Versions
  <1>4. /\ installed[q] <= acts /\ sup.snap[q] <= acts /\ book[q].gen <= acts
        /\ book[q].known <=> book[q].gen # 0
        /\ sup.pc = "keep" /\ q \in sup.todo => sup.snap[q] # 0
    BY DEF Versions
  <1>5. sup'.snap[q] \in {sup.snap[q], 0} /\ book'[q].gen \in {0, book[q].gen, sup.snap[q]}
    BY <1>1
  <1>6. installed[q] <= acts' /\ sup'.snap[q] <= acts' /\ book'[q].gen <= acts'
    BY <1>2, <1>3, <1>4, <1>5
  <1>7. book'[q].known <=> book'[q].gen # 0
    BY <1>1, <1>4
  <1>8. sup'.pc = "keep" /\ q \in sup'.todo => sup'.snap[q] # 0
    BY <1>4 DEF SupIdle
  <1> QED BY <1>6, <1>7, <1>8

LEMMA IssuedTokens ==
    ASSUME Inv, Dated, NEW q \in Quills, Issued(q),
           UNCHANGED <<installed, untold, changed, current, old, sup>>
    PROVE  Tokens'
  <1>1. /\ row' = row \cup {q} /\ mem' = mem \cup {q} /\ good' = good \ OfQuill(q)
        /\ good \subseteq Processes
    BY Typed DEF Issued, Inv
  <1>2. \A p \in good' : p \in good /\ p.quill # q
    BY <1>1 DEF OfQuill
  <1> QED BY <1>1, <1>2, TokensKept DEF Dated, Pending, Revoking

LEMMA BegunTokens ==
    ASSUME Inv, Dated, NEW p \in Processes, p \notin alive, NEW v, v # 0, Begins(p, v),
           UNCHANGED <<installed, untold, changed, row, mem>>,
           sup' = sup \/ sup.pc = "keep"
    PROVE  Tokens'
  <1>1. mem \subseteq row /\ old \subseteq alive
    BY Typed DEF Inv
  <1>2. \A r \in current' : r \in current \/ (r = p /\ v = installed[p.quill])
    BY DEF Begins
  <1>3. \A r \in good' : r \in good \/ (r = p /\ p.quill \in mem)
    BY DEF Begins
  <1>4. old' = old
    BY DEF Begins
  <1>5. \A r : Pending(r) => Pending(r)'
    BY DEF Pending, Revoking
  <1> QED BY <1>1, <1>2, <1>3, <1>4, <1>5 DEF Dated, Tokens

LEMMA DeathCaught ==
    ASSUME Inv, Dated, TypeOK', NEW p, Dies(p)
    PROVE  Dated'
  <1>1. /\ alive' = alive \ {p} /\ good' = good \ {p} /\ current' = current \ {p} /\ old' = old \ {p}
        /\ UNCHANGED <<installed, on, untold, changed, row, mem, serving, job, book, sup, clk, acts>>
    BY DEF Dies, world, memory
  <1>2. ServicesDiffer' /\ JobsDiffer'
    BY <1>1, TablesKept DEF Dated
  <1>3. Starting'
    BY <1>1, StartingKept DEF Dated
  <1>4. Tokens'
    BY <1>1, TokensKept DEF Dated, Pending, Revoking
  <1>5. Versions'
    BY <1>1 DEF Dated, Versions
  <1> QED BY <1>2, <1>3, <1>4, <1>5 DEF Dated

(* The installed version changes: what runs of the Quill is of another one. *)
LEMMA InstallCaught ==
    ASSUME Inv, Dated, Undisturbing, TypeOK', NEW q \in Quills, Install(q) \/ Uninstall(q)
    PROVE  Dated'
  <1>1. /\ acts' = acts + 1 /\ current' = current \ OfQuill(q) /\ untold' = TRUE
        /\ UNCHANGED <<on, alive, good, old, row, mem, serving, job, book, sup, clk>>
    BY DEF Install, Uninstall, Act, memory
  <1>2. clk.quill # q /\ (book[q].known \/ job[q] \cap alive = {})
    BY DEF Install, Uninstall, Undisturbed, Undisturbing
  <1>3. acts \in Nat /\ \A r \in Quills : book[r].gen \in Nat /\ installed[r] \in Nat /\ sup.snap[r] \in Nat
    BY DEF Inv, TypeOK
  <1>4. /\ installed'[q] \in {0, acts'}
        /\ \A r \in Quills : r # q => installed'[r] = installed[r]
    BY Typed DEF Install, Uninstall, Inv
  <1>5. \A r \in Quills : installed[r] <= acts /\ sup.snap[r] <= acts /\ book[r].gen <= acts
    BY DEF Dated, Versions
  <1>6. installed'[q] <= acts' /\ book[q].gen # acts'
    BY <1>1, <1>3, <1>4, <1>5
  <1>7. Versions'
    <2>1. \A r \in Quills : installed'[r] <= acts' /\ sup.snap[r] <= acts' /\ book[r].gen <= acts'
      BY <1>1, <1>3, <1>4, <1>5, <1>6
    <2> QED BY <2>1, <1>1 DEF Dated, Versions
  <1>8. current \subseteq Processes /\ \A r : r \in current => (r \in current' <=> r.quill # q)
    BY <1>1, Typed DEF OfQuill, Inv
  <1>9. ServicesDiffer'
    <2> SUFFICES ASSUME NEW r \in Quills, NEW p \in serving[r] \cap alive
                 PROVE  p \in current' \/ book[r].gen # installed'[r]
      BY <1>1 DEF ServicesDiffer
    <2>1. p.quill = r /\ book[r].gen # 0
      BY DEF Inv, Entries, OfQuill, Dated, Versions
    <2>2. p \in current \/ book[r].gen # installed[r]
      BY DEF Dated, ServicesDiffer
    <2> QED BY <2>1, <2>2, <1>4, <1>6, <1>8
  <1>10. JobsDiffer'
    <2> SUFFICES ASSUME NEW r \in Quills, NEW p \in job[r] \cap alive
                 PROVE  p.quill = r /\ r \in on /\ (p \in current' \/ book[r].gen \notin {0, installed'[r]})
      BY <1>1 DEF JobsDiffer
    <2>1. p.quill = r /\ r \in on /\ (p \in current \/ book[r].gen \notin {0, installed[r]})
      BY DEF Dated, JobsDiffer
    <2>2. r = q => book[r].gen # 0
      BY <1>2 DEF Dated, Versions
    <2> QED BY <2>1, <2>2, <1>4, <1>6, <1>8
  <1>11. Starting'
    <2>1. clk.pc # "idle" => clk.quill \in Quills
      BY DEF Inv, HandsAt
    <2>2. \A p \in clk.p \cap alive : p.quill = clk.quill /\ p \in current
      BY DEF Dated, Starting
    <2> QED BY <2>1, <2>2, <1>1, <1>2, <1>4, <1>8 DEF Dated, Starting
  <1>12. Tokens'
    <2>1. alive \subseteq Processes /\ current \subseteq alive
      BY Typed DEF Inv
    <2>2. \A p \in current' : p \in current /\ p.quill # q /\ p.quill \in Quills
      BY <2>1, <1>1, <1>8 DEF Processes
    <2> QED BY <2>2, <1>1, <1>4 DEF Dated, Tokens, Pending
  <1> QED BY <1>7, <1>9, <1>10, <1>11, <1>12 DEF Dated

LEMMA SwitchCaught ==
    ASSUME Inv, Dated, Undisturbing, TypeOK', NEW q \in Quills,
           SwitchOff(q) \/ SwitchOn(q) \/ WaitOver(q)
    PROVE  Dated'
  <1>1. /\ UNCHANGED <<installed, alive, good, current, old, row, mem, serving, job, sup, clk>>
        /\ acts' \in {acts, acts + 1}
    BY DEF SwitchOff, SwitchOn, WaitOver, Act, world, procs, memory
  <1>2. \A r \in Quills : book'[r].known = book[r].known /\ book'[r].gen = book[r].gen
    <2>1. CASE WaitOver(q)
      BY <2>1, Typed DEF WaitOver, Books, Inv
    <2> QED BY <2>1 DEF SwitchOff, SwitchOn, memory
  <1>3. on \subseteq on' \/ (on' = on \ {q} /\ clk.quill # q /\ job[q] \cap alive = {})
    BY DEF SwitchOff, SwitchOn, WaitOver, JobAtRest, Undisturbing, world
  <1>4. \A r : Pending(r) => Pending(r)'
    BY <1>1 DEF SwitchOff, SwitchOn, WaitOver, Pending, Revoking, world
  <1>5. Versions'
    <2>1. acts \in Nat /\ acts <= acts'
      BY <1>1 DEF Inv, TypeOK
    <2> QED BY <2>1, <1>1, <1>2, VersionsKept DEF Dated, Inv
  <1>6. ServicesDiffer' /\ JobsDiffer'
    BY <1>1, <1>2, <1>3 DEF Dated, ServicesDiffer, JobsDiffer
  <1>7. Starting'
    BY <1>1, <1>3 DEF Dated, Starting
  <1>8. Tokens'
    BY <1>1, <1>4, TokensKept DEF Dated
  <1> QED BY <1>5, <1>6, <1>7, <1>8 DEF Dated

LEMMA LookCaught ==
    ASSUME Inv, Dated, TypeOK', Look \/ Snapshot \/ Release \/ Ended \/ Raise
    PROVE  Dated'
  <1>1. /\ UNCHANGED <<installed, on, untold, alive, good, current, old, row, mem,
                       serving, job, book, clk>>
        /\ acts' \in {acts, acts + 1}
    BY DEF Look, Snapshot, Release, Ended, Raise, Act, world, procs, memory
  <1>2. ServicesDiffer' /\ JobsDiffer' /\ Starting'
    BY <1>1 DEF Dated, ServicesDiffer, JobsDiffer, Starting
  <1>3. sup \in Sups /\ acts \in Nat /\ acts <= acts'
    BY <1>1, Typed DEF Inv
  <1>4. CASE Snapshot
    <2>1. /\ sup'.pc = "seen" /\ sup'.saw = sup.saw /\ sup.pc = "look"
          /\ sup'.todo = {q \in Quills : installed[q] # 0}
          /\ sup'.snap = [q \in Quills |-> IF HasCode(q) THEN installed[q] ELSE 0]
          /\ changed' = changed
      BY <1>3, <1>4 DEF Snapshot, Sups
    <2>2. \A q \in Quills : sup'.snap[q] \in {0, installed[q]} /\ installed[q] \in Nat
                            /\ book[q].gen \in Nat
      BY <2>1 DEF Inv, TypeOK
    <2>3. Versions'
      BY <2>1, <2>2, <1>1, <1>3 DEF Dated, Versions
    <2>4. \A q \in Quills : Pending(q) => Pending(q)'
      BY <2>1, <1>1 DEF Pending, Revoking
    <2>5. \A p \in old : p.quill \in Quills
      BY Typed DEF Inv, Processes
    <2> QED BY <2>3, <2>4, <2>5, <1>1, <1>2, TokensKept DEF Dated
  <1>5. CASE Look \/ Release \/ Ended \/ Raise
    <2>1. /\ sup'.snap = sup.snap \/ sup' = SupIdle
          /\ sup'.pc # "keep"
      <3>1. CASE Look \/ Release
        BY <1>3, <3>1 DEF Look, Release, Sups
      <3>2. CASE Ended \/ Raise
        BY <3>2 DEF Ended, Raise, Raised, SupIdle
      <3> QED BY <1>5, <3>1, <3>2
    <2>2. \A q \in Quills : Pending(q) => Pending(q)'
      <3>1. CASE Look
        <4>1. sup'.pc = "look" /\ sup'.saw = changed /\ sup.pc = "idle"
          BY <1>3, <3>1 DEF Look, Sups
        <4> QED BY <4>1, <1>1 DEF Pending, Revoking
      <3>2. CASE Release \/ Ended \/ Raise
        <4>1. sup.pc \in {"keep", "end"} /\ changed' = changed
          BY <3>2 DEF Release, Ended, Raise
        <4> QED BY <4>1, <1>1 DEF Pending, Revoking
      <3> QED BY <1>5, <3>1, <3>2
    <2>3. \A p \in old : p.quill \in Quills
      BY Typed DEF Inv, Processes
    <2>4. Versions'
      BY <2>1, <1>1, <1>3, VersionsKept DEF Dated, Inv
    <2> QED BY <2>2, <2>3, <2>4, <1>1, <1>2, TokensKept DEF Dated
  <1> QED BY <1>4, <1>5

LEMMA ClearCaught ==
    ASSUME Inv, Dated, TypeOK', Clear
    PROVE  Dated'
  <1> DEFINE gone == {q \in Quills : book[q].known} \ sup.todo
             revoked == gone \cup (IF sup.saw THEN row \ sup.todo ELSE {})
  <1>1. /\ mem' = mem \ revoked /\ row' = row \ revoked
        /\ good' = {p \in good : p.quill \notin revoked}
        /\ serving' = [q \in Quills |-> IF q \in gone THEN {} ELSE serving[q]]
        /\ job' = [q \in Quills |-> IF q \in gone THEN {} ELSE job[q]]
        /\ book' = [q \in Quills |-> IF q \in gone THEN NoBook ELSE book[q]]
        /\ UNCHANGED <<installed, on, untold, changed, alive, current, old, clk, acts>>
    BY DEF Clear, world
  <1>2. /\ sup.pc = "seen" /\ sup'.pc = "keep" /\ sup'.snap = sup.snap
        /\ sup'.todo = {q \in sup.todo : sup.snap[q] # 0}
    BY Typed DEF Clear, Inv, Sups
  <1>3. \A q : sup.saw /\ q \in row /\ q \notin sup.todo => q \in revoked
    OBVIOUS
  <1> HIDE DEF gone, revoked
  <1>4. ServicesDiffer' /\ JobsDiffer'
    <2>1. \A q \in Quills : /\ serving'[q] \subseteq serving[q] /\ job'[q] \subseteq job[q]
                            /\ book'[q].gen = book[q].gen \/ serving'[q] \cup job'[q] = {}
      BY <1>1
    <2> QED BY <2>1, <1>1, TablesKept DEF Dated
  <1>5. Starting'
    BY <1>1, StartingKept DEF Dated
  <1>6. Tokens'
    <2>1. \A p \in old' \cap good' : p.quill \notin revoked /\ p.quill \in row
      BY <1>1 DEF Dated, Tokens
    <2>2. \A p \in old' \cap good' : Pending(p.quill) => Pending(p.quill)'
      BY <2>1, <1>1, <1>2, <1>3 DEF Pending, Revoking
    <2> QED BY <2>2, <1>1, TokensKept DEF Dated
  <1>7. Versions'
    <2>1. NoBook.gen = 0 /\ NoBook.known = FALSE
      BY DEF NoBook
    <2>2. acts \in Nat
      BY DEF Inv, TypeOK
    <2> QED BY <2>1, <2>2, <1>1, <1>2 DEF Dated, Versions
  <1> QED BY <1>4, <1>5, <1>6, <1>7 DEF Dated

(* A turn that starts nothing: the Quill's entry is empty, or of the       *)
(* version in the look's snapshot.                                         *)
LEMMA TurnCaught ==
    ASSUME Inv, Dated, TypeOK', NEW q \in Quills, sup.pc = "keep",
           UNCHANGED <<installed, on, untold, changed, alive, good, current, old, row, mem, clk>>,
           acts <= acts', sup'.snap = sup.snap \/ sup' = SupIdle, sup'.todo \subseteq sup.todo,
           NEW s \in SUBSET serving[q], NEW b \in Books, Put(q, s, b),
           \/ b = NoBook /\ s = {} /\ job' = [job EXCEPT ![q] = {}]
           \/ /\ b.known /\ b.gen = sup.snap[q] /\ sup.snap[q] # 0
              /\ ~Renewed(q) /\ job' = job
           \/ b.known = book[q].known /\ b.gen = book[q].gen /\ job' = job
    PROVE  Dated'
  <1>1. /\ serving \in [Quills -> SUBSET Processes] /\ job \in [Quills -> SUBSET Processes]
        /\ book \in [Quills -> Books]
    BY Typed DEF Inv
  <1>2. /\ \A r \in Quills : serving'[r] = IF r = q THEN s ELSE serving[r]
        /\ \A r \in Quills : book'[r] = IF r = q THEN b ELSE book[r]
    BY <1>1 DEF Put
  <1>3. book[q].gen = 0 => serving[q] = {}
    BY DEF Inv, Entries, Dated, Versions
  <1>4. ServicesDiffer' /\ JobsDiffer'
    <2>1. \A r \in Quills : /\ serving'[r] \subseteq serving[r] /\ job'[r] \subseteq job[r]
                            /\ \/ book'[r].gen = book[r].gen
                               \/ book[r].gen = 0 /\ serving'[r] = {}
                               \/ serving'[r] \cup job'[r] = {}
      BY <1>1, <1>2, <1>3 DEF Renewed
    <2> QED BY <2>1, TablesKept DEF Dated
  <1>5. Starting'
    BY StartingKept DEF Dated
  <1>6. Tokens'
    BY TokensKept DEF Dated, Pending, Revoking
  <1>7. Versions'
    BY <1>2, VersionsKept DEF Dated, Inv
  <1> QED BY <1>4, <1>5, <1>6, <1>7 DEF Dated

(* What a turn keeps of its Quill is of the version in the snapshot.       *)
LEMMA ExitedDates ==
    ASSUME TypeOK, NEW q \in Quills, Exited(q)
    PROVE  \E b \in Books : b.known /\ b.gen = sup.snap[q] /\ Put(q, {}, b)
  <1> DEFINE e == Entry(q)
  <1>1. e \in Books /\ e.known /\ e.gen = sup.snap[q]
    BY EntryTyped, Typed DEF Entry, Books
  <1>2. ASSUME Put(q, {}, [e EXCEPT !.done = TRUE])
        PROVE  \E b \in Books : b.known /\ b.gen = sup.snap[q] /\ Put(q, {}, b)
    <2> DEFINE b == [e EXCEPT !.done = TRUE]
    <2>1. b \in Books /\ b.known /\ b.gen = sup.snap[q]
      BY <1>1 DEF Books
    <2> QED BY <1>2, <2>1
  <1>3. ASSUME NEW f \in {0, book[q].failures},
               Put(q, {}, [e EXCEPT !.waiting = TRUE,
                                    !.failures = IF f < Widest THEN f + 1 ELSE Widest])
        PROVE  \E b \in Books : b.known /\ b.gen = sup.snap[q] /\ Put(q, {}, b)
    <2> DEFINE n == IF f < Widest THEN f + 1 ELSE Widest
               b == [e EXCEPT !.waiting = TRUE, !.failures = n]
    <2>1. n \in Nat
      BY ConstantsFit DEF TypeOK, Books
    <2> HIDE DEF n
    <2>2. b \in Books /\ b.known /\ b.gen = sup.snap[q]
      BY <1>1, <2>1 DEF Books
    <2> QED BY <1>3, <2>2 DEF n
  <1> QED BY <1>1, <1>2, <1>3 DEF Exited

LEMMA KeepUpCaught ==
    ASSUME Inv, Dated, NoRaise, TypeOK', NEW q \in Quills,
           Renew(q) \/ Issue(q) \/ Hold(q) \/ Leave(q) \/ Reap(q) \/ Launch(q) \/ Fail(q)
    PROVE  Dated'
  <1> USE DEF world, procs
  <1>1. /\ sup.pc = "keep" /\ q \in sup.todo /\ sup \in Sups /\ sup.snap[q] # 0 /\ acts \in Nat
    <2>1. Turn(q)
      BY DEF Renew, Issue, Hold, Leave, Reap, Launch, Fail, Ready, Kept, Startable
    <2> QED BY <2>1, Typed DEF Inv, Turn, Dated, Versions
  <1>2. ASSUME NEW D, Over(q, D)
        PROVE  sup'.snap = sup.snap /\ sup'.todo \subseteq sup.todo
    BY <1>1, <1>2 DEF Over, Sups
  <1>3. Entry(q) \in Books /\ Entry(q).known /\ Entry(q).gen = sup.snap[q]
    BY EntryTyped, Typed DEF Entry, Inv, Books
  <1>4. CASE Renew(q)
    <2>1. sup'.snap = sup.snap /\ sup'.todo = sup.todo
      BY <1>1, <1>4 DEF Renew, Sups
    <2>2. /\ Put(q, {}, NoBook) /\ job' = [job EXCEPT ![q] = {}]
          /\ UNCHANGED <<installed, on, untold, changed, alive, good, current, old, row, mem, clk, acts>>
      BY <1>4 DEF Renew
    <2>3. acts <= acts'
      BY <1>1, <2>2
    <2> QED BY <1>1, <2>1, <2>2, <2>3, Blank, TurnCaught
  <1>5. CASE Issue(q)
    <2>1. /\ Issued(q)
          /\ UNCHANGED <<installed, on, untold, changed, alive, current, old, serving, job, book,
                         sup, clk, acts>>
      BY <1>5 DEF Issue
    <2>2. Tokens'
      BY <2>1, IssuedTokens
    <2> QED BY <2>1, <2>2 DEF Dated, Versions, ServicesDiffer, JobsDiffer, Starting
  <1>6. CASE Hold(q)
    <2> DEFINE b == [Entry(q) EXCEPT !.done = FALSE]
    <2>1. /\ Put(q, {}, b) /\ Over(q, serving[q]) /\ ~Renewed(q) /\ job' = job
          /\ UNCHANGED <<installed, on, untold, changed, alive, good, current, old, row, mem, clk, acts>>
      BY <1>6 DEF Hold, Ready
    <2>2. b \in Books /\ b.known /\ b.gen = sup.snap[q]
      BY <1>3 DEF Books
    <2> HIDE DEF b
    <2>3. sup'.snap = sup.snap /\ sup'.todo \subseteq sup.todo /\ acts <= acts'
      BY <1>1, <1>2, <2>1
    <2> QED BY <1>1, <2>1, <2>2, <2>3, TurnCaught
  <1>7. CASE Leave(q)
    <2>1. /\ Put(q, serving[q], Entry(q)) /\ Over(q, {}) /\ ~Renewed(q) /\ job' = job
          /\ UNCHANGED <<installed, on, untold, changed, alive, good, current, old, row, mem, clk, acts>>
      BY <1>7 DEF Leave, Kept, Ready
    <2> HIDE DEF Entry
    <2>2. sup'.snap = sup.snap /\ sup'.todo \subseteq sup.todo /\ acts <= acts'
      BY <1>1, <1>2, <2>1
    <2> QED BY <1>1, <1>3, <2>1, <2>2, TurnCaught
  <1>8. CASE Reap(q) \/ Fail(q)
    <2>1. /\ Exited(q) /\ ~Renewed(q) /\ job' = job /\ acts' \in {acts, acts + 1}
          /\ UNCHANGED <<installed, on, untold, changed, alive, good, current, old, row, mem, clk>>
      BY <1>8 DEF Reap, Fail, Startable, Kept, Ready, Act
    <2>2. PICK b \in Books : b.known /\ b.gen = sup.snap[q] /\ Put(q, {}, b)
      BY <2>1, ExitedDates DEF Inv
    <2>3. Over(q, {})
      BY <2>1, ExitedPuts DEF Inv, NoRaise
    <2>4. sup'.snap = sup.snap /\ sup'.todo \subseteq sup.todo /\ acts <= acts'
      BY <1>1, <1>2, <2>1, <2>3
    <2> QED BY <1>1, <2>1, <2>2, <2>4, TurnCaught
  <1>9. CASE Launch(q)
    <2> DEFINE p == Spawned(q, "service")
    <2>1. p \in Processes /\ p \notin alive \cup Hands /\ p.quill = q
      BY <1>9, SpawnedFresh DEF Launch
    <2>2. /\ Begins(p, sup.snap[q]) /\ Put(q, {p}, Entry(q)) /\ Over(q, {}) /\ ~Renewed(q)
          /\ UNCHANGED <<installed, on, untold, changed, row, mem, job, clk, acts>>
      BY <1>9 DEF Launch, Startable, Kept, Ready
    <2> HIDE DEF p, Entry
    <2>3. /\ alive' = alive \cup {p} /\ current \subseteq current'
          /\ p \in current' \/ sup.snap[q] # installed[q]
      BY <2>1, <2>2 DEF Begins
    <2>4. /\ \A r \in Quills : serving'[r] = IF r = q THEN {p} ELSE serving[r]
          /\ \A r \in Quills : book'[r] = IF r = q THEN Entry(q) ELSE book[r]
      BY <2>2, Typed DEF Put, Inv
    <2>5. p \notin clk.p /\ \A r \in Quills : p \notin serving[r] \cup job[r]
      BY <2>1, HandsAre
    <2>6. Versions'
      <3>1. sup'.snap = sup.snap /\ sup'.todo \subseteq sup.todo
        BY <1>2, <2>2
      <3> QED BY <1>1, <1>3, <2>2, <2>4, <3>1, VersionsKept DEF Dated, Inv
    <2>7. ServicesDiffer'
      <3> SUFFICES ASSUME NEW r \in Quills, NEW x \in serving'[r] \cap alive'
                   PROVE  x \in current' \/ book'[r].gen # installed[r]
        BY <2>2 DEF ServicesDiffer
      <3>1. CASE r = q
        BY <3>1, <1>3, <2>3, <2>4
      <3>2. CASE r # q
        BY <3>2, <2>3, <2>4, <2>5 DEF Dated, ServicesDiffer
      <3> QED BY <3>1, <3>2
    <2>8. JobsDiffer'
      <3> SUFFICES ASSUME NEW r \in Quills, NEW x \in job[r] \cap alive
                   PROVE  x.quill = r /\ r \in on
                          /\ (x \in current' \/ book'[r].gen \notin {0, installed[r]})
        BY <2>2, <2>3, <2>5 DEF JobsDiffer
      <3>1. x.quill = r /\ r \in on /\ (x \in current \/ book[r].gen \notin {0, installed[r]})
        BY DEF Dated, JobsDiffer
      <3> QED BY <3>1, <1>1, <1>3, <2>2, <2>3, <2>4 DEF Renewed
    <2>9. Starting'
      BY <2>2, <2>3, <2>5 DEF Dated, Starting
    <2>10. Tokens'
      BY <1>1, <2>1, <2>2, BegunTokens
    <2> QED BY <2>6, <2>7, <2>8, <2>9, <2>10 DEF Dated
  <1> QED BY <1>4, <1>5, <1>6, <1>7, <1>8, <1>9

LEMMA ClockCaught ==
    ASSUME Inv, Dated, TypeOK',
           (\E q \in Quills : ClkLook(q)) \/ ClkCheck \/ ClkStart \/ ClkFail \/ ClkRegister
    PROVE  Dated'
  <1> USE DEF world, procs, memory
  <1>1. clk \in Clks /\ UNCHANGED <<installed, on, untold, changed, old, serving, book, sup, acts>>
    BY Typed DEF Inv, ClkLook, ClkCheck, ClkStart, ClkFail, ClkRegister, Begins
  <1>2. Versions'
    BY <1>1 DEF Dated, Versions
  <1>3. CASE \E q \in Quills : ClkLook(q)
    <2>1. PICK q \in Quills : ClkLook(q)
      BY <1>3
    <2>2. /\ clk'.pc = "check" /\ clk'.quill = q /\ clk'.gen = installed[q] /\ clk'.p = clk.p
          /\ q \in on /\ installed[q] # 0 /\ clk.pc = "idle"
          /\ UNCHANGED <<alive, current, job>>
      BY <2>1, <1>1 DEF ClkLook, Clks, HasCode
    <2>3. clk.p = {}
      BY <2>2 DEF Inv, HandsAt
    <2>4. Starting' /\ ServicesDiffer' /\ JobsDiffer'
      BY <1>1, <2>2, <2>3 DEF Dated, Starting, ServicesDiffer, JobsDiffer
    <2>5. Tokens'
      <3>1. CASE q \in mem
        <4>1. UNCHANGED <<row, mem, good>>
          BY <2>1, <3>1 DEF ClkLook
        <4> QED BY <1>1, <2>2, <4>1 DEF Dated, Tokens, Pending, Revoking
      <3>2. CASE q \notin mem
        BY <1>1, <2>1, <2>2, <3>2, IssuedTokens DEF ClkLook
      <3> QED BY <3>1, <3>2
    <2> QED BY <1>2, <2>4, <2>5 DEF Dated
  <1>4. CASE ClkCheck \/ ClkFail
    <2>1. /\ UNCHANGED <<alive, good, current, row, mem, job>>
          /\ clk' = ClkIdle \/ (clk.pc = "check" /\ clk' = [clk EXCEPT !.pc = "start"])
      BY <1>4 DEF ClkCheck, ClkFail
    <2>2. Starting'
      <3>1. CASE clk' = ClkIdle
        BY <1>1, <2>1, <3>1, StartingKept DEF Dated
      <3>2. CASE clk.pc = "check" /\ clk' = [clk EXCEPT !.pc = "start"]
        <4>1. clk'.quill = clk.quill /\ clk'.gen = clk.gen /\ clk'.p = clk.p
          BY <1>1, <3>2 DEF Clks
        <4> QED BY <1>1, <2>1, <3>2, <4>1 DEF Dated, Starting
      <3> QED BY <2>1, <3>1, <3>2
    <2>3. ServicesDiffer' /\ JobsDiffer' /\ Tokens'
      BY <1>1, <2>1 DEF Dated, ServicesDiffer, JobsDiffer, Tokens, Pending, Revoking
    <2> QED BY <1>2, <2>2, <2>3 DEF Dated
  <1>5. CASE ClkStart
    <2> DEFINE p == Spawned(clk.quill, "job")
    <2>1. p \in Processes /\ p \notin alive \cup Hands /\ p.quill = clk.quill
      BY <1>5, SpawnedFresh DEF ClkStart
    <2>2. /\ Begins(p, clk.gen) /\ clk' = [clk EXCEPT !.pc = "register", !.p = {p}]
          /\ clk.pc = "start" /\ UNCHANGED <<row, mem, job>>
      BY <1>5 DEF ClkStart
    <2> HIDE DEF p
    <2>3. clk.quill \in on /\ clk.gen = installed[clk.quill] /\ clk.gen # 0
      BY <2>2 DEF Dated, Starting
    <2>4. alive' = alive \cup {p} /\ current' = current \cup {p}
      BY <2>1, <2>2, <2>3 DEF Begins
    <2>5. clk'.quill = clk.quill /\ clk'.gen = clk.gen /\ clk'.p = {p}
      BY <1>1, <2>2 DEF Clks
    <2>6. \A r \in Quills : p \notin serving[r] \cup job[r]
      BY <2>1, HandsAre
    <2>7. ServicesDiffer' /\ JobsDiffer'
      BY <1>1, <2>2, <2>4, <2>6 DEF Dated, ServicesDiffer, JobsDiffer
    <2>8. Starting'
      BY <1>1, <2>1, <2>3, <2>4, <2>5 DEF Starting
    <2>9. Tokens'
      BY <1>1, <2>1, <2>2, <2>3, BegunTokens
    <2> QED BY <1>2, <2>7, <2>8, <2>9 DEF Dated
  <1>6. CASE ClkRegister
    <2>1. /\ job' = [job EXCEPT ![clk.quill] = clk.p] /\ clk' = ClkIdle /\ clk.pc = "register"
          /\ UNCHANGED <<alive, good, current, row, mem>>
      BY <1>6 DEF ClkRegister
    <2>2. ServicesDiffer' /\ Tokens' /\ Starting'
      <3>1. ServicesDiffer' /\ Tokens'
        BY <1>1, <2>1 DEF Dated, ServicesDiffer, Tokens, Pending, Revoking
      <3> QED BY <1>1, <2>1, <3>1, StartingKept DEF Dated
    <2>3. JobsDiffer'
      <3>1. \A r \in Quills : job'[r] = job[r] \/ (r = clk.quill /\ job'[r] = clk.p)
        BY <2>1, Typed DEF Inv
      <3>2. clk.quill \in on /\ \A p \in clk.p \cap alive : p.quill = clk.quill /\ p \in current
        BY <2>1 DEF Dated, Starting
      <3> QED BY <1>1, <2>1, <3>1, <3>2 DEF Dated, JobsDiffer
    <2> QED BY <1>2, <2>2, <2>3 DEF Dated
  <1> QED BY <1>3, <1>4, <1>5, <1>6

LEMMA AdminCaught ==
    ASSUME Inv, Dated, TypeOK', (\E q \in Quills : Rotate(q) \/ Restart(q) \/ Rotated(q)) \/ AdmEnded
    PROVE  Dated'
  <1> USE DEF world, procs
  <1>1. /\ UNCHANGED <<installed, on, untold, changed, alive, current, old, job, sup, clk>>
        /\ acts' \in {acts, acts + 1}
    BY DEF Rotate, Restart, Rotated, Restarting, AdmEnded, Act, memory
  <1>2. acts \in Nat /\ acts <= acts'
    BY <1>1 DEF Inv, TypeOK
  <1>3. Starting'
    BY <1>1 DEF Dated, Starting
  <1>4. CASE \E q \in Quills : Rotate(q)
    <2>1. PICK q \in Quills : Rotate(q)
      BY <1>4
    <2>2. Tokens'
      BY <1>1, <2>1, IssuedTokens DEF Rotate
    <2>3. UNCHANGED <<serving, book>>
      BY <2>1 DEF Rotate
    <2>4. Versions'
      BY <1>1, <1>2, <2>3, VersionsKept DEF Dated, Inv
    <2>5. ServicesDiffer' /\ JobsDiffer'
      BY <1>1, <2>3 DEF Dated, ServicesDiffer, JobsDiffer
    <2> QED BY <1>3, <2>2, <2>4, <2>5 DEF Dated
  <1>5. CASE \E q \in Quills : Restart(q) \/ Rotated(q)
    <2>1. PICK q \in Quills : Restart(q) \/ Rotated(q)
      BY <1>5
    <2> DEFINE b == [book[q] EXCEPT !.failures = 0, !.waiting = FALSE, !.done = FALSE]
    <2>2. Put(q, {}, b) /\ UNCHANGED <<good, row, mem>>
      BY <2>1 DEF Restart, Rotated, Restarting
    <2>3. b.known = book[q].known /\ b.gen = book[q].gen
      BY Typed DEF Inv, Books
    <2> HIDE DEF b
    <2>4. /\ \A r \in Quills : serving'[r] = IF r = q THEN {} ELSE serving[r]
          /\ \A r \in Quills : book'[r] = IF r = q THEN b ELSE book[r]
      BY <2>2, Typed DEF Put, Inv
    <2>5. ServicesDiffer' /\ JobsDiffer'
      BY <1>1, <2>3, <2>4 DEF Dated, ServicesDiffer, JobsDiffer
    <2>6. Tokens'
      BY <1>1, <2>2 DEF Dated, Tokens, Pending, Revoking
    <2>7. Versions'
      BY <1>1, <1>2, <2>3, <2>4, VersionsKept DEF Dated, Inv
    <2> QED BY <1>3, <2>5, <2>6, <2>7 DEF Dated
  <1>6. CASE AdmEnded
    <2>1. UNCHANGED <<good, row, mem, serving, book, acts>>
      BY <1>6 DEF AdmEnded, memory
    <2> QED BY <1>1, <1>3, <2>1 DEF Dated, Versions, ServicesDiffer, JobsDiffer, Tokens, Pending, Revoking
  <1> QED BY <1>4, <1>5, <1>6

LEMMA EndCaught ==
    ASSUME Inv, Dated, TypeOK', Stop \/ Stopped \/ Crash
    PROVE  Dated'
  <1> USE DEF world, procs
  <1>1. UNCHANGED <<installed, on, alive, good, current, row>> /\ acts' \in {acts, acts + 1}
    BY DEF Stop, Stopped, Crash, Anew, Act
  <1>2. acts \in Nat /\ acts <= acts'
    BY <1>1 DEF Inv, TypeOK
  <1>3. CASE Stop
    <2>1. /\ UNCHANGED <<untold, changed, old, mem, serving, book, clk>>
          /\ job' = [q \in Quills |-> {}] /\ sup.pc = "idle"
      BY <1>3 DEF Stop
    <2>2. sup'.pc = "stop" /\ sup'.snap = sup.snap
      BY <1>3, Typed DEF Stop, Inv, Sups
    <2>3. Versions'
      BY <1>1, <1>2, <2>1, <2>2, VersionsKept DEF Dated, Inv
    <2>4. ServicesDiffer' /\ JobsDiffer' /\ Starting'
      BY <1>1, <2>1 DEF Dated, ServicesDiffer, JobsDiffer, Starting
    <2>5. Tokens'
      BY <1>1, <2>1 DEF Dated, Tokens, Pending, Revoking
    <2> QED BY <2>3, <2>4, <2>5 DEF Dated
  <1>4. CASE Stopped \/ Crash
    <2>1. Anew
      BY <1>4 DEF Stopped, Crash
    <2>2. /\ book' = [q \in Quills |-> NoBook] /\ sup' = SupIdle /\ sup'.pc = "idle"
          /\ clk'.pc = "idle" /\ clk'.p = {}
      BY <2>1 DEF Anew, SupIdle, ClkIdle
    <2>3. Versions'
      BY <1>1, <1>2, <2>2, VersionsKept DEF Dated, Inv
    <2>4. ServicesDiffer' /\ JobsDiffer' /\ Starting'
      BY <2>1, <2>2 DEF Anew, ServicesDiffer, JobsDiffer, Starting
    <2>5. Tokens'
      BY <2>1 DEF Anew, Dated, Tokens, Pending
    <2> QED BY <2>3, <2>4, <2>5 DEF Dated
  <1> QED BY <1>3, <1>4

LEMMA CaughtStep == Undisturbing /\ CaughtInv /\ [Next]_vars => CaughtInv'
  <1> SUFFICES ASSUME Undisturbing, CaughtInv, [Next]_vars PROVE CaughtInv'
    OBVIOUS
  <1>1. Inv /\ Dated /\ NoRaise
    BY DEF CaughtInv, Undisturbing
  <1>2. Inv' /\ TypeOK'
    BY <1>1, HeldStep DEF Inv
  <1>3. Dated'
    <2>1. CASE UNCHANGED vars
      BY <2>1, <1>1 DEF vars, world, procs, memory, Dated, Versions, ServicesDiffer, JobsDiffer,
                        Starting, Tokens, Pending, Revoking
    <2>2. CASE \E p \in Processes : Exit(p) \/ Killed(p)
      BY <2>2, <1>1, <1>2, DeathCaught DEF Exit, Killed
    <2>3. CASE \E q \in Quills : Install(q) \/ Uninstall(q)
      BY <2>3, <1>1, <1>2, InstallCaught
    <2>4. CASE \E q \in Quills : SwitchOff(q) \/ SwitchOn(q) \/ WaitOver(q)
      BY <2>4, <1>1, <1>2, SwitchCaught
    <2>5. CASE Tell
      <3>1. Versions' /\ ServicesDiffer' /\ JobsDiffer' /\ Starting' /\ Tokens'
        BY <2>5, <1>1 DEF Tell, procs, memory, Dated, Versions, ServicesDiffer, JobsDiffer,
                          Starting, Tokens, Pending
      <3> QED BY <3>1 DEF Dated
    <2>6. CASE Look \/ Snapshot \/ Release \/ Ended \/ Raise
      BY <2>6, <1>1, <1>2, LookCaught
    <2>7. CASE Clear
      BY <2>7, <1>1, <1>2, ClearCaught
    <2>8. CASE \E q \in Quills : \/ Renew(q) \/ Issue(q) \/ Hold(q) \/ Leave(q)
                                 \/ Reap(q) \/ Launch(q) \/ Fail(q)
      BY <2>8, <1>1, <1>2, KeepUpCaught
    <2>9. CASE (\E q \in Quills : ClkLook(q)) \/ ClkCheck \/ ClkStart \/ ClkFail \/ ClkRegister
      BY <2>9, <1>1, <1>2, ClockCaught
    <2>10. CASE (\E q \in Quills : Rotate(q) \/ Restart(q) \/ Rotated(q)) \/ AdmEnded
      BY <2>10, <1>1, <1>2, AdminCaught
    <2>11. CASE Stop \/ Stopped \/ Crash
      BY <2>11, <1>1, <1>2, EndCaught
    <2> QED BY <2>1, <2>2, <2>3, <2>4, <2>5, <2>6, <2>7, <2>8, <2>9, <2>10, <2>11 DEF Next, Supervise
  <1> QED BY <1>2, <1>3 DEF CaughtInv

(* A process that is not wanted, its Quill removed, installed again or     *)
(* switched off, is at every moment with a thread that is ending it, or in *)
(* a table from which the next look that comes to its end takes it; and    *)
(* what a dead server left is of no use to it, or has a token that the     *)
(* next look replaces or revokes.  So it is when no look fails midway, a   *)
(* Quill is changed while no job of it is on its way, and every version    *)
(* has code; a crash may come at any time.                                 *)
THEOREM StraysAreCaught == ASSUME Undisturbing PROVE Spec => []Caught
  <1>1. Init => CaughtInv
    BY CaughtInit
  <1>2. CaughtInv /\ [Next]_vars => CaughtInv'
    BY CaughtStep
  <1>3. CaughtInv => Caught
    BY CaughtThen
  <1> QED BY <1>1, <1>2, <1>3, PTL DEF Spec
=============================================================================
