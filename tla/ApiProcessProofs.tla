-------------------------- MODULE ApiProcessProofs --------------------------
(***************************************************************************)
(* For any number of replicas, calls and migrations: a replica serves over *)
(* the whole schema, and its stop loses only calls that are late.          *)
(***************************************************************************)
EXTENDS ApiProcess, TLAPS

ProcPc == Down \union Starting \union Up
TaskPc == {"idle", "away", "held"} \union Ended
Lives == (Replicas \X Nat) \union {None}

TypeInv ==
  /\ schema \in Seq(Nat)
  /\ proc \in [Replicas -> [pc : ProcPc, next : Nat]]
  /\ starts \in [Replicas -> Nat]
  /\ task \in [Tasks -> [pc : TaskPc, life : Lives]]
  /\ faults \in Nat

\* What a replica in the middle of a migration knows of the schema: the
\* version it has read may be old, unless its DDL has succeeded, which one
\* replica at a time can say.
SchemaInv ==
  /\ \A i \in 1 .. Len(schema) : schema[i] = i - 1
  /\ Len(schema) <= Last + 1
  /\ \A r \in Replicas : proc[r].pc \in {"apply", "hold"} => proc[r].next <= Last
  /\ \A r \in Replicas : proc[r].pc = "hold" => proc[r].next = Len(schema)
  /\ \A r \in Replicas : proc[r].pc = "apply" => proc[r].next <= Len(schema)
  /\ \A q, r \in Replicas : proc[q].pc = "hold" /\ proc[r].pc = "hold" => q = r
  /\ \A r \in Replicas : proc[r].pc \in Up => Len(schema) = Last + 1

\* A call that runs while its replica closes the pool is late.
StopInv ==
  /\ StopLosesOnlyLate
  /\ \A r \in Replicas, c \in Calls :
       proc[r].pc = "close" /\ task[c].life = Life(r) /\ Running(c) => Life(r) \in late

Inv == TypeInv /\ SchemaInv /\ StopInv

USE DEF Down, Starting, Cancelled, Up, Ended, ProcPc, TaskPc, Lives, Tasks

LEMMA LifeTyped ==
  ASSUME TypeInv, NEW r \in Replicas
  PROVE  Life(r) \in Lives /\ \A q \in Replicas : Life(q) = Life(r) => q = r
  BY DEF TypeInv, Life

LEMMA CallIsNoReplica ==
  ASSUME NEW c \in Calls, NEW r
  PROVE  c \notin Replicas /\ (At(c, r) <=> task[c].life = Life(r))
  BY ProcessAssumption DEF At

LEMMA InitInv == Init => Inv
<1> SUFFICES ASSUME Init PROVE Inv
  OBVIOUS
<1>1. TypeInv
  BY DEF Init, TypeInv
<1>2. SchemaInv
  BY ProcessAssumption DEF Init, SchemaInv
<1>3. StopInv
  BY DEF Init, StopInv, StopLosesOnlyLate, Running
<1> QED BY <1>1, <1>2, <1>3 DEF Inv

-----------------------------------------------------------------------------
(* Types                                                                   *)

LEMMA GotoTyped ==
  ASSUME TypeInv, NEW r \in Replicas, NEW pc \in ProcPc, Goto(r, pc)
  PROVE  /\ proc' \in [Replicas -> [pc : ProcPc, next : Nat]]
         /\ \A q \in Replicas : proc'[q].next = proc[q].next
         /\ \A q \in Replicas : proc'[q].pc = IF q = r THEN pc ELSE proc[q].pc
<1>1. proc[r] \in [pc : ProcPc, next : Nat]
  BY DEF TypeInv
<1>2. [proc[r] EXCEPT !.pc = pc] = [pc |-> pc, next |-> proc[r].next]
  BY <1>1
<1>3. proc' = [proc EXCEPT ![r] = [pc |-> pc, next |-> proc[r].next]]
  BY <1>2 DEF Goto
<1> QED BY <1>1, <1>3 DEF TypeInv

LEMMA ProcTyped ==
  ASSUME TypeInv, NEW r \in Replicas,
         Start(r) \/ StartStep(r) \/ Signal(r) \/ ShutdownBegin(r) \/ DrainEnds(r) \/ DrainTimesOut(r)
  PROVE  TypeInv'
<1>1. task' = task /\ faults' = faults
  BY DEF Start, StartStep, ReadVersion, RunMigration, CommitMigration, Listen, Signal,
         ShutdownBegin, DrainEnds, DrainTimesOut
<1>2. starts' \in [Replicas -> Nat]
  BY DEF TypeInv, Start, StartStep, ReadVersion, RunMigration, CommitMigration, Listen, Signal,
         ShutdownBegin, DrainEnds, DrainTimesOut
<1>3. schema' \in Seq(Nat)
  <2>1. CASE CommitMigration(r)
    <3>1. schema' = Append(schema, proc[r].next) /\ proc[r].next \in Nat /\ schema \in Seq(Nat)
      BY <2>1 DEF TypeInv, CommitMigration
    <3> QED BY <3>1
  <2>2. CASE ~CommitMigration(r)
    BY <2>2 DEF TypeInv, Start, StartStep, ReadVersion, RunMigration, Listen, Signal,
                ShutdownBegin, DrainEnds, DrainTimesOut
  <2> QED BY <2>1, <2>2
<1>4. proc' \in [Replicas -> [pc : ProcPc, next : Nat]]
  <2>1. CASE proc' = [proc EXCEPT ![r] = [pc |-> "apply", next |-> Len(schema)]]
    <3>1. Len(schema) \in Nat
      BY DEF TypeInv
    <3> QED BY <2>1, <3>1 DEF TypeInv
  <2>2. CASE proc' # [proc EXCEPT ![r] = [pc |-> "apply", next |-> Len(schema)]]
    <3>1. \E pc \in ProcPc : Goto(r, pc)
      BY <2>2 DEF Start, StartStep, ReadVersion, RunMigration, CommitMigration, Listen,
                  Signal, ShutdownBegin, DrainEnds, DrainTimesOut
    <3> QED BY <3>1, GotoTyped
  <2> QED BY <2>1, <2>2
<1> QED BY <1>1, <1>2, <1>3, <1>4 DEF TypeInv

LEMMA EndTyped ==
  ASSUME TypeInv, NEW r \in Replicas, Exit(r) \/ Crash(r)
  PROVE  TypeInv'
<1>1. schema' = schema /\ starts' = starts
  BY DEF Exit, Crash
<1>2. faults' \in Nat
  BY DEF TypeInv, Exit, Crash, Fault
<1>3. proc' \in [Replicas -> [pc : ProcPc, next : Nat]]
  BY GotoTyped DEF Exit, Crash
<1>4. PICK o \in {"cut", "crashed"} : EndTasks(r, o)
  BY DEF Exit, Crash
<1>5. ASSUME NEW t \in Tasks
      PROVE  task'[t] \in [pc : TaskPc, life : Lives]
  <2>1. task[t] \in [pc : TaskPc, life : Lives]
    BY DEF TypeInv
  <2>2. task'[t] = task[t] \/ \E pc \in TaskPc : task'[t] = [task[t] EXCEPT !.pc = pc]
    BY <1>4 DEF EndTasks
  <2> QED BY <2>1, <2>2
<1>6. task' = [t \in Tasks |-> task'[t]]
  BY <1>4 DEF EndTasks
<1> QED BY <1>1, <1>2, <1>3, <1>5, <1>6 DEF TypeInv

LEMMA TaskTyped ==
  ASSUME TypeInv,
         NEW t \in Tasks,
         \/ t \in Calls /\ CallBegin(t)
         \/ t \in Replicas /\ PassBegin(t)
         \/ Acquire(t) \/ AcquireRefused(t) \/ Release(t) \/ Finish(t)
  PROVE  TypeInv'
<1>1. UNCHANGED <<schema, proc, starts, faults>>
  BY DEF CallBegin, PassBegin, Acquire, AcquireRefused, Release, Finish
<1>2. task' \in [Tasks -> [pc : TaskPc, life : Lives]]
  <2>1. CASE \/ t \in Calls /\ CallBegin(t)
             \/ t \in Replicas /\ PassBegin(t)
    <3>1. PICK r \in Replicas : task' = [task EXCEPT ![t] = [pc |-> "away", life |-> Life(r)]]
      BY <2>1 DEF CallBegin, PassBegin
    <3>2. [pc |-> "away", life |-> Life(r)] \in [pc : TaskPc, life : Lives]
      BY LifeTyped
    <3> QED BY <3>1, <3>2 DEF TypeInv
  <2>2. CASE Acquire(t) \/ AcquireRefused(t) \/ Release(t) \/ Finish(t)
    BY <2>2 DEF TypeInv, Acquire, AcquireRefused, Release, Finish
  <2> QED BY <2>1, <2>2
<1> QED BY <1>1, <1>2 DEF TypeInv

-----------------------------------------------------------------------------
(* The schema                                                              *)

LEMMA SchemaSame ==
  ASSUME Inv, NEW r \in Replicas, schema' = schema,
         NEW pc \in ProcPc \ {"apply", "hold"}, Goto(r, pc),
         pc \in Up => Len(schema) = Last + 1
  PROVE  SchemaInv'
<1>1. \A q \in Replicas : /\ proc'[q].next = proc[q].next
                         /\ proc'[q].pc = IF q = r THEN pc ELSE proc[q].pc
  BY GotoTyped DEF Inv
<1> QED BY <1>1 DEF Inv, SchemaInv

LEMMA SchemaKept ==
  ASSUME Inv, NEW r \in Replicas,
         \/ Start(r) \/ StartStep(r) \/ Signal(r) \/ StopStep(r) \/ Crash(r)
  PROVE  SchemaInv'
<1>1. CASE Start(r) \/ Signal(r) \/ StopStep(r) \/ Crash(r) \/ Listen(r)
  <2>1. CASE Start(r) \/ Crash(r) \/ Exit(r)
    BY <2>1, SchemaSame DEF Start, Crash, Exit
  <2>2. CASE Signal(r) \/ Listen(r) \/ ShutdownBegin(r) \/ DrainEnds(r) \/ DrainTimesOut(r)
    <3>1. schema' = schema /\ proc[r].pc \in Up
      BY <2>2 DEF Signal, Listen, ShutdownBegin, DrainEnds, DrainTimesOut
    <3>2. Len(schema) = Last + 1
      BY <3>1 DEF Inv, SchemaInv
    <3>3. Goto(r, "cancelled") \/ Goto(r, "serve") \/ Goto(r, "drain") \/ Goto(r, "close")
      BY <2>2 DEF Signal, Listen, ShutdownBegin, DrainEnds, DrainTimesOut
    <3> QED BY <3>1, <3>2, <3>3, SchemaSame
  <2> QED BY <1>1, <2>1, <2>2 DEF StopStep
<1>2. CASE ReadVersion(r)
  <2>1. CASE Len(schema) <= Last
    <3>1. schema' = schema /\ proc' = [proc EXCEPT ![r] = [pc |-> "apply", next |-> Len(schema)]]
      BY <1>2, <2>1 DEF ReadVersion
    <3> QED BY <2>1, <3>1 DEF Inv, TypeInv, SchemaInv
  <2>2. CASE ~(Len(schema) <= Last)
    <3>1. Len(schema) = Last + 1
      BY <2>2, ProcessAssumption DEF Inv, TypeInv, SchemaInv
    <3> QED BY <1>2, <2>2, <3>1, SchemaSame DEF ReadVersion
  <2> QED BY <2>1, <2>2
<1>3. CASE RunMigration(r)
  <2>1. CASE Taken(proc[r].next)
    BY <1>3, <2>1, SchemaSame DEF RunMigration
  <2>2. CASE ~Taken(proc[r].next)
    <3>1. schema' = schema /\ proc' = [proc EXCEPT ![r].pc = "hold"] /\ proc[r].pc = "apply"
      BY <1>3, <2>2 DEF RunMigration, Goto
    <3>2. proc[r].next = Len(schema)
      BY <2>2, <3>1 DEF Inv, TypeInv, SchemaInv, Taken
    <3>3. \A q \in Replicas \ {r} : proc[q].pc # "hold"
      BY <1>3 DEF RunMigration, Free
    <3> QED BY <3>1, <3>2, <3>3 DEF Inv, TypeInv, SchemaInv
  <2> QED BY <2>1, <2>2
<1>4. CASE CommitMigration(r)
  <2>1. /\ proc[r].pc = "hold"
        /\ proc' = [proc EXCEPT ![r].pc = "migrate"]
        /\ schema' = Append(schema, Len(schema))
    BY <1>4 DEF CommitMigration, Goto, Inv, SchemaInv
  <2>2. Len(schema) <= Last /\ \A q \in Replicas : proc[q].pc \notin Up
    BY <2>1, ProcessAssumption DEF Inv, TypeInv, SchemaInv
  <2>3. Len(schema') = Len(schema) + 1
    BY <2>1 DEF Inv, TypeInv
  <2>4. \A i \in 1 .. Len(schema') : schema'[i] = i - 1
    BY <2>1, <2>3 DEF Inv, TypeInv, SchemaInv
  <2>5. \A q \in Replicas : proc'[q].pc # "hold" /\ proc'[q].pc \notin Up
    BY <2>1, <2>2 DEF Inv, TypeInv, SchemaInv
  <2>6. \A q \in Replicas : proc'[q].pc = "apply" =>
          proc'[q].next <= Len(schema) /\ proc'[q].next <= Last
    BY <2>1 DEF Inv, TypeInv, SchemaInv
  <2>7. Len(schema') <= Last + 1
    BY <2>2, <2>3, ProcessAssumption DEF Inv, TypeInv
  <2>8. Len(schema) \in Nat /\ \A q \in Replicas : proc'[q].next \in Nat
    BY <2>1 DEF Inv, TypeInv
  <2>9. \A q \in Replicas : proc'[q].pc = "apply" => proc'[q].next <= Len(schema')
    BY <2>3, <2>6, <2>8
  <2> QED BY <2>4, <2>5, <2>6, <2>7, <2>9 DEF SchemaInv
<1> QED BY <1>1, <1>2, <1>3, <1>4 DEF StartStep

-----------------------------------------------------------------------------
(* The stop                                                                *)

\* Steps of main that leave the tasks alone and do not close the pool.
LEMMA MainKeepsStop ==
  ASSUME Inv, NEW r \in Replicas,
         Start(r) \/ StartStep(r) \/ Signal(r) \/ ShutdownBegin(r)
  PROVE  StopInv'
<1>1. task' = task /\ late' = late /\ proc'[r].pc # "close"
  BY DEF Inv, TypeInv, Goto, Start, StartStep, ReadVersion, RunMigration, CommitMigration,
         Listen, Signal, ShutdownBegin
<1>2. \A q \in Replicas \ {r} : proc'[q] = proc[q] /\ starts'[q] = starts[q]
  BY DEF Inv, TypeInv, Goto, Start, StartStep, ReadVersion, RunMigration, CommitMigration,
         Listen, Signal, ShutdownBegin
<1> QED BY <1>1, <1>2 DEF Inv, StopInv, StopLosesOnlyLate, Life, Running

LEMMA CloseKeepsStop ==
  ASSUME Inv, NEW r \in Replicas, DrainEnds(r) \/ DrainTimesOut(r)
  PROVE  StopInv'
<1>1. task' = task /\ starts' = starts /\ late \subseteq late'
  BY DEF DrainEnds, DrainTimesOut
<1>2. \A q \in Replicas \ {r} : proc'[q] = proc[q]
  BY DEF Inv, TypeInv, Goto, DrainEnds, DrainTimesOut
<1>3. ASSUME NEW c \in Calls, task[c].life = Life(r), Running(c)
      PROVE  Life(r) \in late'
  BY <1>3, CallIsNoReplica DEF DrainEnds, DrainTimesOut, Drained
<1> QED BY <1>1, <1>2, <1>3 DEF Inv, StopInv, StopLosesOnlyLate, Life, Running

LEMMA EndKeepsStop ==
  ASSUME Inv, NEW r \in Replicas, Exit(r) \/ Crash(r)
  PROVE  StopInv'
<1>1. starts' = starts /\ late' = late /\ \A q \in Replicas : proc'[q].pc = "close" => proc[q].pc = "close"
  BY DEF Inv, TypeInv, Goto, Exit, Crash
<1>2. \A c \in Calls : task'[c].life = task[c].life /\ (task'[c].pc \in {"away", "held"} => task'[c] = task[c])
  BY DEF Inv, TypeInv, Exit, Crash, EndTasks
<1>3. ASSUME NEW c \in Calls, task'[c].pc \in {"refused", "cut"}
      PROVE  task[c].life \in late
  <2>1. CASE task'[c] = task[c]
    BY <1>3, <2>1 DEF Inv, StopInv, StopLosesOnlyLate
  <2>2. CASE task'[c] # task[c]
    <3>1. At(c, r) /\ Running(c)
      BY <2>2 DEF Exit, Crash, EndTasks
    <3>2. CASE Exit(r)
      BY <3>1, <3>2, CallIsNoReplica DEF Exit, Inv, StopInv
    <3>3. CASE Crash(r)
      BY <1>3, <3>1, <3>3 DEF Crash, EndTasks, Inv, TypeInv
    <3> QED BY <3>2, <3>3
  <2> QED BY <2>1, <2>2
<1> QED BY <1>1, <1>2, <1>3 DEF Inv, StopInv, StopLosesOnlyLate, Life, Running

LEMMA TaskKeepsStop ==
  ASSUME Inv,
         NEW t \in Tasks,
         \/ t \in Calls /\ CallBegin(t)
         \/ t \in Replicas /\ PassBegin(t)
         \/ Acquire(t) \/ AcquireRefused(t) \/ Release(t) \/ Finish(t)
  PROVE  StopInv'
<1>1. UNCHANGED <<proc, starts, late>>
  BY DEF CallBegin, PassBegin, Acquire, AcquireRefused, Release, Finish
<1>2. \A c \in Tasks \ {t} : task'[c] = task[c]
  BY DEF Inv, TypeInv, CallBegin, PassBegin, Acquire, AcquireRefused, Release, Finish
<1>3. CASE t \notin Calls
  BY <1>1, <1>2, <1>3 DEF Inv, StopInv, StopLosesOnlyLate, Life, Running
<1>4. CASE t \in Calls /\ CallBegin(t)
  <2>1. PICK r \in Replicas :
          proc[r].pc \in {"serve", "cancelled"} /\ task'[t] = [pc |-> "away", life |-> Life(r)]
    BY <1>4 DEF CallBegin, Inv, TypeInv
  <2>2. \A q \in Replicas : proc[q].pc = "close" => Life(q) # Life(r)
    BY <2>1, LifeTyped DEF Inv
  <2> QED BY <1>1, <1>2, <2>1, <2>2 DEF Inv, StopInv, StopLosesOnlyLate, Life, Running
<1>5. CASE t \in Calls /\ (Acquire(t) \/ Release(t) \/ Finish(t))
  <2>1. /\ Running(t) /\ task'[t].life = task[t].life
        /\ task'[t].pc \in {"held", "away", "answered"}
    BY <1>5 DEF Inv, TypeInv, Acquire, Release, Finish, Running
  <2> QED BY <1>1, <1>2, <2>1 DEF Inv, StopInv, StopLosesOnlyLate, Life, Running
<1>6. CASE t \in Calls /\ AcquireRefused(t)
  <2>1. /\ Running(t) /\ task'[t].life = task[t].life
        /\ task'[t].pc = "refused"
    BY <1>6 DEF Inv, TypeInv, AcquireRefused, Running
  <2>2. PICK r \in Replicas : proc[r].pc = "close" /\ task[t].life = Life(r)
    BY <1>6, CallIsNoReplica DEF AcquireRefused, NoConnection
  <2>3. task[t].life \in late
    BY <1>6, <2>1, <2>2 DEF Inv, StopInv
  <2> QED BY <1>1, <1>2, <2>1, <2>3 DEF Inv, StopInv, StopLosesOnlyLate, Life, Running
<1> QED BY <1>3, <1>4, <1>5, <1>6, CallIsNoReplica

-----------------------------------------------------------------------------
LEMMA TaskKeepsSchema ==
  ASSUME Inv, schema' = schema, proc' = proc
  PROVE  SchemaInv'
  BY DEF Inv, SchemaInv

LEMMA StepKeeps == Inv /\ [Next]_vars => Inv'
<1> SUFFICES ASSUME Inv, [Next]_vars PROVE Inv'
  OBVIOUS
<1>1. CASE UNCHANGED vars
  BY <1>1 DEF vars, Inv, TypeInv, SchemaInv, StopInv, StopLosesOnlyLate, Life, Running
<1>2. ASSUME NEW r \in Replicas,
             Start(r) \/ StartStep(r) \/ Signal(r) \/ StopStep(r) \/ Crash(r)
      PROVE  Inv'
  <2>1. TypeInv'
    BY <1>2, ProcTyped, EndTyped DEF Inv, StopStep
  <2>2. SchemaInv'
    BY <1>2, SchemaKept
  <2>3. StopInv'
    BY <1>2, MainKeepsStop, CloseKeepsStop, EndKeepsStop DEF StopStep
  <2> QED BY <2>1, <2>2, <2>3 DEF Inv
<1>3. ASSUME NEW t \in Tasks,
             \/ t \in Calls /\ CallBegin(t)
             \/ t \in Replicas /\ PassBegin(t)
             \/ Acquire(t) \/ AcquireRefused(t) \/ Release(t) \/ Finish(t)
      PROVE  Inv'
  <2>1. schema' = schema /\ proc' = proc
    BY <1>3 DEF CallBegin, PassBegin, Acquire, AcquireRefused, Release, Finish
  <2> QED BY <1>3, <2>1, TaskTyped, TaskKeepsSchema, TaskKeepsStop DEF Inv
<1> QED BY <1>1, <1>2, <1>3 DEF Next

(* A replica runs its loops and serves only when every migration has been  *)
(* committed, each once and in order, whatever others start, race for a    *)
(* migration or die.                                                       *)
THEOREM SchemaIsWhole == Spec => []ServesWholeSchema
<1>1. Inv => ServesWholeSchema
  BY DEF Inv, TypeInv, SchemaInv, ServesWholeSchema
<1> QED BY InitInv, StepKeeps, <1>1, PTL DEF Spec

(* A stop, if nothing kills the replica, costs only the calls that have    *)
(* outlasted Shutdown's ten seconds.                                       *)
THEOREM StopIsGraceful == Spec => []StopLosesOnlyLate
<1>1. Inv => StopLosesOnlyLate
  BY DEF Inv, StopInv
<1> QED BY InitInv, StepKeeps, <1>1, PTL DEF Spec
=============================================================================
