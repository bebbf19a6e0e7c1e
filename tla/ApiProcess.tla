----------------------------- MODULE ApiProcess -----------------------------
(***************************************************************************)
(* Replicas of cmd/api over one database, from their start to their stop:  *)
(* the migrations that each runs before it serves, the loops and the       *)
(* server, and what main does on a signal.                                 *)
(*                                                                         *)
(* What a replica works at are tasks: the calls it has accepted, and the   *)
(* pass of its loops, which is named as the replica.  A task goes to and   *)
(* fro between "away", where it has no connection of the pool (it computes *)
(* or posts to a receiver), and "held", where a statement of its runs.     *)
(*                                                                         *)
(* goose, the pool and http.Server are libraries, modelled by what main    *)
(* relies on: a migration and its version row are one transaction; DDL of  *)
(* two transactions on one name makes the second wait and then fail; Close *)
(* refuses connections from then on and waits for those that are out;      *)
(* Shutdown closes the listener and waits for the calls.                   *)
(***************************************************************************)
EXTENDS Naturals, Sequences, FiniteSets

CONSTANTS
  Replicas, Calls,
  Last,       \* the last of db/migrations; 0 stands for goose's own table
  MaxStarts,  \* bound of the starts of each replica, for TLC
  MaxFaults,  \* bound of the crashes and failures, for TLC
  None

ASSUME ProcessAssumption ==
  /\ Last \in Nat /\ MaxStarts \in Nat /\ MaxFaults \in Nat
  /\ Replicas \intersect Calls = {} /\ None \notin Replicas

VARIABLES
  schema,  \* the migrations that are committed, in the order of their commits
  proc,    \* proc[r]: where main is; the migration it has found to be next
  starts,  \* starts[r]: how often r has been started
  task,    \* task[t]: where the task is, and the life it belongs to
  late,    \* history: lives whose Shutdown gave up waiting
  faults

vars == <<schema, proc, starts, task, late, faults>>

Tasks == Calls \union Replicas

\* off, then the start, the migrations and the server, the stop, the end.
Starting == {"migrate", "apply", "hold"}
Cancelled == {"cancelled", "drain", "close"}
Up == {"listen", "serve"} \union Cancelled
Down == {"off", "exited", "failed"}

Ended == {"answered", "refused", "cut", "crashed"}

Life(r) == <<r, starts[r]>>
At(t, r) == IF t \in Replicas THEN t = r ELSE task[t].life = Life(r)
Running(t) == task[t].pc \in {"away", "held"}

Init ==
  /\ schema = <<>>
  /\ proc = [r \in Replicas |-> [pc |-> "off", next |-> 0]]
  /\ starts = [r \in Replicas |-> 0]
  /\ task = [t \in Tasks |-> [pc |-> "idle", life |-> None]]
  /\ late = {} /\ faults = 0

Goto(r, pc) == proc' = [proc EXCEPT ![r].pc = pc]
Fault == faults < MaxFaults /\ faults' = faults + 1

\* What becomes of the tasks of r when its process ends; the calls that run
\* are given the outcome o.
EndTasks(r, o) ==
  task' = [t \in Tasks |->
    IF ~(At(t, r) /\ Running(t)) THEN task[t]
    ELSE [task[t] EXCEPT !.pc = IF t \in Calls THEN o ELSE "idle"]]

-----------------------------------------------------------------------------
(* Start                                                                   *)

\* The pool of connections is made, and opens none yet.
Start(r) ==
  /\ proc[r].pc \in Down /\ starts[r] < MaxStarts
  /\ Goto(r, "migrate")
  /\ starts' = [starts EXCEPT ![r] = @ + 1]
  /\ UNCHANGED <<schema, task, late, faults>>

\* goose.Up reads the version again before each migration.
ReadVersion(r) ==
  /\ proc[r].pc = "migrate"
  /\ IF Len(schema) <= Last
     THEN proc' = [proc EXCEPT ![r] = [pc |-> "apply", next |-> Len(schema)]]
     ELSE Goto(r, "listen")
  /\ UNCHANGED <<schema, starts, task, late, faults>>

\* Variant: a replica waits for every other that is about to run DDL.
FreeOfAll(r) == \A q \in Replicas \ {r} : proc[q].pc \notin {"apply", "hold"}
\* No other transaction has run the DDL and is not yet committed.
Free(r) == \A q \in Replicas \ {r} : proc[q].pc # "hold"

\* Variant: CREATE TABLE IF NOT EXISTS.
NeverTaken(m) == FALSE
\* The names that the migration makes are there.
Taken(m) == Len(schema) > m

\* The statements of the migration; main leaves with 1 if they fail.
RunMigration(r) ==
  /\ proc[r].pc = "apply" /\ Free(r)
  /\ Goto(r, IF Taken(proc[r].next) THEN "failed" ELSE "hold")
  /\ UNCHANGED <<schema, starts, task, late, faults>>

CommitMigration(r) ==
  /\ proc[r].pc = "hold"
  /\ schema' = Append(schema, proc[r].next)
  /\ Goto(r, "migrate")
  /\ UNCHANGED <<starts, task, late, faults>>

\* The goroutines of the loops run, and that of the server is about to listen.
Listen(r) ==
  /\ proc[r].pc = "listen"
  /\ Goto(r, "serve")
  /\ UNCHANGED <<schema, starts, task, late, faults>>

-----------------------------------------------------------------------------
(* Work                                                                    *)

\* A request is accepted, until Shutdown closes the listener.
CallBegin(c) ==
  /\ task[c].pc = "idle"
  /\ \E r \in Replicas :
       /\ proc[r].pc \in {"serve", "cancelled"}
       /\ task' = [task EXCEPT ![c] = [pc |-> "away", life |-> Life(r)]]
  /\ UNCHANGED <<schema, proc, starts, late, faults>>

\* A tick of a loop.  After runCancel a pass does nothing: ListDue and
\* ExpirePending fail at once.
PassBegin(r) ==
  /\ task[r].pc = "idle" /\ proc[r].pc \in {"listen", "serve"}
  /\ task' = [task EXCEPT ![r] = [pc |-> "away", life |-> Life(r)]]
  /\ UNCHANGED <<schema, proc, starts, late, faults>>

\* The pool gives no connection: it is closed, or the loops are cancelled.
NoConnection(t, r) == proc[r].pc = "close" \/ (t \in Replicas /\ proc[r].pc \in Cancelled)

Acquire(t) ==
  /\ task[t].pc = "away"
  /\ \E r \in Replicas : At(t, r) /\ ~NoConnection(t, r)
  /\ task' = [task EXCEPT ![t].pc = "held"]
  /\ UNCHANGED <<schema, proc, starts, late, faults>>

\* The statement fails: a call is answered with 500, a pass is over.
AcquireRefused(t) ==
  /\ task[t].pc = "away"
  /\ \E r \in Replicas : At(t, r) /\ NoConnection(t, r)
  /\ task' = [task EXCEPT ![t].pc = IF t \in Calls THEN "refused" ELSE "idle"]
  /\ UNCHANGED <<schema, proc, starts, late, faults>>

\* The statement is done, or cancelled with its context.
Release(t) ==
  /\ task[t].pc = "held"
  /\ task' = [task EXCEPT ![t].pc = "away"]
  /\ UNCHANGED <<schema, proc, starts, late, faults>>

Finish(t) ==
  /\ task[t].pc = "away"
  /\ task' = [task EXCEPT ![t].pc = IF t \in Calls THEN "answered" ELSE "idle"]
  /\ UNCHANGED <<schema, proc, starts, late, faults>>

-----------------------------------------------------------------------------
(* Stop                                                                    *)

\* SIGINT or SIGTERM, and runCancel.  Before main waits for it a signal
\* ends the process, which is a Crash.
Signal(r) ==
  /\ proc[r].pc \in {"listen", "serve"}
  /\ Goto(r, "cancelled")
  /\ UNCHANGED <<schema, starts, task, late, faults>>

ShutdownBegin(r) ==
  /\ proc[r].pc = "cancelled"
  /\ Goto(r, "drain")
  /\ UNCHANGED <<schema, starts, task, late, faults>>

\* Variant: main does not wait for the calls.
NoneRunning(r) == TRUE
Drained(r) == \A c \in Calls : At(c, r) => ~Running(c)

DrainEnds(r) ==
  /\ proc[r].pc = "drain" /\ Drained(r)
  /\ Goto(r, "close")
  /\ UNCHANGED <<schema, starts, task, late, faults>>

\* Variant: Shutdown is given a context without an end.
DrainNeverEnds(r) == proc[r].pc = "off" /\ UNCHANGED vars
\* The ten seconds are over; the calls go on.
DrainTimesOut(r) ==
  /\ proc[r].pc = "drain" /\ ~Drained(r)
  /\ Goto(r, "close")
  /\ late' = late \union {Life(r)}
  /\ UNCHANGED <<schema, starts, task, faults>>

\* Close waits for the connections that are out.
Returned(r) == \A t \in Tasks : At(t, r) => task[t].pc # "held"

\* pool.Close returns, and so does main: what still runs is cut.
Exit(r) ==
  /\ proc[r].pc = "close" /\ Returned(r)
  /\ Goto(r, "exited")
  /\ EndTasks(r, "cut")
  /\ UNCHANGED <<schema, starts, late, faults>>

\* A kill, an error of the tracer, of goose or of ListenAndServe (os.Exit).
Crash(r) ==
  /\ proc[r].pc \notin Down /\ Fault
  /\ Goto(r, "failed")
  /\ EndTasks(r, "crashed")
  /\ UNCHANGED <<schema, starts, late>>

-----------------------------------------------------------------------------
StartStep(r) == ReadVersion(r) \/ RunMigration(r) \/ CommitMigration(r) \/ Listen(r)
StopStep(r) == ShutdownBegin(r) \/ DrainEnds(r) \/ DrainTimesOut(r) \/ Exit(r)

Next ==
  \/ \E r \in Replicas :
       \/ Start(r) \/ StartStep(r) \/ PassBegin(r) \/ Signal(r) \/ StopStep(r) \/ Crash(r)
  \/ \E c \in Calls : CallBegin(c)
  \/ \E t \in Tasks : Acquire(t) \/ AcquireRefused(t) \/ Release(t) \/ Finish(t)

Spec == Init /\ [][Next]_vars

\* main goes on, and every statement comes to its end: its context ends with
\* the call's 30 seconds or with runCancel.  Nothing is asked of a task that
\* is away, and of signals and starts.
Fairness ==
  /\ \A r \in Replicas : WF_vars(StartStep(r)) /\ WF_vars(StopStep(r))
  /\ \A t \in Tasks : WF_vars(Release(t))

FairSpec == Spec /\ Fairness

-----------------------------------------------------------------------------
(* runMigrations before NewEcho: a replica runs its loops and serves only  *)
(* over the whole schema, every migration committed once and in order,     *)
(* however many replicas have started at once or died on the way.          *)
ServesWholeSchema ==
  /\ \A i \in DOMAIN schema : schema[i] = i - 1
  /\ \A r \in Replicas : proc[r].pc \in Up => Len(schema) = Last + 1

(* main after the signal: runCancel, Shutdown, then the deferred Close: a  *)
(* replica that is not killed loses a call, or refuses it a connection,    *)
(* only when the call has outlasted the ten seconds of Shutdown.           *)
StopLosesOnlyLate ==
  \A c \in Calls : task[c].pc \in {"refused", "cut"} => task[c].life \in late

(* runMigrations: of the replicas that start at once at least one comes up *)
(* (loops and server), though one that loses the race for a migration      *)
(* leaves with 1.                                                          *)
SomeoneComesUp ==
  (\E r \in Replicas : proc[r].pc = "migrate")
    ~> (\E r \in Replicas : proc[r].pc \in Up) \/ faults > 0

(* main after the signal: the replica ends, whatever its calls do between  *)
(* their statements.                                                       *)
StopEnds ==
  \A r \in Replicas : proc[r].pc = "cancelled" ~> proc[r].pc \in {"exited", "failed"}
=============================================================================
