------------------------------ MODULE TaskRuntime ------------------------------
(***************************************************************************)
(* The task runtime of the registration worker: the task rows in SQLite,   *)
(* the HTTP operators that cancel, pause, resume and release them, the     *)
(* single dispatcher thread that claims them, and one worker thread per    *)
(* claimed task (registration-worker/application/tasks.py and              *)
(* registration-worker/services/task_runtime.py).                          *)
(*                                                                         *)
(* Every change of a row except the claim is a read-modify-write under the *)
(* lock of that row (_mutate_task); it is two steps here, Load and Commit, *)
(* because the dispatcher's claim reads and commits rows WITHOUT the lock. *)
(* SQLAlchemy writes only the columns a function changed, so a function    *)
(* that leaves the status alone ("keep") never undoes a concurrent write.  *)
(***************************************************************************)
EXTENDS Naturals, FiniteSets

CONSTANTS
  Task,          \* identities of the task rows
  Client,        \* threads that serve HTTP requests
  Thread,        \* worker threads that may be alive at the same time
  Account,       \* account keys ("account:7", "registration-email:a@b")
  Lane,          \* runtime lanes with a limit
  None,          \* no task, no thread, no lane, no lock holder

  Register,      \* tasks of type register: the ones that can be paused
  Urgent,        \* refresh_access_token actions: dispatched first
  LaneOf,        \* lane of a task, None for a task without platform
  LimitOf,       \* parallel limit the task's own payload puts on its lane
  KeysOf,        \* account keys a task needs
  MaxParallel,   \* max_parallel_tasks

  LateFinish,    \* tasks whose handler may end without a last cancel check
  Irreversible,  \* set_password actions: finish_irreversible_success
  MayRaise,      \* tasks whose handler may let an exception escape

  Ops,           \* the operator calls clients make
  MaxSaves,      \* bound: account writes counted per task
  MayCrash       \* whether the process may be killed and started again

ASSUME TaskAssumption ==
  /\ IsFiniteSet(Task)
  /\ None \notin Task \cup Client \cup Thread \cup Lane
  /\ Client \cap Thread = {}
  /\ Register \subseteq Task /\ Urgent \subseteq Task
  /\ LateFinish \subseteq Task /\ Irreversible \subseteq Task
  /\ MayRaise \subseteq Task

ASSUME LaneAssumption ==
  /\ LaneOf \in [Task -> Lane \cup {None}]
  /\ LimitOf \in [Task -> Nat \ {0}]
  /\ KeysOf \in [Task -> SUBSET Account]
  /\ MaxParallel \in Nat \ {0}

ASSUME BoundAssumption ==
  /\ MaxSaves \in Nat
  /\ MayCrash \in BOOLEAN
  /\ Ops \subseteq {"pause", "resume", "cancel", "release",
                    "pauseAll", "resumeAll", "cancelAll"}

VARIABLES
  status,       \* status column of each row, "absent" before its insert
  started,      \* rows whose started_at is set
  born,         \* created_at of each row, as its rank among the inserts
  saves,        \* account writes a worker made on behalf of the row
  queuePaused,  \* the persistent flag registration_queue_paused
  lock,         \* holder of each row's _task_lock
  cl,           \* what each HTTP thread is doing
  thr,          \* what each worker thread is doing
  workers,      \* keys of TaskRuntime._workers
  disp,         \* the dispatcher thread
  running       \* TaskRuntime._running

rows == <<status, started, born, saves>>
vars == <<status, started, born, saves, queuePaused, lock, cl, thr, workers,
          disp, running>>

Terminal == {"succeeded", "failed", "interrupted", "cancelled"}
Active   == {"claimed", "running", "cancel_requested", "paused"}
Status   == {"absent", "pending"} \cup Active \cup Terminal

Exists(t) == status[t] # "absent"

\* _worker_writes_allowed
Writable(t) == Exists(t) /\ status[t] \notin Terminal \cup {"cancel_requested"}

\* TaskLogger.is_cancel_requested
Stopped(t) == status[t] \in Terminal \cup {"cancel_requested"}

--------------------------------------------------------------------------------
(* What each mutation decides from the row it loaded: a status or "keep".    *)

CancelTo(t) ==
  IF Stopped(t) THEN "keep"
  ELSE IF status[t] = "pending" \/ (status[t] = "paused" /\ t \notin started)
       THEN "cancelled" ELSE "cancel_requested"

PauseTo(t) ==
  IF t \in Register /\ status[t] \in {"pending", "claimed", "running"}
  THEN "paused" ELSE "keep"

\* mutant: resume forgets that the task may not have been dispatched yet
ResumeToRunning(t, held) ==
  IF held \/ t \notin Register \/ status[t] # "paused" THEN "keep" ELSE "running"

ResumeTo(t, held) ==
  IF held \/ t \notin Register \/ status[t] # "paused" THEN "keep"
  ELSE IF t \in started THEN "running" ELSE "pending"

ReleaseTo(t) == IF status[t] \in Terminal THEN "keep" ELSE "cancelled"

\* mutant: mark_running does not look at the status
MarkToAlways(t) == "running"

MarkTo(t) == IF status[t] \in {"pending", "claimed"} THEN "running" ELSE "keep"

\* mutant: a requested cancel refuses every verdict, "cancelled" too
FinishToRefusing(t, final) ==
  IF status[t] \in Terminal \cup {"cancel_requested"} THEN "keep"
  ELSE IF final = "irreversible" THEN "succeeded" ELSE final

\* finish(final); "irreversible" is finish_irreversible_success
FinishTo(t, final) ==
  IF status[t] \in Terminal THEN "keep"
  ELSE IF final = "irreversible" THEN "succeeded"
  ELSE IF status[t] = "cancel_requested" /\ final # "cancelled" THEN "keep"
  ELSE final

\* mutant: the lock does not exclude anybody
AcquireAnyway(t, who) == lock' = [lock EXCEPT ![t] = who]

Acquire(t, who) == lock[t] = None /\ lock' = [lock EXCEPT ![t] = who]
Release(t) == lock' = [lock EXCEPT ![t] = None]

\* mutant: a function that decided nothing writes its nothing
CommitNothing(t, to) == status' = [status EXCEPT ![t] = to]

CommitStatus(t, to) ==
  status' = IF to = "keep" THEN status ELSE [status EXCEPT ![t] = to]

--------------------------------------------------------------------------------
IdleClient == [pc |-> "idle", op |-> "none", task |-> None, todo |-> {},
               held |-> FALSE, to |-> "keep"]

IdleThread == [pc |-> "idle", task |-> None, final |-> "none", to |-> "keep"]

IdleDisp(pc) == [pc |-> pc, slots |-> 0, count |-> [l \in Lane |-> 0],
                 busy |-> {}, held |-> FALSE, pick |-> None]

Live(h) == thr[h].pc # "idle"

Init ==
  /\ status = [t \in Task |-> "absent"]
  /\ started = {}
  /\ born = [t \in Task |-> 0]
  /\ saves = [t \in Task |-> 0]
  /\ queuePaused = FALSE
  /\ lock = [t \in Task |-> None]
  /\ cl = [c \in Client |-> IdleClient]
  /\ thr = [h \in Thread |-> IdleThread]
  /\ workers = {}
  /\ disp = IdleDisp("down")
  /\ running = FALSE

--------------------------------------------------------------------------------
(* HTTP threads. "todo" holds the ids a call still has to mutate: one for a  *)
(* call on a task, the result of the SELECT for a call on the queue.         *)

OneOp(op) == CASE op = "pauseAll" -> "pause" [] op = "resumeAll" -> "resume"
               [] op = "cancelAll" -> "cancel" [] OTHER -> op

QueueOps == {"pauseAll", "resumeAll", "cancelAll"}

\* statuses the SELECT of each queue operation asks for
SweepOf(op) == CASE op = "pause"  -> {"pending", "claimed", "running"}
                 [] op = "resume" -> {"paused"}
                 [] op = "cancel" -> {"pending"} \cup Active
                 [] OTHER         -> {}

\* the thread goes on to its next id, or is done
Sweep(c, op, todo) ==
  cl' = [cl EXCEPT ![c] =
           IF todo = {} THEN IdleClient
           ELSE [IdleClient EXCEPT !.pc = "sweep", !.op = op, !.todo = todo]]

\* create_task: one INSERT; create_register_task reads the flag afterwards
CreateTask(c, t) ==
  /\ disp.pc # "down" /\ cl[c].pc = "idle" /\ status[t] = "absent"
  /\ status' = [status EXCEPT ![t] = "pending"]
  /\ born' = [born EXCEPT ![t] = Cardinality({u \in Task : Exists(u)})]
  /\ cl' = [cl EXCEPT ![c] = IF t \in Register
                             THEN [IdleClient EXCEPT !.pc = "created", !.task = t]
                             ELSE IdleClient]
  /\ UNCHANGED <<started, saves, queuePaused, lock, thr, workers, disp, running>>

\* create_register_task: is_registration_queue_paused, then request_pause
CreateCheckPause(c) ==
  /\ cl[c].pc = "created"
  /\ Sweep(c, "pause", IF queuePaused THEN {cl[c].task} ELSE {})
  /\ UNCHANGED <<rows, queuePaused, lock, thr, workers, disp, running>>

Call(c, op, t) ==
  /\ disp.pc # "down" /\ cl[c].pc = "idle" /\ Exists(t)
  /\ op \in Ops \ QueueOps
  /\ Sweep(c, op, {t})
  /\ UNCHANGED <<rows, queuePaused, lock, thr, workers, disp, running>>

\* pause_, resume_ and cancel_registration_queue write the flag first
CallQueue(c, op) ==
  /\ disp.pc # "down" /\ cl[c].pc = "idle"
  /\ op \in Ops \cap QueueOps
  /\ queuePaused' = (op # "resumeAll")
  /\ cl' = [cl EXCEPT ![c] = [IdleClient EXCEPT !.pc = "select", !.op = OneOp(op)]]
  /\ UNCHANGED <<rows, lock, thr, workers, disp, running>>

\* then select the ids the sweep will visit
SelectIds(c) ==
  /\ cl[c].pc = "select"
  /\ Sweep(c, cl[c].op,
           {t \in Register : status[t] \in SweepOf(cl[c].op)})
  /\ UNCHANGED <<rows, queuePaused, lock, thr, workers, disp, running>>

\* request_resume reads the flag before it takes the lock of the row
ReadHeld(c, t) ==
  /\ cl[c].pc = "sweep" /\ cl[c].op = "resume" /\ t \in cl[c].todo
  /\ cl' = [cl EXCEPT ![c] = [pc |-> "read", op |-> "resume", task |-> t,
                              todo |-> cl[c].todo, held |-> queuePaused,
                              to |-> "keep"]]
  /\ UNCHANGED <<rows, queuePaused, lock, thr, workers, disp, running>>

ClientTo(op, t, held) ==
  CASE op = "cancel"  -> CancelTo(t)
    [] op = "pause"   -> PauseTo(t)
    [] op = "resume"  -> ResumeTo(t, held)
    [] op = "release" -> ReleaseTo(t)

\* _mutate_task: lock, read the row, decide
Load(c, t) ==
  /\ \/ cl[c].pc = "sweep" /\ cl[c].op # "resume" /\ t \in cl[c].todo
     \/ cl[c].pc = "read" /\ t = cl[c].task
  /\ Acquire(t, c)
  /\ cl' = [cl EXCEPT ![c] = [pc |-> "commit", op |-> cl[c].op, task |-> t,
                              todo |-> cl[c].todo \ {t}, held |-> FALSE,
                              to |-> ClientTo(cl[c].op, t, cl[c].held)]]
  /\ UNCHANGED <<rows, queuePaused, thr, workers, disp, running>>

\* _mutate_task: commit, unlock
Commit(c) ==
  /\ cl[c].pc = "commit"
  /\ CommitStatus(cl[c].task, cl[c].to)
  /\ Release(cl[c].task)
  /\ Sweep(c, cl[c].op, cl[c].todo)
  /\ UNCHANGED <<started, born, saves, queuePaused, thr, workers, disp, running>>

--------------------------------------------------------------------------------
(* The dispatcher (TaskRuntime._loop and claim_next_runnable_task).          *)

Start ==
  /\ disp.pc = "down"
  /\ running' = TRUE
  /\ disp' = IdleDisp("loop")
  \* mark_incomplete_tasks_interrupted
  /\ status' = [t \in Task |->
                  IF status[t] \in Active /\ ~(status[t] = "paused" /\ t \notin started)
                  THEN "interrupted" ELSE status[t]]
  /\ UNCHANGED <<started, born, saves, queuePaused, lock, cl, thr, workers>>

Stop ==
  /\ running
  /\ MayCrash
  /\ running' = FALSE
  /\ UNCHANGED <<rows, queuePaused, lock, cl, thr, workers, disp>>

\* mutants: occupancy taken from the rows, not from the workers that exist
RowsAtWork == {t \in Task : status[t] \in {"claimed", "running"}}
LaneCountsOfRows ==
  [l \in Lane |-> Cardinality({t \in RowsAtWork : LaneOf[t] = l})]
BusyKeysOfRows == UNION {KeysOf[t] : t \in RowsAtWork}

LaneCounts == [l \in Lane |-> Cardinality({t \in workers : LaneOf[t] = l})]

BusyKeys == UNION {KeysOf[t] : t \in workers}

\* head of the outer loop: free slots, lane counts and busy keys of _workers
Snapshot ==
  /\ disp.pc = "loop" /\ running
  /\ Cardinality(workers) < MaxParallel
  /\ disp' = [pc    |-> "ask",
              slots |-> MaxParallel - Cardinality(workers),
              count |-> LaneCounts,
              busy  |-> BusyKeys,
              held  |-> FALSE,
              pick  |-> None]
  /\ UNCHANGED <<rows, queuePaused, lock, cl, thr, workers, running>>

\* claim_next_runnable_task reads the flag in a session of its own
ReadFlag ==
  /\ disp.pc = "ask"
  /\ disp' = IF running
             THEN [disp EXCEPT !.pc = "query", !.held = queuePaused]
             ELSE IdleDisp("loop")
  /\ UNCHANGED <<rows, queuePaused, lock, cl, thr, workers, running>>

Eligible ==
  {t \in Task :
     /\ status[t] = "pending"
     /\ ~(disp.held /\ t \in Register)
     /\ LaneOf[t] = None \/ disp.count[LaneOf[t]] < LimitOf[t]
     /\ KeysOf[t] \cap disp.busy = {}}

Priority(t) == IF t \in Urgent THEN 0 ELSE 10

Before(t, u) == \/ Priority(t) < Priority(u)
                \/ Priority(t) = Priority(u) /\ born[t] < born[u]

\* the SELECT of the pending rows and the choice among them
Query ==
  /\ disp.pc = "query"
  /\ \/ /\ Eligible = {}
        /\ disp' = IdleDisp("loop")
     \/ \E t \in Eligible :
          /\ \A u \in Eligible \ {t} : ~Before(u, t)
          /\ disp' = [disp EXCEPT !.pc = "claim", !.pick = t]
  /\ UNCHANGED <<rows, queuePaused, lock, cl, thr, workers, running>>

\* mutant: started_at is left to mark_running
ClaimWithoutStart ==
  /\ disp.pc = "claim"
  /\ status' = [status EXCEPT ![disp.pick] = "claimed"]
  /\ disp' = [disp EXCEPT !.pc = "spawn"]
  /\ UNCHANGED <<started, born, saves, queuePaused, lock, cl, thr, workers, running>>

\* the claim is committed whatever happened to the row since the SELECT
Claim ==
  /\ disp.pc = "claim"
  /\ status' = [status EXCEPT ![disp.pick] = "claimed"]
  /\ started' = started \cup {disp.pick}
  /\ disp' = [disp EXCEPT !.pc = "spawn"]
  /\ UNCHANGED <<born, saves, queuePaused, lock, cl, thr, workers, running>>

\* what the inner loop still knows after it started a worker for its pick
AfterSpawn ==
  IF disp.slots > 1
  THEN [pc    |-> "ask",
        slots |-> disp.slots - 1,
        count |-> [l \in Lane |-> disp.count[l] +
                     IF LaneOf[disp.pick] = l THEN 1 ELSE 0],
        busy  |-> disp.busy \cup KeysOf[disp.pick],
        held  |-> FALSE,
        pick  |-> None]
  ELSE IdleDisp("loop")

\* the worker is registered in _workers and started
Spawn(h) ==
  /\ disp.pc = "spawn" /\ ~Live(h)
  /\ thr' = [thr EXCEPT ![h] = [IdleThread EXCEPT !.pc = "mark", !.task = disp.pick]]
  /\ workers' = workers \cup {disp.pick}
  /\ disp' = AfterSpawn
  /\ UNCHANGED <<rows, queuePaused, lock, cl, running>>

--------------------------------------------------------------------------------
(* Worker threads (execute_task and TaskLogger).                             *)

Advance(h, pc, final, to) ==
  thr' = [thr EXCEPT ![h] = [pc |-> pc, task |-> thr[h].task,
                             final |-> final, to |-> to]]

Goto(h, pc) == Advance(h, pc, "none", "keep")

EndWith(h, final) == Advance(h, "end", final, "keep")

\* mark_running: lock and read
Mark(h) ==
  /\ thr[h].pc = "mark"
  /\ Acquire(thr[h].task, h)
  /\ Advance(h, "marking", "none", MarkTo(thr[h].task))
  /\ UNCHANGED <<rows, queuePaused, cl, workers, disp, running>>

\* mark_running: commit; started_at is set at most once
MarkCommit(h) ==
  /\ thr[h].pc = "marking"
  /\ CommitStatus(thr[h].task, thr[h].to)
  /\ started' = IF thr[h].to = "keep" THEN started ELSE started \cup {thr[h].task}
  /\ Release(thr[h].task)
  /\ Goto(h, "gate")
  /\ UNCHANGED <<born, saves, queuePaused, cl, workers, disp, running>>

\* execute_task: is_cancel_requested before anything else
Gate(h) ==
  /\ thr[h].pc = "gate"
  /\ IF Stopped(thr[h].task) THEN EndWith(h, "cancelled") ELSE Goto(h, "hold")
  /\ UNCHANGED <<rows, queuePaused, lock, cl, workers, disp, running>>

\* wait_if_paused: the loop while the row is paused ...
Hold(h) ==
  /\ thr[h].pc = "hold"
  /\ Goto(h, IF status[thr[h].task] = "paused" THEN "held" ELSE "leave")
  /\ UNCHANGED <<rows, queuePaused, lock, cl, workers, disp, running>>

Held(h) ==
  /\ thr[h].pc = "held"
  /\ IF Stopped(thr[h].task) THEN EndWith(h, "cancelled") ELSE Goto(h, "hold")
  /\ UNCHANGED <<rows, queuePaused, lock, cl, workers, disp, running>>

\* ... and the last look at the row before the handler is entered
Leave(h) ==
  /\ thr[h].pc = "leave"
  /\ IF Stopped(thr[h].task) THEN EndWith(h, "cancelled") ELSE Goto(h, "body")
  /\ UNCHANGED <<rows, queuePaused, lock, cl, workers, disp, running>>

\* save_account: the row is checked and the account written under the lock
Save(h) ==
  /\ thr[h].pc = "body"
  /\ saves[thr[h].task] < MaxSaves
  /\ Writable(thr[h].task)
  /\ Acquire(thr[h].task, h)
  /\ Goto(h, "saving")
  /\ UNCHANGED <<rows, queuePaused, cl, workers, disp, running>>

SaveCommit(h) ==
  /\ thr[h].pc = "saving"
  /\ saves' = [saves EXCEPT ![thr[h].task] = @ + 1]
  /\ Release(thr[h].task)
  /\ Goto(h, "body")
  /\ UNCHANGED <<status, started, born, queuePaused, cl, workers, disp, running>>

\* the handler is over: its last cancel check and its verdict
Decide(h) ==
  /\ thr[h].pc = "body"
  /\ \/ /\ Stopped(thr[h].task)
        /\ EndWith(h, "cancelled")
     \/ /\ Stopped(thr[h].task)
        /\ thr[h].task \in Irreversible
        /\ EndWith(h, "irreversible")
     \/ /\ ~Stopped(thr[h].task) \/ thr[h].task \in LateFinish
        /\ \E final \in {"succeeded", "failed"} : EndWith(h, final)
  /\ UNCHANGED <<rows, queuePaused, lock, cl, workers, disp, running>>

\* no handler call is guarded: an exception ends the thread, not the task
Raise(h) ==
  /\ thr[h].pc = "body" /\ thr[h].task \in MayRaise
  /\ Goto(h, "exit")
  /\ UNCHANGED <<rows, queuePaused, lock, cl, workers, disp, running>>

\* finish: lock and read
Finish(h) ==
  /\ thr[h].pc = "end"
  /\ Acquire(thr[h].task, h)
  /\ Advance(h, "ending", "none", FinishTo(thr[h].task, thr[h].final))
  /\ UNCHANGED <<rows, queuePaused, cl, workers, disp, running>>

FinishCommit(h) ==
  /\ thr[h].pc = "ending"
  /\ CommitStatus(thr[h].task, thr[h].to)
  /\ Release(thr[h].task)
  /\ Goto(h, "exit")
  /\ UNCHANGED <<started, born, saves, queuePaused, cl, workers, disp, running>>

\* mutant: the entry of a finished worker stays in _workers
ExitKeepingEntry(h) ==
  /\ thr[h].pc = "exit"
  /\ thr' = [thr EXCEPT ![h] = IdleThread]
  /\ UNCHANGED <<rows, queuePaused, lock, cl, workers, disp, running>>

\* _run_task: finally _workers.pop(task_id, None)
Exit(h) ==
  /\ thr[h].pc = "exit"
  /\ workers' = workers \ {thr[h].task}
  /\ thr' = [thr EXCEPT ![h] = IdleThread]
  /\ UNCHANGED <<rows, queuePaused, lock, cl, disp, running>>

--------------------------------------------------------------------------------
\* the process dies: rows and the flag are on disk, everything else is gone
Crash ==
  /\ MayCrash
  /\ disp.pc # "down"
  /\ lock' = [t \in Task |-> None]
  /\ cl' = [c \in Client |-> IdleClient]
  /\ thr' = [h \in Thread |-> IdleThread]
  /\ workers' = {}
  /\ disp' = IdleDisp("down")
  /\ running' = FALSE
  /\ UNCHANGED <<rows, queuePaused>>

ClientStep(c) ==
  \/ CreateCheckPause(c)
  \/ SelectIds(c)
  \/ \E t \in Task : ReadHeld(c, t) \/ Load(c, t)
  \/ Commit(c)

ClientCall(c) ==
  \/ \E t \in Task : CreateTask(c, t)
  \/ \E op \in Ops : CallQueue(c, op)
  \/ \E op \in Ops, t \in Task : Call(c, op, t)

Dispatch ==
  \/ Start \/ Snapshot \/ ReadFlag \/ Query \/ Claim
  \/ \E h \in Thread : Spawn(h)

ThreadStep(h) ==
  \/ Mark(h) \/ MarkCommit(h) \/ Gate(h) \/ Hold(h) \/ Held(h) \/ Leave(h)
  \/ Save(h) \/ SaveCommit(h) \/ Decide(h) \/ Raise(h)
  \/ Finish(h) \/ FinishCommit(h) \/ Exit(h)

Next ==
  \/ \E c \in Client : ClientCall(c) \/ ClientStep(c)
  \/ Dispatch
  \/ \E h \in Thread : ThreadStep(h)
  \/ Stop
  \/ Crash

Spec == Init /\ [][Next]_vars

--------------------------------------------------------------------------------
(* Fairness. The dispatcher polls (wait(poll_interval)), a thread that holds *)
(* or waits for a threading.Lock gets on, a handler returns. A handler whose *)
(* registration is paused waits for the operator, so Decide is fair only     *)
(* while its row is not paused. Operators need not call anything.            *)

Fairness ==
  /\ WF_vars(Start \/ Snapshot \/ ReadFlag \/ Query \/ Claim)
  /\ WF_vars(\E h \in Thread : Spawn(h))
  /\ \A c \in Client : SF_vars(ClientStep(c))
  /\ \A h \in Thread :
       /\ SF_vars(Mark(h)) /\ SF_vars(Finish(h))
       /\ WF_vars(MarkCommit(h) \/ SaveCommit(h) \/ FinishCommit(h) \/ Exit(h))
       /\ WF_vars(Gate(h) \/ Hold(h) \/ Held(h) \/ Leave(h))
       /\ WF_vars(Decide(h) /\ status[thr[h].task] # "paused")

FairSpec == Spec /\ Fairness

--------------------------------------------------------------------------------
(* Properties.                                                               *)

ClientState ==
  [pc : {"idle", "created", "select", "sweep", "read", "commit"},
   op : {"none", "pause", "resume", "cancel", "release"},
   task : Task \cup {None}, todo : SUBSET Task, held : BOOLEAN,
   to : Status \cup {"keep"}]

ThreadState ==
  [pc : {"idle", "mark", "marking", "gate", "hold", "held", "leave", "body",
         "saving", "end", "ending", "exit"},
   task : Task \cup {None},
   final : {"none", "succeeded", "failed", "cancelled", "irreversible"},
   to : Status \cup {"keep"}]

DispState ==
  [pc : {"down", "loop", "ask", "query", "claim", "spawn"},
   slots : Nat, count : [Lane -> Nat], busy : SUBSET Account, held : BOOLEAN,
   pick : Task \cup {None}]

\* Every variable has its type; in particular a status column only ever
\* holds one of the nine statuses of tasks.py.
TypeOK ==
  /\ status \in [Task -> Status]
  /\ started \subseteq Task
  /\ born \in [Task -> Nat]
  /\ saves \in [Task -> Nat]
  /\ queuePaused \in BOOLEAN
  /\ lock \in [Task -> Client \cup Thread \cup {None}]
  /\ cl \in [Client -> ClientState]
  /\ thr \in [Thread -> ThreadState]
  /\ workers \subseteq Task
  /\ disp \in DispState
  /\ running \in BOOLEAN

\* Two live worker threads never work on the same account, whatever operators
\* do to the rows: a released or cancelled row keeps its keys busy until its
\* thread is gone, because _loop computes the busy keys from _workers.
KeyExclusion ==
  \A g, h \in Thread :
    g # h /\ Live(g) /\ Live(h)
      => KeysOf[thr[g].task] \cap KeysOf[thr[h].task] = {}

Serial(l) == \A t \in Task : LaneOf[t] = l => LimitOf[t] = 1

\* A lane whose tasks all carry the limit 1 (registrations outside a batch,
\* and any lane under max_parallel_per_platform = 1) never runs two threads,
\* even though claims race with pause, resume, cancel and release.
SerialLane ==
  \A l \in Lane : Serial(l) =>
    \A g, h \in Thread :
      Live(g) /\ Live(h) /\ LaneOf[thr[g].task] = l /\ LaneOf[thr[h].task] = l
        => g = h

\* An account is only written for a row that is neither cancelled nor asked to
\* cancel nor finished at the moment of the write: what save_account checked
\* still holds when it writes, although releases and cancels run concurrently.
FencedSaves ==
  [][\A t \in Task : saves'[t] # saves[t] => Writable(t)]_vars

\* The only step that takes a row out of a terminal status is a claim that was
\* decided while the row was still pending; no operator call, no late thread
\* and no restart revives a row.
OnlyClaimRevives ==
  [][\A t \in Task :
       status[t] \in Terminal /\ status'[t] # status[t]
         => disp.pc = "claim" /\ disp.pick = t]_vars

\* While the process is up, a row that says claimed, running or paused in the
\* middle has a thread that will move it on (or is about to get one): no row
\* waits for a worker that is not there. It holds for one life of the process
\* and for handlers that let no exception escape: _run_task has no handler for
\* one, and a crash while a resume competes with a claim leaves a started row
\* pending.
NoOrphan ==
  disp.pc # "down" =>
    \A t \in Task :
      status[t] \in {"claimed", "running"} \/ (status[t] = "paused" /\ t \in started)
        => \/ \E h \in Thread : Live(h) /\ thr[h].task = t
           \/ disp.pc = "spawn" /\ disp.pick = t

\* A row without started_at (the ones a restart leaves pending or paused, to be
\* run again) has never had a thread and never written an account.
UnstartedIsUntouched ==
  \A t \in Task \ started :
    saves[t] = 0 /\ \A h \in Thread : thr[h].task # t

\* A batch lane never runs more threads than its limit.
BatchLimit ==
  \A l \in Lane : (\E t \in Task : LaneOf[t] = l)
    => \E t \in Task :
         /\ LaneOf[t] = l
         /\ Cardinality({h \in Thread : Live(h) /\ LaneOf[thr[h].task] = l}) <= LimitOf[t]

\* A pending AT recovery is dispatched in the end, whatever registrations do,
\* unless operators keep a task paused for ever.
RecoveryDispatched ==
  (\A t \in Task : []<>(status[t] # "paused"))
    => \A t \in Urgent : status[t] = "pending" ~> status[t] # "pending"

\* A cancel request that reaches a task before its handler was entered (its
\* thread waits on a paused row, say) ends in a terminal row.
CancelBeforeBodyEnds ==
  \A t \in Task :
    /\ status[t] = "cancel_requested"
    /\ \E h \in Thread :
         thr[h].task = t /\ thr[h].pc \in {"mark", "marking", "gate", "hold", "held", "leave"}
    ~> status[t] \in Terminal

\* The account keys and the lane slot of a stopped task become free again.
StoppedFreesKeys ==
  \A t \in Task : (t \in workers /\ Stopped(t)) ~> t \notin workers

================================================================================
