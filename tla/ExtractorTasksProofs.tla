-------------------------- MODULE ExtractorTasksProofs --------------------------
(***************************************************************************)
(* Proofs about ExtractorTasks. The inductive invariant follows a task id  *)
(* from the queue of the executor to the thread that runs it: an id is in  *)
(* one place at most (OnePlace), a task in the queue or with a starting    *)
(* thread has not been started (NotStarted), and a task that is being      *)
(* extracted is running or asked to stop (NoGhostExtraction).              *)
(* A second invariant (StreamInv) follows the events: the last event about *)
(* a task tells its status, wherever the event is on its way to a browser. *)
(* A third (AnswersInv) says that the answer to a call is never ahead of   *)
(* the task: what it told can only have been followed by a later status.   *)
(***************************************************************************)
EXTENDS ExtractorTasks, TLAPS, FiniteSetTheorems, WellFoundedInduction, SequenceTheorems

Statuses == Alive \cup Gone \cup {"absent"}

Waiting == {"queued", "cancelled"} \cup Gone

WorkerState ==
  [pc : {"idle", "start", "extract", "end"}, task : Task \cup {None},
   stages : Nat, outcome : {"none", "result", "error", "stopped"}]

Shape ==
  /\ status \in [Task -> Statuses]
  /\ cancelled \subseteq Task
  /\ old \subseteq {t \in Task : status[t] \in Terminal}
  /\ futures \in Seq(Task)
  /\ worker \in [Worker -> WorkerState]
  /\ \A w \in Worker : worker[w].pc # "idle" => worker[w].task \in Task
  /\ \A w \in Worker : worker[w].pc = "end" => worker[w].outcome # "none"

NotStarted ==
  /\ \A i \in 1..Len(futures) : status[futures[i]] \in Waiting
  /\ \A w \in Worker : worker[w].pc = "start" => status[worker[w].task] \in Waiting

OnePlace ==
  /\ \A i, j \in 1..Len(futures) : futures[i] = futures[j] => i = j
  /\ \A i \in 1..Len(futures), w \in Worker :
       worker[w].pc # "idle" => worker[w].task # futures[i]
  /\ \A v, w \in Worker :
       worker[v].pc # "idle" /\ worker[w].pc # "idle"
       /\ worker[v].task = worker[w].task => v = w

Inv == Shape /\ NotStarted /\ OnePlace /\ NoGhostExtraction

\* What a call may do to a task that it does not create
MayBecome(from, to) ==
  \/ to = from
  \/ from \in Terminal /\ to \in Gone
  \/ from = "queued" /\ to = "cancelled"
  \/ from = "running" /\ to = "cancel_requested"

--------------------------------------------------------------------------------
\* Expired tasks were finished; all others keep their status.
LEMMA CleanedIsHarmless ==
  ASSUME Shape
  PROVE  /\ Cleaned \in [Task -> Statuses]
         /\ \A t \in Task : \/ Cleaned[t] = status[t]
                            \/ status[t] \in Terminal /\ Cleaned[t] = "expired"
BY DEF Cleaned, Shape, Statuses, Gone

\* The invariant survives every step that leaves threads and queue alone and
\* moves tasks only as MayBecome allows.
LEMMA CallKeepsInv ==
  ASSUME Inv, UNCHANGED <<futures, worker>>, cancelled' \subseteq Task,
         status' \in [Task -> Statuses],
         old' \subseteq {t \in Task : status'[t] \in Terminal},
         \A t \in Task : MayBecome(status[t], status'[t])
  PROVE  Inv'
<1>1. Shape'
  BY DEF Inv, Shape
<1>2. NotStarted'
  <2>1. \A i \in 1..Len(futures) : futures[i] \in Task
    BY DEF Inv, Shape
  <2> QED
    BY <2>1 DEF Inv, Shape, NotStarted, MayBecome, Waiting, Terminal, Gone
<1>3. OnePlace'
  BY DEF Inv, OnePlace
<1>4. NoGhostExtraction'
  BY DEF Inv, Shape, NoGhostExtraction, Extracting, MayBecome, Terminal, Gone
<1> QED
  BY <1>1, <1>2, <1>3, <1>4 DEF Inv

\* The same for a step that also puts a fresh task at the end of the queue.
LEMMA SubmitKeepsInv ==
  ASSUME Inv, NEW u \in Task, status[u] = "absent",
         futures' = Append(futures, u), UNCHANGED <<worker, cancelled>>,
         status' \in [Task -> Statuses], status'[u] = "queued", old' = {},
         \A t \in Task \ {u} : MayBecome(status[t], status'[t])
  PROVE  Inv'
<1>1. /\ futures' \in Seq(Task) /\ Len(futures') = Len(futures) + 1
      /\ Len(futures) \in Nat
      /\ \A i \in 1..Len(futures) : futures'[i] = futures[i] /\ futures[i] \in Task
      /\ futures'[Len(futures) + 1] = u
  BY DEF Inv, Shape
<1>2. \A i \in 1..Len(futures) : futures[i] # u
  BY DEF Inv, NotStarted, Waiting, Gone
<1>3. \A w \in Worker : worker[w].pc # "idle" => worker[w].task # u
  <2>1. \A w \in Worker : worker[w].pc \in {"idle", "start", "extract", "end"}
    BY DEF Inv, Shape, WorkerState
  <2> QED
    BY <2>1 DEF Inv, NotStarted, NoGhostExtraction, Extracting, Waiting, Gone
<1>4. \A i \in 1..Len(futures') : i \in 1..Len(futures) \/ i = Len(futures) + 1
  BY <1>1
<1>5. Shape'
  BY <1>1 DEF Inv, Shape
<1>6. NotStarted'
  BY <1>1, <1>2, <1>3, <1>4
  DEF Inv, Shape, NotStarted, MayBecome, Waiting, Terminal, Gone
<1>7. OnePlace'
  BY <1>1, <1>2, <1>3, <1>4 DEF Inv, OnePlace
<1>8. NoGhostExtraction'
  BY <1>3 DEF Inv, Shape, NoGhostExtraction, Extracting, MayBecome, Terminal, Gone
<1> QED
  BY <1>5, <1>6, <1>7, <1>8 DEF Inv

\* A call moves tasks as MayBecome says or submits a new one.
LEMMA CallMoves ==
  ASSUME Shape, Call, NEW t \in Task
  PROVE  \/ MayBecome(status[t], status'[t])
         \/ status[t] = "absent" /\ status'[t] = "queued"
<1> DEFINE Moves == \/ MayBecome(status[t], status'[t])
                    \/ status[t] = "absent" /\ status'[t] = "queued"
<1>0. /\ Cleaned \in [Task -> Statuses] /\ status \in [Task -> Statuses]
      /\ \A u \in Task : \/ Cleaned[u] = status[u]
                         \/ status[u] \in Terminal /\ Cleaned[u] = "expired"
  BY CleanedIsHarmless DEF Shape
<1>1. ASSUME NEW u \in Task, NEW by, create(u, by) PROVE Moves
  BY <1>0, <1>1 DEF create, MayBecome, Gone
<1>2. ASSUME NEW u \in Task, NEW v \in Task, NEW by, retry(u, v, by) PROVE Moves
  BY <1>0, <1>2 DEF retry, Retriable, MayBecome, Terminal, Gone
<1>3. ASSUME NEW u \in Task, NEW by,
             CancelQueued(u, by) \/ CancelRunning(u, by) \/ CancelAgain(u, by)
      PROVE Moves
  BY <1>0, <1>3
  DEF CancelQueued, CancelRunning, CancelAgain, CancelQueuedTo, MayBecome, Terminal, Gone
<1>4. ASSUME NEW gone \in SUBSET {u \in Task : Cleaned[u] \in Terminal}, NEW by,
             DeleteAll(gone, by)
      PROVE  Moves
  BY <1>0, <1>4 DEF DeleteAll, MayBecome, Terminal, Gone
<1>5. ASSUME NEW u \in Task, NEW by, delete(u, by) PROVE Moves
  BY <1>4, <1>5 DEF delete, Deletable
<1>6. ASSUME NEW statuses \in {{"failed", "cancelled"}, {"succeeded"}}, NEW by,
             delete_by_statuses(statuses, by)
      PROVE  Moves
  <2>1. {u \in Task : Cleaned[u] \in statuses}
          \in SUBSET {u \in Task : Cleaned[u] \in Terminal}
    BY DEF Terminal
  <2> QED
    BY <1>4, <1>6, <2>1 DEF delete_by_statuses
<1>7. CASE Read
  BY <1>0, <1>7 DEF Read, MayBecome, Gone
<1>8. ASSUME NEW u \in Task, ResolveStart(u) \/ ResolveEnd(u) \/ Age(u) PROVE Moves
  BY <1>8 DEF ResolveStart, ResolveEnd, Age, MayBecome
<1> HIDE DEF Moves
<1> QED
  BY <1>1, <1>2, <1>3, <1>5, <1>6, <1>7, <1>8 DEF Call, Moves

LEMMA CallStep ==
  ASSUME Inv, Call
  PROVE  Inv'
<1> USE DEF Inv
<1>0. /\ Cleaned \in [Task -> Statuses]
      /\ \A t \in Task : \/ Cleaned[t] = status[t]
                         \/ status[t] \in Terminal /\ Cleaned[t] = "expired"
  BY CleanedIsHarmless
<1>1. ASSUME NEW t \in Task, NEW by, create(t, by) PROVE Inv'
  <2>1. /\ status' \in [Task -> Statuses] /\ status'[t] = "queued"
        /\ \A u \in Task \ {t} : MayBecome(status[u], status'[u])
    BY <1>0, <1>1 DEF create, MayBecome, Statuses, Alive, Gone
  <2> QED
    BY <1>1, <2>1, SubmitKeepsInv DEF create
<1>2. ASSUME NEW t \in Task, NEW u \in Task, NEW by, retry(t, u, by) PROVE Inv'
  <2>1. t # u /\ status[t] \in Terminal
    BY <1>0, <1>2 DEF retry, Retriable, Terminal
  <2>2. /\ status' \in [Task -> Statuses] /\ status'[u] = "queued"
        /\ \A v \in Task \ {u} : MayBecome(status[v], status'[v])
    BY <1>0, <1>2, <2>1 DEF retry, MayBecome, Statuses, Alive, Gone
  <2> QED
    BY <1>2, <2>2, SubmitKeepsInv DEF retry
<1>3. ASSUME NEW t \in Task, NEW by,
             CancelQueued(t, by) \/ CancelRunning(t, by) \/ CancelAgain(t, by)
      PROVE Inv'
  <2>1. /\ status' \in [Task -> Statuses]
        /\ \A u \in Task : MayBecome(status[u], status'[u])
    BY <1>0, <1>3 DEF CancelQueued, CancelRunning, CancelAgain, CancelQueuedTo, MayBecome,
                      Statuses, Alive, Terminal, Gone
  <2> QED
    BY <1>3, <2>1, CallKeepsInv DEF CancelQueued, CancelRunning, CancelAgain, Shape
<1>4. ASSUME NEW gone \in SUBSET {t \in Task : Cleaned[t] \in Terminal}, NEW by,
             DeleteAll(gone, by)
      PROVE  Inv'
  <2>1. /\ status' \in [Task -> Statuses]
        /\ \A u \in Task : MayBecome(status[u], status'[u])
    BY <1>0, <1>4 DEF DeleteAll, MayBecome, Statuses, Gone
  <2> QED
    BY <1>4, <2>1, CallKeepsInv DEF DeleteAll, Shape
<1>5. ASSUME NEW t \in Task, NEW by, delete(t, by) PROVE Inv'
  BY <1>4, <1>5 DEF delete, Deletable
<1>6. ASSUME NEW statuses \in {{"failed", "cancelled"}, {"succeeded"}}, NEW by,
             delete_by_statuses(statuses, by)
      PROVE  Inv'
  <2>1. {t \in Task : Cleaned[t] \in statuses}
          \in SUBSET {t \in Task : Cleaned[t] \in Terminal}
    BY DEF Terminal
  <2> QED
    BY <1>4, <1>6, <2>1 DEF delete_by_statuses
<1>7. CASE Read
  <2>1. \A u \in Task : MayBecome(status[u], status'[u])
    BY <1>0, <1>7 DEF Read, MayBecome, Gone
  <2> QED
    BY <1>0, <1>7, <2>1, CallKeepsInv DEF Read, Shape
<1>8. ASSUME NEW t \in Task, ResolveStart(t) \/ ResolveEnd(t) \/ Age(t) PROVE Inv'
  <2>1. /\ UNCHANGED <<status, cancelled, futures, worker>>
        /\ old' \subseteq {u \in Task : status[u] \in Terminal}
    BY <1>8 DEF ResolveStart, ResolveEnd, Age, Shape
  <2> QED
    BY <2>1, CallKeepsInv DEF Shape, MayBecome
<1> QED
  BY <1>1, <1>2, <1>3, <1>5, <1>6, <1>7, <1>8 DEF Call

\* A thread that was busy takes the state "to", and only its own task changes.
LEMMA ThreadKeepsInv ==
  ASSUME Inv, NEW w \in Worker, NEW to \in WorkerState,
         worker[w].pc # "idle", worker' = [worker EXCEPT ![w] = to],
         UNCHANGED <<futures, cancelled, old>>,
         status' \in [Task -> Statuses],
         \A u \in Task : u # worker[w].task => status'[u] = status[u],
         worker[w].task \in old => status'[worker[w].task] \in Terminal,
         \/ to.pc = "idle"
         \/ /\ to.pc \in {"extract", "end"} /\ to.task = worker[w].task
            /\ status'[to.task] \in {"running", "cancel_requested"}
            /\ to.pc = "end" => to.outcome # "none"
  PROVE  Inv'
<1> DEFINE t == worker[w].task
<1>1. /\ t \in Task /\ worker'[w] = to
      /\ \A v \in Worker : v # w => worker'[v] = worker[v]
      /\ worker' \in [Worker -> WorkerState]
  BY DEF Inv, Shape
<1>2. /\ \A i \in 1..Len(futures) : futures[i] \in Task /\ futures[i] # t
      /\ \A v \in Worker : v # w /\ worker[v].pc # "idle" =>
           worker[v].task \in Task /\ worker[v].task # t
  BY DEF Inv, OnePlace, Shape
<1>3. Shape'
  BY <1>1 DEF Inv, Shape
<1>4. NotStarted'
  BY <1>1, <1>2 DEF Inv, NotStarted
<1>5. OnePlace'
  BY <1>1 DEF Inv, OnePlace
<1>6. NoGhostExtraction'
  BY <1>1, <1>2 DEF Inv, NoGhostExtraction, Extracting
<1> QED
  BY <1>3, <1>4, <1>5, <1>6 DEF Inv

LEMMA TakeStep ==
  ASSUME Inv, NEW w \in Worker, Take(w)
  PROVE  Inv'
<1>1. /\ Len(futures) \in Nat /\ Len(futures) > 0
      /\ Head(futures) = futures[1] /\ futures[1] \in Task
      /\ futures' \in Seq(Task) /\ Len(futures') = Len(futures) - 1
      /\ \A i \in 1..Len(futures') :
           futures'[i] = futures[i + 1] /\ i + 1 \in 1..Len(futures)
  BY DEF Take, Inv, Shape
<1>2. UNCHANGED <<status, cancelled, old>> /\ worker[w].pc = "idle"
  BY DEF Take
<1>3. CASE worker' = worker
  <2>1. Shape' /\ NoGhostExtraction'
    BY <1>1, <1>2, <1>3 DEF Inv, Shape, NoGhostExtraction, Extracting
  <2>2. NotStarted'
    BY <1>1, <1>2, <1>3 DEF Inv, NotStarted
  <2>3. OnePlace'
    <3>1. \A i, j \in 1..Len(futures') : futures'[i] = futures'[j] => i = j
      BY <1>1 DEF Inv, OnePlace
    <3>2. \A i \in 1..Len(futures'), v \in Worker :
            worker'[v].pc # "idle" => worker'[v].task # futures'[i]
      BY <1>1, <1>3 DEF Inv, OnePlace
    <3> QED
      BY <1>3, <3>1, <3>2 DEF Inv, OnePlace
  <2> QED
    BY <2>1, <2>2, <2>3 DEF Inv
<1>4. CASE worker' = [worker EXCEPT ![w] = Thread("start", Head(futures), 0, "none")]
  <2>1. /\ worker'[w] = Thread("start", futures[1], 0, "none")
        /\ \A v \in Worker : v # w => worker'[v] = worker[v]
    BY <1>1, <1>4 DEF Inv, Shape
  <2>2. worker' \in [Worker -> WorkerState]
    BY <1>1, <1>4 DEF Inv, Shape, WorkerState, Thread
  <2>3. Shape'
    BY <1>1, <1>2, <2>1, <2>2, SMTT(30) DEF Inv, Shape, Thread
  <2>4. NotStarted'
    BY <1>1, <1>2, <2>1 DEF Inv, NotStarted, Thread
  <2>5. OnePlace'
    <3>1. \A i, j \in 1..Len(futures') : futures'[i] = futures'[j] => i = j
      BY <1>1 DEF Inv, OnePlace
    <3>2. \A i \in 1..Len(futures'), v \in Worker :
            worker'[v].pc # "idle" => worker'[v].task # futures'[i]
      <4>1. \A i \in 1..Len(futures') : futures'[i] # futures[1]
        BY <1>1, SMTT(30) DEF Inv, OnePlace
      <4> QED
        BY <1>1, <2>1, <4>1 DEF Inv, OnePlace, Thread
    <3>3. \A u, v \in Worker :
            /\ worker'[u].pc # "idle" /\ worker'[v].pc # "idle"
            /\ worker'[u].task = worker'[v].task
            => u = v
      <4>1. 1 \in 1..Len(futures)
        BY <1>1
      <4>2. \A v \in Worker : worker[v].pc # "idle" => worker[v].task # futures[1]
        BY <4>1 DEF Inv, OnePlace
      <4> QED
        BY <2>1, <4>2 DEF Inv, OnePlace, Thread
    <3> QED
      BY <3>1, <3>2, <3>3 DEF OnePlace
  <2>6. NoGhostExtraction'
    BY <1>2, <2>1 DEF Inv, NoGhostExtraction, Extracting, Thread
  <2> QED
    BY <2>3, <2>4, <2>5, <2>6 DEF Inv
<1> QED
  BY <1>3, <1>4 DEF Take

LEMMA RunStep ==
  ASSUME Inv, NEW w \in Worker, Run(w)
  PROVE  Inv'
<1> DEFINE t == worker[w].task
<1>1. worker[w] \in WorkerState /\ (worker[w].pc # "idle" => t \in Task)
  BY DEF Inv, Shape
<1>2. IdleWorker \in WorkerState /\ IdleWorker.pc = "idle"
  BY DEF IdleWorker, Thread, WorkerState
<1>3. status \in [Task -> Statuses] /\ old \subseteq {u \in Task : status[u] \in Terminal}
  BY DEF Inv, Shape
<1>4. CASE Take(w)
  BY <1>4, TakeStep
<1>5. CASE Start(w)
  <2>1. worker[w].pc = "start" /\ status[t] \in Waiting
        /\ UNCHANGED <<futures, cancelled, old>>
    BY <1>5 DEF Start, Inv, NotStarted
  <2>2. CASE Startable(t)
    <3>1. status[t] = "queued"
      BY <2>1, <2>2 DEF Startable, Waiting, Alive, Gone, Terminal
    <3>2. t \notin old
      BY <1>3, <3>1 DEF Terminal
    <3> DEFINE to == Thread("extract", t, 0, "none")
    <3>3. to \in WorkerState /\ worker' = [worker EXCEPT ![w] = to]
      BY <1>1, <1>5, <2>1, <2>2 DEF Start, Thread, WorkerState
    <3>4. /\ status' \in [Task -> Statuses] /\ status'[t] = "running"
          /\ \A u \in Task : u # t => status'[u] = status[u]
      BY <1>1, <1>3, <1>5, <2>1, <2>2 DEF Start, Statuses, Alive
    <3> HIDE DEF to
    <3>5. to.pc = "extract" /\ to.task = t
      BY DEF to, Thread
    <3> QED
      BY <2>1, <3>2, <3>3, <3>4, <3>5, ThreadKeepsInv
  <2>3. CASE ~Startable(t)
    BY <1>2, <1>3, <1>5, <2>1, <2>3, ThreadKeepsInv DEF Start
  <2> QED
    BY <2>2, <2>3
<1>6. CASE Stage(w) \/ \E outcome \in {"result", "error", "stopped"} : Return(w, outcome)
  <2>1. /\ worker[w].pc = "extract" /\ UNCHANGED <<status, futures, cancelled, old>>
        /\ status[t] \in {"running", "cancel_requested"}
    BY <1>6 DEF Stage, Return, Inv, NoGhostExtraction, Extracting
  <2>2. PICK to \in WorkerState :
          /\ worker' = [worker EXCEPT ![w] = to]
          /\ to.task = t /\ to.pc \in {"extract", "end"}
          /\ to.pc = "end" => to.outcome # "none"
    <3>1. CASE Stage(w)
      <4> DEFINE to == Thread("extract", t, worker[w].stages + 1, "none")
      <4>1. to \in WorkerState /\ to.task = t /\ to.pc = "extract"
        BY <1>1, <2>1 DEF Thread, WorkerState
      <4>2. worker' = [worker EXCEPT ![w] = to]
        BY <3>1 DEF Stage
      <4> QED
        BY <4>1, <4>2
    <3>2. ASSUME NEW outcome \in {"result", "error", "stopped"}, Return(w, outcome)
          PROVE  \E to \in WorkerState :
                   /\ worker' = [worker EXCEPT ![w] = to]
                   /\ to.task = t /\ to.pc \in {"extract", "end"}
                   /\ to.pc = "end" => to.outcome # "none"
      <4> DEFINE to == Thread("end", t, 0, outcome)
      <4>1. to \in WorkerState /\ to.task = t /\ to.pc = "end" /\ to.outcome # "none"
        BY <1>1, <2>1 DEF Thread, WorkerState
      <4>2. worker' = [worker EXCEPT ![w] = to]
        BY <3>2 DEF Return
      <4> QED
        BY <4>1, <4>2
    <3> QED
      BY <1>6, <3>1, <3>2
  <2>3. t \notin old
    BY <1>3, <2>1 DEF Terminal
  <2> QED
    BY <1>3, <2>1, <2>2, <2>3, ThreadKeepsInv
<1>7. CASE End(w)
  <2>1. /\ worker[w].pc = "end" /\ worker' = [worker EXCEPT ![w] = IdleWorker]
        /\ UNCHANGED <<futures, cancelled, old>>
        /\ status[t] \in {"running", "cancel_requested"}
    BY <1>7 DEF End, Inv, NoGhostExtraction, Extracting
  <2>2. worker[w].outcome \in {"result", "error", "stopped"}
    BY <2>1 DEF Inv, Shape, WorkerState
  <2>3. Verdict(t, worker[w].outcome) \in Terminal
    BY <2>2 DEF Verdict, Terminal
  <2>4. /\ status' \in [Task -> Statuses]
        /\ \A u \in Task : u # t => status'[u] = status[u]
        /\ status'[t] \in Terminal
    BY <1>1, <1>3, <1>7, <2>1, <2>3 DEF End, Statuses, Alive
  <2> QED
    BY <1>2, <2>1, <2>4, ThreadKeepsInv
<1> QED
  BY <1>4, <1>5, <1>6, <1>7 DEF Run

LEMMA InvInductive ==
  ASSUME Inv, [Next]_vars
  PROVE  Inv'
<1>1. ASSUME NEW x \in Watcher, Watch(x) PROVE Inv'
  <2>1. CASE Load(x) \/ subscribe(x)
    <3>1. /\ Cleaned \in [Task -> Statuses] /\ status' = Cleaned /\ old' = {}
          /\ UNCHANGED <<cancelled, futures, worker>>
          /\ \A t \in Task : MayBecome(status[t], status'[t])
      BY <2>1, CleanedIsHarmless DEF Inv, Load, subscribe, MayBecome, Gone
    <3> QED
      BY <3>1, CallKeepsInv DEF Inv, Shape
  <2>2. CASE \/ Loaded(x) \/ Receive(x) \/ Disconnect(x)
             \/ \E i \in 1..Len(answers[x]) : Answered(x, i)
    <3>1. UNCHANGED <<status, cancelled, old, futures, worker>>
      BY <2>2 DEF Loaded, Receive, Disconnect, Answered, tasks
    <3> QED
      BY <3>1 DEF Inv, Shape, NotStarted, OnePlace, NoGhostExtraction, Extracting
  <2> QED
    BY <1>1, <2>1, <2>2 DEF Watch
<1>2. CASE UNCHANGED vars
  BY <1>2 DEF vars, Inv, Shape, NotStarted, OnePlace, NoGhostExtraction, Extracting
<1> QED
  BY <1>1, <1>2, CallStep, RunStep DEF Next

LEMMA InvInitially ==
  ASSUME Init
  PROVE  Inv
BY ExtractorAssumption
DEF Init, Inv, Shape, NotStarted, OnePlace, NoGhostExtraction, Extracting,
    IdleWorker, Thread, WorkerState, Statuses

LEMMA InvAlways == Spec => []Inv
BY InvInitially, InvInductive, PTL DEF Spec

--------------------------------------------------------------------------------
\* No extraction ever runs for a task that is finished, deleted, retried or
\* expired: the record _run looks up at its end is always there.
THEOREM ExtractionsHaveTheirTask == Spec => []NoGhostExtraction
BY InvAlways, PTL DEF Inv

\* After cancel() was accepted the task does not succeed any more.
THEOREM CancelledTasksDoNotSucceed == Spec => CancelWins
<1>1. ASSUME Inv, [Next]_vars, NEW t \in cancelled, status'[t] = "succeeded"
      PROVE  status[t] = "succeeded"
  <2>1. t \in Task /\ \A u \in Task : Cleaned[u] = status[u] \/ Cleaned[u] = "expired"
    BY <1>1, CleanedIsHarmless DEF Inv, Shape
  <2>2. CASE status'[t] = status[t]
    BY <1>1, <2>2
  <2>3. ASSUME NEW w \in Worker, Run(w) PROVE status[t] = "succeeded"
    <3>1. CASE End(w) /\ status'[t] # status[t]
      <4>1. worker[w].task = t /\ status'[t] = Verdict(t, worker[w].outcome)
        BY <1>1, <2>1, <3>1 DEF End, Inv, Shape
      <4>2. worker[w].outcome \in {"result", "error", "stopped"}
        BY <1>1, <3>1 DEF End, Inv, Shape, WorkerState
      <4> QED
        BY <1>1, <4>1, <4>2 DEF Verdict
    <3>2. CASE ~End(w)
      BY <1>1, <2>1, <2>3, <3>2 DEF Run, Take, Start, Stage, Return, Inv, Shape
    <3> QED
      BY <1>1, <3>1, <3>2
  <2>4. CASE Call
    BY <1>1, <2>1, <2>4, CallMoves DEF MayBecome, Gone, Inv
  <2>5. ASSUME NEW x \in Watcher, Watch(x) PROVE status[t] = "succeeded"
    BY <1>1, <2>1, <2>5 DEF Watch, Load, Loaded, subscribe, Receive, Disconnect, Answered, tasks
  <2> QED
    BY <1>1, <2>3, <2>4, <2>5 DEF Next, vars
<1>2. Inv /\ [Next]_vars => \A t \in cancelled : status'[t] = "succeeded" => status[t] = "succeeded"
  BY <1>1
<1> QED
  BY <1>2, InvAlways, PTL DEF Spec, CancelWins

\* A finished task only ever becomes deleted or expired.
THEOREM FinishedTasksStay == Spec => FinishedIsFinal
<1>1. ASSUME Inv, [Next]_vars, NEW t \in Task, status[t] \in Terminal
      PROVE  status'[t] \in {status[t]} \cup Gone
  <2>1. \A u \in Task : Cleaned[u] = status[u] \/ Cleaned[u] = "expired"
    BY <1>1, CleanedIsHarmless DEF Inv
  <2>2. ASSUME NEW w \in Worker, Run(w) PROVE status'[t] = status[t]
    <3>1. CASE Start(w)
      <4>1. status[worker[w].task] \in Waiting
        BY <1>1, <3>1 DEF Inv, NotStarted, Start
      <4> QED
        BY <1>1, <3>1, <4>1 DEF Start, Startable, Waiting, Terminal, Alive, Gone, Inv, Shape
    <3>2. CASE End(w)
      <4>1. status[worker[w].task] \in {"running", "cancel_requested"}
        BY <1>1, <3>2 DEF Inv, NoGhostExtraction, Extracting, End
      <4> QED
        BY <1>1, <3>2, <4>1 DEF End, Terminal, Inv, Shape
    <3> QED
      BY <2>2, <3>1, <3>2 DEF Run, Take, Stage, Return
  <2>3. CASE Call
    BY <1>1, <2>3, CallMoves DEF MayBecome, Terminal, Inv
  <2>4. ASSUME NEW x \in Watcher, Watch(x) PROVE status'[t] \in {status[t]} \cup Gone
    BY <2>1, <2>4 DEF Watch, Load, Loaded, subscribe, Receive, Disconnect, Answered, tasks, Gone
  <2> QED
    BY <1>1, <2>2, <2>3, <2>4 DEF Next, vars
<1>2. Inv /\ [Next]_vars => \A t \in Task :
        status[t] \in Terminal => status'[t] \in {status[t]} \cup Gone
  BY <1>1
<1> QED
  BY <1>2, InvAlways, PTL DEF Spec, FinishedIsFinal

--------------------------------------------------------------------------------
(* The refinement. On top of Inv it needs to know what a set cancel_event    *)
(* means: the task is past "running", and only such a task stops early.      *)

CancelSeen ==
  /\ \A t \in cancelled : status[t] \notin {"absent", "queued", "running"}
  /\ \A w \in Worker :
       worker[w].pc = "end" /\ worker[w].outcome = "stopped" => worker[w].task \in cancelled

\* what RemoteState shows of one task
Seen(s) ==
  CASE s = "absent"           -> "none"
    [] s = "cancel_requested" -> "cancelling"
    [] s \in Gone             -> "gone"
    [] OTHER                  -> s

\* the finished tasks a step removes
Vanished == {u \in Task : status[u] \in Terminal /\ status'[u] \in Gone}

LEMMA SeenState ==
  /\ RemoteState = [t \in Task |-> Seen(status[t])]
  /\ RemoteState' = [t \in Task |-> Seen(status'[t])]
BY DEF RemoteState, Seen

LEMMA VanishedWereFinished == Vanished \in SUBSET Remote!Finished
<1>1. \A t \in Task : status[t] \in Terminal => Seen(status[t]) \in Remote!Over
  BY DEF Seen, Terminal, Gone, Remote!Over
<1> QED
  BY <1>1, SeenState DEF Vanished, Remote!Finished

\* A step that removes finished tasks and does nothing else.
LEMMA OnlyVanished ==
  ASSUME \A u \in Task : status'[u] = status[u] \/ u \in Vanished
  PROVE  [Remote!Next]_RemoteState
<1>1. CASE Vanished = {}
  BY <1>1, SeenState
<1>2. CASE Vanished # {}
  <2>1. \A u \in Task : u \in Vanished => Seen(status'[u]) = "gone"
    BY DEF Vanished, Seen, Gone
  <2>2. Remote!Forget(Vanished)
    BY <1>2, <2>1, SeenState DEF Remote!Forget
  <2> QED
    BY <2>2, VanishedWereFinished DEF Remote!Next
<1> QED
  BY <1>1, <1>2

\* A step that moves one task, besides removing finished ones.
LEMMA OneMoved ==
  ASSUME NEW t \in Task,
         \A u \in Task \ {t} : status'[u] = status[u] \/ u \in Vanished
  PROVE  Remote!Move(t, Seen(status'[t]), Vanished)
<1>1. \A u \in Task : u \in Vanished => Seen(status'[u]) = "gone"
  BY DEF Vanished, Seen, Gone
<1> QED
  BY <1>1, SeenState DEF Remote!Move

\* A step that moves one task and removes none.
LEMMA OnlyOneMoved ==
  ASSUME NEW t \in Task, \A u \in Task \ {t} : status'[u] = status[u]
  PROVE  Remote!Move(t, Seen(status'[t]), {})
BY SeenState DEF Remote!Move

LEMMA CancelSeenInductive ==
  ASSUME Inv, CancelSeen, [Next]_vars
  PROVE  CancelSeen'
<1>0. /\ \A u \in Task : Cleaned[u] = status[u] \/ Cleaned[u] = "expired"
      /\ Cleaned \in [Task -> Statuses]
  BY CleanedIsHarmless DEF Inv
<1>1. ASSUME NEW t \in Task, NEW by,
             CancelQueued(t, by) \/ CancelRunning(t, by) \/ CancelAgain(t, by)
      PROVE  CancelSeen'
  <2>1. /\ UNCHANGED worker /\ cancelled' = cancelled \cup {t}
        /\ status'[t] \in {"cancelled", "cancel_requested"}
        /\ \A u \in Task \ {t} : status'[u] = status[u] \/ status'[u] = "expired"
    BY <1>0, <1>1 DEF CancelQueued, CancelRunning, CancelAgain, CancelQueuedTo
  <2> QED
    BY <2>1 DEF Inv, Shape, CancelSeen
<1>2. ASSUME Call, UNCHANGED cancelled PROVE CancelSeen'
  <2>1. UNCHANGED worker
    BY <1>2 DEF Call, create, retry, CancelQueued, CancelRunning, CancelAgain, delete,
                delete_by_statuses, DeleteAll, Read, ResolveStart, ResolveEnd, Age
  <2>2. \A t \in Task : \/ MayBecome(status[t], status'[t])
                        \/ status[t] = "absent" /\ status'[t] = "queued"
    BY <1>2, CallMoves DEF Inv
  <2>3. ASSUME NEW t \in cancelled PROVE status'[t] \notin {"absent", "queued", "running"}
    <3>1. t \in Task /\ status[t] \notin {"absent", "queued", "running"}
      BY DEF Inv, Shape, CancelSeen
    <3> QED
      BY <2>2, <3>1 DEF MayBecome, Terminal, Gone
  <2> QED
    BY <1>2, <2>1, <2>3 DEF CancelSeen
<1>3. ASSUME NEW w \in Worker, Run(w) PROVE CancelSeen'
  <2>0. \A v \in Worker \ {w} : worker'[v] = worker[v]
    BY <1>3 DEF Run, Take, Start, Stage, Return, End, Inv, Shape
  <2>1. UNCHANGED cancelled
    BY <1>3 DEF Run, Take, Start, Stage, Return, End
  <2>2. \A t \in cancelled : status'[t] \notin {"absent", "queued", "running"}
    <3>1. CASE Start(w)
      <4> DEFINE t == worker[w].task
      <4>1. status[t] \in Waiting /\ t \in Task
        BY <3>1 DEF Start, Inv, Shape, NotStarted
      <4>2. Startable(t) => t \notin cancelled
        BY <4>1 DEF Startable, Waiting, Alive, Terminal, Gone, CancelSeen
      <4> QED
        BY <3>1, <4>1, <4>2 DEF Start, Inv, Shape, CancelSeen
    <3>2. CASE End(w)
      <4> DEFINE t == worker[w].task
      <4>1. worker[w].outcome \in {"result", "error", "stopped"} /\ t \in Task
        BY <3>2 DEF End, Inv, Shape, WorkerState
      <4>2. Verdict(t, worker[w].outcome) \in Terminal
        BY <4>1 DEF Verdict, Terminal
      <4> QED
        BY <3>2, <4>1, <4>2 DEF End, Inv, Shape, CancelSeen, Terminal
    <3>3. CASE UNCHANGED status
      BY <3>3 DEF CancelSeen
    <3> QED
      BY <1>3, <3>1, <3>2, <3>3 DEF Run, Take, Stage, Return
  <2>3. worker'[w].pc = "end" /\ worker'[w].outcome = "stopped" => worker'[w].task \in cancelled
    <3>1. CASE \E outcome \in {"result", "error", "stopped"} : Return(w, outcome)
      BY <3>1 DEF Return, Thread, Inv, Shape
    <3>2. CASE Take(w) \/ Start(w) \/ Stage(w) \/ End(w)
      BY <3>2 DEF Take, Start, Stage, End, IdleWorker, Thread, Inv, Shape, CancelSeen
    <3> QED
      BY <1>3, <3>1, <3>2 DEF Run
  <2> QED
    BY <2>0, <2>1, <2>2, <2>3 DEF CancelSeen
<1>4. ASSUME NEW x \in Watcher, Watch(x) PROVE CancelSeen'
  <2>1. UNCHANGED <<cancelled, worker>> /\ (status' = status \/ status' = Cleaned)
    BY <1>4 DEF Watch, Load, Loaded, subscribe, Receive, Disconnect, Answered, tasks
  <2> QED
    BY <1>0, <2>1 DEF CancelSeen, Inv, Shape
<1>5. CASE UNCHANGED vars
  BY <1>5 DEF vars, CancelSeen
<1>6. CASE Call
  <2>1. UNCHANGED cancelled \/ \E t \in Task : \E by \in Callers[t] :
          CancelQueued(t, by) \/ CancelRunning(t, by) \/ CancelAgain(t, by)
    BY <1>6 DEF Call, create, retry, delete, delete_by_statuses, DeleteAll, Read,
                ResolveStart, ResolveEnd, Age
  <2> QED
    BY <1>1, <1>2, <1>6, <2>1
<1> QED
  BY <1>3, <1>4, <1>5, <1>6 DEF Next

LEMMA CallIsRemote ==
  ASSUME Inv, Call
  PROVE  [Remote!Next]_RemoteState
<1>0. /\ Cleaned \in [Task -> Statuses] /\ status \in [Task -> Statuses]
      /\ \A u \in Task : \/ Cleaned[u] = status[u]
                         \/ status[u] \in Terminal /\ Cleaned[u] = "expired"
  BY CleanedIsHarmless DEF Inv, Shape
<1>1. ASSUME NEW t \in Task, status[t] = "absent", status'[t] = "queued",
             \A u \in Task \ {t} : status'[u] = status[u] \/ u \in Vanished
      PROVE  [Remote!Next]_RemoteState
  <2>1. RemoteState[t] = "none" /\ Seen(status'[t]) = "queued"
    BY <1>1, SeenState DEF Seen, Gone
  <2>2. Remote!Submit(t, Vanished)
    BY <1>1, <2>1, OneMoved DEF Remote!Submit
  <2> QED
    BY <2>2, VanishedWereFinished DEF Remote!Next
<1>2. ASSUME NEW t \in Task, NEW by, create(t, by) PROVE [Remote!Next]_RemoteState
  <2>1. \A u \in Task \ {t} : status'[u] = status[u] \/ u \in Vanished
    BY <1>0, <1>2 DEF create, Vanished, Gone
  <2> QED
    BY <1>0, <1>1, <1>2, <2>1 DEF create
<1>3. ASSUME NEW t \in Task, NEW u \in Task, NEW by, retry(t, u, by) PROVE [Remote!Next]_RemoteState
  <2>1. t # u /\ status[t] \in Terminal
    BY <1>0, <1>3 DEF retry, Retriable, Terminal
  <2>2. /\ status'[u] = "queued"
        /\ \A v \in Task \ {u} : status'[v] = status[v] \/ v \in Vanished
    BY <1>0, <1>3, <2>1 DEF retry, Vanished, Gone
  <2> QED
    BY <1>1, <1>3, <2>2 DEF retry
<1>4. ASSUME NEW t \in Task, NEW by,
             CancelQueued(t, by) \/ CancelRunning(t, by)
      PROVE  [Remote!Next]_RemoteState
  <2>1. \A u \in Task \ {t} : status'[u] = status[u] \/ u \in Vanished
    BY <1>0, <1>4 DEF CancelQueued, CancelRunning, Vanished, Gone
  <2>2. \/ status[t] = "queued" /\ status'[t] = "cancelled"
        \/ status[t] = "running" /\ status'[t] = "cancel_requested"
    BY <1>0, <1>4 DEF CancelQueued, CancelRunning, CancelQueuedTo, Terminal
  <2>3. \/ RemoteState[t] = "queued" /\ Seen(status'[t]) = "cancelled"
        \/ RemoteState[t] = "running" /\ Seen(status'[t]) = "cancelling"
    BY <2>2, SeenState DEF Seen, Gone
  <2>4. Remote!Cancel(t, Vanished)
    BY <2>1, <2>3, OneMoved DEF Remote!Cancel
  <2> QED
    BY <2>4, VanishedWereFinished DEF Remote!Next
<1>5. ASSUME NEW gone \in SUBSET {u \in Task : Cleaned[u] \in Terminal}, NEW by,
             DeleteAll(gone, by)
      PROVE  [Remote!Next]_RemoteState
  <2>1. \A u \in Task : status'[u] = status[u] \/ u \in Vanished
    BY <1>0, <1>5 DEF DeleteAll, Vanished, Terminal, Gone
  <2> QED
    BY <2>1, OnlyVanished
<1>6. ASSUME NEW t \in Task, NEW by, delete(t, by) PROVE [Remote!Next]_RemoteState
  BY <1>5, <1>6 DEF delete, Deletable
<1>7. ASSUME NEW statuses \in {{"failed", "cancelled"}, {"succeeded"}}, NEW by,
             delete_by_statuses(statuses, by)
      PROVE  [Remote!Next]_RemoteState
  <2>1. {u \in Task : Cleaned[u] \in statuses}
          \in SUBSET {u \in Task : Cleaned[u] \in Terminal}
    BY DEF Terminal
  <2> QED
    BY <1>5, <1>7, <2>1 DEF delete_by_statuses
<1>8. ASSUME Read \/ \E t \in Task : \E by \in Callers[t] : CancelAgain(t, by)
      PROVE  [Remote!Next]_RemoteState
  <2>1. \A u \in Task : status'[u] = status[u] \/ u \in Vanished
    BY <1>0, <1>8 DEF Read, CancelAgain, Vanished, Gone
  <2> QED
    BY <2>1, OnlyVanished
<1>9. ASSUME NEW t \in Task, ResolveStart(t) \/ ResolveEnd(t) \/ Age(t)
      PROVE  [Remote!Next]_RemoteState
  <2>1. status' = status
    BY <1>9 DEF ResolveStart, ResolveEnd, Age
  <2> QED
    BY <2>1, OnlyVanished
<1> QED
  BY <1>2, <1>3, <1>4, <1>6, <1>7, <1>8, <1>9 DEF Call

LEMMA RunIsRemote ==
  ASSUME Inv, CancelSeen, NEW w \in Worker, Run(w)
  PROVE  [Remote!Next]_RemoteState
<1> DEFINE t == worker[w].task
<1>1. ASSUME status' = status PROVE [Remote!Next]_RemoteState
  BY <1>1, OnlyVanished
<1>2. status \in [Task -> Statuses]
  BY DEF Inv, Shape
<1>3. CASE Start(w) /\ Startable(t)
  <2>1. t \in Task /\ status[t] = "queued"
    BY <1>3 DEF Start, Startable, Inv, Shape, NotStarted, Waiting, Alive, Terminal, Gone
  <2>2. status'[t] = "running" /\ \A u \in Task \ {t} : status'[u] = status[u]
    BY <1>2, <1>3, <2>1 DEF Start
  <2>3. RemoteState[t] = "queued" /\ Seen(status'[t]) = "running"
    BY <2>1, <2>2, SeenState DEF Seen, Gone
  <2>4. Remote!Begin(t)
    BY <2>1, <2>2, <2>3, OnlyOneMoved DEF Remote!Begin
  <2> QED
    BY <2>1, <2>4 DEF Remote!Next, Remote!Work
<1>4. CASE End(w)
  <2> DEFINE v == Verdict(t, worker[w].outcome)
  <2>1. /\ t \in Task /\ worker[w].pc = "end"
        /\ worker[w].outcome \in {"result", "error", "stopped"}
        /\ status[t] \in {"running", "cancel_requested"}
    BY <1>4 DEF End, Inv, Shape, WorkerState, NoGhostExtraction, Extracting
  <2>2. status'[t] = v /\ \A u \in Task \ {t} : status'[u] = status[u]
    BY <1>2, <1>4, <2>1 DEF End, Alive
  <2>3. status[t] = "running" => t \notin cancelled /\ worker[w].outcome # "stopped"
    BY <2>1 DEF CancelSeen
  <2>4. \/ status[t] = "running" /\ v \in {"succeeded", "failed"}
        \/ status[t] = "cancel_requested" /\ v \in {"failed", "cancelled"}
    BY <2>1, <2>3 DEF Verdict
  <2>5. \/ RemoteState[t] = "running" /\ Seen(v) \in {"succeeded", "failed"}
        \/ RemoteState[t] = "cancelling" /\ Seen(v) \in {"failed", "cancelled"}
    BY <2>1, <2>4, SeenState DEF Seen, Gone
  <2>6. Seen(v) \in Remote!Verdicts(t, RemoteState[t])
    BY <2>1, <2>5 DEF Remote!Verdicts
  <2>7. Remote!Finish(t)
    BY <2>1, <2>2, <2>6, OnlyOneMoved DEF Remote!Finish
  <2> QED
    BY <2>1, <2>7 DEF Remote!Next, Remote!Work
<1> QED
  BY <1>1, <1>3, <1>4 DEF Run, Take, Start, Stage, Return

\* The task manager implements RemoteTask, as far as safety goes: what the hub
\* sees through /api/tasks of any number of calls, threads and browsers is a
\* job that takes one step at a time and never succeeds after a cancel.
THEOREM ManagerRefinesRemoteTask == Spec => Remote!Spec
<1>1. Init => CancelSeen /\ Remote!Init
  BY DEF Init, CancelSeen, IdleWorker, Thread, Remote!Init, RemoteState, Gone
<1>2. Inv /\ CancelSeen /\ [Next]_vars => CancelSeen'
  BY CancelSeenInductive
<1>3. Inv /\ CancelSeen /\ [Next]_vars => [Remote!Next]_RemoteState
  <2> SUFFICES ASSUME Inv, CancelSeen, [Next]_vars
               PROVE  [Remote!Next]_RemoteState
    OBVIOUS
  <2>1. ASSUME NEW x \in Watcher, Watch(x) PROVE [Remote!Next]_RemoteState
    <3>1. status' = status \/ status' = Cleaned
      BY <2>1 DEF Watch, Load, Loaded, subscribe, Receive, Disconnect, Answered, tasks
    <3>2. \A u \in Task : status'[u] = status[u] \/ u \in Vanished
      BY <3>1, CleanedIsHarmless DEF Inv, Vanished, Gone
    <3> QED
      BY <3>2, OnlyVanished
  <2>2. CASE UNCHANGED vars
    BY <2>2, OnlyVanished DEF vars
  <2> QED
    BY <2>1, <2>2, CallIsRemote, RunIsRemote DEF Next
<1> QED
  BY <1>1, <1>2, <1>3, InvAlways, PTL DEF Spec, Remote!Spec

--------------------------------------------------------------------------------
(* Induction. The library's induction theorems take an operator as their     *)
(* argument and cannot be applied here; the same is had from sets of numbers.*)

\* Every non-empty set of numbers has a least one: what the inductions below
\* use in the place of a scheme over predicates.
LEMMA LeastNumber ==
  ASSUME NEW T \in SUBSET Nat, T # {}
  PROVE  \E m \in T : \A k \in T : m <= k
<1> DEFINE D == {0 .. n : n \in T}
<1>1. D \subseteq FiniteSubsetsOf(Nat) /\ D # {}
  <2>1. ASSUME NEW n \in T PROVE 0 .. n \in FiniteSubsetsOf(Nat)
    <3>1. IsFiniteSet(0 .. n)
      BY FS_Interval
    <3> QED
      BY <3>1 DEF FiniteSubsetsOf
  <2> QED
    BY <2>1
<1>2. PICK x \in D : \A y \in D : ~ (<<y, x>> \in StrictSubsetOrdering(Nat))
  <2> HIDE DEF D
  <2> QED
    BY <1>1, FS_StrictSubsetOrderingWellFounded, WFMin
<1>3. PICK m \in T : x = 0 .. m
  OBVIOUS
<1>4. ASSUME NEW k \in T, k < m PROVE FALSE
  <2>1. /\ 0 .. k \in D /\ 0 .. k \subseteq 0 .. m
        /\ m \in 0 .. m /\ m \notin 0 .. k
    BY <1>4
  <2>2. <<0 .. k, 0 .. m>> \in StrictSubsetOrdering(Nat)
    BY <2>1 DEF StrictSubsetOrdering
  <2> QED
    BY <1>2, <1>3, <2>1, <2>2
<1> QED
  BY <1>4

\* Induction up to n, with the set of the numbers that have the property.
LEMMA UpTo ==
  ASSUME NEW n \in Nat, NEW P, 0 \in P,
         \A k \in 0 .. n : k < n /\ k \in P => k + 1 \in P
  PROVE  \A k \in 0 .. n : k \in P
<1> DEFINE T == {k \in 0 .. n : k \notin P}
<1>1. ASSUME T # {} PROVE FALSE
  <2>1. T \in SUBSET Nat
    OBVIOUS
  <2>2. PICK m \in T : \A k \in T : m <= k
    <3> HIDE DEF T
    <3> QED
      BY <1>1, <2>1, LeastNumber
  <2>3. m # 0 /\ m - 1 \in 0 .. n /\ m - 1 < n
    OBVIOUS
  <2>4. m - 1 \in P
    BY <2>2, <2>3
  <2> QED
    BY <2>3, <2>4
<1> QED
  BY <1>1

\* Offered puts the events into the queue one after the other.
LEMMA OfferedRuns ==
  ASSUME NEW q, NEW events, Len(events) \in Nat
  PROVE  \E f : /\ f[0] = q
                /\ \A k \in 1 .. Len(events) : f[k] = Offer(f[k - 1], events[k])
                /\ Offered(q, events) = f[Len(events)]
<1> DEFINE n == Len(events)
           Good(f, m) == f = [k \in 0 .. m |->
                                IF k = 0 THEN q ELSE Offer(f[k - 1], events[k])]
           P == {m \in 0 .. n : \E f : Good(f, m)}
<1>0. n \in Nat /\ 0 \in 0 .. n /\ n \in 0 .. n
  OBVIOUS
<1>1. 0 \in P
  <2> DEFINE f == [k \in 0 .. 0 |-> q]
  <2>1. f = [k \in 0 .. 0 |-> IF k = 0 THEN q ELSE Offer(f[k - 1], events[k])]
    OBVIOUS
  <2>2. \E h : Good(h, 0)
    BY <2>1
  <2> QED
    BY <1>0, <2>2
<1>2. ASSUME NEW m \in 0 .. n, m < n, m \in P PROVE m + 1 \in P
  <2>1. PICK f : Good(f, m)
    BY <1>2
  <2>2. /\ f[0] = q
        /\ \A k \in 1 .. m : f[k] = Offer(f[k - 1], events[k])
    BY <2>1
  <2> DEFINE g == [k \in 0 .. m + 1 |->
                     IF k = m + 1 THEN Offer(f[m], events[m + 1]) ELSE f[k]]
  <2>3. ASSUME NEW k \in 0 .. m + 1
        PROVE  g[k] = IF k = 0 THEN q ELSE Offer(g[k - 1], events[k])
    <3>1. CASE k = 0
      BY <2>2, <3>1
    <3>2. CASE k \in 1 .. m
      BY <2>2, <3>2
    <3>3. CASE k = m + 1
      BY <3>3
    <3> QED
      BY <3>1, <3>2, <3>3
  <2>4. Good(g, m + 1)
    <3>1. g = [k \in 0 .. m + 1 |-> g[k]]
      OBVIOUS
    <3> HIDE DEF g
    <3> QED
      BY <2>3, <3>1
  <2>5. \E h : Good(h, m + 1)
    <3> HIDE DEF g, Good
    <3> QED
      BY <2>4
  <2> QED
    BY <1>2, <2>5
<1>3. n \in P
  <2> HIDE DEF P, n
  <2>1. \A k \in 0 .. n : k < n /\ k \in P => k + 1 \in P
    BY <1>2
  <2> QED
    BY <1>0, <1>1, <2>1, UpTo
<1>4. PICK f : Good(f, n)
  BY <1>3
<1> DEFINE g == CHOOSE h : Good(h, n)
<1>5. Good(g, n)
  <2> HIDE DEF Good
  <2> QED
    BY <1>4
<1>6. Offered(q, events) = g[n]
  BY DEF Offered
<1>7. g[0] = q /\ \A k \in 1 .. n : g[k] = Offer(g[k - 1], events[k])
  <2> HIDE DEF g
  <2> QED
    BY <1>0, <1>5
<1> HIDE DEF g
<1> QED
  BY <1>6, <1>7

\* one step of Replay
Sift(kept, e) == IF Relevant(e) THEN Append(kept, e) ELSE kept

\* Replay looks at the events of a history one after the other.
LEMMA ReplayRuns ==
  ASSUME NEW h, Len(h) \in Nat
  PROVE  \E f : /\ f[0] = <<>>
                /\ \A k \in 1 .. Len(h) : f[k] = Sift(f[k - 1], h[k])
                /\ Replay(h) = f[Len(h)]
<1> DEFINE n == Len(h)
           Good(f, m) == f = [k \in 0 .. m |->
                                IF k = 0 THEN <<>> ELSE Sift(f[k - 1], h[k])]
           P == {m \in 0 .. n : \E f : Good(f, m)}
<1>0. n \in Nat /\ 0 \in 0 .. n /\ n \in 0 .. n
  OBVIOUS
<1>1. 0 \in P
  <2> DEFINE f == [k \in 0 .. 0 |-> <<>>]
  <2>1. f = [k \in 0 .. 0 |-> IF k = 0 THEN <<>> ELSE Sift(f[k - 1], h[k])]
    OBVIOUS
  <2>2. \E p : Good(p, 0)
    BY <2>1
  <2> QED
    BY <1>0, <2>2
<1>2. ASSUME NEW m \in 0 .. n, m < n, m \in P PROVE m + 1 \in P
  <2>1. PICK f : Good(f, m)
    BY <1>2
  <2>2. /\ f[0] = <<>>
        /\ \A k \in 1 .. m : f[k] = Sift(f[k - 1], h[k])
    BY <2>1
  <2> DEFINE g == [k \in 0 .. m + 1 |->
                     IF k = m + 1 THEN Sift(f[m], h[m + 1]) ELSE f[k]]
  <2>3. ASSUME NEW k \in 0 .. m + 1
        PROVE  g[k] = IF k = 0 THEN <<>> ELSE Sift(g[k - 1], h[k])
    <3>1. CASE k = 0
      BY <2>2, <3>1
    <3>2. CASE k \in 1 .. m
      BY <2>2, <3>2
    <3>3. CASE k = m + 1
      BY <3>3
    <3> QED
      BY <3>1, <3>2, <3>3
  <2>4. Good(g, m + 1)
    <3>1. g = [k \in 0 .. m + 1 |-> g[k]]
      OBVIOUS
    <3> HIDE DEF g
    <3> QED
      BY <2>3, <3>1
  <2>5. \E p : Good(p, m + 1)
    <3> HIDE DEF g, Good
    <3> QED
      BY <2>4
  <2> QED
    BY <1>2, <2>5
<1>3. n \in P
  <2> HIDE DEF P, n
  <2>1. \A k \in 0 .. n : k < n /\ k \in P => k + 1 \in P
    BY <1>2
  <2> QED
    BY <1>0, <1>1, <2>1, UpTo
<1>4. PICK f : Good(f, n)
  BY <1>3
<1> DEFINE g == CHOOSE p : Good(p, n)
<1>5. Good(g, n)
  <2> HIDE DEF Good
  <2> QED
    BY <1>4
<1>6. Replay(h) = g[n]
  BY DEF Replay, Sift
<1>7. g[0] = <<>> /\ \A k \in 1 .. n : g[k] = Sift(g[k - 1], h[k])
  <2> HIDE DEF g
  <2> QED
    BY <1>0, <1>5
<1> HIDE DEF g
<1> QED
  BY <1>6, <1>7

--------------------------------------------------------------------------------
(* Events as the steps publish them, and what a sequence of them says of a   *)
(* task: nothing, or the status that its last event carries. A log line      *)
(* tells a browser nothing of the status.                                    *)

Events ==
  {e \in EventSet :
     /\ e.type = "deleted" => e.status \notin Alive
     /\ e.type \notin {"deleted", "log"} => e.status \in Alive
     /\ e.status \in Terminal => e.type \in Terminal}

About(e, t) == e.task = t /\ e.type # "log"

Silent(s, t) == \A i \in 1 .. Len(s) : ~ About(s[i], t)

Tells(s, t, v) ==
  \E i \in 1 .. Len(s) :
    /\ About(s[i], t) /\ s[i].status = v
    /\ \A j \in 1 .. Len(s) : j > i => ~ About(s[j], t)

LEMMA AfterAppend ==
  ASSUME NEW s \in Seq(Events), NEW e \in Events, NEW t, NEW v
  PROVE  /\ About(e, t) /\ e.status = v => Tells(Append(s, e), t, v)
         /\ ~ About(e, t) /\ Tells(s, t, v) => Tells(Append(s, e), t, v)
         /\ ~ About(e, t) /\ Silent(s, t) => Silent(Append(s, e), t)
<1> DEFINE r == Append(s, e)
<1>1. /\ Len(s) \in Nat /\ Len(r) = Len(s) + 1 /\ r[Len(s) + 1] = e
      /\ \A i \in 1 .. Len(s) : r[i] = s[i]
  OBVIOUS
<1> HIDE DEF r
<1>2. ASSUME About(e, t), e.status = v PROVE Tells(r, t, v)
  <2>1. Len(r) \in 1 .. Len(r) /\ r[Len(r)] = e
    BY <1>1
  <2>2. \A j \in 1 .. Len(r) : ~ j > Len(r)
    BY <1>1
  <2> QED
    BY <1>2, <2>1, <2>2 DEF Tells
<1>3. ASSUME ~ About(e, t), Tells(s, t, v) PROVE Tells(r, t, v)
  <2>1. PICK i \in 1 .. Len(s) :
           /\ About(s[i], t) /\ s[i].status = v
           /\ \A j \in 1 .. Len(s) : j > i => ~ About(s[j], t)
    BY <1>3 DEF Tells
  <2>2. i \in 1 .. Len(r) /\ r[i] = s[i]
    BY <1>1
  <2>3. ASSUME NEW j \in 1 .. Len(r), j > i PROVE ~ About(r[j], t)
    <3>1. j \in 1 .. Len(s) \/ j = Len(s) + 1
      BY <1>1
    <3> QED
      BY <1>1, <1>3, <2>1, <2>3, <3>1
  <2> QED
    BY <2>1, <2>2, <2>3 DEF Tells
<1>4. ASSUME ~ About(e, t), Silent(s, t) PROVE Silent(r, t)
  <2>1. \A j \in 1 .. Len(r) : j \in 1 .. Len(s) \/ j = Len(s) + 1
    BY <1>1
  <2> QED
    BY <1>1, <1>4, <2>1 DEF Silent
<1> QED
  BY <1>2, <1>3, <1>4 DEF r

LEMMA AfterConcat ==
  ASSUME NEW s \in Seq(Events), NEW r \in Seq(Events), NEW t, NEW v
  PROVE  /\ Tells(r, t, v) => Tells(s \o r, t, v)
         /\ Tells(s, t, v) /\ Silent(r, t) => Tells(s \o r, t, v)
         /\ Silent(s, t) /\ Silent(r, t) => Silent(s \o r, t)
         /\ Silent(s \o r, t) => Silent(s, t) /\ Silent(r, t)
<1> DEFINE c == s \o r
<1>1. /\ Len(s) \in Nat /\ Len(r) \in Nat /\ Len(c) = Len(s) + Len(r)
      /\ \A i \in 1 .. Len(s) : c[i] = s[i]
      /\ \A i \in 1 .. Len(r) : c[Len(s) + i] = r[i]
  OBVIOUS
<1> HIDE DEF c
<1>2. \A j \in 1 .. Len(c) :
        \/ j \in 1 .. Len(s) /\ c[j] = s[j]
        \/ j - Len(s) \in 1 .. Len(r) /\ c[j] = r[j - Len(s)] /\ j > Len(s)
  <2> TAKE j \in 1 .. Len(c)
  <2>1. CASE j <= Len(s)
    BY <1>1, <2>1
  <2>2. CASE j > Len(s)
    <3>1. j - Len(s) \in 1 .. Len(r) /\ Len(s) + (j - Len(s)) = j
      BY <1>1, <2>2
    <3> QED
      BY <1>1, <2>2, <3>1
  <2> QED
    BY <1>1, <2>1, <2>2
<1>3. ASSUME Tells(r, t, v) PROVE Tells(c, t, v)
  <2>1. PICK i \in 1 .. Len(r) :
           /\ About(r[i], t) /\ r[i].status = v
           /\ \A j \in 1 .. Len(r) : j > i => ~ About(r[j], t)
    BY <1>3 DEF Tells
  <2>2. Len(s) + i \in 1 .. Len(c) /\ c[Len(s) + i] = r[i]
    BY <1>1
  <2>3. ASSUME NEW j \in 1 .. Len(c), j > Len(s) + i PROVE ~ About(c[j], t)
    <3>1. j - Len(s) \in 1 .. Len(r) /\ c[j] = r[j - Len(s)] /\ j - Len(s) > i
      BY <1>1, <1>2, <2>3
    <3> QED
      BY <2>1, <3>1
  <2> QED
    BY <2>1, <2>2, <2>3 DEF Tells
<1>4. ASSUME Tells(s, t, v), Silent(r, t) PROVE Tells(c, t, v)
  <2>1. PICK i \in 1 .. Len(s) :
           /\ About(s[i], t) /\ s[i].status = v
           /\ \A j \in 1 .. Len(s) : j > i => ~ About(s[j], t)
    BY <1>4 DEF Tells
  <2>2. i \in 1 .. Len(c) /\ c[i] = s[i]
    BY <1>1
  <2>3. ASSUME NEW j \in 1 .. Len(c), j > i PROVE ~ About(c[j], t)
    BY <1>2, <1>4, <2>1, <2>3 DEF Silent
  <2> QED
    BY <2>1, <2>2, <2>3 DEF Tells
<1>5. ASSUME Silent(s, t), Silent(r, t) PROVE Silent(c, t)
  BY <1>2, <1>5 DEF Silent
<1>6. ASSUME Silent(c, t) PROVE Silent(s, t) /\ Silent(r, t)
  <2>1. \A i \in 1 .. Len(s) : i \in 1 .. Len(c)
    BY <1>1
  <2>2. \A i \in 1 .. Len(r) : Len(s) + i \in 1 .. Len(c)
    BY <1>1
  <2> QED
    BY <1>1, <1>6, <2>1, <2>2 DEF Silent
<1> QED
  BY <1>3, <1>4, <1>5, <1>6 DEF c

\* r is the end of s.
Suffix(r, s) ==
  /\ Len(r) <= Len(s)
  /\ \A i \in 1 .. Len(r) : r[i] = s[Len(s) - Len(r) + i]

LEMMA SuffixSays ==
  ASSUME NEW s \in Seq(Events), NEW r \in Seq(Events), NEW t, NEW v, Suffix(r, s)
  PROVE  /\ Tells(s, t, v) => Silent(r, t) \/ Tells(r, t, v)
         /\ Silent(s, t) => Silent(r, t)
<1> DEFINE k == Len(s) - Len(r)
<1>1. /\ Len(s) \in Nat /\ Len(r) \in Nat /\ k \in Nat /\ Len(s) = k + Len(r)
      /\ \A i \in 1 .. Len(r) : r[i] = s[k + i] /\ k + i \in 1 .. Len(s)
  BY DEF Suffix
<1> HIDE DEF k
<1>2. ASSUME Silent(s, t) PROVE Silent(r, t)
  BY <1>1, <1>2 DEF Silent
<1>3. ASSUME Tells(s, t, v) PROVE Silent(r, t) \/ Tells(r, t, v)
  <2>1. PICK i \in 1 .. Len(s) :
           /\ About(s[i], t) /\ s[i].status = v
           /\ \A j \in 1 .. Len(s) : j > i => ~ About(s[j], t)
    BY <1>3 DEF Tells
  <2>2. CASE i <= k
    BY <1>1, <2>1, <2>2 DEF Silent
  <2>3. CASE i > k
    <3>1. i - k \in 1 .. Len(r) /\ k + (i - k) = i
      BY <1>1, <2>3
    <3>2. r[i - k] = s[i]
      BY <1>1, <3>1
    <3>3. ASSUME NEW j \in 1 .. Len(r), j > i - k PROVE ~ About(r[j], t)
      <4>1. k + j \in 1 .. Len(s) /\ k + j > i /\ r[j] = s[k + j]
        BY <1>1, <3>3
      <4> QED
        BY <2>1, <4>1
    <3> QED
      BY <2>1, <3>1, <3>2, <3>3 DEF Tells
  <2> QED
    BY <1>1, <2>2, <2>3
<1> QED
  BY <1>2, <1>3

\* Without its head a sequence still tells what it told, unless only the head
\* did.
LEMMA AfterTail ==
  ASSUME NEW s \in Seq(Events), s # <<>>, NEW t, NEW v
  PROVE  /\ Silent(s, t) => ~ About(Head(s), t) /\ Silent(Tail(s), t)
         /\ Tells(s, t, v) =>
              \/ Tells(Tail(s), t, v)
              \/ About(Head(s), t) /\ Head(s).status = v /\ Silent(Tail(s), t)
<1> DEFINE r == Tail(s)
<1>1. /\ Len(s) \in Nat /\ Len(s) > 0 /\ Len(r) = Len(s) - 1 /\ Head(s) = s[1]
      /\ \A i \in 1 .. Len(r) : r[i] = s[i + 1] /\ i + 1 \in 1 .. Len(s)
      /\ r \in Seq(Events) /\ 1 \in 1 .. Len(s)
  OBVIOUS
<1> HIDE DEF r
<1>2. ASSUME Silent(s, t) PROVE ~ About(Head(s), t) /\ Silent(r, t)
  BY <1>1, <1>2 DEF Silent
<1>3. ASSUME Tells(s, t, v)
      PROVE  \/ Tells(r, t, v)
             \/ About(Head(s), t) /\ Head(s).status = v /\ Silent(r, t)
  <2>1. PICK i \in 1 .. Len(s) :
           /\ About(s[i], t) /\ s[i].status = v
           /\ \A j \in 1 .. Len(s) : j > i => ~ About(s[j], t)
    BY <1>3 DEF Tells
  <2>2. CASE i = 1
    <3>1. \A j \in 1 .. Len(r) : ~ About(r[j], t)
      BY <1>1, <2>1, <2>2
    <3> QED
      BY <1>1, <2>1, <2>2, <3>1 DEF Silent
  <2>3. CASE i > 1
    <3>1. i - 1 \in 1 .. Len(r) /\ (i - 1) + 1 = i
      BY <1>1, <2>3
    <3>2. r[i - 1] = s[i]
      BY <1>1, <3>1
    <3>3. ASSUME NEW j \in 1 .. Len(r), j > i - 1 PROVE ~ About(r[j], t)
      <4>1. j + 1 \in 1 .. Len(s) /\ j + 1 > i /\ r[j] = s[j + 1]
        BY <1>1, <3>3
      <4> QED
        BY <2>1, <4>1
    <3> QED
      BY <2>1, <3>1, <3>2, <3>3 DEF Tells
  <2> QED
    BY <2>2, <2>3
<1> QED
  BY <1>2, <1>3 DEF r

--------------------------------------------------------------------------------
(* What Offered and Replay return.                                           *)

\* A queue never grows over its bound, whatever is offered to it.
LEMMA OfferedBounded ==
  ASSUME NEW q \in Seq(Events), Len(q) <= QueueSize, NEW events \in Seq(Events)
  PROVE  Offered(q, events) \in Seq(Events) /\ Len(Offered(q, events)) <= QueueSize
<1> DEFINE n == Len(events)
<1>0. n \in Nat /\ n \in 0 .. n /\ \A k \in 1 .. n : events[k] \in Events
  OBVIOUS
<1>1. PICK f : /\ f[0] = q
               /\ \A k \in 1 .. n : f[k] = Offer(f[k - 1], events[k])
               /\ Offered(q, events) = f[n]
  BY <1>0, OfferedRuns
<1> DEFINE P == {k \in 0 .. n : f[k] \in Seq(Events) /\ Len(f[k]) <= QueueSize}
<1> HIDE DEF n
<1>2. 0 \in P
  BY <1>0, <1>1
<1>3. ASSUME NEW k \in 0 .. n, k < n, k \in P PROVE k + 1 \in P
  <2>1. k + 1 \in 1 .. n /\ (k + 1) - 1 = k /\ k + 1 \in 0 .. n
    BY <1>0, <1>3
  <2>2. f[k + 1] = Offer(f[k], events[k + 1]) /\ events[k + 1] \in Events
    BY <1>0, <1>1, <2>1
  <2>3. f[k] \in Seq(Events) /\ Len(f[k]) <= QueueSize
    BY <1>3
  <2>4. ASSUME NEW s \in Seq(Events), Len(s) <= QueueSize, NEW e \in Events
        PROVE  Offer(s, e) \in Seq(Events) /\ Len(Offer(s, e)) <= QueueSize
    <3>1. QueueSize \in Nat \ {0} /\ Len(s) \in Nat
      BY ExtractorAssumption
    <3>2. CASE Len(s) < QueueSize
      BY <2>4, <3>1, <3>2 DEF Offer
    <3>3. CASE ~ (Len(s) < QueueSize) /\ e.type \in Terminal
      <4>1. s # <<>>
        BY <3>1, <3>3
      <4>2. Tail(s) \in Seq(Events) /\ Len(Tail(s)) = Len(s) - 1
        BY <4>1
      <4> QED
        BY <2>4, <3>1, <3>3, <4>2 DEF Offer
    <3>4. CASE ~ (Len(s) < QueueSize) /\ e.type \notin Terminal
      BY <2>4, <3>4 DEF Offer
    <3> QED
      BY <3>2, <3>3, <3>4
  <2> QED
    BY <2>1, <2>2, <2>3, <2>4
<1>4. n \in P
  <2> HIDE DEF P
  <2>1. \A k \in 0 .. n : k < n /\ k \in P => k + 1 \in P
    BY <1>3
  <2> QED
    BY <1>0, <1>2, <2>1, UpTo
<1> QED
  BY <1>1, <1>4

\* A queue that has room for all events keeps every event it had.
LEMMA OfferedFits ==
  ASSUME NEW q \in Seq(Events), NEW events \in Seq(Events),
         Len(q) + Len(events) <= QueueSize
  PROVE  Offered(q, events) = q \o events
<1> DEFINE n == Len(events)
           Put(k) == q \o SubSeq(events, 1, k)
<1>0. /\ n \in Nat /\ n \in 0 .. n /\ Len(q) \in Nat /\ QueueSize \in Nat
      /\ \A k \in 1 .. n : events[k] \in Events
  BY ExtractorAssumption
<1>1. PICK f : /\ f[0] = q
               /\ \A k \in 1 .. n : f[k] = Offer(f[k - 1], events[k])
               /\ Offered(q, events) = f[n]
  BY <1>0, OfferedRuns
<1> DEFINE P == {k \in 0 .. n : f[k] = Put(k)}
<1>2. 0 \in P
  BY <1>0, <1>1
<1>3. ASSUME NEW k \in 0 .. n, k < n, k \in P PROVE k + 1 \in P
  <2>1. k + 1 \in 1 .. n /\ (k + 1) - 1 = k /\ k + 1 \in 0 .. n
    BY <1>0, <1>3
  <2>2. f[k + 1] = Offer(f[k], events[k + 1]) /\ events[k + 1] \in Events
    BY <1>0, <1>1, <2>1
  <2>3. f[k] = Put(k) /\ Len(Put(k)) = Len(q) + k /\ Put(k) \in Seq(Events)
    BY <1>0, <1>3
  <2>4. Offer(f[k], events[k + 1]) = Append(Put(k), events[k + 1])
    BY <1>0, <1>3, <2>3 DEF Offer
  <2>5. Append(Put(k), events[k + 1]) = Put(k + 1)
    <3>1. Append(SubSeq(events, 1, k), events[k + 1]) = SubSeq(events, 1, k + 1)
      BY <1>0, <1>3
    <3>2. SubSeq(events, 1, k) \in Seq(Events)
      BY <1>0, <1>3
    <3>3. ASSUME NEW s \in Seq(Events), NEW r \in Seq(Events), NEW e \in Events
          PROVE  Append(s \o r, e) = s \o Append(r, e)
      <4>1. ASSUME NEW p \in Seq(Events) PROVE Append(p, e) = p \o <<e>>
        BY SeqEqual
      <4>2. s \o r \in Seq(Events) /\ <<e>> \in Seq(Events)
        OBVIOUS
      <4>3. (s \o r) \o <<e>> = s \o (r \o <<e>>)
        BY <4>2, ConcatAssociative
      <4> QED
        BY <4>1, <4>2, <4>3, Zenon
    <3> HIDE DEF Put
    <3>4. Put(k) = q \o SubSeq(events, 1, k) /\ Put(k + 1) = q \o SubSeq(events, 1, k + 1)
      BY DEF Put
    <3> QED
      BY <2>2, <3>1, <3>2, <3>3, <3>4
  <2> QED
    BY <2>1, <2>2, <2>4, <2>5
<1>4. n \in P
  <2> HIDE DEF P, n
  <2>1. \A k \in 0 .. n : k < n /\ k \in P => k + 1 \in P
    BY <1>3
  <2> QED
    BY <1>0, <1>2, <2>1, UpTo
<1>5. SubSeq(events, 1, n) = events
  OBVIOUS
<1> QED
  BY <1>1, <1>4, <1>5

\* A replay is made of events of the history, and it still tells the status of
\* a task when the events with that status are relevant.
LEMMA ReplayKeeps ==
  ASSUME NEW h \in Seq(Events)
  PROVE  /\ Replay(h) \in Seq(Events) /\ Len(Replay(h)) <= Len(h)
         /\ \A i \in 1 .. Len(Replay(h)) : \E j \in 1 .. Len(h) : Replay(h)[i] = h[j]
<1> DEFINE n == Len(h)
           From(s, k) == \A i \in 1 .. Len(s) : \E j \in 1 .. k : s[i] = h[j]
<1>0. n \in Nat /\ n \in 0 .. n /\ \A k \in 1 .. n : h[k] \in Events
  OBVIOUS
<1>1. PICK f : /\ f[0] = <<>>
               /\ \A k \in 1 .. n : f[k] = Sift(f[k - 1], h[k])
               /\ Replay(h) = f[n]
  BY <1>0, ReplayRuns
<1> DEFINE P == {k \in 0 .. n : f[k] \in Seq(Events) /\ Len(f[k]) <= k /\ From(f[k], k)}
<1> HIDE DEF n
<1>2. 0 \in P
  <2>1. <<>> \in Seq(Events) /\ Len(<<>>) = 0
    OBVIOUS
  <2>2. From(f[0], 0)
    BY <1>1, <2>1
  <2>3. f[0] \in Seq(Events) /\ Len(f[0]) <= 0
    BY <1>1, <2>1
  <2>4. 0 \in 0 .. n
    BY <1>0
  <2> HIDE DEF From
  <2> QED
    BY <2>2, <2>3, <2>4
<1>3. ASSUME NEW k \in 0 .. n, k < n, k \in P PROVE k + 1 \in P
  <2>1. k + 1 \in 1 .. n /\ (k + 1) - 1 = k /\ k + 1 \in 0 .. n
    BY <1>0, <1>3
  <2>2. f[k + 1] = Sift(f[k], h[k + 1]) /\ h[k + 1] \in Events
    BY <1>0, <1>1, <2>1
  <2>3. f[k] \in Seq(Events) /\ Len(f[k]) \in Nat /\ Len(f[k]) <= k /\ From(f[k], k)
    BY <1>3
  <2>4. From(f[k], k + 1)
    BY <1>0, <2>3
  <2>5. /\ Append(f[k], h[k + 1]) \in Seq(Events)
        /\ Len(Append(f[k], h[k + 1])) <= k + 1
    BY <2>2, <2>3
  <2>6. From(Append(f[k], h[k + 1]), k + 1)
    <3> DEFINE s == Append(f[k], h[k + 1])
    <3>1. /\ Len(s) = Len(f[k]) + 1 /\ s[Len(f[k]) + 1] = h[k + 1]
          /\ \A i \in 1 .. Len(f[k]) : s[i] = f[k][i]
      BY <2>2, <2>3
    <3> HIDE DEF s
    <3>2. ASSUME NEW i \in 1 .. Len(s) PROVE \E j \in 1 .. k + 1 : s[i] = h[j]
      <4>1. i \in 1 .. Len(f[k]) \/ i = Len(f[k]) + 1
        BY <2>3, <3>1
      <4>2. CASE i \in 1 .. Len(f[k])
        BY <2>4, <3>1, <4>2
      <4>3. CASE i = Len(f[k]) + 1
        BY <1>0, <3>1, <4>3
      <4> QED
        BY <4>1, <4>2, <4>3
    <3> QED
      BY <3>2 DEF s
  <2>7. f[k + 1] = f[k] \/ f[k + 1] = Append(f[k], h[k + 1])
    BY <2>2 DEF Sift
  <2> HIDE DEF From
  <2>8. f[k + 1] \in Seq(Events) /\ Len(f[k + 1]) <= k + 1
    <3>1. Len(f[k]) <= k + 1
      BY <1>0, <2>3
    <3> QED
      BY <2>3, <2>5, <2>7, <3>1
  <2>9. From(f[k + 1], k + 1)
    BY <2>4, <2>6, <2>7
  <2> QED
    BY <2>1, <2>8, <2>9
<1>4. n \in P
  <2> HIDE DEF P
  <2>1. \A k \in 0 .. n : k < n /\ k \in P => k + 1 \in P
    BY <1>3
  <2> QED
    BY <1>0, <1>2, <2>1, UpTo
<1> QED
  BY <1>1, <1>4 DEF n

LEMMA ReplaySays ==
  ASSUME NEW h \in Seq(Events), NEW t, NEW v,
         \A e \in Events : About(e, t) /\ e.status = v => Relevant(e)
  PROVE  /\ Tells(h, t, v) => Tells(Replay(h), t, v)
         /\ Silent(h, t) => Silent(Replay(h), t)
<1> DEFINE n == Len(h)
<1>0. n \in Nat /\ n \in 0 .. n /\ \A k \in 1 .. n : h[k] \in Events
  OBVIOUS
<1>1. PICK f : /\ f[0] = <<>>
               /\ \A k \in 1 .. n : f[k] = Sift(f[k - 1], h[k])
               /\ Replay(h) = f[n]
  BY <1>0, ReplayRuns
<1>2. ASSUME Silent(h, t) PROVE Silent(Replay(h), t)
  BY <1>2, ReplayKeeps DEF Silent
<1>3. ASSUME Tells(h, t, v) PROVE Tells(Replay(h), t, v)
  <2>1. PICK i \in 1 .. n :
           /\ About(h[i], t) /\ h[i].status = v
           /\ \A j \in 1 .. n : j > i => ~ About(h[j], t)
    BY <1>3 DEF Tells
  <2> DEFINE P == {k \in 0 .. n : f[k] \in Seq(Events)
                                  /\ (k >= i => Tells(f[k], t, v))}
  <2> HIDE DEF n
  <2>2. 0 \in P
    <3>1. <<>> \in Seq(Events)
      OBVIOUS
    <3>2. f[0] \in Seq(Events) /\ 0 \in 0 .. n /\ ~ (0 >= i)
      BY <1>0, <1>1, <3>1
    <3> QED
      BY <3>2
  <2>3. ASSUME NEW k \in 0 .. n, k < n, k \in P PROVE k + 1 \in P
    <3>1. k + 1 \in 1 .. n /\ (k + 1) - 1 = k /\ k + 1 \in 0 .. n
      BY <1>0, <2>3
    <3>2. f[k + 1] = Sift(f[k], h[k + 1]) /\ h[k + 1] \in Events
      BY <1>0, <1>1, <3>1
    <3>3. f[k] \in Seq(Events) /\ (k >= i => Tells(f[k], t, v))
      BY <2>3
    <3>4. f[k + 1] \in Seq(Events)
      BY <3>2, <3>3 DEF Sift
    <3>5. ASSUME k + 1 = i PROVE Tells(f[k + 1], t, v)
      <4>1. Relevant(h[k + 1]) /\ About(h[k + 1], t) /\ h[k + 1].status = v
        BY <2>1, <3>2, <3>5
      <4> QED
        BY <3>2, <3>3, <4>1, AfterAppend DEF Sift
    <3>6. ASSUME k >= i PROVE Tells(f[k + 1], t, v)
      <4>1. ~ About(h[k + 1], t) /\ Tells(f[k], t, v)
        BY <1>0, <2>1, <3>1, <3>3, <3>6
      <4> QED
        BY <3>2, <3>3, <4>1, AfterAppend DEF Sift
    <3>7. k + 1 >= i => k + 1 = i \/ k >= i
      BY <1>0
    <3> QED
      BY <3>1, <3>4, <3>5, <3>6, <3>7
  <2>4. n \in P
    <3> HIDE DEF P
    <3>1. \A k \in 0 .. n : k < n /\ k \in P => k + 1 \in P
      BY <2>3
    <3> QED
      BY <1>0, <2>2, <3>1, UpTo
  <2> QED
    BY <1>0, <1>1, <2>4
<1> QED
  BY <1>2, <1>3

--------------------------------------------------------------------------------
(* The answers that are on their way. What an answer says was true when it   *)
(* was given; the status the task has now can only be a later one.           *)

AnswerState ==
  UNION {[asked -> {"absent", "queued", "cancel_requested", "cancelled"}] :
           asked \in SUBSET Task}

\* The statuses of a task an answer may have been given about.
Since(said, now) ==
  /\ said = "absent" => now \in Gone
  /\ said = "queued" => now # "absent"
  /\ said = "cancelled" => now \in {"cancelled"} \cup Gone
  /\ said = "cancel_requested" => now \in {"cancel_requested"} \cup Terminal \cup Gone

AnswersInv ==
  /\ answers \in [Watcher -> Seq(AnswerState)]
  /\ \A x \in Watcher : Len(answers[x]) <= MaxAnswers
  /\ \A x \in Watcher : \A i \in 1..Len(answers[x]) : \A t \in DOMAIN answers[x][i] :
       Since(answers[x][i][t], status[t])

\* What any step may do to the status of a task.
MovesOn(from, to) ==
  \/ MayBecome(from, to)
  \/ from = "absent" /\ to = "queued"
  \/ from = "queued" /\ to = "running"
  \/ from \in {"running", "cancel_requested"} /\ to \in Terminal

LEMMA AnswerTypes ==
  ASSUME NEW shows \in AnswerState
  PROVE  /\ DOMAIN shows \subseteq Task
         /\ \A t \in DOMAIN shows :
              t \in Task /\ shows[t] \in {"absent", "queued", "cancel_requested", "cancelled"}
BY DEF AnswerState

LEMMA AnswerIsOne ==
  ASSUME NEW asked \in SUBSET Task, NEW shows,
         shows \in [asked -> {"absent", "queued", "cancel_requested", "cancelled"}]
  PROVE  shows \in AnswerState
BY DEF AnswerState

LEMMA StatusMovesOn ==
  ASSUME Inv, [Next]_vars, NEW t \in Task
  PROVE  MovesOn(status[t], status'[t])
<1>1. CASE Call
  BY <1>1, CallMoves DEF Inv, MovesOn
<1>2. ASSUME NEW w \in Worker, Run(w) PROVE MovesOn(status[t], status'[t])
  <2> DEFINE u == worker[w].task
  <2>1. CASE status' = status
    BY <2>1 DEF MovesOn, MayBecome
  <2>2. CASE Start(w) /\ Startable(u)
    <3>1. u \in Task /\ status[u] = "queued"
      BY <2>2 DEF Start, Startable, Inv, Shape, NotStarted, Waiting, Alive, Terminal, Gone
    <3>2. status'[t] = IF t = u THEN "running" ELSE status[t]
      BY <2>2, <3>1 DEF Start, Inv, Shape
    <3> QED
      BY <3>1, <3>2 DEF MovesOn, MayBecome
  <2>3. CASE End(w)
    <3>1. /\ u \in Task /\ status[u] \in {"running", "cancel_requested"}
          /\ worker[w].outcome \in {"result", "error", "stopped"}
      BY <2>3 DEF End, Inv, Shape, WorkerState, NoGhostExtraction, Extracting
    <3>2. Verdict(u, worker[w].outcome) \in Terminal
      BY <3>1 DEF Verdict, Terminal
    <3>3. status'[t] = IF t = u THEN Verdict(u, worker[w].outcome) ELSE status[t]
      BY <2>3, <3>1 DEF End, Inv, Shape, Alive
    <3> QED
      BY <3>1, <3>2, <3>3 DEF MovesOn, MayBecome
  <2> QED
    BY <1>2, <2>1, <2>2, <2>3 DEF Run, Take, Start, Stage, Return
<1>3. ASSUME NEW x \in Watcher, Watch(x) PROVE MovesOn(status[t], status'[t])
  <2>1. status' = status \/ status' = Cleaned
    BY <1>3 DEF Watch, Load, Loaded, subscribe, Receive, Disconnect, Answered, tasks
  <2>2. \/ status'[t] = status[t]
        \/ status[t] \in Terminal /\ status'[t] = "expired"
    BY <2>1, CleanedIsHarmless DEF Inv
  <2> QED
    BY <2>2 DEF MovesOn, MayBecome, Gone
<1>4. CASE UNCHANGED vars
  BY <1>4 DEF vars, MovesOn, MayBecome
<1> QED
  BY <1>1, <1>2, <1>3, <1>4 DEF Next

LEMMA SinceMovesOn ==
  ASSUME NEW said, NEW from, NEW to, Since(said, from), MovesOn(from, to)
  PROVE  Since(said, to)
BY DEF Since, MovesOn, MayBecome, Terminal, Gone

\* An answer that is taken out of the queue leaves the others.
LEMMA OneTakenOut ==
  ASSUME NEW S, NEW s \in Seq(S), NEW i \in 1..Len(s)
  PROVE  /\ RemoveAt(s, i) \in Seq(S) /\ Len(RemoveAt(s, i)) <= Len(s)
         /\ \A j \in 1..Len(RemoveAt(s, i)) : \E k \in 1..Len(s) : RemoveAt(s, i)[j] = s[k]
<1> DEFINE n == Len(s)
           p == SubSeq(s, 1, i - 1)
           q == SubSeq(s, i + 1, n)
           r == p \o q
<1>1. n \in Nat /\ i \in 1..n /\ n = Len(s)
  OBVIOUS
<1>2. /\ p \in Seq(S) /\ Len(p) = i - 1
      /\ \A j \in 1..Len(p) : p[j] = s[j] /\ j \in 1..n
  BY <1>1
<1>3. /\ q \in Seq(S) /\ Len(q) = n - i
      /\ \A j \in 1..Len(q) : q[j] = s[i + j] /\ i + j \in 1..n
  <2>1. /\ q \in Seq(S) /\ Len(q) = n - i
    BY <1>1
  <2>2. ASSUME NEW j \in 1..(n - i) PROVE q[j] = s[i + j] /\ i + j \in 1..n
    BY <1>1, <2>1
  <2> QED
    BY <2>1, <2>2
<1>4. RemoveAt(s, i) = r
  BY DEF RemoveAt
<1> HIDE DEF p, q, n
<1>5. /\ r \in Seq(S) /\ Len(r) = Len(p) + Len(q)
      /\ \A j \in 1..Len(p) : r[j] = p[j]
      /\ \A j \in 1..Len(q) : r[Len(p) + j] = q[j]
  <2>1. ASSUME NEW a \in Seq(S), NEW b \in Seq(S)
        PROVE  /\ a \o b \in Seq(S) /\ Len(a \o b) = Len(a) + Len(b)
               /\ \A j \in 1..Len(a) : (a \o b)[j] = a[j]
               /\ \A j \in 1..Len(b) : (a \o b)[Len(a) + j] = b[j]
    OBVIOUS
  <2> QED
    BY <1>2, <1>3, <2>1
<1> HIDE DEF r
<1>6. ASSUME NEW j \in 1..Len(r) PROVE \E k \in 1..n : r[j] = s[k]
  <2>1. CASE j <= Len(p)
    BY <1>1, <1>2, <1>5, <2>1
  <2>2. CASE j > Len(p)
    <3>1. j - Len(p) \in 1..Len(q) /\ Len(p) + (j - Len(p)) = j
      BY <1>1, <1>2, <1>3, <1>5, <2>2
    <3> QED
      BY <1>3, <1>5, <3>1
  <2> QED
    BY <1>1, <1>2, <1>3, <1>5, <2>1, <2>2
<1> QED
  BY <1>1, <1>2, <1>3, <1>4, <1>5, <1>6

\* A call answers what its own step makes true.
Answers ==
  \/ UNCHANGED answers
  \/ \E by \in Watcher \cup {None}, shows \in AnswerState :
       /\ Answer(by, shows)
       /\ \A t \in DOMAIN shows : Since(shows[t], status'[t])

LEMMA CallAnswers ==
  ASSUME Inv, Call
  PROVE  Answers
<1>0. /\ Cleaned \in [Task -> Statuses] /\ status \in [Task -> Statuses]
      /\ \A u \in Task : Cleaned[u] = status[u] \/ Cleaned[u] = "expired"
  BY CleanedIsHarmless DEF Inv, Shape
<1>1. \A t \in Task : Callers[t] \subseteq Watcher \cup {None}
  BY ExtractorAssumption
<1>2. ASSUME NEW t \in Task, NEW v \in {"queued", "cancel_requested", "cancelled"},
             NEW by \in Callers[t], Answer(by, [i \in {t} |-> v]), Since(v, status'[t])
      PROVE  Answers
  <2> DEFINE shows == [i \in {t} |-> v]
  <2>1. shows \in AnswerState
    BY AnswerIsOne
  <2>2. \A u \in DOMAIN shows : Since(shows[u], status'[u])
    BY <1>2
  <2>3. Answer(by, shows) /\ by \in Watcher \cup {None}
    BY <1>1, <1>2
  <2> HIDE DEF shows
  <2> QED
    BY <2>1, <2>2, <2>3 DEF Answers
<1>3. ASSUME NEW t \in Task, NEW by \in Callers[t],
             create(t, by) \/ CancelQueued(t, by) \/ CancelRunning(t, by) \/ CancelAgain(t, by)
      PROVE  Answers
  <2>1. CASE create(t, by)
    <3>1. status'[t] = "queued" /\ Answer(by, [i \in {t} |-> "queued"])
      BY <1>0, <2>1 DEF create
    <3> QED
      BY <1>2, <3>1 DEF Since
  <2>2. CASE CancelQueued(t, by)
    <3>1. status'[t] = "cancelled" /\ Answer(by, [i \in {t} |-> "cancelled"])
      BY <1>0, <2>2 DEF CancelQueued, CancelQueuedTo
    <3> QED
      BY <1>2, <3>1 DEF Since
  <2>3. CASE CancelRunning(t, by) \/ CancelAgain(t, by)
    <3>1. /\ status'[t] = "cancel_requested"
          /\ Answer(by, [i \in {t} |-> "cancel_requested"])
      BY <1>0, <2>3 DEF CancelRunning, CancelAgain
    <3> QED
      BY <1>2, <3>1 DEF Since
  <2> QED
    BY <1>3, <2>1, <2>2, <2>3
<1>4. ASSUME NEW gone \in SUBSET Task, NEW by \in Watcher, DeleteAll(gone, by)
      PROVE  Answers
  <2> DEFINE shows == [i \in gone |-> "absent"]
  <2>1. shows \in AnswerState
    BY AnswerIsOne
  <2>2. \A u \in DOMAIN shows : shows[u] = "absent" /\ status'[u] = "deleted"
    BY <1>4 DEF DeleteAll
  <2>3. Answer(by, shows)
    BY <1>4 DEF DeleteAll
  <2> HIDE DEF shows
  <2> QED
    BY <2>1, <2>2, <2>3 DEF Answers, Since, Gone
<1>5. ASSUME NEW t \in Task, NEW by \in Watcher, delete(t, by) PROVE Answers
  BY <1>4, <1>5 DEF delete
<1>6. ASSUME NEW statuses, NEW by \in Watcher, delete_by_statuses(statuses, by)
      PROVE  Answers
  <2>1. {t \in Task : Cleaned[t] \in statuses} \in SUBSET Task
    OBVIOUS
  <2> QED
    BY <1>4, <1>6, <2>1 DEF delete_by_statuses
<1>7. ASSUME NEW t \in Task, NEW u \in Task, NEW by \in Watcher, retry(t, u, by)
      PROVE  Answers
  <2> DEFINE shows == [i \in {t, u} |-> IF i = u THEN "queued" ELSE "absent"]
  <2>1. shows \in AnswerState
    <3>1. shows \in [{t, u} -> {"absent", "queued", "cancel_requested", "cancelled"}]
      OBVIOUS
    <3> HIDE DEF shows
    <3> QED
      BY <3>1, AnswerIsOne
  <2>2. t # u /\ status'[t] = "deleted" /\ status'[u] = "queued"
    BY <1>0, <1>7 DEF retry, Retriable
  <2>3. \A i \in DOMAIN shows : Since(shows[i], status'[i])
    BY <2>2 DEF Since, Gone
  <2>4. Answer(by, shows)
    BY <1>7 DEF retry
  <2> HIDE DEF shows
  <2> QED
    BY <2>1, <2>3, <2>4 DEF Answers
<1>8. CASE Read \/ \E t \in Task : ResolveStart(t) \/ ResolveEnd(t) \/ Age(t)
  BY <1>8 DEF Read, ResolveStart, ResolveEnd, Age, Answers
<1> QED
  BY <1>3, <1>5, <1>6, <1>7, <1>8 DEF Call

LEMMA AnswersKept ==
  ASSUME Inv, AnswersInv, [Next]_vars
  PROVE  AnswersInv'
<1>1. ASSUME NEW said, NEW t \in Task, Since(said, status[t])
      PROVE  Since(said, status'[t])
  BY <1>1, StatusMovesOn, SinceMovesOn
<1>2. ASSUME NEW x \in Watcher, NEW i \in 1..Len(answers[x])
      PROVE  /\ answers[x] \in Seq(AnswerState) /\ answers[x][i] \in AnswerState
             /\ \A t \in DOMAIN answers[x][i] : Since(answers[x][i][t], status'[t])
  <2>1. answers[x] \in Seq(AnswerState) /\ answers[x][i] \in AnswerState
    BY DEF AnswersInv
  <2>2. DOMAIN answers[x][i] \subseteq Task
    BY <2>1, AnswerTypes
  <2> QED
    BY <1>1, <2>1, <2>2 DEF AnswersInv
<1>3. CASE UNCHANGED answers
  BY <1>2, <1>3 DEF AnswersInv
<1>4. ASSUME NEW by \in Watcher, NEW shows \in AnswerState, Answer(by, shows),
             \A t \in DOMAIN shows : Since(shows[t], status'[t])
      PROVE  AnswersInv'
  <2>1. /\ Len(answers[by]) < MaxAnswers /\ answers[by] \in Seq(AnswerState)
        /\ answers' = [answers EXCEPT ![by] = Append(answers[by], shows)]
        /\ answers \in [Watcher -> Seq(AnswerState)] /\ MaxAnswers \in Nat
    BY <1>4, ExtractorAssumption DEF Answer, AnswersInv
  <2>2. /\ Append(answers[by], shows) \in Seq(AnswerState)
        /\ Len(Append(answers[by], shows)) = Len(answers[by]) + 1
        /\ Len(answers[by]) \in Nat
        /\ \A i \in 1..Len(answers[by]) : Append(answers[by], shows)[i] = answers[by][i]
        /\ Append(answers[by], shows)[Len(answers[by]) + 1] = shows
    BY <2>1
  <2>3. /\ answers'[by] = Append(answers[by], shows)
        /\ \A x \in Watcher \ {by} : answers'[x] = answers[x]
        /\ answers' \in [Watcher -> Seq(AnswerState)]
    BY <2>1, <2>2
  <2>4. ASSUME NEW x \in Watcher
        PROVE  /\ Len(answers'[x]) <= MaxAnswers
               /\ \A i \in 1..Len(answers'[x]) : \A t \in DOMAIN answers'[x][i] :
                    Since(answers'[x][i][t], status'[t])
    <3>1. CASE x # by
      BY <1>2, <2>3, <3>1 DEF AnswersInv
    <3>2. CASE x = by
      <4>1. Len(answers'[x]) <= MaxAnswers
        BY <2>1, <2>2, <2>3, <3>2
      <4>2. ASSUME NEW i \in 1..Len(answers'[x]), NEW t \in DOMAIN answers'[x][i]
            PROVE  Since(answers'[x][i][t], status'[t])
        <5>1. i \in 1..Len(answers[by]) \/ i = Len(answers[by]) + 1
          BY <2>2, <2>3, <3>2
        <5>2. CASE i \in 1..Len(answers[by])
          BY <1>2, <2>2, <2>3, <3>2, <4>2, <5>2
        <5>3. CASE i = Len(answers[by]) + 1
          BY <1>4, <2>2, <2>3, <3>2, <4>2, <5>3
        <5> QED
          BY <5>1, <5>2, <5>3
      <4> QED
        BY <4>1, <4>2
    <3> QED
      BY <3>1, <3>2
  <2> QED
    BY <2>3, <2>4 DEF AnswersInv
<1>5. CASE Call
  <2>1. Answers
    BY <1>5, CallAnswers
  <2> QED
    BY <1>3, <1>4, <2>1 DEF Answers, Answer
<1>6. ASSUME NEW x \in Watcher, NEW i \in 1..Len(answers[x]), Answered(x, i)
      PROVE  AnswersInv'
  <2> DEFINE rest == RemoveAt(answers[x], i)
  <2>1. /\ answers[x] \in Seq(AnswerState) /\ Len(answers[x]) <= MaxAnswers
        /\ answers' = [answers EXCEPT ![x] = rest]
        /\ answers \in [Watcher -> Seq(AnswerState)] /\ MaxAnswers \in Nat
    BY <1>6, ExtractorAssumption DEF Answered, AnswersInv
  <2>2. /\ rest \in Seq(AnswerState) /\ Len(rest) <= Len(answers[x])
        /\ \A j \in 1..Len(rest) : \E k \in 1..Len(answers[x]) : rest[j] = answers[x][k]
    BY <2>1, OneTakenOut
  <2> HIDE DEF rest
  <2>3. /\ answers'[x] = rest /\ answers' \in [Watcher -> Seq(AnswerState)]
        /\ \A y \in Watcher \ {x} : answers'[y] = answers[y]
    BY <2>1, <2>2
  <2>4. Len(rest) <= MaxAnswers
    <3>1. Len(rest) \in Nat /\ Len(answers[x]) \in Nat
      BY <2>1, <2>2
    <3> QED
      BY <2>1, <2>2, <3>1
  <2>5. \A j \in 1..Len(rest) : \A t \in DOMAIN rest[j] : Since(rest[j][t], status'[t])
    BY <1>2, <2>2
  <2>6. ASSUME NEW y \in Watcher
        PROVE  /\ Len(answers'[y]) <= MaxAnswers
               /\ \A j \in 1..Len(answers'[y]) : \A t \in DOMAIN answers'[y][j] :
                    Since(answers'[y][j][t], status'[t])
    <3>1. CASE y = x
      BY <2>3, <2>4, <2>5, <3>1
    <3>2. CASE y # x
      BY <1>2, <2>3, <3>2 DEF AnswersInv
    <3> QED
      BY <3>1, <3>2
  <2> QED
    BY <2>3, <2>6 DEF AnswersInv
<1>7. ASSUME NEW w \in Worker, Run(w) PROVE UNCHANGED answers
  BY <1>7 DEF Run, Take, Start, Stage, Return, End
<1>8. ASSUME NEW x \in Watcher, Load(x) \/ Loaded(x) \/ subscribe(x) \/ Receive(x) \/ Disconnect(x)
      PROVE  UNCHANGED answers
  BY <1>8 DEF Load, Loaded, subscribe, Receive, Disconnect
<1> QED
  BY <1>3, <1>5, <1>6, <1>7, <1>8 DEF Next, Watch, vars

--------------------------------------------------------------------------------
(* The events and the browsers. What a browser that missed nothing shows of  *)
(* a task, together with the events it has yet to receive, is its status, or *)
(* an older status that a late answer wrote over it.                         *)

WatcherState ==
  [pc : {"off", "listing", "loaded", "live"}, list : [Task -> Alive \cup {"absent"}],
   replay : Seq(Events), queue : Seq(Events), owed : SUBSET Task]

StreamShape ==
  /\ history \in Seq(Events) /\ Len(history) <= HistorySize
  /\ watcher \in [Watcher -> WatcherState]
  /\ \A x \in Watcher :
       /\ Len(watcher[x].queue) <= QueueSize /\ Len(watcher[x].replay) <= HistorySize
       /\ watcher[x].pc # "live" => watcher[x].queue = <<>> /\ watcher[x].replay = <<>>
       /\ watcher[x].pc = "off" => watcher[x].owed = {}
  /\ view \in [Watcher -> [Task -> Alive \cup {"absent"}]]
  /\ missed \subseteq Watcher
  /\ overwritten \in [Watcher -> SUBSET Task]

HistoryTells ==
  \A t \in Task : status[t] \in Alive =>
    Silent(history, t) \/ Tells(history, t, status[t])

Pending(x) == watcher[x].replay \o watcher[x].queue

\* The status of a task, or what a late answer left of it.
Shows(x, t) ==
  \/ view[x][t] = status[t]
  \/ t \in overwritten[x] /\ view[x][t] \in {"queued", "cancel_requested"}

\* A browser that is connected shows a task as it is, or will be told.
UpToDate(x) ==
  \A t \in Task : status[t] \in Alive =>
    \/ Silent(Pending(x), t) /\ Shows(x, t)
    \/ Tells(Pending(x), t, status[t])

\* The history has something about every task a browser that is not connected
\* is owed an event about ...
Owed(x) == watcher[x].owed \subseteq Told(history)

\* ... and it shows every other one as it is, or has that in the list it waits for.
Listed(x) ==
  \A t \in Task \ watcher[x].owed : status[t] \in Alive => Shows(x, t)

Listing(x) ==
  \A t \in Task \ watcher[x].owed : status[t] \in Alive => watcher[x].list[t] = status[t]

InSync ==
  \A x \in Watcher \ missed :
    /\ watcher[x].pc = "live" => UpToDate(x)
    /\ watcher[x].pc \in Unconnected => Owed(x)
    /\ watcher[x].pc = "loaded" => Listed(x)
    /\ watcher[x].pc = "listing" => Listing(x)

StreamInv == StreamShape /\ HistoryTells /\ InSync

LEMMA SilentTellsNothing ==
  ASSUME NEW s, NEW t, NEW v, Silent(s, t), Tells(s, t, v)
  PROVE  FALSE
BY DEF Silent, Tells

\* Events tell the status of the tasks they are not silent about.
LEMMA ToldOrSilent ==
  ASSUME NEW s \in Seq(Events)
  PROVE  /\ Told(s) \subseteq Task
         /\ \A t : t \in Told(s) <=> ~ Silent(s, t)
<1>1. \A i \in 1 .. Len(s) : s[i] \in Events /\ s[i].task \in Task
  BY DEF Events, EventSet
<1>2. Told(s) = {e.task : e \in {f \in {s[i] : i \in 1 .. Len(s)} : f.type # "log"}}
  <2>1. DOMAIN s = 1 .. Len(s)
    OBVIOUS
  <2> QED
    BY <2>1 DEF Told, Range
<1> QED
  BY <1>1, <1>2 DEF Silent, About

LEMMA ConcatThree ==
  ASSUME NEW r \in Seq(Events), NEW s \in Seq(Events), NEW q \in Seq(Events)
  PROVE  r \o (s \o q) = (r \o s) \o q
BY ConcatAssociative

LEMMA TailOfConcat ==
  ASSUME NEW r \in Seq(Events), NEW q \in Seq(Events), r # <<>>
  PROVE  /\ r \o q \in Seq(Events) /\ r \o q # <<>>
         /\ Head(r \o q) = Head(r) /\ Tail(r \o q) = Tail(r) \o q
<1> DEFINE c == r \o q
<1>1. /\ Len(r) \in Nat \ {0} /\ Len(q) \in Nat
      /\ c \in Seq(Events) /\ Len(c) = Len(r) + Len(q)
      /\ \A i \in 1 .. Len(r) : c[i] = r[i]
      /\ \A i \in 1 .. Len(q) : c[Len(r) + i] = q[i]
  OBVIOUS
<1>2. /\ Tail(r) \in Seq(Events) /\ Len(Tail(r)) = Len(r) - 1
      /\ \A i \in 1 .. Len(Tail(r)) : Tail(r)[i] = r[i + 1]
  BY <1>1
<1> DEFINE d == Tail(r) \o q
<1>3. /\ d \in Seq(Events) /\ Len(d) = Len(r) + Len(q) - 1
      /\ \A i \in 1 .. Len(Tail(r)) : d[i] = Tail(r)[i]
      /\ \A i \in 1 .. Len(q) : d[Len(Tail(r)) + i] = q[i]
  BY <1>1, <1>2
<1> HIDE DEF c, d
<1>4. c # <<>> /\ Head(c) = c[1] /\ c[1] = r[1] /\ Head(r) = r[1]
  BY <1>1
<1>5. /\ Tail(c) \in Seq(Events) /\ Len(Tail(c)) = Len(r) + Len(q) - 1
      /\ \A i \in 1 .. Len(Tail(c)) : Tail(c)[i] = c[i + 1]
  BY <1>1, <1>4
<1>6. ASSUME NEW i \in 1 .. Len(Tail(c)) PROVE Tail(c)[i] = d[i]
  <2>1. CASE i <= Len(Tail(r))
    <3>1. i \in 1 .. Len(Tail(r)) /\ i + 1 \in 1 .. Len(r)
      BY <1>1, <1>2, <2>1
    <3> QED
      BY <1>1, <1>2, <1>3, <1>5, <3>1
  <2>2. CASE i > Len(Tail(r))
    <3>1. /\ i - Len(Tail(r)) \in 1 .. Len(q)
          /\ Len(Tail(r)) + (i - Len(Tail(r))) = i
          /\ Len(r) + (i - Len(Tail(r))) = i + 1
      BY <1>1, <1>2, <1>5, <2>2
    <3> QED
      BY <1>1, <1>3, <1>5, <3>1
  <2> QED
    BY <1>1, <1>2, <2>1, <2>2
<1>7. Tail(c) = d
  BY <1>3, <1>5, <1>6, SeqEqual
<1> QED
  BY <1>1, <1>4, <1>7 DEF c, d

\* What one step publishes about the tasks it changes.
Tidings(events) ==
  \A t \in Task : status'[t] \in Alive =>
    \/ Tells(events, t, status'[t])
    \/ Silent(events, t) /\ status'[t] = status[t]

LEMMA PublishStep ==
  ASSUME StreamInv, NEW events \in Seq(Events), Tidings(events), Publish(events)
  PROVE  StreamInv'
<1> DEFINE h == history \o events
<1>0. /\ history \in Seq(Events) /\ Len(history) \in Nat /\ Len(events) \in Nat
      /\ h \in Seq(Events) /\ Len(h) = Len(history) + Len(events)
      /\ HistorySize \in Nat \ {0} /\ QueueSize \in Nat \ {0}
  BY ExtractorAssumption DEF StreamInv, StreamShape
<1>1. history' = IF Len(h) > HistorySize THEN LastEvents(h) ELSE h
  BY DEF Publish
<1>2. /\ watcher' = [x \in Watcher |->
           IF watcher[x].pc = "live"
           THEN [watcher[x] EXCEPT !.queue = Offered(@, events)]
           ELSE IF watcher[x].pc \in Unconnected
           THEN [watcher[x] EXCEPT !.owed = @ \cup Told(events)]
           ELSE watcher[x]]
      /\ missed' = missed \cup
           {x \in Watcher :
              \/ watcher[x].pc = "live" /\ Len(watcher[x].queue) + Len(events) > QueueSize
              \/ Dropped(watcher'[x].owed, history')}
      /\ UNCHANGED <<view, overwritten>>
  BY DEF Publish, page
<1> HIDE DEF h
<1>3. history' \in Seq(Events) /\ Len(history') <= HistorySize /\ Suffix(history', h)
  <2>1. CASE ~ (Len(h) > HistorySize)
    <3>1. history' = h /\ Len(h) <= HistorySize
      BY <1>0, <1>1, <2>1
    <3>2. Suffix(h, h)
      BY <1>0 DEF Suffix
    <3> QED
      BY <1>0, <3>1, <3>2
  <2>2. CASE Len(h) > HistorySize
    <3>1. history' = SubSeq(h, 1 + Len(h) - HistorySize, Len(h))
      BY <1>1, <2>2 DEF LastEvents
    <3>2. history' \in Seq(Events) /\ Len(history') = HistorySize
      BY <1>0, <2>2, <3>1
    <3>3. \A i \in 1 .. HistorySize : history'[i] = h[Len(h) - HistorySize + i]
      BY <1>0, <2>2, <3>1
    <3> QED
      BY <1>0, <2>2, <3>2, <3>3 DEF Suffix
  <2> QED
    BY <2>1, <2>2
<1>4. \A t \in Task : status'[t] \in Alive => Silent(h, t) \/ Tells(h, t, status'[t])
  BY <1>0, AfterConcat DEF h, Tidings, StreamInv, HistoryTells
<1>5. HistoryTells'
  BY <1>0, <1>3, <1>4, SuffixSays DEF HistoryTells
<1>6. ASSUME NEW x \in Watcher
      PROVE  /\ watcher[x] \in WatcherState
             /\ Len(watcher[x].queue) <= QueueSize
             /\ watcher[x].pc = "live" =>
                  watcher'[x] = [watcher[x] EXCEPT !.queue = Offered(@, events)]
             /\ watcher[x].pc \in Unconnected =>
                  watcher'[x] = [watcher[x] EXCEPT !.owed = @ \cup Told(events)]
             /\ watcher[x].pc = "off" => watcher'[x] = watcher[x]
             /\ Offered(watcher[x].queue, events) \in Seq(Events)
             /\ Len(Offered(watcher[x].queue, events)) <= QueueSize
  <2>1. watcher[x] \in WatcherState /\ Len(watcher[x].queue) <= QueueSize
    BY DEF StreamInv, StreamShape
  <2>2. watcher[x].queue \in Seq(Events)
    BY <2>1 DEF WatcherState
  <2> QED
    BY <1>2, <2>1, <2>2, OfferedBounded DEF Unconnected
<1>7. ASSUME NEW x \in Watcher
      PROVE  /\ watcher'[x] \in WatcherState /\ watcher'[x].pc = watcher[x].pc
             /\ watcher'[x].list = watcher[x].list /\ watcher'[x].replay = watcher[x].replay
             /\ watcher[x].pc = "live" =>
                  watcher'[x].queue = Offered(watcher[x].queue, events)
             /\ watcher[x].pc # "live" => watcher'[x].queue = watcher[x].queue
             /\ watcher[x].pc \in Unconnected =>
                  watcher'[x].owed = watcher[x].owed \cup Told(events)
             /\ watcher[x].pc = "off" => watcher'[x].owed = watcher[x].owed
  <2>1. CASE watcher[x].pc = "live"
    BY <1>6, <2>1 DEF WatcherState, Unconnected
  <2>2. CASE watcher[x].pc \in Unconnected
    <3> DEFINE owed == watcher[x].owed \cup Told(events)
    <3>1. owed \subseteq Task
      BY <1>6, ToldOrSilent DEF WatcherState
    <3>2. watcher'[x] = [watcher[x] EXCEPT !.owed = owed]
      BY <1>6, <2>2
    <3> HIDE DEF owed
    <3>3. /\ watcher'[x] \in WatcherState /\ watcher'[x].pc = watcher[x].pc
          /\ watcher'[x].list = watcher[x].list /\ watcher'[x].replay = watcher[x].replay
          /\ watcher'[x].queue = watcher[x].queue /\ watcher'[x].owed = owed
      BY <1>6, <3>1, <3>2 DEF WatcherState
    <3> QED
      BY <2>2, <3>3 DEF owed, Unconnected
  <2>3. CASE watcher[x].pc = "off"
    BY <1>6, <2>3 DEF Unconnected
  <2> QED
    BY <1>6, <2>1, <2>2, <2>3 DEF WatcherState, Unconnected
<1>8. StreamShape'
  <2>1. ASSUME NEW x \in Watcher
        PROVE  /\ Len(watcher'[x].queue) <= QueueSize /\ Len(watcher'[x].replay) <= HistorySize
               /\ watcher'[x].pc # "live" =>
                    watcher'[x].queue = <<>> /\ watcher'[x].replay = <<>>
               /\ watcher'[x].pc = "off" => watcher'[x].owed = {}
    <3>1. /\ Len(watcher[x].replay) <= HistorySize
          /\ watcher[x].pc # "live" => watcher[x].queue = <<>> /\ watcher[x].replay = <<>>
          /\ watcher[x].pc = "off" => watcher[x].owed = {}
      BY DEF StreamInv, StreamShape
    <3> QED
      BY <1>6, <1>7, <3>1
  <2>2. watcher' \in [Watcher -> WatcherState]
    BY <1>2, <1>7
  <2>3. /\ view' \in [Watcher -> [Task -> Alive \cup {"absent"}]] /\ missed' \subseteq Watcher
        /\ overwritten' \in [Watcher -> SUBSET Task]
    BY <1>2 DEF StreamInv, StreamShape
  <2> QED
    BY <1>3, <2>1, <2>2, <2>3 DEF StreamShape
<1>9. ASSUME NEW x \in Watcher, NEW t \in Task, status'[t] = status[t]
      PROVE  Shows(x, t) => Shows(x, t)'
  BY <1>2, <1>9 DEF Shows
<1>10. ASSUME NEW x \in Watcher \ missed', watcher'[x].pc = "live" PROVE UpToDate(x)'
  <2> DEFINE q == watcher[x].queue
             r == watcher[x].replay
  <2>1. /\ x \in Watcher \ missed /\ watcher[x] \in WatcherState
        /\ watcher[x].pc = "live"
    BY <1>2, <1>6, <1>7, <1>10
  <2>2. /\ q \in Seq(Events) /\ r \in Seq(Events) /\ Len(q) \in Nat
        /\ Len(q) + Len(events) <= QueueSize
    BY <1>0, <1>2, <1>10, <2>1 DEF WatcherState
  <2>3. watcher'[x].queue = q \o events /\ watcher'[x].replay = r
    BY <1>7, <2>1, <2>2, OfferedFits
  <2>4. UpToDate(x)
    BY <2>1 DEF StreamInv, InSync
  <2>5. Pending(x)' = Pending(x) \o events /\ Pending(x) \in Seq(Events)
    <3>1. r \o (q \o events) = (r \o q) \o events
      <4> HIDE DEF q, r
      <4> QED
        BY <2>2, ConcatThree
    <3>2. r \o q \in Seq(Events)
      BY <2>2
    <3> QED
      BY <2>3, <3>1, <3>2 DEF Pending
  <2>6. ASSUME NEW t \in Task, status'[t] \in Alive
        PROVE  \/ Silent(Pending(x)', t) /\ Shows(x, t)'
               \/ Tells(Pending(x)', t, status'[t])
    <3>1. CASE Tells(events, t, status'[t])
      BY <2>5, <3>1, AfterConcat
    <3>2. CASE Silent(events, t) /\ status'[t] = status[t]
      <4>1. \/ Silent(Pending(x), t) /\ Shows(x, t)
            \/ Tells(Pending(x), t, status[t])
        BY <2>4, <2>6, <3>2 DEF UpToDate
      <4> QED
        BY <1>9, <2>5, <3>2, <4>1, AfterConcat
    <3> QED
      BY <2>6, <3>1, <3>2 DEF Tidings
  <2> QED
    BY <2>6 DEF UpToDate
<1>11. ASSUME NEW x \in Watcher \ missed', watcher'[x].pc \in Unconnected
       PROVE  /\ Owed(x)'
              /\ watcher'[x].pc = "loaded" => Listed(x)'
              /\ watcher'[x].pc = "listing" => Listing(x)'
  <2>1. watcher[x].pc \in Unconnected /\ x \in Watcher \ missed
    BY <1>2, <1>7, <1>11
  <2>2. Owed(x)'
    BY <1>2, <1>11 DEF Dropped, Owed
  <2>3. watcher'[x].owed = watcher[x].owed \cup Told(events)
    BY <1>7, <2>1
  <2>4. ASSUME NEW t \in Task \ watcher'[x].owed, status'[t] \in Alive
        PROVE  t \in Task \ watcher[x].owed /\ status'[t] = status[t]
    <3>1. t \notin watcher[x].owed /\ Silent(events, t)
      BY <2>3, <2>4, ToldOrSilent
    <3> QED
      BY <2>4, <3>1, SilentTellsNothing DEF Tidings
  <2>5. CASE watcher[x].pc = "loaded"
    <3>1. Listed(x)
      BY <2>1, <2>5 DEF StreamInv, InSync
    <3> QED
      BY <1>7, <1>9, <2>2, <2>4, <2>5, <3>1 DEF Listed
  <2>6. CASE watcher[x].pc = "listing"
    <3>1. Listing(x)
      BY <2>1, <2>6 DEF StreamInv, InSync
    <3> QED
      BY <1>7, <2>2, <2>4, <2>6, <3>1 DEF Listing
  <2> QED
    BY <1>7, <2>1, <2>5, <2>6 DEF Unconnected
<1> QED
  BY <1>5, <1>8, <1>10, <1>11 DEF StreamInv, InSync, Unconnected

\* A step that publishes nothing and leaves every task that stays as it is.
LEMMA QuietStep ==
  ASSUME StreamInv, UNCHANGED stream,
         \A t \in Task : status'[t] \in Alive => status'[t] = status[t]
  PROVE  StreamInv'
<1>1. UNCHANGED <<history, watcher, view, missed, overwritten>>
  BY DEF stream
<1>2. StreamShape'
  BY <1>1 DEF StreamInv, StreamShape
<1>3. HistoryTells'
  BY <1>1 DEF StreamInv, HistoryTells
<1>4. ASSUME NEW x \in Watcher \ missed
      PROVE  /\ UpToDate(x) => UpToDate(x)'
             /\ Owed(x) => Owed(x)'
             /\ Listed(x) => Listed(x)'
             /\ Listing(x) => Listing(x)'
  BY <1>1 DEF UpToDate, Owed, Listed, Listing, Pending, Shows
<1>5. InSync'
  BY <1>1, <1>4 DEF StreamInv, InSync
<1> QED
  BY <1>2, <1>3, <1>5 DEF StreamInv

\* What a browser does touches nobody else's queue or view.
LEMMA OneWatcher ==
  ASSUME StreamInv, NEW x \in Watcher, NEW to \in WatcherState,
         watcher' = [watcher EXCEPT ![x] = to],
         Len(to.queue) <= QueueSize, Len(to.replay) <= HistorySize,
         to.pc # "live" => to.queue = <<>> /\ to.replay = <<>>,
         to.pc = "off" => to.owed = {},
         UNCHANGED history, missed \subseteq missed', missed' \subseteq Watcher,
         view' \in [Watcher -> [Task -> Alive \cup {"absent"}]],
         overwritten' \in [Watcher -> SUBSET Task],
         \A y \in Watcher \ {x} : view'[y] = view[y] /\ overwritten'[y] = overwritten[y],
         \A t \in Task : status'[t] \in Alive => status'[t] = status[t],
         x \notin missed' /\ to.pc = "live" => UpToDate(x)',
         x \notin missed' /\ to.pc \in Unconnected => Owed(x)',
         x \notin missed' /\ to.pc = "loaded" => Listed(x)',
         x \notin missed' /\ to.pc = "listing" => Listing(x)'
  PROVE  StreamInv'
<1>1. /\ watcher' \in [Watcher -> WatcherState] /\ watcher'[x] = to
      /\ \A y \in Watcher \ {x} : watcher'[y] = watcher[y]
  BY DEF StreamInv, StreamShape
<1>2. StreamShape'
  BY <1>1 DEF StreamInv, StreamShape
<1>3. HistoryTells'
  BY DEF StreamInv, HistoryTells
<1>4. ASSUME NEW y \in Watcher \ {x}
      PROVE  /\ UpToDate(y) => UpToDate(y)'
             /\ Owed(y) => Owed(y)'
             /\ Listed(y) => Listed(y)'
             /\ Listing(y) => Listing(y)'
  BY <1>1 DEF UpToDate, Owed, Listed, Listing, Pending, Shows
<1>5. InSync'
  BY <1>1, <1>4 DEF StreamInv, InSync
<1> QED
  BY <1>2, <1>3, <1>5 DEF StreamInv

LEMMA CleanedAlive ==
  ASSUME NEW t \in Task, Cleaned[t] \in Alive
  PROVE  Cleaned[t] = status[t]
BY DEF Cleaned, Alive, Terminal

LEMMA LoadStep ==
  ASSUME StreamInv, NEW x \in Watcher, Load(x)
  PROVE  StreamInv'
<1> DEFINE listed == [t \in Task |-> IF Cleaned[t] \in Alive THEN Cleaned[t] ELSE "absent"]
           to == [watcher[x] EXCEPT !.pc = "listing", !.list = listed]
<1>1. /\ watcher[x] \in WatcherState /\ watcher[x].queue = <<>> /\ watcher[x].replay = <<>>
      /\ watcher[x].owed = {} /\ watcher \in [Watcher -> WatcherState]
  BY DEF Load, StreamInv, StreamShape
<1>2. /\ to \in WatcherState /\ to.pc = "listing"
      /\ to.queue = <<>> /\ to.replay = <<>> /\ to.owed = {}
      /\ \A t \in Task : Cleaned[t] \in Alive => to.list[t] = Cleaned[t]
  BY <1>1 DEF WatcherState
<1>3. /\ watcher' = [watcher EXCEPT ![x] = to]
      /\ status' = Cleaned /\ UNCHANGED <<history, missed, view, overwritten>>
  BY DEF Load, page
<1> HIDE DEF to
<1>4. watcher'[x] = to
  BY <1>1, <1>3
<1>5. Listing(x)' /\ Owed(x)'
  BY <1>2, <1>3, <1>4 DEF Listing, Owed
<1>6. \A t \in Task : status'[t] \in Alive => status'[t] = status[t]
  BY <1>3, CleanedAlive
<1>7. Len(to.queue) <= QueueSize /\ Len(to.replay) <= HistorySize
  <2>1. Len(to.queue) = 0 /\ Len(to.replay) = 0
    BY <1>2
  <2> QED
    BY <2>1, ExtractorAssumption
<1>8. /\ missed' \subseteq Watcher
      /\ view' \in [Watcher -> [Task -> Alive \cup {"absent"}]]
      /\ overwritten' \in [Watcher -> SUBSET Task]
  BY <1>3 DEF StreamInv, StreamShape
<1> QED
  BY <1>2, <1>3, <1>5, <1>6, <1>7, <1>8, OneWatcher

LEMMA LoadedStep ==
  ASSUME StreamInv, NEW x \in Watcher, Loaded(x)
  PROVE  StreamInv'
<1> DEFINE list == watcher[x].list
           listed == {t \in Task : list[t] # "absent"}
           to == [watcher[x] EXCEPT !.pc = "loaded", !.list = Nothing]
<1>1. /\ watcher[x] \in WatcherState /\ watcher[x].queue = <<>> /\ watcher[x].replay = <<>>
      /\ watcher \in [Watcher -> WatcherState] /\ watcher[x].pc = "listing"
      /\ list \in [Task -> Alive \cup {"absent"}]
      /\ view \in [Watcher -> [Task -> Alive \cup {"absent"}]] /\ missed \subseteq Watcher
      /\ overwritten \in [Watcher -> SUBSET Task]
  BY DEF Loaded, StreamInv, StreamShape, WatcherState
<1>2. /\ to \in WatcherState /\ to.pc = "loaded"
      /\ to.queue = <<>> /\ to.replay = <<>> /\ to.owed = watcher[x].owed
  BY <1>1 DEF WatcherState, Nothing
<1>3. /\ watcher' = [watcher EXCEPT ![x] = to]
      /\ view' = [view EXCEPT ![x] =
                   [t \in Task |-> IF t \in listed THEN list[t] ELSE view[x][t]]]
      /\ overwritten' = [overwritten EXCEPT ![x] = overwritten[x] \ listed]
      /\ UNCHANGED <<status, history, missed>>
  BY DEF Loaded, tasks
<1> HIDE DEF to, listed
<1>4. /\ view' \in [Watcher -> [Task -> Alive \cup {"absent"}]]
      /\ overwritten' \in [Watcher -> SUBSET Task]
      /\ \A y \in Watcher \ {x} : view'[y] = view[y] /\ overwritten'[y] = overwritten[y]
      /\ \A t \in listed : view'[x][t] = list[t]
      /\ watcher'[x] = to
  <2>1. [t \in Task |-> IF t \in listed THEN list[t] ELSE view[x][t]]
          \in [Task -> Alive \cup {"absent"}]
    BY <1>1
  <2>2. listed \subseteq Task
    BY DEF listed
  <2> QED
    BY <1>1, <1>3, <2>1, <2>2
<1>5. ASSUME x \notin missed PROVE Owed(x)' /\ Listed(x)'
  <2>1. Owed(x) /\ Listing(x)
    BY <1>1, <1>5 DEF StreamInv, InSync, Unconnected
  <2>2. Owed(x)'
    BY <1>2, <1>3, <1>4, <2>1 DEF Owed
  <2>3. ASSUME NEW t \in Task \ to.owed, status[t] \in Alive PROVE view'[x][t] = status[t]
    <3>1. list[t] = status[t] /\ list[t] # "absent"
      BY <1>2, <2>1, <2>3 DEF Listing, Alive, Terminal
    <3> QED
      BY <1>4, <3>1 DEF listed
  <2> QED
    BY <1>3, <1>4, <2>2, <2>3 DEF Listed, Shows
<1>6. Len(to.queue) <= QueueSize /\ Len(to.replay) <= HistorySize
  <2>1. Len(to.queue) = 0 /\ Len(to.replay) = 0
    BY <1>2
  <2> QED
    BY <2>1, ExtractorAssumption
<1> QED
  BY <1>1, <1>2, <1>3, <1>4, <1>5, <1>6, OneWatcher

LEMMA SubscribeStep ==
  ASSUME StreamInv, NEW x \in Watcher, subscribe(x)
  PROVE  StreamInv'
<1> DEFINE to == Browser("live", Replay(history), {})
<1>1. /\ watcher[x].pc = "loaded" /\ watcher' = [watcher EXCEPT ![x] = to]
      /\ status' = Cleaned /\ UNCHANGED <<history, view, missed, overwritten>>
  BY DEF subscribe, page
<1>2. /\ history \in Seq(Events) /\ Len(history) \in Nat /\ Len(history) <= HistorySize
      /\ watcher \in [Watcher -> WatcherState] /\ missed \subseteq Watcher
      /\ view \in [Watcher -> [Task -> Alive \cup {"absent"}]]
      /\ overwritten \in [Watcher -> SUBSET Task]
      /\ HistorySize \in Nat /\ QueueSize \in Nat
  BY ExtractorAssumption DEF StreamInv, StreamShape
<1>3. /\ Replay(history) \in Seq(Events) /\ Len(Replay(history)) <= Len(history)
      /\ Len(Replay(history)) \in Nat
  BY <1>2, ReplayKeeps
<1>4. to \in WatcherState /\ Len(to.queue) <= QueueSize /\ Len(to.replay) <= HistorySize
      /\ to.pc = "live" /\ to.replay = Replay(history) /\ to.queue = <<>>
  BY <1>2, <1>3 DEF WatcherState, Browser, Nothing
<1>5. \A t \in Task : status'[t] \in Alive => status'[t] = status[t]
  BY <1>1, CleanedAlive
<1> HIDE DEF to
<1>6. ASSUME x \notin missed PROVE UpToDate(x)'
  <2>1. watcher'[x] = to
    BY <1>1, <1>2
  <2>2. Pending(x)' = Replay(history)
    BY <1>3, <1>4, <2>1, ConcatEmptySeq DEF Pending
  <2>3. Owed(x) /\ Listed(x)
    BY <1>1, <1>6 DEF StreamInv, InSync, Unconnected
  <2>4. ASSUME NEW t \in Task, status'[t] \in Alive
        PROVE  \/ Silent(Replay(history), t) /\ Shows(x, t)'
               \/ Tells(Replay(history), t, status'[t])
    <3>1. status'[t] = status[t] /\ Cleaned[t] = status[t] /\ status[t] \in Alive
      BY <1>1, <1>5, <2>4
    <3>2. \A e \in Events : About(e, t) /\ e.status = status[t] => Relevant(e)
      BY <3>1 DEF About, Relevant, Events
    <3>3. Silent(history, t) \/ Tells(history, t, status[t])
      BY <3>1 DEF StreamInv, HistoryTells
    <3>4. ASSUME Silent(history, t) PROVE Shows(x, t)'
      <4>1. t \notin watcher[x].owed
        BY <1>2, <2>3, <3>4, ToldOrSilent DEF Owed
      <4>2. Shows(x, t)
        BY <2>3, <3>1, <4>1 DEF Listed
      <4> QED
        BY <1>1, <3>1, <4>2 DEF Shows
    <3> QED
      BY <1>2, <3>1, <3>2, <3>3, <3>4, ReplaySays
  <2> QED
    BY <2>2, <2>4 DEF UpToDate
<1> QED
  BY <1>1, <1>2, <1>4, <1>5, <1>6, OneWatcher DEF Unconnected

LEMMA DisconnectStep ==
  ASSUME StreamInv, NEW x \in Watcher, Disconnect(x)
  PROVE  StreamInv'
<1> DEFINE owed == Told(Pending(x))
           to == Browser("loaded", <<>>, owed)
<1>1. /\ watcher[x].pc = "live" /\ watcher' = [watcher EXCEPT ![x] = to]
      /\ UNCHANGED <<history, view, overwritten, status>>
      /\ missed' = missed \cup {y \in {x} : Dropped(owed, history)}
  BY DEF Disconnect, tasks, page, Pending
<1>2. /\ history \in Seq(Events) /\ watcher[x] \in WatcherState
      /\ watcher \in [Watcher -> WatcherState] /\ missed \subseteq Watcher
      /\ view \in [Watcher -> [Task -> Alive \cup {"absent"}]]
      /\ overwritten \in [Watcher -> SUBSET Task]
      /\ HistorySize \in Nat /\ QueueSize \in Nat
  BY ExtractorAssumption DEF StreamInv, StreamShape
<1>3. Pending(x) \in Seq(Events)
  BY <1>2 DEF Pending, WatcherState
<1>4. owed \subseteq Task /\ \A t : t \notin owed => Silent(Pending(x), t)
  BY <1>3, ToldOrSilent
<1> HIDE DEF owed
<1>5. to \in WatcherState /\ Len(to.queue) = 0 /\ Len(to.replay) = 0 /\ to.owed = owed
      /\ to.pc = "loaded" /\ to.queue = <<>> /\ to.replay = <<>>
  BY <1>4 DEF WatcherState, Browser, Nothing
<1> HIDE DEF to
<1>6. watcher'[x] = to
  BY <1>1, <1>2
<1>7. ASSUME x \notin missed' PROVE Owed(x)' /\ Listed(x)'
  <2>1. x \notin missed /\ ~ Dropped(owed, history)
    BY <1>1, <1>7
  <2>2. Owed(x)'
    BY <1>1, <1>5, <1>6, <2>1 DEF Owed, Dropped
  <2>3. UpToDate(x)
    BY <1>1, <2>1 DEF StreamInv, InSync
  <2>4. ASSUME NEW t \in Task \ owed, status[t] \in Alive PROVE Shows(x, t)
    BY <1>4, <2>3, <2>4, SilentTellsNothing DEF UpToDate
  <2>5. \A t \in Task : Shows(x, t) => Shows(x, t)'
    BY <1>1 DEF Shows
  <2> QED
    BY <1>1, <1>5, <1>6, <2>2, <2>4, <2>5 DEF Listed
<1>8. missed \subseteq missed' /\ missed' \subseteq Watcher
  BY <1>1, <1>2
<1>9. Len(to.queue) <= QueueSize /\ Len(to.replay) <= HistorySize
  BY <1>2, <1>5
<1> QED
  BY <1>1, <1>2, <1>5, <1>7, <1>8, <1>9, OneWatcher

LEMMA ReceiveStep ==
  ASSUME StreamInv, status \in [Task -> Statuses], NEW x \in Watcher, Receive(x)
  PROVE  StreamInv'
<1> DEFINE r == watcher[x].replay
           q == watcher[x].queue
           src == IF r # <<>> THEN r ELSE q
           e == Head(src)
           to == IF r # <<>> THEN [watcher[x] EXCEPT !.replay = Tail(@)]
                 ELSE [watcher[x] EXCEPT !.queue = Tail(@)]
<1>0. UNCHANGED <<history, missed, status>>
  BY DEF Receive, tasks
<1>1. /\ src # <<>> /\ watcher' = [watcher EXCEPT ![x] = to]
      /\ view' = [view EXCEPT ![x][e.task] = Reduce(@, e)]
      /\ overwritten' = IF e.type = "log" THEN overwritten
                        ELSE [overwritten EXCEPT ![x] = overwritten[x] \ {e.task}]
  <2>1. src # <<>>
    BY DEF Receive
  <2>2. watcher' = [watcher EXCEPT ![x] = to]
    <3>1. CASE r # <<>>
      <4>1. watcher' = [watcher EXCEPT ![x].replay = Tail(@)]
        BY <3>1 DEF Receive
      <4>2. to = [watcher[x] EXCEPT !.replay = Tail(@)]
        BY <3>1
      <4> HIDE DEF to
      <4> QED
        BY <4>1, <4>2
    <3>2. CASE r = <<>>
      <4>1. watcher' = [watcher EXCEPT ![x].queue = Tail(@)]
        BY <3>2 DEF Receive
      <4>2. to = [watcher[x] EXCEPT !.queue = Tail(@)]
        BY <3>2
      <4> HIDE DEF to
      <4> QED
        BY <4>1, <4>2
    <3> QED
      BY <3>1, <3>2
  <2>3. /\ view' = [view EXCEPT ![x][e.task] = Reduce(@, e)]
        /\ overwritten' = IF e.type = "log" THEN overwritten
                          ELSE [overwritten EXCEPT ![x] = overwritten[x] \ {e.task}]
    BY DEF Receive
  <2> QED
    BY <2>1, <2>2, <2>3
<1>2. /\ watcher[x] \in WatcherState /\ r \in Seq(Events) /\ q \in Seq(Events)
      /\ Len(q) <= QueueSize /\ Len(r) <= HistorySize /\ watcher[x].pc = "live"
      /\ watcher \in [Watcher -> WatcherState]
      /\ view \in [Watcher -> [Task -> Alive \cup {"absent"}]]
      /\ overwritten \in [Watcher -> SUBSET Task] /\ missed \subseteq Watcher
      /\ HistorySize \in Nat /\ QueueSize \in Nat
  BY <1>1, ExtractorAssumption DEF StreamInv, StreamShape, WatcherState
<1>3. e \in Events /\ e.task \in Task
  BY <1>1, <1>2 DEF Events, EventSet
<1>4. /\ to \in WatcherState /\ to.pc = "live"
      /\ Len(to.queue) <= QueueSize /\ Len(to.replay) <= HistorySize
  <2>1. ASSUME NEW s \in Seq(Events), s # <<>>
        PROVE  Tail(s) \in Seq(Events) /\ Len(Tail(s)) <= Len(s)
    BY <2>1
  <2>2. Len(r) \in Nat /\ Len(q) \in Nat
    BY <1>2
  <2>3. CASE r # <<>>
    <3>1. Tail(r) \in Seq(Events) /\ Len(Tail(r)) <= Len(r) /\ Len(Tail(r)) \in Nat
      BY <1>2, <2>1, <2>3
    <3>2. to = [watcher[x] EXCEPT !.replay = Tail(r)]
      BY <2>3
    <3>3. to.replay = Tail(r) /\ to.queue = q /\ to.pc = "live" /\ to \in WatcherState
      BY <1>2, <3>1, <3>2 DEF WatcherState
    <3> QED
      BY <1>2, <2>2, <3>1, <3>3
  <2>4. CASE r = <<>>
    <3>1. Tail(q) \in Seq(Events) /\ Len(Tail(q)) <= Len(q) /\ Len(Tail(q)) \in Nat
      BY <1>1, <1>2, <2>1, <2>4
    <3>2. to = [watcher[x] EXCEPT !.queue = Tail(q)]
      BY <2>4
    <3>3. to.replay = r /\ to.queue = Tail(q) /\ to.pc = "live" /\ to \in WatcherState
      BY <1>2, <3>1, <3>2 DEF WatcherState
    <3> QED
      BY <1>2, <2>2, <3>1, <3>3
  <2> QED
    BY <2>3, <2>4
<1>5. Reduce(view[x][e.task], e) \in Alive \cup {"absent"}
  BY <1>2, <1>3 DEF Reduce, Events, Alive
<1>6. /\ view' \in [Watcher -> [Task -> Alive \cup {"absent"}]]
      /\ \A y \in Watcher \ {x} : view'[y] = view[y]
      /\ \A t \in Task : view'[x][t] = IF t = e.task THEN Reduce(view[x][t], e) ELSE view[x][t]
  BY <1>1, <1>2, <1>3, <1>5
<1>7. /\ overwritten' \in [Watcher -> SUBSET Task]
      /\ \A y \in Watcher \ {x} : overwritten'[y] = overwritten[y]
      /\ \A t \in overwritten[x] : ~ About(e, t) => t \in overwritten'[x]
  BY <1>1, <1>2, <1>3 DEF About
<1>8. ASSUME x \notin missed PROVE UpToDate(x)'
  <2>0. watcher'[x] = to
    BY <1>1, <1>2
  <2>1. UpToDate(x)
    BY <1>2, <1>8 DEF StreamInv, InSync
  <2>3. /\ Pending(x) \in Seq(Events) /\ Pending(x) # <<>>
        /\ Head(Pending(x)) = e /\ Pending(x)' = Tail(Pending(x))
    <3>1. CASE r # <<>>
      <4>1. to.queue = q /\ to.replay = Tail(r) /\ e = Head(r)
        BY <1>2, <3>1 DEF WatcherState
      <4>2. /\ r \o q \in Seq(Events) /\ r \o q # <<>> /\ Head(r \o q) = Head(r)
            /\ Tail(r \o q) = Tail(r) \o q
        <5> HIDE DEF r, q
        <5> QED
          BY <1>2, <3>1, TailOfConcat
      <4> QED
        BY <2>0, <4>1, <4>2 DEF Pending
    <3>2. CASE r = <<>>
      <4>1. to.queue = Tail(q) /\ to.replay = <<>> /\ e = Head(q) /\ q # <<>>
        BY <1>1, <1>2, <3>2 DEF WatcherState
      <4>2. Tail(q) \in Seq(Events)
        BY <1>2, <4>1
      <4>3. <<>> \o q = q /\ <<>> \o Tail(q) = Tail(q)
        BY <1>2, <4>2, ConcatEmptySeq, Zenon
      <4> QED
        BY <1>2, <2>0, <3>2, <4>1, <4>3 DEF Pending
    <3> QED
      BY <3>1, <3>2
  <2> HIDE DEF e, to
  <2>4. ASSUME NEW t \in Task, status[t] \in Alive
        PROVE  \/ Silent(Pending(x)', t) /\ Shows(x, t)'
               \/ Tells(Pending(x)', t, status[t])
    <3>1. CASE Silent(Pending(x), t) /\ Shows(x, t)
      <4>1. ~ About(e, t) /\ Silent(Pending(x)', t)
        BY <2>3, <3>1, AfterTail
      <4>2. view[x][t] # "absent"
        BY <2>4, <3>1 DEF Shows, Alive, Terminal
      <4>3. view'[x][t] = view[x][t]
        BY <1>6, <4>1, <4>2 DEF About, Reduce
      <4>4. status'[t] = status[t]
        BY <1>0
      <4>6. t \in overwritten[x] => t \in overwritten'[x]
        BY <1>7, <4>1
      <4>5. Shows(x, t)'
        BY <3>1, <4>3, <4>4, <4>6 DEF Shows
      <4> QED
        BY <4>1, <4>5
    <3>2. CASE Tells(Pending(x), t, status[t])
      <4>1. \/ Tells(Pending(x)', t, status[t])
            \/ About(e, t) /\ e.status = status[t] /\ Silent(Pending(x)', t)
        BY <2>3, <3>2, AfterTail
      <4>2. ASSUME About(e, t), e.status = status[t] PROVE view'[x][t] = status[t]
        <5>1. e.task = t /\ e.type # "log" /\ e.type # "deleted"
          BY <1>3, <2>4, <4>2 DEF About, Events
        <5> QED
          BY <1>6, <4>2, <5>1 DEF Reduce
      <4> QED
        BY <1>0, <4>1, <4>2 DEF Shows
    <3> QED
      BY <2>1, <2>4, <3>1, <3>2 DEF UpToDate
  <2> QED
    BY <1>0, <2>4 DEF UpToDate
<1> HIDE DEF e, to
<1> QED
  BY <1>0, <1>1, <1>2, <1>4, <1>6, <1>7, <1>8, OneWatcher DEF Unconnected

LEMMA AnsweredStep ==
  ASSUME StreamInv, AnswersInv, NEW x \in Watcher, NEW i \in 1..Len(answers[x]),
         Answered(x, i)
  PROVE  StreamInv'
<1> DEFINE said == answers[x][i]
           to == watcher[x]
           older == {t \in DOMAIN said : Older(said[t], view[x][t])}
<1>1. /\ UNCHANGED <<status, history, watcher, missed>>
      /\ view' = [view EXCEPT ![x] =
                    [t \in Task |-> IF t \in DOMAIN said THEN said[t] ELSE view[x][t]]]
      /\ overwritten' = [overwritten EXCEPT ![x] = overwritten[x] \cup older]
  BY DEF Answered, tasks
<1>2. /\ watcher \in [Watcher -> WatcherState] /\ to \in WatcherState
      /\ view \in [Watcher -> [Task -> Alive \cup {"absent"}]]
      /\ overwritten \in [Watcher -> SUBSET Task] /\ missed \subseteq Watcher
      /\ Len(to.queue) <= QueueSize /\ Len(to.replay) <= HistorySize
      /\ to.pc # "live" => to.queue = <<>> /\ to.replay = <<>>
      /\ to.pc = "off" => to.owed = {}
  BY DEF StreamInv, StreamShape
<1>3. /\ DOMAIN said \subseteq Task
      /\ \A t \in DOMAIN said : said[t] \in {"absent", "queued", "cancel_requested", "cancelled"}
      /\ \A t \in DOMAIN said : Since(said[t], status[t])
  <2>1. said \in AnswerState
    BY DEF AnswersInv
  <2>2. \A t \in DOMAIN said : Since(said[t], status[t])
    BY DEF AnswersInv
  <2> HIDE DEF said
  <2> QED
    BY <2>1, <2>2, AnswerTypes
<1> HIDE DEF said
<1>4. /\ view' \in [Watcher -> [Task -> Alive \cup {"absent"}]]
      /\ overwritten' \in [Watcher -> SUBSET Task]
      /\ \A y \in Watcher \ {x} : view'[y] = view[y] /\ overwritten'[y] = overwritten[y]
      /\ \A t \in Task : view'[x][t] = IF t \in DOMAIN said THEN said[t] ELSE view[x][t]
      /\ overwritten'[x] = overwritten[x] \cup older
  <2>1. [t \in Task |-> IF t \in DOMAIN said THEN said[t] ELSE view[x][t]]
          \in [Task -> Alive \cup {"absent"}]
    BY <1>2, <1>3 DEF Alive, Terminal
  <2>2. older \subseteq Task
    BY <1>3
  <2> HIDE DEF older
  <2> QED
    BY <1>1, <1>2, <2>1, <2>2
<1>5. ASSUME NEW t \in Task, status[t] \in Alive, Shows(x, t) PROVE Shows(x, t)'
  <2>1. CASE t \notin DOMAIN said
    BY <1>1, <1>4, <1>5, <2>1 DEF Shows
  <2>2. CASE t \in DOMAIN said
    <3>1. /\ view'[x][t] = said[t] /\ Since(said[t], status[t])
          /\ said[t] \in {"absent", "queued", "cancel_requested", "cancelled"}
          /\ t \in overwritten[x] => t \in overwritten'[x]
          /\ Older(said[t], view[x][t]) => t \in overwritten'[x]
      BY <1>3, <1>4, <2>2
    <3>2. said[t] \in {"queued", "cancel_requested"} \/ said[t] = status[t]
      BY <1>5, <3>1 DEF Since, Alive, Terminal, Gone
    <3>3. CASE view[x][t] = status[t]
      <4>1. said[t] = status[t] \/ Older(said[t], view[x][t])
        BY <1>5, <3>1, <3>2, <3>3 DEF Since, Older, Gone, Alive, Terminal
      <4> QED
        BY <1>1, <3>1, <3>2, <4>1 DEF Shows
    <3>4. CASE t \in overwritten[x]
      BY <1>1, <3>1, <3>2, <3>4 DEF Shows
    <3> QED
      BY <1>5, <3>3, <3>4 DEF Shows
  <2> QED
    BY <2>1, <2>2
<1>6. ASSUME x \notin missed
      PROVE  /\ to.pc = "live" => UpToDate(x)'
             /\ to.pc \in Unconnected => Owed(x)'
             /\ to.pc = "loaded" => Listed(x)'
             /\ to.pc = "listing" => Listing(x)'
  <2>1. UpToDate(x) => UpToDate(x)'
    BY <1>1, <1>5 DEF UpToDate, Pending
  <2>2. Owed(x) => Owed(x)'
    BY <1>1 DEF Owed
  <2>3. Listed(x) => Listed(x)'
    BY <1>1, <1>5 DEF Listed
  <2>4. Listing(x) => Listing(x)'
    BY <1>1 DEF Listing
  <2> QED
    BY <1>6, <2>1, <2>2, <2>3, <2>4 DEF StreamInv, InSync
<1>7. watcher' = [watcher EXCEPT ![x] = to]
  BY <1>1, <1>2
<1>8. UNCHANGED <<status, history, missed>>
  BY <1>1
<1> HIDE DEF to
<1> QED
  BY <1>2, <1>4, <1>6, <1>7, <1>8, OneWatcher

--------------------------------------------------------------------------------
(* What the steps of the task manager publish.                               *)

LEMMA EventTypes ==
  ASSUME NEW t \in Task
  PROVE  /\ Created(t) \in Events
         /\ Event(t, "deleted", "deleted") \in Events
         /\ Event(t, "started", "running") \in Events
         /\ Event(t, "log", "none") \in Events
         /\ Event(t, "cancel_requested", "cancel_requested") \in Events
         /\ \A st \in Alive : Event(t, "stage", st) \in Events <=> st \notin Terminal
         /\ \A v \in Terminal : Event(t, v, v) \in Events
BY DEF Created, Event, Events, EventSet, Alive, Terminal, Gone

\* One event about the only task that changes.
LEMMA OneEvent ==
  ASSUME NEW t \in Task, NEW e \in Events, About(e, t),
         status'[t] \in Alive => e.status = status'[t],
         \A u \in Task \ {t} : status'[u] \in Alive => status'[u] = status[u]
  PROVE  <<e>> \in Seq(Events) /\ Tidings(<<e>>)
<1> DEFINE s == <<e>>
<1>1. s \in Seq(Events) /\ Len(s) = 1 /\ s[1] = e
  OBVIOUS
<1> HIDE DEF s
<1>2. Tells(s, t, e.status)
  BY <1>1 DEF Tells
<1>3. \A u \in Task \ {t} : Silent(s, u)
  BY <1>1 DEF Silent, About
<1> QED
  BY <1>1, <1>2, <1>3 DEF Tidings, s

\* Two events, the second of which may be a log line or about another task.
LEMMA TwoEvents ==
  ASSUME NEW d \in Events, NEW e \in Events, NEW t \in Task, NEW v,
         \/ About(e, t) /\ e.status = v
         \/ About(d, t) /\ d.status = v /\ ~ About(e, t),
         status'[t] \in Alive => status'[t] = v,
         \A u \in Task \ {t} : status'[u] \in Alive =>
            status'[u] = status[u] /\ ~ About(d, u) /\ ~ About(e, u)
  PROVE  <<d, e>> \in Seq(Events) /\ Tidings(<<d, e>>)
<1> DEFINE s == <<d, e>>
<1>1. s \in Seq(Events) /\ Len(s) = 2 /\ s[1] = d /\ s[2] = e
  OBVIOUS
<1> HIDE DEF s
<1>2. Tells(s, t, v)
  BY <1>1 DEF Tells
<1>3. ASSUME NEW u \in Task \ {t}, ~ About(d, u), ~ About(e, u) PROVE Silent(s, u)
  BY <1>1, <1>3 DEF Silent
<1> QED
  BY <1>1, <1>2, <1>3 DEF Tidings, s

\* The events of a deletion are about the tasks that are deleted.
LEMMA DeletedEvents ==
  ASSUME NEW gone \in SUBSET Task, \A t \in gone : status'[t] \notin Alive,
         \A t \in Task \ gone : status'[t] \in Alive => status'[t] = status[t]
  PROVE  LET s == [i \in 1 .. Cardinality(gone) |->
                     Event(SetToSeq(gone)[i], "deleted", "deleted")]
         IN  s \in Seq(Events) /\ Tidings(s)
<1> DEFINE n == Cardinality(gone)
           f == SetToSeq(gone)
           s == [i \in 1 .. n |-> Event(f[i], "deleted", "deleted")]
<1>1. IsFiniteSet(gone) /\ n \in Nat
  BY ExtractorAssumption, FS_Subset, FS_CardinalityType
<1>2. f \in [1 .. n -> gone]
  <2>1. PICK g : g \in Bijection(1 .. n, gone)
    BY <1>1, FS_CardinalityType DEF ExistsBijection
  <2>2. g \in [1 .. n -> gone] /\ IsInjective(g)
    BY <2>1 DEF Bijection, Injection, IsInjective
  <2> QED
    BY <2>2 DEF SetToSeq
<1> HIDE DEF n, f
<1>3. \A i \in 1 .. n : f[i] \in gone /\ Event(f[i], "deleted", "deleted") \in Events
  BY <1>2, EventTypes
<1>4. s \in Seq(Events) /\ Len(s) = n /\ \A i \in 1 .. n : s[i].task = f[i]
  BY <1>1, <1>3 DEF Event
<1>5. ASSUME NEW t \in Task \ gone PROVE Silent(s, t)
  BY <1>3, <1>4, <1>5 DEF Silent, About
<1> HIDE DEF s
<1> QED
  BY <1>4, <1>5 DEF Tidings, n, f, s

\* A step publishes what it does, or does nothing a browser has to know.
Publishes ==
  \/ \E events \in Seq(Events) : Tidings(events) /\ Publish(events)
  \/ /\ UNCHANGED stream
     /\ \A t \in Task : status'[t] \in Alive => status'[t] = status[t]

LEMMA PublishesOne ==
  ASSUME NEW t \in Task, NEW e \in Events, About(e, t), Publish(<<e>>),
         status'[t] \in Alive => e.status = status'[t],
         \A u \in Task \ {t} : status'[u] \in Alive => status'[u] = status[u]
  PROVE  Publishes
<1>1. <<e>> \in Seq(Events) /\ Tidings(<<e>>)
  BY OneEvent
<1> QED
  BY <1>1 DEF Publishes

\* A task whose redirect is resolved has succeeded, until it is gone.
ResolvingIsOver == \A t \in resolving : t \in Task /\ status[t] \in {"succeeded"} \cup Gone

LEMMA CallPublishes ==
  ASSUME Inv, ResolvingIsOver, Call
  PROVE  Publishes
<1>0. /\ Cleaned \in [Task -> Statuses] /\ status \in [Task -> Statuses]
      /\ \A u \in Task : Cleaned[u] \in Alive => Cleaned[u] = status[u]
      /\ "expired" \notin Alive /\ "deleted" \notin Alive
  BY CleanedIsHarmless, CleanedAlive DEF Inv, Shape, Alive, Terminal
<1>1. ASSUME NEW t \in Task, NEW by, create(t, by) PROVE Publishes
  <2>1. /\ Publish(<<Created(t)>>) /\ status'[t] = "queued"
        /\ \A u \in Task \ {t} : status'[u] = Cleaned[u]
    BY <1>0, <1>1 DEF create
  <2>2. /\ Created(t) \in Events /\ About(Created(t), t) /\ Created(t).status = "queued"
    BY EventTypes DEF Created, Event, About
  <2> QED
    BY <1>0, <2>1, <2>2, PublishesOne
<1>2. ASSUME NEW t \in Task, NEW u \in Task, NEW by, retry(t, u, by) PROVE Publishes
  <2> DEFINE d == Event(t, "deleted", "deleted")
             e == Created(u)
  <2>1. /\ Publish(<<d, e>>) /\ status'[u] = "queued" /\ t # u
        /\ status'[t] = "deleted"
        /\ \A v \in Task \ {t, u} : status'[v] = Cleaned[v]
    <3>1. t # u
      BY <1>0, <1>2 DEF retry, Retriable, Cleaned
    <3> QED
      BY <1>0, <1>2, <3>1 DEF retry
  <2>2. /\ d \in Events /\ e \in Events /\ About(e, u) /\ e.status = "queued"
        /\ \A v \in Task \ {t, u} : ~ About(d, v) /\ ~ About(e, v)
    BY EventTypes DEF Created, Event, About
  <2> HIDE DEF d, e
  <2>3. \A v \in Task \ {u} : status'[v] \in Alive =>
           status'[v] = status[v] /\ ~ About(d, v) /\ ~ About(e, v)
    BY <1>0, <2>1, <2>2
  <2>4. <<d, e>> \in Seq(Events) /\ Tidings(<<d, e>>)
    BY <2>1, <2>2, <2>3, TwoEvents
  <2> QED
    BY <2>1, <2>4 DEF Publishes
<1>3. ASSUME NEW t \in Task, NEW by, CancelQueued(t, by) PROVE Publishes
  <2> DEFINE e == Event(t, "cancelled", "cancelled")
  <2>1. /\ Publish(<<e>>) /\ status'[t] = "cancelled"
        /\ \A u \in Task \ {t} : status'[u] = Cleaned[u]
    BY <1>0, <1>3 DEF CancelQueued, CancelQueuedTo
  <2>2. e \in Events /\ About(e, t) /\ e.status = "cancelled"
    BY EventTypes DEF Event, About, Terminal
  <2> HIDE DEF e
  <2> QED
    BY <1>0, <2>1, <2>2, PublishesOne
<1>4. ASSUME NEW t \in Task, NEW by, CancelRunning(t, by) PROVE Publishes
  <2> DEFINE e == Event(t, "cancel_requested", "cancel_requested")
  <2>1. /\ Publish(<<e>>) /\ status'[t] = "cancel_requested"
        /\ \A u \in Task \ {t} : status'[u] = Cleaned[u]
    BY <1>0, <1>4 DEF CancelRunning
  <2>2. e \in Events /\ About(e, t) /\ e.status = "cancel_requested"
    BY EventTypes DEF Event, About
  <2> HIDE DEF e
  <2> QED
    BY <1>0, <2>1, <2>2, PublishesOne
<1>5. ASSUME NEW gone \in SUBSET Task, NEW by, DeleteAll(gone, by) PROVE Publishes
  <2>1. /\ \A t \in gone : status'[t] \notin Alive
        /\ \A t \in Task \ gone : status'[t] \in Alive => status'[t] = status[t]
    BY <1>0, <1>5 DEF DeleteAll
  <2> DEFINE s == [i \in 1 .. Cardinality(gone) |->
                     Event(SetToSeq(gone)[i], "deleted", "deleted")]
  <2>2. Publish(s)
    BY <1>5 DEF DeleteAll
  <2>3. s \in Seq(Events) /\ Tidings(s)
    BY <2>1, DeletedEvents
  <2> HIDE DEF s
  <2> QED
    BY <2>2, <2>3 DEF Publishes
<1>6. ASSUME NEW t \in Task, NEW by, delete(t, by) PROVE Publishes
  BY <1>5, <1>6 DEF delete
<1>7. ASSUME NEW statuses \in {{"failed", "cancelled"}, {"succeeded"}}, NEW by,
             delete_by_statuses(statuses, by)
      PROVE  Publishes
  <2>1. {t \in Task : Cleaned[t] \in statuses} \in SUBSET Task
    OBVIOUS
  <2> QED
    BY <1>5, <1>7, <2>1 DEF delete_by_statuses
<1>8. CASE Read
  BY <1>0, <1>8 DEF Read, Publishes, stream
<1>11. ASSUME NEW t \in Task, NEW by, CancelAgain(t, by) PROVE Publishes
  BY <1>0, <1>11 DEF CancelAgain, Publishes, stream
<1>9. ASSUME NEW t \in Task, ResolveStart(t) \/ Age(t) PROVE Publishes
  BY <1>9 DEF ResolveStart, Age, Publishes, stream
<1>10. ASSUME NEW t \in Task, ResolveEnd(t) PROVE Publishes
  <2>1. status' = status
    BY <1>10 DEF ResolveEnd
  <2>2. CASE UNCHANGED stream
    BY <2>1, <2>2 DEF Publishes
  <2>3. CASE status[t] \in Alive /\ Publish(<<Event(t, "succeeded", status[t])>>)
    <3> DEFINE e == Event(t, "succeeded", status[t])
    <3>1. status[t] = "succeeded"
      BY <1>10, <2>3 DEF ResolveEnd, ResolvingIsOver, Gone, Alive, Terminal
    <3>2. e \in Events /\ About(e, t) /\ e.status = status[t]
      BY <3>1, EventTypes DEF Event, About, Terminal
    <3>3. Publish(<<e>>)
      BY <2>3
    <3> HIDE DEF e
    <3> QED
      BY <2>1, <3>2, <3>3, PublishesOne
  <2> QED
    BY <1>10, <2>2, <2>3 DEF ResolveEnd
<1> QED
  BY <1>1, <1>2, <1>3, <1>4, <1>6, <1>7, <1>8, <1>9, <1>10, <1>11 DEF Call

LEMMA RunPublishes ==
  ASSUME Inv, NEW w \in Worker, Run(w)
  PROVE  Publishes
<1> DEFINE t == worker[w].task
<1>0. status \in [Task -> Statuses] /\ (worker[w].pc # "idle" => t \in Task)
  BY DEF Inv, Shape
<1>1. ASSUME UNCHANGED <<status, stream>> PROVE Publishes
  BY <1>1 DEF Publishes, stream
<1>2. CASE Take(w) \/ \E outcome \in {"result", "error", "stopped"} : Return(w, outcome)
  BY <1>1, <1>2 DEF Take, Return
<1>3. CASE Start(w)
  <2>1. CASE ~ Startable(t)
    BY <1>1, <1>3, <2>1 DEF Start
  <2>2. CASE Startable(t)
    <3> DEFINE d == Event(t, "started", "running")
               e == Event(t, "log", "none")
    <3>1. /\ Publish(<<d, e>>) /\ t \in Task /\ status'[t] = "running"
          /\ \A u \in Task \ {t} : status'[u] = status[u]
      BY <1>0, <1>3, <2>2 DEF Start
    <3>2. /\ d \in Events /\ e \in Events
          /\ About(d, t) /\ d.status = "running" /\ ~ About(e, t)
          /\ \A u \in Task \ {t} : ~ About(d, u) /\ ~ About(e, u)
      BY <3>1, EventTypes DEF Event, About
    <3> HIDE DEF d, e
    <3>3. <<d, e>> \in Seq(Events) /\ Tidings(<<d, e>>)
      BY <3>1, <3>2, TwoEvents
    <3> QED
      BY <3>1, <3>3 DEF Publishes
  <2> QED
    BY <2>1, <2>2
<1>4. CASE Stage(w)
  <2>1. CASE status[t] \notin Alive \ Terminal
    BY <1>1, <1>4, <2>1 DEF Stage
  <2>2. CASE status[t] \in Alive \ Terminal
    <3> DEFINE e == Event(t, "stage", status[t])
    <3>1. Publish(<<e>>) /\ t \in Task /\ status' = status
      BY <1>0, <1>4, <2>2 DEF Stage
    <3>2. e \in Events /\ About(e, t) /\ e.status = status[t]
      BY <2>2, <3>1, EventTypes DEF Event, About
    <3> HIDE DEF e
    <3> QED
      BY <3>1, <3>2, PublishesOne
  <2> QED
    BY <2>1, <2>2
<1>5. CASE End(w)
  <2>1. CASE status[t] \notin Alive
    BY <1>1, <1>5, <2>1 DEF End
  <2>2. CASE status[t] \in Alive
    <3> DEFINE v == Verdict(t, worker[w].outcome)
               e == Event(t, v, v)
    <3>1. worker[w].outcome \in {"result", "error", "stopped"} /\ t \in Task
      BY <1>5 DEF End, Inv, Shape, WorkerState
    <3>2. v \in Terminal
      BY <3>1 DEF Verdict, Terminal
    <3>3. /\ Publish(<<e>>) /\ status'[t] = v
          /\ \A u \in Task \ {t} : status'[u] = status[u]
      BY <1>0, <1>5, <2>2, <3>1 DEF End
    <3> HIDE DEF v
    <3>4. e \in Events /\ About(e, t) /\ e.status = v
      BY <3>1, <3>2, EventTypes DEF Event, About, Terminal
    <3> HIDE DEF e
    <3> QED
      BY <3>1, <3>3, <3>4, PublishesOne
  <2> QED
    BY <2>1, <2>2
<1> QED
  BY <1>2, <1>3, <1>4, <1>5 DEF Run

\* The step of a browser.
LEMMA WatchStep ==
  ASSUME Inv, StreamInv, AnswersInv, NEW x \in Watcher, Watch(x)
  PROVE  StreamInv'
BY LoadStep, LoadedStep, SubscribeStep, ReceiveStep, DisconnectStep, AnsweredStep
DEF Watch, Inv, Shape

LEMMA ResolvingKept ==
  ASSUME Inv, ResolvingIsOver, [Next]_vars
  PROVE  ResolvingIsOver'
<1>1. CASE Call
  <2>1. \A t \in resolving' : t \in Task /\ status[t] \in {"succeeded"} \cup Gone
    BY <1>1 DEF Call, create, retry, CancelQueued, CancelRunning, CancelAgain, delete,
                delete_by_statuses, DeleteAll, Read, ResolveStart, ResolveEnd, Age,
                ResolvingIsOver
  <2>2. \A t \in Task : \/ MayBecome(status[t], status'[t])
                        \/ status[t] = "absent" /\ status'[t] = "queued"
    BY <1>1, CallMoves DEF Inv
  <2> QED
    BY <2>1, <2>2 DEF MayBecome, ResolvingIsOver, Gone, Terminal
<1>2. ASSUME NEW w \in Worker, Run(w) PROVE ResolvingIsOver'
  <2> DEFINE t == worker[w].task
  <2>1. resolving' = resolving
    BY <1>2 DEF Run, Take, Start, Stage, Return, End
  <2>2. CASE status' = status
    BY <2>1, <2>2 DEF ResolvingIsOver
  <2>3. CASE Start(w) /\ Startable(t)
    <3>1. t \in Task /\ status[t] = "queued"
      BY <2>3 DEF Start, Startable, Inv, Shape, NotStarted, Waiting, Alive, Terminal, Gone
    <3>2. \A u \in Task : u # t => status'[u] = status[u]
      BY <2>3 DEF Start, Inv, Shape
    <3> QED
      BY <2>1, <3>1, <3>2 DEF ResolvingIsOver, Gone
  <2>4. CASE End(w)
    <3>1. t \in Task /\ status[t] \in {"running", "cancel_requested"}
      BY <2>4 DEF End, Inv, Shape, NoGhostExtraction, Extracting
    <3>2. \A u \in Task : u # t => status'[u] = status[u]
      BY <2>4 DEF End, Inv, Shape
    <3> QED
      BY <2>1, <3>1, <3>2 DEF ResolvingIsOver, Gone
  <2> QED
    BY <1>2, <2>2, <2>3, <2>4 DEF Run, Take, Start, Stage, Return
<1>3. ASSUME NEW x \in Watcher, Watch(x) PROVE ResolvingIsOver'
  <2>1. UNCHANGED resolving /\ (status' = status \/ status' = Cleaned)
    BY <1>3 DEF Watch, Load, Loaded, subscribe, Receive, Disconnect, Answered, tasks
  <2>2. \A u \in Task : Cleaned[u] = status[u] \/ Cleaned[u] = "expired"
    BY DEF Cleaned
  <2> QED
    BY <2>1, <2>2 DEF ResolvingIsOver, Gone
<1>4. CASE UNCHANGED vars
  BY <1>4 DEF vars, ResolvingIsOver
<1> QED
  BY <1>1, <1>2, <1>3, <1>4 DEF Next

LEMMA StreamStep ==
  ASSUME Inv, ResolvingIsOver, StreamInv, AnswersInv, [Next]_vars
  PROVE  StreamInv'
<1>1. ASSUME Publishes PROVE StreamInv'
  BY <1>1, PublishStep, QuietStep DEF Publishes
<1>2. CASE UNCHANGED vars
  BY <1>2, QuietStep DEF vars, stream
<1> QED
  BY <1>1, <1>2, CallPublishes, RunPublishes, WatchStep DEF Next

LEMMA StreamStart ==
  ASSUME Init
  PROVE  StreamInv /\ ResolvingIsOver /\ AnswersInv
<1>1. /\ history = <<>> /\ missed = {} /\ resolving = {}
      /\ \A t \in Task : status[t] \notin Alive
  BY DEF Init, Alive, Terminal
<1>2. <<>> \in Seq(Events) /\ Len(<<>>) = 0
  OBVIOUS
<1>3. StreamShape
  <2>1. Browser("off", <<>>, {}) \in WatcherState /\ Browser("off", <<>>, {}).pc = "off"
        /\ Browser("off", <<>>, {}).replay = <<>> /\ Browser("off", <<>>, {}).queue = <<>>
        /\ Browser("off", <<>>, {}).owed = {}
    BY <1>2 DEF Browser, Nothing, WatcherState
  <2> QED
    BY <1>1, <1>2, <2>1, ExtractorAssumption DEF Init, StreamShape, Nothing
<1>4. AnswersInv
  <2>1. <<>> \in Seq(AnswerState)
    OBVIOUS
  <2> QED
    BY <1>2, <2>1, ExtractorAssumption DEF Init, AnswersInv
<1>5. HistoryTells /\ ResolvingIsOver
  BY <1>1 DEF HistoryTells, ResolvingIsOver
<1>6. InSync
  BY <1>1 DEF InSync, UpToDate, Owed, Listed, Listing, Init, Browser, Unconnected
<1> QED
  BY <1>3, <1>4, <1>5, <1>6 DEF StreamInv

StagesBounded == \A w \in Worker : worker[w].stages <= MaxStages

LEMMA StagesStayBounded ==
  ASSUME Inv, StagesBounded, [Next]_vars
  PROVE  StagesBounded'
<1>0. worker \in [Worker -> WorkerState] /\ MaxStages \in Nat /\ 0 <= MaxStages
  BY ExtractorAssumption DEF Inv, Shape
<1>1. CASE Call
  BY <1>1 DEF Call, create, retry, CancelQueued, CancelRunning, CancelAgain, delete, DeleteAll,
              delete_by_statuses, Read, ResolveStart, ResolveEnd, Age, StagesBounded
<1>2. ASSUME NEW w \in Worker, Run(w) PROVE StagesBounded'
  <2>1. worker[w].stages \in Nat
    BY <1>0 DEF WorkerState
  <2>2. CASE worker' = worker
    BY <2>2 DEF StagesBounded
  <2>3. ASSUME NEW to, to.stages <= MaxStages, worker' = [worker EXCEPT ![w] = to]
        PROVE  StagesBounded'
    BY <1>0, <2>3 DEF StagesBounded
  <2>4. \A pc, t, n, outcome : Thread(pc, t, n, outcome).stages = n
    BY DEF Thread
  <2>5. CASE Take(w)
    <3>1. CASE worker' # worker
      <4> DEFINE to == Thread("start", Head(futures), 0, "none")
      <4>1. worker' = [worker EXCEPT ![w] = to] /\ to.stages <= MaxStages
        BY <1>0, <2>4, <2>5, <3>1 DEF Take
      <4> HIDE DEF to
      <4> QED
        BY <2>3, <4>1
    <3> QED
      BY <2>2, <3>1
  <2>6. CASE Start(w)
    <3> DEFINE to == IF Startable(worker[w].task)
                     THEN Thread("extract", worker[w].task, 0, "none") ELSE IdleWorker
    <3>1. worker' = [worker EXCEPT ![w] = to]
      BY <2>6 DEF Start
    <3>2. to.stages <= MaxStages
      BY <1>0, <2>4 DEF IdleWorker
    <3> HIDE DEF to
    <3> QED
      BY <2>3, <3>1, <3>2
  <2>7. CASE Stage(w)
    <3> DEFINE to == Thread("extract", worker[w].task, worker[w].stages + 1, "none")
    <3>1. worker' = [worker EXCEPT ![w] = to] /\ worker[w].stages < MaxStages
      BY <2>7 DEF Stage
    <3>2. to.stages <= MaxStages
      BY <1>0, <2>1, <2>4, <3>1
    <3> HIDE DEF to
    <3> QED
      BY <2>3, <3>1, <3>2
  <2>8. CASE End(w)
    <3>1. worker' = [worker EXCEPT ![w] = IdleWorker] /\ IdleWorker.stages <= MaxStages
      BY <1>0, <2>4, <2>8 DEF End, IdleWorker
    <3> HIDE DEF IdleWorker
    <3> QED
      BY <2>3, <3>1
  <2>9. ASSUME NEW outcome, Return(w, outcome) PROVE StagesBounded'
    <3> DEFINE to == Thread("end", worker[w].task, 0, outcome)
    <3>1. worker' = [worker EXCEPT ![w] = to] /\ to.stages <= MaxStages
      BY <1>0, <2>4, <2>9 DEF Return
    <3> HIDE DEF to
    <3> QED
      BY <2>3, <3>1
  <2> QED
    BY <1>2, <2>5, <2>6, <2>7, <2>8, <2>9 DEF Run
<1>3. CASE (\E x \in Watcher : Watch(x)) \/ UNCHANGED vars
  BY <1>3
  DEF Watch, Load, Loaded, subscribe, Receive, Disconnect, Answered, tasks, vars, StagesBounded
<1> QED
  BY <1>1, <1>2, <1>3 DEF Next

LEMMA StreamAlways == Spec => [](Inv /\ ResolvingIsOver /\ StreamInv /\ AnswersInv /\ StagesBounded)
<1>1. Init => ResolvingIsOver /\ StreamInv /\ AnswersInv /\ StagesBounded
  <2>1. Init => StagesBounded
    BY ExtractorAssumption DEF Init, IdleWorker, Thread, StagesBounded
  <2> QED
    BY <2>1, StreamStart
<1>2. /\ Inv /\ ResolvingIsOver /\ StreamInv /\ AnswersInv /\ StagesBounded /\ [Next]_vars
      => ResolvingIsOver' /\ StreamInv' /\ AnswersInv' /\ StagesBounded'
  BY StreamStep, AnswersKept, ResolvingKept, StagesStayBounded
<1> QED
  BY <1>1, <1>2, InvAlways, PTL DEF Spec

\* An id is in the queue of the executor once, so the queue is no longer than
\* there are tasks.
LEMMA QueueFits ==
  ASSUME Inv
  PROVE  Len(futures) <= Cardinality(Task)
<1> DEFINE n == Len(futures)
<1>1. futures \in Seq(Task) /\ n \in Nat /\ futures \in [1 .. n -> Task]
  BY DEF Inv, Shape
<1>2. IsInjective(futures)
  BY <1>1 DEF Inv, OnePlace, IsInjective
<1>3. futures \in Injection(1 .. n, Task)
  BY <1>1, <1>2 DEF Injection
<1>4. Cardinality(1 .. n) <= Cardinality(Task)
  BY <1>3, ExtractorAssumption, FS_Injection
<1>5. Cardinality(1 .. n) = n
  <2> HIDE DEF n
  <2>1. 1 \in Int /\ n \in Int /\ (IF 1 > n THEN 0 ELSE n - 1 + 1) = n
    BY <1>1
  <2> QED
    BY <2>1, FS_Interval
<1> QED
  BY <1>4, <1>5

\* TypeOK of ExtractorTasks: the queue of the executor holds no more tasks than
\* exist, and neither the history nor the queue of a subscriber outgrows its
\* bound, however many events a call publishes at once (tasks.py, maxlen of the
\* history, maxsize of the queues and the eviction in _publish_locked).
THEOREM ManagerTypeCorrect == Spec => []TypeOK
<1>1. Inv /\ ResolvingIsOver /\ StreamInv /\ AnswersInv /\ StagesBounded => TypeOK
  <2> SUFFICES ASSUME Inv, ResolvingIsOver, StreamInv, AnswersInv, StagesBounded
               PROVE  TypeOK
    OBVIOUS
  <2>1. /\ status \in [Task -> Alive \cup Gone \cup {"absent"}]
        /\ cancelled \subseteq Task /\ resolving \subseteq Task
        /\ old \subseteq {t \in Task : status[t] \in Terminal}
    BY DEF Inv, Shape, Statuses, ResolvingIsOver
  <2>2. \A i \in 1 .. Len(futures) : futures[i] \in Task
    BY DEF Inv, Shape
  <2>3. worker \in [Worker -> [pc : {"idle", "start", "extract", "end"},
                               task : Task \cup {None}, stages : 0 .. MaxStages,
                               outcome : {"none", "result", "error", "stopped"}]]
    BY ExtractorAssumption DEF Inv, Shape, WorkerState, StagesBounded
  <2>4. Len(history) <= HistorySize /\ \A i \in 1 .. Len(history) : history[i] \in EventSet
    BY DEF StreamInv, StreamShape, Events
  <2>5. \A x \in Watcher :
          /\ watcher[x].pc \in {"off", "listing", "loaded", "live"}
          /\ watcher[x].list \in [Task -> Alive \cup {"absent"}]
          /\ watcher[x].owed \subseteq Task
          /\ Len(watcher[x].queue) <= QueueSize /\ Len(watcher[x].replay) <= HistorySize
    BY DEF StreamInv, StreamShape, WatcherState
  <2>6. view \in [Watcher -> [Task -> Alive \cup {"absent"}]] /\ missed \subseteq Watcher
        /\ overwritten \in [Watcher -> SUBSET Task]
    BY DEF StreamInv, StreamShape
  <2>7. \A x \in Watcher :
          /\ Len(answers[x]) <= MaxAnswers
          /\ \A i \in 1..Len(answers[x]) : \A t \in DOMAIN answers[x][i] :
               t \in Task /\ answers[x][i][t] \in
                   {"absent", "queued", "cancel_requested", "cancelled"}
    BY AnswerTypes DEF AnswersInv
  <2> QED
    BY <2>1, <2>2, <2>3, <2>4, <2>5, <2>6, <2>7, QueueFits DEF TypeOK
<1> QED
  BY <1>1, StreamAlways, PTL

\* WatcherAgrees: a browser that is connected, has received what it was sent and
\* lost no event shows every task as it is, or at the "queued" or
\* "cancel_requested" that a late answer to its own call wrote over a newer
\* status; for any number of browsers, events, answers and reconnections, and
\* whatever the sizes of the history and of the queues (subscribe and
\* _publish_locked of tasks.py against loadExistingTasks, reduceTaskEvent,
\* registerSubmittedTask and cancelTask of app.js).
THEOREM ConnectedBrowsersAgree == Spec => []WatcherAgrees
<1>1. StreamInv => WatcherAgrees
  <2> SUFFICES ASSUME StreamInv, NEW x \in Watcher \ missed, watcher[x].pc = "live",
                      watcher[x].replay = <<>>, watcher[x].queue = <<>>,
                      NEW t \in Task, status[t] \in Alive
               PROVE  Shows(x, t)
    BY DEF WatcherAgrees, Shows
  <2>1. Len(Pending(x)) = 0
    BY DEF Pending
  <2>2. ~ Tells(Pending(x), t, status[t])
    BY <2>1 DEF Tells
  <2> QED
    BY <2>2 DEF StreamInv, InSync, UpToDate
<1> QED
  BY <1>1, StreamAlways, PTL
================================================================================
