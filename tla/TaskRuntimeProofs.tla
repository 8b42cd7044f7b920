--------------------------- MODULE TaskRuntimeProofs ---------------------------
(* Proofs about TaskRuntime, for every value of its constants.               *)
EXTENDS TaskRuntime, FiniteSetTheorems, TLAPS

(* What the program counters say about the other fields of a thread.         *)
Shape ==
  /\ \A c \in Client :
       /\ cl[c].pc \in {"created", "read", "commit"} => cl[c].task \in Task
       /\ cl[c].pc \in {"select", "sweep", "read", "commit"} => cl[c].op # "none"
  /\ \A h \in Thread :
       /\ thr[h].pc # "idle" => thr[h].task \in Task
       /\ thr[h].pc = "end" => thr[h].final # "none"
  /\ disp.pc \in {"claim", "spawn"} => disp.pick \in Task
  /\ disp.pc \in {"ask", "query", "claim", "spawn"} => disp.slots > 0

TypeInv == TypeOK /\ Shape

--------------------------------------------------------------------------------
(* The records the actions build have their types.                           *)

\* The number of tasks in any set of tasks is a natural number.
LEMMA CardinalityOfTasks ==
  ASSUME NEW S \in SUBSET Task
  PROVE  Cardinality(S) \in Nat
  BY TaskAssumption, FS_Subset, FS_CardinalityType

LEMMA IdleClientType == IdleClient \in ClientState
  BY DEF IdleClient, ClientState

LEMMA IdleThreadType == IdleThread \in ThreadState
  BY DEF IdleThread, ThreadState

LEMMA IdleDispType ==
  ASSUME NEW pc \in {"down", "loop"}
  PROVE  IdleDisp(pc) \in DispState
  BY DEF IdleDisp, DispState

\* Every mutation decides for a status of the table or for none.
LEMMA DecisionType ==
  ASSUME TypeOK, NEW t \in Task, NEW held \in BOOLEAN,
         NEW final \in {"succeeded", "failed", "cancelled", "irreversible"}
  PROVE  /\ CancelTo(t) \in Status \cup {"keep"}
         /\ PauseTo(t) \in Status \cup {"keep"}
         /\ ResumeTo(t, held) \in Status \cup {"keep"}
         /\ ReleaseTo(t) \in Status \cup {"keep"}
         /\ MarkTo(t) \in Status \cup {"keep"}
         /\ FinishTo(t, final) \in Status \cup {"keep"}
  BY DEF CancelTo, PauseTo, ResumeTo, ReleaseTo, MarkTo, FinishTo, Status,
         Terminal, Active

LEMMA CommitType ==
  ASSUME TypeOK, NEW t \in Task, NEW to \in Status \cup {"keep"},
         CommitStatus(t, to)
  PROVE  status' \in [Task -> Status]
  BY DEF CommitStatus, TypeOK

\* A thread that goes to its next id keeps a well-formed record.
LEMMA SweepType ==
  ASSUME TypeInv, NEW c \in Client,
         NEW op \in {"pause", "resume", "cancel", "release"},
         NEW todo \in SUBSET Task, Sweep(c, op, todo)
  PROVE  /\ cl' \in [Client -> ClientState]
         /\ \A x \in Client :
              /\ cl'[x].pc \in {"created", "read", "commit"} => cl'[x].task \in Task
              /\ cl'[x].pc \in {"select", "sweep", "read", "commit"} => cl'[x].op # "none"
  BY DEF TypeInv, TypeOK, Shape, Sweep, IdleClient, ClientState

--------------------------------------------------------------------------------
LEMMA TypeInit == Init => TypeInv
<1> SUFFICES ASSUME Init PROVE TypeInv
  OBVIOUS
<1>1. disp \in DispState
  BY IdleDispType DEF Init
<1>2. cl \in [Client -> ClientState] /\ thr \in [Thread -> ThreadState]
  BY IdleClientType, IdleThreadType DEF Init
<1>3. Shape
  BY DEF Init, Shape, IdleClient, IdleThread, IdleDisp
<1> QED
  BY <1>1, <1>2, <1>3 DEF Init, TypeInv, TypeOK, Status

LEMMA TypeClient ==
  ASSUME TypeInv, NEW c \in Client, ClientCall(c) \/ ClientStep(c)
  PROVE  TypeInv'
<1> USE DEF TypeInv, TypeOK, rows
<1>1. ASSUME NEW t \in Task, CreateTask(c, t)
      PROVE  TypeInv'
  <2>1. Cardinality({u \in Task : Exists(u)}) \in Nat
    BY CardinalityOfTasks
  <2>2. cl' \in [Client -> ClientState]
    BY <1>1 DEF CreateTask, IdleClient, ClientState
  <2>3. Shape'
    BY <1>1 DEF CreateTask, IdleClient, Shape
  <2> QED
    BY <1>1, <2>1, <2>2, <2>3 DEF CreateTask, Status
<1>2. ASSUME CreateCheckPause(c) PROVE TypeInv'
  <2>1. (IF queuePaused THEN {cl[c].task} ELSE {}) \in SUBSET Task
    BY <1>2 DEF CreateCheckPause, Shape
  <2> QED
    BY <1>2, <2>1, SweepType DEF CreateCheckPause, Shape
<1>3. ASSUME NEW op \in Ops, NEW t \in Task, Call(c, op, t) PROVE TypeInv'
  BY <1>3, BoundAssumption, SweepType DEF Call, QueueOps, Shape
<1>4. ASSUME NEW op \in Ops, CallQueue(c, op) PROVE TypeInv'
  <2>1. OneOp(op) \in {"pause", "resume", "cancel"}
    BY <1>4 DEF CallQueue, QueueOps, OneOp
  <2>2. cl' \in [Client -> ClientState]
    BY <1>4, <2>1 DEF CallQueue, IdleClient, ClientState
  <2>3. Shape'
    BY <1>4, <2>1 DEF CallQueue, IdleClient, Shape
  <2> QED
    BY <1>4, <2>2, <2>3 DEF CallQueue
<1>5. ASSUME SelectIds(c) PROVE TypeInv'
  <2>1. cl[c].op \in {"pause", "resume", "cancel", "release"}
    BY <1>5 DEF SelectIds, Shape, ClientState
  <2>2. {t \in Register : status[t] \in SweepOf(cl[c].op)} \in SUBSET Task
    BY TaskAssumption
  <2> QED
    BY <1>5, <2>1, <2>2, SweepType DEF SelectIds, Shape
<1>6. ASSUME NEW t \in Task, ReadHeld(c, t) PROVE TypeInv'
  <2>1. cl' \in [Client -> ClientState]
    BY <1>6 DEF ReadHeld, ClientState
  <2>2. Shape'
    BY <1>6 DEF ReadHeld, Shape
  <2> QED
    BY <1>6, <2>1, <2>2 DEF ReadHeld
<1>7. ASSUME NEW t \in Task, Load(c, t) PROVE TypeInv'
  <2> DEFINE to == ClientTo(cl[c].op, t, cl[c].held)
  <2>1. cl[c].op \in {"pause", "resume", "cancel", "release"} /\ cl[c].held \in BOOLEAN
    BY <1>7 DEF Load, Shape, ClientState
  <2>2. to \in Status \cup {"keep"}
    BY <2>1, DecisionType DEF ClientTo
  <2> HIDE DEF to
  <2>3. cl' = [cl EXCEPT ![c] = [pc |-> "commit", op |-> cl[c].op, task |-> t,
                                todo |-> cl[c].todo \ {t}, held |-> FALSE, to |-> to]]
    BY <1>7 DEF Load, to
  <2>4. cl' \in [Client -> ClientState]
    BY <2>1, <2>2, <2>3 DEF ClientState
  <2>5. Shape'
    BY <1>7, <2>1, <2>3 DEF Load, Shape
  <2> QED
    BY <1>7, <2>4, <2>5 DEF Load, Acquire
<1>8. ASSUME Commit(c) PROVE TypeInv'
  <2>1. /\ cl[c].task \in Task /\ cl[c].to \in Status \cup {"keep"}
        /\ cl[c].op \in {"pause", "resume", "cancel", "release"}
        /\ cl[c].todo \in SUBSET Task
    BY <1>8 DEF Commit, Shape, ClientState
  <2>2. status' \in [Task -> Status]
    BY <1>8, <2>1, CommitType DEF Commit
  <2>3. Shape' /\ cl' \in [Client -> ClientState]
    BY <1>8, <2>1, SweepType DEF Commit, Shape
  <2> QED
    BY <1>8, <2>1, <2>2, <2>3 DEF Commit, Release
<1> QED
  BY <1>1, <1>2, <1>3, <1>4, <1>5, <1>6, <1>7, <1>8 DEF ClientCall, ClientStep

LEMMA TypeDispatch ==
  ASSUME TypeInv, Dispatch
  PROVE  TypeInv'
<1> USE DEF TypeInv, TypeOK, rows
<1>1. ASSUME Start PROVE TypeInv'
  <2>1. status' \in [Task -> Status]
    BY <1>1 DEF Start, Status, Terminal
  <2>2. disp' \in DispState
    BY <1>1, IdleDispType DEF Start
  <2>3. Shape'
    BY <1>1 DEF Start, Shape, IdleDisp
  <2> QED
    BY <1>1, <2>1, <2>2, <2>3 DEF Start
<1>2. ASSUME Snapshot PROVE TypeInv'
  <2>1. MaxParallel - Cardinality(workers) \in Nat \ {0}
    BY <1>2, LaneAssumption, CardinalityOfTasks DEF Snapshot
  <2>2. LaneCounts \in [Lane -> Nat]
    BY CardinalityOfTasks DEF LaneCounts
  <2>3. BusyKeys \in SUBSET Account
    BY LaneAssumption DEF BusyKeys
  <2>4. disp' \in DispState
    BY <1>2, <2>1, <2>2, <2>3 DEF Snapshot, DispState
  <2>5. Shape'
    BY <1>2, <2>1 DEF Snapshot, Shape
  <2> QED
    BY <1>2, <2>4, <2>5 DEF Snapshot
<1>3. ASSUME ReadFlag PROVE TypeInv'
  <2>1. disp' \in DispState
    BY <1>3, IdleDispType DEF ReadFlag, DispState
  <2>2. Shape'
    BY <1>3 DEF ReadFlag, Shape, IdleDisp, DispState
  <2> QED
    BY <1>3, <2>1, <2>2 DEF ReadFlag
<1>4. ASSUME Query PROVE TypeInv'
  <2>1. disp' \in DispState /\ Shape'
    <3>1. CASE disp' = IdleDisp("loop")
      BY <1>4, <3>1, IdleDispType DEF Query, Shape, IdleDisp
    <3>2. CASE \E t \in Task : disp' = [disp EXCEPT !.pc = "claim", !.pick = t]
      <4>1. PICK t \in Task : disp' = [disp EXCEPT !.pc = "claim", !.pick = t]
        BY <3>2
      <4>2. disp' \in DispState
        BY <4>1 DEF DispState
      <4>3. disp'.pc = "claim" /\ disp'.pick = t /\ disp'.slots = disp.slots
        BY <4>1 DEF DispState
      <4> QED
        BY <1>4, <4>2, <4>3 DEF Query, Shape
    <3> QED
      BY <1>4, <3>1, <3>2 DEF Query, Eligible
  <2> QED
    BY <1>4, <2>1 DEF Query
<1>5. ASSUME Claim PROVE TypeInv'
  <2>1. disp.pick \in Task
    BY <1>5 DEF Claim, Shape
  <2>2. disp' \in DispState
    BY <1>5 DEF Claim, DispState
  <2>3. Shape'
    BY <1>5, <2>1 DEF Claim, Shape, DispState
  <2> QED
    BY <1>5, <2>1, <2>2, <2>3 DEF Claim, Status, Active
<1>6. ASSUME NEW h \in Thread, Spawn(h) PROVE TypeInv'
  <2>1. disp.pick \in Task /\ disp.slots \in Nat
    BY <1>6 DEF Spawn, Shape, DispState
  <2>2. AfterSpawn \in DispState
    BY <2>1, IdleDispType, LaneAssumption DEF AfterSpawn, DispState
  <2>3. thr' \in [Thread -> ThreadState]
    BY <1>6, <2>1 DEF Spawn, IdleThread, ThreadState
  <2>4. Shape'
    BY <1>6, <2>1 DEF Spawn, AfterSpawn, IdleThread, IdleDisp, Shape
  <2> QED
    BY <1>6, <2>1, <2>2, <2>3, <2>4 DEF Spawn
<1> QED
  BY <1>1, <1>2, <1>3, <1>4, <1>5, <1>6 DEF Dispatch

\* A step of a thread whose task is known keeps its record well formed.
LEMMA AdvanceType ==
  ASSUME TypeInv, NEW h \in Thread, thr[h].pc # "idle",
         NEW pc \in {"marking", "gate", "hold", "held", "leave", "body", "saving",
                     "end", "ending", "exit"},
         NEW final \in {"none", "succeeded", "failed", "cancelled", "irreversible"},
         NEW to \in Status \cup {"keep"},
         pc = "end" => final # "none",
         Advance(h, pc, final, to)
  PROVE  /\ thr' \in [Thread -> ThreadState]
         /\ \A x \in Thread :
              /\ thr'[x].pc # "idle" => thr'[x].task \in Task
              /\ thr'[x].pc = "end" => thr'[x].final # "none"
  BY DEF TypeInv, TypeOK, Shape, Advance, ThreadState

LEMMA TypeThread ==
  ASSUME TypeInv, NEW h \in Thread, ThreadStep(h)
  PROVE  TypeInv'
<1> USE DEF TypeInv, TypeOK, rows
<1>0. /\ thr[h].pc # "idle" => thr[h].task \in Task
      /\ thr[h].to \in Status \cup {"keep"}
      /\ thr[h].pc = "end" => thr[h].final \in {"succeeded", "failed", "cancelled", "irreversible"}
  BY DEF Shape, ThreadState
<1>1. ASSUME Mark(h) PROVE TypeInv'
  <2>1. MarkTo(thr[h].task) \in Status \cup {"keep"}
    BY DEF MarkTo, Status, Active
  <2>2. thr' \in [Thread -> ThreadState] /\ Shape'
    BY <1>1, <2>1, AdvanceType DEF Mark, Goto, Shape
  <2> QED
    BY <1>0, <1>1, <2>2 DEF Mark, Acquire
<1>2. ASSUME MarkCommit(h) PROVE TypeInv'
  <2>1. status' \in [Task -> Status]
    BY <1>0, <1>2, CommitType DEF MarkCommit
  <2>2. thr' \in [Thread -> ThreadState] /\ Shape'
    BY <1>2, AdvanceType DEF MarkCommit, Goto, Shape
  <2> QED
    BY <1>0, <1>2, <2>1, <2>2 DEF MarkCommit, Release
<1>3. ASSUME Gate(h) \/ Hold(h) \/ Held(h) \/ Leave(h) PROVE TypeInv'
  <2>1. /\ thr[h].pc # "idle"
        /\ \/ EndWith(h, "cancelled")
           \/ \E pc \in {"hold", "held", "leave", "body"} : Goto(h, pc)
    BY <1>3 DEF Gate, Hold, Held, Leave
  <2>2. UNCHANGED <<rows, queuePaused, lock, cl, workers, disp, running>>
    BY <1>3 DEF Gate, Hold, Held, Leave
  <2> QED
    BY <2>1, <2>2, AdvanceType DEF Goto, EndWith, Shape
<1>4. ASSUME Save(h) PROVE TypeInv'
  BY <1>0, <1>4, AdvanceType DEF Goto, Save, Acquire, Shape
<1>5. ASSUME SaveCommit(h) PROVE TypeInv'
  BY <1>0, <1>5, AdvanceType DEF Goto, SaveCommit, Release, Shape
<1>6. ASSUME Decide(h) \/ Raise(h) PROVE TypeInv'
  <2>1. /\ thr[h].pc # "idle"
        /\ \/ Goto(h, "exit")
           \/ \E final \in {"succeeded", "failed", "cancelled", "irreversible"} : EndWith(h, final)
    BY <1>6 DEF Decide, Raise
  <2>2. UNCHANGED <<rows, queuePaused, lock, cl, workers, disp, running>>
    BY <1>6 DEF Decide, Raise
  <2> QED
    BY <2>1, <2>2, AdvanceType DEF Goto, EndWith, Shape
<1>7. ASSUME Finish(h) PROVE TypeInv'
  <2>1. FinishTo(thr[h].task, thr[h].final) \in Status \cup {"keep"}
    BY <1>0, <1>7, DecisionType DEF Finish
  <2>2. thr' \in [Thread -> ThreadState] /\ Shape'
    BY <1>7, <2>1, AdvanceType DEF Finish, Goto, Shape
  <2> QED
    BY <1>0, <1>7, <2>2 DEF Finish, Acquire
<1>8. ASSUME FinishCommit(h) PROVE TypeInv'
  <2>1. status' \in [Task -> Status]
    BY <1>0, <1>8, CommitType DEF FinishCommit
  <2>2. thr' \in [Thread -> ThreadState] /\ Shape'
    BY <1>8, AdvanceType DEF FinishCommit, Goto, Shape
  <2> QED
    BY <1>0, <1>8, <2>1, <2>2 DEF FinishCommit, Release
<1>9. ASSUME Exit(h) PROVE TypeInv'
  BY <1>9, IdleThreadType DEF Exit, Shape, IdleThread
<1> QED
  BY <1>1, <1>2, <1>3, <1>4, <1>5, <1>6, <1>7, <1>8, <1>9 DEF ThreadStep

LEMMA TypeNext == TypeInv /\ [Next]_vars => TypeInv'
<1> SUFFICES ASSUME TypeInv, [Next]_vars PROVE TypeInv'
  OBVIOUS
<1>1. CASE \E c \in Client : ClientCall(c) \/ ClientStep(c)
  BY <1>1, TypeClient
<1>2. CASE Dispatch
  BY <1>2, TypeDispatch
<1>3. CASE \E h \in Thread : ThreadStep(h)
  BY <1>3, TypeThread
<1>4. CASE Stop
  BY <1>4 DEF Stop, TypeInv, TypeOK, Shape, rows
<1>5. CASE Crash
  <2>1. disp' \in DispState
    BY <1>5, IdleDispType DEF Crash
  <2>2. cl' \in [Client -> ClientState] /\ thr' \in [Thread -> ThreadState]
    BY <1>5, IdleClientType, IdleThreadType DEF Crash
  <2>3. Shape'
    BY <1>5 DEF Crash, Shape, IdleClient, IdleThread, IdleDisp
  <2> QED
    BY <1>5, <2>1, <2>2, <2>3 DEF Crash, TypeInv, TypeOK, rows
<1>6. CASE UNCHANGED vars
  BY <1>6 DEF vars, TypeInv, TypeOK, Shape, ClientState
<1> QED
  BY <1>1, <1>2, <1>3, <1>4, <1>5, <1>6 DEF Next

LEMMA TypeInvariant == Spec => []TypeInv
  BY TypeInit, TypeNext, PTL DEF Spec

\* Every reachable state of the runtime is well typed.
THEOREM TypeCorrect == Spec => []TypeOK
<1>1. TypeInv => TypeOK
  BY DEF TypeInv
<1> QED
  BY TypeInvariant, <1>1, PTL

--------------------------------------------------------------------------------
(* Mutual exclusion of account keys. KeyExclusion is not inductive: that a   *)
(* new worker is alone on its keys follows from what the dispatcher computed *)
(* earlier. The strengthening says that a thread with keys is an entry of    *)
(* _workers, that the busy keys the dispatcher works with cover every entry  *)
(* (entries may go meanwhile, only the dispatcher adds them), and that its   *)
(* pick needs none of them.                                                  *)

Planning == disp.pc \in {"ask", "query", "claim", "spawn"}

KeyInv ==
  /\ KeyExclusion
  /\ \A h \in Thread :
       Live(h) /\ KeysOf[thr[h].task] # {} => thr[h].task \in workers
  /\ Planning => \A t \in workers : KeysOf[t] \subseteq disp.busy
  /\ disp.pc \in {"claim", "spawn"} => KeysOf[disp.pick] \cap disp.busy = {}

LEMMA KeyInit == Init => KeyInv
  BY DEF Init, KeyInv, KeyExclusion, Live, IdleThread, IdleDisp, Planning

\* The steps of HTTP threads touch neither threads nor dispatcher.
LEMMA ClientFrame ==
  ASSUME NEW c \in Client, ClientCall(c) \/ ClientStep(c)
  PROVE  UNCHANGED <<thr, workers, disp, running, saves, started>>
  BY DEF ClientCall, ClientStep, CreateTask, CreateCheckPause, Call, CallQueue,
         SelectIds, ReadHeld, Load, Commit, rows

\* Every step of a thread but its exit keeps it alive on its task.
LEMMA ThreadFrame ==
  ASSUME TypeInv, NEW h \in Thread, ThreadStep(h), ~Exit(h)
  PROVE  /\ UNCHANGED <<workers, disp, running, queuePaused, cl>>
         /\ Live(h) /\ thr'[h].pc # "idle" /\ thr'[h].task = thr[h].task
         /\ \A g \in Thread : g # h => thr'[g] = thr[g]
<1>1. /\ UNCHANGED <<workers, disp, running, queuePaused, cl>>
      /\ Live(h)
      /\ \E pc \in {"marking", "gate", "hold", "held", "leave", "body", "saving",
                    "end", "ending", "exit"} :
           \E final, to : Advance(h, pc, final, to)
  BY DEF ThreadStep, Mark, MarkCommit, Gate, Hold, Held, Leave, Save, SaveCommit,
         Decide, Raise, Finish, FinishCommit, Goto, EndWith, Live, rows
<1> QED
  BY <1>1 DEF Advance, TypeInv, TypeOK

LEMMA KeyDispatch ==
  ASSUME TypeInv, KeyInv, Dispatch
  PROVE  KeyInv'
<1> USE DEF KeyInv, KeyExclusion, Planning, Live
<1>1. ASSUME Start PROVE KeyInv'
  BY <1>1 DEF Start, IdleDisp
<1>2. ASSUME Snapshot PROVE KeyInv'
  BY <1>2 DEF Snapshot, BusyKeys
<1>3. ASSUME ReadFlag PROVE KeyInv'
  BY <1>3 DEF ReadFlag, IdleDisp, TypeInv, TypeOK, DispState
<1>4. ASSUME Query PROVE KeyInv'
  <2>1. UNCHANGED <<thr, workers>>
    BY <1>4 DEF Query
  <2>2. CASE disp' = IdleDisp("loop")
    BY <2>1, <2>2 DEF IdleDisp
  <2>3. CASE \E t \in Eligible : disp' = [disp EXCEPT !.pc = "claim", !.pick = t]
    <3>1. PICK t \in Eligible : disp' = [disp EXCEPT !.pc = "claim", !.pick = t]
      BY <2>3
    <3>2. disp'.pc = "claim" /\ disp'.pick = t /\ disp'.busy = disp.busy
      BY <3>1 DEF TypeInv, TypeOK, DispState
    <3>3. KeysOf[t] \cap disp.busy = {}
      BY DEF Eligible
    <3>4. disp.pc = "query"
      BY <1>4 DEF Query
    <3> QED
      BY <2>1, <3>2, <3>3, <3>4
  <2> QED
    BY <1>4, <2>2, <2>3 DEF Query
<1>5. ASSUME Claim PROVE KeyInv'
  BY <1>5 DEF Claim, TypeInv, TypeOK, DispState
<1>6. ASSUME NEW h \in Thread, Spawn(h) PROVE KeyInv'
  <2>1. /\ thr'[h].task = disp.pick /\ thr'[h].pc # "idle"
        /\ \A g \in Thread : g # h => thr'[g] = thr[g]
        /\ workers' = workers \cup {disp.pick}
    BY <1>6 DEF Spawn, IdleThread, TypeInv, TypeOK
  \* the new worker is alone on its keys: the others are entries of _workers
  <2>2. \A g \in Thread : g # h /\ Live(g)
          => KeysOf[thr[g].task] \cap KeysOf[disp.pick] = {}
    BY <1>6 DEF Spawn
  <2>3. KeyExclusion'
    BY <2>1, <2>2
  <2>4. \A g \in Thread :
          thr'[g].pc # "idle" /\ KeysOf[thr'[g].task] # {} => thr'[g].task \in workers'
    BY <2>1
  <2>5. Planning' => \A t \in workers' : KeysOf[t] \subseteq disp'.busy
    BY <1>6, <2>1 DEF Spawn, AfterSpawn, IdleDisp
  <2>6. disp'.pc \notin {"claim", "spawn"}
    BY <1>6 DEF Spawn, AfterSpawn, IdleDisp
  <2> QED
    BY <2>3, <2>4, <2>5, <2>6
<1> QED
  BY <1>1, <1>2, <1>3, <1>4, <1>5, <1>6 DEF Dispatch

LEMMA KeyNext == TypeInv /\ KeyInv /\ [Next]_vars => KeyInv'
<1> SUFFICES ASSUME TypeInv, KeyInv, [Next]_vars PROVE KeyInv'
  OBVIOUS
<1>1. CASE \E c \in Client : ClientCall(c) \/ ClientStep(c)
  BY <1>1, ClientFrame DEF KeyInv, KeyExclusion, Planning, Live
<1>2. CASE Dispatch
  BY <1>2, KeyDispatch
<1>3. CASE \E h \in Thread : ThreadStep(h)
  <2>1. PICK h \in Thread : ThreadStep(h)
    BY <1>3
  <2>2. CASE ~Exit(h)
    BY <2>1, <2>2, ThreadFrame DEF KeyInv, KeyExclusion, Planning, Live
  <2>3. CASE Exit(h)
    <3>1. /\ Live(h) /\ thr'[h].pc = "idle" /\ UNCHANGED disp
          /\ workers' = workers \ {thr[h].task}
          /\ \A g \in Thread : g # h => thr'[g] = thr[g]
      BY <2>3 DEF Exit, IdleThread, Live, TypeInv, TypeOK
    \* the entry that goes is not the entry of another thread with keys
    <3>2. \A g \in Thread : g # h /\ Live(g) /\ KeysOf[thr[g].task] # {}
            => thr[g].task \in workers'
      BY <3>1 DEF KeyInv, KeyExclusion
    <3> QED
      BY <3>1, <3>2 DEF KeyInv, KeyExclusion, Planning, Live
  <2> QED
    BY <2>2, <2>3
<1>4. CASE Stop
  BY <1>4 DEF Stop, KeyInv, KeyExclusion, Planning, Live
<1>5. CASE Crash
  BY <1>5 DEF Crash, KeyInv, KeyExclusion, Planning, Live, IdleThread, IdleDisp
<1>6. CASE UNCHANGED vars
  BY <1>6 DEF vars, KeyInv, KeyExclusion, Planning, Live
<1> QED
  BY <1>1, <1>2, <1>3, <1>4, <1>5, <1>6 DEF Next

\* No two worker threads ever share an account, for any number of tasks,
\* threads and operators, through every race, crash and forced release.
THEOREM AccountsExclusive == Spec => []KeyExclusion
<1>1. KeyInv => KeyExclusion
  BY DEF KeyInv
<1> QED
  BY KeyInit, KeyNext, TypeInvariant, <1>1, PTL DEF Spec

--------------------------------------------------------------------------------
(* Lanes of limit 1. The argument is that of the keys, with lane counts in   *)
(* the place of busy keys: a count of zero means that no entry of _workers   *)
(* is in the lane, and the pick of a serial lane was made at count zero.     *)

LaneInv ==
  /\ SerialLane
  /\ \A h \in Thread :
       Live(h) /\ LaneOf[thr[h].task] \in Lane /\ Serial(LaneOf[thr[h].task])
         => thr[h].task \in workers
  /\ Planning => \A t \in workers :
                   LaneOf[t] \in Lane => disp.count[LaneOf[t]] > 0
  /\ /\ disp.pc \in {"claim", "spawn"}
     /\ LaneOf[disp.pick] \in Lane /\ Serial(LaneOf[disp.pick])
     => disp.count[LaneOf[disp.pick]] = 0

LEMMA LaneInit == Init => LaneInv
  BY DEF Init, LaneInv, SerialLane, Live, IdleThread, IdleDisp, Planning

\* A lane with an entry in _workers has a positive count.
LEMMA LaneCountsPositive ==
  ASSUME TypeInv, NEW t \in workers, LaneOf[t] \in Lane
  PROVE  LaneCounts[LaneOf[t]] > 0
<1> DEFINE S == {u \in workers : LaneOf[u] = LaneOf[t]}
<1>1. S \in SUBSET Task /\ S # {}
  BY DEF TypeInv, TypeOK
<1>2. IsFiniteSet(S)
  BY <1>1, TaskAssumption, FS_Subset
<1>3. Cardinality(S) \in Nat /\ Cardinality(S) # 0
  BY <1>1, <1>2, FS_CardinalityType, FS_EmptySet
<1>4. LaneCounts[LaneOf[t]] = Cardinality(S)
  BY DEF LaneCounts
<1> QED
  BY <1>3, <1>4

LEMMA LaneDispatch ==
  ASSUME TypeInv, LaneInv, Dispatch
  PROVE  LaneInv'
<1> USE DEF LaneInv, SerialLane, Planning, Live
<1>1. ASSUME Start PROVE LaneInv'
  BY <1>1 DEF Start, IdleDisp
<1>2. ASSUME Snapshot PROVE LaneInv'
  BY <1>2, LaneCountsPositive DEF Snapshot
<1>3. ASSUME ReadFlag PROVE LaneInv'
  BY <1>3 DEF ReadFlag, IdleDisp, TypeInv, TypeOK, DispState
<1>4. ASSUME Query PROVE LaneInv'
  <2>1. UNCHANGED <<thr, workers>>
    BY <1>4 DEF Query
  <2>2. CASE disp' = IdleDisp("loop")
    BY <2>1, <2>2 DEF IdleDisp
  <2>3. CASE \E t \in Eligible : disp' = [disp EXCEPT !.pc = "claim", !.pick = t]
    <3>1. PICK t \in Eligible : disp' = [disp EXCEPT !.pc = "claim", !.pick = t]
      BY <2>3
    <3>2. disp'.pc = "claim" /\ disp'.pick = t /\ disp'.count = disp.count
      BY <3>1 DEF TypeInv, TypeOK, DispState
    <3>3. LaneOf[t] \in Lane /\ Serial(LaneOf[t]) => disp.count[LaneOf[t]] = 0
      BY TaskAssumption DEF Eligible, Serial, TypeInv, TypeOK, DispState
    <3>4. disp.pc = "query"
      BY <1>4 DEF Query
    <3> QED
      BY <2>1, <3>2, <3>3, <3>4
  <2> QED
    BY <1>4, <2>2, <2>3 DEF Query
<1>5. ASSUME Claim PROVE LaneInv'
  BY <1>5 DEF Claim, TypeInv, TypeOK, DispState
<1>6. ASSUME NEW h \in Thread, Spawn(h) PROVE LaneInv'
  <2>1. /\ thr'[h].task = disp.pick /\ thr'[h].pc # "idle"
        /\ \A g \in Thread : g # h => thr'[g] = thr[g]
        /\ workers' = workers \cup {disp.pick}
        /\ disp.pick \in Task
    BY <1>6 DEF Spawn, IdleThread, TypeInv, TypeOK, Shape
  \* no other thread is in the pick's lane when that lane is serial
  <2>2. \A g \in Thread :
          g # h /\ Live(g) /\ LaneOf[disp.pick] \in Lane /\ Serial(LaneOf[disp.pick])
            => LaneOf[thr[g].task] # LaneOf[disp.pick]
    BY <1>6 DEF Spawn, TypeInv, TypeOK, DispState
  <2>3. SerialLane'
    BY <2>1, <2>2 DEF Serial
  <2>4. \A g \in Thread :
          (/\ thr'[g].pc # "idle"
           /\ LaneOf[thr'[g].task] \in Lane /\ Serial(LaneOf[thr'[g].task]))
          => thr'[g].task \in workers'
    <3> TAKE g \in Thread
    <3>1. CASE g = h
      BY <2>1, <3>1
    <3>2. CASE g # h
      <4>1. thr'[g] = thr[g] /\ workers \subseteq workers'
        BY <2>1, <3>2
      <4> QED
        BY <4>1
    <3> QED
      BY <3>1, <3>2
  <2>5. ASSUME Planning', NEW t \in workers', LaneOf[t] \in Lane
        PROVE  disp'.count[LaneOf[t]] > 0
    <3>1. disp'.count = [l \in Lane |-> disp.count[l] +
                           IF LaneOf[disp.pick] = l THEN 1 ELSE 0]
      BY <1>6, <2>5 DEF Spawn, AfterSpawn, IdleDisp
    <3>2. disp.count[LaneOf[t]] \in Nat
      BY <2>5 DEF TypeInv, TypeOK, DispState
    <3>3. CASE t = disp.pick
      BY <2>5, <3>1, <3>2, <3>3
    <3>4. CASE t \in workers
      BY <1>6, <2>5, <3>1, <3>2, <3>4 DEF Spawn
    <3> QED
      BY <2>1, <2>5, <3>3, <3>4
  <2>6. disp'.pc \notin {"claim", "spawn"}
    BY <1>6 DEF Spawn, AfterSpawn, IdleDisp
  <2> QED
    BY <2>3, <2>4, <2>5, <2>6
<1> QED
  BY <1>1, <1>2, <1>3, <1>4, <1>5, <1>6 DEF Dispatch

LEMMA LaneNext == TypeInv /\ LaneInv /\ [Next]_vars => LaneInv'
<1> SUFFICES ASSUME TypeInv, LaneInv, [Next]_vars PROVE LaneInv'
  OBVIOUS
<1>1. CASE \E c \in Client : ClientCall(c) \/ ClientStep(c)
  BY <1>1, ClientFrame DEF LaneInv, SerialLane, Planning, Live
<1>2. CASE Dispatch
  BY <1>2, LaneDispatch
<1>3. CASE \E h \in Thread : ThreadStep(h)
  <2>1. PICK h \in Thread : ThreadStep(h)
    BY <1>3
  <2>2. CASE ~Exit(h)
    BY <2>1, <2>2, ThreadFrame DEF LaneInv, SerialLane, Planning, Live
  <2>3. CASE Exit(h)
    <3>1. /\ Live(h) /\ thr'[h].pc = "idle" /\ UNCHANGED disp
          /\ workers' = workers \ {thr[h].task}
          /\ \A g \in Thread : g # h => thr'[g] = thr[g]
      BY <2>3 DEF Exit, IdleThread, Live, TypeInv, TypeOK
    <3>2. \A g \in Thread :
            (/\ g # h /\ Live(g)
             /\ LaneOf[thr[g].task] \in Lane /\ Serial(LaneOf[thr[g].task]))
            => thr[g].task \in workers'
      <4> SUFFICES ASSUME NEW g \in Thread, g # h, Live(g),
                          LaneOf[thr[g].task] \in Lane,
                          Serial(LaneOf[thr[g].task])
                   PROVE  thr[g].task \in workers'
        OBVIOUS
      <4>1. thr[g].task # thr[h].task
        BY <3>1 DEF LaneInv, SerialLane
      <4>2. thr[g].task \in workers
        BY DEF LaneInv
      <4> QED
        BY <3>1, <4>1, <4>2
    <3> QED
      BY <3>1, <3>2 DEF LaneInv, SerialLane, Planning, Live
  <2> QED
    BY <2>2, <2>3
<1>4. CASE Stop
  BY <1>4 DEF Stop, LaneInv, SerialLane, Planning, Live
<1>5. CASE Crash
  BY <1>5 DEF Crash, LaneInv, SerialLane, Planning, Live, IdleThread, IdleDisp
<1>6. CASE UNCHANGED vars
  BY <1>6 DEF vars, LaneInv, SerialLane, Planning, Live
<1> QED
  BY <1>1, <1>2, <1>3, <1>4, <1>5, <1>6 DEF Next

\* A lane of limit 1 never runs two threads at once.
THEOREM SerialLanesAreSerial == Spec => []SerialLane
<1>1. LaneInv => SerialLane
  BY DEF LaneInv
<1> QED
  BY LaneInit, LaneNext, TypeInvariant, <1>1, PTL DEF Spec

--------------------------------------------------------------------------------
(* The row lock. Whoever is between the read and the commit of a mutation    *)
(* holds the lock of the row, so only the dispatcher's claim, which takes no *)
(* lock, can change the row in between. What was decided about a terminal    *)
(* row, and the check of save_account, therefore still hold at the commit.   *)

LockInv ==
  /\ disp.pc = "down" => /\ \A c \in Client : cl[c].pc = "idle"
                         /\ \A h \in Thread : thr[h].pc = "idle"
  /\ \A c \in Client : cl[c].pc = "commit" =>
       /\ lock[cl[c].task] = c
       /\ cl[c].to # "keep" => status[cl[c].task] \notin Terminal
  /\ \A h \in Thread : thr[h].pc \in {"marking", "saving", "ending"} =>
       /\ lock[thr[h].task] = h
       /\ thr[h].to # "keep" => status[thr[h].task] \notin Terminal
       /\ thr[h].pc = "saving" => Writable(thr[h].task)

LEMMA LockInit == Init => LockInv
  BY DEF Init, LockInv, IdleClient, IdleThread, IdleDisp

\* No mutation decides to change a row it found terminal.
LEMMA TerminalIsKept ==
  ASSUME NEW t \in Task, status[t] \in Terminal, NEW held, NEW final,
         NEW op \in {"pause", "resume", "cancel", "release"}
  PROVE  /\ ClientTo(op, t, held) = "keep"
         /\ MarkTo(t) = "keep"
         /\ FinishTo(t, final) = "keep"
  BY DEF ClientTo, CancelTo, PauseTo, ResumeTo, ReleaseTo, MarkTo, FinishTo,
         Stopped, Terminal

\* Two mutations in progress are on different rows.
LEMMA HoldersDiffer ==
  ASSUME TypeInv, LockInv
  PROVE  /\ \A c, d \in Client :
              c # d /\ cl[c].pc = "commit" /\ cl[d].pc = "commit"
                => cl[c].task # cl[d].task
         /\ \A c \in Client, h \in Thread :
              cl[c].pc = "commit" /\ thr[h].pc \in {"marking", "saving", "ending"}
                => cl[c].task # thr[h].task
         /\ \A g, h \in Thread :
              /\ g # h
              /\ thr[g].pc \in {"marking", "saving", "ending"}
              /\ thr[h].pc \in {"marking", "saving", "ending"}
              => thr[g].task # thr[h].task
  BY TaskAssumption DEF LockInv

LEMMA LockClient ==
  ASSUME TypeInv, LockInv, NEW c \in Client, ClientCall(c) \/ ClientStep(c)
  PROVE  LockInv'
<1>1. UNCHANGED <<thr, disp>>
  BY ClientFrame
<1>2. disp.pc # "down"
  BY DEF LockInv, ClientCall, ClientStep, CreateTask, CreateCheckPause, Call,
         CallQueue, SelectIds, ReadHeld, Load, Commit
<1>3. ASSUME NEW t \in Task, CreateTask(c, t) PROVE LockInv'
  <2>1. /\ \A u \in Task : u # t => status'[u] = status[u]
        /\ status'[t] = "pending"
        /\ UNCHANGED lock
    BY <1>3 DEF CreateTask, TypeInv, TypeOK
  <2>2. /\ cl'[c].pc # "commit"
        /\ \A d \in Client : d # c => cl'[d] = cl[d]
    BY <1>3 DEF CreateTask, IdleClient, TypeInv, TypeOK
  <2> QED
    BY <1>1, <1>2, <2>1, <2>2 DEF LockInv, Writable, Exists, Terminal, TypeInv, Shape
<1>4. ASSUME NEW t \in Task, Load(c, t) PROVE LockInv'
  <2>1. /\ UNCHANGED status
        /\ lock[t] = None /\ lock'[t] = c
        /\ \A u \in Task : u # t => lock'[u] = lock[u]
    BY <1>4 DEF Load, Acquire, rows, TypeInv, TypeOK
  <2>2. /\ cl'[c].task = t /\ cl'[c].to = ClientTo(cl[c].op, t, cl[c].held)
        /\ \A d \in Client : d # c => cl'[d] = cl[d]
    BY <1>4 DEF Load, TypeInv, TypeOK
  <2>3. cl'[c].to # "keep" => status[t] \notin Terminal
    <3>1. cl[c].op \in {"pause", "resume", "cancel", "release"}
      BY <1>4 DEF Load, TypeInv, TypeOK, Shape, ClientState
    <3> QED
      BY <2>2, <3>1, TerminalIsKept
  <2> QED
    BY <1>1, <1>2, <2>1, <2>2, <2>3, TaskAssumption
    DEF LockInv, Writable, Exists, TypeInv, Shape
<1>5. ASSUME Commit(c) PROVE LockInv'
  <2>1. /\ cl[c].pc = "commit"
        /\ \A u \in Task : u # cl[c].task => status'[u] = status[u] /\ lock'[u] = lock[u]
    BY <1>5 DEF Commit, CommitStatus, Release, TypeInv, TypeOK
  <2>2. /\ cl'[c].pc # "commit"
        /\ \A d \in Client : d # c => cl'[d] = cl[d]
    BY <1>5 DEF Commit, Sweep, IdleClient, TypeInv, TypeOK
  <2> QED
    BY <1>1, <1>2, <2>1, <2>2, HoldersDiffer
    DEF LockInv, Writable, Exists, TypeInv, Shape
<1>6. ASSUME \/ CreateCheckPause(c) \/ SelectIds(c)
             \/ \E t \in Task : ReadHeld(c, t)
             \/ \E op \in Ops : CallQueue(c, op) \/ \E t \in Task : Call(c, op, t)
      PROVE  LockInv'
  <2>1. UNCHANGED <<status, lock>>
    BY <1>6 DEF CreateCheckPause, SelectIds, ReadHeld, CallQueue, Call, rows
  <2>2. /\ cl'[c].pc # "commit"
        /\ \A d \in Client : d # c => cl'[d] = cl[d]
    <3>1. CASE \E op, todo : Sweep(c, op, todo)
      BY <3>1 DEF Sweep, IdleClient, TypeInv, TypeOK
    <3>2. CASE \E t \in Task : ReadHeld(c, t)
      BY <3>2 DEF ReadHeld, TypeInv, TypeOK
    <3>3. CASE \E op \in Ops : CallQueue(c, op)
      BY <3>3 DEF CallQueue, IdleClient, TypeInv, TypeOK
    <3> QED
      BY <1>6, <3>1, <3>2, <3>3 DEF CreateCheckPause, SelectIds, Call
  <2> QED
    BY <1>1, <1>2, <2>1, <2>2 DEF LockInv, Writable, Exists
<1> QED
  BY <1>3, <1>4, <1>5, <1>6 DEF ClientCall, ClientStep

LEMMA LockDispatch ==
  ASSUME TypeInv, LockInv, Dispatch
  PROVE  LockInv'
<1>1. CASE Start
  BY <1>1 DEF Start, LockInv, IdleDisp
<1>2. CASE Snapshot \/ ReadFlag \/ Query
  <2>1. disp'.pc # "down"
    <3>1. CASE Snapshot
      BY <3>1 DEF Snapshot
    <3>2. CASE ReadFlag
      BY <3>2 DEF ReadFlag, IdleDisp, TypeInv, TypeOK, DispState
    <3>3. CASE Query
      <4>1. CASE disp' = IdleDisp("loop")
        BY <4>1 DEF IdleDisp
      <4>2. CASE \E t \in Eligible : disp' = [disp EXCEPT !.pc = "claim", !.pick = t]
        BY <4>2 DEF TypeInv, TypeOK, DispState
      <4> QED
        BY <3>3, <4>1, <4>2 DEF Query
    <3> QED
      BY <1>2, <3>1, <3>2, <3>3
  <2>2. UNCHANGED <<status, lock, cl, thr>>
    BY <1>2 DEF Snapshot, ReadFlag, Query, rows
  <2> QED
    BY <2>1, <2>2 DEF LockInv, Writable, Exists
<1>3. CASE Claim
  <2>1. /\ \A u \in Task : status'[u] = status[u] \/ status'[u] = "claimed"
        /\ UNCHANGED <<lock, cl, thr>>
    BY <1>3 DEF Claim, TypeInv, TypeOK
  <2>2. disp'.pc # "down"
    BY <1>3 DEF Claim, TypeInv, TypeOK, DispState
  <2> QED
    BY <2>1, <2>2 DEF LockInv, Writable, Exists, Terminal, TypeInv, Shape
<1>4. ASSUME NEW h \in Thread, Spawn(h) PROVE LockInv'
  <2>1. /\ thr'[h].pc = "mark"
        /\ \A g \in Thread : g # h => thr'[g] = thr[g]
        /\ UNCHANGED <<status, lock, cl>>
    BY <1>4 DEF Spawn, IdleThread, TypeInv, TypeOK, rows
  <2>2. disp'.pc # "down"
    BY <1>4 DEF Spawn, AfterSpawn, IdleDisp
  <2> QED
    BY <2>1, <2>2 DEF LockInv, Writable, Exists
<1> QED
  BY <1>1, <1>2, <1>3, <1>4 DEF Dispatch

LEMMA LockThread ==
  ASSUME TypeInv, LockInv, NEW h \in Thread, ThreadStep(h)
  PROVE  LockInv'
<1>0. /\ thr[h].pc # "idle" /\ thr[h].task \in Task
      /\ disp.pc # "down" /\ UNCHANGED <<cl, disp>>
  <2>1. thr[h].pc # "idle" /\ UNCHANGED <<cl, disp>>
    BY DEF ThreadStep, Mark, MarkCommit, Gate, Hold, Held, Leave, Save, SaveCommit,
           Decide, Raise, Finish, FinishCommit, Exit
  <2> QED
    BY <2>1 DEF LockInv, TypeInv, Shape
\* the thread takes the lock, having seen the row
<1>1. ASSUME NEW pc \in {"marking", "saving", "ending"}, NEW to,
             UNCHANGED status, Acquire(thr[h].task, h), Advance(h, pc, "none", to),
             to # "keep" => status[thr[h].task] \notin Terminal,
             pc = "saving" => Writable(thr[h].task)
      PROVE  LockInv'
  <2>1. /\ lock[thr[h].task] = None /\ lock'[thr[h].task] = h
        /\ \A u \in Task : u # thr[h].task => lock'[u] = lock[u]
    BY <1>0, <1>1 DEF Acquire, TypeInv, TypeOK
  <2>2. /\ thr'[h].task = thr[h].task /\ thr'[h].pc = pc /\ thr'[h].to = to
        /\ \A g \in Thread : g # h => thr'[g] = thr[g]
    BY <1>1 DEF Advance, TypeInv, TypeOK
  <2> QED
    BY <1>0, <1>1, <2>1, <2>2, TaskAssumption DEF LockInv, Writable, Exists, TypeInv, Shape
\* the thread commits and gives the lock back: nobody else is at that row
<1>2. ASSUME thr[h].pc \in {"marking", "saving", "ending"},
             UNCHANGED status \/ CommitStatus(thr[h].task, thr[h].to),
             Release(thr[h].task), NEW pc \in {"gate", "body", "exit"}, Goto(h, pc)
      PROVE  LockInv'
  <2>1. \A u \in Task : u # thr[h].task => status'[u] = status[u] /\ lock'[u] = lock[u]
    BY <1>0, <1>2 DEF CommitStatus, Release, TypeInv, TypeOK
  <2>2. /\ thr'[h].pc = pc
        /\ \A g \in Thread : g # h => thr'[g] = thr[g]
    BY <1>2 DEF Goto, Advance, TypeInv, TypeOK
  <2> QED
    BY <1>0, <1>2, <2>1, <2>2, HoldersDiffer DEF LockInv, Writable, Exists, TypeInv, Shape
\* the thread looks at the row without the lock
<1>3. ASSUME UNCHANGED <<status, lock>>,
             NEW pc \in {"hold", "held", "leave", "body", "end", "exit"}, NEW final,
             Advance(h, pc, final, "keep")
      PROVE  LockInv'
  <2>1. /\ thr'[h].pc = pc
        /\ \A g \in Thread : g # h => thr'[g] = thr[g]
    BY <1>3 DEF Advance, TypeInv, TypeOK
  <2> QED
    BY <1>0, <1>3, <2>1 DEF LockInv, Writable, Exists
<1>4. CASE Mark(h)
  BY <1>0, <1>1, <1>4, TerminalIsKept DEF Mark, rows
<1>5. CASE Save(h)
  BY <1>1, <1>5 DEF Save, Goto, rows
<1>6. CASE Finish(h)
  BY <1>0, <1>1, <1>6, TerminalIsKept DEF Finish, rows
<1>7. CASE MarkCommit(h)
  BY <1>2, <1>7 DEF MarkCommit
<1>8. CASE SaveCommit(h)
  BY <1>2, <1>8 DEF SaveCommit
<1>9. CASE FinishCommit(h)
  BY <1>2, <1>9 DEF FinishCommit
<1>10. CASE Gate(h) \/ Hold(h) \/ Held(h) \/ Leave(h) \/ Decide(h) \/ Raise(h)
  BY <1>3, <1>10 DEF Gate, Hold, Held, Leave, Decide, Raise, Goto, EndWith, rows
<1>11. CASE Exit(h)
  <2>1. /\ thr'[h].pc = "idle" /\ UNCHANGED <<status, lock>>
        /\ \A g \in Thread : g # h => thr'[g] = thr[g]
    BY <1>11 DEF Exit, IdleThread, rows, TypeInv, TypeOK
  <2> QED
    BY <1>0, <2>1 DEF LockInv, Writable, Exists
<1> QED
  BY <1>4, <1>5, <1>6, <1>7, <1>8, <1>9, <1>10, <1>11 DEF ThreadStep

LEMMA LockNext == TypeInv /\ LockInv /\ [Next]_vars => LockInv'
<1> SUFFICES ASSUME TypeInv, LockInv, [Next]_vars PROVE LockInv'
  OBVIOUS
<1>1. CASE \E c \in Client : ClientCall(c) \/ ClientStep(c)
  BY <1>1, LockClient
<1>2. CASE Dispatch
  BY <1>2, LockDispatch
<1>3. CASE \E h \in Thread : ThreadStep(h)
  BY <1>3, LockThread
<1>4. CASE Stop
  BY <1>4 DEF Stop, LockInv, Writable, Exists, rows
<1>5. CASE Crash
  BY <1>5 DEF Crash, LockInv, IdleClient, IdleThread, IdleDisp
<1>6. CASE UNCHANGED vars
  BY <1>6 DEF vars, LockInv, Writable, Exists
<1> QED
  BY <1>1, <1>2, <1>3, <1>4, <1>5, <1>6 DEF Next

LEMMA LockInvariant == Spec => [](TypeInv /\ LockInv)
  BY TypeInvariant, LockInit, LockNext, PTL DEF Spec

\* An account is only written while its task is neither cancelled, nor asked
\* to cancel, nor finished: the check made under the lock has not gone stale.
THEOREM SavesAreFenced == Spec => FencedSaves
<1>1. TypeInv /\ LockInv /\ [Next]_vars
        => [\A t \in Task : saves'[t] # saves[t] => Writable(t)]_vars
  <2> SUFFICES ASSUME TypeInv, LockInv, Next, NEW t \in Task, saves'[t] # saves[t]
               PROVE  Writable(t)
    OBVIOUS
  <2>1. \E h \in Thread : SaveCommit(h)
    <3>1. CASE \E c \in Client : ClientCall(c) \/ ClientStep(c)
      BY <3>1, ClientFrame
    <3>2. CASE Dispatch
      BY <3>2 DEF Dispatch, Start, Snapshot, ReadFlag, Query, Claim, Spawn, rows
    <3>3. CASE \E h \in Thread : ThreadStep(h)
      BY <3>3 DEF ThreadStep, Mark, MarkCommit, Gate, Hold, Held, Leave, Save,
                  Decide, Raise, Finish, FinishCommit, Exit, rows
    <3>4. CASE Stop \/ Crash
      BY <3>4 DEF Stop, Crash, rows
    <3> QED
      BY <3>1, <3>2, <3>3, <3>4 DEF Next
  <2>2. PICK h \in Thread : SaveCommit(h)
    BY <2>1
  <2>3. t = thr[h].task /\ thr[h].pc = "saving"
    BY <2>2 DEF SaveCommit, TypeInv, TypeOK
  <2> QED
    BY <2>3 DEF LockInv
<1> QED
  BY LockInvariant, <1>1, PTL DEF Spec, FencedSaves

\* Only the unlocked claim can bring a terminal row back: every mutation made
\* under the row lock, by an operator or by a thread, leaves terminal rows alone.
THEOREM TerminalLeftByClaimOnly == Spec => OnlyClaimRevives
<1>1. TypeInv /\ LockInv /\ [Next]_vars
        => [\A t \in Task : status[t] \in Terminal /\ status'[t] # status[t]
              => disp.pc = "claim" /\ disp.pick = t]_vars
  <2> SUFFICES ASSUME TypeInv, LockInv, Next, NEW t \in Task,
                      status[t] \in Terminal, status'[t] # status[t]
               PROVE  disp.pc = "claim" /\ disp.pick = t
    OBVIOUS
  <2>1. CASE \E c \in Client : ClientCall(c) \/ ClientStep(c)
    <3>1. PICK c \in Client : ClientCall(c) \/ ClientStep(c)
      BY <2>1
    <3>2. CASE \E u \in Task : CreateTask(c, u)
      BY <3>2 DEF CreateTask, Terminal, TypeInv, TypeOK
    <3>3. CASE Commit(c)
      BY <3>3 DEF Commit, CommitStatus, LockInv, TypeInv, TypeOK
    <3> QED
      BY <3>1, <3>2, <3>3 DEF ClientCall, ClientStep, CreateCheckPause, Call,
           CallQueue, SelectIds, ReadHeld, Load, rows
  <2>2. CASE Dispatch
    <3>1. CASE Claim
      BY <3>1 DEF Claim, TypeInv, TypeOK
    <3>2. CASE Start
      BY <3>2 DEF Start, Active, Terminal
    <3> QED
      BY <2>2, <3>1, <3>2 DEF Dispatch, Snapshot, ReadFlag, Query, Spawn, rows
  <2>3. CASE \E h \in Thread : ThreadStep(h)
    <3>1. PICK h \in Thread : ThreadStep(h)
      BY <2>3
    <3>2. CASE MarkCommit(h) \/ FinishCommit(h)
      BY <3>2 DEF MarkCommit, FinishCommit, CommitStatus, LockInv, TypeInv, TypeOK
    <3> QED
      BY <3>1, <3>2 DEF ThreadStep, Mark, Gate, Hold, Held, Leave, Save, SaveCommit,
           Decide, Raise, Finish, Exit, rows
  <2>4. CASE Stop \/ Crash
    BY <2>4 DEF Stop, Crash, rows
  <2> QED
    BY <2>1, <2>2, <2>3, <2>4 DEF Next
<1> QED
  BY LockInvariant, <1>1, PTL DEF Spec, OnlyClaimRevives

--------------------------------------------------------------------------------
(* Rows without started_at. The claim sets it before a thread is started, so *)
(* whoever has a thread, or is about to get one, has it.                     *)

UntouchedInv ==
  /\ UnstartedIsUntouched
  /\ disp.pc = "spawn" => disp.pick \in started

LEMMA UntouchedInit == Init => UntouchedInv
  BY TaskAssumption DEF Init, UntouchedInv, UnstartedIsUntouched, IdleThread, IdleDisp

LEMMA UntouchedDispatch ==
  ASSUME TypeInv, UntouchedInv, Dispatch
  PROVE  UntouchedInv'
<1> USE DEF UntouchedInv, UnstartedIsUntouched
<1>1. CASE Start \/ Snapshot \/ ReadFlag \/ Query
  <2>1. UNCHANGED <<thr, saves, started>>
    BY <1>1 DEF Start, Snapshot, ReadFlag, Query, rows
  <2>2. disp'.pc # "spawn"
    <3>1. CASE Start
      BY <3>1 DEF Start, IdleDisp
    <3>2. CASE Snapshot
      BY <3>2 DEF Snapshot
    <3>3. CASE ReadFlag
      BY <3>3 DEF ReadFlag, IdleDisp, TypeInv, TypeOK, DispState
    <3>4. CASE Query
      <4>1. CASE disp' = IdleDisp("loop")
        BY <4>1 DEF IdleDisp
      <4>2. CASE \E t \in Eligible : disp' = [disp EXCEPT !.pc = "claim", !.pick = t]
        BY <4>2 DEF TypeInv, TypeOK, DispState
      <4> QED
        BY <3>4, <4>1, <4>2 DEF Query
    <3> QED
      BY <1>1, <3>1, <3>2, <3>3, <3>4
  <2> QED
    BY <2>1, <2>2
<1>2. CASE Claim
  <2>1. /\ UNCHANGED <<thr, saves>> /\ started' = started \cup {disp.pick}
        /\ disp'.pick = disp.pick
    BY <1>2 DEF Claim, TypeInv, TypeOK, DispState
  <2> QED
    BY <2>1
<1>3. ASSUME NEW h \in Thread, Spawn(h) PROVE UntouchedInv'
  <2>1. /\ UNCHANGED <<saves, started>> /\ thr'[h].task = disp.pick
        /\ disp.pick \in started /\ disp'.pc # "spawn"
        /\ \A g \in Thread : g # h => thr'[g] = thr[g]
    BY <1>3 DEF Spawn, AfterSpawn, IdleDisp, IdleThread, TypeInv, TypeOK, rows
  <2> QED
    BY <2>1
<1> QED
  BY <1>1, <1>2, <1>3 DEF Dispatch

LEMMA UntouchedThread ==
  ASSUME TypeInv, UntouchedInv, NEW h \in Thread, ThreadStep(h)
  PROVE  UntouchedInv'
<1> USE DEF UntouchedInv, UnstartedIsUntouched
<1>1. CASE Exit(h)
  <2>1. /\ UNCHANGED <<saves, started, disp>> /\ thr'[h].task = None
        /\ \A g \in Thread : g # h => thr'[g] = thr[g]
    BY <1>1 DEF Exit, IdleThread, TypeInv, TypeOK, rows
  <2> QED
    BY <2>1, TaskAssumption
<1>2. CASE ~Exit(h)
  <2>1. \A g \in Thread : thr'[g].task = thr[g].task
    BY <1>2, ThreadFrame
  <2>2. UNCHANGED disp
    BY <1>2, ThreadFrame
  \* a save is made by a thread, and the row of a thread has been started
  <2>3. \A t \in Task : saves'[t] = saves[t] \/ t = thr[h].task
    BY DEF ThreadStep, Mark, MarkCommit, Gate, Hold, Held, Leave, Save, SaveCommit,
           Decide, Raise, Finish, FinishCommit, Exit, rows, TypeInv, TypeOK
  <2>4. started \subseteq started'
    BY DEF ThreadStep, Mark, MarkCommit, Gate, Hold, Held, Leave, Save, SaveCommit,
           Decide, Raise, Finish, FinishCommit, Exit, rows
  <2> QED
    BY <2>1, <2>2, <2>3, <2>4
<1> QED
  BY <1>1, <1>2

LEMMA UntouchedNext == TypeInv /\ UntouchedInv /\ [Next]_vars => UntouchedInv'
<1> SUFFICES ASSUME TypeInv, UntouchedInv, [Next]_vars PROVE UntouchedInv'
  OBVIOUS
<1>1. CASE \E c \in Client : ClientCall(c) \/ ClientStep(c)
  BY <1>1, ClientFrame DEF UntouchedInv, UnstartedIsUntouched
<1>2. CASE Stop \/ UNCHANGED vars
  BY <1>2 DEF Stop, vars, rows, UntouchedInv, UnstartedIsUntouched
<1>3. CASE Crash
  BY <1>3, TaskAssumption
  DEF Crash, rows, UntouchedInv, UnstartedIsUntouched, IdleThread, IdleDisp
<1> QED
  BY <1>1, <1>2, <1>3, UntouchedDispatch, UntouchedThread DEF Next

\* mark_incomplete_tasks_interrupted keeps rows without started_at to be run
\* again: such a row never had a thread and never wrote an account, through
\* every race of claims, resumes and releases, and through any number of crashes.
THEOREM UnstartedIsSafeToRun == Spec => []UnstartedIsUntouched
<1>1. UntouchedInv => UnstartedIsUntouched
  BY DEF UntouchedInv
<1> QED
  BY UntouchedInit, UntouchedNext, TypeInvariant, <1>1, PTL DEF Spec

--------------------------------------------------------------------------------
(* Rows and the threads that serve them. A mutation decides from the row it  *)
(* loaded and a claim may fall in between, so what a mutation is about to    *)
(* commit is part of the invariant; so is the verdict that changes nothing,  *)
(* with which a thread leaves its row to whoever it is claimed for.          *)

AtWork(g, t) == thr[g].task = t /\ thr[g].pc \notin {"idle", "exit"}

Spawning(t) == disp.pc = "spawn" /\ disp.pick = t

Served(t) == Spawning(t) \/ \E g \in Thread : AtWork(g, t)

\* rows that need a thread; absent and pending ones do if they were started
Needy(t) ==
  \/ status[t] \in {"claimed", "running"}
  \/ status[t] \in {"absent", "pending", "paused"} /\ t \in started

\* what a client is about to commit
Decided(c) ==
  cl[c].pc = "commit" =>
    \/ cl[c].to \in {"keep", "cancelled", "cancel_requested"}
    \/ /\ cl[c].task \in started => Served(cl[c].task)
       /\ cl[c].to \in {"claimed", "running"} => cl[c].task \in started

\* a thread that is about to leave its row
Leaves(h) ==
  thr[h].pc = "ending" =>
    \/ thr[h].to \in Terminal
    \/ /\ thr[h].to = "keep"
       /\ \/ status[thr[h].task] \in Terminal \cup {"cancel_requested"}
          \/ Spawning(thr[h].task)
          \/ \E g \in Thread \ {h} : AtWork(g, thr[h].task)

ServedInv ==
  /\ \A t \in Task : Needy(t) => Served(t)
  /\ \A c \in Client : Decided(c)
  /\ \A h \in Thread : Leaves(h)

LEMMA ServedInit == Init => ServedInv
  BY DEF Init, ServedInv, Needy, Decided, Leaves, IdleClient, IdleThread

\* What an operator's mutation decides about a row.
LEMMA ClientDecides ==
  ASSUME NEW t \in Task, NEW held,
         NEW op \in {"pause", "resume", "cancel", "release"}
  PROVE  LET to == ClientTo(op, t, held) IN
         \/ to \in {"keep", "cancelled", "cancel_requested"}
         \/ to = "paused" /\ status[t] \in {"pending", "claimed", "running"}
         \/ to = "running" /\ status[t] = "paused" /\ t \in started
         \/ to = "pending" /\ t \notin started
BY DEF ClientTo, CancelTo, PauseTo, ResumeTo, ReleaseTo

\* A client that commits later, and whose row is served as before.
LEMMA DecidedKept ==
  ASSUME TypeInv, NEW c \in Client, Decided(c),
         cl'[c].pc = "commit" => cl'[c] = cl[c],
         started' = started,
         \A t \in Task : Served(t) => Served(t)'
  PROVE  Decided(c)'
<1>1. SUFFICES ASSUME cl'[c].pc = "commit" PROVE Decided(c)'
  BY DEF Decided
<1>2. PICK t \in Task : t = cl[c].task
  BY <1>1 DEF TypeInv, Shape
<1>3. Served(t) => Served(t)'
  OBVIOUS
<1>4. cl'[c].task = t /\ cl'[c].to = cl[c].to /\ cl[c].pc = "commit"
  BY <1>1, <1>2
<1> QED
  BY <1>2, <1>3, <1>4 DEF Decided, Served, Spawning, AtWork

\* A thread that leaves later, whose row and fellows stay.
LEMMA LeavesKept ==
  ASSUME TypeInv, NEW h \in Thread, Leaves(h),
         thr'[h].pc = "ending" => thr'[h] = thr[h],
         \A t \in Task :
           \/ thr'[h].pc # "ending"
           \/ thr'[h].task # t
           \/ /\ status'[t] = status[t] \/ Spawning(t)'
              /\ Spawning(t) => Spawning(t)' \/ \E g \in Thread \ {h} : AtWork(g, t)'
              /\ \A g \in Thread \ {h} : AtWork(g, t) => AtWork(g, t)'
  PROVE  Leaves(h)'
<1>1. SUFFICES ASSUME thr'[h].pc = "ending" PROVE Leaves(h)'
  BY DEF Leaves
<1>2. PICK t \in Task : t = thr[h].task
  BY <1>1 DEF TypeInv, Shape
<1>3. thr'[h].task = t /\ thr'[h].to = thr[h].to /\ thr[h].pc = "ending"
  BY <1>1, <1>2
<1>4. /\ status'[t] = status[t] \/ Spawning(t)'
      /\ Spawning(t) => Spawning(t)' \/ \E g \in Thread \ {h} : AtWork(g, t)'
      /\ \A g \in Thread \ {h} : AtWork(g, t) => AtWork(g, t)'
  BY <1>1, <1>3
<1>5. \/ thr[h].to \in Terminal
      \/ /\ thr[h].to = "keep"
         /\ \/ status[t] \in Terminal \cup {"cancel_requested"}
            \/ Spawning(t)
            \/ \E g \in Thread \ {h} : AtWork(g, t)
  BY <1>2, <1>3 DEF Leaves, Spawning, AtWork
<1>6. \/ thr'[h].to \in Terminal
      \/ /\ thr'[h].to = "keep"
         /\ \/ status'[t] \in Terminal \cup {"cancel_requested"}
            \/ Spawning(t)'
            \/ \E g \in Thread \ {h} : AtWork(g, t)'
  BY <1>3, <1>4, <1>5
<1> QED
  BY <1>3, <1>6 DEF Leaves, Spawning, AtWork

\* Steps that change no row, and take nobody's server away, keep the invariant.
LEMMA ServedFrame ==
  ASSUME TypeInv, ServedInv, UNCHANGED <<status, started>>,
         \A t \in Task : Spawning(t) => Spawning(t)',
         \A g \in Thread, t \in Task : AtWork(g, t) => AtWork(g, t)',
         \A c \in Client : cl'[c].pc = "commit" => cl'[c] = cl[c],
         \A h \in Thread : thr'[h].pc = "ending" => thr'[h] = thr[h]
  PROVE  ServedInv'
<1>1. \A t \in Task : Served(t) => Served(t)'
  BY DEF Served
<1>2. \A t \in Task : Needy(t)' => Served(t)'
  BY <1>1 DEF ServedInv, Needy
<1>3. \A c \in Client : Decided(c)'
  BY <1>1, DecidedKept DEF ServedInv
<1>4. \A h \in Thread : Leaves(h)'
  <2>1. SUFFICES ASSUME NEW h \in Thread PROVE Leaves(h)'
    OBVIOUS
  <2> QED
    BY <2>1, LeavesKept DEF ServedInv
<1> QED
  BY <1>2, <1>3, <1>4 DEF ServedInv

LEMMA ServedClient ==
  ASSUME TypeInv, LockInv, ServedInv, NEW c \in Client, ClientCall(c) \/ ClientStep(c)
  PROVE  ServedInv'
<1>1. UNCHANGED <<thr, disp, started>>
  BY ClientFrame
<1>2. /\ \A t \in Task : /\ Spawning(t) <=> Spawning(t)'
                         /\ Served(t) <=> Served(t)'
      /\ \A g \in Thread, t \in Task : AtWork(g, t) <=> AtWork(g, t)'
  BY <1>1 DEF Spawning, Served, AtWork
<1>3. ASSUME NEW t \in Task, CreateTask(c, t) PROVE ServedInv'
  <2>1. /\ status[t] = "absent" /\ status'[t] = "pending"
        /\ \A u \in Task : u # t => status'[u] = status[u]
    BY <1>3 DEF CreateTask, TypeInv, TypeOK
  <2>2. \A d \in Client : cl'[d].pc = "commit" => cl'[d] = cl[d]
    BY <1>3 DEF CreateTask, IdleClient, TypeInv, TypeOK
  <2>3. \A u \in Task : Needy(u)' => Served(u)'
    BY <1>1, <1>2, <2>1 DEF ServedInv, Needy
  <2>4. ASSUME NEW h \in Thread PROVE Leaves(h)'
    \* a row that does not exist is nobody's
    <3>1. ASSUME thr[h].pc = "ending", thr[h].task = t PROVE Leaves(h)'
      <4>1. Leaves(h) /\ status[t] \notin Terminal \cup {"cancel_requested"}
        BY <2>1 DEF ServedInv, Terminal
      <4> QED
        BY <1>1, <3>1, <4>1 DEF Leaves, Spawning, AtWork
    <3>2. CASE ~(thr[h].pc = "ending" /\ thr[h].task = t)
      BY <1>1, <1>2, <2>1, <3>2, LeavesKept DEF ServedInv
    <3> QED
      BY <3>1, <3>2
  <2>5. \A d \in Client : Decided(d)'
    BY <1>1, <1>2, <2>2, DecidedKept DEF ServedInv
  <2> QED
    BY <2>3, <2>4, <2>5 DEF ServedInv
<1>4. ASSUME NEW t \in Task, Load(c, t) PROVE ServedInv'
  <2>1. /\ UNCHANGED status
        /\ cl'[c].task = t /\ cl'[c].to = ClientTo(cl[c].op, t, cl[c].held)
        /\ \A d \in Client : d # c => cl'[d] = cl[d]
    BY <1>4 DEF Load, TypeInv, TypeOK, rows
  <2>2. cl[c].op \in {"pause", "resume", "cancel", "release"}
    BY <1>4 DEF Load, TypeInv, TypeOK, Shape, ClientState
  <2>3. \/ cl'[c].to \in {"keep", "cancelled", "cancel_requested"}
        \/ /\ t \in started => Served(t)
           /\ cl'[c].to \in {"claimed", "running"} => t \in started
    BY <2>1, <2>2, ClientDecides DEF ServedInv, Needy
  <2>4. \A u \in Task : Needy(u)' => Served(u)'
    BY <1>1, <1>2, <2>1 DEF ServedInv, Needy
  <2>5. Decided(c)'
    <3>1. Served(t) => Served(t)'
      BY <1>2
    <3> QED
      BY <1>1, <2>1, <2>3, <3>1 DEF Decided, Served, Spawning, AtWork
  <2>6. \A d \in Client : d # c => Decided(d)'
    BY <1>1, <1>2, <2>1, DecidedKept DEF ServedInv
  <2>7. \A h \in Thread : Leaves(h)'
    BY <1>1, <1>2, <2>1, LeavesKept DEF ServedInv
  <2> QED
    BY <2>4, <2>5, <2>6, <2>7 DEF ServedInv
<1>5. ASSUME Commit(c) PROVE ServedInv'
  <2>1. PICK t \in Task : t = cl[c].task
    BY <1>5 DEF Commit, TypeInv, Shape
  <2>2. /\ \A u \in Task : u # t => status'[u] = status[u]
        /\ status'[t] = IF cl[c].to = "keep" THEN status[t] ELSE cl[c].to
        /\ cl[c].pc = "commit"
    BY <1>5, <2>1 DEF Commit, CommitStatus, TypeInv, TypeOK
  <2>3. \A d \in Client : cl'[d].pc = "commit" => cl'[d] = cl[d]
    BY <1>5 DEF Commit, Sweep, IdleClient, TypeInv, TypeOK
  <2>4. \A u \in Task : Needy(u)' => Served(u)'
    <3>1. \/ cl[c].to \in {"keep", "cancelled", "cancel_requested"}
          \/ /\ t \in started => Served(t)
             /\ cl[c].to \in {"claimed", "running"} => t \in started
      BY <2>1, <2>2 DEF ServedInv, Decided, Served, Spawning, AtWork
    <3>2. Needy(t)' => Served(t)'
      BY <1>1, <1>2, <2>2, <3>1 DEF ServedInv, Needy
    <3>3. \A u \in Task : u # t => (Needy(u)' => Served(u)')
      BY <1>1, <1>2, <2>2 DEF ServedInv, Needy
    <3> QED
      BY <3>2, <3>3
  <2>5. \A h \in Thread : thr[h].pc = "ending" => thr[h].task # t
    BY <2>1, <2>2, HoldersDiffer
  <2>6. \A h \in Thread : Leaves(h)'
    BY <1>1, <1>2, <2>2, <2>5, LeavesKept DEF ServedInv
  <2>7. \A d \in Client : Decided(d)'
    BY <1>1, <1>2, <2>3, DecidedKept DEF ServedInv
  <2> QED
    BY <2>4, <2>6, <2>7 DEF ServedInv
<1>6. ASSUME \/ CreateCheckPause(c) \/ SelectIds(c)
             \/ \E t \in Task : ReadHeld(c, t)
             \/ \E op \in Ops : CallQueue(c, op) \/ \E t \in Task : Call(c, op, t)
      PROVE  ServedInv'
  <2>1. UNCHANGED status
    BY <1>6 DEF CreateCheckPause, SelectIds, ReadHeld, CallQueue, Call, rows
  <2>2. \A d \in Client : cl'[d].pc = "commit" => cl'[d] = cl[d]
    <3>1. CASE \E op, todo : Sweep(c, op, todo)
      BY <3>1 DEF Sweep, IdleClient, TypeInv, TypeOK
    <3>2. CASE \E t \in Task : ReadHeld(c, t)
      BY <3>2 DEF ReadHeld, TypeInv, TypeOK
    <3>3. CASE \E op \in Ops : CallQueue(c, op)
      BY <3>3 DEF CallQueue, IdleClient, TypeInv, TypeOK
    <3> QED
      BY <1>6, <3>1, <3>2, <3>3 DEF CreateCheckPause, SelectIds, Call
  <2> QED
    BY <1>1, <1>2, <2>1, <2>2, ServedFrame
<1> QED
  BY <1>3, <1>4, <1>5, <1>6 DEF ClientCall, ClientStep

LEMMA ServedDispatch ==
  ASSUME TypeInv, LockInv, ServedInv, Dispatch
  PROVE  ServedInv'
<1>1. CASE Start
  <2>1. /\ \A d \in Client : cl'[d].pc # "commit"
        /\ \A h \in Thread : thr[h].pc = "idle"
        /\ UNCHANGED <<thr, started>>
    BY <1>1 DEF Start, LockInv
  <2>2. \A t \in Task : ~Served(t)
    BY <1>1, <2>1 DEF Start, Served, Spawning, AtWork
  <2>3. \A t \in Task : status'[t] \in {status[t], "interrupted"}
    BY <1>1 DEF Start
  <2>4. \A t \in Task : ~Needy(t)'
    BY <2>1, <2>2, <2>3 DEF ServedInv, Needy
  <2> QED
    BY <2>1, <2>4 DEF ServedInv, Decided, Leaves
<1>2. CASE Snapshot \/ ReadFlag \/ Query
  <2>1. UNCHANGED <<status, started, cl, thr>> /\ disp.pc # "spawn"
    BY <1>2 DEF Snapshot, ReadFlag, Query, rows
  <2>2. /\ \A t \in Task : Spawning(t) => Spawning(t)'
        /\ \A g \in Thread, t \in Task : AtWork(g, t) => AtWork(g, t)'
    BY <2>1 DEF Spawning, AtWork
  <2> QED
    BY <2>1, <2>2, ServedFrame
<1>3. CASE Claim
  <2>1. PICK t \in Task : t = disp.pick
    BY <1>3 DEF Claim, TypeInv, Shape
  <2>2. /\ \A u \in Task : u # t => status'[u] = status[u]
        /\ started' = started \cup {t}
        /\ UNCHANGED <<cl, thr>> /\ disp.pc = "claim"
        /\ disp'.pc = "spawn" /\ disp'.pick = t
    BY <1>3, <2>1 DEF Claim, TypeInv, TypeOK, DispState
  <2>3. /\ Spawning(t)' /\ Served(t)'
        /\ \A u \in Task : ~Spawning(u) /\ (Served(u) => Served(u)')
        /\ \A g \in Thread, u \in Task : AtWork(g, u) => AtWork(g, u)'
    BY <2>2 DEF Served, Spawning, AtWork
  <2>4. \A u \in Task : Needy(u)' => Served(u)'
    BY <2>2, <2>3 DEF ServedInv, Needy
  <2>5. \A h \in Thread : Leaves(h)'
    BY <2>2, <2>3, LeavesKept DEF ServedInv
  <2>6. ASSUME NEW d \in Client PROVE Decided(d)'
    <3>1. SUFFICES ASSUME cl[d].pc = "commit" PROVE Decided(d)'
      BY <2>2 DEF Decided
    <3>2. PICK u \in Task : u = cl[d].task
      BY <3>1 DEF TypeInv, Shape
    <3>3. \/ cl[d].to \in {"keep", "cancelled", "cancel_requested"}
          \/ /\ u \in started' => Served(u)'
             /\ cl[d].to \in {"claimed", "running"} => u \in started'
      <4>1. \/ cl[d].to \in {"keep", "cancelled", "cancel_requested"}
            \/ /\ u \in started => Served(u)
               /\ cl[d].to \in {"claimed", "running"} => u \in started
        BY <3>1, <3>2 DEF ServedInv, Decided, Served, Spawning, AtWork
      <4>2. Served(u) => Served(u)'
        BY <2>3
      <4>3. u = t => Served(u)'
        BY <2>3
      <4> QED
        BY <2>2, <4>1, <4>2, <4>3
    <3> QED
      BY <2>2, <3>2, <3>3 DEF Decided, Served, Spawning, AtWork
  <2> QED
    BY <2>4, <2>5, <2>6 DEF ServedInv
<1>4. ASSUME NEW h \in Thread, Spawn(h) PROVE ServedInv'
  <2>1. PICK t \in Task : t = disp.pick
    BY <1>4 DEF Spawn, TypeInv, Shape
  <2>2. /\ thr'[h].pc = "mark" /\ thr'[h].task = t /\ thr[h].pc = "idle"
        /\ \A g \in Thread : g # h => thr'[g] = thr[g]
        /\ UNCHANGED <<status, started, cl>>
    BY <1>4, <2>1 DEF Spawn, IdleThread, Live, TypeInv, TypeOK, rows
  <2>3. /\ AtWork(h, t)' /\ \A u \in Task : Spawning(u) => u = t
        /\ \A g \in Thread, u \in Task : AtWork(g, u) => AtWork(g, u)'
    BY <2>1, <2>2 DEF AtWork, Spawning
  <2>4. \A u \in Task : Served(u) => Served(u)'
    BY <2>3 DEF Served
  <2>5. \A u \in Task : Needy(u)' => Served(u)'
    BY <2>2, <2>4 DEF ServedInv, Needy
  <2>6. ASSUME NEW g \in Thread PROVE Leaves(g)'
    <3>1. CASE g = h
      BY <2>2, <3>1 DEF Leaves
    <3>2. CASE g # h
      <4>1. thr'[g] = thr[g] /\ h \in Thread \ {g} /\ Leaves(g)
        BY <2>2, <3>2 DEF ServedInv
      <4>2. ASSUME NEW u \in Task
            PROVE  /\ status'[u] = status[u]
                   /\ Spawning(u) => \E f \in Thread \ {g} : AtWork(f, u)'
                   /\ \A f \in Thread \ {g} : AtWork(f, u) => AtWork(f, u)'
        BY <2>2, <2>3, <4>1
      <4> QED
        BY <4>1, <4>2, LeavesKept
    <3> QED
      BY <3>1, <3>2
  <2>7. \A d \in Client : Decided(d)'
    BY <2>2, <2>4, DecidedKept DEF ServedInv
  <2> QED
    BY <2>5, <2>6, <2>7 DEF ServedInv
<1> QED
  BY <1>1, <1>2, <1>3, <1>4 DEF Dispatch

\* The steps of a thread, when no handler lets an exception escape.
LEMMA ServedThread ==
  ASSUME TypeInv, LockInv, ServedInv, MayRaise = {}, NEW h \in Thread, ThreadStep(h)
  PROVE  ServedInv'
<1>0. PICK t \in Task : t = thr[h].task
  BY DEF ThreadStep, Mark, MarkCommit, Gate, Hold, Held, Leave, Save, SaveCommit,
         Decide, Raise, Finish, FinishCommit, Exit, TypeInv, Shape
<1>1. UNCHANGED <<cl, disp>> /\ \A u \in Task : Spawning(u) <=> Spawning(u)'
  <2>1. UNCHANGED <<cl, disp>>
    BY DEF ThreadStep, Mark, MarkCommit, Gate, Hold, Held, Leave, Save, SaveCommit,
           Decide, Raise, Finish, FinishCommit, Exit
  <2> QED
    BY <2>1 DEF Spawning
\* a thread that goes on, but is not over yet, serves its row as before
<1>2. ASSUME NEW pc \in {"marking", "gate", "hold", "held", "leave", "body", "saving",
                         "end", "ending"},
             NEW final, NEW to, Advance(h, pc, final, to), thr[h].pc \notin {"idle", "exit"}
      PROVE  /\ AtWork(h, t)' /\ AtWork(h, t)
             /\ thr'[h].pc = pc /\ thr'[h].to = to /\ thr'[h].task = t
             /\ \A g \in Thread : g # h => thr'[g] = thr[g]
             /\ \A g \in Thread, u \in Task : AtWork(g, u) => AtWork(g, u)'
             /\ \A u \in Task : Served(u) => Served(u)'
  <2>1. /\ thr'[h].pc = pc /\ thr'[h].to = to /\ thr'[h].task = t
        /\ \A g \in Thread : g # h => thr'[g] = thr[g]
    BY <1>0, <1>2 DEF Advance, TypeInv, TypeOK
  <2>2. AtWork(h, t)' /\ AtWork(h, t)
    BY <1>0, <1>2, <2>1 DEF AtWork
  <2>3. \A g \in Thread, u \in Task : AtWork(g, u) => AtWork(g, u)'
    BY <1>0, <2>1, <2>2 DEF AtWork
  <2> QED
    BY <1>1, <2>1, <2>2, <2>3 DEF Served
\* it looks at the row, or saves an account
<1>3. ASSUME NEW pc \in {"marking", "gate", "hold", "held", "leave", "body", "saving", "end"},
             NEW final, NEW to, Advance(h, pc, final, to), thr[h].pc \notin {"idle", "exit"},
             UNCHANGED <<status, started>>
      PROVE  ServedInv'
  <2>1. /\ thr'[h].pc = pc
        /\ \A g \in Thread : g # h => thr'[g] = thr[g]
        /\ \A g \in Thread, u \in Task : AtWork(g, u) => AtWork(g, u)'
    BY <1>2, <1>3
  <2> QED
    BY <1>1, <1>3, <2>1, ServedFrame
\* mark_running writes the row: its thread serves it
<1>4. CASE MarkCommit(h)
  <2>1. /\ AtWork(h, t)' /\ thr'[h].pc = "gate"
        /\ \A g \in Thread : g # h => thr'[g] = thr[g]
        /\ \A g \in Thread, u \in Task : AtWork(g, u) => AtWork(g, u)'
        /\ \A u \in Task : Served(u) => Served(u)'
    BY <1>2, <1>4 DEF MarkCommit, Goto
  <2>2. /\ \A u \in Task : u # t => status'[u] = status[u]
        /\ started' = started \/ started' = started \cup {t}
        /\ thr[h].pc = "marking"
    BY <1>0, <1>4 DEF MarkCommit, CommitStatus, TypeInv, TypeOK
  <2>3. Served(t)'
    BY <2>1 DEF Served
  <2>4. \A u \in Task : Needy(u)' => Served(u)'
    <3>1. ASSUME NEW u \in Task, u # t, Needy(u)' PROVE Served(u)'
      <4>1. Needy(u)
        BY <2>2, <3>1 DEF Needy
      <4> QED
        BY <2>1, <4>1 DEF ServedInv
    <3> QED
      BY <2>3, <3>1
  <2>5. ASSUME NEW d \in Client PROVE Decided(d)'
    \* the thread holds the lock of its row, so the client is at another one
    <3>1. SUFFICES ASSUME cl[d].pc = "commit" PROVE Decided(d)'
      BY <1>1 DEF Decided
    <3>2. PICK u \in Task : u = cl[d].task
      BY <3>1 DEF TypeInv, Shape
    <3>3. u # t
      BY <1>0, <2>2, <3>1, <3>2, HoldersDiffer
    <3>4. \/ cl[d].to \in {"keep", "cancelled", "cancel_requested"}
          \/ /\ u \in started => Served(u)
             /\ cl[d].to \in {"claimed", "running"} => u \in started
      BY <3>1, <3>2 DEF ServedInv, Decided, Served, Spawning, AtWork
    <3>5. Served(u) => Served(u)'
      BY <2>1
    <3>6. \/ cl[d].to \in {"keep", "cancelled", "cancel_requested"}
          \/ /\ u \in started' => Served(u)'
             /\ cl[d].to \in {"claimed", "running"} => u \in started'
      BY <2>2, <3>3, <3>4, <3>5
    <3> QED
      BY <1>1, <3>2, <3>6 DEF Decided, Served, Spawning, AtWork
  <2>6. ASSUME NEW g \in Thread PROVE Leaves(g)'
    <3>1. CASE g = h
      BY <2>1, <3>1 DEF Leaves
    <3>2. CASE g # h
      <4>1. thr'[g] = thr[g] /\ Leaves(g)
        BY <2>1, <3>2 DEF ServedInv
      <4>2. thr[g].pc = "ending" => thr[g].task # t
        BY <1>0, <2>2, <3>2, HoldersDiffer
      <4> QED
        BY <1>1, <2>1, <2>2, <4>1, <4>2, LeavesKept
    <3> QED
      BY <3>1, <3>2
  <2> QED
    BY <2>4, <2>5, <2>6 DEF ServedInv
\* finish decides: a row that is left as it is needs nobody any more
<1>5. CASE Finish(h)
  <2>1. /\ thr'[h].pc = "ending" /\ thr'[h].task = t
        /\ thr'[h].to = FinishTo(t, thr[h].final)
        /\ \A g \in Thread : g # h => thr'[g] = thr[g]
        /\ \A g \in Thread, u \in Task : AtWork(g, u) => AtWork(g, u)'
        /\ \A u \in Task : Served(u) => Served(u)'
    BY <1>0, <1>2, <1>5 DEF Finish
  <2>2. UNCHANGED <<status, started>> /\ thr[h].pc = "end"
    BY <1>5 DEF Finish, rows
  <2>3. thr[h].final \in {"succeeded", "failed", "cancelled", "irreversible"}
    BY <2>2 DEF TypeInv, TypeOK, Shape, ThreadState
  <2>4. \/ thr'[h].to \in Terminal
        \/ thr'[h].to = "keep" /\ status[t] \in Terminal \cup {"cancel_requested"}
    BY <2>1, <2>3 DEF FinishTo, Terminal
  <2>5. Leaves(h)'
    BY <2>1, <2>2, <2>4 DEF Leaves
  <2>6. ASSUME NEW g \in Thread, g # h PROVE Leaves(g)'
    <3>1. thr'[g] = thr[g] /\ Leaves(g)
      BY <2>1, <2>6 DEF ServedInv
    <3> QED
      BY <1>1, <2>1, <2>2, <3>1, LeavesKept
  <2>7. \A u \in Task : Needy(u)' => Served(u)'
    BY <2>1, <2>2 DEF ServedInv, Needy
  <2>8. \A d \in Client : Decided(d)'
    BY <1>1, <2>1, <2>2, DecidedKept DEF ServedInv
  <2> QED
    BY <2>5, <2>6, <2>7, <2>8 DEF ServedInv
\* finish writes: the row is over, or somebody else serves it
<1>6. CASE FinishCommit(h)
  <2>1. /\ thr'[h].pc = "exit" /\ thr[h].pc = "ending"
        /\ \A g \in Thread : g # h => thr'[g] = thr[g]
    BY <1>6 DEF FinishCommit, Goto, Advance, TypeInv, TypeOK
  <2>2. /\ \A u \in Task : u # t => status'[u] = status[u]
        /\ status'[t] = IF thr[h].to = "keep" THEN status[t] ELSE thr[h].to
        /\ started' = started
    BY <1>0, <1>6 DEF FinishCommit, CommitStatus, TypeInv, TypeOK
  <2>3. /\ \A g \in Thread, u \in Task : g # h => (AtWork(g, u) => AtWork(g, u)')
        /\ \A u \in Task : u # t => ~AtWork(h, u)
    BY <1>0, <2>1 DEF AtWork
  <2>4. \A u \in Task : u # t => (Served(u) => Served(u)')
    BY <1>1, <2>3 DEF Served
  <2>5. Needy(t)' => Served(t)'
    <3>1. \/ thr[h].to \in Terminal
          \/ /\ thr[h].to = "keep"
             /\ \/ status[t] \in Terminal \cup {"cancel_requested"}
                \/ Spawning(t)
                \/ \E g \in Thread \ {h} : AtWork(g, t)
      BY <1>0, <2>1 DEF ServedInv, Leaves, Spawning, AtWork
    <3>2. CASE thr[h].to \in Terminal \/ status[t] \in Terminal \cup {"cancel_requested"}
      <4>1. status'[t] \in Terminal \cup {"cancel_requested"}
        BY <2>2, <3>1, <3>2 DEF Terminal
      <4> QED
        BY <4>1 DEF Needy, Terminal
    <3>3. CASE Spawning(t) \/ \E g \in Thread \ {h} : AtWork(g, t)
      BY <1>1, <2>3, <3>3 DEF Served
    <3> QED
      BY <3>1, <3>2, <3>3
  <2>6. \A u \in Task : Needy(u)' => Served(u)'
    <3>1. ASSUME NEW u \in Task, u # t, Needy(u)' PROVE Served(u)'
      <4>1. Needy(u)
        BY <2>2, <3>1 DEF Needy
      <4> QED
        BY <2>4, <3>1, <4>1 DEF ServedInv
    <3> QED
      BY <2>5, <3>1
  <2>7. ASSUME NEW d \in Client PROVE Decided(d)'
    <3>1. SUFFICES ASSUME cl[d].pc = "commit" PROVE Decided(d)'
      BY <1>1 DEF Decided
    <3>2. PICK u \in Task : u = cl[d].task
      BY <3>1 DEF TypeInv, Shape
    <3>3. u # t
      BY <1>0, <2>1, <3>1, <3>2, HoldersDiffer
    <3>4. \/ cl[d].to \in {"keep", "cancelled", "cancel_requested"}
          \/ /\ u \in started => Served(u)
             /\ cl[d].to \in {"claimed", "running"} => u \in started
      BY <3>1, <3>2 DEF ServedInv, Decided, Served, Spawning, AtWork
    <3>5. Served(u) => Served(u)'
      BY <2>4, <3>3
    <3>6. \/ cl[d].to \in {"keep", "cancelled", "cancel_requested"}
          \/ /\ u \in started' => Served(u)'
             /\ cl[d].to \in {"claimed", "running"} => u \in started'
      BY <2>2, <3>4, <3>5
    <3> QED
      BY <1>1, <3>2, <3>6 DEF Decided, Served, Spawning, AtWork
  <2>8. ASSUME NEW g \in Thread PROVE Leaves(g)'
    <3>1. CASE g = h
      BY <2>1, <3>1 DEF Leaves
    <3>2. CASE g # h
      <4>1. thr'[g] = thr[g] /\ Leaves(g)
        BY <2>1, <3>2 DEF ServedInv
      <4>2. thr[g].pc = "ending" => thr[g].task # t
        BY <1>0, <2>1, <3>2, HoldersDiffer
      <4>3. ASSUME NEW u \in Task, u # t
            PROVE  /\ status'[u] = status[u]
                   /\ \A f \in Thread \ {g} : AtWork(f, u) => AtWork(f, u)'
        BY <2>2, <2>3, <4>3
      <4> QED
        BY <1>1, <4>1, <4>2, <4>3, LeavesKept
    <3> QED
      BY <3>1, <3>2
  <2> QED
    BY <2>6, <2>7, <2>8 DEF ServedInv
<1>7. CASE Exit(h)
  <2>1. /\ UNCHANGED <<status, started>> /\ thr[h].pc = "exit" /\ thr'[h].pc = "idle"
        /\ \A g \in Thread : g # h => thr'[g] = thr[g]
    BY <1>7 DEF Exit, IdleThread, TypeInv, TypeOK, rows
  <2>2. \A g \in Thread, u \in Task : AtWork(g, u) => AtWork(g, u)'
    BY <2>1 DEF AtWork
  <2> QED
    BY <1>1, <2>1, <2>2, ServedFrame
<1>8. CASE Mark(h)
  BY <1>3, <1>8 DEF Mark, rows
<1>9. CASE Gate(h) \/ Hold(h) \/ Held(h) \/ Leave(h)
  BY <1>3, <1>9 DEF Gate, Hold, Held, Leave, Goto, EndWith, rows
<1>10. CASE Save(h) \/ SaveCommit(h)
  BY <1>3, <1>10 DEF Save, SaveCommit, Goto, rows
<1>11. CASE Decide(h)
  BY <1>3, <1>11 DEF Decide, EndWith, rows
<1>12. ~Raise(h)
  BY DEF Raise
<1> QED
  BY <1>4, <1>5, <1>6, <1>7, <1>8, <1>9, <1>10, <1>11, <1>12 DEF ThreadStep

LEMMA ServedNext ==
  ASSUME TypeInv, LockInv, ServedInv, MayRaise = {}, ~MayCrash, [Next]_vars
  PROVE  ServedInv'
<1>1. CASE \E c \in Client : ClientCall(c) \/ ClientStep(c)
  BY <1>1, ServedClient
<1>2. CASE Dispatch
  BY <1>2, ServedDispatch
<1>3. CASE \E h \in Thread : ThreadStep(h)
  BY <1>3, ServedThread
<1>4. ~Stop /\ ~Crash
  BY DEF Stop, Crash
<1>5. CASE UNCHANGED vars
  <2>1. UNCHANGED <<status, started, cl, thr, disp>>
    BY <1>5 DEF vars
  <2>2. /\ \A t \in Task : Spawning(t) => Spawning(t)'
        /\ \A g \in Thread, t \in Task : AtWork(g, t) => AtWork(g, t)'
    BY <2>1 DEF Spawning, AtWork
  <2> QED
    BY <2>1, <2>2, ServedFrame
<1> QED
  BY <1>1, <1>2, <1>3, <1>4, <1>5 DEF Next

\* As long as the process lives and no handler lets an exception escape, every
\* row that says claimed, running or paused in the middle has a thread or is
\* about to get one, although claims take no lock and a resume may write over
\* one. Both conditions are needed: an escaped exception leaves its row running
\* (execute_task guards no handler call), and a crash between such a claim and
\* the thread it was made for leaves a pending row that counts as started.
THEOREM RowsAreServed == ~MayCrash /\ MayRaise = {} /\ Spec => []NoOrphan
<1> SUFFICES ASSUME ~MayCrash, MayRaise = {} PROVE Spec => []NoOrphan
  OBVIOUS
<1>1. TypeInv /\ LockInv /\ ServedInv /\ [Next]_vars => ServedInv'
  BY ServedNext
<1>2. ServedInv => NoOrphan
  BY DEF ServedInv, NoOrphan, Needy, Served, Spawning, AtWork, Live
<1> QED
  BY LockInvariant, ServedInit, <1>1, <1>2, PTL DEF Spec

================================================================================
