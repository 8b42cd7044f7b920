----------------------------- MODULE ExtractorTasks -----------------------------
(***************************************************************************)
(* The task manager of the payment link extractor and the browsers that    *)
(* watch it (payment-link-extractor/payment_link_extractor/web/tasks.py,   *)
(* web/app.py and web/static/app.js).                                      *)
(*                                                                         *)
(* Every method of TaskManager runs under one lock, so it is one step. A   *)
(* worker takes the lock when it starts a task, at every stage and at the  *)
(* end, and extracts without it. Whatever happens is published as an event *)
(* to a bounded history and to the bounded queue of every subscriber; a    *)
(* browser loads the tasks once over HTTP, connects its socket, receives   *)
(* the part of the history that still matters and then the live events. It *)
(* also shows what the answers to its own calls say, whenever they arrive. *)
(***************************************************************************)
EXTENDS Naturals, Sequences, FiniteSets, SequencesExt

CONSTANTS
  Task,         \* task ids (uuid4, never used twice)
  Worker,       \* threads of the executor
  Watcher,      \* browsers
  None,         \* no task; as a caller, the hub
  Free,         \* tasks whose amount due is zero: not to be retried on success
  Paypal,       \* tasks resolve_paypal accepts
  Callers,      \* who creates and cancels each task: browsers, None for the hub
  HistorySize,  \* history_size
  QueueSize,    \* maxsize of a subscriber queue
  MaxStages,    \* bound: stages counted per extraction
  MaxAnswers    \* bound: answers on their way to one browser

ASSUME ExtractorAssumption ==
  /\ IsFiniteSet(Task)
  /\ None \notin Task \cup Watcher
  /\ Free \subseteq Task /\ Paypal \subseteq Task
  /\ Callers \in [Task -> SUBSET (Watcher \cup {None})]
  /\ HistorySize \in Nat \ {0} /\ QueueSize \in Nat \ {0}
  /\ MaxStages \in Nat /\ MaxAnswers \in Nat

VARIABLES
  status,     \* status of each task; "deleted" and "expired" ones are gone
  cancelled,  \* tasks whose cancel_event is set
  old,        \* finished tasks that are older than the TTL
  futures,    \* queue of the executor
  worker,     \* what each thread of the executor is doing
  resolving,  \* tasks whose redirect is being resolved outside of the lock
  history,    \* the last HistorySize events
  watcher,    \* what each browser is doing: its pc, list, replay and queue, and
              \* owed, the tasks whose status changed while it was not connected
  answers,    \* answers of calls on their way to each browser: what it will show
  view,       \* status of each task as each browser shows it
  missed,     \* browsers for which an event was dropped (history variable)
  overwritten \* tasks over whose status a late answer wrote an older one, and
              \* nothing newer has arrived since (history variable)

tasks  == <<status, cancelled, old, futures, worker, resolving>>
page   == <<view, overwritten>>
stream == <<history, watcher, view, missed, overwritten>>
vars   == <<status, cancelled, old, futures, worker, resolving, history,
            watcher, answers, view, missed, overwritten>>

Terminal == {"succeeded", "failed", "cancelled"}
Alive    == {"queued", "running", "cancel_requested"} \cup Terminal
Gone     == {"deleted", "expired"}

--------------------------------------------------------------------------------
(* Events.                                                                   *)

Event(t, type, st) == [task |-> t, type |-> type, status |-> st]

\* put_nowait, and the eviction of the oldest event for a terminal one
Offer(q, e) ==
  IF Len(q) < QueueSize THEN Append(q, e)
  ELSE IF e.type \in Terminal THEN Append(Tail(q), e)
  ELSE q

\* put_nowait of each event of a sequence
Offered(q, events) ==
  LET offered[n \in 0 .. Len(events)] ==
        IF n = 0 THEN q ELSE Offer(offered[n - 1], events[n])
  IN  offered[Len(events)]

\* mutant: one event too many is kept
LastEventsAndOne(h) == SubSeq(h, Len(h) - HistorySize, Len(h))

LastEvents(h) == SubSeq(h, 1 + Len(h) - HistorySize, Len(h))

\* the tasks whose status the events of a sequence tell
Told(events) == {e.task : e \in {f \in Range(events) : f.type # "log"}}

\* a browser that is not connected will be sent none of the events it is owed
\* about some task
Dropped(owed, h) == ~ owed \subseteq Told(h)

Unconnected == {"listing", "loaded"}

\* _publish_locked for each event of a sequence
Publish(events) ==
  LET h == history \o events IN
  /\ history' = IF Len(h) > HistorySize THEN LastEvents(h) ELSE h
  /\ watcher' = [x \in Watcher |->
       IF watcher[x].pc = "live"
       THEN [watcher[x] EXCEPT !.queue = Offered(@, events)]
       ELSE IF watcher[x].pc \in Unconnected
       THEN [watcher[x] EXCEPT !.owed = @ \cup Told(events)]
       ELSE watcher[x]]
  /\ missed' = missed \cup
       {x \in Watcher :
          \/ watcher[x].pc = "live" /\ Len(watcher[x].queue) + Len(events) > QueueSize
          \/ Dropped(watcher'[x].owed, history')}
  /\ UNCHANGED page

\* the answer of a call, on its way to the browser that made it
Answer(by, shows) ==
  IF by = None THEN UNCHANGED answers
  ELSE /\ Len(answers[by]) < MaxAnswers
       /\ answers' = [answers EXCEPT ![by] = Append(@, shows)]

--------------------------------------------------------------------------------
Thread(pc, t, stages, outcome) ==
  [pc |-> pc, task |-> t, stages |-> stages, outcome |-> outcome]

IdleWorker == Thread("idle", None, 0, "none")

\* no task shown
Nothing == [t \in Task |-> "absent"]

\* a browser between its calls and subscriptions
Browser(pc, replay, owed) ==
  [pc |-> pc, list |-> Nothing, replay |-> replay, queue |-> <<>>, owed |-> owed]

Init ==
  /\ status = [t \in Task |-> "absent"]
  /\ cancelled = {}
  /\ old = {}
  /\ futures = <<>>
  /\ worker = [w \in Worker |-> IdleWorker]
  /\ resolving = {}
  /\ history = <<>>
  /\ watcher = [x \in Watcher |-> Browser("off", <<>>, {})]
  /\ answers = [x \in Watcher |-> <<>>]
  /\ view = [x \in Watcher |-> Nothing]
  /\ missed = {}
  /\ overwritten = [x \in Watcher |-> {}]

\* _cleanup_locked: finished tasks disappear after the TTL, without an event
Cleaned == [t \in Task |-> IF t \in old THEN "expired" ELSE status[t]]

\* time passes
Age(t) ==
  /\ status[t] \in Terminal /\ t \notin old
  /\ old' = old \cup {t}
  /\ UNCHANGED <<status, cancelled, futures, worker, resolving, stream, answers>>

--------------------------------------------------------------------------------
(* Calls of TaskManager: a browser makes them all, the hub creates, cancels  *)
(* and reads. What the browser shows after its call is named with the call.  *)

Created(t) == Event(t, "created", "queued")

create(t, by) ==
  /\ status[t] = "absent"
  /\ status' = [Cleaned EXCEPT ![t] = "queued"]
  /\ old' = {}
  /\ futures' = Append(futures, t)
  /\ Publish(<<Created(t)>>)
  /\ Answer(by, [i \in {t} |-> "queued"])
  /\ UNCHANGED <<cancelled, worker, resolving>>

Retriable(t) == \/ Cleaned[t] \in {"failed", "cancelled"}
                \/ Cleaned[t] = "succeeded" /\ t \notin Free

\* the task is replaced by a new one with the same configuration
retry(t, u, by) ==
  /\ Retriable(t) /\ status[u] = "absent"
  /\ status' = [Cleaned EXCEPT ![t] = "deleted", ![u] = "queued"]
  /\ old' = {}
  /\ futures' = Append(futures, u)
  /\ Publish(<<Event(t, "deleted", "deleted"), Created(u)>>)
  /\ Answer(by, [i \in {t, u} |-> IF i = u THEN "queued" ELSE "absent"])
  /\ UNCHANGED <<cancelled, worker, resolving>>

\* status of a cancelled task that has not been started
CancelQueuedTo == "cancelled"

\* the future is cancelled too, unless a thread has taken it already
CancelQueued(t, by) ==
  /\ Cleaned[t] = "queued"
  /\ cancelled' = cancelled \cup {t}
  /\ status' = [Cleaned EXCEPT ![t] = CancelQueuedTo]
  /\ old' = {}
  /\ Publish(<<Event(t, "cancelled", "cancelled")>>)
  /\ Answer(by, [i \in {t} |-> "cancelled"])
  /\ UNCHANGED <<futures, worker, resolving>>

CancelRunning(t, by) ==
  /\ Cleaned[t] = "running"
  /\ cancelled' = cancelled \cup {t}
  /\ status' = [Cleaned EXCEPT ![t] = "cancel_requested"]
  /\ old' = {}
  /\ Publish(<<Event(t, "cancel_requested", "cancel_requested")>>)
  /\ Answer(by, [i \in {t} |-> "cancel_requested"])
  /\ UNCHANGED <<futures, worker, resolving>>

\* a repeated cancel is accepted and answered again
CancelAgain(t, by) ==
  /\ Cleaned[t] = "cancel_requested"
  /\ cancelled' = cancelled \cup {t}
  /\ status' = Cleaned
  /\ old' = {}
  /\ Answer(by, [i \in {t} |-> "cancel_requested"])
  /\ UNCHANGED <<futures, worker, resolving, stream>>

\* delete one task, or all of a group
DeleteAll(gone, by) ==
  /\ gone # {}
  /\ status' = [t \in Task |-> IF t \in gone THEN "deleted" ELSE Cleaned[t]]
  /\ old' = {}
  /\ Publish([i \in 1..Cardinality(gone) |->
                Event(SetToSeq(gone)[i], "deleted", "deleted")])
  /\ Answer(by, [i \in gone |-> "absent"])
  /\ UNCHANGED <<cancelled, futures, worker, resolving>>

\* mutant: a task that is being cancelled can be deleted
DeletableSoon(t) == Cleaned[t] \in Terminal \cup {"cancel_requested"}

Deletable(t) == Cleaned[t] \in Terminal

delete(t, by) == Deletable(t) /\ DeleteAll({t}, by)

delete_by_statuses(statuses, by) ==
  DeleteAll({t \in Task : Cleaned[t] \in statuses}, by)

\* list, get, every refused call and a deletion of nothing only clean up
Read ==
  /\ old # {}
  /\ status' = Cleaned
  /\ old' = {}
  /\ UNCHANGED <<cancelled, futures, worker, resolving, stream, answers>>

\* resolve_paypal checks the task, resolves the redirect without the lock ...
ResolveStart(t) ==
  /\ t \in Paypal \ resolving /\ status[t] = "succeeded"
  /\ resolving' = resolving \cup {t}
  /\ UNCHANGED <<status, cancelled, old, futures, worker, stream, answers>>

\* ... and publishes the better result if the task is still there
ResolveEnd(t) ==
  /\ t \in resolving
  /\ resolving' = resolving \ {t}
  /\ \/ /\ status[t] \in Alive
        /\ Publish(<<Event(t, "succeeded", status[t])>>)
     \/ UNCHANGED stream
  /\ UNCHANGED <<status, cancelled, old, futures, worker, answers>>

--------------------------------------------------------------------------------
(* Worker threads (_run, _stage).                                            *)

\* an idle thread takes the oldest future and skips a cancelled one
Take(w) ==
  /\ worker[w].pc = "idle" /\ futures # <<>>
  /\ worker' = IF Head(futures) \in cancelled THEN worker
               ELSE [worker EXCEPT ![w] = Thread("start", Head(futures), 0, "none")]
  /\ futures' = Tail(futures)
  /\ UNCHANGED <<status, cancelled, old, resolving, stream, answers>>

\* a task cancelled while its thread was starting is not run
Startable(t) == status[t] \in Alive \ {"cancelled"}

Start(w) ==
  LET t == worker[w].task IN
  /\ worker[w].pc = "start"
  /\ IF Startable(t)
     THEN /\ status' = [status EXCEPT ![t] = "running"]
          /\ worker' = [worker EXCEPT ![w] = Thread("extract", t, 0, "none")]
          /\ Publish(<<Event(t, "started", "running"), Event(t, "log", "none")>>)
     ELSE /\ worker' = [worker EXCEPT ![w] = IdleWorker]
          /\ UNCHANGED <<status, stream>>
  /\ UNCHANGED <<cancelled, old, futures, resolving, answers>>

\* a checkpoint of the extractor that found no cancellation yet
Stage(w) ==
  LET t == worker[w].task IN
  /\ worker[w].pc = "extract" /\ worker[w].stages < MaxStages
  /\ worker' = [worker EXCEPT ![w] = Thread("extract", t, worker[w].stages + 1, "none")]
  /\ IF status[t] \in Alive \ Terminal
     THEN Publish(<<Event(t, "stage", status[t])>>)
     ELSE UNCHANGED stream
  /\ UNCHANGED <<status, cancelled, old, futures, resolving, answers>>

\* the extractor returns, fails, or stops at a checkpoint after a cancel
Return(w, outcome) ==
  /\ worker[w].pc = "extract"
  /\ outcome = "stopped" => worker[w].task \in cancelled
  /\ worker' = [worker EXCEPT ![w] = Thread("end", worker[w].task, 0, outcome)]
  /\ UNCHANGED <<status, cancelled, old, futures, resolving, stream, answers>>

\* mutant: a result that arrives after the cancel is kept
VerdictWithoutCheck(t, outcome) ==
  CASE outcome = "result"  -> "succeeded"
    [] outcome = "error"   -> "failed"
    [] outcome = "stopped" -> "cancelled"

Verdict(t, outcome) ==
  CASE outcome = "result"  -> IF t \in cancelled \/ status[t] = "cancel_requested"
                              THEN "cancelled" ELSE "succeeded"
    [] outcome = "error"   -> "failed"
    [] outcome = "stopped" -> "cancelled"

End(w) ==
  LET t == worker[w].task
      verdict == Verdict(t, worker[w].outcome) IN
  /\ worker[w].pc = "end"
  /\ worker' = [worker EXCEPT ![w] = IdleWorker]
  /\ IF status[t] \in Alive
     THEN /\ status' = [status EXCEPT ![t] = verdict]
          /\ Publish(<<Event(t, verdict, verdict)>>)
     ELSE UNCHANGED <<status, stream>>
  /\ UNCHANGED <<cancelled, old, futures, resolving, answers>>

--------------------------------------------------------------------------------
(* Browsers.                                                                 *)

\* loadExistingTasks asks for the list, once, before the socket is opened ...
Load(x) ==
  /\ watcher[x].pc = "off"
  /\ watcher' = [watcher EXCEPT ![x].pc = "listing", ![x].list =
                   [t \in Task |-> IF Cleaned[t] \in Alive THEN Cleaned[t] ELSE "absent"]]
  /\ status' = Cleaned
  /\ old' = {}
  /\ UNCHANGED <<cancelled, futures, worker, resolving, history, answers, page, missed>>

\* ... and shows it when it arrives
Loaded(x) ==
  LET listed == {t \in Task : watcher[x].list[t] # "absent"} IN
  /\ watcher[x].pc = "listing"
  /\ watcher' = [watcher EXCEPT ![x].pc = "loaded", ![x].list = Nothing]
  /\ view' = [view EXCEPT ![x] =
                [t \in Task |-> IF t \in listed THEN watcher[x].list[t] ELSE @[t]]]
  /\ overwritten' = [overwritten EXCEPT ![x] = @ \ listed]
  /\ UNCHANGED <<tasks, history, answers, missed>>

\* an answer says what the browser has replaced by something newer
Older(said, shown) ==
  \/ said = "queued" /\ shown \in Alive \ {"queued"}
  \/ said = "cancel_requested" /\ shown \in Terminal

\* registerSubmittedTask, cancelTask, performTaskRetry, deleteTask and
\* bulkDeleteTasks: an answer arrives, in any order, and is shown as it is
Answered(x, i) ==
  LET said == answers[x][i] IN
  /\ answers' = [answers EXCEPT ![x] = RemoveAt(@, i)]
  /\ view' = [view EXCEPT ![x] =
                [t \in Task |-> IF t \in DOMAIN said THEN said[t] ELSE @[t]]]
  /\ overwritten' = [overwritten EXCEPT ![x] =
                @ \cup {t \in DOMAIN said : Older(said[t], view[x][t])}]
  /\ UNCHANGED <<tasks, history, watcher, missed>>

\* mutant: the terminal events of finished tasks are left out
RelevantUnlessFinal(e) ==
  Cleaned[e.task] \in Alive /\ e.type \notin Terminal

\* the events of the history a new subscriber is sent
Relevant(e) ==
  /\ Cleaned[e.task] \in Alive
  /\ Cleaned[e.task] \in Terminal => e.type \in Terminal

Replay(h) ==
  LET kept[n \in 0 .. Len(h)] ==
        IF n = 0 THEN <<>>
        ELSE IF Relevant(h[n]) THEN Append(kept[n - 1], h[n])
        ELSE kept[n - 1]
  IN  kept[Len(h)]

\* subscribe: history and registration under the same lock
subscribe(x) ==
  /\ watcher[x].pc = "loaded"
  /\ watcher' = [watcher EXCEPT ![x] = Browser("live", Replay(history), {})]
  /\ status' = Cleaned
  /\ old' = {}
  /\ UNCHANGED <<cancelled, futures, worker, resolving, history, answers, page, missed>>

\* reduceTaskEvent
Reduce(shown, e) ==
  CASE e.type = "deleted" -> "absent"
    [] e.type = "log"     -> IF shown = "absent" THEN "queued" ELSE shown
    [] OTHER              -> e.status

Receive(x) ==
  LET src == IF watcher[x].replay # <<>> THEN watcher[x].replay ELSE watcher[x].queue
      e == Head(src) IN
  /\ src # <<>>
  /\ view' = [view EXCEPT ![x][e.task] = Reduce(@, e)]
  /\ watcher' = IF watcher[x].replay # <<>>
                THEN [watcher EXCEPT ![x].replay = Tail(@)]
                ELSE [watcher EXCEPT ![x].queue = Tail(@)]
  /\ overwritten' = IF e.type = "log" THEN overwritten
                    ELSE [overwritten EXCEPT ![x] = @ \ {e.task}]
  /\ UNCHANGED <<tasks, history, answers, missed>>

\* the socket is lost with the events that were not received; scheduleReconnect
\* opens another one without a new list
Disconnect(x) ==
  LET owed == Told(watcher[x].replay \o watcher[x].queue) IN
  /\ watcher[x].pc = "live"
  /\ watcher' = [watcher EXCEPT ![x] = Browser("loaded", <<>>, owed)]
  /\ missed' = missed \cup {y \in {x} : Dropped(owed, history)}
  /\ UNCHANGED <<tasks, history, answers, page>>

--------------------------------------------------------------------------------
Call ==
  \/ \E t \in Task : \E by \in Callers[t] :
       create(t, by) \/ CancelQueued(t, by) \/ CancelRunning(t, by) \/ CancelAgain(t, by)
  \/ \E t \in Task, by \in Watcher : delete(t, by)
  \/ \E t, u \in Task, by \in Watcher : retry(t, u, by)
  \/ \E statuses \in {{"failed", "cancelled"}, {"succeeded"}}, by \in Watcher :
       delete_by_statuses(statuses, by)
  \/ \E t \in Task : ResolveStart(t) \/ ResolveEnd(t) \/ Age(t)
  \/ Read

Run(w) ==
  \/ Take(w) \/ Start(w) \/ Stage(w) \/ End(w)
  \/ \E outcome \in {"result", "error", "stopped"} : Return(w, outcome)

Watch(x) ==
  \/ Load(x) \/ Loaded(x) \/ subscribe(x) \/ Receive(x) \/ Disconnect(x)
  \/ \E i \in 1..Len(answers[x]) : Answered(x, i)

Next ==
  \/ Call
  \/ \E w \in Worker : Run(w)
  \/ \E x \in Watcher : Watch(x)

Spec == Init /\ [][Next]_vars

\* the threads of the executor go on, and every extraction returns
FairSpec == Spec /\ \A w \in Worker : WF_vars(Run(w))

--------------------------------------------------------------------------------
(* Properties.                                                               *)

EventSet == [task : Task, type : {"created", "started", "log", "stage", "deleted",
                                  "cancel_requested"} \cup Terminal,
             status : Alive \cup Gone \cup {"none"}]

\* Every variable has its type, and no sequence outgrows its bound.
TypeOK ==
  /\ status \in [Task -> Alive \cup Gone \cup {"absent"}]
  /\ cancelled \subseteq Task /\ resolving \subseteq Task
  /\ old \subseteq {t \in Task : status[t] \in Terminal}
  /\ Len(futures) <= Cardinality(Task)
  /\ \A i \in 1..Len(futures) : futures[i] \in Task
  /\ worker \in [Worker -> [pc : {"idle", "start", "extract", "end"},
                            task : Task \cup {None}, stages : 0..MaxStages,
                            outcome : {"none", "result", "error", "stopped"}]]
  /\ Len(history) <= HistorySize
  /\ \A i \in 1..Len(history) : history[i] \in EventSet
  /\ \A x \in Watcher :
       /\ watcher[x].pc \in {"off", "listing", "loaded", "live"}
       /\ watcher[x].list \in [Task -> Alive \cup {"absent"}]
       /\ Len(watcher[x].queue) <= QueueSize /\ Len(watcher[x].replay) <= HistorySize
       /\ watcher[x].owed \subseteq Task
       /\ Len(answers[x]) <= MaxAnswers
       /\ \A i \in 1..Len(answers[x]) : \A t \in DOMAIN answers[x][i] :
            t \in Task /\ answers[x][i][t] \in
                {"absent", "queued", "cancel_requested", "cancelled"}
  /\ view \in [Watcher -> [Task -> Alive \cup {"absent"}]]
  /\ missed \subseteq Watcher
  /\ overwritten \in [Watcher -> SUBSET Task]

Extracting(w) == worker[w].pc \in {"extract", "end"}

\* A thread that extracts does so for a task that is still there and not
\* finished: neither a cancel of a queued task, a delete, a retry nor the TTL
\* ever takes the record away from a running extraction.
NoGhostExtraction ==
  \A w \in Worker :
    Extracting(w) => status[worker[w].task] \in {"running", "cancel_requested"}

\* Once a cancel was accepted the task never succeeds, even if the extractor
\* returns a result.
CancelWins ==
  [][\A t \in cancelled : status'[t] = "succeeded" => status[t] = "succeeded"]_vars

\* A finished task stays what it is until it is deleted or expires; a thread
\* that was given the task before it was cancelled does not revive it.
FinishedIsFinal ==
  [][\A t \in Task :
       status[t] \in Terminal => status'[t] \in {status[t]} \cup Gone]_vars

\* A browser that is connected, has no event left to receive and for which none
\* was dropped shows every task that exists with its real status, whatever
\* happened between its list, its subscription and its reconnections - unless
\* the answer to a call of its own arrived after a newer event and was shown
\* over it: then the task may stay at "queued" or "cancel_requested", for ever if
\* it is finished, and at nothing else.
WatcherAgrees ==
  \A x \in Watcher \ missed :
    /\ watcher[x].pc = "live"
    /\ watcher[x].replay = <<>> /\ watcher[x].queue = <<>>
    => \A t \in Task : status[t] \in Alive =>
         \/ view[x][t] = status[t]
         \/ t \in overwritten[x] /\ view[x][t] \in {"queued", "cancel_requested"}

\* The task manager as the hub sees it through /api/tasks: without the threads,
\* the queue of the executor, the events, and the reason why a task is gone.
RemoteState ==
  [t \in Task |->
     CASE status[t] = "absent"           -> "none"
       [] status[t] = "cancel_requested" -> "cancelling"
       [] status[t] \in Gone             -> "gone"
       [] OTHER                          -> status[t]]

Remote == INSTANCE RemoteTask WITH Job <- Task, Stoppable <- Task, state <- RemoteState

\* The task manager keeps the promises of RemoteTask: a task takes one step at a
\* time, an accepted cancel wins over a result that comes later, a finished task
\* stays what it is until it is gone, and every submitted task ends.
ImplementsRemoteTask == Remote!FairSpec

================================================================================
