------------------------------- MODULE OpenAiSms -------------------------------
(* One task of the hub's OpenAiSmsService (server/openai-sms-service.js): it  *)
(* buys a number for each account, has the registration worker bind it,       *)
(* relays the codes, and gives every number back to HeroSMS, paid (status 6)  *)
(* or cancelled (status 8).                                                   *)
(*                                                                            *)
(* The service is one JavaScript thread over a synchronous database, so an    *)
(* action is the code between two awaits of a request, and whatever else runs *)
(* meanwhile is another action.  What waits: the loops that run items, the    *)
(* loops that cancel at the worker, relay calls, releases, retry timers, a    *)
(* cancel call, a status call, and the recovery after a restart.              *)
EXTENDS Integers, FiniteSets

CONSTANTS
    Items,        \* ids of the task's items; they are run in this order
    Workers,      \* items run at a time: openai_sms_tasks.concurrency
    MaxFaults,    \* bound: requests that fail, or offer no number to use
    MaxCrashes    \* bound: restarts of the hub

ASSUME SmsAssumption ==
    /\ Items \subseteq Nat /\ IsFiniteSet(Items) /\ Items # {}
    /\ Workers \in Nat \ {0} /\ MaxFaults \in Nat /\ MaxCrashes \in Nat

VARIABLES
    task,      \* status of the openai_sms_tasks row
    item,      \* the openai_sms_task_items rows
    run,       \* where the loop that runs an item awaits
    chase,     \* cancelTrackers: the loop that cancels an item at the worker
    rel,       \* releasePromises: a release, and the success it reports
    relay,     \* the relay call for an item, if there is one
    timer,     \* releaseRetryTimers
    call,      \* the cancel call of an operator
    viewing,   \* a status call awaits the worker's answers
    boot,      \* "up", or what the recovery of a restart awaits
    rec,       \* items whose worker task the recovery is cancelling
    worker,    \* phone-bind tasks at the registration worker (external)
    told,      \* what HeroSMS was told about an item's number (external)
    faults, crashes

calls   == <<call, viewing, boot, rec>>
outside == <<worker, told, faults, crashes>>
service == <<run, chase, rel, relay, timer, calls>>
vars    == <<task, item, service, outside>>

--------------------------------------------------------------------------------
Terminal == {"completed", "failed", "cancelled", "interrupted"}
Active   == {"queued", "running", "cancel_requested"}
Statuses == Terminal \cup Active

\* sms: relay_started_at, code_delivered_at and resend_requested_at
\* starting: the stage is "starting_worker"; no other stage decides anything
\* number: activation_id_encrypted is set; out: activation_outcome
Item == [status: Statuses, starting: BOOLEAN, remoteId: BOOLEAN, number: BOOLEAN,
         out: {"none", "completed", "cancelled"},
         sms: {"no", "started", "delivered", "resent"}]

RunPc   == {"idle", "buying", "napping", "dropping", "creating", "probing", "uncreating",
            "polling", "retracting", "disowning", "finishing", "chasing", "returned", "done"}
RelPc   == {"none", "queued", "calling"}
Busy    == {"arming", "resending", "asking"}
Known   == {"active", "told", "succeeded", "failed", "cancelled"}
Told    == {"ready", "retry", "finish", "cancel"}

TypeOK ==
    /\ task \in Statuses
    /\ item \in [Items -> Item]
    /\ run \in [Items -> RunPc]
    /\ chase \in [Items -> {"none", "calling", "finishing"}]
    /\ rel \in [Items -> [pc: RelPc, ok: BOOLEAN]]
    /\ relay \in [Items -> Busy \cup {"none", "queued"}]
    /\ timer \in [Items -> BOOLEAN]
    /\ call \in [pc: {"none", "releasing"}, asked: SUBSET Items,
                 queued: SUBSET Items, chased: SUBSET Items]
    /\ viewing \in BOOLEAN
    /\ boot \in {"up", "items", "pending"}
    /\ rec \in SUBSET Items
    /\ worker \in [Items -> Known \cup {"none", "sent", "refused"}]
    /\ told \in [Items -> SUBSET Told]
    /\ faults \in 0 .. MaxFaults
    /\ crashes \in 0 .. MaxCrashes

\* A failed request; the bound of the model.
Fault == faults < MaxFaults /\ faults' = faults + 1

\* itemWasCancelled
Cancelled(i) == {item[i].status, task} \cap {"cancel_requested", "cancelled"} # {}

\* The number is this service's to give back.
Held(i) == item[i].number /\ item[i].out = "none"

\* mutant: forgets that a restart interrupted the task.
RecomputeAnew(t, rows) ==
    LET has(s) == \E i \in Items : rows[i].status \in s
    IN  CASE has(Active) -> IF t \in Terminal \cup {"cancel_requested"} THEN t ELSE "running"
          [] ~has(Active) /\ t = "cancel_requested" -> "cancelled"
          [] ~has(Active) /\ t # "cancel_requested" ->
                IF \A i \in Items : rows[i].status = "completed" THEN "completed" ELSE "failed"

\* recomputeTask, for a task t and the rows rows
Recompute(t, rows) ==
    LET has(s) == \E i \in Items : rows[i].status \in s
        fails  == has({"failed", "interrupted"})
    IN  IF ~has(Active)
        THEN CASE t = "interrupted" -> t
               [] t = "cancel_requested" -> "cancelled"
               [] t \notin {"interrupted", "cancel_requested"} ->
                    IF has({"cancelled"}) /\ ~has({"completed"}) /\ ~fails THEN "cancelled"
                    ELSE IF fails \/ has({"cancelled"}) THEN "failed"
                    ELSE "completed"
        ELSE IF t \in Terminal \cup {"cancel_requested"} THEN t ELSE "running"

\* mutant: does not wait for the relay call at work.
AskedAtOnce(S, ok) ==
    [i \in Items |-> IF i \in S /\ rel[i].pc = "none" /\ Held(i)
                     THEN [pc |-> "calling", ok |-> ok[i]] ELSE rel[i]]

\* releaseActivation for the items of S: a release already under way is joined
\* whatever it reports, a number that is not held needs none, and a relay call
\* that is at work goes first (withItemOperation).
Asked(S, ok) ==
    [i \in Items |->
        IF i \in S /\ rel[i].pc = "none" /\ Held(i)
        THEN [pc |-> IF relay[i] \in Busy THEN "queued" ELSE "calling", ok |-> ok[i]]
        ELSE rel[i]]

\* mutant: a retry reports success whatever became of the item.
AlwaysGood == [i \in Items |-> TRUE]

Bad  == [i \in Items |-> FALSE]
Good == [i \in Items |-> item[i].status = "completed"]

\* mutant: a verdict that comes after a cancel stands.
SettledAsAsked(i, s) == s

\* The status finishItem gives a row for the verdict s.
Settled(i, s) == IF item[i].status = "cancel_requested" THEN "cancelled" ELSE s

\* mutant: an item that is over is finished again.
FinishAgain(i, s) ==
    /\ item' = [item EXCEPT ![i].status = Settled(i, s), ![i].starting = FALSE]
    /\ task' = Recompute(task, item')
    /\ rel' = Asked({i}, [j \in Items |-> Settled(i, s) = "completed"])

\* finishItem up to its await; whoever calls it then waits for rel[i], unless
\* the item was over already.
Finish(i, s) ==
    IF item[i].status \in Terminal
    THEN UNCHANGED <<task, item, rel>>
    ELSE /\ item' = [item EXCEPT ![i].status = Settled(i, s), ![i].starting = FALSE]
         /\ task' = Recompute(task, item')
         /\ rel' = Asked({i}, [j \in Items |-> Settled(i, s) = "completed"])

\* startRemoteCancellation for the items of S up to its first await: an item
\* that is over needs none.
Chasing(S) ==
    [i \in Items |-> IF i \in S /\ chase[i] = "none" /\ item[i].status \notin Terminal
                     THEN "calling" ELSE chase[i]]

Goto(i, pc) == run' = [run EXCEPT ![i] = pc]
Return(i)   == Goto(i, IF item[i].status \in Terminal THEN "returned" ELSE "finishing")

\* cancelTask at the worker: accepted, or an error.
CancelAccepted(i) ==
    /\ worker[i] \in Known
    /\ worker' = [worker EXCEPT ![i] = IF @ = "active" THEN "told" ELSE @]
    /\ UNCHANGED faults
CancelRejected(i) ==
    /\ IF worker[i] \in Known THEN Fault ELSE UNCHANGED faults
    /\ UNCHANGED worker

--------------------------------------------------------------------------------
(* Running an item: the worker loops of runTask, runItem and claimNumber.     *)

\* The handler in runTask of whatever runItem throws.
Catch(i) ==
    IF ~item[i].remoteId
    THEN /\ Finish(i, IF Cancelled(i) THEN "cancelled" ELSE "failed")
         /\ Return(i)
         /\ UNCHANGED chase
    ELSE /\ UNCHANGED <<task, item, rel>>
         /\ IF Cancelled(i) /\ ~item[i].starting
            THEN chase' = Chasing({i}) /\ Goto(i, "chasing")
            ELSE Goto(i, IF Cancelled(i) THEN "disowning" ELSE "retracting") /\ UNCHANGED chase

\* getNumberV2 returned a number: persistClaimedActivation, then runItem up to
\* the creation of the worker task.
Buy(i) ==
    /\ run[i] = "buying"
    /\ IF Cancelled(i)
       THEN /\ item' = [item EXCEPT ![i].number = TRUE]
            /\ rel' = [rel EXCEPT ![i] = [pc |-> "calling", ok |-> FALSE]]
            /\ Goto(i, "dropping")
            /\ UNCHANGED worker
       ELSE /\ item' = [item EXCEPT ![i].number = TRUE, ![i].remoteId = TRUE,
                                    ![i].starting = TRUE]
            /\ worker' = [worker EXCEPT ![i] = "sent"]
            /\ Goto(i, "creating")
            /\ UNCHANGED rel
    /\ UNCHANGED <<task, chase, relay, timer, calls, told, faults, crashes>>

\* ... a number of another country, too dear or without a price: given back
BuyWrong(i) ==
    /\ run[i] = "buying" /\ Fault
    /\ item' = [item EXCEPT ![i].number = TRUE]
    /\ rel' = [rel EXCEPT ![i] = [pc |-> "calling", ok |-> FALSE]]
    /\ Goto(i, "dropping")
    /\ UNCHANGED <<task, chase, relay, timer, calls, worker, told, crashes>>

\* ... no number in stock or at this price, and time is left
BuyNothing(i) ==
    /\ run[i] = "buying" /\ Fault /\ Goto(i, "napping")
    /\ UNCHANGED <<task, item, chase, rel, relay, timer, calls, worker, told, crashes>>

\* ... another error, or no time left
BuyFails(i) ==
    /\ run[i] = "buying" /\ Fault /\ Catch(i)
    /\ UNCHANGED <<relay, timer, calls, worker, told, crashes>>

\* The interval is over, or a cancel woke the loop.
WakeUp(i) ==
    /\ run[i] = "napping"
    /\ IF Cancelled(i) THEN Catch(i)
       ELSE Goto(i, "buying") /\ UNCHANGED <<task, item, rel, chase>>
    /\ UNCHANGED <<relay, timer, calls, outside>>

\* The release of a number that will not be used has returned.
Dropped(i) ==
    /\ run[i] = "dropping" /\ rel[i].pc = "none" /\ Catch(i)
    /\ UNCHANGED <<relay, timer, calls, outside>>

\* createPhoneBindTask or, after an error of it, getTask returned the task.
Created(i) ==
    /\ run[i] \in {"creating", "probing"} /\ worker[i] \in Known
    /\ item' = [item EXCEPT ![i].starting = FALSE]
    /\ IF Cancelled(i) THEN chase' = Chasing({i}) /\ Goto(i, "chasing")
       ELSE Goto(i, "polling") /\ UNCHANGED chase
    /\ UNCHANGED <<task, rel, relay, timer, calls, outside>>

\* createPhoneBindTask failed: refused, or no answer in time, in which case the
\* worker may still carry it out.
CreateFails(i) ==
    /\ run[i] = "creating"
    /\ IF worker[i] = "refused" THEN UNCHANGED faults ELSE Fault
    /\ Goto(i, "probing")
    /\ UNCHANGED <<task, item, chase, rel, relay, timer, calls, worker, told, crashes>>

ProbeFails(i) ==
    /\ run[i] = "probing"
    /\ IF worker[i] \in Known THEN Fault ELSE UNCHANGED faults
    /\ Goto(i, "uncreating")
    /\ UNCHANGED <<task, item, chase, rel, relay, timer, calls, worker, told, crashes>>

\* cancelTask after both failed, whatever it answers
Uncreated(i) ==
    /\ run[i] = "uncreating"
    /\ CancelAccepted(i) \/ CancelRejected(i)
    /\ IF Cancelled(i)
       THEN Finish(i, "cancelled") /\ Return(i) /\ UNCHANGED chase
       ELSE Catch(i)
    /\ UNCHANGED <<relay, timer, calls, told, crashes>>

\* The polling loop of runItem.
Poll(i) ==
    /\ run[i] = "polling"
    /\ IF Cancelled(i)
       THEN chase' = Chasing({i}) /\ Goto(i, "chasing") /\ UNCHANGED <<task, item, rel>>
       ELSE \/ /\ worker[i] \in {"succeeded", "cancelled"}
               /\ Finish(i, IF worker[i] = "succeeded" THEN "completed" ELSE "cancelled")
               /\ Return(i) /\ UNCHANGED chase
            \/ worker[i] = "failed" /\ Catch(i)
    /\ UNCHANGED <<relay, timer, calls, outside>>

\* remoteFailureLimit failures of getTask in a row
PollFails(i) ==
    /\ run[i] = "polling" /\ ~Cancelled(i) /\ Fault /\ Catch(i)
    /\ UNCHANGED <<relay, timer, calls, worker, told, crashes>>

\* cancelTask of the handler in runTask, whatever it answers
Retracted(i) ==
    /\ run[i] \in {"retracting", "disowning"}
    /\ CancelAccepted(i) \/ CancelRejected(i)
    /\ Finish(i, IF run[i] = "retracting" THEN "failed" ELSE "cancelled")
    /\ Return(i)
    /\ UNCHANGED <<chase, relay, timer, calls, told, crashes>>

\* runItem has returned: the loop takes the next item, in the order of the
\* ids, unless the task is over or cancelled.
RunEnds(i) ==
    /\ \/ run[i] = "finishing" /\ rel[i].pc = "none"
       \/ run[i] = "chasing" /\ chase[i] = "none"
       \/ run[i] = "returned"
    /\ task' = Recompute(task, item)
    /\ LET queued == {j \in Items : item[j].status = "queued"}
           next   == IF task' \in {"queued", "running"}
                     THEN {j \in queued : \A k \in queued : j <= k} ELSE {}
       IN /\ item' = [j \in Items |-> IF j \in next
                          THEN [item[j] EXCEPT !.status = "running"] ELSE item[j]]
          /\ run' = [j \in Items |-> IF j \in next THEN "buying"
                                     ELSE IF j = i THEN "done" ELSE run[j]]
    /\ UNCHANGED <<chase, rel, relay, timer, calls, outside>>

--------------------------------------------------------------------------------
(* startRemoteCancellation: cancelTask until the worker accepts it.           *)

ChaseAccepted(i) ==
    /\ chase[i] = "calling" /\ CancelAccepted(i)
    /\ Finish(i, "cancelled")
    /\ chase' = [chase EXCEPT ![i] = IF item[i].status \in Terminal THEN "none" ELSE "finishing"]
    /\ UNCHANGED <<run, relay, timer, calls, told, crashes>>

\* mutant: gives up after one try.
ChaseGivesUp(i) ==
    /\ chase[i] = "calling" /\ CancelRejected(i)
    /\ item' = [item EXCEPT ![i].starting = FALSE]
    /\ chase' = [chase EXCEPT ![i] = "none"]
    /\ UNCHANGED <<task, run, rel, relay, timer, calls, told, crashes>>

ChaseRejected(i) ==
    /\ chase[i] = "calling" /\ CancelRejected(i)
    /\ item' = [item EXCEPT ![i].starting = FALSE]
    /\ chase' = [chase EXCEPT ![i] = IF item[i].status \in Terminal THEN "none" ELSE @]
    /\ UNCHANGED <<task, run, rel, relay, timer, calls, told, crashes>>

ChaseEnds(i) ==
    /\ chase[i] = "finishing" /\ rel[i].pc = "none"
    /\ chase' = [chase EXCEPT ![i] = "none"]
    /\ UNCHANGED <<task, item, run, rel, relay, timer, calls, outside>>

--------------------------------------------------------------------------------
(* releaseActivation and its retries.                                         *)

Verdict(i) == IF rel[i].ok THEN "finish" ELSE "cancel"

\* HeroSMS carries out setStatus 6 or 8.
HeroReleases(i) ==
    /\ rel[i].pc = "calling" /\ Verdict(i) \notin told[i]
    /\ told' = [told EXCEPT ![i] = @ \cup {Verdict(i)}]
    /\ UNCHANGED <<task, item, service, worker, faults, crashes>>

\* After a release the relay call behind it starts; what it found before it
\* queued is checked again.
RelayNext(i, row) ==
    [relay EXCEPT ![i] = IF @ = "queued" THEN
         (IF row.status = "running" /\ row.out = "none" /\ task = "running"
          THEN (IF row.sms = "no" THEN "arming" ELSE "asking") ELSE "none") ELSE @]

Released(i) ==
    /\ rel[i].pc = "calling" /\ Verdict(i) \in told[i]
    /\ item' = [item EXCEPT ![i].out = IF rel[i].ok THEN "completed" ELSE "cancelled"]
    /\ rel' = [rel EXCEPT ![i].pc = "none"]
    /\ timer' = [timer EXCEPT ![i] = FALSE]
    /\ relay' = RelayNext(i, item'[i])
    /\ UNCHANGED <<task, run, chase, calls, outside>>

\* mutant: no retry is scheduled.
ReleaseLost(i) ==
    /\ rel[i].pc = "calling" /\ Fault
    /\ rel' = [rel EXCEPT ![i].pc = "none"]
    /\ relay' = RelayNext(i, item[i])
    /\ UNCHANGED <<task, item, run, chase, timer, calls, worker, told, crashes>>

ReleaseFails(i) ==
    /\ rel[i].pc = "calling" /\ Fault
    /\ rel' = [rel EXCEPT ![i].pc = "none"]
    /\ timer' = [timer EXCEPT ![i] = TRUE]
    /\ relay' = RelayNext(i, item[i])
    /\ UNCHANGED <<task, item, run, chase, calls, worker, told, crashes>>

\* scheduleReleaseRetry's timer
RetryRelease(i) ==
    /\ timer[i]
    /\ timer' = [timer EXCEPT ![i] = FALSE]
    /\ rel' = Asked({i}, Good)
    /\ UNCHANGED <<task, item, run, chase, relay, calls, outside>>

--------------------------------------------------------------------------------
(* relay: the worker asks for a code.                                         *)

Open(i) == item[i].status = "running" /\ item[i].out = "none"

\* The call for the item, up to its first await.
RelayCall(i, resend) ==
    /\ relay[i] = "none" /\ worker[i] \in {"active", "told"}
    /\ Open(i) /\ item[i].number
    /\ relay' = [relay EXCEPT ![i] =
           CASE rel[i].pc # "none" -> "queued"
             [] rel[i].pc = "none" /\ task # "running" -> "none"
             [] rel[i].pc = "none" /\ task = "running" ->
                  CASE item[i].sms = "no" -> "arming"
                    [] item[i].sms = "delivered" /\ resend -> "resending"
                    [] item[i].sms # "no" /\ ~(item[i].sms = "delivered" /\ resend) -> "asking"]
    /\ UNCHANGED <<task, item, run, chase, rel, timer, calls, outside>>

\* A release that queued behind the relay call starts when that is over.
RelayEnds(i) ==
    /\ relay' = [relay EXCEPT ![i] = "none"]
    /\ rel' = [rel EXCEPT ![i].pc = IF @ = "queued" THEN "calling" ELSE @]

\* HeroSMS answered setStatus 1 or 3: the text message is under way.
Armed(i) ==
    /\ relay[i] \in {"arming", "resending"}
    /\ told' = [told EXCEPT ![i] = @ \cup {IF relay[i] = "arming" THEN "ready" ELSE "retry"}]
    /\ IF Open(i)
       THEN /\ item' = [item EXCEPT ![i].starting = FALSE,
                            ![i].sms = IF relay[i] = "arming" THEN "started" ELSE "resent"]
            /\ relay' = [relay EXCEPT ![i] = "asking"]
            /\ UNCHANGED rel
       ELSE RelayEnds(i) /\ UNCHANGED item
    /\ UNCHANGED <<task, run, chase, timer, calls, worker, faults, crashes>>

\* HeroSMS answered getStatus with a code that is new.
CodeArrives(i) ==
    /\ relay[i] = "asking" /\ RelayEnds(i)
    /\ IF Open(i) THEN item' = [item EXCEPT ![i].starting = FALSE, ![i].sms = "delivered"]
                  ELSE UNCHANGED item
    /\ UNCHANGED <<task, run, chase, timer, calls, outside>>

\* No code yet, the code of before, or an error.
NoCode(i) ==
    /\ relay[i] \in Busy /\ RelayEnds(i)
    /\ UNCHANGED <<task, item, run, chase, timer, calls, outside>>

--------------------------------------------------------------------------------
(* The calls of an operator.                                                  *)

\* mutant: finishes the items at work as it does those that never ran.
CancelAtOnce ==
    /\ boot = "up" /\ call.pc = "none" /\ task \notin Terminal
    /\ LET hit == {i \in Items : item[i].status \in Active} IN
       /\ item' = [i \in Items |-> IF i \in hit
              THEN [item[i] EXCEPT !.status = "cancel_requested", !.starting = FALSE]
              ELSE item[i]]
       /\ rel' = Asked(hit, Bad)
       /\ call' = [pc |-> "releasing", asked |-> {i \in hit : rel'[i].pc # "none"},
                   queued |-> hit, chased |-> {}]
    /\ task' = "cancel_requested"
    /\ UNCHANGED <<run, chase, relay, timer, viewing, boot, rec, outside>>

\* cancel: the transaction, the wake-ups and the releases
Cancel ==
    /\ boot = "up" /\ call.pc = "none" /\ task \notin Terminal
    /\ LET hit == {i \in Items : item[i].status \in Active} IN
       /\ item' = [i \in Items |-> IF i \in hit
              THEN [item[i] EXCEPT !.status = "cancel_requested", !.starting = FALSE]
              ELSE item[i]]
       /\ rel' = Asked(hit, Bad)
       /\ call' = [pc |-> "releasing", asked |-> {i \in hit : rel'[i].pc # "none"},
                   queued |-> {i \in hit : item[i].status = "queued"},
                   chased |-> {i \in hit : item[i].remoteId /\ ~item[i].starting}]
    /\ task' = "cancel_requested"
    /\ UNCHANGED <<run, chase, relay, timer, viewing, boot, rec, outside>>

\* ... and the rest of it once the releases have returned: finishItem for the
\* items that never ran, then recomputeTask
CancelReturns ==
    /\ call.pc = "releasing" /\ \A i \in call.asked : rel[i].pc = "none"
    /\ item' = [i \in Items |-> IF i \in call.queued /\ item[i].status \notin Terminal
           THEN [item[i] EXCEPT !.status = "cancelled"] ELSE item[i]]
    /\ task' = Recompute(IF call.queued = {} THEN task ELSE Recompute(task, item'), item')
    /\ chase' = Chasing(call.chased)
    /\ call' = [pc |-> "none", asked |-> {}, queued |-> {}, chased |-> {}]
    /\ UNCHANGED <<run, rel, relay, timer, viewing, boot, rec, outside>>

\* getTask: refreshRemoteItem for every item at work, then recomputeTask
View ==
    /\ boot = "up" /\ ~viewing /\ task \notin Terminal
    /\ viewing' = TRUE
    /\ UNCHANGED <<task, item, run, chase, rel, relay, timer, call, boot, rec, outside>>

Refresh(i) ==
    /\ viewing /\ item[i].remoteId /\ item[i].status \in Active /\ worker[i] \in Known
    /\ \/ worker[i] = "succeeded" /\ Finish(i, "completed")
       \/ worker[i] \in {"failed", "cancelled"} /\ Finish(i, worker[i])
       \/ item' = [item EXCEPT ![i].starting = FALSE] /\ UNCHANGED <<task, rel>>
    /\ UNCHANGED <<run, chase, relay, timer, calls, outside>>

ViewEnds ==
    /\ viewing /\ viewing' = FALSE
    /\ task' = Recompute(task, item)
    /\ UNCHANGED <<item, run, chase, rel, relay, timer, call, boot, rec, outside>>

--------------------------------------------------------------------------------
(* The process dies, and recoverInterruptedTasks of the next one begins.      *)

\* What retryPendingReleases starts, in a process with no release under way.
Pending == [i \in Items |-> [pc |-> IF Held(i) THEN "calling" ELSE "none", ok |-> Good[i]]]

Restart ==
    /\ crashes < MaxCrashes /\ crashes' = crashes + 1
    /\ run' = [i \in Items |-> "idle"]
    /\ chase' = [i \in Items |-> "none"]
    /\ relay' = [i \in Items |-> "none"]
    /\ timer' = [i \in Items |-> FALSE]
    /\ call' = [pc |-> "none", asked |-> {}, queued |-> {}, chased |-> {}]
    /\ viewing' = FALSE
    /\ IF task \in Terminal
       THEN boot' = "pending" /\ rec' = {} /\ rel' = Pending /\ UNCHANGED <<task, item>>
       ELSE LET hit == {i \in Items : item[i].status \in Active} IN
            /\ boot' = "items" /\ task' = "interrupted"
            /\ item' = [i \in Items |-> IF i \in hit
                   THEN [item[i] EXCEPT !.status = "interrupted", !.starting = FALSE]
                   ELSE item[i]]
            /\ rec' = {i \in hit : item[i].remoteId}
            /\ rel' = [i \in Items |->
                   [pc |-> IF i \in hit \ rec' /\ Held(i) THEN "calling" ELSE "none",
                    ok |-> FALSE]]
    /\ UNCHANGED <<worker, told, faults>>

\* cancelTask of the recovery, whatever it answers; then the release
Recover(i) ==
    /\ i \in rec /\ rec' = rec \ {i}
    /\ CancelAccepted(i) \/ CancelRejected(i)
    /\ rel' = Asked({i}, Bad)
    /\ UNCHANGED <<task, item, run, chase, relay, timer, call, viewing, boot, told, crashes>>

\* recomputeTask and retryPendingReleases
RecoverPending ==
    /\ boot = "items" /\ rec = {} /\ \A i \in Items : rel[i].pc = "none"
    /\ boot' = "pending"
    /\ task' = Recompute(task, item)
    /\ rel' = Asked(Items, Good)
    /\ UNCHANGED <<item, run, chase, relay, timer, call, viewing, rec, outside>>

Recovered ==
    /\ boot = "pending" /\ \A i \in Items : rel[i].pc = "none"
    /\ boot' = "up"
    /\ UNCHANGED <<task, item, run, chase, rel, relay, timer, call, viewing, rec, outside>>

--------------------------------------------------------------------------------
(* The registration worker.                                                   *)

WorkerAnswers(i) ==
    /\ \/ worker[i] = "sent" /\ \E s \in {"active", "refused"} : worker' = [worker EXCEPT ![i] = s]
       \/ /\ worker[i] \in {"active", "told"}
          /\ \E s \in {"succeeded", "failed", "cancelled"} : worker' = [worker EXCEPT ![i] = s]
    /\ UNCHANGED <<task, item, service, told, faults, crashes>>

--------------------------------------------------------------------------------
\* As start leaves them: the loops of runTask have taken the first items.
Init ==
    /\ task = "running"
    /\ LET first == {i \in Items : Cardinality({j \in Items : j < i}) < Workers} IN
       /\ item = [i \in Items |->
              [status |-> IF i \in first THEN "running" ELSE "queued", starting |-> FALSE,
               remoteId |-> FALSE, number |-> FALSE, out |-> "none", sms |-> "no"]]
       /\ run = [i \in Items |-> IF i \in first THEN "buying" ELSE "idle"]
    /\ chase = [i \in Items |-> "none"]
    /\ rel = [i \in Items |-> [pc |-> "none", ok |-> FALSE]]
    /\ relay = [i \in Items |-> "none"]
    /\ timer = [i \in Items |-> FALSE]
    /\ call = [pc |-> "none", asked |-> {}, queued |-> {}, chased |-> {}]
    /\ viewing = FALSE /\ boot = "up" /\ rec = {}
    /\ worker = [i \in Items |-> "none"]
    /\ told = [i \in Items |-> {}]
    /\ faults = 0 /\ crashes = 0

\* Steps the service takes by itself ...
Proceeds(i) ==
    \/ Buy(i) \/ WakeUp(i) \/ Dropped(i) \/ Created(i)
    \/ ProbeFails(i) \/ Uncreated(i) \/ Poll(i) \/ Retracted(i) \/ RunEnds(i)
Chases(i)   == ChaseAccepted(i) \/ ChaseEnds(i)
Releases(i) == HeroReleases(i) \/ Released(i)

\* ... and those nobody may count on.
Fails(i) ==
    \/ BuyWrong(i) \/ BuyNothing(i) \/ BuyFails(i) \/ CreateFails(i) \/ PollFails(i)
    \/ ChaseRejected(i) \/ ReleaseFails(i)
Relays(i) ==
    \/ \E resend \in BOOLEAN : RelayCall(i, resend)
    \/ Armed(i) \/ CodeArrives(i) \/ NoCode(i)

Next ==
    \/ \E i \in Items :
           \/ Proceeds(i) \/ Chases(i) \/ Releases(i) \/ RetryRelease(i)
           \/ Fails(i) \/ Relays(i) \/ Refresh(i) \/ Recover(i) \/ WorkerAnswers(i)
    \/ Cancel \/ CancelReturns \/ View \/ ViewEnds
    \/ Restart \/ RecoverPending \/ Recovered

Spec == Init /\ [][Next]_vars

FairSpec ==
    /\ Spec
    /\ \A i \in Items :
           /\ WF_vars(Proceeds(i)) /\ WF_vars(Chases(i)) /\ WF_vars(ChaseRejected(i))
           /\ WF_vars(CreateFails(i) /\ worker[i] = "refused")
           /\ WF_vars(Releases(i)) /\ WF_vars(RetryRelease(i))
           /\ WF_vars(Armed(i) \/ CodeArrives(i) \/ NoCode(i))
           /\ WF_vars(Recover(i)) /\ WF_vars(WorkerAnswers(i))
    /\ WF_vars(CancelReturns) /\ WF_vars(ViewEnds)
    /\ WF_vars(RecoverPending) /\ WF_vars(Recovered)

--------------------------------------------------------------------------------
(* Properties.                                                                *)

\* finishItem and releaseActivation: HeroSMS is told that a number was used
\* (status 6) only when the worker bound it and the item says so, and never
\* both that and that the number is cancelled (8), whichever of a release, a
\* retry, a cancel, a status call and a restart told it.
PaidOnlyIfBound ==
    \A i \in Items :
        "finish" \in told[i] => /\ worker[i] = "succeeded" /\ item[i].status = "completed"
                                /\ "cancel" \notin told[i]

\* releaseActivation: what the row records is what HeroSMS was told, and it
\* agrees with the status of the item.
OutcomeIsTrue ==
    \A i \in Items :
        /\ item[i].out = "completed" => "finish" \in told[i]
        /\ item[i].out = "cancelled" => "cancel" \in told[i]
        /\ item[i].out = "cancelled" => item[i].status # "completed"

\* cancel and runItem: while nothing fails and nobody restarts the hub, no
\* binding goes on at the worker, untold, once its item is over and its loops
\* have ended; not even one whose creation was under way when the cancel came.
NoStrayBinding ==
    \A i \in Items :
        /\ faults = 0 /\ crashes = 0 /\ item[i].status \in Terminal
        /\ run[i] \in {"idle", "done"} /\ chase[i] = "none"
        => worker[i] \notin {"sent", "active"}

\* relay and withItemOperation: HeroSMS is never asked for another message of
\* a number it was told to take back.
NoSmsAfterRelease ==
    [][\A i \in Items :
           told[i] \cap {"finish", "cancel"} # {} =>
               told'[i] \cap {"ready", "retry"} = told[i] \cap {"ready", "retry"}]_vars

\* finishItem, cancel and the recovery: an item that is over keeps its verdict.
ItemVerdictFinal ==
    [][\A i \in Items : item[i].status \in Terminal => item'[i].status = item[i].status]_vars

CancelledReadsFailed ==
    task = "cancelled" /\ task' = "failed" /\ \E i \in Items : item[i].status # "cancelled"

\* recomputeTask, cancel and the recovery: a task that is over stays over, with
\* the verdict it had.  The one exception is what the code does to a cancelled
\* task some of whose items were not: the next recomputeTask finds "cancelled"
\* where it looks for "cancel_requested", and calls the task failed.
TaskStaysOver == [][(task \in Terminal) => (task' = task \/ CancelledReadsFailed)]_vars

\* releaseActivation, its retries and retryPendingReleases: every number that
\* was recorded is given back in the end.
NumbersGoBack == \A i \in Items : item[i].number ~> item[i].out # "none"

\* cancel: a task that was cancelled ends, and says so.
CancelEnds == (task = "cancel_requested") ~> (task \in Terminal)
================================================================================
