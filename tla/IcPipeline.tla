------------------------------- MODULE IcPipeline -------------------------------
(***************************************************************************)
(* One task of the hub's iCloud pipeline                                   *)
(* (server/ic-registration-pipeline-service.js) over existing addresses:   *)
(* each item registers an account, extracts a payment link for it and      *)
(* submits a payment agreement.  An item is named by the account its       *)
(* registration makes.                                                     *)
(*                                                                         *)
(* It is composed with PaymentLinks, whose rows it reads and cancels, and  *)
(* with two RemoteTask services: the registrations at the worker, and the  *)
(* agreement jobs.  As in PaymentLinks an action is the code between two   *)
(* awaits; operators and users work at any moment.                         *)
(***************************************************************************)
EXTENDS PaymentLinks

CONSTANTS Workers   \* items handled at a time: the task's concurrency

ASSUME PipelineAssumption == Workers \in Nat \ {0}

VARIABLES
  task,          \* status of the ic_registration_pipelines row
  item,          \* its ic_registration_pipeline_items rows
  job,           \* the registration_jobs row of each item
  boss,          \* runTask: where it awaits, and the items it has to register
  run,           \* where the loop that runs an item awaits
  flow,          \* the calls of cancelKnownChildren, per caller and item
  context,       \* agreement contexts in the hub's memory
  registration,  \* the worker's registrations (external)
  payment,       \* the agreement jobs (external)
  paidLink       \* the extraction whose link an agreement job got (external)

Payment  == Account \X {1, 2}   \* bound: agreement jobs submitted for an item
children == <<registration, payment, paidLink>>
loops    == <<job, boss, run, flow, context>>
vars     == <<linkVars, task, item, loops, children>>

Worker    == INSTANCE RemoteTask WITH Job <- Account, Stoppable <- {}, state <- registration
Agreement == INSTANCE RemoteTask WITH Job <- Payment, Stoppable <- {}, state <- payment

--------------------------------------------------------------------------------
ItemOver == {"completed", "failed", "cancelled", "interrupted"}
TaskOver == {"completed", "partial_failed", "failed", "cancelled"}
Stages   == {"queued", "registration_wait", "link_ready", "link_submitting", "link_wait",
             "agreement_submitting", "agreement_wait", "over"}
Callers  == {"cancel", "late"}   \* cancelItem; the loop whose await a cancel overtook

\* job: registration_job_id is set; link, pay: payment_link_task_id, agreement_job_id
Item   == [status : Active \cup ItemOver, stage : Stages, job : BOOLEAN,
           link : Extraction \cup {None}, pay : 0 .. 2]
Flow   == [at : {"none", "registration", "link", "answered", "payment", "ending"},
           link : Extraction \cup {None}, pay : 0 .. 2, answer : Answers]
NoFlow == [at |-> "none", link |-> None, pay |-> 0, answer |-> "missing"]

TypeOK ==
  /\ LinkTypeOK
  /\ task \in TaskOver \cup {"running", "cancel_requested"}
  /\ item \in [Account -> Item]
  /\ job \in [Account -> {"none", "inserted", "submitted", "completed", "failed", "cancelled"}]
  /\ boss \in [at : {"off", "creating", "submitting", "adopting", "working"}, missing : SUBSET Account]
  /\ run \in [Account -> {"waiting", "registration", "queueing", "linking", "link",
                          "paying", "paid", "agreement", "done"}]
  /\ flow \in [Callers -> [Account -> Flow]]
  /\ context \in [Account -> {"none", "live", "stopped"}]
  /\ \A a \in Account : item[a].status \in ItemOver <=> item[a].stage = "over"

\* mutant: the stage is kept.
FinishedKeepingStage(rows, a, status) ==
  IF rows[a].status \in ItemOver THEN rows ELSE [rows EXCEPT ![a].status = status]

\* finishItem, on the rows
Finished(rows, a, status) ==
  IF rows[a].status \in ItemOver THEN rows
  ELSE [rows EXCEPT ![a].stage = "over",
          ![a].status = IF @ = "cancel_requested" /\ status # "completed" THEN "cancelled" ELSE status]

\* recompute, for a task t and the rows
Recompute(t, rows) ==
  LET has(s) == \E a \in Account : rows[a].status \in s
      fails  == has({"failed", "interrupted"})
  IN  CASE has(Active) -> IF t = "cancel_requested" THEN t ELSE "running"
        [] \A a \in Account : rows[a].status = "completed" -> "completed"
        [] OTHER -> IF t = "cancel_requested" /\ ~fails THEN "cancelled"
                    ELSE IF has({"completed"}) THEN "partial_failed"
                    ELSE IF fails THEN "failed" ELSE "cancelled"

\* Item rows are never written without a recompute.
Write(rows) == item' = rows /\ task' = Recompute(task, rows)

\* The row moves to a stage unless it was cancelled or is over.
Staged(row, stage) ==
  IF row.status \in {"queued", "running"} THEN [row EXCEPT !.status = "running", !.stage = stage] ELSE row

\* itemWasCancelled
ItemCancelled(a) ==
  item[a].status \in ItemOver \cup {"cancel_requested"} \/ task \in TaskOver \cup {"cancel_requested"}

--------------------------------------------------------------------------------
(* cancelKnownChildren, and the two that call it.                             *)

Unended == {"inserted", "submitted"}   \* registration jobs, as far as the hub knows

\* What registration.syncJob and cancelJob make of the worker's answer
Synced(status) == IF status = "succeeded" THEN "completed" ELSE status

AtPayment(f) == [f EXCEPT !.at = IF f.pay # 0 THEN "payment" ELSE "over"]
AtLink(f)    == IF f.link # None THEN [f EXCEPT !.at = "link"] ELSE AtPayment(f)

\* It works on a copy of the row: what the row learns later it does not see.
Known(a, row) ==
  LET f == [NoFlow EXCEPT !.link = row.link, !.pay = row.pay]
  IN  IF row.job /\ job[a] \in Unended THEN [f EXCEPT !.at = "registration"] ELSE AtLink(f)

\* A call is gone when it is over.
Open(f) == IF f.at = "over" THEN NoFlow ELSE f

\* A call goes on to f; when it is over cancelItem, if it is the caller,
\* finishes the item.
Goes(w, a, f) ==
  /\ flow' = [flow EXCEPT ![w][a] = Open(f)]
  /\ IF f.at = "over" /\ w = "cancel"
     THEN Write(Finished(item, a, "cancelled")) ELSE UNCHANGED <<task, item>>

\* cancelItem: one call at a time for an item, none for one that is over.
CancelItem(a) ==
  IF flow["cancel"][a].at # "none" \/ item[a].status \in ItemOver
  THEN UNCHANGED <<task, item, flow>>
  ELSE Goes("cancel", a, Known(a, item[a]))

\* registration.cancelJob; its errors are dropped.
FlowRegistration(w, a) ==
  /\ flow[w][a].at = "registration"
  /\ \/ /\ IF registration[a] \in {"queued", "running"}
           THEN Worker!Cancel(a, {}) ELSE UNCHANGED registration
        /\ job' = [job EXCEPT ![a] =
                     IF @ = "inserted" THEN "cancelled"
                     ELSE IF registration'[a] \in Worker!Over THEN Synced(registration'[a]) ELSE @]
        /\ UNCHANGED faults
     \/ job[a] = "submitted" /\ Fault /\ UNCHANGED <<job, registration>>
  /\ Goes(w, a, AtLink(flow[w][a]))
  /\ UNCHANGED <<extraction, owner, deleted, link, reserved, deleting, start, tracker,
                 boss, run, context, payment, paidLink>>

\* The link's row is marked, whatever it says by now.  Then POST .../cancel
\* reaches the extractor, which refuses it for an extraction that is over; or
\* it is lost.
FlowLink(w, a) ==
  LET f == flow[w][a] IN
  /\ f.at = "link"
  /\ link' = [link EXCEPT ![a] = Persisted(@, f.link, "cancel_requested")]
  /\ \/ CancelRemotely(f.link) /\ UNCHANGED faults
     \/ Fault /\ UNCHANGED extraction
  /\ flow' = [flow EXCEPT ![w][a].at = "answered",
                ![w][a].answer =
                   IF faults' # faults \/ extraction[f.link] \notin Extractor!Working
                   THEN "missing" ELSE Snapshot(extraction'[f.link])]
  /\ UNCHANGED <<owner, deleted, reserved, deleting, start, tracker,
                 task, item, job, boss, run, context, children>>

FlowAnswered(w, a) ==
  LET f == flow[w][a] IN
  /\ f.at = "answered"
  /\ link' = IF f.answer = "missing" THEN link
             ELSE [link EXCEPT ![a] = Applied(@, f.link, f.answer)]
  /\ Goes(w, a, AtPayment([f EXCEPT !.answer = "missing"]))
  /\ UNCHANGED <<extraction, owner, deleted, reserved, deleting, start, tracker, faults,
                 job, boss, run, context, children>>

\* paymentAgreements.cancelJob and releaseContext; a failure keeps the context.
FlowPayment(w, a) ==
  LET f == flow[w][a]
      p == <<a, f.pay>> IN
  /\ f.at = "payment"
  /\ \/ /\ context[a] # "none"
        /\ IF payment[p] \in {"queued", "running"} THEN Agreement!Cancel(p, {}) ELSE UNCHANGED payment
        /\ context' = [context EXCEPT ![a] = "none"] /\ UNCHANGED faults
     \/ context[a] # "none" /\ Fault /\ UNCHANGED <<context, payment>>
     \/ context[a] = "none" /\ UNCHANGED <<context, payment, faults>>
  /\ Goes(w, a, [f EXCEPT !.at = "over"])
  /\ UNCHANGED <<extraction, owner, deleted, link, reserved, deleting, start, tracker,
                 job, boss, run, registration, paidLink>>

\* cancel marks the task and its items, and calls cancelItem for each: one that
\* has nothing to cancel is over at once.
Marked(rows) ==
  [a \in Account |->
     IF rows[a].status \notin Active THEN rows[a]
     ELSE IF Known(a, rows[a]).at = "over" THEN Finished(rows, a, "cancelled")[a]
     ELSE [rows[a] EXCEPT !.status = "cancel_requested"]]

\* flows: the calls of cancelItem under way
Cancelled(rows, flows) ==
  /\ item' = Marked(rows) /\ task' = Recompute("cancel_requested", item')
  /\ flow' = [flows EXCEPT !["cancel"] =
       [a \in Account |-> IF rows[a].status \in Active /\ @[a].at = "none"
                          THEN Open(Known(a, rows[a])) ELSE @[a]]]

Cancel ==
  /\ task = "running"
  /\ Cancelled(item, flow)
  /\ UNCHANGED <<linkVars, job, boss, run, context, children>>

--------------------------------------------------------------------------------
(* runTask: ensureRegistrationJobs, then the items.                           *)

Registers(rows) == {a \in Account : rows[a].status \notin ItemOver /\ ~rows[a].job}

\* createJobs: rows for all items in one transaction ...
Insert ==
  /\ boss.at = "creating"
  /\ job' = [a \in Account |-> IF a \in boss.missing THEN "inserted" ELSE job[a]]
  /\ boss' = [boss EXCEPT !.at = "submitting"]
  /\ UNCHANGED <<linkVars, task, item, run, flow, context, children>>

\* ... unless it refuses the batch.
Refused ==
  /\ boss.at = "creating"
  /\ boss' = [boss EXCEPT !.at = "adopting"]
  /\ UNCHANGED <<linkVars, task, item, job, run, flow, context, children>>

\* Then it submits one after the other.  A request that fails fails the row;
\* the worker may have taken it all the same.
Submit(a) ==
  /\ boss.at = "submitting" /\ a \in boss.missing /\ job[a] = "inserted"
  /\ \/ Worker!Submit(a, {}) /\ job' = [job EXCEPT ![a] = "submitted"] /\ UNCHANGED faults
     \/ /\ Worker!Submit(a, {}) \/ UNCHANGED registration
        /\ job' = [job EXCEPT ![a] = "failed"] /\ Fault
  /\ UNCHANGED <<extraction, owner, deleted, link, reserved, deleting, start, tracker,
                 task, item, boss, run, flow, context, payment, paidLink>>

SubmitsDone ==
  /\ boss.at = "submitting" /\ \A a \in boss.missing : job[a] # "inserted"
  /\ boss' = [boss EXCEPT !.at = "adopting"]
  /\ UNCHANGED <<linkVars, task, item, job, run, flow, context, children>>

\* mutant: what became known after a cancel goes on.
LateNever(a, row) == UNCHANGED flow

\* Late: what became known after a cancel is cancelled by the one who learnt it.
Late(a, row) == flow' = [flow EXCEPT !["late"][a] = IF ItemCancelled(a) THEN Open(Known(a, row)) ELSE @]

NoLate == \A a \in Account : flow["late"][a].at = "none"

\* persistRegistrationJob
Adopt(a) ==
  /\ boss.at = "adopting" /\ a \in boss.missing /\ NoLate
  /\ boss' = [boss EXCEPT !.missing = @ \ {a}]
  /\ LET row == [Staged(item[a], "registration_wait") EXCEPT !.job = TRUE] IN
     IF job[a] = "none" THEN Write(Finished(item, a, "failed")) /\ UNCHANGED flow
     ELSE Write([item EXCEPT ![a] = row]) /\ Late(a, row)
  /\ UNCHANGED <<linkVars, job, run, context, children>>

Adopted ==
  /\ boss.at = "adopting" /\ boss.missing = {} /\ NoLate
  /\ boss' = [boss EXCEPT !.at = "working"]
  /\ UNCHANGED <<linkVars, task, item, job, run, flow, context, children>>

\* A worker of runTask takes the next item; none does after a cancel.
Take(a) ==
  /\ boss.at = "working" /\ task = "running" /\ run[a] = "waiting"
  /\ Cardinality({b \in Account : run[b] \notin {"waiting", "done"}}) < Workers
  /\ run' = [run EXCEPT ![a] = IF item[a].status \in ItemOver THEN "done" ELSE "registration"]
  /\ UNCHANGED <<linkVars, task, item, job, boss, flow, context, children>>

--------------------------------------------------------------------------------
(* runItem.                                                                   *)

At(a, pc) == run' = [run EXCEPT ![a] = pc]

\* The loop ends: with a verdict, or as a failure, which for an item that was
\* cancelled is another cancelItem.
Verdict(a, status) ==
  At(a, "done") /\ Write(Finished(item, a, status)) /\ UNCHANGED flow

Throws(a) ==
  IF ItemCancelled(a) THEN At(a, "done") /\ CancelItem(a)
  ELSE Verdict(a, "failed")

\* Every loop looks at the row before anything else.
Overtaken(a) ==
  /\ run[a] \in {"registration", "link", "agreement"} /\ flow["late"][a].at = "none"
  /\ ItemCancelled(a)
  /\ At(a, "done") /\ CancelItem(a)
  /\ UNCHANGED <<linkVars, job, boss, context, children>>

Waits(a, pc) == run[a] = pc /\ ~ItemCancelled(a)

\* waitForRegistration: an item that has a link already, from before a
\* restart, goes on with it; another one submits an extraction.
Registered(a) ==
  /\ Waits(a, "registration")
  /\ \/ job[a] = "completed"
     \/ job[a] = "submitted" /\ registration[a] = "succeeded"
  /\ job' = [job EXCEPT ![a] = "completed"]
  /\ IF item[a].link # None
     THEN /\ Write([item EXCEPT ![a] = Staged(@, "link_ready")]) /\ At(a, "link")
          /\ tracker' = [tracker EXCEPT ![a] = Tracked(a, item[a].link)]
     ELSE /\ Write([item EXCEPT ![a] = Staged(@, "link_submitting")]) /\ At(a, "queueing")
          /\ UNCHANGED tracker
  /\ UNCHANGED <<extraction, owner, deleted, link, reserved, deleting, start, faults,
                 boss, flow, context, children>>

\* The verdict may come after a cancel.
NotRegistered(a) ==
  /\ run[a] = "registration"
  /\ job' = [job EXCEPT ![a] =
               IF @ = "submitted" /\ registration[a] \in Worker!Over THEN Synced(registration[a]) ELSE @]
  /\ job'[a] \in {"failed", "cancelled"} /\ Verdict(a, job'[a])
  /\ UNCHANGED <<linkVars, boss, context, children>>

\* ensurePaymentLink: the item's turn in startQueue
StartLink(a) ==
  /\ run[a] = "queueing"
  /\ Accept(a, "pipeline") /\ At(a, "linking")
  /\ UNCHANGED <<task, item, job, boss, flow, context, children>>

LinkRefused(a) ==
  /\ run[a] = "queueing" /\ start.at = "none" /\ ~Free(a)
  /\ Throws(a)
  /\ UNCHANGED <<linkVars, job, boss, context, children>>

LinkStarted(a) ==
  /\ run[a] = "linking" /\ Started
  /\ LET row == [Staged(item[a], "link_wait") EXCEPT !.link = start.task] IN
     Write([item EXCEPT ![a] = row]) /\ Late(a, row)
  /\ At(a, "link")
  /\ UNCHANGED <<job, boss, context, children>>

LinkFails(a) ==
  /\ run[a] = "linking" /\ NotStarted /\ Throws(a)
  /\ UNCHANGED <<job, boss, context, children>>

Submissions(a) == Cardinality({n \in {1, 2} : payment[<<a, n>>] # "none"})
NextPayment(a) == <<a, IF Submissions(a) = 0 THEN 1 ELSE 2>>

\* mutant: whatever link the account has is paid.
LinkReadyOfAnyTask(a) ==
  /\ Waits(a, "link") /\ link[a].status = "succeeded"
  /\ Write([item EXCEPT ![a] = Staged(@, "agreement_submitting")]) /\ At(a, "paying")
  /\ paidLink' = [paidLink EXCEPT ![NextPayment(a)] = link[a].task]
  /\ UNCHANGED <<linkVars, job, boss, flow, context, registration, payment>>

\* waitForPaymentLink, and ensureAgreement up to its await
LinkReady(a) ==
  /\ Waits(a, "link") /\ link[a] = [task |-> item[a].link, status |-> "succeeded"]
  /\ Write([item EXCEPT ![a] = Staged(@, "agreement_submitting")]) /\ At(a, "paying")
  /\ paidLink' = [paidLink EXCEPT ![NextPayment(a)] = link[a].task]
  /\ UNCHANGED <<linkVars, job, boss, flow, context, registration, payment>>

\* mutant: only a cancelled extraction ends the wait.
NotLinkedIfCancelled(a) ==
  /\ Waits(a, "link") /\ link[a] = [task |-> item[a].link, status |-> "cancelled"]
  /\ Verdict(a, "cancelled")
  /\ UNCHANGED <<linkVars, job, boss, context, children>>

NotLinked(a) ==
  /\ Waits(a, "link")
  /\ \/ link[a].task # item[a].link /\ Throws(a)
     \/ link[a].task = item[a].link /\ link[a].status \in {"failed", "cancelled"}
        /\ Verdict(a, link[a].status)
  /\ UNCHANGED <<linkVars, job, boss, context, children>>

\* paymentAgreements.start: the job is taken; its answer makes a context.
Pay(a) ==
  /\ run[a] = "paying" /\ Agreement!Submit(NextPayment(a), {})
  /\ At(a, "paid")
  /\ UNCHANGED <<linkVars, task, item, job, boss, flow, context, registration, paidLink>>

Paid(a) ==
  /\ run[a] = "paid"
  /\ context' = [context EXCEPT ![a] = "live"]
  /\ LET row == [Staged(item[a], "agreement_wait") EXCEPT !.pay = Submissions(a)] IN
     Write([item EXCEPT ![a] = row]) /\ Late(a, row)
  /\ At(a, "agreement")
  /\ UNCHANGED <<linkVars, job, boss, children>>

\* No number to be had, a request that fails, or an answer that is lost
PayFails(a) ==
  /\ \/ run[a] = "paying" /\ UNCHANGED faults
     \/ run[a] = "paid" /\ Fault
  /\ Throws(a)
  /\ UNCHANGED <<extraction, owner, deleted, link, reserved, deleting, start, tracker,
                 job, boss, context, children>>

\* waitForAgreement: the verdict of the job, or of a tracker that stopped;
\* the context goes with it.
Agreed(a) ==
  LET s == payment[<<a, item[a].pay>>] IN
  /\ Waits(a, "agreement") /\ context[a] # "none"
  /\ \/ context[a] = "live" /\ s \in Agreement!Over
        /\ Verdict(a, IF s = "succeeded" THEN "completed" ELSE s)
     \/ context[a] = "stopped" /\ \E v \in {"failed", "cancelled"} : Verdict(a, v)
  /\ context' = [context EXCEPT ![a] = "none"]
  /\ UNCHANGED <<linkVars, job, boss, children>>

\* The agreement's own tracker gives up and cancels the job.
ContextStops(a) ==
  LET p == <<a, item[a].pay>> IN
  /\ run[a] = "agreement" /\ context[a] = "live" /\ payment[p] \in Agreement!Working
  /\ context' = [context EXCEPT ![a] = "stopped"]
  /\ IF payment[p] = "cancelling" THEN UNCHANGED payment ELSE Agreement!Cancel(p, {})
  /\ UNCHANGED <<linkVars, task, item, job, boss, run, flow, registration, paidLink>>

--------------------------------------------------------------------------------
(* A restart: PaymentLinks resumes, then recoverActivePipelines.              *)

\* mutant: items are taken up where they were.
RecoveredBlindly == item

\* An item whose agreement was under way fails: its context is lost.
Recovered ==
  [a \in Account |->
     IF item[a].stage \in {"agreement_submitting", "agreement_wait"}
     THEN Finished(item, a, "failed")[a] ELSE item[a]]

\* ensureRegistrationJobs finds the jobs that were inserted; items it must
\* submit anew are submitted only all together.
Rediscovered(rows) ==
  LET found == [a \in Account |->
                  IF a \in Registers(rows) /\ job[a] # "none"
                  THEN [Staged(rows[a], "registration_wait") EXCEPT !.job = TRUE] ELSE rows[a]]
      left  == Registers(found)
  IN  IF \A a \in Account : found[a].status \notin ItemOver => a \in left THEN found
      ELSE [a \in Account |-> IF a \in left THEN Finished(found, a, "failed")[a] ELSE found[a]]

Restart ==
  /\ Reboot
  /\ context' = [a \in Account |-> "none"] /\ run' = [a \in Account |-> "waiting"]
  /\ LET rows == Recovered
         t    == IF task \in TaskOver THEN task ELSE Recompute(task, rows)
         none == [w \in Callers |-> [a \in Account |-> NoFlow]]
     IN  CASE t \in TaskOver ->
                /\ item' = rows /\ task' = t
                /\ boss' = [at |-> "off", missing |-> {}] /\ flow' = none
           [] t = "cancel_requested" ->
                Cancelled(rows, none) /\ boss' = [at |-> "off", missing |-> {}]
           [] t = "running" ->
                /\ Write(Rediscovered(rows))
                /\ boss' = LET left == Registers(item') IN
                           [at |-> IF left = {} THEN "working" ELSE "creating", missing |-> left]
                /\ flow' = none
  /\ UNCHANGED <<job, children>>

--------------------------------------------------------------------------------
\* As start leaves it: the rows inserted, the tracker in createJobs.
Init ==
  /\ LinkInit
  /\ task = "running"
  /\ item = [a \in Account |-> [status |-> "queued", stage |-> "queued", job |-> FALSE,
                                link |-> None, pay |-> 0]]
  /\ job = [a \in Account |-> "none"]
  /\ boss = [at |-> "creating", missing |-> Account]
  /\ run = [a \in Account |-> "waiting"]
  /\ flow = [w \in Callers |-> [a \in Account |-> NoFlow]]
  /\ context = [a \in Account |-> "none"]
  /\ Worker!Init /\ Agreement!Init
  /\ paidLink = [p \in Payment |-> None]

Bosses == Insert \/ SubmitsDone \/ Adopted \/ \E a \in Account : Submit(a) \/ Adopt(a) \/ Take(a)

Runs(a) ==
  \/ Overtaken(a) \/ Registered(a) \/ NotRegistered(a) \/ LinkRefused(a) \/ LinkStarted(a) \/ LinkFails(a)
  \/ LinkReady(a) \/ NotLinked(a) \/ Pay(a) \/ Paid(a) \/ PayFails(a) \/ Agreed(a)

Flows(w, a) ==
  \/ FlowRegistration(w, a) \/ FlowLink(w, a) \/ FlowAnswered(w, a)
  \/ FlowPayment(w, a)

RemoteWorks ==
  \/ \E a \in Account : /\ Worker!Work(a)
                       /\ UNCHANGED <<linkVars, payment, paidLink>>
  \/ \E p \in Payment : /\ Agreement!Work(p)
                       /\ UNCHANGED <<linkVars, registration, paidLink>>
  \/ \E e \in Extraction : ExtractorWorks(e) /\ UNCHANGED children

\* A batch goes on; one of the pipeline ends with a step of the pipeline.
Starts ==
  \/ \E e \in Extraction : Submitted(e)
  \/ start.by = "user" /\ (Started \/ NotStarted)

\* Trackers, users of the accounts, and failures
LinkService ==
  \/ \E a \in Account :
       \/ registration[a] = "succeeded" /\ (Accept(a, "user") \/ BeginDelete(a))
       \/ Tracks(a) \/ PollFails(a) \/ Expire(a) \/ EndDelete(a)
  \/ \E e \in Extraction : ExtractorForgets(e)

Next ==
  \/ Bosses \/ Refused \/ Cancel \/ Restart
  \/ \E a \in Account :
       \/ Runs(a) \/ StartLink(a) \/ ContextStops(a)
       \/ \E w \in Callers : Flows(w, a)
  \/ RemoteWorks /\ UNCHANGED <<task, item, loops>>
  \/ (Starts \/ LinkService) /\ UNCHANGED <<task, item, loops, children>>

Spec == Init /\ [][Next]_vars

\* The loops go on, and so do the services: of a job one step after the other,
\* and of finitely many jobs.  startQueue is first in, first out.
FairSpec ==
  /\ Spec
  /\ WF_vars(Bosses)
  /\ \A a \in Account :
       /\ WF_vars(Runs(a)) /\ SF_vars(StartLink(a) \/ LinkRefused(a))
       /\ WF_vars(\E w \in Callers : Flows(w, a))
       /\ WF_vars(Tracks(a) /\ UNCHANGED <<task, item, loops, children>>)
       /\ WF_vars(EndDelete(a) /\ UNCHANGED <<task, item, loops, children>>)
  /\ WF_vars(Starts /\ UNCHANGED <<task, item, loops, children>>)
  /\ WF_vars(RemoteWorks /\ UNCHANGED <<task, item, loops>>)

--------------------------------------------------------------------------------
\* ensureAgreement and recoverActivePipelines: whatever is cancelled, lost or
\* restarted, an item has at most one agreement job submitted.
AgreementOnce == \A a \in Account : Submissions(a) <= 1

\* runItem: an item that is completed has its agreement completed, and it was
\* for the link of its own extraction.
CompletedIsPaid ==
  \A a \in Account : item[a].status = "completed" =>
    /\ registration[a] = "succeeded" /\ item[a].pay = 1
    /\ payment[<<a, 1>>] = "succeeded" /\ paidLink[<<a, 1>>] = item[a].link

\* startBatch and the reservations: while no request fails and the hub is not
\* restarted, an account has at most one extraction that nobody asked to stop,
\* and none once it is being deleted.
OneExtraction ==
  faults = 0 => \A a \in Account :
    Cardinality({e \in Extraction : owner[e] = a /\ extraction[e] \in {"queued", "running"}})
      <= IF a \in deleting \cup deleted THEN 0 ELSE 1

\* cancelKnownChildren and its late calls: without failures nothing goes on,
\* untold, for an item that is over and that no loop works for.
NoStrayChild ==
  \A a \in Account :
    /\ faults = 0 /\ item[a].status \in ItemOver
    /\ boss.at = "working" /\ run[a] \in {"waiting", "done"}
    /\ \A w \in Callers : flow[w][a].at = "none"
    => /\ registration[a] \notin {"queued", "running"}
       /\ item[a].link # None => extraction[item[a].link] \notin {"queued", "running"}
       /\ \A n \in {1, 2} : payment[<<a, n>>] \notin {"queued", "running"}

\* track: an active row whose task is tracked comes to an end, or to another task.
TrackedRowSettles ==
  \A a \in Account, e \in Extraction :
    LET active == link[a].task = e /\ link[a].status \in Active
    IN  active /\ tracker[a].at # "none" /\ tracker[a].task = e ~> ~active

\* runTask, cancel and recoverActivePipelines: a task that was cancelled ends,
\* whatever fails or restarts, and without failures every task does.
PipelineEnds ==
  task = "cancel_requested" \/ [](faults = 0) ~> task \in TaskOver

\* cancelKnownChildren says of the row it marks that PaymentLinkService will
\* reconcile it.
MarkedRowReconciled ==
  \A a \in Account : link[a].status = "cancel_requested" ~> link[a].status # "cancel_requested"
================================================================================
