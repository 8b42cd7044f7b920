------------------------------ MODULE PaymentLinks ------------------------------
(***************************************************************************)
(* The hub's PaymentLinkService (server/payment-link-service.js): a row    *)
(* per account, a batch that submits extractions to the payment link       *)
(* extractor, a tracker per account that polls one of them into the row,   *)
(* and the reservation that keeps the deletion of an account apart.        *)
(*                                                                         *)
(* The service is one JavaScript thread over a synchronous database: an    *)
(* action is the code between two awaits.  The extractor is RemoteTask,    *)
(* which ExtractorTasks is shown to implement.                             *)
(***************************************************************************)
EXTENDS Integers, FiniteSets

CONSTANTS
  Account,     \* ids of registered accounts
  Extraction,  \* ids of the extractor's tasks
  Payable,     \* extractions whose result holds a PayPal link
  Forgettable, \* bound: extractions the extractor may forget
  Patience,    \* failed polls in a row that end a tracker (5 in the code)
  MaxFaults,   \* bound: requests that fail, and restarts of the hub
  None

ASSUME LinksAssumption ==
  /\ None \notin Extraction /\ Payable \subseteq Extraction /\ Forgettable \subseteq Extraction
  /\ Patience \in Nat \ {0} /\ MaxFaults \in Nat

VARIABLES
  extraction,  \* what the extractor knows of each extraction (external)
  owner,       \* the account whose token an extraction was given (external)
  deleted,     \* accounts the registration worker no longer has (external)
  link,        \* the registered_account_payment_links rows
  reserved,    \* reservations
  deleting,    \* accounts a deletion holds the reservation of
  start,       \* the batch at the head of startQueue, at the account it handles
  tracker,     \* tracked: the poll loop of each account
  faults

linkVars == <<extraction, owner, deleted, link, reserved, deleting, start, tracker, faults>>

Extractor == INSTANCE RemoteTask WITH
  Job <- Extraction, Stoppable <- Extraction, state <- extraction

--------------------------------------------------------------------------------
Active  == {"queued", "running", "cancel_requested"}
Settled == {"succeeded", "failed", "cancelled"}

Row   == [task : Extraction \cup {None}, status : Active \cup Settled \cup {"absent"}]
NoRow == [task |-> None, status |-> "absent"]

Answers  == Active \cup Settled \cup {"missing"}
Untracked == [at |-> "none", task |-> None, answer |-> "missing", failures |-> 0]
NoStart   == [at |-> "none", account |-> None, task |-> None, by |-> "user"]

LinkTypeOK ==
  /\ extraction \in [Extraction -> Extractor!Working \cup Extractor!Over \cup {"none", "gone"}]
  /\ owner \in [Extraction -> Account \cup {None}]
  /\ link \in [Account -> Row]
  /\ deleted \subseteq Account /\ deleting \subseteq reserved /\ reserved \subseteq Account
  /\ start \in [at : {"none", "asking", "answered"}, account : Account \cup {None},
                task : Extraction \cup {None}, by : {"user", "pipeline"}]
  /\ tracker \in [Account -> [at : {"none", "polling", "answered", "expired"},
                              task : Extraction \cup {None}, answer : Answers,
                              failures : 0 .. Patience - 1]]
  /\ faults \in 0 .. MaxFaults

\* A request that fails, or a restart; the bound of the model.
Fault == faults < MaxFaults /\ faults' = faults + 1

\* What the extractor says of an extraction; 404 when it has forgotten it.
Snapshot(state) ==
  CASE state = "cancelling"       -> "cancel_requested"
    [] state \in {"none", "gone"} -> "missing"
    [] OTHER                      -> state

\* applySnapshot: a row takes a snapshot of its own task, or of any while it
\* has none, and calls a success without a PayPal link a failure.
Applied(row, e, status) ==
  IF row.status = "absent" \/ row.task \notin {e, None} THEN row
  ELSE [row EXCEPT !.status =
          IF status = "succeeded" /\ e \notin Payable THEN "failed" ELSE status]

\* persistTracked
Persisted(row, e, status) ==
  IF row.status # "absent" /\ row.task = e THEN [row EXCEPT !.status = status] ELSE row

\* track: an account that is tracked stays tracked as it is.
Tracked(a, e) ==
  IF tracker[a].at = "none" THEN [Untracked EXCEPT !.at = "polling", !.task = e] ELSE tracker[a]

\* mutant: an active row is no reason to refuse.
FreeIfUnreserved(a) == a \notin reserved

\* startBatch and reserveForAccountDeletion refuse an account otherwise.
Free(a) == a \notin reserved /\ link[a].status \notin Active

--------------------------------------------------------------------------------
(* startBatch, for one account of a batch.                                    *)

Accept(a, by) ==
  /\ start.at = "none" /\ Free(a)
  /\ start' = [NoStart EXCEPT !.at = "asking", !.account = a, !.by = by]
  /\ reserved' = reserved \cup {a}
  /\ UNCHANGED <<extraction, owner, deleted, link, deleting, tracker, faults>>

\* The extractor takes the request; the credentials exist.
Submitted(e) ==
  /\ start.at = "asking" /\ start.account \notin deleted
  /\ Extractor!Submit(e, {})
  /\ owner' = [owner EXCEPT ![e] = start.account]
  /\ start' = [start EXCEPT !.at = "answered", !.task = e]
  /\ UNCHANGED <<deleted, link, reserved, deleting, tracker, faults>>

StartDone == start' = NoStart /\ reserved' = reserved \ {start.account}

Started ==
  /\ start.at = "answered"
  /\ link' = [link EXCEPT ![start.account] = [task |-> start.task, status |-> "queued"]]
  /\ tracker' = [tracker EXCEPT ![start.account] = Tracked(start.account, start.task)]
  /\ StartDone
  /\ UNCHANGED <<extraction, owner, deleted, deleting, faults>>

\* No credentials, or a request that fails: before the extractor took it, or
\* after, when its answer is lost.
NotStarted ==
  /\ \/ start.at = "asking" /\ UNCHANGED faults
     \/ start.at = "answered" /\ Fault
  /\ link' = [link EXCEPT ![start.account] = [task |-> None, status |-> "failed"]]
  /\ StartDone
  /\ UNCHANGED <<extraction, owner, deleted, deleting, tracker>>

--------------------------------------------------------------------------------
(* track.                                                                     *)

Follow(a, to) == tracker' = [tracker EXCEPT ![a] = to]

Ask(a) ==
  /\ tracker[a].at = "polling"
  /\ Follow(a, [tracker[a] EXCEPT !.at = "answered", !.answer = Snapshot(extraction[tracker[a].task])])
  /\ UNCHANGED <<extraction, owner, deleted, link, reserved, deleting, start, faults>>

\* The answer may be older than what the row says by now.
Heard(a) ==
  LET t   == tracker[a]
      row == Applied(link[a], t.task, t.answer)
  IN  /\ t.at = "answered" /\ t.answer # "missing"
      /\ link' = [link EXCEPT ![a] = row]
      /\ Follow(a, IF row.task # t.task \/ row.status \in Settled THEN Untracked
                   ELSE [t EXCEPT !.at = "polling", !.answer = "missing", !.failures = 0])
      /\ UNCHANGED <<extraction, owner, deleted, reserved, deleting, start, faults>>

GiveUp(a) ==
  /\ link' = [link EXCEPT ![a] = Persisted(@, tracker[a].task, "failed")]
  /\ Follow(a, Untracked)

\* mutant: an extraction that is not known is asked for again.
MissingAskedAgain(a) ==
  /\ tracker[a].at = "answered" /\ tracker[a].answer = "missing"
  /\ Follow(a, [tracker[a] EXCEPT !.at = "polling"])
  /\ UNCHANGED <<extraction, owner, deleted, link, reserved, deleting, start, faults>>

\* 404
Missing(a) ==
  /\ tracker[a].at = "answered" /\ tracker[a].answer = "missing"
  /\ GiveUp(a)
  /\ UNCHANGED <<extraction, owner, deleted, reserved, deleting, start, faults>>

PollFails(a) ==
  /\ tracker[a].at \in {"polling", "answered"} /\ Fault
  /\ IF tracker[a].failures + 1 < Patience
     THEN /\ Follow(a, [tracker[a] EXCEPT !.at = "polling", !.answer = "missing", !.failures = @ + 1])
          /\ UNCHANGED link
     ELSE GiveUp(a)
  /\ UNCHANGED <<extraction, owner, deleted, reserved, deleting, start>>

\* The deadline of the queue or of the execution passes while the loop sleeps.
Expire(a) ==
  /\ tracker[a].at = "polling"
  /\ Follow(a, [tracker[a] EXCEPT !.at = "expired"])
  /\ UNCHANGED <<extraction, owner, deleted, link, reserved, deleting, start, faults>>

\* What a POST .../cancel does: an extraction that is over refuses it.
CancelRemotely(e) ==
  IF extraction[e] \in {"queued", "running"} THEN Extractor!Cancel(e, {}) ELSE UNCHANGED extraction

TimedOut(a) ==
  /\ tracker[a].at = "expired"
  /\ \/ CancelRemotely(tracker[a].task) /\ UNCHANGED faults
     \/ Fault /\ UNCHANGED extraction
  /\ GiveUp(a)
  /\ UNCHANGED <<owner, deleted, reserved, deleting, start>>

--------------------------------------------------------------------------------
(* deleteRegisteredAccounts and deleteRegisteredAccountForPipeline.           *)

BeginDelete(a) ==
  /\ Free(a) /\ a \notin deleted
  /\ reserved' = reserved \cup {a} /\ deleting' = deleting \cup {a}
  /\ UNCHANGED <<extraction, owner, deleted, link, start, tracker, faults>>

EndDelete(a) ==
  /\ a \in deleting
  /\ \/ deleted' = deleted \cup {a} /\ link' = [link EXCEPT ![a] = NoRow]
     \/ UNCHANGED <<deleted, link>>
  /\ reserved' = reserved \ {a} /\ deleting' = deleting \ {a}
  /\ UNCHANGED <<extraction, owner, start, tracker, faults>>

--------------------------------------------------------------------------------
(* The extractor, and a restart of the hub.                                   *)

ExtractorWorks(e) ==
  /\ Extractor!Work(e)
  /\ UNCHANGED <<owner, deleted, link, reserved, deleting, start, tracker, faults>>

ExtractorForgets(e) ==
  /\ e \in Forgettable \cap Extractor!Finished /\ Extractor!Forget({e})
  /\ UNCHANGED <<owner, deleted, link, reserved, deleting, start, tracker, faults>>

\* What is in memory is lost; resumeActiveTasks tracks the active rows again.
Reboot ==
  /\ Fault
  /\ start' = NoStart /\ reserved' = {} /\ deleting' = {}
  /\ tracker' = [a \in Account |->
       IF link[a].status \in Active /\ link[a].task # None
       THEN [Untracked EXCEPT !.at = "polling", !.task = link[a].task] ELSE Untracked]
  /\ UNCHANGED <<extraction, owner, deleted, link>>

--------------------------------------------------------------------------------
LinkInit ==
  /\ Extractor!Init
  /\ owner = [e \in Extraction |-> None]
  /\ link = [a \in Account |-> NoRow]
  /\ deleted = {} /\ reserved = {} /\ deleting = {}
  /\ start = NoStart
  /\ tracker = [a \in Account |-> Untracked]
  /\ faults = 0

\* What the service and the extractor do by themselves.
Tracks(a) == Ask(a) \/ Heard(a) \/ Missing(a) \/ TimedOut(a)
================================================================================
