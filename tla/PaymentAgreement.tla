---------------------------- MODULE PaymentAgreement ----------------------------
(***************************************************************************)
(* One agreement job of the hub's PaymentAgreementService                  *)
(* (server/payment-agreement-service.js): it buys a HeroSMS number,        *)
(* submits the job, and a tracker polls it, relays the code of the number  *)
(* and buys another one when none comes.  Pipelines cancel the job and     *)
(* release its context, the workbench cancels it through the proxy.        *)
(*                                                                         *)
(* One JavaScript thread: an action is the code between two awaits.        *)
(* setStatus is best effort and nobody looks at its answer: told is what   *)
(* the service sent.                                                       *)
(***************************************************************************)
EXTENDS Integers

CONSTANTS
  Number,         \* activations HeroSMS may sell
  ChangeRetries,  \* change_retries: how often a number may be replaced
  CancelRetries,  \* cancelRetryLimit
  Patience,       \* failed polls in a row that end the tracker (5 in the code)
  MaxFaults,      \* bound: requests that fail, and numbers that get lost
  None

ASSUME AgreementAssumption ==
  /\ None \notin Number /\ ChangeRetries \in Nat
  /\ {CancelRetries, Patience} \subseteq Nat \ {0} /\ MaxFaults \in Nat

VARIABLES
  job,      \* the job at the protocol service, and its phone (external)
  number,   \* what HeroSMS sold, and what became of it (external)
  told,     \* the last status set for a number: 6 used, 8 cancelled, 0 none
  context,  \* the context of the job
  tracker,  \* where createManagedJob and trackJob await, and with what
  cancel,   \* the cancelPromise: none, posted, or the answer it got
  release,  \* a forced releaseContext waits for the tracker
  faults

vars == <<job, number, told, context, tracker, cancel, release, faults>>

--------------------------------------------------------------------------------
Over     == {"completed", "failed", "cancelled"}   \* TERMINAL_JOB_STATUSES
Statuses == Over \cup {"none", "running", "awaiting", "cancelling"}

Held == Number \cup {None}

NoContext ==
  [state |-> "none", activation |-> None, attempts |-> 0, coded |-> FALSE, snapshot |-> "none",
   stopped |-> FALSE, terminal |-> FALSE, requested |-> FALSE, failing |-> FALSE, cancels |-> 0]

\* waiting, received: acquireHeroNumber returned it; refused: it knew its id
\* and threw; unknown: its answer was lost.
Accepted == {"waiting", "received"}
Sales    == Accepted \cup {"free", "refused", "unknown"}

\* coded: codeSubmittedAt is set; failing: cancelError is set; cancels is
\* cancelAttempts, a call that does not fail is the last.
TypeOK ==
  /\ job \in [status : Statuses, phone : Held]
  /\ number \in [Number -> Sales] /\ told \in [Number -> {0, 6, 8}]
  /\ context \in [state : {"none", "kept", "gone"}, activation : Held, attempts : 0 .. ChangeRetries + 1,
                  coded : BOOLEAN, snapshot : Statuses, stopped : BOOLEAN, terminal : BOOLEAN,
                  requested : BOOLEAN, failing : BOOLEAN, cancels : 0 .. MaxFaults + 1]
  /\ tracker \in [at : {"buying", "submitting", "loop", "polled", "status", "otp", "coded", "rotate",
                        "bought", "phone", "giving up", "cancelling", "done"},
                  with : Held, answer : Statuses, failures : 0 .. Patience - 1]
  /\ cancel \in Statuses \cup {"posted"} /\ release \in BOOLEAN /\ faults \in 0 .. MaxFaults

Fault == faults < MaxFaults /\ faults' = faults + 1

\* releaseActivationObject
Told(n, successful) ==
  IF n = None THEN told ELSE [told EXCEPT ![n] = IF successful THEN 6 ELSE 8]

\* releaseContextActivation: c is the context by then, its number is told.
Releases(c, successful) ==
  context' = [c EXCEPT !.activation = None] /\ told' = Told(c.activation, successful)

Keeps(c) == context' = c /\ UNCHANGED told

Goes(at) == tracker' = [tracker EXCEPT !.at = at, !.with = None, !.answer = "none"]

\* What POST .../cancel makes of the job at the service
Stopping(j) ==
  CASE j.status = "awaiting" -> [j EXCEPT !.status = "cancelled"]
    [] j.status = "running"  -> [j EXCEPT !.status = "cancelling"]
    [] OTHER                 -> j

--------------------------------------------------------------------------------
(* createManagedJob.                                                          *)

\* acquireHeroNumber returns the number it was sold.
Buy(n, at) ==
  /\ number[n] = "free" /\ number' = [number EXCEPT ![n] = "waiting"]
  /\ tracker' = [tracker EXCEPT !.at = at, !.with = n]
  /\ UNCHANGED faults

\* It throws for the phone or the price of a number it was sold, and nobody
\* tells HeroSMS.
Refuse(n) ==
  number[n] = "free" /\ number' = [number EXCEPT ![n] = "refused"] /\ UNCHANGED faults

\* There is none, it is refused, or the request fails, before or after the sale.
NoNumber ==
  \/ UNCHANGED <<number, faults>>
  \/ \E n \in Number : Refuse(n)
  \/ Fault /\ \E n \in Number :
       number[n] = "free" /\ number' = [number EXCEPT ![n] = "unknown"]

BuyFirst ==
  /\ tracker.at = "buying"
  /\ \/ \E n \in Number : Buy(n, "submitting")
     \/ NoNumber /\ Goes("done")
  /\ UNCHANGED <<job, told, context, cancel, release>>

\* A request that fails may have reached the service.
Submit ==
  LET n == tracker.with
      j == [status |-> "running", phone |-> n]
  IN  /\ tracker.at = "submitting"
      /\ \/ /\ job' = j /\ Goes("loop") /\ UNCHANGED faults
            /\ Keeps([NoContext EXCEPT !.state = "kept", !.activation = n, !.attempts = 1,
                                       !.snapshot = "running"])
         \/ /\ Fault /\ job' \in {job, j} /\ Goes("done")
            /\ told' = Told(n, FALSE) /\ UNCHANGED context
      /\ UNCHANGED <<number, cancel, release>>

--------------------------------------------------------------------------------
(* requestContextCancellation, cancelJob, the proxy, and releaseContext.      *)

\* One call at a time, for all who ask; each counts, only the tracker looks.
Post(c) ==
  IF cancel = "none" THEN cancel' = "posted" /\ Keeps([c EXCEPT !.cancels = @ + 1])
  ELSE UNCHANGED cancel /\ Keeps(c)

\* Pipelines and users ask again whenever they like.
CancelJob ==
  /\ context.state = "kept"
  /\ LET c == [context EXCEPT !.requested = TRUE] IN
     IF c.stopped /\ ~c.failing THEN Keeps(c) /\ UNCHANGED cancel ELSE Post(c)
  /\ UNCHANGED <<job, number, tracker, release, faults>>

Posted ==
  /\ cancel = "posted"
  /\ job' = Stopping(job) /\ cancel' = job'.status
  /\ UNCHANGED <<number, told, context, tracker, release, faults>>

\* The tracker, if it waits for the call, ends with it.
CancelAnswered ==
  /\ cancel \notin {"none", "posted"} /\ cancel' = "none"
  /\ Releases([context EXCEPT !.snapshot = cancel, !.failing = FALSE, !.stopped = TRUE,
                              !.terminal = @ \/ cancel \in Over], FALSE)
  /\ IF tracker.at = "cancelling" THEN Goes("done") ELSE UNCHANGED tracker
  /\ UNCHANGED <<job, number, release, faults>>

\* ... or tries again, so often.
CancelFails ==
  LET c == [context EXCEPT !.failing = TRUE] IN
  /\ cancel # "none" /\ Fault /\ cancel' = "none"
  /\ IF tracker.at # "cancelling" THEN Keeps(c) /\ UNCHANGED tracker
     ELSE IF c.cancels >= CancelRetries
          THEN Releases([c EXCEPT !.stopped = TRUE], FALSE) /\ Goes("done")
          ELSE Keeps(c) /\ Goes("loop")
  /\ UNCHANGED <<job, number, release>>

\* proxyApi: whatever the service answers, the tracker is to stop.
ProxyCancel ==
  /\ context.state = "kept"
  /\ \/ job' = Stopping(job) /\ UNCHANGED faults
     \/ Fault /\ UNCHANGED job
  /\ Releases([context EXCEPT !.stopped = TRUE], FALSE)
  /\ UNCHANGED <<number, tracker, cancel, release>>

\* A pipeline lets go of a context that stopped or has its verdict.
Release ==
  /\ context.state = "kept" /\ ~release
  /\ context.stopped \/ context.snapshot \in Over
  /\ release' = TRUE
  /\ Keeps(IF context.terminal THEN context ELSE [context EXCEPT !.stopped = TRUE])
  /\ UNCHANGED <<job, number, tracker, cancel, faults>>

\* mutant: a forced release does not wait for the tracker.
GoneAtOnce ==
  /\ context.state = "kept" /\ (release \/ tracker.at = "done")
  /\ Releases([context EXCEPT !.state = "gone"], context.snapshot = "completed")
  /\ release' = FALSE
  /\ UNCHANGED <<job, number, tracker, cancel, faults>>

\* ... once its tracker has ended.  A context that nobody lets go goes with
\* the timer that scheduleContextRelease set then.
Gone ==
  /\ context.state = "kept" /\ tracker.at = "done"
  /\ Releases([context EXCEPT !.state = "gone"], context.snapshot = "completed")
  /\ release' = FALSE
  /\ UNCHANGED <<job, number, tracker, cancel, faults>>

--------------------------------------------------------------------------------
(* trackJob, reconcileHeroSms and rotateHeroNumber.                           *)

\* The loop looks at the context, which others change while it awaits.
Stopped ==
  /\ tracker.at = "loop" /\ context.stopped
  /\ IF context.terminal THEN Keeps(context) ELSE Releases(context, FALSE)
  /\ Goes("done")
  /\ UNCHANGED <<job, number, cancel, release, faults>>

JoinCancel ==
  /\ tracker.at = "loop" /\ ~context.stopped /\ context.requested
  /\ Post(context) /\ Goes("cancelling")
  /\ UNCHANGED <<job, number, release, faults>>

Poll ==
  /\ tracker.at = "loop" /\ ~context.stopped /\ ~context.requested
  /\ tracker' = [tracker EXCEPT !.at = "polled", !.answer = job.status]
  /\ UNCHANGED <<job, number, told, context, cancel, release, faults>>

\* A request of the loop fails; the last of so many gives the job up.
LoopFails ==
  IF tracker.failures + 1 < Patience
  THEN tracker' = [tracker EXCEPT !.at = "loop", !.with = None, !.answer = "none", !.failures = @ + 1]
  ELSE Goes("giving up")

\* The answer may be older than the cancel that stopped the context.
Polled ==
  LET s == tracker.answer
      c == [context EXCEPT !.snapshot = s]
      heard == [tracker EXCEPT !.answer = "none", !.failures = 0]
  IN  /\ tracker.at = "polled"
      /\ IF context.stopped THEN Keeps(context) /\ tracker' = [heard EXCEPT !.at = "done"]
         ELSE IF s \in Over
         THEN /\ Releases([c EXCEPT !.terminal = TRUE], s = "completed")
              /\ tracker' = [heard EXCEPT !.at = "done"]
         ELSE /\ Keeps(c)
              /\ IF c.requested \/ s # "awaiting" THEN tracker' = [heard EXCEPT !.at = "loop"]
                 ELSE IF c.activation # None
                 THEN tracker' = [heard EXCEPT !.at = "status", !.with = c.activation]
                 ELSE \/ tracker' = [heard EXCEPT !.at = "loop"]
                      \/ c.coded /\ tracker' = [heard EXCEPT !.at = "rotate"]
      /\ UNCHANGED <<job, number, cancel, release, faults>>

\* A number without a code is replaced when it is cancelled or its time is up.
Status ==
  /\ tracker.at = "status"
  /\ IF number[tracker.with] = "received" /\ told[tracker.with] = 0
     THEN tracker' = [tracker EXCEPT !.at = "otp"] /\ Keeps(context)
     ELSE \/ told[tracker.with] = 0 /\ Goes("loop") /\ Keeps(context)
          \/ Goes("rotate") /\ Releases(context, FALSE)
  /\ UNCHANGED <<job, number, cancel, release, faults>>

\* The code goes to the job, if it waits for one.
Otp ==
  /\ tracker.at = "otp"
  /\ IF job.status = "awaiting"
     THEN job' = [job EXCEPT !.status = "running"] /\ tracker' = [tracker EXCEPT !.at = "coded"]
     ELSE UNCHANGED job /\ LoopFails
  /\ UNCHANGED <<number, told, context, cancel, release, faults>>

Coded ==
  /\ tracker.at = "coded" /\ Goes("loop")
  /\ Releases([context EXCEPT !.coded = TRUE], TRUE)
  /\ UNCHANGED <<job, number, cancel, release, faults>>

\* mutant: counts the numbers that were replaced.
ExhaustedLater == context.attempts > 1 + ChangeRetries

Exhausted == context.attempts >= 1 + ChangeRetries

\* mutant: a job whose numbers are used up is left alone.
GiveUpSilently ==
  /\ tracker.at = "rotate" /\ Exhausted
  /\ Keeps([context EXCEPT !.stopped = TRUE]) /\ Goes("loop")
  /\ UNCHANGED <<job, number, cancel, release, faults>>

NoMoreNumbers ==
  /\ tracker.at = "rotate" /\ Exhausted
  /\ \/ /\ job' = Stopping(job) /\ UNCHANGED faults /\ Goes("loop")
        /\ Keeps([context EXCEPT !.snapshot = job'.status, !.stopped = TRUE])
     \/ /\ Fault /\ UNCHANGED job /\ LoopFails
        /\ Keeps([context EXCEPT !.stopped = TRUE])
  /\ UNCHANGED <<number, cancel, release>>

\* Nobody looks whether the context was stopped since.
BuyNext ==
  /\ tracker.at = "rotate" /\ ~Exhausted
  /\ \/ \E n \in Number : Buy(n, "bought")
     \/ NoNumber /\ LoopFails
  /\ UNCHANGED <<job, told, context, cancel, release>>

\* mutant: the context does not learn its new number.
BoughtUnheld ==
  /\ tracker.at = "bought"
  /\ Keeps([context EXCEPT !.attempts = @ + 1])
  /\ tracker' = [tracker EXCEPT !.at = "phone"]
  /\ UNCHANGED <<job, number, cancel, release, faults>>

Bought ==
  /\ tracker.at = "bought"
  /\ Keeps([context EXCEPT !.activation = tracker.with, !.attempts = @ + 1])
  /\ tracker' = [tracker EXCEPT !.at = "phone"]
  /\ UNCHANGED <<job, number, cancel, release, faults>>

Phone ==
  /\ tracker.at = "phone"
  /\ \/ /\ job.status = "awaiting" /\ job' = [job EXCEPT !.phone = tracker.with]
        /\ Keeps([context EXCEPT !.coded = FALSE]) /\ Goes("loop") /\ UNCHANGED faults
     \/ /\ job.status # "awaiting" /\ UNCHANGED <<job, faults>>
        /\ Releases(context, FALSE) /\ LoopFails
     \/ /\ Fault /\ job' \in {job, [job EXCEPT !.phone = IF job.status = "awaiting" THEN tracker.with ELSE @]}
        /\ Releases(context, FALSE) /\ LoopFails
  /\ UNCHANGED <<number, cancel, release>>

\* A poll, a question to HeroSMS or a code that fails; the code may have come.
RequestFails ==
  /\ tracker.at \in {"polled", "status", "otp", "coded"} /\ Fault
  /\ LoopFails
  /\ UNCHANGED <<job, number, told, context, cancel, release>>

GiveUp ==
  /\ tracker.at = "giving up"
  /\ Releases([context EXCEPT !.stopped = TRUE], FALSE) /\ Goes("done")
  /\ \/ job' = Stopping(job) /\ UNCHANGED faults
     \/ Fault /\ UNCHANGED job
  /\ UNCHANGED <<number, cancel, release>>

--------------------------------------------------------------------------------
(* The protocol service and HeroSMS (external).                               *)

JobMoves ==
  /\ job' \in [status : CASE job.status = "running"    -> {"awaiting", "completed", "failed"}
                          [] job.status = "awaiting"   -> {"failed"}
                          [] job.status = "cancelling" -> Over
                          [] OTHER                     -> {},
               phone : {job.phone}]
  /\ UNCHANGED <<number, told, context, tracker, cancel, release, faults>>

CodeArrives(n) ==
  /\ number[n] = "waiting" /\ told[n] = 0 /\ job.phone = n
  /\ number' = [number EXCEPT ![n] = "received"]
  /\ UNCHANGED <<job, told, context, tracker, cancel, release, faults>>

--------------------------------------------------------------------------------
Init ==
  /\ job = [status |-> "none", phone |-> None]
  /\ number = [n \in Number |-> "free"] /\ told = [n \in Number |-> 0]
  /\ context = NoContext
  /\ tracker = [at |-> "buying", with |-> None, answer |-> "none", failures |-> 0]
  /\ cancel = "none" /\ release = FALSE /\ faults = 0

Tracks ==
  \/ BuyFirst \/ Submit \/ Stopped \/ JoinCancel \/ Poll \/ Polled \/ Status \/ Otp \/ Coded
  \/ NoMoreNumbers \/ BuyNext \/ Bought \/ Phone \/ GiveUp

Next ==
  \/ Tracks \/ RequestFails \/ CancelJob \/ Posted \/ CancelAnswered \/ CancelFails
  \/ ProxyCancel \/ Release \/ Gone \/ JobMoves \/ \E n \in Number : CodeArrives(n)

Spec == Init /\ [][Next]_vars

\* The loop goes on, calls are answered, the timer goes off; a job does not
\* wait for a code for ever.
FairSpec ==
  Spec /\ WF_vars(Tracks) /\ WF_vars(Posted) /\ WF_vars(CancelAnswered) /\ WF_vars(Gone) /\ WF_vars(JobMoves)

--------------------------------------------------------------------------------
\* releaseActivationObject's callers and acquireHeroNumber: a number whose id
\* the service learned is told back, or held by the context or by the loop that
\* bought it, whatever fails and whoever stops the job at whatever moment.  All
\* but those that acquireHeroNumber refused: they are lost, every one.
Lost(n) ==
  /\ number[n] \in Accepted \cup {"refused"} /\ told[n] = 0
  /\ ~(context.state = "kept" /\ context.activation = n)
  /\ ~(tracker.with = n /\ tracker.at \in {"submitting", "bought"})

OnlyRefusedAreLost == \A n \in Number : Lost(n) <=> number[n] = "refused"

\* trackJob, cancelJob and releaseContext: while no request fails, a tracker
\* is stopped only when its job is over or was told to stop.
StoppedMeansAsked ==
  faults = 0 /\ context.stopped => job.status \in Over \cup {"cancelling"}

\* The context's end: a number that acquireHeroNumber returned is told back in
\* the end.
AcceptedGoBack ==
  \A n \in Number : number[n] = "waiting" ~> told[n] # 0
================================================================================
