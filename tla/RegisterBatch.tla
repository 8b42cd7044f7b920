------------------------------ MODULE RegisterBatch ------------------------------
(***************************************************************************)
(* One registration task from the inside                                   *)
(* (registration-worker/application/tasks.py, _execute_register_task).     *)
(*                                                                         *)
(* The task's thread submits attempts to a pool of threads and tallies     *)
(* what they return. An attempt waits while the task is paused, takes one  *)
(* of the execution slots of the process, borrows one of the SMS slots of  *)
(* the task (each slot holds one phone number), registers, pays, and gives *)
(* everything back. A number the payment page refuses is swapped for a     *)
(* backup; its slot is refilled from the backups or dropped. Meanwhile the *)
(* operator pauses, resumes and cancels the row.                           *)
(***************************************************************************)
EXTENDS Integers, Sequences, FiniteSets

CONSTANTS
  Count,            \* accounts wanted
  Concurrency,      \* attempts at a time
  Extra,            \* further accounts while a HeroSMS number can be reused
  MailboxCapacity,  \* mailboxes: an attempt needs one
  ExecutionSlots,   \* execution slots of the process
  Pool,             \* sms_pool: sequence of numbers
  Modes,            \* kinds of task: "plain", "plus" (must succeed), "hero"
  None              \* no number, no slot

Number   == {Pool[i] : i \in 1..Len(Pool)}
Attempt  == 1..MailboxCapacity
SlotIds  == 1..Concurrency

ASSUME BatchAssumption ==
  /\ Count \in Nat \ {0} /\ Extra \in Nat
  /\ Concurrency \in 1..Count
  /\ MailboxCapacity \in Nat /\ MailboxCapacity >= Count
  /\ ExecutionSlots \in Nat \ {0}
  /\ Modes \subseteq {"plain", "plus", "hero"}
  /\ Pool \in Seq(Number)
  /\ Pool # <<>> => Len(Pool) >= Concurrency
  /\ \A i, j \in 1..Len(Pool) : Pool[i] = Pool[j] => i = j
  /\ None \notin Number /\ None \notin SlotIds

VARIABLES
  mode,       \* what the payload asks for
  row,        \* status of the task row
  main,       \* the task's thread
  attempt,    \* the attempts, as the pool's threads run them
  free,       \* execution slots nobody holds
  others,     \* execution slots other tasks hold
  slots,      \* sms_pool_slots: the number of each SMS slot
  slotQueue,  \* sms_slot_queue
  extras,     \* sms_pool_extras
  exhausted,  \* sms_pool_exhausted
  verdict,    \* what finish wrote
  reusable,   \* the HeroSMS number in the cache can be used again
  rejected    \* numbers found dead so far (history variable)

sms  == <<slots, slotQueue, extras, exhausted, reusable, rejected>>
vars == <<mode, row, main, attempt, free, others, slots, slotQueue, extras,
          exhausted, verdict, reusable, rejected>>

Cancelled == row = "cancel_requested"
HasPool   == mode = "plus" /\ Pool # <<>>

\* target of the submissions and bound on their number
Goal == IF mode = "hero" THEN Count + Extra ELSE Count

Smaller(m, n) == IF m < n THEN m ELSE n

Attempts == CASE mode = "plain" -> Count
              [] mode = "plus"  -> Smaller(5 * Count, MailboxCapacity)
              [] mode = "hero"  -> Smaller(3 * Goal, MailboxCapacity)

\* mutant: the first backup is also the number of the last slot
BackupsOffByOne == SubSeq(Pool, Concurrency, Len(Pool))

Backups == SubSeq(Pool, Concurrency + 1, Len(Pool))

NewAttempt == [pc |-> "new", slot |-> None, number |-> None, dead |-> FALSE,
               result |-> "none"]

Init ==
  /\ mode \in Modes
  /\ row = "running"
  /\ main = [pc |-> "flag", submitted |-> 0, futures |-> {}, success |-> 0, errors |-> 0]
  /\ attempt = [a \in Attempt |-> NewAttempt]
  /\ others \in 0..ExecutionSlots
  /\ free = ExecutionSlots - others
  /\ slots = IF HasPool THEN [s \in SlotIds |-> Pool[s]] ELSE [s \in SlotIds |-> None]
  /\ slotQueue = IF HasPool THEN [s \in SlotIds |-> s] ELSE <<>>
  /\ extras = IF HasPool THEN Backups ELSE <<>>
  /\ exhausted = FALSE
  /\ verdict = "none"
  /\ reusable \in BOOLEAN
  /\ rejected = {}

--------------------------------------------------------------------------------
(* The operator (see TaskRuntime for the row itself).                        *)

Operate ==
  /\ verdict = "none"
  /\ \/ row = "running" /\ row' \in {"paused", "cancel_requested"}
     \/ row = "paused" /\ row' \in {"running", "cancel_requested"}
  /\ UNCHANGED <<mode, main, attempt, free, others, sms, verdict>>

\* another task gives a slot back
OtherReleases ==
  /\ others > 0
  /\ others' = others - 1 /\ free' = free + 1
  /\ UNCHANGED <<mode, row, main, attempt, sms, verdict>>

\* the HeroSMS number in the cache runs out of time or of uses
Lapse ==
  /\ reusable /\ mode = "hero"
  /\ reusable' = FALSE
  /\ UNCHANGED <<mode, row, main, attempt, free, others, slots, slotQueue, extras, exhausted,
                 rejected, verdict>>

--------------------------------------------------------------------------------
(* The task's thread.                                                        *)

\* mutant: the attempts in flight are not counted
MoreBlindly ==
  /\ main.submitted < Attempts /\ ~Cancelled /\ ~exhausted
  /\ mode = "plain" \/ main.success < Goal

\* mutant: the loop goes on when a dead number could not be replaced
MoreAfterExhaustion ==
  /\ main.submitted < Attempts /\ ~Cancelled
  /\ mode = "plus" => main.success + Cardinality(main.futures) < Count
  /\ mode = "plain" => main.submitted < Count

\* _should_submit_more
More ==
  LET inFlight == Cardinality(main.futures) IN
  /\ main.submitted < Attempts /\ ~Cancelled /\ ~exhausted
  /\ ~(HasPool /\ slotQueue = <<>> /\ inFlight >= Concurrency)
  /\ CASE mode = "plus"  -> main.success + inFlight < Count
       [] mode = "plain" -> main.submitted < Count
       [] mode = "hero"  -> /\ main.success + inFlight < Goal
                            /\ main.success < Count \/ (reusable /\ Extra > 0)

ReadPause ==
  /\ main.pc = "flag"
  /\ main' = [main EXCEPT !.pc = IF row = "paused" THEN "wait" ELSE "more"]
  /\ UNCHANGED <<mode, row, attempt, free, others, sms, verdict>>

Submit ==
  /\ main.pc = "more"
  /\ IF More /\ Cardinality(main.futures) < Concurrency
     THEN LET a == main.submitted + 1 IN
          /\ main' = [main EXCEPT !.pc = "flag", !.submitted = a, !.futures = @ \cup {a}]
          /\ attempt' = [attempt EXCEPT ![a].pc = "gate"]
     ELSE /\ main' = [main EXCEPT !.pc = "wait"]
          /\ UNCHANGED attempt
  /\ UNCHANGED <<mode, row, free, others, sms, verdict>>

Done == {a \in main.futures : attempt[a].pc = "done"}
With(result, as) == {a \in as : attempt[a].result = result}

\* the first exception of a finished attempt ends the loop
Collect ==
  /\ main.pc = "wait" /\ Done # {}
  /\ main' = IF With("raised", Done) # {} THEN [main EXCEPT !.pc = "raised"]
             ELSE [main EXCEPT !.pc = "flag",
                               !.futures = @ \ Done,
                               !.success = @ + Cardinality(With("ok", Done)),
                               !.errors = @ + Cardinality(With("error", Done))]
  /\ UNCHANGED <<mode, row, attempt, free, others, sms, verdict>>

Idle ==
  /\ main.pc = "wait" /\ main.futures = {}
  /\ main' = [main EXCEPT !.pc = IF More THEN "held" ELSE "summary"]
  /\ UNCHANGED <<mode, row, attempt, free, others, sms, verdict>>

\* wait_if_paused
Hold ==
  /\ main.pc = "held" /\ row # "paused"
  /\ main' = [main EXCEPT !.pc = IF Cancelled THEN "summary" ELSE "flag"]
  /\ UNCHANGED <<mode, row, attempt, free, others, sms, verdict>>

\* finish: a cancel that is requested by now refuses every other verdict
Finished(status) ==
  IF Cancelled /\ status # "cancelled" THEN "refused" ELSE status

Conclude(status) ==
  /\ main' = [main EXCEPT !.pc = status]
  /\ UNCHANGED <<mode, row, attempt, free, others, sms, verdict>>

Tally == IF main.errors > 0 /\ main.success = 0 THEN "failed" ELSE "succeeded"

Summary ==
  /\ main.pc = "summary"
  /\ Conclude(IF Cancelled THEN "cancelled" ELSE Tally)

\* leaving the with block waits for the attempts that still run
Raise ==
  /\ main.pc = "raised"
  /\ \A a \in main.futures : attempt[a].pc = "done"
  /\ verdict' = Finished("failed")
  /\ main' = [main EXCEPT !.pc = "ended"]
  /\ UNCHANGED <<mode, row, attempt, free, others, sms>>

Finish ==
  /\ main.pc \in {"succeeded", "failed", "cancelled"}
  /\ verdict' = Finished(main.pc)
  /\ main' = [main EXCEPT !.pc = "ended"]
  /\ UNCHANGED <<mode, row, attempt, free, others, sms>>

Main == \/ ReadPause \/ Submit \/ Collect \/ Idle \/ Hold
        \/ Summary \/ Raise \/ Finish

--------------------------------------------------------------------------------
(* An attempt (_do_one_with_execution_slot, _do_one).                        *)

At(a, pc) == attempt[a].pc = pc

To(a, pc) == attempt' = [attempt EXCEPT ![a].pc = pc]

\* cancelled before the execution slot was taken, or go on to take one
Gate(a) ==
  /\ At(a, "gate")
  /\ IF Cancelled
     THEN attempt' = [attempt EXCEPT ![a].pc = "done", ![a].result = "cancel"]
     ELSE row # "paused" /\ To(a, "acquire")
  /\ UNCHANGED <<mode, row, main, free, others, sms, verdict>>

\* acquire, or give up after a quarter of a second
Acquire(a) ==
  /\ At(a, "acquire")
  /\ IF free > 0 THEN free' = free - 1 /\ To(a, "begin")
                 ELSE UNCHANGED free /\ To(a, "gate")
  /\ UNCHANGED <<mode, row, main, others, sms, verdict>>

Begin(a) ==
  /\ At(a, "begin")
  /\ attempt' = IF Cancelled
                THEN [attempt EXCEPT ![a].pc = "release", ![a].result = "cancel"]
                ELSE [attempt EXCEPT ![a].pc = IF HasPool THEN "slot" ELSE "work"]
  /\ UNCHANGED <<mode, row, main, free, others, sms, verdict>>

TakeSlot(a) ==
  /\ At(a, "slot") /\ slotQueue # <<>>
  /\ attempt' = [attempt EXCEPT ![a].pc = "work", ![a].slot = Head(slotQueue),
                                ![a].number = slots[Head(slotQueue)]]
  /\ slotQueue' = Tail(slotQueue)
  /\ UNCHANGED <<mode, row, main, free, others, slots, extras, exhausted, reusable, rejected,
                 verdict>>

\* an exception before the try: nobody puts the SMS slot back
Blow(a) ==
  /\ At(a, "work") /\ ~attempt[a].dead
  /\ attempt' = [attempt EXCEPT ![a].pc = "release", ![a].result = "raised"]
  /\ UNCHANGED <<mode, row, main, free, others, sms, verdict>>

\* _swap_phone: the number was refused
Swap(a) ==
  /\ At(a, "work") /\ attempt[a].number # None
  /\ rejected' = rejected \cup {attempt[a].number}
  /\ IF extras = <<>>
     THEN /\ attempt' = [attempt EXCEPT ![a].dead = TRUE, ![a].number = None]
          /\ exhausted' = TRUE
          /\ UNCHANGED extras
     ELSE /\ attempt' = [attempt EXCEPT ![a].dead = TRUE, ![a].number = Head(extras)]
          /\ extras' = Tail(extras)
          /\ UNCHANGED exhausted
  /\ UNCHANGED <<mode, row, main, free, others, slots, slotQueue, reusable, verdict>>

\* registered and paid for, or any other error; it may have bought a number
Return(a, result) ==
  /\ At(a, "work")
  /\ reusable' \in IF mode = "hero" THEN BOOLEAN ELSE {reusable}
  /\ result = "ok" /\ HasPool => attempt[a].number # None
  /\ attempt' = [attempt EXCEPT ![a].pc = "putback", ![a].result = result]
  /\ UNCHANGED <<mode, row, main, free, others, slots, slotQueue, extras, exhausted,
                 rejected, verdict>>

\* no code arrives: the number is given up, and after a swap the whole pool is
NoCode(a) ==
  /\ At(a, "work") /\ HasPool
  /\ attempt' = [attempt EXCEPT ![a].pc = "putback", ![a].result = "error", ![a].dead = TRUE]
  /\ exhausted' = (exhausted \/ attempt[a].dead)
  /\ rejected' = rejected \cup ({attempt[a].number} \ {None})
  /\ UNCHANGED <<mode, row, main, free, others, slots, slotQueue, extras, reusable, verdict>>

\* mutant: a slot is given back with the number that was refused
Reusable(a) == attempt[a].slot # None

Intact(a) == attempt[a].slot # None /\ ~attempt[a].dead

\* the finally block
PutBack(a) ==
  LET s == attempt[a].slot IN
  /\ At(a, "putback")
  /\ To(a, "release")
  /\ IF s = None THEN UNCHANGED <<slots, slotQueue, extras, exhausted>>
     ELSE IF Intact(a) THEN
       slotQueue' = Append(slotQueue, s) /\ UNCHANGED <<slots, extras, exhausted>>
     ELSE IF extras # <<>> THEN
       /\ slots' = [slots EXCEPT ![s] = Head(extras)]
       /\ extras' = Tail(extras)
       /\ slotQueue' = Append(slotQueue, s)
       /\ UNCHANGED exhausted
     ELSE exhausted' = TRUE /\ UNCHANGED <<slots, slotQueue, extras>>
  /\ UNCHANGED <<mode, row, main, free, others, reusable, rejected, verdict>>

\* mutant: an attempt that raised keeps its execution slot
ReleasedUnlessRaised(a) == IF attempt[a].result = "raised" THEN 0 ELSE 1

Released(a) == 1

Release(a) ==
  /\ At(a, "release")
  /\ free' = free + Released(a)
  /\ To(a, "done")
  /\ UNCHANGED <<mode, row, main, others, sms, verdict>>

Work(a) ==
  \/ Gate(a) \/ Acquire(a) \/ Begin(a) \/ TakeSlot(a)
  \/ Blow(a) \/ Swap(a) \/ NoCode(a)
  \/ \E result \in {"ok", "error"} : Return(a, result)
  \/ PutBack(a) \/ Release(a)

Next == Operate \/ OtherReleases \/ Lapse \/ Main \/ \E a \in Attempt : Work(a)

Spec == Init /\ [][Next]_vars

\* threads go on, and a registration returns in the end, also that of another task
FairSpec ==
  /\ Spec
  /\ WF_vars(Main) /\ WF_vars(OtherReleases)
  /\ \A a \in Attempt : WF_vars(Work(a))

--------------------------------------------------------------------------------
(* Properties.                                                               *)

Held == {a \in Attempt : attempt[a].pc \in {"begin", "slot", "work", "putback", "release"}}

Waiting == {a \in Attempt : attempt[a].pc \in {"gate", "acquire", "begin", "slot"}}

MainState ==
  [pc : {"flag", "more", "wait", "held", "summary", "raised", "succeeded", "failed",
         "cancelled", "ended"},
   submitted : 0..MailboxCapacity, futures : SUBSET Attempt, success : Nat, errors : Nat]

AttemptState ==
  [pc : {"new", "gate", "acquire", "begin", "slot", "work", "putback", "release", "done"},
   slot : SlotIds \cup {None}, number : Number \cup {None}, dead : BOOLEAN,
   result : {"none", "ok", "error", "cancel", "raised"}]

\* Every variable has its type; the attempts never outnumber the mailboxes.
TypeOK ==
  /\ mode \in Modes /\ row \in {"running", "paused", "cancel_requested"}
  /\ main \in MainState /\ attempt \in [Attempt -> AttemptState]
  /\ free \in Nat /\ others \in 0..ExecutionSlots
  /\ slots \in [SlotIds -> Number \cup {None}]
  /\ slotQueue \in Seq(SlotIds) /\ extras \in Seq(Number)
  /\ exhausted \in BOOLEAN /\ reusable \in BOOLEAN /\ rejected \subseteq Number
  /\ verdict \in {"none", "succeeded", "failed", "cancelled", "refused"}

\* tasks.py:1851: a number is used by one thread at a time, also when it was
\* swapped in by one attempt while others refilled their slots.
OneThreadPerNumber ==
  \A a, b \in Attempt :
    /\ attempt[a].pc \in {"work", "putback"} /\ attempt[b].pc \in {"work", "putback"}
    /\ attempt[a].number = attempt[b].number /\ attempt[a].number # None
    => a = b

\* A number that was refused or received no code is never offered to a later
\* attempt, neither in a slot nor as a backup.
RejectedStayOut ==
  /\ \A i \in 1..Len(slotQueue) : slots[slotQueue[i]] \notin rejected
  /\ \A i \in 1..Len(extras) : extras[i] \notin rejected

\* An attempt on its way always finds an SMS slot: sms_slot_queue.get() has no
\* timeout and would block the attempt, and with it the whole task.
SlotPromised == HasPool => Cardinality(Waiting) <= Len(slotQueue)

\* Attempts that run at the same time never register more accounts than asked.
NeverTooMany == Cardinality(With("ok", Attempt)) <= Goal

\* The execution slots are shared by all tasks of the process: they are all
\* accounted for at any time, and given back even by an attempt that raised.
ExecutionSlotsKept == free + others + Cardinality(Held) = ExecutionSlots

\* A task that is not paused for ever comes to an end, also when it waits for
\* execution slots, for SMS slots or in wait_if_paused.
UnpausedBatchEnds == <>[](row # "paused") => <>(verdict # "none")

\* tasks.py:2278: a Plus task that wants N accounts makes N; tasks.py:1856: it
\* stops early only because a thread wanted to swap and found no backup. With
\* one attempt at a time, it gives up only when every number was refused.
EarlyStopIsJustified ==
  verdict = "succeeded" /\ HasPool /\ Concurrency = 1
    /\ main.success < Count /\ main.submitted < Attempts
    => Number \subseteq rejected

================================================================================
