------------------------- MODULE PaymentAgreementProofs -------------------------
(***************************************************************************)
(* What holds of PaymentAgreement for any numbers, limits and failures.    *)
(*                                                                         *)
(* That only refused numbers are lost and that a stopped tracker's job was *)
(* stopped holds because of facts the code never checks.  Sold: what the   *)
(* context or the loop has in hand, and what HeroSMS is told of, is a      *)
(* number that was accepted.  Phase: while the loop has a number of its    *)
(* own in hand, the context holds none, so that taking it over overwrites  *)
(* nothing.  Bounds: a cancel is posted again only when the one before it  *)
(* failed, which bounds the calls.  Stale: a status that was read and is   *)
(* used later, a snapshot, a poll or the answer of a cancel, may be old,   *)
(* but an end it names is one the job cannot leave.                        *)
(***************************************************************************)
EXTENDS PaymentAgreement, TLAPS

\* What a job that was told to stop is, or becomes.
Known == Over \cup {"cancelling"}

Job == [status : Statuses, phone : Held]
Context ==
  [state : {"none", "kept", "gone"}, activation : Held, attempts : 0 .. ChangeRetries + 1,
   coded : BOOLEAN, snapshot : Statuses, stopped : BOOLEAN, terminal : BOOLEAN,
   requested : BOOLEAN, failing : BOOLEAN, cancels : 0 .. MaxFaults + 1]
Tracker ==
  [at : {"buying", "submitting", "loop", "polled", "status", "otp", "coded", "rotate",
         "bought", "phone", "giving up", "cancelling", "done"},
   with : Held, answer : Statuses, failures : 0 .. Patience - 1]

Types ==
  /\ job \in Job /\ context \in Context /\ tracker \in Tracker
  /\ number \in [Number -> Sales]
  /\ told \in [Number -> {0, 6, 8}]
  /\ cancel \in Statuses \cup {"posted"} /\ release \in BOOLEAN /\ faults \in 0 .. MaxFaults

Phase ==
  /\ tracker.at \in {"buying", "submitting"} =>
       context = NoContext /\ cancel = "none" /\ tracker.answer = "none"
  /\ tracker.at \notin {"buying", "submitting", "done"} => context.state = "kept"
  /\ tracker.at \in {"rotate", "bought"} => context.activation = None
  /\ tracker.at = "bought" => tracker.with \in Number
  /\ tracker.at = "submitting" => tracker.with \in Number
  /\ cancel # "none" => context.state # "none"
  /\ context.state # "none" => job.status # "none"

Sold ==
  /\ context.activation # None => number[context.activation] \in Accepted
  /\ tracker.at \in {"submitting", "bought"} => number[tracker.with] \in Accepted
  /\ \A n \in Number : told[n] # 0 => number[n] \in Accepted

\* The last call has not failed: it is under way, or it is never repeated.
Last == cancel # "none" \/ (context.stopped /\ ~context.failing)

Bounds ==
  /\ tracker.at = "bought" => context.attempts < 1 + ChangeRetries
  /\ context.cancels <= faults + 1
  /\ ~Last => context.cancels <= faults

Stale ==
  /\ cancel \notin {"none", "posted"} => job.status \in Known
  /\ cancel \in Over => job.status \in Over
  /\ context.snapshot \in Over => job.status \in Over
  /\ tracker.answer \in Over => job.status \in Over

HeldUntilTold ==
  \A n \in Number : number[n] \in Accepted /\ told[n] = 0 =>
    \/ context.state = "kept" /\ context.activation = n
    \/ tracker.with = n /\ tracker.at \in {"submitting", "bought"}

Inv == Types /\ Phase /\ Sold /\ Bounds /\ Stale /\ HeldUntilTold /\ StoppedMeansAsked

LEMMA TypesAgree == Types <=> TypeOK
BY DEF Types, TypeOK, Job, Context, Tracker

LEMMA LostAreRefused ==
  ASSUME Types, Sold, HeldUntilTold
  PROVE  OnlyRefusedAreLost
<1> SUFFICES ASSUME NEW n \in Number PROVE Lost(n) <=> number[n] = "refused"
  BY DEF OnlyRefusedAreLost
<1>1. CASE number[n] = "refused"
  <2>1. number[n] \notin Accepted /\ n # None
    BY <1>1, AgreementAssumption DEF Accepted
  <2> QED
    BY <1>1, <2>1 DEF Sold, Lost
<1>2. CASE number[n] # "refused"
  BY <1>2 DEF HeldUntilTold, Lost
<1> QED
  BY <1>1, <1>2

LEMMA Constants ==
  /\ None \notin Number /\ ChangeRetries \in Nat /\ MaxFaults \in Nat
  /\ CancelRetries \in Nat \ {0} /\ Patience \in Nat \ {0}
BY AgreementAssumption

LEMMA Counters ==
  ASSUME Types
  PROVE  faults \in Int /\ context.cancels \in Int
BY Constants DEF Types, Context

LEMMA Bounded ==
  ASSUME Types
  PROVE  /\ 1 \in 0 .. ChangeRetries + 1 /\ 0 \in 0 .. MaxFaults + 1
         /\ tracker.failures \in Int /\ Patience \in Int /\ 0 \in 0 .. Patience - 1
         /\ \A i \in Int : tracker.failures = i /\ i + 1 < Patience => i + 1 \in 0 .. Patience - 1
<1>1. tracker \in Tracker
  BY DEF Types
<1>2. tracker.failures \in 0 .. Patience - 1
  BY <1>1 DEF Tracker
<1> QED
  BY <1>2, Constants

--------------------------------------------------------------------------------
(* What the operators the actions are built from do.                         *)

LEMMA FaultEffect ==
  ASSUME Types, Fault
  PROVE  faults' \in 0 .. MaxFaults /\ faults' # 0 /\ faults' = faults + 1 /\ faults \in Int
BY Constants DEF Types, Fault

LEMMA ToldEffect ==
  ASSUME Types, NEW n \in Held, NEW b \in BOOLEAN
  PROVE  /\ Told(n, b) \in [Number -> {0, 6, 8}]
         /\ \A m \in Number : Told(n, b)[m] = 0 => told[m] = 0 /\ m # n
         /\ \A m \in Number : Told(n, b)[m] # 0 => told[m] # 0 \/ m = n
BY Constants DEF Types, Told, Held

LEMMA ReleaseEffect ==
  ASSUME Types, NEW c \in Context, NEW b \in BOOLEAN, Releases(c, b)
  PROVE  /\ context' = [c EXCEPT !.activation = None] /\ context' \in Context
         /\ told' \in [Number -> {0, 6, 8}]
         /\ \A m \in Number : told'[m] = 0 => told[m] = 0 /\ m # c.activation
         /\ \A m \in Number : told'[m] # 0 => told[m] # 0 \/ m = c.activation
<1>1. c.activation \in Held
  BY DEF Context
<1>2. context' = [c EXCEPT !.activation = None] /\ told' = Told(c.activation, b)
  BY DEF Releases
<1>3. context' \in Context
  BY <1>2 DEF Context, Held
<1> QED
  BY <1>1, <1>2, <1>3, ToldEffect

LEMMA GoesEffect ==
  ASSUME Types, NEW at, Goes(at),
         at \in {"buying", "submitting", "loop", "polled", "status", "otp", "coded", "rotate",
                 "bought", "phone", "giving up", "cancelling", "done"}
  PROVE  tracker' \in Tracker /\ tracker'.at = at /\ tracker'.answer = "none" /\ tracker'.with = None
BY DEF Types, Goes, Tracker, Held, Statuses

LEMMA LoopFailsEffect ==
  ASSUME Types, LoopFails
  PROVE  /\ tracker' \in Tracker /\ tracker'.at \in {"loop", "giving up"}
         /\ tracker'.answer = "none" /\ tracker'.with = None
<1>1. CASE tracker.failures + 1 < Patience
  <2>1. tracker' = [tracker EXCEPT !.at = "loop", !.with = None, !.answer = "none",
                                   !.failures = tracker.failures + 1]
    BY <1>1 DEF LoopFails
  <2>2. tracker \in Tracker
    BY DEF Types
  <2>3. tracker.failures + 1 \in 0 .. Patience - 1
    BY <1>1, Bounded
  <2> QED
    BY <2>1, <2>2, <2>3 DEF Tracker, Held, Statuses
<1>2. CASE ~(tracker.failures + 1 < Patience)
  BY <1>2, GoesEffect DEF LoopFails
<1> QED
  BY <1>1, <1>2

LEMMA StoppingEffect ==
  ASSUME Types
  PROVE  /\ Stopping(job) \in Job
         /\ job.status # "none" => Stopping(job).status \in Known
         /\ job.status \in Over => Stopping(job).status \in Over
<1>1. CASE job.status = "awaiting"
  BY <1>1 DEF Types, Job, Stopping, Known, Over, Statuses
<1>2. CASE job.status = "running"
  BY <1>2 DEF Types, Job, Stopping, Known, Over, Statuses
<1>3. CASE job.status \notin {"awaiting", "running"}
  BY <1>3 DEF Types, Job, Stopping, Known, Over, Statuses
<1> QED
  BY <1>1, <1>2, <1>3

LEMMA BuyEffect ==
  ASSUME Types, NEW n \in Number, NEW at \in {"submitting", "bought"}, Buy(n, at)
  PROVE  /\ number' \in [Number -> Sales]
         /\ \A m \in Number : m # n => number'[m] = number[m]
         /\ number[n] \notin Accepted /\ number'[n] \in Accepted
         /\ tracker' = [tracker EXCEPT !.at = at, !.with = n] /\ tracker' \in Tracker
         /\ UNCHANGED faults
BY DEF Types, Buy, Tracker, Held, Sales, Accepted

LEMMA NoNumberEffect ==
  ASSUME Types, NoNumber
  PROVE  /\ number' \in [Number -> Sales]
         /\ \A n \in Number : number'[n] = number[n] \/ {number[n], number'[n]} \cap Accepted = {}
         /\ faults' \in 0 .. MaxFaults /\ (faults' = faults \/ faults' = faults + 1)
<1>1. CASE UNCHANGED <<number, faults>>
  BY <1>1, Constants DEF Types
<1>2. CASE \E n \in Number : Refuse(n)
  BY <1>2, Constants DEF Refuse, Types, Sales, Accepted
<1>3. CASE Fault /\ \E n \in Number :
             number[n] = "free" /\ number' = [number EXCEPT ![n] = "unknown"]
  BY <1>3, FaultEffect DEF Types, Sales, Accepted
<1> QED
  BY <1>1, <1>2, <1>3 DEF NoNumber

LEMMA PostEffect ==
  ASSUME Types, Bounds, NEW c \in Context, Post(c), c.cancels = context.cancels,
         context.stopped => context.failing
  PROVE  /\ context' \in Context /\ UNCHANGED told /\ cancel' # "none"
         /\ context'.cancels <= faults + 1
         /\ \/ cancel = "none" /\ cancel' = "posted" /\ context' = [c EXCEPT !.cancels = c.cancels + 1]
            \/ cancel # "none" /\ UNCHANGED cancel /\ context' = c
<1>1. CASE cancel = "none"
  <2>1. cancel' = "posted" /\ context' = [c EXCEPT !.cancels = c.cancels + 1] /\ UNCHANGED told
    BY <1>1 DEF Post, Keeps
  <2>2. c.cancels + 1 \in 0 .. MaxFaults + 1 /\ c.cancels + 1 <= faults + 1
    BY <1>1, Constants DEF Context, Bounds, Last, Types
  <2> QED
    BY <1>1, <2>1, <2>2 DEF Context
<1>2. CASE cancel # "none"
  BY <1>2, Counters DEF Post, Keeps, Bounds
<1> QED
  BY <1>1, <1>2

--------------------------------------------------------------------------------
(* Every action keeps the invariant.                                         *)

LEMMA BuyFirstStep ==
  ASSUME Inv, BuyFirst
  PROVE  Inv'
<1>1. UNCHANGED <<job, told, context, cancel, release>> /\ tracker.at = "buying"
  BY DEF BuyFirst
<1>2. ASSUME NEW n \in Number, Buy(n, "submitting") PROVE Inv'
  <2>1. /\ number' \in [Number -> Sales]
        /\ \A m \in Number : m # n => number'[m] = number[m]
        /\ number[n] \notin Accepted /\ number'[n] \in Accepted
        /\ tracker' = [tracker EXCEPT !.at = "submitting", !.with = n] /\ tracker' \in Tracker
        /\ UNCHANGED faults
    BY <1>2, BuyEffect DEF Inv
  <2>2. Types' /\ Phase' /\ Bounds' /\ Stale'
    BY <1>1, <2>1 DEF Inv, Types, Phase, Bounds, Last, Stale, Tracker
  <2>4. tracker'.with = n
    BY <2>1 DEF Inv, Types, Tracker
  <2>5. Sold'
    BY <1>1, <2>1, <2>4, Constants DEF Inv, Sold, Phase, NoContext
  <2>3. HeldUntilTold' /\ StoppedMeansAsked'
    BY <1>1, <2>1 DEF Inv, Types, HeldUntilTold, StoppedMeansAsked, Tracker
  <2> QED
    BY <2>2, <2>3, <2>5 DEF Inv
<1>3. CASE NoNumber /\ Goes("done")
  <2>1. /\ number' \in [Number -> Sales]
        /\ \A n \in Number : number'[n] = number[n] \/ {number[n], number'[n]} \cap Accepted = {}
        /\ faults' \in 0 .. MaxFaults /\ (faults' = faults \/ faults' = faults + 1)
        /\ tracker' \in Tracker /\ tracker'.at = "done" /\ tracker'.answer = "none"
    BY <1>3, NoNumberEffect, GoesEffect DEF Inv
  <2>2. Types' /\ Phase' /\ Stale'
    BY <1>1, <2>1 DEF Inv, Types, Phase, Stale, Over, NoContext
  <2>4. Bounds'
    BY <1>1, <2>1, Counters DEF Inv, Bounds, Last
  <2>5. Sold'
    BY <1>1, <2>1, Constants DEF Inv, Sold, Phase, NoContext
  <2>3. HeldUntilTold' /\ StoppedMeansAsked'
    BY <1>1, <2>1, Counters DEF Inv, Phase, NoContext, HeldUntilTold, StoppedMeansAsked
  <2> QED
    BY <2>2, <2>3, <2>4, <2>5 DEF Inv
<1> QED
  BY <1>2, <1>3 DEF BuyFirst

LEMMA SubmitStep ==
  ASSUME Inv, Submit
  PROVE  Inv'
<1> DEFINE n == tracker.with
           j == [status |-> "running", phone |-> n]
<1>1. /\ tracker.at = "submitting" /\ UNCHANGED <<number, cancel, release>>
      /\ n \in Number /\ j \in Job /\ context = NoContext /\ cancel = "none"
  BY DEF Submit, Inv, Types, Phase, Tracker, Job, Statuses, Held
<1>2. context.state = "none"
  BY <1>1 DEF NoContext
<1>3. 1 \in 0 .. ChangeRetries + 1 /\ 0 \in 0 .. MaxFaults + 1
  BY Bounded DEF Inv
<1>4. CASE /\ job' = j /\ Goes("loop") /\ UNCHANGED <<faults, told>>
           /\ context' = [NoContext EXCEPT !.state = "kept", !.activation = n, !.attempts = 1,
                                           !.snapshot = "running"]
  <2>1. tracker' \in Tracker /\ tracker'.at = "loop" /\ tracker'.answer = "none"
    BY <1>4, GoesEffect DEF Inv
  <2>2. context' \in Context
    <3>1. context' = [state |-> "kept", activation |-> n, attempts |-> 1, coded |-> FALSE,
                      snapshot |-> "running", stopped |-> FALSE, terminal |-> FALSE,
                      requested |-> FALSE, failing |-> FALSE, cancels |-> 0]
      BY <1>4 DEF NoContext
    <3>2. n \in Held /\ "running" \in Statuses
      BY <1>1 DEF Held, Statuses
    <3> HIDE DEF n
    <3> QED
      BY <1>3, <3>1, <3>2 DEF Context
  <2>3. /\ context'.state = "kept" /\ context'.activation = n /\ context'.snapshot = "running"
        /\ ~context'.stopped /\ context'.cancels = 0
    BY <1>4 DEF NoContext
  <2>4. Types' /\ Phase'
    BY <1>1, <1>4, <2>1, <2>2, <2>3 DEF Inv, Types, Phase
  <2>5. Bounds' /\ Sold'
    BY <1>1, <1>4, <2>1, <2>3, Constants DEF Inv, Types, Bounds, Last, Sold
  <2>6. Stale'
    BY <1>1, <2>1, <2>3 DEF Stale, Over
  <2>7. HeldUntilTold'
    BY <1>1, <1>2, <1>4, <2>3 DEF Inv, HeldUntilTold
  <2>8. StoppedMeansAsked'
    BY <2>3 DEF StoppedMeansAsked
  <2> QED
    BY <2>4, <2>5, <2>6, <2>7, <2>8 DEF Inv
<1>5. CASE /\ Fault /\ job' \in {job, j} /\ Goes("done")
           /\ told' = Told(n, FALSE) /\ UNCHANGED context
  <2>1. /\ tracker' \in Tracker /\ tracker'.at = "done" /\ tracker'.answer = "none"
        /\ faults' \in 0 .. MaxFaults /\ faults' # 0 /\ job' \in Job
    BY <1>1, <1>5, FaultEffect, GoesEffect DEF Inv, Types
  <2>2. /\ told' \in [Number -> {0, 6, 8}]
        /\ \A m \in Number : told'[m] = 0 => told[m] = 0 /\ m # n
        /\ \A m \in Number : told'[m] # 0 => told[m] # 0 \/ m = n
    BY <1>1, <1>5, ToldEffect DEF Inv, Held
  <2>3. Types' /\ Phase'
    BY <1>1, <1>5, <2>1, <2>2 DEF Inv, Types, Phase, NoContext
  <2>6. Sold'
    BY <1>1, <1>5, <2>1, <2>2 DEF Inv, Sold
  <2>4. Bounds' /\ Stale'
    <3>1. context.snapshot = "none" /\ cancel' = "none"
      BY <1>1 DEF NoContext
    <3>2. faults' = faults + 1 /\ faults \in Int /\ context.cancels \in Int
      BY <1>5, FaultEffect, Counters DEF Inv
    <3>3. context' = context /\ context.cancels <= faults + 1
      BY <1>5 DEF Inv, Bounds
    <3>4. Bounds'
      BY <2>1, <3>2, <3>3 DEF Bounds
    <3>5. Stale'
      BY <1>5, <2>1, <3>1 DEF Stale, Over
    <3> QED
      BY <3>4, <3>5
  <2>5. HeldUntilTold' /\ StoppedMeansAsked'
    BY <1>1, <1>5, <2>1, <2>2 DEF Inv, HeldUntilTold, StoppedMeansAsked
  <2> QED
    BY <2>3, <2>4, <2>5, <2>6 DEF Inv
<1> QED
  BY <1>1, <1>4, <1>5 DEF Submit, Keeps

\* A context that keeps its number or tells it, and a loop that does not take
\* or drop one.
LEMMA HandsKeep ==
  ASSUME Sold, HeldUntilTold, UNCHANGED number,
         context'.activation \in {context.activation, None},
         \A n \in Number : told'[n] = 0 =>
           /\ told[n] = 0
           /\ \/ n # context.activation
              \/ context'.activation = context.activation /\ context'.state = context.state,
         \A n \in Number : told'[n] # 0 => told[n] # 0 \/ n = context.activation,
         \/ tracker' = tracker
         \/ /\ tracker.at \notin {"buying", "submitting", "bought", "done"}
            /\ tracker'.at \notin {"buying", "submitting", "bought"}
  PROVE  Sold' /\ HeldUntilTold'
<1>1. Sold'
  BY Constants DEF Sold
<1>2. HeldUntilTold'
  BY DEF HeldUntilTold
<1> QED
  BY <1>1, <1>2

\* What the other steps have in common, c being the context before it lets go
\* of its number, if it does: the job and the faults do not go back, only a
\* context that is told of as much is stopped, a number is dropped only when it
\* is told, and the calls stay within their bounds.
LEMMA StepKeepsInv ==
  ASSUME Inv, NEW c \in Context,
         UNCHANGED number,
         \/ context' = c /\ UNCHANGED told /\ c.state = context.state
         \/ \E b \in BOOLEAN : Releases(c, b),
         c.state # context.state => tracker'.at = "done",
         c.state # "none" => context.state # "none",
         c.activation = context.activation, c.attempts = context.attempts,
         \/ /\ c.cancels = context.cancels /\ c.failing = context.failing
            /\ context.stopped => c.stopped
            /\ cancel # "none" => cancel' # "none"
         \/ /\ c.cancels <= faults' + 1
            /\ cancel' # "none" \/ (c.stopped /\ ~c.failing) \/ c.cancels <= faults',
         c.stopped => context.stopped \/ job'.status \in Known \/ faults' # 0,
         c.snapshot \in Over => job'.status \in Over,
         job' \in Job,
         job.status \in Over => job'.status \in Over,
         job.status \in Known => job'.status \in Known,
         job.status # "none" => job'.status # "none",
         faults' \in 0 .. MaxFaults, faults' = faults \/ faults' = faults + 1,
         cancel' \in Statuses \cup {"posted"}, release' \in BOOLEAN,
         cancel' # "none" => c.state # "none",
         cancel' \notin {"none", "posted"} => job'.status \in Known,
         cancel' \in Over => job'.status \in Over,
         tracker' \in Tracker,
         \/ tracker' = tracker
         \/ /\ tracker.at \notin {"buying", "submitting", "bought", "done"}
            /\ tracker'.at \notin {"buying", "submitting", "bought"},
         tracker.at \notin {"buying", "submitting"},
         tracker'.at = "rotate" => context'.activation = None,
         tracker'.answer \in Over => job'.status \in Over
  PROVE  Inv'
<1>1. /\ context' \in Context /\ told' \in [Number -> {0, 6, 8}]
      /\ context' \in {c, [c EXCEPT !.activation = None]}
      /\ \A n \in Number : told'[n] = 0 =>
           /\ told[n] = 0
           /\ \/ n # c.activation
              \/ context'.activation = c.activation /\ c.state = context.state
      /\ \A n \in Number : told'[n] # 0 => told[n] # 0 \/ n = c.activation
  <2>1. CASE context' = c /\ UNCHANGED told /\ c.state = context.state
    BY <2>1 DEF Inv, Types
  <2>2. CASE \E b \in BOOLEAN : Releases(c, b)
    <3>1. PICK b \in BOOLEAN : Releases(c, b)
      BY <2>2
    <3> QED
      BY <3>1, ReleaseEffect DEF Inv
  <2> QED
    BY <2>1, <2>2
<1>2. /\ context'.state = c.state /\ context'.failing = c.failing
      /\ context'.cancels = c.cancels /\ context'.snapshot = c.snapshot
      /\ context'.stopped = c.stopped /\ context'.attempts = c.attempts
      /\ context'.activation \in {context.activation, None}
  BY <1>1 DEF Context
<1>3. Types'
  BY <1>1 DEF Inv, Types
<1>4. Phase'
  <2>1. tracker'.at \notin {"buying", "submitting"}
    OBVIOUS
  <2>2. tracker'.at # "done" => context'.state = "kept"
    BY <1>2 DEF Inv, Phase
  <2>3. tracker'.at \in {"rotate", "bought"} => context'.activation = None
    BY <1>2 DEF Inv, Phase
  <2>4. tracker'.at = "bought" => tracker'.with \in Number
    BY DEF Inv, Phase
  <2>5. /\ cancel' # "none" => context'.state # "none"
        /\ context'.state # "none" => job'.status # "none"
    BY <1>2 DEF Inv, Phase
  <2> QED
    BY <2>1, <2>2, <2>3, <2>4, <2>5 DEF Phase
<1>5. Bounds'
  <2>1. faults \in Int /\ faults' \in Int /\ context.cancels \in Int /\ c.cancels \in Int
    BY Constants DEF Inv, Types, Context
  <2>2. context'.cancels <= faults' + 1 /\ (~Last' => context'.cancels <= faults')
    BY <1>2, <2>1 DEF Inv, Bounds, Last
  <2> QED
    BY <1>2, <2>2 DEF Inv, Bounds
<1>6. Stale'
  BY <1>2 DEF Stale
<1>7. Sold' /\ HeldUntilTold'
  <2>1. \A n \in Number : told'[n] = 0 =>
          /\ told[n] = 0
          /\ \/ n # context.activation
             \/ context'.activation = context.activation /\ context'.state = context.state
    BY <1>1, <1>2
  <2>2. \A n \in Number : told'[n] # 0 => told[n] # 0 \/ n = context.activation
    BY <1>1
  <2>3. Sold /\ HeldUntilTold
    BY DEF Inv
  <2> QED
    BY <1>2, <2>1, <2>2, <2>3, HandsKeep
<1>8. StoppedMeansAsked'
  <2>1. faults' = 0 => faults = 0
    BY Constants DEF Inv, Types
  <2> QED
    BY <1>2, <2>1 DEF Inv, StoppedMeansAsked, Known
<1> QED
  BY <1>3, <1>4, <1>5, <1>6, <1>7, <1>8 DEF Inv

LEMMA BuyNextStep ==
  ASSUME Inv, BuyNext
  PROVE  Inv'
<1>1. /\ UNCHANGED <<job, told, context, cancel, release>>
      /\ tracker.at = "rotate" /\ context.attempts < 1 + ChangeRetries
      /\ context.state = "kept" /\ context.activation = None
      /\ context.attempts \in Int
  BY Constants DEF BuyNext, Exhausted, Inv, Types, Phase, Context
<1>2. ASSUME NEW n \in Number, Buy(n, "bought") PROVE Inv'
  <2>1. /\ number' \in [Number -> Sales]
        /\ \A m \in Number : m # n => number'[m] = number[m]
        /\ number[n] \notin Accepted /\ number'[n] \in Accepted
        /\ tracker' = [tracker EXCEPT !.at = "bought", !.with = n] /\ tracker' \in Tracker
        /\ UNCHANGED faults
    BY <1>2, BuyEffect DEF Inv
  <2>2. tracker'.at = "bought" /\ tracker'.with = n /\ tracker'.answer = tracker.answer
    BY <2>1 DEF Inv, Types, Tracker
  <2>3. Types' /\ Phase'
    BY <1>1, <2>1, <2>2 DEF Inv, Types, Phase
  <2>4. Bounds' /\ Stale'
    BY <1>1, <2>1, <2>2 DEF Inv, Bounds, Last, Stale
  <2>6. Sold'
    BY <1>1, <2>1, <2>2 DEF Inv, Sold
  <2>5. HeldUntilTold' /\ StoppedMeansAsked'
    BY <1>1, <2>1, <2>2 DEF Inv, HeldUntilTold, StoppedMeansAsked
  <2> QED
    BY <2>3, <2>4, <2>5, <2>6 DEF Inv
<1>3. CASE NoNumber /\ LoopFails
  <2>1. /\ number' \in [Number -> Sales]
        /\ \A n \in Number : number'[n] = number[n] \/ {number[n], number'[n]} \cap Accepted = {}
        /\ faults' \in 0 .. MaxFaults /\ (faults' = faults \/ faults' = faults + 1)
    BY <1>3, NoNumberEffect DEF Inv
  <2>2. /\ tracker' \in Tracker /\ tracker'.at \in {"loop", "giving up"}
        /\ tracker'.answer = "none"
    BY <1>3, LoopFailsEffect DEF Inv
  <2>3. Types' /\ Phase'
    BY <1>1, <2>1, <2>2 DEF Inv, Types, Phase
  <2>4. Bounds' /\ Stale'
    <3>1. faults \in Int /\ context.cancels \in Int
      BY Counters DEF Inv
    <3>2. Last' = Last /\ context' = context /\ faults' >= faults
      BY <1>1, <2>1, <3>1 DEF Last
    <3>4. context.cancels <= faults' + 1 /\ (~Last => context.cancels <= faults')
      BY <2>1, <3>1 DEF Inv, Bounds
    <3>5. Bounds'
      BY <2>2, <3>2, <3>4 DEF Bounds
    <3>3. Stale'
      BY <1>1, <2>2 DEF Inv, Stale, Over
    <3> QED
      BY <3>3, <3>5
  <2>6. Sold'
    BY <1>1, <2>1, <2>2 DEF Inv, Sold
  <2>5. HeldUntilTold' /\ StoppedMeansAsked'
    <3>1. faults' = 0 => faults = 0
      BY <2>1, Counters, Constants DEF Inv, Types
    <3> QED
      BY <1>1, <2>1, <3>1 DEF Inv, HeldUntilTold, StoppedMeansAsked
  <2> QED
    BY <2>3, <2>4, <2>5, <2>6 DEF Inv
<1> QED
  BY <1>2, <1>3 DEF BuyNext

LEMMA BoughtStep ==
  ASSUME Inv, Bought
  PROVE  Inv'
<1>1. /\ UNCHANGED <<job, number, told, cancel, release, faults>>
      /\ tracker.at = "bought" /\ tracker' = [tracker EXCEPT !.at = "phone"]
      /\ context' = [context EXCEPT !.activation = tracker.with, !.attempts = context.attempts + 1]
  BY DEF Bought, Keeps
<1>2. /\ context.state = "kept" /\ context.activation = None /\ tracker.with \in Number
      /\ context.attempts < 1 + ChangeRetries /\ context \in Context /\ tracker \in Tracker
  BY <1>1 DEF Inv, Types, Phase, Bounds
<1>3. context.attempts + 1 \in 0 .. ChangeRetries + 1
  BY <1>2, Constants DEF Context
<1>4. /\ context' \in Context /\ context'.state = "kept" /\ context'.activation = tracker.with
      /\ context'.requested = context.requested /\ context'.cancels = context.cancels
      /\ context'.snapshot = context.snapshot /\ context'.stopped = context.stopped
      /\ context'.failing = context.failing
  BY <1>1, <1>2, <1>3 DEF Context, Held
<1>5. tracker' \in Tracker /\ tracker'.at = "phone" /\ tracker'.answer = tracker.answer
  BY <1>1, <1>2 DEF Tracker
<1>6. Types' /\ Phase'
  BY <1>1, <1>2, <1>4, <1>5 DEF Inv, Types, Phase
<1>7. Bounds' /\ Stale'
  BY <1>1, <1>4, <1>5 DEF Inv, Bounds, Last, Stale
<1>10. Sold'
  BY <1>1, <1>4, <1>5 DEF Inv, Sold
<1>8. HeldUntilTold'
  BY <1>1, <1>2, <1>4, Constants DEF Inv, HeldUntilTold
<1>9. StoppedMeansAsked'
  BY <1>1, <1>4 DEF Inv, StoppedMeansAsked
<1> QED
  BY <1>6, <1>7, <1>8, <1>9, <1>10 DEF Inv

LEMMA CodeArrivesStep ==
  ASSUME Inv, NEW n \in Number, CodeArrives(n)
  PROVE  Inv'
<1>1. /\ UNCHANGED <<job, told, context, tracker, cancel, release, faults>>
      /\ number[n] = "waiting" /\ number' = [number EXCEPT ![n] = "received"]
  BY DEF CodeArrives
<1>2. Types'
  BY <1>1 DEF Inv, Types, Sales, Accepted
<1>3. Phase' /\ Bounds' /\ Stale' /\ StoppedMeansAsked'
  BY <1>1 DEF Inv, Phase, Bounds, Last, Stale, StoppedMeansAsked
<1>4. HeldUntilTold'
  BY <1>1 DEF Inv, Types, HeldUntilTold, Accepted
<1>5. Sold'
  <2>1. \A m : m \in DOMAIN number => (number[m] \in Accepted => number'[m] \in Accepted)
    BY <1>1 DEF Inv, Types, Accepted
  <2>2. tracker.at \in {"submitting", "bought"} => tracker.with \in Number
    BY DEF Inv, Phase
  <2>3. context.activation # None => context.activation \in Number
    BY DEF Inv, Types, Context, Held
  <2>4. DOMAIN number = Number
    BY DEF Inv, Types
  <2> QED
    BY <1>1, <2>1, <2>2, <2>3, <2>4 DEF Inv, Sold
<1> QED
  BY <1>2, <1>3, <1>4, <1>5 DEF Inv

\* The context of a loop that runs is in memory, and so is its job.
LEMMA Running ==
  ASSUME Inv
  PROVE  /\ job \in Job /\ context \in Context /\ tracker \in Tracker
         /\ cancel \in Statuses \cup {"posted"} /\ release \in BOOLEAN /\ faults \in 0 .. MaxFaults
         /\ tracker.at \notin {"buying", "submitting", "done"} => context.state = "kept"
         /\ tracker.at \in {"rotate", "bought"} => context.activation = None
         /\ cancel # "none" => context.state # "none"
         /\ context.state # "none" =>
              job.status # "none" /\ tracker.at \notin {"buying", "submitting"}
         /\ faults \in Int /\ context.cancels \in Int /\ context.cancels <= faults + 1
         /\ cancel \notin {"none", "posted"} => job.status \in Known
         /\ cancel \in Over => job.status \in Over
         /\ context.snapshot \in Over => job.status \in Over
         /\ tracker.answer \in Over => job.status \in Over
<1>1. tracker.at \in {"buying", "submitting"} => context.state = "none"
  BY DEF Inv, Phase, NoContext
<1> QED
  BY <1>1, Counters DEF Inv, Types, Phase, Bounds, Stale

LEMMA StoppedStep ==
  ASSUME Inv, Stopped
  PROVE  Inv'
<1>1. /\ UNCHANGED <<job, number, cancel, release, faults>>
      /\ tracker.at = "loop" /\ Goes("done")
      /\ (context' = context /\ UNCHANGED told) \/ Releases(context, FALSE)
  BY DEF Stopped, Keeps
<1>2. tracker' \in Tracker /\ tracker'.at = "done" /\ tracker'.answer = "none"
  BY <1>1, GoesEffect DEF Inv
<1> QED
  BY <1>1, <1>2, Running, StepKeepsInv DEF Over

LEMMA PollStep ==
  ASSUME Inv, Poll
  PROVE  Inv'
<1>1. /\ UNCHANGED <<job, number, told, context, cancel, release, faults>>
      /\ tracker.at = "loop" /\ tracker' = [tracker EXCEPT !.at = "polled", !.answer = job.status]
  BY DEF Poll
<1>2. tracker' \in Tracker /\ tracker'.at = "polled" /\ tracker'.answer = job.status
  BY <1>1, Running DEF Tracker, Job
<1> QED
  BY <1>1, <1>2, Running, StepKeepsInv

LEMMA CodedStep ==
  ASSUME Inv, Coded
  PROVE  Inv'
<1> DEFINE c == [context EXCEPT !.coded = TRUE]
<1>1. /\ UNCHANGED <<job, number, cancel, release, faults>>
      /\ tracker.at = "coded" /\ Goes("loop") /\ Releases(c, TRUE)
  BY DEF Coded
<1>2. tracker' \in Tracker /\ tracker'.at = "loop" /\ tracker'.answer = "none"
  BY <1>1, GoesEffect DEF Inv
<1>3. /\ c \in Context /\ c.state = context.state /\ c.activation = context.activation
      /\ c.attempts = context.attempts
      /\ c.cancels = context.cancels /\ c.failing = context.failing /\ c.snapshot = context.snapshot
      /\ c.stopped = context.stopped
  BY Running DEF Context
<1> HIDE DEF c
<1> QED
  BY <1>1, <1>2, <1>3, Running, StepKeepsInv DEF Over

LEMMA PolledStep ==
  ASSUME Inv, Polled
  PROVE  Inv'
<1> DEFINE s == tracker.answer
           c == [context EXCEPT !.snapshot = s]
           heard == [tracker EXCEPT !.answer = "none", !.failures = 0]
<1>1. UNCHANGED <<job, number, cancel, release, faults>> /\ tracker.at = "polled"
  BY DEF Polled
<1>2. s \in Statuses /\ 0 \in 0 .. Patience - 1 /\ None \in Held
  BY Running, Bounded DEF Inv, Tracker, Held
<1>3. /\ c \in Context
      /\ c.state = context.state /\ c.activation = context.activation
      /\ c.attempts = context.attempts
      /\ c.cancels = context.cancels /\ c.failing = context.failing /\ c.snapshot = s
      /\ c.stopped = context.stopped
  BY <1>2, Running DEF Context
<1>4. CASE context.stopped
  <2>1. context' = context /\ UNCHANGED told /\ tracker' = [heard EXCEPT !.at = "done"]
    BY <1>4 DEF Polled, Keeps
  <2>2. tracker' \in Tracker /\ tracker'.at = "done" /\ tracker'.answer = "none"
    BY <1>2, <2>1, Running DEF Tracker, Statuses
  <2> QED
    BY <1>1, <2>1, <2>2, Running, StepKeepsInv DEF Over
<1>5. CASE ~context.stopped /\ s \in Over
  <2> DEFINE d == [c EXCEPT !.terminal = TRUE]
  <2>1. Releases(d, s = "completed") /\ tracker' = [heard EXCEPT !.at = "done"]
    BY <1>5 DEF Polled
  <2>2. tracker' \in Tracker /\ tracker'.at = "done" /\ tracker'.answer = "none"
    BY <1>2, <2>1, Running DEF Tracker, Statuses
  <2>3. /\ d \in Context
        /\ d.state = context.state /\ d.activation = context.activation
        /\ d.attempts = context.attempts
        /\ d.cancels = context.cancels /\ d.failing = context.failing /\ d.snapshot = s
        /\ d.stopped = context.stopped
    BY <1>2, Running DEF Context
  <2>4. job.status \in Over
    BY <1>5, Running
  <2>5. \E b \in BOOLEAN : Releases(d, b)
    BY <2>1
  <2> HIDE DEF d, s
  <2> QED
    BY <1>1, <1>5, <2>2, <2>3, <2>4, <2>5, Running, StepKeepsInv DEF Over
<1>6. CASE ~context.stopped /\ s \notin Over
  <2>1. /\ context' = c /\ UNCHANGED told
        /\ \/ \E at \in {"loop", "rotate"} : tracker' = [heard EXCEPT !.at = at]
           \/ tracker' = [heard EXCEPT !.at = "status", !.with = c.activation]
        /\ tracker'.at = "rotate" => c.activation = None
    BY <1>6, Running DEF Polled, Keeps, Tracker
  <2>2. /\ tracker' \in Tracker /\ tracker'.at \in {"loop", "rotate", "status"}
        /\ tracker'.answer = "none"
    <3>1. c.activation \in Held
      BY <1>3, Running DEF Context
    <3> HIDE DEF c
    <3> QED
      BY <1>2, <2>1, <3>1, Running DEF Tracker, Statuses
  <2> HIDE DEF c, heard
  <2> QED
    BY <1>1, <1>3, <1>6, <2>1, <2>2, Running, StepKeepsInv DEF Over
<1> QED
  BY <1>4, <1>5, <1>6

LEMMA StatusStep ==
  ASSUME Inv, Status
  PROVE  Inv'
<1>1. UNCHANGED <<job, number, cancel, release, faults>> /\ tracker.at = "status"
  BY DEF Status
<1>2. CASE context' = context /\ UNCHANGED told
           /\ (tracker' = [tracker EXCEPT !.at = "otp"] \/ Goes("loop"))
  <2>1. /\ tracker' \in Tracker /\ tracker'.at \in {"otp", "loop"}
        /\ tracker'.answer \in {tracker.answer, "none"}
    <3>1. CASE Goes("loop")
      BY <3>1, GoesEffect DEF Inv
    <3>2. CASE tracker' = [tracker EXCEPT !.at = "otp"]
      BY <3>2, Running DEF Tracker
    <3> QED
      BY <1>2, <3>1, <3>2
  <2> QED
    BY <1>1, <1>2, <2>1, Running, StepKeepsInv DEF Over
<1>3. CASE Goes("rotate") /\ Releases(context, FALSE)
  <2>1. /\ tracker' \in Tracker /\ tracker'.at = "rotate" /\ tracker'.answer = "none"
    BY <1>3, GoesEffect DEF Inv
  <2>2. context'.activation = None
    BY <1>3, Running DEF Releases, Context
  <2> QED
    BY <1>1, <1>3, <2>1, <2>2, Running, StepKeepsInv DEF Over
<1> QED
  BY <1>2, <1>3 DEF Status, Keeps

LEMMA OtpStep ==
  ASSUME Inv, Otp
  PROVE  Inv'
<1>1. UNCHANGED <<number, told, context, cancel, release, faults>> /\ tracker.at = "otp"
  BY DEF Otp
<1>2. CASE /\ job.status = "awaiting" /\ job' = [job EXCEPT !.status = "running"]
           /\ tracker' = [tracker EXCEPT !.at = "coded"]
  <2>1. job' \in Job /\ job'.status = "running"
    BY <1>2, Running DEF Job, Statuses
  <2>2. tracker' \in Tracker /\ tracker'.at = "coded" /\ tracker'.answer = tracker.answer
    BY <1>2, Running DEF Tracker
  <2> QED
    BY <1>1, <1>2, <2>1, <2>2, Running, StepKeepsInv DEF Over, Known
<1>3. CASE UNCHANGED job /\ LoopFails
  <2>1. /\ tracker' \in Tracker /\ tracker'.at \in {"loop", "giving up"}
        /\ tracker'.answer = "none"
    BY <1>3, LoopFailsEffect DEF Inv
  <2> QED
    BY <1>1, <1>3, <2>1, Running, StepKeepsInv DEF Over
<1> QED
  BY <1>2, <1>3 DEF Otp

LEMMA NoMoreNumbersStep ==
  ASSUME Inv, NoMoreNumbers
  PROVE  Inv'
<1>1. /\ UNCHANGED <<number, cancel, release, told>> /\ tracker.at = "rotate"
  BY DEF NoMoreNumbers, Keeps
<1>2. job.status # "none" /\ context.state = "kept"
  BY <1>1, Running
<1>3. CASE /\ job' = Stopping(job) /\ UNCHANGED faults /\ Goes("loop")
           /\ context' = [context EXCEPT !.snapshot = job'.status, !.stopped = TRUE]
  <2> DEFINE c == [context EXCEPT !.snapshot = job'.status, !.stopped = TRUE]
  <2>1. /\ job' \in Job /\ job'.status \in Known /\ job'.status \in Statuses
        /\ job.status \in Over => job'.status \in Over
    BY <1>2, <1>3, StoppingEffect DEF Inv, Job
  <2>2. tracker' \in Tracker /\ tracker'.at = "loop" /\ tracker'.answer = "none"
    BY <1>3, GoesEffect DEF Inv
  <2>3. /\ c \in Context
        /\ c.state = context.state /\ c.activation = context.activation
        /\ c.attempts = context.attempts
        /\ c.cancels = context.cancels /\ c.failing = context.failing /\ c.stopped /\ c.snapshot = job'.status
    BY <2>1, Running DEF Context
  <2>4. context' = c
    BY <1>3
  <2> HIDE DEF c
  <2> QED
    BY <1>1, <1>2, <1>3, <2>1, <2>2, <2>3, <2>4, Running, StepKeepsInv DEF Over, Known
<1>4. CASE /\ Fault /\ UNCHANGED job /\ LoopFails
           /\ context' = [context EXCEPT !.stopped = TRUE]
  <2> DEFINE c == [context EXCEPT !.stopped = TRUE]
  <2>1. faults' \in 0 .. MaxFaults /\ faults' # 0 /\ faults' = faults + 1
    BY <1>4, FaultEffect DEF Inv
  <2>2. /\ tracker' \in Tracker /\ tracker'.at \in {"loop", "giving up"}
        /\ tracker'.answer = "none"
    BY <1>4, LoopFailsEffect DEF Inv
  <2>3. /\ c \in Context
        /\ c.state = context.state /\ c.activation = context.activation
        /\ c.attempts = context.attempts
        /\ c.cancels = context.cancels /\ c.failing = context.failing /\ c.stopped /\ c.snapshot = context.snapshot
    BY Running DEF Context
  <2>4. context' = c
    BY <1>4
  <2> HIDE DEF c
  <2> QED
    BY <1>1, <1>4, <2>1, <2>2, <2>3, <2>4, Running, StepKeepsInv DEF Over
<1> QED
  BY <1>3, <1>4 DEF NoMoreNumbers, Keeps

LEMMA PhoneStep ==
  ASSUME Inv, Phone
  PROVE  Inv'
<1>1. UNCHANGED <<number, cancel, release>> /\ tracker.at = "phone"
  BY DEF Phone
<1>2. tracker.with \in Held
  BY Running DEF Tracker
<1>3. CASE /\ job.status = "awaiting" /\ job' = [job EXCEPT !.phone = tracker.with]
           /\ context' = [context EXCEPT !.coded = FALSE] /\ UNCHANGED told
           /\ Goes("loop") /\ UNCHANGED faults
  <2> DEFINE c == [context EXCEPT !.coded = FALSE]
  <2>1. job' \in Job /\ job'.status = job.status
    BY <1>2, <1>3, Running DEF Job
  <2>2. tracker' \in Tracker /\ tracker'.at = "loop" /\ tracker'.answer = "none"
    BY <1>3, GoesEffect DEF Inv
  <2>3. /\ c \in Context
        /\ c.state = context.state /\ c.activation = context.activation
        /\ c.attempts = context.attempts
        /\ c.cancels = context.cancels /\ c.failing = context.failing /\ c.snapshot = context.snapshot
        /\ c.stopped = context.stopped
    BY Running DEF Context
  <2>4. context' = c
    BY <1>3
  <2> HIDE DEF c
  <2> QED
    BY <1>1, <1>3, <2>1, <2>2, <2>3, <2>4, Running, StepKeepsInv DEF Over
<1>4. CASE /\ job' \in {job, [job EXCEPT !.phone = IF job.status = "awaiting" THEN tracker.with ELSE @]}
           /\ UNCHANGED faults \/ Fault
           /\ Releases(context, FALSE) /\ LoopFails
  <2>1. job' \in Job /\ job'.status = job.status
    BY <1>2, <1>4, Running DEF Job
  <2>2. /\ tracker' \in Tracker /\ tracker'.at \in {"loop", "giving up"}
        /\ tracker'.answer = "none"
    BY <1>4, LoopFailsEffect DEF Inv
  <2>3. faults' \in 0 .. MaxFaults /\ (faults' = faults \/ faults' = faults + 1)
    BY <1>4, FaultEffect, Running DEF Inv
  <2> QED
    BY <1>1, <1>4, <2>1, <2>2, <2>3, Running, StepKeepsInv DEF Over
<1> QED
  BY <1>3, <1>4 DEF Phone, Keeps

LEMMA GiveUpStep ==
  ASSUME Inv, GiveUp
  PROVE  Inv'
<1> DEFINE c == [context EXCEPT !.stopped = TRUE]
<1>1. /\ UNCHANGED <<number, cancel, release>> /\ tracker.at = "giving up"
      /\ Releases(c, FALSE) /\ Goes("done")
      /\ \/ job' = Stopping(job) /\ UNCHANGED faults
         \/ Fault /\ UNCHANGED job
  BY DEF GiveUp
<1>2. job.status # "none" /\ context.state = "kept"
  BY <1>1, Running
<1>3. /\ job' \in Job /\ faults' \in 0 .. MaxFaults
      /\ job.status \in Over => job'.status \in Over
      /\ job.status \in Known => job'.status \in Known
      /\ job'.status # "none" /\ (faults' = faults \/ faults' = faults + 1)
      /\ job'.status \in Known \/ faults' # 0
  <2>1. CASE job' = Stopping(job) /\ UNCHANGED faults
    BY <1>2, <2>1, StoppingEffect, Running DEF Inv, Known, Over
  <2>2. CASE Fault /\ UNCHANGED job
    BY <1>2, <2>2, FaultEffect, Running DEF Inv
  <2> QED
    BY <1>1, <2>1, <2>2
<1>4. tracker' \in Tracker /\ tracker'.at = "done" /\ tracker'.answer = "none"
  BY <1>1, GoesEffect DEF Inv
<1>5. /\ c \in Context
      /\ c.state = context.state /\ c.activation = context.activation
      /\ c.attempts = context.attempts
      /\ c.cancels = context.cancels /\ c.failing = context.failing /\ c.stopped /\ c.snapshot = context.snapshot
  BY Running DEF Context
<1> HIDE DEF c
<1> QED
  BY <1>1, <1>2, <1>3, <1>4, <1>5, Running, StepKeepsInv DEF Over

LEMMA RequestFailsStep ==
  ASSUME Inv, RequestFails
  PROVE  Inv'
<1>1. /\ UNCHANGED <<job, number, told, context, cancel, release>>
      /\ tracker.at \in {"polled", "status", "otp", "coded"} /\ Fault /\ LoopFails
  BY DEF RequestFails
<1>2. /\ tracker' \in Tracker /\ tracker'.at \in {"loop", "giving up"}
      /\ tracker'.answer = "none" /\ faults' \in 0 .. MaxFaults /\ faults' = faults + 1
  BY <1>1, LoopFailsEffect, FaultEffect DEF Inv
<1> QED
  BY <1>1, <1>2, Running, StepKeepsInv DEF Over

LEMMA JoinCancelStep ==
  ASSUME Inv, JoinCancel
  PROVE  Inv'
<1>1. /\ UNCHANGED <<job, number, release, faults>> /\ tracker.at = "loop" /\ ~context.stopped
      /\ Post(context) /\ Goes("cancelling")
  BY DEF JoinCancel
<1>2. tracker' \in Tracker /\ tracker'.at = "cancelling" /\ tracker'.answer = "none"
  BY <1>1, GoesEffect DEF Inv
<1>3. /\ context' \in Context /\ UNCHANGED told /\ cancel' # "none"
      /\ context'.cancels <= faults + 1
      /\ \/ cancel' = "posted" /\ context' = [context EXCEPT !.cancels = context.cancels + 1]
         \/ UNCHANGED cancel /\ context' = context
  BY <1>1, PostEffect, Running DEF Inv
<1>4. /\ context'.state = context.state /\ context'.activation = context.activation
      /\ context'.attempts = context.attempts
      /\ context'.snapshot = context.snapshot /\ context'.stopped = context.stopped
  BY <1>1, <1>3, Running DEF Context
<1> QED
  BY <1>1, <1>2, <1>3, <1>4, Running, StepKeepsInv DEF Over, Statuses

LEMMA CancelJobStep ==
  ASSUME Inv, CancelJob
  PROVE  Inv'
<1> DEFINE c == [context EXCEPT !.requested = TRUE]
<1>1. /\ UNCHANGED <<job, number, tracker, release, faults>> /\ context.state = "kept"
      /\ \/ context' = c /\ UNCHANGED <<told, cancel>>
         \/ Post(c) /\ (context.stopped => context.failing)
  BY Running DEF CancelJob, Keeps, Context
<1>2. /\ c \in Context
      /\ c.state = context.state /\ c.activation = context.activation
      /\ c.attempts = context.attempts /\ c.cancels = context.cancels
      /\ c.failing = context.failing /\ c.snapshot = context.snapshot
      /\ c.stopped = context.stopped
  BY Running DEF Context
<1> HIDE DEF c
<1>3. CASE context' = c /\ UNCHANGED <<told, cancel>>
  BY <1>1, <1>2, <1>3, Running, StepKeepsInv DEF Over
<1>4. CASE Post(c) /\ (context.stopped => context.failing)
  <2>1. /\ context' \in Context /\ UNCHANGED told /\ cancel' # "none"
        /\ context'.cancels <= faults + 1
        /\ \/ cancel' = "posted" /\ context' = [c EXCEPT !.cancels = c.cancels + 1]
           \/ UNCHANGED cancel /\ context' = c
    BY <1>2, <1>4, PostEffect DEF Inv
  <2>2. /\ context'.state = context.state /\ context'.activation = context.activation
        /\ context'.attempts = context.attempts
        /\ context'.snapshot = context.snapshot /\ context'.stopped = context.stopped
    BY <1>2, <2>1 DEF Context
  <2> QED
    BY <1>1, <2>1, <2>2, Running, StepKeepsInv DEF Over, Statuses
<1> QED
  BY <1>1, <1>3, <1>4

LEMMA PostedStep ==
  ASSUME Inv, Posted
  PROVE  Inv'
<1>1. /\ UNCHANGED <<number, told, context, tracker, release, faults>>
      /\ cancel = "posted" /\ job' = Stopping(job) /\ cancel' = job'.status
  BY DEF Posted
<1>2. context.state # "none" /\ job.status # "none"
  BY <1>1, Running
<1>3. /\ job' \in Job /\ job'.status \in Known /\ job'.status \in Statuses
      /\ job.status \in Over => job'.status \in Over
  BY <1>1, <1>2, StoppingEffect DEF Inv, Job
<1> QED
  BY <1>1, <1>2, <1>3, Running, StepKeepsInv DEF Known, Over

LEMMA CancelAnsweredStep ==
  ASSUME Inv, CancelAnswered
  PROVE  Inv'
<1> DEFINE c == [context EXCEPT !.snapshot = cancel, !.failing = FALSE, !.stopped = TRUE,
                               !.terminal = context.terminal \/ cancel \in Over]
<1>1. /\ UNCHANGED <<job, number, release, faults>>
      /\ cancel \notin {"none", "posted"} /\ cancel' = "none" /\ Releases(c, FALSE)
      /\ IF tracker.at = "cancelling" THEN Goes("done") ELSE UNCHANGED tracker
  BY DEF CancelAnswered
<1>2. /\ tracker' \in Tracker
      /\ \/ tracker' = tracker /\ tracker.at # "cancelling"
         \/ tracker.at = "cancelling" /\ tracker'.at = "done" /\ tracker'.answer = "none"
  BY <1>1, GoesEffect, Running DEF Inv
<1>3. /\ c \in Context
      /\ c.state = context.state /\ c.activation = context.activation
      /\ c.attempts = context.attempts
      /\ c.cancels = context.cancels /\ c.stopped /\ ~c.failing /\ c.snapshot = cancel
  BY <1>1, Running DEF Context
<1>4. context'.activation = None
  BY <1>1, <1>3 DEF Releases, Context
<1> HIDE DEF c
<1> QED
  BY <1>1, <1>2, <1>3, <1>4, Running, StepKeepsInv DEF Over, Statuses

LEMMA CancelFailsStep ==
  ASSUME Inv, CancelFails
  PROVE  Inv'
<1>1. UNCHANGED <<job, number, release>> /\ cancel # "none" /\ Fault /\ cancel' = "none"
  BY DEF CancelFails
<1>2. faults' \in 0 .. MaxFaults /\ faults' # 0 /\ faults' = faults + 1
  BY <1>1, FaultEffect DEF Inv
<1> DEFINE c == [context EXCEPT !.failing = TRUE]
           d == [c EXCEPT !.stopped = TRUE]
<1>3. /\ c \in Context
      /\ c.state = context.state /\ c.activation = context.activation
      /\ c.attempts = context.attempts
      /\ c.cancels = context.cancels /\ c.snapshot = context.snapshot
      /\ c.stopped = context.stopped
  BY Running DEF Context
<1>4. /\ d \in Context
      /\ d.state = context.state /\ d.activation = context.activation
      /\ d.attempts = context.attempts
      /\ d.cancels = context.cancels /\ d.snapshot = context.snapshot
  BY Running DEF Context
<1>5. \/ context' = c /\ UNCHANGED told /\ UNCHANGED tracker /\ tracker.at # "cancelling"
      \/ Releases(d, FALSE) /\ Goes("done") /\ tracker.at = "cancelling"
      \/ context' = c /\ UNCHANGED told /\ Goes("loop") /\ tracker.at = "cancelling"
  BY DEF CancelFails, Keeps
<1> HIDE DEF c, d
<1>6. CASE context' = c /\ UNCHANGED told /\ UNCHANGED tracker /\ tracker.at # "cancelling"
  BY <1>1, <1>2, <1>3, <1>6, Running, StepKeepsInv DEF Over, Statuses
<1>7. CASE Releases(d, FALSE) /\ Goes("done") /\ tracker.at = "cancelling"
  <2>1. tracker' \in Tracker /\ tracker'.at = "done" /\ tracker'.answer = "none"
    BY <1>7, GoesEffect DEF Inv
  <2>2. d.cancels <= faults' + 1 /\ d.cancels <= faults'
    BY <1>2, <1>4, Running
  <2>3. \E b \in BOOLEAN : Releases(d, b)
    BY <1>7
  <2> QED
    BY <1>1, <1>2, <1>4, <1>7, <2>1, <2>2, <2>3, Running, StepKeepsInv DEF Over, Statuses
<1>8. CASE context' = c /\ UNCHANGED told /\ Goes("loop") /\ tracker.at = "cancelling"
  <2>1. tracker' \in Tracker /\ tracker'.at = "loop" /\ tracker'.answer = "none"
    BY <1>8, GoesEffect DEF Inv
  <2> QED
    BY <1>1, <1>2, <1>3, <1>8, <2>1, Running, StepKeepsInv DEF Over, Statuses
<1> QED
  BY <1>5, <1>6, <1>7, <1>8

LEMMA ProxyCancelStep ==
  ASSUME Inv, ProxyCancel
  PROVE  Inv'
<1> DEFINE c == [context EXCEPT !.stopped = TRUE]
<1>1. /\ UNCHANGED <<number, tracker, cancel, release>>
      /\ context.state = "kept" /\ Releases(c, FALSE)
      /\ \/ job' = Stopping(job) /\ UNCHANGED faults
         \/ Fault /\ UNCHANGED job
  BY DEF ProxyCancel
<1>2. job.status # "none" /\ tracker.at \notin {"buying", "submitting"}
  BY <1>1, Running
<1>3. /\ job' \in Job /\ faults' \in 0 .. MaxFaults
      /\ job.status \in Over => job'.status \in Over
      /\ job.status \in Known => job'.status \in Known
      /\ job'.status # "none" /\ (faults' = faults \/ faults' = faults + 1)
      /\ job'.status \in Known \/ faults' # 0
  <2>1. CASE job' = Stopping(job) /\ UNCHANGED faults
    BY <1>2, <2>1, StoppingEffect, Running DEF Inv, Known, Over
  <2>2. CASE Fault /\ UNCHANGED job
    BY <1>2, <2>2, FaultEffect, Running DEF Inv
  <2> QED
    BY <1>1, <2>1, <2>2
<1>4. /\ c \in Context
      /\ c.state = context.state /\ c.activation = context.activation
      /\ c.attempts = context.attempts
      /\ c.cancels = context.cancels /\ c.failing = context.failing /\ c.stopped /\ c.snapshot = context.snapshot
  BY Running DEF Context
<1>5. context'.activation = None
  BY <1>1, <1>4 DEF Releases, Context
<1> HIDE DEF c
<1> QED
  BY <1>1, <1>2, <1>3, <1>4, <1>5, Running, StepKeepsInv

LEMMA ReleaseStep ==
  ASSUME Inv, Release
  PROVE  Inv'
<1> DEFINE c == [context EXCEPT !.stopped = TRUE]
<1>1. /\ UNCHANGED <<job, number, tracker, cancel, faults>> /\ release' = TRUE
      /\ context.state = "kept" /\ (context.stopped \/ context.snapshot \in Over)
      /\ Keeps(context) \/ Keeps(c)
  BY DEF Release
<1>2. /\ c \in Context /\ c.state = context.state /\ c.activation = context.activation
      /\ c.attempts = context.attempts
      /\ c.cancels = context.cancels /\ c.failing = context.failing /\ c.stopped /\ c.snapshot = context.snapshot
  BY Running DEF Context
<1>3. context.stopped \/ job.status \in Known
  BY <1>1, Running DEF Known
<1>4. tracker.at \notin {"buying", "submitting"} /\ job.status # "none"
  BY <1>1, Running
<1> HIDE DEF c
<1>5. CASE Keeps(context)
  BY <1>1, <1>3, <1>4, <1>5, Running, StepKeepsInv DEF Keeps
<1>6. CASE Keeps(c)
  BY <1>1, <1>2, <1>3, <1>4, <1>6, Running, StepKeepsInv DEF Keeps
<1> QED
  BY <1>1, <1>5, <1>6

LEMMA GoneStep ==
  ASSUME Inv, Gone
  PROVE  Inv'
<1> DEFINE c == [context EXCEPT !.state = "gone"]
<1>1. /\ UNCHANGED <<job, number, tracker, cancel, faults>> /\ release' = FALSE
      /\ context.state = "kept" /\ tracker.at = "done"
      /\ Releases(c, context.snapshot = "completed")
  BY DEF Gone
<1>2. \E b \in BOOLEAN : Releases(c, b)
  BY <1>1
<1>3. /\ c \in Context /\ c.state = "gone" /\ c.activation = context.activation
      /\ c.attempts = context.attempts
      /\ c.cancels = context.cancels /\ c.failing = context.failing /\ c.snapshot = context.snapshot
      /\ c.stopped = context.stopped
  BY Running DEF Context
<1> HIDE DEF c
<1> QED
  BY <1>1, <1>2, <1>3, Running, StepKeepsInv

LEMMA JobMovesStep ==
  ASSUME Inv, JobMoves
  PROVE  Inv'
<1>1. /\ UNCHANGED <<number, told, context, tracker, cancel, release, faults>>
      /\ job.status \in {"running", "awaiting", "cancelling"}
      /\ job' \in Job /\ job'.status \in Over \cup {"awaiting"}
      /\ job.status = "cancelling" => job'.status \in Over
  BY Running DEF JobMoves, Job, Over, Statuses
<1>2. /\ job.status \notin Over /\ job'.status # "none"
      /\ job.status \in Known => job'.status \in Over
  BY <1>1 DEF Known, Over
<1>3. Types' /\ Phase'
  BY <1>1, <1>2 DEF Inv, Types, Phase
<1>4. Bounds' /\ Sold' /\ HeldUntilTold'
  BY <1>1 DEF Inv, Bounds, Last, Sold, HeldUntilTold
<1>5. Stale'
  BY <1>1, <1>2 DEF Inv, Stale, Known
<1>6. StoppedMeansAsked'
  BY <1>1, <1>2 DEF Inv, StoppedMeansAsked, Known
<1> QED
  BY <1>3, <1>4, <1>5, <1>6 DEF Inv

--------------------------------------------------------------------------------
LEMMA InvInitially ==
  ASSUME Init
  PROVE  Inv
<1>1. 0 \in 0 .. ChangeRetries + 1 /\ 0 \in 0 .. MaxFaults + 1 /\ 0 \in 0 .. Patience - 1
      /\ 0 \in 0 .. MaxFaults
  BY Constants
<1>2. job \in Job /\ tracker \in Tracker
  BY <1>1 DEF Init, Job, Tracker, Statuses, Held
<1>3. context \in Context
  BY <1>1 DEF Init, NoContext, Context, Statuses, Held
<1>4. Types
  BY <1>1, <1>2, <1>3 DEF Init, Types, Statuses, Sales
<1>5. Phase /\ Bounds /\ Stale
  <2>1. tracker.at = "buying" /\ context = NoContext /\ cancel = "none" /\ tracker.answer = "none"
    BY DEF Init
  <2>2. /\ context.state = "none" /\ context.cancels = 0 /\ faults = 0
        /\ context.snapshot = "none" /\ context.attempts = 0
    BY <2>1 DEF Init, NoContext
  <2> QED
    BY <1>1, <2>1, <2>2 DEF Phase, Bounds, Stale, Over
<1>6. Sold /\ HeldUntilTold /\ StoppedMeansAsked
  BY DEF Init, Sold, Accepted, HeldUntilTold, StoppedMeansAsked, NoContext
<1> QED
  BY <1>4, <1>5, <1>6 DEF Inv

LEMMA InvInductive ==
  ASSUME Inv, [Next]_vars
  PROVE  Inv'
<1>1. CASE UNCHANGED vars
  BY <1>1 DEF vars, Inv, Types, Phase, Sold, Bounds, Last, Stale, HeldUntilTold, StoppedMeansAsked
<1>2. CASE Tracks
  BY <1>2, BuyFirstStep, SubmitStep, StoppedStep, JoinCancelStep, PollStep, PolledStep, StatusStep,
     OtpStep, CodedStep, NoMoreNumbersStep, BuyNextStep, BoughtStep, PhoneStep, GiveUpStep DEF Tracks
<1>3. CASE RequestFails \/ CancelJob \/ Posted \/ CancelAnswered \/ CancelFails
  BY <1>3, RequestFailsStep, CancelJobStep, PostedStep, CancelAnsweredStep, CancelFailsStep
<1>4. CASE ProxyCancel \/ Release \/ Gone \/ JobMoves \/ \E n \in Number : CodeArrives(n)
  BY <1>4, ProxyCancelStep, ReleaseStep, GoneStep, JobMovesStep, CodeArrivesStep
<1> QED
  BY <1>1, <1>2, <1>3, <1>4 DEF Next

LEMMA InvAlways == Spec => []Inv
BY InvInitially, InvInductive, PTL DEF Spec

\* Every variable of an agreement job keeps its type, however calls, users and
\* loop interleave: the numbers tried stay within their limit, and a cancel is
\* posted once more than calls failed at most.  cancelRetryLimit does not bound it.
THEOREM AgreementTypeCorrect == Spec => []TypeOK
BY InvAlways, TypesAgree, PTL DEF Inv

\* For any numbers, retries and failures: of the numbers whose ids the service
\* learned, those that acquireHeroNumber refused, and only those, are neither
\* held by anybody nor told back.
THEOREM OnlyRefusedNumbersAreLost == Spec => []OnlyRefusedAreLost
<1>1. Inv => OnlyRefusedAreLost
  BY LostAreRefused DEF Inv
<1> QED
  BY <1>1, InvAlways, PTL

\* A tracker is stopped only when its job is over or was told to stop, as long
\* as no request fails.
THEOREM StoppedJobsWereAsked == Spec => []StoppedMeansAsked
BY InvAlways, PTL DEF Inv
================================================================================
