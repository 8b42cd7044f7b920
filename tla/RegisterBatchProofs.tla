-------------------------- MODULE RegisterBatchProofs --------------------------
(***************************************************************************)
(* Proofs about RegisterBatch, for any number of attempts, slots and       *)
(* numbers.                                                                *)
(***************************************************************************)
EXTENDS RegisterBatch, FiniteSetTheorems, SequenceTheorems, TLAPS

--------------------------------------------------------------------------------
(* Sequences.                                                                *)

\* What is left of a sequence without its head, element by element.
LEMMA TailElements ==
  ASSUME NEW S, NEW q \in Seq(S), q # <<>>
  PROVE  /\ Len(q) \in Nat \ {0} /\ Head(q) = q[1] /\ Head(q) \in S
         /\ Tail(q) \in Seq(S) /\ Len(Tail(q)) = Len(q) - 1
         /\ \A i \in 1..Len(Tail(q)) : i + 1 \in 1..Len(q) /\ Tail(q)[i] = q[i + 1]
OBVIOUS

\* A longer sequence, element by element.
LEMMA AppendElements ==
  ASSUME NEW S, NEW q \in Seq(S), NEW e \in S
  PROVE  /\ Append(q, e) \in Seq(S) /\ Len(q) \in Nat /\ Len(Append(q, e)) = Len(q) + 1
         /\ Append(q, e)[Len(q) + 1] = e
         /\ \A i \in 1..Len(q) : Append(q, e)[i] = q[i]
OBVIOUS

--------------------------------------------------------------------------------
(* Types.                                                                    *)

LEMMA AttemptsBound == mode \in Modes => Attempts \in Nat /\ Attempts <= MailboxCapacity
<1>1. /\ Count \in Nat /\ MailboxCapacity \in Nat /\ MailboxCapacity >= Count
      /\ 5 * Count \in Nat /\ Goal \in Nat /\ 3 * Goal \in Nat
  BY BatchAssumption DEF Goal
<1> QED
  BY <1>1, BatchAssumption DEF Attempts, Smaller

\* Any set of attempts is finite.
LEMMA FiniteAttempts ==
  ASSUME NEW S \in SUBSET Attempt
  PROVE  IsFiniteSet(S) /\ Cardinality(S) \in Nat
<1>1. MailboxCapacity \in Int /\ 1 \in Int
  BY BatchAssumption
<1>2. IsFiniteSet(Attempt)
  BY <1>1, FS_Interval DEF Attempt
<1> QED
  BY <1>2, FS_Subset, FS_CardinalityType

\* While more may be submitted there is a mailbox for the next attempt.
LEMMA NextAttempt ==
  ASSUME TypeOK, More
  PROVE  main.submitted + 1 \in Attempt /\ main.submitted \in Nat
<1>1. main.submitted < Attempts
  BY DEF More
<1>2. mode \in Modes /\ main.submitted \in 0..MailboxCapacity /\ MailboxCapacity \in Nat
  BY BatchAssumption DEF TypeOK, MainState
<1>3. Attempts \in Nat /\ Attempts <= MailboxCapacity
  BY <1>2, AttemptsBound
<1>4. main.submitted \in Nat /\ main.submitted + 1 \in 1..MailboxCapacity
  BY <1>1, <1>2, <1>3
<1> QED
  BY <1>4 DEF Attempt

LEMMA TypeInit == Init => TypeOK
<1> SUFFICES ASSUME Init PROVE TypeOK
  OBVIOUS
<1>1. Concurrency \in Nat /\ Concurrency >= 1 /\ Len(Pool) \in Nat
  BY BatchAssumption, EmptySeq, LenProperties
<1>2. \A i \in 1..Len(Pool) : Pool[i] \in Number
  BY DEF Number
<1>3. HasPool => \A s \in SlotIds : Pool[s] \in Number
  BY <1>1, <1>2, BatchAssumption DEF HasPool, SlotIds
<1>4. HasPool => Backups \in Seq(Number)
  BY <1>1, <1>2, SubSeqProperties DEF Backups
<1>5. [s \in SlotIds |-> s] \in Seq(SlotIds) /\ <<>> \in Seq(SlotIds) /\ <<>> \in Seq(Number)
  BY <1>1, SeqDef DEF SlotIds
<1>6. slots \in [SlotIds -> Number \cup {None}] /\ slotQueue \in Seq(SlotIds)
      /\ extras \in Seq(Number)
  BY <1>3, <1>4, <1>5 DEF Init
<1>7. free \in Nat /\ others \in 0..ExecutionSlots
  BY BatchAssumption DEF Init
<1>8. main \in MainState /\ attempt \in [Attempt -> AttemptState]
  BY BatchAssumption DEF Init, MainState, AttemptState, NewAttempt
<1> QED
  BY <1>6, <1>7, <1>8 DEF Init, TypeOK

\* An attempt whose program counter moves keeps a well-formed record.
LEMMA PcType ==
  ASSUME NEW r \in AttemptState,
         NEW pc \in {"new", "gate", "acquire", "begin", "slot", "work", "putback",
                     "release", "done"}
  PROVE  [r EXCEPT !.pc = pc] \in AttemptState
BY DEF AttemptState

\* The steps of the task's thread keep the types.
LEMMA TypeMain == TypeOK /\ Main => TypeOK'
<1> SUFFICES ASSUME TypeOK, Main PROVE TypeOK'
  OBVIOUS
<1> USE DEF TypeOK, MainState
<1>1. CASE ReadPause
  BY <1>1 DEF ReadPause, sms
<1>2. CASE Submit
  <2>1. CASE More /\ Cardinality(main.futures) < Concurrency
    <3>1. main.submitted + 1 \in Attempt
      BY <2>1, NextAttempt
    <3>2. attempt' \in [Attempt -> AttemptState]
      <4>1. [attempt[main.submitted + 1] EXCEPT !.pc = "gate"] \in AttemptState
        BY <3>1, PcType
      <4> QED
        BY <1>2, <2>1, <4>1 DEF Submit
    <3>3. main' \in MainState
      <4>1. /\ main.submitted + 1 \in 0..MailboxCapacity
            /\ main.futures \cup {main.submitted + 1} \in SUBSET Attempt
        BY <3>1 DEF Attempt
      <4>2. [main EXCEPT !.pc = "flag", !.submitted = main.submitted + 1,
                         !.futures = @ \cup {main.submitted + 1}] \in MainState
        BY <4>1
      <4> QED
        BY <1>2, <2>1, <4>2 DEF Submit
    <3> QED
      BY <1>2, <3>2, <3>3 DEF Submit, sms
  <2>2. CASE ~(More /\ Cardinality(main.futures) < Concurrency)
    BY <1>2, <2>2 DEF Submit, sms
  <2> QED
    BY <2>1, <2>2
<1>3. CASE Collect
  <2>1. Cardinality(With("ok", Done)) \in Nat /\ Cardinality(With("error", Done)) \in Nat
    BY FiniteAttempts DEF Done, With
  <2>2. main.success + Cardinality(With("ok", Done)) \in Nat
        /\ main.errors + Cardinality(With("error", Done)) \in Nat
        /\ main.futures \ Done \in SUBSET Attempt
    BY <2>1
  <2>3. [main EXCEPT !.pc = "raised"] \in MainState
    OBVIOUS
  <2>4. [main EXCEPT !.pc = "flag", !.futures = @ \ Done,
                     !.success = @ + Cardinality(With("ok", Done)),
                     !.errors = @ + Cardinality(With("error", Done))] \in MainState
    BY <2>2
  <2>5. main' \in MainState
    BY <1>3, <2>3, <2>4 DEF Collect
  <2> QED
    BY <1>3, <2>5 DEF Collect, sms
<1>4. CASE Idle
  BY <1>4 DEF Idle, sms
<1>5. CASE Hold
  BY <1>5 DEF Hold, sms
<1>6. CASE Summary
  BY <1>6 DEF Summary, Conclude, Tally, sms
<1>7. CASE Raise
  BY <1>7 DEF Raise, Finished, sms
<1>8. CASE Finish
  BY <1>8 DEF Finish, Finished, sms
<1> QED
  BY <1>1, <1>2, <1>3, <1>4, <1>5, <1>6, <1>7, <1>8 DEF Main

\* The steps of an attempt keep the types.
LEMMA TypeWork == ASSUME NEW a \in Attempt, TypeOK, Work(a) PROVE TypeOK'
<1> USE DEF TypeOK
<1>1. CASE Gate(a)
  <2>1. /\ [attempt[a] EXCEPT !.pc = "done", !.result = "cancel"] \in AttemptState
        /\ [attempt[a] EXCEPT !.pc = "acquire"] \in AttemptState
    BY DEF AttemptState
  <2>2. attempt' \in [Attempt -> AttemptState]
    BY <1>1, <2>1 DEF Gate, To
  <2> QED
    BY <1>1, <2>2 DEF Gate, sms
<1>2. CASE Acquire(a)
  <2>1. /\ [attempt[a] EXCEPT !.pc = "begin"] \in AttemptState
        /\ [attempt[a] EXCEPT !.pc = "gate"] \in AttemptState
    BY DEF AttemptState
  <2>2. attempt' \in [Attempt -> AttemptState]
    BY <1>2, <2>1 DEF Acquire, To
  <2>3. free' \in Nat
    BY <1>2 DEF Acquire
  <2> QED
    BY <1>2, <2>2, <2>3 DEF Acquire, sms
<1>3. CASE Begin(a)
  <2>1. /\ [attempt[a] EXCEPT !.pc = "release", !.result = "cancel"] \in AttemptState
        /\ [attempt[a] EXCEPT !.pc = IF HasPool THEN "slot" ELSE "work"] \in AttemptState
    BY DEF AttemptState
  <2>2. attempt' \in [Attempt -> AttemptState]
    BY <1>3, <2>1 DEF Begin
  <2> QED
    BY <1>3, <2>2 DEF Begin, sms
<1>4. CASE TakeSlot(a)
  <2>1. Head(slotQueue) \in SlotIds /\ slotQueue' \in Seq(SlotIds)
    BY <1>4, TailElements DEF TakeSlot
  <2>2. slots[Head(slotQueue)] \in Number \cup {None}
    BY <2>1
  <2>3. attempt' \in [Attempt -> AttemptState]
    <3>1. [attempt[a] EXCEPT !.pc = "work", !.slot = Head(slotQueue),
                             !.number = slots[Head(slotQueue)]] \in AttemptState
      BY <2>1, <2>2 DEF AttemptState
    <3> QED
      BY <1>4, <3>1 DEF TakeSlot
  <2> QED
    BY <1>4, <2>1, <2>3 DEF TakeSlot
<1>5. CASE Blow(a)
  <2>1. [attempt[a] EXCEPT !.pc = "release", !.result = "raised"] \in AttemptState
    BY DEF AttemptState
  <2>2. attempt' \in [Attempt -> AttemptState]
    BY <1>5, <2>1 DEF Blow
  <2> QED
    BY <1>5, <2>2 DEF Blow, sms
<1>6. CASE Swap(a)
  <2>1. rejected' \subseteq Number
    BY <1>6 DEF Swap, AttemptState
  <2>2. extras # <<>> => Head(extras) \in Number /\ Tail(extras) \in Seq(Number)
    BY TailElements
  <2>3. attempt' \in [Attempt -> AttemptState]
    <3>1. /\ [attempt[a] EXCEPT !.dead = TRUE, !.number = None] \in AttemptState
          /\ extras # <<>> => [attempt[a] EXCEPT !.dead = TRUE, !.number = Head(extras)]
                                \in AttemptState
      BY <2>2 DEF AttemptState
    <3> QED
      BY <1>6, <3>1 DEF Swap
  <2> QED
    BY <1>6, <2>1, <2>2, <2>3 DEF Swap
<1>7. CASE NoCode(a)
  <2>1. /\ [attempt[a] EXCEPT !.pc = "putback", !.result = "error", !.dead = TRUE]
              \in AttemptState
        /\ attempt[a].number \in Number \cup {None} /\ attempt[a].dead \in BOOLEAN
    BY DEF AttemptState
  <2>2. attempt' \in [Attempt -> AttemptState]
    BY <1>7, <2>1 DEF NoCode
  <2>3. exhausted' \in BOOLEAN /\ rejected' \subseteq Number
    BY <1>7, <2>1 DEF NoCode
  <2> QED
    BY <1>7, <2>2, <2>3 DEF NoCode
<1>8. ASSUME NEW result \in {"ok", "error"}, Return(a, result) PROVE TypeOK'
  <2>1. [attempt[a] EXCEPT !.pc = "putback", !.result = result] \in AttemptState
    BY DEF AttemptState
  <2>2. attempt' \in [Attempt -> AttemptState]
    BY <1>8, <2>1 DEF Return
  <2>3. reusable' \in BOOLEAN
    BY <1>8 DEF Return
  <2> QED
    BY <1>8, <2>2, <2>3 DEF Return
<1>9. CASE PutBack(a)
  <2>1. extras # <<>> => Head(extras) \in Number /\ Tail(extras) \in Seq(Number)
    BY TailElements
  <2>2. attempt[a].slot # None => attempt[a].slot \in SlotIds
                                  /\ Append(slotQueue, attempt[a].slot) \in Seq(SlotIds)
    BY AppendElements DEF AttemptState
  <2>3. attempt' \in [Attempt -> AttemptState]
    <3>1. [attempt[a] EXCEPT !.pc = "release"] \in AttemptState
      BY PcType
    <3> QED
      BY <1>9, <3>1 DEF PutBack, To
  <2>4. slots' \in [SlotIds -> Number \cup {None}]
    BY <1>9, <2>1, <2>2 DEF PutBack
  <2>5. slotQueue' \in Seq(SlotIds) /\ extras' \in Seq(Number) /\ exhausted' \in BOOLEAN
    BY <1>9, <2>1, <2>2 DEF PutBack
  <2> QED
    BY <1>9, <2>3, <2>4, <2>5 DEF PutBack
<1>10. CASE Release(a)
  <2>1. attempt' \in [Attempt -> AttemptState]
    <3>1. [attempt[a] EXCEPT !.pc = "done"] \in AttemptState
      BY PcType
    <3> QED
      BY <1>10, <3>1 DEF Release, To
  <2> QED
    BY <1>10, <2>1 DEF Release, Released, sms
<1> QED
  BY <1>1, <1>2, <1>3, <1>4, <1>5, <1>6, <1>7, <1>8, <1>9, <1>10 DEF Work

LEMMA TypeNext == TypeOK /\ [Next]_vars => TypeOK'
<1> SUFFICES ASSUME TypeOK, [Next]_vars PROVE TypeOK'
  OBVIOUS
<1>1. CASE Operate
  BY <1>1 DEF Operate, TypeOK, sms
<1>2. CASE OtherReleases
  BY <1>2, BatchAssumption DEF OtherReleases, TypeOK, sms
<1>3. CASE Lapse
  BY <1>3 DEF Lapse, TypeOK
<1>4. CASE UNCHANGED vars
  BY <1>4 DEF vars, TypeOK
<1> QED
  BY <1>1, <1>2, <1>3, <1>4, TypeMain, TypeWork DEF Next

\* Every variable has its type; no attempt is submitted beyond the mailboxes.
THEOREM TypeCorrect == Spec => []TypeOK
<1> QED
  BY TypeInit, TypeNext, PTL DEF Spec

--------------------------------------------------------------------------------
(* What the program counters say about the other fields.                     *)

AtWork(a) == attempt[a].pc \in {"work", "putback"}

\* An attempt that was not submitted is untouched. Only an attempt past its
\* work has a result, and with a pool of numbers nobody works without a slot.
Shape ==
  \A a \in Attempt :
    /\ a > main.submitted => attempt[a].pc = "new"
    /\ attempt[a].pc \in {"new", "gate", "acquire", "begin", "slot", "work"}
         => attempt[a].result = "none"
    /\ attempt[a].pc \in {"new", "gate", "acquire", "begin", "slot"}
         => attempt[a].slot = None /\ attempt[a].number = None
    /\ attempt[a].pc = "putback" => attempt[a].result \in {"ok", "error"}
    /\ AtWork(a) /\ HasPool => attempt[a].slot # None

LEMMA ShapeInit == Init => Shape
  BY DEF Init, Shape, NewAttempt, AtWork

\* A submission concerns the next attempt, which is new.
LEMMA SubmitNext ==
  ASSUME TypeOK, Shape, Submit, attempt' # attempt
  PROVE  /\ main.submitted + 1 \in Attempt /\ attempt[main.submitted + 1].pc = "new"
         /\ attempt' = [attempt EXCEPT ![main.submitted + 1].pc = "gate"]
         /\ main'.submitted = main.submitted + 1
         /\ main'.futures = main.futures \cup {main.submitted + 1}
         /\ More /\ Cardinality(main.futures) < Concurrency
<1>1. More /\ Cardinality(main.futures) < Concurrency
  BY DEF Submit
<1>2. main.submitted + 1 \in Attempt /\ main.submitted \in Nat
  BY <1>1, NextAttempt
<1>3. main'.submitted = main.submitted + 1
      /\ main'.futures = main.futures \cup {main.submitted + 1}
  BY <1>1 DEF TypeOK, MainState, Submit
<1> QED
  BY <1>1, <1>2, <1>3 DEF Submit, Shape

LEMMA ShapeMain == TypeOK /\ Shape /\ Main => Shape'
<1> SUFFICES ASSUME TypeOK, Shape, Main PROVE Shape'
  OBVIOUS
<1>1. CASE Submit /\ attempt' # attempt
  <2>1. mode' = mode /\ main.submitted \in Int /\ attempt \in [Attempt -> AttemptState]
    BY <1>1 DEF Submit, TypeOK, MainState
  <2>2. \A a \in Attempt : a \in Int /\ attempt[a] \in AttemptState
    BY <2>1 DEF Attempt
  <2> QED
    BY <1>1, <2>1, <2>2, SubmitNext DEF Shape, AttemptState, AtWork, HasPool
<1>2. CASE Submit /\ attempt' = attempt
  <2>1. mode' = mode /\ main'.submitted = main.submitted
    <3>1. CASE More /\ Cardinality(main.futures) < Concurrency
      <4>1. main.submitted + 1 \in Attempt /\ main.submitted + 1 > main.submitted
        BY <3>1, NextAttempt
      <4>2. attempt' = [attempt EXCEPT ![main.submitted + 1].pc = "gate"]
        BY <1>2, <3>1 DEF Submit
      <4> QED
        BY <1>2, <4>1, <4>2 DEF Shape, TypeOK, AttemptState
    <3>2. CASE ~(More /\ Cardinality(main.futures) < Concurrency)
      BY <1>2, <3>2 DEF Submit, TypeOK, MainState
    <3> QED
      BY <3>1, <3>2
  <2> QED
    BY <1>2, <2>1 DEF Shape, AtWork, HasPool
<1>3. CASE ReadPause \/ Collect \/ Idle \/ Hold \/ Summary \/ Raise \/ Finish
  <2>1. /\ UNCHANGED <<attempt, mode>>
        /\ main'.submitted = main.submitted
    BY <1>3 DEF ReadPause, Collect, Idle, Hold, Summary, Conclude, Raise, Finish, TypeOK, MainState
  <2> QED
    BY <2>1 DEF Shape, AtWork, HasPool
<1> QED
  BY <1>1, <1>2, <1>3 DEF Main

\* One attempt changes its record: its new one is enough to look at.
LEMMA ShapeOfOne ==
  ASSUME Shape, NEW a \in Attempt, attempt \in [Attempt -> AttemptState],
         NEW r, attempt' = [attempt EXCEPT ![a] = r], UNCHANGED <<main, mode>>,
         attempt[a].pc # "new",
         /\ r.pc \in {"new", "gate", "acquire", "begin", "slot", "work"} => r.result = "none"
         /\ r.pc \in {"new", "gate", "acquire", "begin", "slot"}
              => r.slot = None /\ r.number = None
         /\ r.pc = "putback" => r.result \in {"ok", "error"}
         /\ r.pc \in {"work", "putback"} /\ HasPool => r.slot # None
  PROVE  Shape'
<1>1. attempt'[a] = r /\ \A b \in Attempt \ {a} : attempt'[b] = attempt[b]
  OBVIOUS
<1> QED
  BY <1>1 DEF Shape, AtWork, HasPool

LEMMA ShapeWork == ASSUME NEW a \in Attempt, TypeOK, Shape, Work(a) PROVE Shape'
<1>0. /\ attempt \in [Attempt -> AttemptState] /\ attempt[a] \in AttemptState
  BY DEF TypeOK
<1>1. CASE Gate(a)
  BY <1>0, <1>1, ShapeOfOne DEF Gate, At, To, AttemptState, Shape
<1>2. CASE Acquire(a)
  BY <1>0, <1>2, ShapeOfOne DEF Acquire, At, To, AttemptState, Shape
<1>3. CASE Begin(a)
  <2>1. /\ attempt[a].pc = "begin" /\ UNCHANGED <<main, mode>>
        /\ attempt[a].slot = None /\ attempt[a].number = None /\ attempt[a].result = "none"
    BY <1>3 DEF Begin, At, Shape
  <2>2. CASE Cancelled
    BY <1>0, <1>3, <2>1, <2>2, ShapeOfOne DEF Begin, AttemptState
  <2>3. CASE ~Cancelled /\ HasPool
    BY <1>0, <1>3, <2>1, <2>3, ShapeOfOne DEF Begin, AttemptState
  <2>4. CASE ~Cancelled /\ ~HasPool
    BY <1>0, <1>3, <2>1, <2>4, ShapeOfOne DEF Begin, AttemptState
  <2> QED
    BY <2>2, <2>3, <2>4
<1>4. CASE TakeSlot(a)
  <2>1. Head(slotQueue) # None
    BY <1>4, TailElements, BatchAssumption DEF TakeSlot, TypeOK
  <2> QED
    BY <1>0, <1>4, <2>1, ShapeOfOne DEF TakeSlot, At, AttemptState, Shape
<1>5. CASE Blow(a)
  BY <1>0, <1>5, ShapeOfOne DEF Blow, At, AttemptState, Shape
<1>6. CASE Swap(a)
  BY <1>0, <1>6, ShapeOfOne DEF Swap, At, AttemptState, Shape, AtWork
<1>7. CASE NoCode(a)
  <2>1. /\ attempt' = [attempt EXCEPT ![a] = [attempt[a] EXCEPT !.pc = "putback",
                                            !.result = "error", !.dead = TRUE]]
        /\ UNCHANGED <<main, mode>> /\ attempt[a].pc = "work"
    BY <1>7 DEF NoCode, At
  <2>2. HasPool => attempt[a].slot # None
    BY <2>1 DEF Shape, AtWork
  <2> QED
    BY <1>0, <2>1, <2>2, ShapeOfOne DEF AttemptState
<1>8. ASSUME NEW result \in {"ok", "error"}, Return(a, result) PROVE Shape'
  <2>1. /\ attempt' = [attempt EXCEPT ![a] = [attempt[a] EXCEPT !.pc = "putback",
                                                                !.result = result]]
        /\ UNCHANGED <<main, mode>> /\ attempt[a].pc = "work"
    BY <1>8 DEF Return, At
  <2>2. HasPool => attempt[a].slot # None
    BY <2>1 DEF Shape, AtWork
  <2> QED
    BY <1>0, <2>1, <2>2, ShapeOfOne DEF AttemptState
<1>9. CASE PutBack(a)
  BY <1>0, <1>9, ShapeOfOne DEF PutBack, At, To, AttemptState, Shape
<1>10. CASE Release(a)
  BY <1>0, <1>10, ShapeOfOne DEF Release, At, To, AttemptState, Shape
<1> QED
  BY <1>1, <1>2, <1>3, <1>4, <1>5, <1>6, <1>7, <1>8, <1>9, <1>10 DEF Work

LEMMA ShapeNext == TypeOK /\ Shape /\ [Next]_vars => Shape'
<1> SUFFICES ASSUME TypeOK, Shape, [Next]_vars PROVE Shape'
  OBVIOUS
<1>1. CASE Operate \/ OtherReleases \/ Lapse \/ UNCHANGED vars
  BY <1>1 DEF Operate, OtherReleases, Lapse, vars, Shape, AtWork, HasPool
<1> QED
  BY <1>1, ShapeMain, ShapeWork DEF Next

LEMMA ShapeCorrect == Spec => []Shape
  BY TypeCorrect, ShapeInit, ShapeNext, PTL DEF Spec

--------------------------------------------------------------------------------
(* Execution slots.                                                          *)

\* A step that moves no attempt into or out of the holders keeps the sum.
LEMMA HeldKept ==
  ASSUME ExecutionSlotsKept, UNCHANGED <<free, others>>,
         \A a \in Attempt : (attempt'[a].pc \in {"begin", "slot", "work", "putback", "release"})
                            <=> (attempt[a].pc \in {"begin", "slot", "work", "putback", "release"})
  PROVE  ExecutionSlotsKept'
<1>1. Held' = Held
  BY DEF Held
<1> QED
  BY <1>1 DEF ExecutionSlotsKept

LEMMA HeldMain == TypeOK /\ Shape /\ ExecutionSlotsKept /\ Main => ExecutionSlotsKept'
<1> SUFFICES ASSUME TypeOK, Shape, ExecutionSlotsKept, Main PROVE ExecutionSlotsKept'
  OBVIOUS
<1>1. CASE Submit
  <2>1. CASE attempt' = attempt
    BY <1>1, <2>1, HeldKept DEF Submit
  <2>2. CASE attempt' # attempt
    BY <1>1, <2>2, SubmitNext, HeldKept DEF Submit, TypeOK, AttemptState
  <2> QED
    BY <2>1, <2>2
<1>2. CASE ReadPause \/ Collect \/ Idle \/ Hold \/ Summary \/ Raise \/ Finish
  <2>1. UNCHANGED <<attempt, free, others>>
    BY <1>2 DEF ReadPause, Collect, Idle, Hold, Summary, Conclude, Raise, Finish
  <2> QED
    BY <2>1, HeldKept
<1> QED
  BY <1>1, <1>2 DEF Main

LEMMA HeldWork ==
  ASSUME NEW a \in Attempt, TypeOK, ExecutionSlotsKept, Work(a)
  PROVE  ExecutionSlotsKept'
<1>0. /\ attempt \in [Attempt -> AttemptState] /\ attempt[a] \in AttemptState
      /\ free \in Nat /\ others \in Nat
      /\ IsFiniteSet(Held) /\ Cardinality(Held) \in Nat
  BY FiniteAttempts, BatchAssumption DEF TypeOK, Held
<1>1. CASE Acquire(a)
  <2>1. CASE free > 0
    <3>1. attempt' = [attempt EXCEPT ![a].pc = "begin"] /\ attempt[a].pc = "acquire"
          /\ free' = free - 1 /\ others' = others
      BY <1>1, <2>1 DEF Acquire, At, To
    <3>2. Held' = Held \cup {a} /\ a \notin Held
      BY <1>0, <3>1 DEF Held, AttemptState
    <3>3. Cardinality(Held') = Cardinality(Held) + 1
      BY <1>0, <3>2, FS_AddElement
    <3> QED
      BY <1>0, <3>1, <3>3 DEF ExecutionSlotsKept
  <2>2. CASE ~(free > 0)
    BY <1>0, <1>1, <2>2, HeldKept DEF Acquire, At, To, AttemptState
  <2> QED
    BY <2>1, <2>2
<1>2. CASE Release(a)
  <2>1. attempt' = [attempt EXCEPT ![a].pc = "done"] /\ attempt[a].pc = "release"
        /\ free' = free + 1 /\ others' = others
    BY <1>2 DEF Release, Released, At, To
  <2>2. Held' = Held \ {a} /\ a \in Held
    BY <1>0, <2>1 DEF Held, AttemptState
  <2>3. Cardinality(Held') = Cardinality(Held) - 1
    BY <1>0, <2>2, FS_RemoveElement
  <2> QED
    BY <1>0, <2>1, <2>3 DEF ExecutionSlotsKept
<1>3. CASE Gate(a)
  BY <1>0, <1>3, HeldKept DEF Gate, At, To, AttemptState
<1>4. CASE Begin(a)
  BY <1>0, <1>4, HeldKept DEF Begin, At, AttemptState
<1>5. CASE TakeSlot(a)
  BY <1>0, <1>5, HeldKept DEF TakeSlot, At, AttemptState
<1>6. CASE Blow(a)
  BY <1>0, <1>6, HeldKept DEF Blow, At, AttemptState
<1>7. CASE Swap(a)
  BY <1>0, <1>7, HeldKept DEF Swap, At, AttemptState
<1>8. CASE NoCode(a)
  BY <1>0, <1>8, HeldKept DEF NoCode, At, AttemptState
<1>9. CASE \E result \in {"ok", "error"} : Return(a, result)
  BY <1>0, <1>9, HeldKept DEF Return, At, AttemptState
<1>10. CASE PutBack(a)
  BY <1>0, <1>10, HeldKept DEF PutBack, At, To, AttemptState
<1> QED
  BY <1>1, <1>2, <1>3, <1>4, <1>5, <1>6, <1>7, <1>8, <1>9, <1>10 DEF Work

\* The execution slots of the process are all accounted for at any time: what
\* an attempt took it gives back, also when it raised or was cancelled.
THEOREM ExecutionSlotsConserved == Spec => []ExecutionSlotsKept
<1>1. Init => ExecutionSlotsKept
  <2> SUFFICES ASSUME Init PROVE ExecutionSlotsKept
    OBVIOUS
  <2>1. Held = {}
    BY DEF Init, Held, NewAttempt
  <2> QED
    BY <2>1, FS_EmptySet, BatchAssumption DEF Init, ExecutionSlotsKept
<1>2. TypeOK /\ Shape /\ ExecutionSlotsKept /\ [Next]_vars => ExecutionSlotsKept'
  <2> SUFFICES ASSUME TypeOK, Shape, ExecutionSlotsKept, [Next]_vars PROVE ExecutionSlotsKept'
    OBVIOUS
  <2>1. CASE Operate \/ Lapse \/ UNCHANGED vars
    BY <2>1, HeldKept DEF Operate, Lapse, vars
  <2>2. CASE OtherReleases
    <3>1. Held' = Held /\ Cardinality(Held) \in Nat
      BY <2>2, FiniteAttempts DEF OtherReleases, Held
    <3> QED
      BY <2>2, <3>1, BatchAssumption DEF OtherReleases, ExecutionSlotsKept, TypeOK
  <2> QED
    BY <2>1, <2>2, HeldMain, HeldWork DEF Next
<1> QED
  BY <1>1, <1>2, TypeCorrect, ShapeCorrect, PTL DEF Spec

--------------------------------------------------------------------------------
(* Phone numbers: each one is in a queued slot, among the backups or with    *)
(* one attempt.                                                              *)

QueueApart ==
  /\ \A i \in 1..Len(slotQueue) : slots[slotQueue[i]] # None
  /\ \A i, j \in 1..Len(slotQueue) : slots[slotQueue[i]] = slots[slotQueue[j]] => i = j

ExtrasApart ==
  /\ \A i, j \in 1..Len(extras) : extras[i] = extras[j] => i = j
  /\ \A i \in 1..Len(extras), j \in 1..Len(slotQueue) : extras[i] # slots[slotQueue[j]]

WorkApart ==
  \A a \in Attempt : AtWork(a) =>
    /\ \A i \in 1..Len(slotQueue) : attempt[a].slot # slotQueue[i]
                                    /\ attempt[a].number # slots[slotQueue[i]]
    /\ \A i \in 1..Len(extras) : attempt[a].number # extras[i]

SlotsApart ==
  \A a, b \in Attempt : AtWork(a) /\ AtWork(b) /\ attempt[a].slot = attempt[b].slot
                        /\ attempt[a].slot # None => a = b

\* An attempt whose number was not refused still has the number of its slot.
SlotNumber ==
  \A a \in Attempt : AtWork(a) /\ ~attempt[a].dead /\ attempt[a].slot # None =>
    /\ attempt[a].number = slots[attempt[a].slot] /\ attempt[a].number # None
    /\ attempt[a].number \notin rejected

NumberInv ==
  /\ QueueApart /\ ExtrasApart /\ WorkApart /\ SlotsApart /\ SlotNumber
  /\ OneThreadPerNumber /\ RejectedStayOut

\* The types of what the queues hold and of what an attempt works with.
LEMMA ElementTypes ==
  ASSUME TypeOK
  PROVE  /\ Len(slotQueue) \in Nat /\ Len(extras) \in Nat
         /\ \A i \in 1..Len(slotQueue) : slotQueue[i] \in SlotIds
         /\ \A i \in 1..Len(extras) : extras[i] \in Number
         /\ None \notin Number /\ None \notin SlotIds
         /\ \A a \in Attempt : attempt[a] \in AttemptState
         /\ slots \in [SlotIds -> Number \cup {None}]
BY BatchAssumption, ElementOfSeq, LenProperties DEF TypeOK

LEMMA NumberInit == Init => NumberInv
<1> SUFFICES ASSUME Init PROVE NumberInv
  OBVIOUS
<1>1. \A a \in Attempt : ~AtWork(a)
  BY DEF Init, NewAttempt, AtWork
<1>2. CASE ~HasPool
  <2>1. Len(slotQueue) = 0 /\ Len(extras) = 0
    BY <1>2 DEF Init
  <2> QED
    BY <1>1, <2>1 DEF NumberInv, QueueApart, ExtrasApart, WorkApart, SlotsApart, SlotNumber,
       OneThreadPerNumber, RejectedStayOut, AtWork
<1>3. CASE HasPool
  <2>1. /\ Concurrency \in Nat /\ Len(Pool) \in Nat /\ Concurrency <= Len(Pool)
        /\ Pool \in Seq(Number) /\ None \notin Number
        /\ \A i, j \in 1..Len(Pool) : Pool[i] = Pool[j] => i = j
    BY <1>3, BatchAssumption, LenProperties DEF HasPool
  <2>2. /\ slots = [s \in SlotIds |-> Pool[s]] /\ rejected = {}
        /\ slotQueue = [s \in SlotIds |-> s]
        /\ extras = SubSeq(Pool, Concurrency + 1, Len(Pool))
    BY <1>3 DEF Init, Backups
  <2>3. Len(slotQueue) = Concurrency /\ \A i \in 1..Concurrency : slotQueue[i] = i
                                                                /\ slots[slotQueue[i]] = Pool[i]
    BY <2>1, <2>2 DEF SlotIds
  <2>4. Len(extras) = Len(Pool) - Concurrency
        /\ \A i \in 1..Len(extras) : extras[i] = Pool[Concurrency + i]
    BY <2>1, <2>2, SubSeqProperties
  <2>5. \A i \in 1..Len(Pool) : Pool[i] # None
    BY <2>1 DEF Number
  <2>6. QueueApart
    BY <2>1, <2>3, <2>5 DEF QueueApart
  <2>7. ExtrasApart
    <3>1. \A i \in 1..Len(extras) : Concurrency + i \in 1..Len(Pool)
      BY <2>1, <2>4
    <3>2. \A i, j \in 1..Len(extras) : Concurrency + i = Concurrency + j => i = j
      BY <2>1, <2>4
    <3>3. \A i \in 1..Len(extras), j \in 1..Len(slotQueue) :
            j \in 1..Len(Pool) /\ Concurrency + i # j
      BY <2>1, <2>3, <2>4
    <3>4. \A i, j \in 1..Len(extras) : extras[i] = extras[j] => i = j
      BY <2>1, <2>4, <3>1, <3>2
    <3>5. \A i \in 1..Len(extras), j \in 1..Len(slotQueue) : extras[i] # slots[slotQueue[j]]
      BY <2>1, <2>3, <2>4, <3>1, <3>3
    <3> QED
      BY <3>4, <3>5 DEF ExtrasApart
  <2> QED
    BY <1>1, <2>2, <2>6, <2>7 DEF NumberInv, WorkApart, SlotsApart, SlotNumber,
       OneThreadPerNumber, RejectedStayOut, AtWork
<1> QED
  BY <1>2, <1>3

\* A step that keeps the queues and brings nobody to work with a slot.
LEMMA NumberFrame ==
  ASSUME TypeOK, NumberInv, UNCHANGED <<slots, slotQueue, extras, rejected>>,
         \A a \in Attempt :
           /\ attempt'[a].slot = attempt[a].slot /\ attempt'[a].number = attempt[a].number
           /\ attempt'[a].dead = attempt[a].dead
           /\ attempt'[a].pc \in {"work", "putback"} =>
                AtWork(a) \/ (attempt[a].slot = None /\ attempt[a].number = None)
  PROVE  NumberInv'
<1> USE ElementTypes
<1>1. QueueApart' /\ ExtrasApart' /\ RejectedStayOut'
  BY DEF NumberInv, QueueApart, ExtrasApart, RejectedStayOut
<1>2. WorkApart'
  BY DEF NumberInv, WorkApart, AtWork, QueueApart
<1>3. SlotsApart'
  BY DEF NumberInv, SlotsApart, AtWork
<1>4. SlotNumber'
  BY DEF NumberInv, SlotNumber, AtWork
<1>5. OneThreadPerNumber'
  BY DEF NumberInv, OneThreadPerNumber, AtWork
<1> QED
  BY <1>1, <1>2, <1>3, <1>4, <1>5 DEF NumberInv

LEMMA NumberMain == TypeOK /\ Shape /\ NumberInv /\ Main => NumberInv'
<1> SUFFICES ASSUME TypeOK, Shape, NumberInv, Main PROVE NumberInv'
  OBVIOUS
<1>1. CASE Submit /\ attempt' # attempt
  <2>1. UNCHANGED <<slots, slotQueue, extras, rejected>>
    BY <1>1 DEF Submit, sms
  <2>2. PICK a \in Attempt : attempt[a].pc = "new" /\ attempt' = [attempt EXCEPT ![a].pc = "gate"]
    BY <1>1, SubmitNext
  <2>3. \A b \in Attempt :
          /\ attempt'[b].slot = attempt[b].slot /\ attempt'[b].number = attempt[b].number
          /\ attempt'[b].dead = attempt[b].dead
          /\ attempt'[b].pc \in {"work", "putback"} => AtWork(b)
    BY <2>2 DEF TypeOK, AttemptState, AtWork
  <2> QED
    BY <2>1, <2>3, NumberFrame
<1>2. CASE Submit /\ attempt' = attempt
  BY <1>2, NumberFrame DEF Submit, sms, AtWork
<1>3. CASE ReadPause \/ Collect \/ Idle \/ Hold \/ Summary \/ Raise \/ Finish
  <2>1. UNCHANGED <<attempt, sms>>
    BY <1>3 DEF ReadPause, Collect, Idle, Hold, Summary, Conclude, Raise, Finish
  <2> QED
    BY <2>1, NumberFrame DEF sms, AtWork
<1> QED
  BY <1>1, <1>2, <1>3 DEF Main

\* The first queued slot goes to the attempt, and its number with it.
LEMMA NumberTakeSlot ==
  ASSUME NEW a \in Attempt, TypeOK, NumberInv, TakeSlot(a) PROVE NumberInv'
<1>1. /\ slots' = slots /\ extras' = extras /\ rejected' = rejected
      /\ Len(slotQueue) \in Nat \ {0} /\ slotQueue[1] \in SlotIds
      /\ Len(slotQueue') = Len(slotQueue) - 1
      /\ \A i \in 1..Len(slotQueue') : i + 1 \in 1..Len(slotQueue)
                                       /\ slotQueue'[i] = slotQueue[i + 1]
  BY TailElements DEF TypeOK, TakeSlot
<1>2. /\ attempt'[a].slot = slotQueue[1] /\ attempt'[a].number = slots[slotQueue[1]]
      /\ \A b \in Attempt \ {a} : attempt'[b] = attempt[b]
  BY TailElements DEF TypeOK, TakeSlot, AttemptState
<1>3. slots[slotQueue[1]] # None /\ slots[slotQueue[1]] \notin rejected
  BY <1>1 DEF NumberInv, QueueApart, RejectedStayOut
<1>4. QueueApart' /\ ExtrasApart' /\ RejectedStayOut'
  <2>1. QueueApart'
    <3>1. \A i, j \in 1..Len(slotQueue') : i + 1 = j + 1 => i = j
      BY <1>1
    <3> QED
      BY <1>1, <3>1, SMTT(30) DEF NumberInv, QueueApart
  <2>2. ExtrasApart'
    BY <1>1 DEF NumberInv, ExtrasApart
  <2>3. RejectedStayOut'
    BY <1>1 DEF NumberInv, RejectedStayOut
  <2> QED
    BY <2>1, <2>2, <2>3
<1>5. WorkApart'
  <2>1. \A i \in 1..Len(slotQueue') : slotQueue[1] # slotQueue'[i]
                                     /\ slots[slotQueue[1]] # slots[slotQueue'[i]]
    BY <1>1 DEF NumberInv, QueueApart
  <2>2. \A i \in 1..Len(extras) : slots[slotQueue[1]] # extras[i]
    BY <1>1 DEF NumberInv, ExtrasApart
  <2> QED
    BY <1>1, <1>2, <2>1, <2>2 DEF NumberInv, WorkApart, AtWork
<1>6. SlotsApart' /\ OneThreadPerNumber'
  <2>1. \A b \in Attempt : AtWork(b) => attempt[b].slot # slotQueue[1]
                                       /\ attempt[b].number # slots[slotQueue[1]]
    BY <1>1 DEF NumberInv, WorkApart
  <2> QED
    BY <1>2, <2>1 DEF NumberInv, SlotsApart, OneThreadPerNumber, AtWork
<1>7. SlotNumber'
  BY <1>1, <1>2, <1>3 DEF NumberInv, SlotNumber, AtWork
<1> QED
  BY <1>4, <1>5, <1>6, <1>7 DEF NumberInv

\* The refused number is in nobody else's hands; the new one was a backup.
LEMMA NumberSwap ==
  ASSUME NEW a \in Attempt, TypeOK, NumberInv, Swap(a) PROVE NumberInv'
<1>1. /\ slots' = slots /\ slotQueue' = slotQueue /\ AtWork(a)
      /\ rejected' = rejected \cup {attempt[a].number} /\ attempt[a].number # None
      /\ attempt'[a].dead = TRUE /\ attempt'[a].slot = attempt[a].slot
      /\ \A b \in Attempt \ {a} : attempt'[b] = attempt[b]
  BY DEF Swap, At, AtWork, TypeOK, AttemptState
<1>2. /\ \A i \in 1..Len(slotQueue) : attempt[a].number # slots[slotQueue[i]]
      /\ \A i \in 1..Len(extras) : attempt[a].number # extras[i]
      /\ \A b \in Attempt : AtWork(b) /\ attempt[b].number = attempt[a].number => a = b
  BY <1>1 DEF NumberInv, WorkApart, OneThreadPerNumber, AtWork
<1>3. SlotsApart' /\ SlotNumber'
  BY <1>1, <1>2 DEF NumberInv, SlotsApart, SlotNumber, AtWork
<1>4. QueueApart'
  BY <1>1 DEF NumberInv, QueueApart
<1>5. CASE extras = <<>>
  <2>1. attempt'[a].number = None /\ extras' = extras /\ Len(extras) = 0
    BY <1>5 DEF Swap, TypeOK, AttemptState
  <2>2. ExtrasApart' /\ RejectedStayOut'
    BY <1>1, <1>2, <2>1, SMTT(30) DEF NumberInv, ExtrasApart, RejectedStayOut
  <2>3. WorkApart'
    BY <1>1, <2>1 DEF NumberInv, WorkApart, AtWork, QueueApart
  <2>4. OneThreadPerNumber'
    BY <1>1, <2>1 DEF NumberInv, OneThreadPerNumber, AtWork
  <2> QED
    BY <1>3, <1>4, <2>2, <2>3, <2>4 DEF NumberInv
<1>6. CASE extras # <<>>
  <2>1. /\ attempt'[a].number = extras[1] /\ 1 \in 1..Len(extras)
        /\ Len(extras) \in Nat /\ Len(extras') = Len(extras) - 1
        /\ \A i \in 1..Len(extras') : i + 1 \in 1..Len(extras) /\ extras'[i] = extras[i + 1]
                                      /\ 1 # i + 1
    <3>1. extras' = Tail(extras) /\ attempt'[a].number = Head(extras)
      BY <1>6 DEF Swap, TypeOK, AttemptState
    <3> QED
      BY <1>6, <3>1, TailElements DEF TypeOK
  <2>2. ExtrasApart' /\ RejectedStayOut'
    BY <1>1, <1>2, <2>1, SMTT(30) DEF NumberInv, ExtrasApart, RejectedStayOut
  <2>3. WorkApart'
    BY <1>1, <2>1 DEF NumberInv, WorkApart, AtWork, ExtrasApart
  <2>4. OneThreadPerNumber'
    BY <1>1, <2>1 DEF NumberInv, WorkApart, OneThreadPerNumber, AtWork
  <2> QED
    BY <1>3, <1>4, <2>2, <2>3, <2>4 DEF NumberInv
<1> QED
  BY <1>5, <1>6

LEMMA NumberNoCode ==
  ASSUME NEW a \in Attempt, TypeOK, NumberInv, NoCode(a) PROVE NumberInv'
<1>1. /\ slots' = slots /\ slotQueue' = slotQueue /\ extras' = extras /\ AtWork(a)
      /\ rejected' = rejected \cup ({attempt[a].number} \ {None})
      /\ attempt'[a].dead = TRUE /\ attempt'[a].slot = attempt[a].slot
      /\ attempt'[a].number = attempt[a].number
      /\ \A b \in Attempt \ {a} : attempt'[b] = attempt[b]
  BY DEF NoCode, At, AtWork, TypeOK, AttemptState
<1>2. /\ \A i \in 1..Len(slotQueue) : attempt[a].number # slots[slotQueue[i]]
      /\ \A i \in 1..Len(extras) : attempt[a].number # extras[i]
      /\ \A b \in Attempt : AtWork(b) /\ attempt[b].number = attempt[a].number
                            /\ attempt[a].number # None => a = b
  BY <1>1 DEF NumberInv, WorkApart, OneThreadPerNumber, AtWork
<1>3. QueueApart' /\ ExtrasApart' /\ RejectedStayOut'
  BY <1>1, <1>2 DEF NumberInv, QueueApart, ExtrasApart, RejectedStayOut
<1>4. SlotsApart' /\ SlotNumber'
  BY <1>1, <1>2 DEF NumberInv, SlotsApart, SlotNumber, AtWork
<1>5. WorkApart' /\ OneThreadPerNumber'
  BY <1>1 DEF NumberInv, WorkApart, OneThreadPerNumber, AtWork
<1> QED
  BY <1>3, <1>4, <1>5 DEF NumberInv

\* What an attempt gives back is nowhere else: its own number, or a backup.
LEMMA NumberAppend ==
  ASSUME NEW a \in Attempt, TypeOK, NumberInv, AtWork(a), attempt[a].slot # None,
         slotQueue' = Append(slotQueue, attempt[a].slot), rejected' = rejected,
         ~ (attempt'[a].pc \in {"work", "putback"}),
         \A b \in Attempt \ {a} : attempt'[b] = attempt[b],
         slots' \in [SlotIds -> Number \cup {None}], extras' \in Seq(Number),
         \A s \in SlotIds \ {attempt[a].slot} : slots'[s] = slots[s],
         NEW n \in Number, slots'[attempt[a].slot] = n, n \notin rejected,
         \A i \in 1..Len(slotQueue) : n # slots[slotQueue[i]],
         \A i \in 1..Len(extras') : n # extras'[i],
         \A b \in Attempt \ {a} : AtWork(b) => attempt[b].number # n,
         \A i \in 1..Len(extras') : \E j \in 1..Len(extras) : extras'[i] = extras[j],
         \A i, j \in 1..Len(extras') : extras'[i] = extras'[j] => i = j
  PROVE  NumberInv'
<1> DEFINE s == attempt[a].slot
           l == Len(slotQueue)
<1>1. /\ s \in SlotIds /\ l \in Nat /\ Len(slotQueue') = l + 1
      /\ slotQueue'[l + 1] = s
      /\ \A i \in 1..l : slotQueue'[i] = slotQueue[i] /\ slotQueue[i] \in SlotIds
                        /\ slotQueue[i] # s
      /\ \A i \in 1..(l + 1) : i \in 1..l \/ i = l + 1
  <2>1. s \in SlotIds /\ slotQueue \in Seq(SlotIds)
    BY ElementTypes DEF TypeOK, AttemptState
  <2>2. \A i \in 1..l : slotQueue[i] # s
    BY DEF NumberInv, WorkApart
  <2> QED
    BY <2>1, <2>2, AppendElements, ElementTypes
<1>2. /\ slots'[slotQueue'[l + 1]] = n
      /\ \A i \in 1..l : slots'[slotQueue'[i]] = slots[slotQueue[i]]
  BY <1>1
<1>3. None \notin Number
  BY ElementTypes
<1> HIDE DEF s, l
<1>4. QueueApart'
  <2>1. \A i \in 1..l : /\ slots[slotQueue[i]] # None /\ slots[slotQueue[i]] # n
                       /\ \A j \in 1..l : slots[slotQueue[i]] = slots[slotQueue[j]] => i = j
    BY DEF NumberInv, QueueApart, l
  <2>2. \A i \in 1..(l + 1) : slots'[slotQueue'[i]] # None
    BY <1>1, <1>2, <1>3, <2>1
  <2>3. \A i, j \in 1..(l + 1) : slots'[slotQueue'[i]] = slots'[slotQueue'[j]] => i = j
    <3>1. TAKE i, j \in 1..(l + 1)
    <3>2. CASE i \in 1..l /\ j \in 1..l
      BY <3>2, <1>2, <2>1
    <3>3. CASE i = l + 1 /\ j \in 1..l
      BY <3>3, <1>2, <2>1
    <3>4. CASE i \in 1..l /\ j = l + 1
      BY <3>4, <1>2, <2>1
    <3>5. CASE i = l + 1 /\ j = l + 1
      BY <3>5
    <3> QED
      BY <1>1, <3>2, <3>3, <3>4, <3>5
  <2> QED
    BY <1>1, <2>2, <2>3 DEF QueueApart
<1>5. ExtrasApart'
  BY <1>1, <1>2 DEF NumberInv, ExtrasApart, l
<1>6. RejectedStayOut'
  <2>1. \A i \in 1..l : slots[slotQueue[i]] \notin rejected
    BY DEF NumberInv, RejectedStayOut, l
  <2>2. \A i \in 1..(l + 1) : slots'[slotQueue'[i]] \notin rejected
    BY <1>1, <1>2, <2>1
  <2>3. \A i \in 1..Len(extras') : extras'[i] \notin rejected
    BY DEF NumberInv, RejectedStayOut
  <2> QED
    BY <1>1, <2>2, <2>3 DEF RejectedStayOut
<1>7. WorkApart'
  <2>1. SUFFICES ASSUME NEW b \in Attempt, attempt'[b].pc \in {"work", "putback"}
                 PROVE  /\ \A i \in 1..(l + 1) : attempt[b].slot # slotQueue'[i]
                                           /\ attempt[b].number # slots'[slotQueue'[i]]
                        /\ \A i \in 1..Len(extras') : attempt[b].number # extras'[i]
    BY <1>1, SMTT(30) DEF WorkApart, AtWork
  <2>2. b # a /\ AtWork(b)
    BY <2>1 DEF AtWork
  <2>3. attempt[b].slot # s
    BY <2>2 DEF NumberInv, SlotsApart, s
  <2>4. \A i \in 1..Len(slotQueue) : attempt[b].slot # slotQueue[i]
                                    /\ attempt[b].number # slots[slotQueue[i]]
    BY <2>2 DEF NumberInv, WorkApart
  <2>5. \A i \in 1..Len(extras) : attempt[b].number # extras[i]
    BY <2>2 DEF NumberInv, WorkApart
  <2> QED
    BY <1>1, <1>2, <2>2, <2>3, <2>4, <2>5 DEF l
<1>8. SlotsApart' /\ OneThreadPerNumber'
  BY SMTT(30) DEF NumberInv, SlotsApart, OneThreadPerNumber, AtWork
<1>9. SlotNumber'
  <2>1. SUFFICES ASSUME NEW b \in Attempt, attempt'[b].pc \in {"work", "putback"},
                        ~attempt[b].dead, attempt[b].slot # None
                 PROVE  /\ attempt[b].number = slots'[attempt[b].slot]
                        /\ attempt[b].number # None /\ attempt[b].number \notin rejected
    BY DEF SlotNumber, AtWork
  <2>2. b # a /\ AtWork(b)
    BY <2>1 DEF AtWork
  <2>3. attempt[b].slot # s /\ attempt[b].slot \in SlotIds
    BY <2>1, <2>2, ElementTypes DEF NumberInv, SlotsApart, s, AttemptState
  <2> QED
    BY <2>1, <2>2, <2>3 DEF NumberInv, SlotNumber, s
<1> QED
  BY <1>4, <1>5, <1>6, <1>7, <1>8, <1>9 DEF NumberInv

LEMMA NumberPutBack ==
  ASSUME NEW a \in Attempt, TypeOK, TypeOK', NumberInv, PutBack(a) PROVE NumberInv'
<1>1. /\ AtWork(a) /\ attempt'[a].pc = "release" /\ rejected' = rejected
      /\ attempt' = [attempt EXCEPT ![a].pc = "release"]
      /\ \A b \in Attempt \ {a} : attempt'[b] = attempt[b]
  BY DEF PutBack, At, To, AtWork, TypeOK, AttemptState
<1>2. CASE UNCHANGED <<slots, slotQueue, extras>>
  <2>1. \A b \in Attempt :
          /\ attempt'[b].slot = attempt[b].slot /\ attempt'[b].number = attempt[b].number
          /\ attempt'[b].dead = attempt[b].dead
          /\ attempt'[b].pc \in {"work", "putback"} => AtWork(b)
    BY <1>1 DEF TypeOK, AttemptState, AtWork
  <2> QED
    BY <1>1, <1>2, <2>1, NumberFrame
<1>3. CASE attempt[a].slot # None /\ Intact(a)
  <2> DEFINE n == attempt[a].number
  <2>1. slotQueue' = Append(slotQueue, attempt[a].slot) /\ slots' = slots /\ extras' = extras
    BY <1>3 DEF PutBack
  <2>2. /\ slots[attempt[a].slot] = n /\ n # None /\ n \notin rejected
        /\ n \in Number
    BY <1>1, <1>3, ElementTypes DEF Intact, NumberInv, SlotNumber, AttemptState
  <2>3. /\ \A i \in 1..Len(slotQueue) : n # slots[slotQueue[i]]
        /\ \A i \in 1..Len(extras') : n # extras'[i]
        /\ \A b \in Attempt \ {a} : AtWork(b) => attempt[b].number # n
    BY <1>1, <2>1, <2>2 DEF NumberInv, WorkApart, OneThreadPerNumber, AtWork
  <2>4. \A i, j \in 1..Len(extras') : extras'[i] = extras'[j] => i = j
    BY <2>1 DEF NumberInv, ExtrasApart
  <2>5. slots' \in [SlotIds -> Number \cup {None}] /\ extras' \in Seq(Number)
    BY DEF TypeOK
  <2>6. \A i \in 1..Len(extras') : \E j \in 1..Len(extras) : extras'[i] = extras[j]
    BY <2>1
  <2> HIDE DEF n
  <2> QED
    BY <1>1, <1>3, <2>1, <2>2, <2>3, <2>4, <2>5, <2>6, NumberAppend, SMTT(30)
<1>4. CASE attempt[a].slot # None /\ ~Intact(a) /\ extras # <<>>
  <2> DEFINE n == extras[1]
  <2>1. /\ slotQueue' = Append(slotQueue, attempt[a].slot)
        /\ slots' = [slots EXCEPT ![attempt[a].slot] = Head(extras)]
        /\ extras' = Tail(extras)
    BY <1>4 DEF PutBack
  <2>2. /\ Head(extras) = n /\ n \in Number /\ 1 \in 1..Len(extras) /\ Len(extras) \in Nat
        /\ Len(extras') = Len(extras) - 1
        /\ \A i \in 1..Len(extras') : i + 1 \in 1..Len(extras) /\ extras'[i] = extras[i + 1]
                                      /\ i + 1 # 1
    BY <1>4, <2>1, TailElements DEF TypeOK
  <2>3. n \notin rejected /\ attempt[a].slot \in SlotIds
    BY <1>4, <2>2, ElementTypes DEF NumberInv, RejectedStayOut, AttemptState
  <2>4. /\ \A i \in 1..Len(slotQueue) : n # slots[slotQueue[i]]
        /\ \A i \in 1..Len(extras') : n # extras'[i]
        /\ \A b \in Attempt \ {a} : AtWork(b) => attempt[b].number # n
    BY <2>2 DEF NumberInv, ExtrasApart, WorkApart
  <2>5. \A i, j \in 1..Len(extras') : extras'[i] = extras'[j] => i = j
    <3>1. \A i, j \in 1..Len(extras') : i + 1 = j + 1 => i = j
      BY <2>2
    <3> QED
      BY <2>2, <3>1 DEF NumberInv, ExtrasApart
  <2>6. /\ slots' \in [SlotIds -> Number \cup {None}] /\ extras' \in Seq(Number)
        /\ slots'[attempt[a].slot] = n
        /\ \A s \in SlotIds \ {attempt[a].slot} : slots'[s] = slots[s]
    BY <2>1, <2>2, <2>3 DEF TypeOK
  <2>7. \A i \in 1..Len(extras') : \E j \in 1..Len(extras) : extras'[i] = extras[j]
    BY <2>2
  <2> HIDE DEF n
  <2> QED
    BY <1>1, <1>4, <2>1, <2>2, <2>3, <2>4, <2>5, <2>6, <2>7, NumberAppend
<1>5. \/ UNCHANGED <<slots, slotQueue, extras>>
      \/ attempt[a].slot # None /\ Intact(a)
      \/ attempt[a].slot # None /\ ~Intact(a) /\ extras # <<>>
  BY DEF PutBack
<1> QED
  BY <1>2, <1>3, <1>4, <1>5

LEMMA NumberWork ==
  ASSUME NEW a \in Attempt, TypeOK, TypeOK', Shape, NumberInv, Work(a) PROVE NumberInv'
<1>0. attempt \in [Attempt -> AttemptState] /\ attempt[a] \in AttemptState
  BY DEF TypeOK
<1>1. CASE Gate(a)
  BY <1>0, <1>1, NumberFrame DEF Gate, At, To, sms, AttemptState, AtWork
<1>2. CASE Acquire(a)
  BY <1>0, <1>2, NumberFrame DEF Acquire, At, To, sms, AttemptState, AtWork
<1>3. CASE Begin(a)
  <2>1. attempt[a].slot = None /\ attempt[a].number = None
    BY <1>3 DEF Begin, At, Shape
  <2> QED
    BY <1>0, <1>3, <2>1, NumberFrame DEF Begin, At, sms, AttemptState, AtWork
<1>4. CASE Blow(a)
  BY <1>0, <1>4, NumberFrame DEF Blow, At, sms, AttemptState, AtWork
<1>5. ASSUME NEW result \in {"ok", "error"}, Return(a, result) PROVE NumberInv'
  BY <1>0, <1>5, NumberFrame DEF Return, At, sms, AttemptState, AtWork
<1>6. CASE Release(a)
  BY <1>0, <1>6, NumberFrame DEF Release, At, To, sms, AttemptState, AtWork
<1> QED
  BY <1>1, <1>2, <1>3, <1>4, <1>5, <1>6, NumberTakeSlot, NumberSwap, NumberNoCode,
     NumberPutBack DEF Work

LEMMA NumberNext == TypeOK /\ TypeOK' /\ Shape /\ NumberInv /\ [Next]_vars => NumberInv'
<1> SUFFICES ASSUME TypeOK, TypeOK', Shape, NumberInv, [Next]_vars PROVE NumberInv'
  OBVIOUS
<1>1. CASE Operate \/ OtherReleases \/ Lapse \/ UNCHANGED vars
  <2>1. UNCHANGED <<attempt, slots, slotQueue, extras, rejected>>
    BY <1>1 DEF Operate, OtherReleases, Lapse, sms, vars
  <2> QED
    BY <2>1, NumberFrame DEF AtWork
<1> QED
  BY <1>1, NumberMain, NumberWork DEF Next

LEMMA NumbersCorrect == Spec => []NumberInv
  BY TypeCorrect, ShapeCorrect, NumberInit, NumberNext, PTL DEF Spec

\* tasks.py:1851: no two attempts at work ever have the same phone number,
\* whatever is swapped, refilled or given back in between.
THEOREM OneThreadPerNumberHolds == Spec => []OneThreadPerNumber
<1>1. NumberInv => OneThreadPerNumber
  BY DEF NumberInv
<1> QED
  BY <1>1, NumbersCorrect, PTL

\* A number found dead is neither in a slot that waits nor among the backups.
THEOREM RejectedStayOutHolds == Spec => []RejectedStayOut
<1>1. NumberInv => RejectedStayOut
  BY DEF NumberInv
<1> QED
  BY <1>1, NumbersCorrect, PTL

--------------------------------------------------------------------------------
(* SMS slots: there is one for every attempt that will ask for one.          *)

\* Attempts that took an SMS slot and did not put it back.
Taken == {a \in Attempt : AtWork(a) \/ attempt[a].result = "raised"}

PromiseInv ==
  HasPool =>
    /\ Waiting \cup Taken \subseteq main.futures
    /\ Cardinality(Waiting) <= Len(slotQueue)
    /\ ~exhausted => Len(slotQueue) + Cardinality(Taken) = Concurrency

LEMMA PromiseInit == Init => PromiseInv
<1> SUFFICES ASSUME Init, HasPool
             PROVE  /\ Waiting \cup Taken \subseteq main.futures
                    /\ Cardinality(Waiting) <= Len(slotQueue)
                    /\ ~exhausted => Len(slotQueue) + Cardinality(Taken) = Concurrency
  BY DEF PromiseInv
<1>1. Waiting = {} /\ Taken = {}
  BY DEF Init, Waiting, Taken, AtWork, NewAttempt
<1>2. Len(slotQueue) = Concurrency /\ Concurrency \in Nat
  BY BatchAssumption DEF Init, SlotIds
<1> QED
  BY <1>1, <1>2, FS_EmptySet

\* A step after which no more attempts wait, and as many slots are in the queue
\* and with attempts as before.
LEMMA PromiseFrame ==
  ASSUME TypeOK, PromiseInv, mode' = mode, Waiting' \subseteq Waiting, Taken' = Taken,
         Len(slotQueue') = Len(slotQueue), exhausted => exhausted',
         HasPool => Waiting' \cup Taken' \subseteq main'.futures
  PROVE  PromiseInv'
<1>1. Cardinality(Waiting') <= Cardinality(Waiting)
  BY FiniteAttempts, FS_Subset DEF Waiting
<1>2. Cardinality(Waiting') \in Nat /\ Cardinality(Waiting) \in Nat /\ Len(slotQueue) \in Nat
  <2>1. Waiting \in SUBSET Attempt /\ Waiting' \in SUBSET Attempt
    BY DEF Waiting
  <2> QED
    BY <2>1, FiniteAttempts, ElementTypes
<1>3. HasPool' <=> HasPool
  BY DEF HasPool
<1>4. HasPool => Cardinality(Waiting') <= Len(slotQueue')
  BY <1>1, <1>2 DEF PromiseInv
<1>5. HasPool /\ ~exhausted' => Len(slotQueue') + Cardinality(Taken') = Concurrency
  BY DEF PromiseInv
<1> QED
  BY <1>3, <1>4, <1>5 DEF PromiseInv

LEMMA PromiseMain == TypeOK /\ Shape /\ PromiseInv /\ Main => PromiseInv'
<1> SUFFICES ASSUME TypeOK, Shape, PromiseInv, Main PROVE PromiseInv'
  OBVIOUS
<1>1. CASE Submit /\ attempt' # attempt
  <2> SUFFICES ASSUME HasPool PROVE PromiseInv'
    BY <1>1 DEF Submit, PromiseInv, HasPool
  <2> DEFINE a == main.submitted + 1
  <2>1. /\ a \in Attempt /\ attempt[a].pc = "new" /\ attempt[a].result = "none"
        /\ attempt' = [attempt EXCEPT ![a].pc = "gate"]
        /\ main'.futures = main.futures \cup {a} /\ Cardinality(main.futures) < Concurrency
        /\ ~exhausted /\ UNCHANGED <<mode, slotQueue, exhausted>>
    BY <1>1, SubmitNext DEF More, Submit, sms, Shape
  <2> HIDE DEF a
  <2>2. Waiting' = Waiting \cup {a} /\ a \notin Waiting /\ Taken' = Taken
    BY <2>1 DEF TypeOK, AttemptState, Waiting, Taken, AtWork
  <2>3. Waiting \cap Taken = {}
    BY DEF Shape, Waiting, Taken, AtWork
  <2>4. /\ IsFiniteSet(Waiting) /\ IsFiniteSet(Taken) /\ Cardinality(Waiting) \in Nat
        /\ Cardinality(Taken) \in Nat /\ IsFiniteSet(main.futures)
        /\ Cardinality(main.futures) \in Nat /\ Len(slotQueue) \in Nat
    BY FiniteAttempts, ElementTypes DEF Waiting, Taken, TypeOK, MainState
  <2>5. Cardinality(Waiting \cup Taken) = Cardinality(Waiting) + Cardinality(Taken)
    <3>1. Cardinality(Waiting \cap Taken) = 0
      BY <2>3, FS_EmptySet
    <3>2. Cardinality(Waiting \cup Taken)
            = Cardinality(Waiting) + Cardinality(Taken) - Cardinality(Waiting \cap Taken)
      BY <2>4, FS_Union
    <3> QED
      BY <2>4, <3>1, <3>2
  <2>6. Cardinality(Waiting \cup Taken) <= Cardinality(main.futures)
    BY <2>4, FS_Subset DEF PromiseInv
  <2>7. Cardinality(Waiting') = Cardinality(Waiting) + 1
    BY <2>2, <2>4, FS_AddElement
  <2>8. Concurrency \in Nat /\ Len(slotQueue) + Cardinality(Taken) = Concurrency
    BY <2>1, BatchAssumption DEF PromiseInv
  <2>9. Cardinality(Waiting') <= Len(slotQueue)
    BY <2>1, <2>4, <2>5, <2>6, <2>7, <2>8
  <2>10. Waiting' \cup Taken' \subseteq main'.futures
    BY <2>1, <2>2 DEF PromiseInv
  <2> QED
    BY <2>1, <2>2, <2>8, <2>9, <2>10 DEF PromiseInv
<1>2. CASE Submit /\ attempt' = attempt
  <2>1. UNCHANGED <<mode, slotQueue, exhausted>> /\ main.futures \subseteq main'.futures
    <3>1. UNCHANGED <<mode, slotQueue, exhausted>>
      BY <1>2 DEF Submit, sms
    <3>2. CASE More /\ Cardinality(main.futures) < Concurrency
      <4>1. main'.futures = main.futures \cup {main.submitted + 1}
        BY <1>2, <3>2 DEF Submit, TypeOK, MainState
      <4> QED
        BY <3>1, <4>1
    <3>3. CASE ~(More /\ Cardinality(main.futures) < Concurrency)
      <4>1. main'.futures = main.futures
        BY <1>2, <3>3 DEF Submit, TypeOK, MainState
      <4> QED
        BY <3>1, <4>1
    <3> QED
      BY <3>2, <3>3
  <2>2. Waiting' = Waiting /\ Taken' = Taken
    BY <1>2 DEF Waiting, Taken, AtWork
  <2> QED
    BY <2>1, <2>2, PromiseFrame DEF PromiseInv
<1>3. CASE Collect
  <2>1. UNCHANGED <<mode, attempt, slotQueue, exhausted>>
        /\ main'.futures \in {main.futures, main.futures \ Done}
        /\ (main'.futures # main.futures => With("raised", Done) = {})
    <3>1. UNCHANGED <<mode, attempt, slotQueue, exhausted>>
      BY <1>3 DEF Collect, sms
    <3>2. CASE With("raised", Done) # {}
      <4>1. main' = [main EXCEPT !.pc = "raised"]
        BY <1>3, <3>2 DEF Collect
      <4> QED
        BY <3>1, <4>1 DEF TypeOK, MainState
    <3>3. CASE With("raised", Done) = {}
      <4>1. main'.futures = main.futures \ Done
        BY <1>3, <3>3 DEF Collect, TypeOK, MainState
      <4> QED
        BY <3>1, <3>3, <4>1
    <3> QED
      BY <3>2, <3>3
  <2>2. Waiting' = Waiting /\ Taken' = Taken
    BY <2>1 DEF Waiting, Taken, AtWork
  <2>3. With("raised", Done) = {} => \A a \in Done : a \notin Waiting /\ a \notin Taken
    BY DEF Done, With, Waiting, Taken, AtWork
  <2> QED
    BY <2>1, <2>2, <2>3, PromiseFrame DEF PromiseInv
<1>4. CASE ReadPause \/ Idle \/ Hold \/ Summary \/ Raise \/ Finish
  <2>1. UNCHANGED <<mode, attempt, slotQueue, exhausted>> /\ main'.futures = main.futures
    BY <1>4 DEF ReadPause, Idle, Hold, Summary, Conclude, Raise, Finish, sms, TypeOK, MainState
  <2>2. Waiting' = Waiting /\ Taken' = Taken
    BY <2>1 DEF Waiting, Taken, AtWork
  <2> QED
    BY <2>1, <2>2, PromiseFrame DEF PromiseInv
<1> QED
  BY <1>1, <1>2, <1>3, <1>4 DEF Main

\* An attempt that takes its slot no longer waits: both counts go down by one.
LEMMA PromiseTakeSlot ==
  ASSUME NEW a \in Attempt, TypeOK, Shape, PromiseInv, TakeSlot(a) PROVE PromiseInv'
<1> SUFFICES ASSUME HasPool PROVE PromiseInv'
  BY DEF TakeSlot, PromiseInv, HasPool
<1>1. /\ UNCHANGED <<mode, main, exhausted>> /\ attempt[a].pc = "slot"
      /\ attempt'[a].pc = "work" /\ attempt[a].result = "none"
      /\ \A b \in Attempt \ {a} : attempt'[b] = attempt[b]
  BY DEF TakeSlot, At, TypeOK, AttemptState, Shape
<1>2. Len(slotQueue') = Len(slotQueue) - 1 /\ Len(slotQueue) \in Nat
  BY TailElements DEF TakeSlot, TypeOK
<1>3. /\ Waiting' = Waiting \ {a} /\ a \in Waiting
      /\ Taken' = Taken \cup {a} /\ a \notin Taken
  BY <1>1 DEF Waiting, Taken, AtWork
<1>4. /\ IsFiniteSet(Waiting) /\ IsFiniteSet(Taken) /\ Cardinality(Waiting) \in Nat
      /\ Cardinality(Taken) \in Nat
  BY FiniteAttempts DEF Waiting, Taken
<1>5. /\ Cardinality(Waiting') = Cardinality(Waiting) - 1
      /\ Cardinality(Taken') = Cardinality(Taken) + 1
  BY <1>3, <1>4, FS_AddElement, FS_RemoveElement
<1>6. Waiting' \cup Taken' \subseteq main'.futures
  BY <1>1, <1>3 DEF PromiseInv
<1>7. Cardinality(Waiting') <= Len(slotQueue')
  BY <1>2, <1>4, <1>5 DEF PromiseInv
<1>8. ~exhausted' => Len(slotQueue') + Cardinality(Taken') = Concurrency
  BY <1>1, <1>2, <1>4, <1>5 DEF PromiseInv
<1> QED
  BY <1>6, <1>7, <1>8 DEF PromiseInv

\* A slot that does not come back means that the pool is exhausted.
LEMMA PromisePutBack ==
  ASSUME NEW a \in Attempt, TypeOK, Shape, PromiseInv, PutBack(a) PROVE PromiseInv'
<1> SUFFICES ASSUME HasPool PROVE PromiseInv'
  BY DEF PutBack, PromiseInv, HasPool
<1>1. /\ UNCHANGED <<mode, main>> /\ attempt[a].pc = "putback"
      /\ attempt'[a].pc = "release" /\ attempt'[a].result = attempt[a].result
      /\ attempt[a].result # "raised" /\ attempt[a].slot # None
      /\ \A b \in Attempt \ {a} : attempt'[b] = attempt[b]
  BY DEF PutBack, At, To, TypeOK, AttemptState, Shape, AtWork
<1>2. /\ Waiting' = Waiting
      /\ Taken' = Taken \ {a} /\ a \in Taken
  BY <1>1 DEF Waiting, Taken, AtWork
<1>3. /\ IsFiniteSet(Taken) /\ Cardinality(Taken) \in Nat /\ Cardinality(Waiting) \in Nat
  BY FiniteAttempts DEF Taken, Waiting
<1>4. Cardinality(Taken') = Cardinality(Taken) - 1
  BY <1>2, <1>3, FS_RemoveElement
<1>5. \/ Len(slotQueue') = Len(slotQueue) + 1 /\ exhausted' = exhausted
      \/ slotQueue' = slotQueue /\ exhausted' = TRUE
  <2>1. attempt[a].slot \in SlotIds /\ slotQueue \in Seq(SlotIds)
    BY <1>1 DEF TypeOK, AttemptState
  <2>2. Len(Append(slotQueue, attempt[a].slot)) = Len(slotQueue) + 1
    BY <2>1, AppendElements
  <2> QED
    BY <1>1, <2>2 DEF PutBack
<1>6. Waiting' \cup Taken' \subseteq main'.futures
  BY <1>1, <1>2 DEF PromiseInv
<1>7. Len(slotQueue) \in Nat
  BY ElementTypes
<1>8. Cardinality(Waiting') <= Len(slotQueue')
  BY <1>2, <1>3, <1>5, <1>7 DEF PromiseInv
<1>9. ~exhausted' => Len(slotQueue') + Cardinality(Taken') = Concurrency
  <2>1. SUFFICES ASSUME ~exhausted' PROVE Len(slotQueue') + Cardinality(Taken') = Concurrency
    OBVIOUS
  <2>2. Len(slotQueue') = Len(slotQueue) + 1 /\ ~exhausted
    BY <1>5, <2>1
  <2> QED
    BY <1>3, <1>4, <1>7, <2>2 DEF PromiseInv
<1> QED
  BY <1>6, <1>8, <1>9 DEF PromiseInv

LEMMA PromiseWork ==
  ASSUME NEW a \in Attempt, TypeOK, Shape, PromiseInv, Work(a) PROVE PromiseInv'
<1>0. attempt \in [Attempt -> AttemptState] /\ attempt[a] \in AttemptState
  BY DEF TypeOK
<1>1. ASSUME UNCHANGED <<mode, main, slotQueue>>, exhausted => exhausted',
             \A b \in Attempt \ {a} : attempt'[b] = attempt[b],
             HasPool => (a \in Waiting' => a \in Waiting) /\ (a \in Taken' <=> a \in Taken)
      PROVE  PromiseInv'
  <2>1. CASE ~HasPool
    BY <1>1, <2>1 DEF PromiseInv, HasPool
  <2>2. CASE HasPool
    <3>1. Waiting' \subseteq Waiting /\ Taken' = Taken
      BY <1>1, <2>2 DEF Waiting, Taken, AtWork
    <3>2. HasPool => Waiting' \cup Taken' \subseteq main'.futures
      BY <1>1, <3>1 DEF PromiseInv
    <3> QED
      BY <1>1, <3>1, <3>2, PromiseFrame
  <2> QED
    BY <2>1, <2>2
<1> USE DEF Waiting, Taken, AtWork, AttemptState
<1>2. CASE Gate(a)
  BY <1>0, <1>1, <1>2 DEF Gate, At, To, sms, Shape
<1>3. CASE Acquire(a)
  BY <1>0, <1>1, <1>3 DEF Acquire, At, To, sms, Shape
<1>4. CASE Begin(a)
  BY <1>0, <1>1, <1>4 DEF Begin, At, sms, Shape
<1>5. CASE Blow(a)
  BY <1>0, <1>1, <1>5 DEF Blow, At, sms
<1>6. CASE Swap(a)
  BY <1>0, <1>1, <1>6 DEF Swap, At
<1>7. CASE NoCode(a)
  BY <1>0, <1>1, <1>7 DEF NoCode, At
<1>8. ASSUME NEW result \in {"ok", "error"}, Return(a, result) PROVE PromiseInv'
  BY <1>0, <1>1, <1>8 DEF Return, At
<1>9. CASE Release(a)
  BY <1>0, <1>1, <1>9 DEF Release, At, To, sms
<1> QED
  BY <1>2, <1>3, <1>4, <1>5, <1>6, <1>7, <1>8, <1>9, PromiseTakeSlot, PromisePutBack DEF Work

\* sms_slot_queue.get() waits without a timeout: it never has to, since there is
\* a queued slot for every attempt on its way to it.
THEOREM SlotPromiseKept == Spec => []SlotPromised
<1>1. TypeOK /\ Shape /\ PromiseInv /\ [Next]_vars => PromiseInv'
  <2> SUFFICES ASSUME TypeOK, Shape, PromiseInv, [Next]_vars PROVE PromiseInv'
    OBVIOUS
  <2>1. CASE Operate \/ OtherReleases \/ Lapse \/ UNCHANGED vars
    <3>1. UNCHANGED <<mode, main, attempt, slotQueue, exhausted>>
      BY <2>1 DEF Operate, OtherReleases, Lapse, sms, vars
    <3>2. Waiting' = Waiting /\ Taken' = Taken
      BY <3>1 DEF Waiting, Taken, AtWork
    <3> QED
      BY <3>1, <3>2, PromiseFrame DEF PromiseInv
  <2> QED
    BY <2>1, PromiseMain, PromiseWork DEF Next
<1>2. PromiseInv => SlotPromised
  BY DEF PromiseInv, SlotPromised
<1> QED
  BY <1>1, <1>2, PromiseInit, TypeCorrect, ShapeCorrect, PTL DEF Spec

--------------------------------------------------------------------------------
(* The accounts that were made: never more than asked for.                   *)

\* Finished attempts the thread of the task has collected, those that made an account.
Collected == With("ok", Attempt \ main.futures)

\* What is in flight is a future of the thread; what was collected is in its
\* tally. Tally and flight together stay within the goal, except for a plain
\* task, which counts submissions.
TallyInv ==
  /\ \A a \in Attempt \ main.futures : attempt[a].pc \in {"new", "done"}
  /\ Cardinality(Collected) <= main.success
  /\ mode # "plain" => main.success + Cardinality(main.futures) <= Goal
  /\ mode = "plain" => main.submitted <= Count

LEMMA TallyInit == Init => TallyInv
<1> SUFFICES ASSUME Init PROVE TallyInv
  OBVIOUS
<1>1. Collected = {} /\ main.futures = {} /\ main.success = 0 /\ main.submitted = 0
  BY DEF Init, Collected, With, NewAttempt
<1>2. Cardinality(Collected) = 0 /\ Cardinality(main.futures) = 0
  BY <1>1, FS_EmptySet
<1>3. Goal \in Nat /\ Count \in Nat
  BY BatchAssumption DEF Goal
<1>4. \A a \in Attempt : attempt[a].pc = "new"
  BY DEF Init, NewAttempt
<1> QED
  BY <1>1, <1>2, <1>3, <1>4 DEF TallyInv

\* The sizes the invariant compares are natural numbers.
LEMMA TallyTypes ==
  ASSUME TypeOK
  PROVE  /\ main.futures \in SUBSET Attempt /\ IsFiniteSet(main.futures)
         /\ Cardinality(main.futures) \in Nat /\ Cardinality(Collected) \in Nat
         /\ IsFiniteSet(Collected) /\ main.success \in Nat /\ main.submitted \in Nat
         /\ Goal \in Nat /\ Count \in Nat
<1>1. main.futures \in SUBSET Attempt /\ main.success \in Nat /\ main.submitted \in Nat
  BY BatchAssumption DEF TypeOK, MainState
<1>2. Collected \in SUBSET Attempt
  BY DEF Collected, With
<1>3. Goal \in Nat /\ Count \in Nat
  BY BatchAssumption DEF Goal
<1> QED
  BY <1>1, <1>2, <1>3, FiniteAttempts

\* What More leaves room for: one more in flight, or one more submission.
LEMMA MoreHasRoom ==
  ASSUME TypeOK, More
  PROVE  /\ mode # "plain" => main.success + Cardinality(main.futures) < Goal
         /\ mode = "plain" => main.submitted < Count
<1>1. mode \in {"plain", "plus", "hero"}
  BY BatchAssumption DEF TypeOK
<1>2. CASE mode = "plain"
  BY <1>2 DEF More
<1>3. CASE mode = "plus"
  BY <1>3 DEF More, Goal
<1>4. CASE mode = "hero"
  BY <1>4 DEF More
<1> QED
  BY <1>1, <1>2, <1>3, <1>4

LEMMA TallyMain == TypeOK /\ Shape /\ TallyInv /\ Main => TallyInv'
<1> SUFFICES ASSUME TypeOK, Shape, TallyInv, Main PROVE TallyInv'
  OBVIOUS
<1>0. /\ attempt \in [Attempt -> AttemptState]
      /\ main.futures \in SUBSET Attempt /\ IsFiniteSet(main.futures)
      /\ Cardinality(main.futures) \in Nat /\ Cardinality(Collected) \in Nat
      /\ IsFiniteSet(Collected) /\ main.success \in Nat /\ main.submitted \in Nat
      /\ Goal \in Nat /\ Count \in Nat
  BY TallyTypes DEF TypeOK
<1>1. CASE Submit /\ More /\ Cardinality(main.futures) < Concurrency
  <2> DEFINE a == main.submitted + 1
  <2>1. a \in Attempt
    BY <1>1, NextAttempt
  <2>2. attempt[a].pc = "new" /\ attempt[a].result = "none"
    BY <1>0, <2>1 DEF Shape
  <2>3. /\ main'.submitted = a /\ main'.futures = main.futures \cup {a}
        /\ main'.success = main.success /\ mode' = mode
        /\ attempt' = [attempt EXCEPT ![a].pc = "gate"]
    BY <1>1 DEF Submit, TypeOK, MainState
  <2> HIDE DEF a
  <2>4. \A b \in Attempt : attempt'[b].result = attempt[b].result
                           /\ (b # a => attempt'[b] = attempt[b])
    BY <1>0, <2>1, <2>3 DEF AttemptState
  <2>5. Collected' = Collected
    BY <2>2, <2>3, <2>4 DEF Collected, With
  <2>6. Cardinality(main'.futures) \in Nat
        /\ Cardinality(main'.futures) <= Cardinality(main.futures) + 1
    <3> DEFINE F == main.futures
    <3>1. IsFiniteSet(F) /\ Cardinality(F) \in Nat
      BY <1>0
    <3> HIDE DEF F
    <3>2. \/ Cardinality(F \cup {a}) = Cardinality(F)
          \/ Cardinality(F \cup {a}) = Cardinality(F) + 1
      BY <3>1, FS_AddElement
    <3>3. main'.futures = F \cup {a}
      BY <2>3 DEF F
    <3>4. /\ Cardinality(main'.futures) \in Nat
          /\ Cardinality(main'.futures) <= Cardinality(F) + 1
      BY <3>1, <3>2, <3>3
    <3> QED
      BY <3>4 DEF F
  <2>7. Goal' = Goal
    BY <2>3 DEF Goal
  <2>8. /\ mode # "plain" => main.success + Cardinality(main.futures) < Goal
        /\ mode = "plain" => main.submitted < Count
    BY <1>1, MoreHasRoom
  <2>9. \A b \in Attempt \ main'.futures : attempt'[b].pc \in {"new", "done"}
    BY <2>3, <2>4 DEF TallyInv
  <2>10. Cardinality(Collected') <= main'.success
    BY <2>3, <2>5 DEF TallyInv
  <2>11. mode' # "plain" => main'.success + Cardinality(main'.futures) <= Goal'
    BY <1>0, <2>3, <2>6, <2>7, <2>8
  <2>12. mode' = "plain" => main'.submitted <= Count
    BY <1>0, <2>3, <2>8 DEF a
  <2> QED
    BY <2>9, <2>10, <2>11, <2>12 DEF TallyInv
<1>2. CASE Collect /\ With("raised", Done) = {}
  <2>1. /\ main'.futures = main.futures \ Done
        /\ main'.success = main.success + Cardinality(With("ok", Done))
        /\ main'.submitted = main.submitted /\ UNCHANGED <<attempt, mode>>
    BY <1>2 DEF Collect, TypeOK, MainState
  <2>2. Done \in SUBSET Attempt /\ Done \subseteq main.futures
    BY <1>0 DEF Done
  <2>3. With("ok", Done) \in SUBSET Attempt /\ With("ok", Done) \subseteq Done
    BY <2>2 DEF With
  <2>4. /\ IsFiniteSet(Done) /\ Cardinality(Done) \in Nat
        /\ IsFiniteSet(With("ok", Done)) /\ Cardinality(With("ok", Done)) \in Nat
    BY <2>2, <2>3, FiniteAttempts
  <2>5. Collected' = Collected \cup With("ok", Done)
    BY <2>1, <2>2 DEF Collected, With
  <2>6. Cardinality(Collected') <= Cardinality(Collected) + Cardinality(With("ok", Done))
    <3>1. Cardinality(Collected \cap With("ok", Done)) \in Nat
      <4>1. Collected \cap With("ok", Done) \in SUBSET Attempt
        BY <2>3
      <4> QED
        BY <4>1, FiniteAttempts
    <3>2. Cardinality(Collected') = Cardinality(Collected) + Cardinality(With("ok", Done))
                                    - Cardinality(Collected \cap With("ok", Done))
      BY <1>0, <2>4, <2>5, FS_Union
    <3> QED
      BY <1>0, <2>4, <3>1, <3>2
  <2>7. Cardinality(Collected') \in Nat
    <3>1. IsFiniteSet(Collected')
      BY <1>0, <2>4, <2>5, FS_Union
    <3> QED
      BY <3>1, FS_CardinalityType
  <2>8. Cardinality(main'.futures) + Cardinality(Done) = Cardinality(main.futures)
    <3>1. main.futures \cap Done = Done
      BY <2>2
    <3>2. Cardinality(main.futures \ Done)
            = Cardinality(main.futures) - Cardinality(main.futures \cap Done)
      BY <1>0, FS_Difference
    <3>3. Cardinality(main'.futures) = Cardinality(main.futures) - Cardinality(Done)
      BY <2>1, <3>1, <3>2
    <3> QED
      BY <1>0, <2>4, <3>3
  <2>9. Cardinality(With("ok", Done)) <= Cardinality(Done)
    BY <2>3, <2>4, FS_Subset
  <2>10. Goal' = Goal
    BY <2>1 DEF Goal
  <2>11. Cardinality(main'.futures) \in Nat
    <3>1. main'.futures \in SUBSET Attempt
      BY <1>0, <2>1
    <3> QED
      BY <3>1, FiniteAttempts
  <2>12. \A b \in Attempt \ main'.futures : attempt'[b].pc \in {"new", "done"}
    BY <2>1 DEF TallyInv, Done
  <2>13. Cardinality(Collected') <= main'.success
    BY <1>0, <2>1, <2>4, <2>6, <2>7 DEF TallyInv
  <2>14. mode' # "plain" => main'.success + Cardinality(main'.futures) <= Goal'
    BY <1>0, <2>1, <2>4, <2>8, <2>9, <2>10, <2>11 DEF TallyInv
  <2> QED
    BY <2>1, <2>12, <2>13, <2>14 DEF TallyInv
<1>3. ASSUME UNCHANGED <<attempt, mode>>, main'.futures = main.futures,
             main'.success = main.success, main'.submitted = main.submitted
      PROVE  TallyInv'
  <2>1. Collected' = Collected /\ Goal' = Goal
    BY <1>3 DEF Collected, With, Goal
  <2> QED
    BY <1>3, <2>1 DEF TallyInv
<1>4. CASE Submit /\ ~(More /\ Cardinality(main.futures) < Concurrency)
  BY <1>3, <1>4 DEF Submit, TypeOK, MainState
<1>5. CASE Collect /\ With("raised", Done) # {}
  BY <1>3, <1>5 DEF Collect, TypeOK, MainState
<1>6. CASE ReadPause \/ Idle \/ Hold \/ Summary \/ Raise \/ Finish
  BY <1>3, <1>6 DEF ReadPause, Idle, Hold, Summary, Conclude, Raise, Finish, TypeOK, MainState
<1> QED
  BY <1>1, <1>2, <1>4, <1>5, <1>6 DEF Main

\* An attempt that makes a step is one of the futures, so nothing collected changes.
LEMMA TallyWork ==
  ASSUME NEW a \in Attempt, TypeOK, TallyInv, Work(a) PROVE TallyInv'
<1>1. attempt[a].pc \notin {"new", "done"}
  BY DEF Work, Gate, Acquire, Begin, TakeSlot, Blow, Swap, NoCode, Return, PutBack, Release, At
<1>2. a \in main.futures
  BY <1>1 DEF TallyInv
<1>3. UNCHANGED <<main, mode>> /\ \A b \in Attempt \ {a} : attempt'[b] = attempt[b]
  BY DEF Work, Gate, Acquire, Begin, TakeSlot, Blow, Swap, NoCode, Return, PutBack, Release, To,
         TypeOK
<1>4. Collected' = Collected /\ Goal' = Goal
  BY <1>2, <1>3 DEF Collected, With, Goal
<1> QED
  BY <1>2, <1>3, <1>4 DEF TallyInv

\* The accounts made are the collected ones and some of those in flight.
LEMMA TallyBounds == TypeOK /\ Shape /\ TallyInv => NeverTooMany
<1> SUFFICES ASSUME TypeOK, Shape, TallyInv PROVE NeverTooMany
  OBVIOUS
<1> DEFINE Made == With("ok", Attempt)
<1>1. Made \in SUBSET Attempt
  BY DEF With
<1>2. CASE mode = "plain"
  <2>1. main.submitted \in Nat /\ Count \in Nat
    BY TallyTypes
  <2>2. Made \subseteq 1..main.submitted
    <3>1. \A b \in Made : b \in 1..MailboxCapacity /\ ~(b > main.submitted)
      BY DEF Shape, With, Attempt
    <3>2. MailboxCapacity \in Nat
      BY BatchAssumption
    <3> QED
      BY <2>1, <3>1, <3>2
  <2>3. IsFiniteSet(1..main.submitted) /\ Cardinality(1..main.submitted) = main.submitted
    BY <2>1, FS_Interval
  <2>4. Cardinality(Made) <= main.submitted /\ Cardinality(Made) \in Nat
    BY <1>1, <2>2, <2>3, FS_Subset, FiniteAttempts
  <2>5. main.submitted <= Count /\ Goal = Count
    BY <1>2 DEF TallyInv, Goal
  <2> QED
    BY <2>1, <2>4, <2>5 DEF NeverTooMany
<1>3. CASE mode # "plain"
  <2>1. /\ IsFiniteSet(main.futures) /\ Cardinality(main.futures) \in Nat
        /\ Cardinality(Collected) \in Nat /\ IsFiniteSet(Collected)
        /\ main.success \in Nat /\ Goal \in Nat
    BY TallyTypes
  <2> DEFINE Both == Collected \cup main.futures
  <2>2. Made \subseteq Both
    BY DEF Collected, With
  <2>3. Both \in SUBSET Attempt /\ Collected \cap main.futures \in SUBSET Attempt
    BY TallyTypes DEF Collected, With
  <2>4. /\ IsFiniteSet(Both) /\ Cardinality(Both) \in Nat /\ Cardinality(Made) \in Nat
        /\ Cardinality(Collected \cap main.futures) \in Nat
    BY <1>1, <2>3, FiniteAttempts
  <2>5. Cardinality(Made) <= Cardinality(Both)
    BY <2>2, <2>4, FS_Subset
  <2>6. Cardinality(Both) = Cardinality(Collected) + Cardinality(main.futures)
                            - Cardinality(Collected \cap main.futures)
    BY <2>1, FS_Union
  <2>7. Cardinality(Collected) <= main.success
        /\ main.success + Cardinality(main.futures) <= Goal
    BY <1>3 DEF TallyInv
  <2>8. Cardinality(Made) <= Goal
    <3> HIDE DEF Both, Made
    <3> QED
      BY <2>1, <2>4, <2>5, <2>6, <2>7
  <2> QED
    BY <2>8 DEF NeverTooMany
<1> QED
  BY <1>2, <1>3

\* _should_submit_more leaves room for what is in flight: attempts that run at
\* the same time never make more accounts than the task asked for, for any
\* number of accounts, attempts and mailboxes.
THEOREM NeverTooManyAccounts == Spec => []NeverTooMany
<1>1. TypeOK /\ Shape /\ TallyInv /\ [Next]_vars => TallyInv'
  <2> SUFFICES ASSUME TypeOK, Shape, TallyInv, [Next]_vars PROVE TallyInv'
    OBVIOUS
  <2>1. CASE Operate \/ OtherReleases \/ Lapse \/ UNCHANGED vars
    <3>1. UNCHANGED <<mode, main, attempt>>
      BY <2>1 DEF Operate, OtherReleases, Lapse, sms, vars
    <3>2. Collected' = Collected /\ Goal' = Goal
      BY <3>1 DEF Collected, With, Goal
    <3> QED
      BY <3>1, <3>2 DEF TallyInv
  <2> QED
    BY <2>1, TallyMain, TallyWork DEF Next
<1> QED
  BY <1>1, TallyInit, TallyBounds, TypeCorrect, ShapeCorrect, PTL DEF Spec

================================================================================
