---------------------------- MODULE OpenAiSmsProofs ----------------------------
(* What holds of OpenAiSms for every number of items and of loops.           *)
EXTENDS OpenAiSms, TLAPS

(* The inductive invariant.  An item that is not to be paid is GivenUp: its  *)
(* status can never become "completed" any more, either because a cancel, a  *)
(* failure or a restart has marked it, or because its loop is about to fail  *)
(* it before a worker task exists.                                           *)
Lost == {"cancel_requested", "failed", "cancelled", "interrupted"}

GivenUp(i) ==
    \/ item[i].status \in Lost
    \/ item[i].status = "running" /\ run[i] = "dropping" /\ ~item[i].remoteId

\* Before the worker task is created.
Early(i) ==
    /\ run[i] \in {"buying", "napping", "dropping"} =>
           ~item[i].remoteId /\ item[i].status \notin {"queued", "completed"}
    /\ item[i].status = "queued" => ~item[i].remoteId
    /\ worker[i] # "none" => item[i].remoteId
    /\ relay[i] # "none" => item[i].remoteId

\* What a release reports agrees with the item for good.
Releasing(i) ==
    /\ rel[i].pc # "none" => IF rel[i].ok THEN item[i].status = "completed" ELSE GivenUp(i)
    /\ timer[i] => item[i].status = "completed" \/ GivenUp(i)
    /\ "finish" \in told[i] => item[i].status = "completed"
    /\ "cancel" \in told[i] => GivenUp(i)
    /\ item[i].out = "completed" => "finish" \in told[i]
    /\ item[i].out = "cancelled" => "cancel" \in told[i]
    /\ item[i].status = "completed" => worker[i] = "succeeded"

\* A relay call at work and a release exclude each other.
Apart(i) ==
    relay[i] \in Busy => rel[i].pc # "calling" /\ told[i] \cap {"finish", "cancel"} = {}

Safe(i) ==
    /\ Early(i) /\ Releasing(i) /\ Apart(i)
    /\ i \in rec => item[i].status = "interrupted"

\* When the task or the process is over.
Late ==
    /\ task \in Terminal => \A i \in Items : item[i].status \in Terminal
    /\ boot # "up" => task \in Terminal

IInv == TypeOK /\ (\A i \in Items : Safe(i)) /\ Late

\* What a step keeps of an item, besides Safe.
Kept(i) ==
    /\ Safe(i)'
    /\ item[i].status \in Terminal => item'[i].status = item[i].status
    /\ told[i] \cap {"finish", "cancel"} # {} =>
           told'[i] \cap {"ready", "retry"} = told[i] \cap {"ready", "retry"}

--------------------------------------------------------------------------------
(* The operators the actions are built from.                                 *)

RelType == [pc: RelPc, ok: BOOLEAN]

\* recomputeTask ends a task only when its items are over, and never takes
\* that back.
LEMMA RecomputeFacts ==
  ASSUME NEW t \in Statuses, NEW rows \in [Items -> Item]
  PROVE  /\ Recompute(t, rows) \in Statuses
         /\ t \in Terminal => Recompute(t, rows) \in Terminal
         /\ Recompute(t, rows) \in Terminal =>
                t \in Terminal \/ \A i \in Items : rows[i].status \in Terminal
<1>1. \A i \in Items : rows[i].status \in Terminal \cup Active
  BY DEF Item, Statuses
<1>2. CASE \E i \in Items : rows[i].status \in Active
  BY <1>2 DEF Recompute, Statuses, Terminal, Active
<1>3. CASE ~ \E i \in Items : rows[i].status \in Active
  <2>1. Recompute(t, rows) \in Terminal
    BY <1>3, SMTT(20) DEF Recompute, Statuses, Terminal, Active
  <2> QED
    BY <1>1, <1>3, <2>1 DEF Statuses
<1> QED
  BY <1>2, <1>3

\* A release that was asked for is one that was under way, or a new one.
LEMMA AskedFacts ==
  ASSUME TypeOK, NEW S \in SUBSET Items, NEW ok \in [Items -> BOOLEAN]
  PROVE  /\ Asked(S, ok) \in [Items -> RelType]
         /\ \A i \in Items :
                \/ Asked(S, ok)[i] = rel[i]
                \/ /\ i \in S /\ rel[i].pc = "none" /\ Held(i)
                   /\ Asked(S, ok)[i].ok = ok[i]
                   /\ Asked(S, ok)[i].pc = IF relay[i] \in Busy THEN "queued" ELSE "calling"
<1>1. \A i \in Items : rel[i] \in RelType
  BY DEF TypeOK, RelType
<1> QED
  BY <1>1 DEF Asked, RelType, RelPc

\* What finishItem, and the handler that calls it, may change of item i.
Ends(i) ==
    /\ task' \in Statuses /\ item' \in [Items -> Item] /\ rel' \in [Items -> RelType]
    /\ \A j \in Items \ {i} : item'[j] = item[j] /\ rel'[j] = rel[j]
    /\ item'[i].remoteId = item[i].remoteId /\ item'[i].out = item[i].out
    /\ \/ item'[i].status = item[i].status
       \/ item[i].status \in Active /\ item'[i].status \in {"completed", "failed", "cancelled"}
    /\ \/ rel'[i] = rel[i]
       \/ /\ rel[i].pc = "none" /\ item'[i].status \in Terminal
          /\ rel'[i].ok = (item'[i].status = "completed")
          /\ rel'[i].pc = IF relay[i] \in Busy THEN "queued" ELSE "calling"
    /\ task' \in Terminal => task \in Terminal \/ \A j \in Items : item'[j].status \in Terminal
    /\ task \in Terminal => task' \in Terminal

LEMMA FinishEnds ==
  ASSUME TypeOK, NEW i \in Items, NEW s \in {"completed", "failed", "cancelled"}, Finish(i, s)
  PROVE  /\ Ends(i) /\ item'[i].status \in Terminal
         /\ item'[i].status = "completed" =>
                \/ item[i].status = "completed"
                \/ s = "completed" /\ item[i].status \in {"queued", "running"}
<1>1. CASE item[i].status \in Terminal
  BY <1>1 DEF Finish, Ends, TypeOK, RelType
<1>2. CASE item[i].status \notin Terminal
  <2> DEFINE paid == [j \in Items |-> Settled(i, s) = "completed"]
  <2>1. /\ item' = [item EXCEPT ![i].status = Settled(i, s), ![i].starting = FALSE]
        /\ task' = Recompute(task, item') /\ rel' = Asked({i}, paid)
    BY <1>2 DEF Finish
  <2>2. Settled(i, s) \in {"completed", "failed", "cancelled"}
    BY DEF Settled
  <2>3. item[i] \in Item /\ item \in [Items -> Item] /\ task \in Statuses
    BY DEF TypeOK
  <2>4. item' \in [Items -> Item]
    BY <2>1, <2>2, <2>3 DEF Item, Statuses, Terminal
  <2>5. /\ item'[i].status = Settled(i, s) /\ item'[i].remoteId = item[i].remoteId
        /\ item'[i].out = item[i].out
        /\ \A j \in Items \ {i} : item'[j] = item[j]
    BY <2>1, <2>3 DEF Item
  <2>6. item[i].status \in Active
    BY <1>2, <2>3 DEF Item, Statuses
  <2>7. /\ rel' \in [Items -> RelType]
        /\ \A j \in Items : \/ rel'[j] = rel[j]
                            \/ /\ j = i /\ rel[j].pc = "none" /\ rel'[j].ok = paid[j]
                               /\ rel'[j].pc = IF relay[j] \in Busy THEN "queued" ELSE "calling"
    <3>1. paid \in [Items -> BOOLEAN] /\ {i} \in SUBSET Items
      OBVIOUS
    <3> HIDE DEF paid
    <3>2. /\ Asked({i}, paid) \in [Items -> RelType]
          /\ \A j \in Items :
                 \/ Asked({i}, paid)[j] = rel[j]
                 \/ /\ j \in {i} /\ rel[j].pc = "none" /\ Asked({i}, paid)[j].ok = paid[j]
                    /\ Asked({i}, paid)[j].pc = IF relay[j] \in Busy THEN "queued" ELSE "calling"
      BY <3>1, AskedFacts
    <3> QED
      BY <2>1, <3>2
  <2>8. /\ task' \in Statuses /\ (task \in Terminal => task' \in Terminal)
        /\ task' \in Terminal => task \in Terminal \/ \A j \in Items : item'[j].status \in Terminal
    BY <2>1, <2>3, <2>4, RecomputeFacts
  <2>9. Settled(i, s) \in Terminal
    BY <2>2 DEF Terminal
  <2>10. Ends(i)
    BY <2>2, <2>4, <2>5, <2>6, <2>7, <2>8, <2>9 DEF Ends
  <2> QED
    BY <2>5, <2>6, <2>9, <2>10 DEF Settled, Active
<1> QED
  BY <1>1, <1>2

\* Whatever the handler does, the item is over or has a worker task, it is not
\* paid unless it was, and its loop is past the purchase.
LEMMA CatchEnds ==
  ASSUME TypeOK, NEW i \in Items, Catch(i)
  PROVE  /\ Ends(i)
         /\ item'[i].status \in Terminal \/ (item'[i] = item[i] /\ item[i].remoteId)
         /\ item'[i].status = "completed" => item[i].status = "completed"
         /\ \E pc \in {"finishing", "returned", "chasing", "disowning", "retracting"} :
                run' = [run EXCEPT ![i] = pc]
         /\ chase' \in [Items -> {"none", "calling", "finishing"}]
<1>1. chase \in [Items -> {"none", "calling", "finishing"}]
  BY DEF TypeOK
<1>2. CASE ~item[i].remoteId
  <2>1. PICK s \in {"failed", "cancelled"} : Finish(i, s)
    BY <1>2 DEF Catch
  <2>2. /\ Ends(i) /\ item'[i].status \in Terminal
        /\ item'[i].status = "completed" => item[i].status = "completed"
    BY <2>1, FinishEnds
  <2> QED
    BY <1>1, <1>2, <2>2 DEF Catch, Return, Goto
<1>3. CASE item[i].remoteId
  <2>1. UNCHANGED <<task, item, rel>>
    BY <1>3 DEF Catch
  <2>2. Ends(i)
    BY <2>1 DEF Ends, TypeOK, RelType
  <2>3. chase' \in [Items -> {"none", "calling", "finishing"}]
    BY <1>1, <1>3 DEF Catch, Chasing
  <2> QED
    BY <1>3, <2>1, <2>2, <2>3 DEF Catch, Goto
<1> QED
  BY <1>2, <1>3

WorkerType == [Items -> Known \cup {"none", "sent", "refused"}]

\* cancelTask, whatever it answers: a task that has ended stays as it ended.
LEMMA CancelFacts ==
  ASSUME TypeOK, NEW i \in Items, CancelAccepted(i) \/ CancelRejected(i)
  PROVE  /\ worker' \in WorkerType /\ faults' \in 0 .. MaxFaults
         /\ \A j \in Items : \/ worker'[j] = worker[j]
                             \/ worker[j] = "active" /\ worker'[j] = "told"
<1>1. worker \in WorkerType /\ faults \in 0 .. MaxFaults /\ MaxFaults \in Nat
  BY SmsAssumption DEF TypeOK, WorkerType
<1>2. faults' \in 0 .. MaxFaults
  BY <1>1 DEF CancelAccepted, CancelRejected, Fault
<1>3. worker' \in WorkerType
  BY <1>1 DEF CancelAccepted, CancelRejected, WorkerType, Known
<1> QED
  BY <1>1, <1>2, <1>3 DEF CancelAccepted, CancelRejected, WorkerType

--------------------------------------------------------------------------------
(* Types.                                                                    *)

LEMMA FaultType == TypeOK /\ Fault => faults' \in 0 .. MaxFaults
  BY SmsAssumption DEF TypeOK, Fault

LEMMA ChasingType ==
  ASSUME TypeOK, NEW S
  PROVE  Chasing(S) \in [Items -> {"none", "calling", "finishing"}]
  BY DEF TypeOK, Chasing

LEMMA RelayNextType ==
  ASSUME TypeOK, NEW i \in Items, NEW row
  PROVE  /\ RelayNext(i, row) \in [Items -> Busy \cup {"none", "queued"}]
         /\ \A j \in Items \ {i} : RelayNext(i, row)[j] = relay[j]
         /\ RelayNext(i, row)[i] # "none" => relay[i] # "none"
         /\ RelayNext(i, row)[i] \in Busy =>
                \/ relay[i] \in Busy
                \/ relay[i] = "queued" /\ row.status = "running" /\ row.out = "none"
  BY DEF TypeOK, RelayNext, Busy

\* RelayEnds starts the release that waits.
LEMMA RelayEndsFacts ==
  ASSUME TypeOK, NEW i \in Items, RelayEnds(i)
  PROVE  /\ relay' \in [Items -> Busy \cup {"none", "queued"}] /\ rel' \in [Items -> RelType]
         /\ relay'[i] = "none" /\ rel'[i].ok = rel[i].ok
         /\ rel'[i].pc # "none" => rel[i].pc # "none"
         /\ \A j \in Items \ {i} : relay'[j] = relay[j] /\ rel'[j] = rel[j]
<1>1. rel \in [Items -> RelType] /\ relay \in [Items -> Busy \cup {"none", "queued"}]
  BY DEF TypeOK, RelType
<1> QED
  BY <1>1 DEF RelayEnds, RelType, RelPc

\* A number was bought: it is given back at once, or goes to the worker.
LEMMA BuyFacts ==
  ASSUME TypeOK, NEW i \in Items, Buy(i) \/ BuyWrong(i)
  PROVE  /\ item' \in [Items -> Item] /\ run' \in [Items -> RunPc]
         /\ rel' \in [Items -> RelType] /\ worker' \in WorkerType
         /\ \A j \in Items \ {i} : /\ item'[j] = item[j] /\ run'[j] = run[j]
                                   /\ rel'[j] = rel[j] /\ worker'[j] = worker[j]
         /\ run[i] = "buying"
         /\ item'[i].status = item[i].status /\ item'[i].out = item[i].out
         /\ \/ /\ run'[i] = "dropping" /\ item'[i].remoteId = item[i].remoteId
               /\ rel'[i] = [pc |-> "calling", ok |-> FALSE] /\ worker'[i] = worker[i]
            \/ /\ run'[i] = "creating" /\ item'[i].remoteId
               /\ rel'[i] = rel[i] /\ worker'[i] = "sent"
<1>1. item[i] \in Item /\ item \in [Items -> Item] /\ run \in [Items -> RunPc]
      /\ rel \in [Items -> RelType] /\ worker \in WorkerType
  BY DEF TypeOK, RelType, WorkerType
<1>2. [pc |-> "calling", ok |-> FALSE] \in RelType
  BY DEF RelType, RelPc
<1>3. \A pc \in {"dropping", "creating"} : [run EXCEPT ![i] = pc] \in [Items -> RunPc]
  BY <1>1 DEF RunPc
<1>4. CASE BuyWrong(i) \/ (Buy(i) /\ Cancelled(i))
  <2>1. /\ item' = [item EXCEPT ![i].number = TRUE] /\ run[i] = "buying"
        /\ rel' = [rel EXCEPT ![i] = [pc |-> "calling", ok |-> FALSE]]
        /\ run' = [run EXCEPT ![i] = "dropping"] /\ UNCHANGED worker
    BY <1>4 DEF BuyWrong, Buy, Goto, outside
  <2>2. item' \in [Items -> Item]
    BY <1>1, <2>1 DEF Item
  <2>3. /\ item'[i].status = item[i].status /\ item'[i].out = item[i].out
        /\ item'[i].remoteId = item[i].remoteId /\ \A j \in Items \ {i} : item'[j] = item[j]
    BY <1>1, <2>1 DEF Item
  <2> QED
    BY <1>1, <1>2, <1>3, <2>1, <2>2, <2>3
<1>5. CASE Buy(i) /\ ~Cancelled(i)
  <2>1. /\ item' = [item EXCEPT ![i].number = TRUE, ![i].remoteId = TRUE, ![i].starting = TRUE]
        /\ worker' = [worker EXCEPT ![i] = "sent"] /\ run[i] = "buying"
        /\ run' = [run EXCEPT ![i] = "creating"] /\ UNCHANGED rel
    BY <1>5 DEF Buy, Goto
  <2>2. item' \in [Items -> Item]
    BY <1>1, <2>1 DEF Item
  <2>3. /\ item'[i].status = item[i].status /\ item'[i].out = item[i].out
        /\ item'[i].remoteId /\ \A j \in Items \ {i} : item'[j] = item[j]
    BY <1>1, <2>1 DEF Item
  <2>4. worker' \in WorkerType
    BY <1>1, <2>1 DEF WorkerType
  <2> QED
    BY <1>1, <1>3, <2>1, <2>2, <2>3, <2>4 DEF WorkerType
<1> QED
  BY <1>4, <1>5

LEMMA TypeInit == Init => TypeOK
<1> SUFFICES ASSUME Init PROVE TypeOK
  OBVIOUS
<1>1. item \in [Items -> Item]
  BY DEF Init, Item, Statuses, Terminal, Active
<1>2. run \in [Items -> RunPc] /\ rel \in [Items -> [pc: RelPc, ok: BOOLEAN]]
  BY DEF Init, RunPc, RelPc
<1>3. faults \in 0 .. MaxFaults /\ crashes \in 0 .. MaxCrashes
  BY SmsAssumption DEF Init
<1> QED
  BY <1>1, <1>2, <1>3 DEF Init, TypeOK, Statuses, Active, Known

\* Steps of the loop that runs an item.
LEMMA TypeProceeds ==
  ASSUME TypeOK, NEW i \in Items, Proceeds(i)
  PROVE  TypeOK'
<1>1. item[i] \in Item /\ item \in [Items -> Item] /\ run \in [Items -> RunPc]
      /\ rel \in [Items -> RelType] /\ worker \in WorkerType
  BY DEF TypeOK, RelType, WorkerType
<1>2. CASE Buy(i)
  BY <1>2, BuyFacts DEF Buy, TypeOK, calls, RelType, WorkerType
<1>3. CASE WakeUp(i)
  <2>1. CASE Cancelled(i)
    <3>1. Catch(i)
      BY <1>3, <2>1 DEF WakeUp
    <3>2. Ends(i) /\ run' \in [Items -> RunPc]
          /\ chase' \in [Items -> {"none", "calling", "finishing"}]
      BY <1>1, <3>1, CatchEnds DEF RunPc
    <3> QED
      BY <1>3, <3>2 DEF WakeUp, Ends, TypeOK, calls, outside, RelType
  <2>2. CASE ~Cancelled(i)
    <3>1. run' \in [Items -> RunPc]
      BY <1>1, <1>3, <2>2 DEF WakeUp, Goto, RunPc
    <3> QED
      BY <1>3, <2>2, <3>1 DEF WakeUp, TypeOK, calls, outside
  <2> QED
    BY <2>1, <2>2
<1>4. CASE Dropped(i)
  <2>1. Ends(i) /\ run' \in [Items -> RunPc]
        /\ chase' \in [Items -> {"none", "calling", "finishing"}]
    BY <1>1, <1>4, CatchEnds DEF RunPc, Dropped
  <2> QED
    BY <1>4, <2>1 DEF Dropped, Ends, TypeOK, calls, outside, RelType
<1>5. CASE Created(i)
  <2>1. item' \in [Items -> Item]
    BY <1>1, <1>5 DEF Created, Item
  <2>2. run' \in [Items -> RunPc] /\ chase' \in [Items -> {"none", "calling", "finishing"}]
    BY <1>1, <1>5, ChasingType DEF Created, Goto, RunPc, TypeOK
  <2> QED
    BY <1>5, <2>1, <2>2 DEF Created, TypeOK, calls, outside
<1>6. CASE ProbeFails(i)
  <2>1. run' \in [Items -> RunPc] /\ faults' \in 0 .. MaxFaults
    BY <1>1, <1>6, FaultType DEF ProbeFails, Goto, RunPc, TypeOK
  <2> QED
    BY <1>6, <2>1 DEF ProbeFails, TypeOK, calls
<1>7. CASE Uncreated(i)
  <2>1. worker' \in WorkerType /\ faults' \in 0 .. MaxFaults
    BY <1>7, CancelFacts DEF Uncreated
  <2>2. /\ Ends(i) /\ run' \in [Items -> RunPc]
        /\ chase' \in [Items -> {"none", "calling", "finishing"}]
    <3>1. CASE Cancelled(i)
      <4>1. Ends(i)
        BY <1>7, <3>1, FinishEnds DEF Uncreated
      <4> QED
        BY <1>1, <1>7, <3>1, <4>1 DEF Uncreated, Return, Goto, RunPc, TypeOK
    <3>2. CASE ~Cancelled(i)
      BY <1>1, <1>7, <3>2, CatchEnds DEF Uncreated, RunPc
    <3> QED
      BY <3>1, <3>2
  <2> QED
    BY <1>7, <2>1, <2>2 DEF Uncreated, Ends, TypeOK, calls, RelType, WorkerType
<1>8. CASE Poll(i)
  <2>1. CASE Cancelled(i)
    <3>1. run' \in [Items -> RunPc] /\ chase' \in [Items -> {"none", "calling", "finishing"}]
      BY <1>1, <1>8, <2>1, ChasingType DEF Poll, Goto, RunPc
    <3> QED
      BY <1>8, <2>1, <3>1 DEF Poll, TypeOK, calls, outside
  <2>2. CASE ~Cancelled(i) /\ worker[i] # "failed"
    <3>1. PICK s \in {"completed", "cancelled"} : Finish(i, s)
      BY <1>8, <2>2 DEF Poll
    <3>2. Ends(i) /\ run' \in [Items -> RunPc]
      BY <1>1, <1>8, <2>2, <3>1, FinishEnds DEF Poll, Return, Goto, RunPc
    <3> QED
      BY <1>8, <2>2, <3>2 DEF Poll, Ends, TypeOK, calls, outside, RelType
  <2>3. CASE ~Cancelled(i) /\ worker[i] = "failed"
    <3>1. Catch(i)
      BY <1>8, <2>3 DEF Poll
    <3>2. Ends(i) /\ run' \in [Items -> RunPc]
          /\ chase' \in [Items -> {"none", "calling", "finishing"}]
      BY <1>1, <3>1, CatchEnds DEF RunPc
    <3> QED
      BY <1>8, <3>2 DEF Poll, Ends, TypeOK, calls, outside, RelType
  <2> QED
    BY <2>1, <2>2, <2>3
<1>9. CASE Retracted(i)
  <2>1. worker' \in WorkerType /\ faults' \in 0 .. MaxFaults
    BY <1>9, CancelFacts DEF Retracted
  <2>2. PICK s \in {"failed", "cancelled"} : Finish(i, s)
    BY <1>9 DEF Retracted
  <2>3. Ends(i) /\ run' \in [Items -> RunPc]
    BY <1>1, <1>9, <2>2, FinishEnds DEF Retracted, Return, Goto, RunPc
  <2> QED
    BY <1>9, <2>1, <2>3 DEF Retracted, Ends, TypeOK, calls, RelType, WorkerType
<1>10. CASE RunEnds(i)
  <2>1. item' \in [Items -> Item] /\ run' \in [Items -> RunPc]
    BY <1>1, <1>10 DEF RunEnds, Item, RunPc, Statuses, Active
  <2>2. task' \in Statuses
    BY <1>1, <1>10, RecomputeFacts DEF RunEnds, TypeOK
  <2> QED
    BY <1>10, <2>1, <2>2 DEF RunEnds, TypeOK, calls, outside
<1> QED
  BY <1>2, <1>3, <1>4, <1>5, <1>6, <1>7, <1>8, <1>9, <1>10 DEF Proceeds

\* Steps that fail, and what the loops that cancel and release do.
LEMMA TypeOthers ==
  ASSUME TypeOK, NEW i \in Items,
         \/ Chases(i) \/ Releases(i) \/ RetryRelease(i) \/ Fails(i)
         \/ Refresh(i) \/ Recover(i) \/ WorkerAnswers(i)
  PROVE  TypeOK'
<1>1. item[i] \in Item /\ item \in [Items -> Item] /\ run \in [Items -> RunPc]
      /\ rel \in [Items -> RelType] /\ worker \in WorkerType
      /\ chase \in [Items -> {"none", "calling", "finishing"}]
      /\ timer \in [Items -> BOOLEAN] /\ told \in [Items -> SUBSET Told]
  BY DEF TypeOK, RelType, WorkerType
<1>2. CASE BuyWrong(i)
  BY <1>2, BuyFacts, FaultType DEF BuyWrong, TypeOK, calls, RelType, WorkerType
<1>3. CASE BuyNothing(i)
  <2>1. run' \in [Items -> RunPc] /\ faults' \in 0 .. MaxFaults
    BY <1>1, <1>3, FaultType DEF BuyNothing, Goto, RunPc
  <2> QED
    BY <1>3, <2>1 DEF BuyNothing, TypeOK, calls
<1>4. CASE BuyFails(i) \/ PollFails(i)
  <2>1. Catch(i) /\ Fault
    BY <1>4 DEF BuyFails, PollFails
  <2>2. Ends(i) /\ run' \in [Items -> RunPc] /\ faults' \in 0 .. MaxFaults
        /\ chase' \in [Items -> {"none", "calling", "finishing"}]
    BY <1>1, <2>1, CatchEnds, FaultType DEF RunPc
  <2> QED
    BY <1>4, <2>2 DEF BuyFails, PollFails, Ends, TypeOK, calls, RelType
<1>5. CASE CreateFails(i)
  <2>1. run' \in [Items -> RunPc] /\ faults' \in 0 .. MaxFaults
    BY <1>1, <1>5, FaultType DEF CreateFails, Goto, RunPc, TypeOK
  <2> QED
    BY <1>5, <2>1 DEF CreateFails, TypeOK, calls
<1>6. CASE ChaseRejected(i)
  <2>1. worker' \in WorkerType /\ faults' \in 0 .. MaxFaults
    BY <1>6, CancelFacts DEF ChaseRejected
  <2>2. item' \in [Items -> Item] /\ chase' \in [Items -> {"none", "calling", "finishing"}]
    BY <1>1, <1>6 DEF ChaseRejected, Item
  <2> QED
    BY <1>6, <2>1, <2>2 DEF ChaseRejected, TypeOK, calls, WorkerType
<1>7. CASE ReleaseFails(i)
  <2>1. rel' \in [Items -> RelType] /\ timer' \in [Items -> BOOLEAN] /\ faults' \in 0 .. MaxFaults
    BY <1>1, <1>7, FaultType DEF ReleaseFails, RelType, RelPc
  <2>2. relay' \in [Items -> Busy \cup {"none", "queued"}]
    BY <1>7, RelayNextType DEF ReleaseFails
  <2> QED
    BY <1>7, <2>1, <2>2 DEF ReleaseFails, TypeOK, calls, RelType
<1>8. CASE ChaseAccepted(i)
  <2>1. worker' \in WorkerType /\ faults' \in 0 .. MaxFaults
    BY <1>8, CancelFacts DEF ChaseAccepted
  <2>2. Ends(i) /\ chase' \in [Items -> {"none", "calling", "finishing"}]
    BY <1>1, <1>8, FinishEnds DEF ChaseAccepted
  <2> QED
    BY <1>8, <2>1, <2>2 DEF ChaseAccepted, Ends, TypeOK, calls, RelType, WorkerType
<1>9. CASE ChaseEnds(i)
  <2>1. chase' \in [Items -> {"none", "calling", "finishing"}]
    BY <1>1, <1>9 DEF ChaseEnds
  <2> QED
    BY <1>9, <2>1 DEF ChaseEnds, TypeOK, calls, outside
<1>10. CASE HeroReleases(i)
  <2>1. told' \in [Items -> SUBSET Told]
    BY <1>1, <1>10 DEF HeroReleases, Verdict, Told
  <2> QED
    BY <1>10, <2>1 DEF HeroReleases, TypeOK, service, calls
<1>11. CASE Released(i)
  <2>1. item' \in [Items -> Item] /\ rel' \in [Items -> RelType] /\ timer' \in [Items -> BOOLEAN]
    BY <1>1, <1>11 DEF Released, Item, RelType, RelPc
  <2>2. relay' \in [Items -> Busy \cup {"none", "queued"}]
    BY <1>11, RelayNextType DEF Released
  <2> QED
    BY <1>11, <2>1, <2>2 DEF Released, TypeOK, calls, outside, RelType
<1>12. CASE RetryRelease(i)
  <2>1. timer' \in [Items -> BOOLEAN]
    BY <1>1, <1>12 DEF RetryRelease
  <2>2. Good \in [Items -> BOOLEAN] /\ {i} \in SUBSET Items
    BY DEF Good
  <2>3. rel' \in [Items -> RelType]
    BY <1>12, <2>2, AskedFacts DEF RetryRelease
  <2> QED
    BY <1>12, <2>1, <2>3 DEF RetryRelease, TypeOK, calls, outside, RelType
<1>13. CASE Refresh(i)
  <2>1. CASE item' = [item EXCEPT ![i].starting = FALSE] /\ UNCHANGED <<task, rel>>
    <3>1. item' \in [Items -> Item]
      BY <1>1, <2>1 DEF Item
    <3> QED
      BY <1>13, <2>1, <3>1 DEF Refresh, TypeOK, calls, outside
  <2>2. CASE \E s \in {"completed", "failed", "cancelled"} : Finish(i, s)
    <3>1. Ends(i)
      BY <2>2, FinishEnds
    <3> QED
      BY <1>13, <3>1 DEF Refresh, Ends, TypeOK, calls, outside, RelType
  <2> QED
    BY <1>13, <2>1, <2>2 DEF Refresh
<1>14. CASE Recover(i)
  <2>1. worker' \in WorkerType /\ faults' \in 0 .. MaxFaults
    BY <1>14, CancelFacts DEF Recover
  <2>2. Bad \in [Items -> BOOLEAN] /\ {i} \in SUBSET Items
    BY DEF Bad
  <2>3. rel' \in [Items -> RelType]
    BY <1>14, <2>2, AskedFacts DEF Recover
  <2>4. rec' \in SUBSET Items
    BY <1>14 DEF Recover, TypeOK
  <2> QED
    BY <1>14, <2>1, <2>3, <2>4 DEF Recover, TypeOK, RelType, WorkerType
<1>15. CASE WorkerAnswers(i)
  <2>1. \E s \in Known \cup {"refused"} : worker' = [worker EXCEPT ![i] = s]
    BY <1>15 DEF WorkerAnswers, Known
  <2>2. worker' \in WorkerType
    BY <1>1, <2>1 DEF WorkerType
  <2> QED
    BY <1>15, <2>2 DEF WorkerAnswers, TypeOK, service, calls, WorkerType
<1> QED
  BY <1>2, <1>3, <1>4, <1>5, <1>6, <1>7, <1>8, <1>9, <1>10, <1>11, <1>12, <1>13, <1>14, <1>15
  DEF Chases, Releases, Fails

\* Steps of relay calls.
LEMMA TypeRelays ==
  ASSUME TypeOK, NEW i \in Items, Relays(i)
  PROVE  TypeOK'
<1>1. item[i] \in Item /\ item \in [Items -> Item] /\ rel \in [Items -> RelType]
      /\ relay \in [Items -> Busy \cup {"none", "queued"}] /\ told \in [Items -> SUBSET Told]
  BY DEF TypeOK, RelType
<1>6. \A s \in {"started", "resent", "delivered"} :
          [item EXCEPT ![i].starting = FALSE, ![i].sms = s] \in [Items -> Item]
  <2> SUFFICES ASSUME NEW s \in {"started", "resent", "delivered"}
               PROVE  [item EXCEPT ![i].starting = FALSE, ![i].sms = s] \in [Items -> Item]
    OBVIOUS
  <2>1. [item[i] EXCEPT !.starting = FALSE, !.sms = s] \in Item
    BY <1>1 DEF Item
  <2>2. [item EXCEPT ![i].starting = FALSE, ![i].sms = s]
            = [item EXCEPT ![i] = [item[i] EXCEPT !.starting = FALSE, !.sms = s]]
    BY <1>1
  <2> QED
    BY <1>1, <2>1, <2>2
<1>2. CASE \E resend \in BOOLEAN : RelayCall(i, resend)
  <2>1. PICK resend \in BOOLEAN : RelayCall(i, resend)
    BY <1>2
  <2>2. relay' \in [Items -> Busy \cup {"none", "queued"}]
    BY <1>1, <2>1 DEF RelayCall, Busy, Item
  <2> QED
    BY <2>1, <2>2 DEF RelayCall, TypeOK, calls, outside
<1>3. CASE Armed(i)
  <2>1. told' \in [Items -> SUBSET Told]
    BY <1>1, <1>3 DEF Armed, Told
  <2>2. CASE Open(i)
    <3>1. \E s \in {"started", "resent"} :
              item' = [item EXCEPT ![i].starting = FALSE, ![i].sms = s]
      BY <1>3, <2>2 DEF Armed
    <3>3. item' \in [Items -> Item]
      BY <1>6, <3>1
    <3>2. relay' \in [Items -> Busy \cup {"none", "queued"}]
      BY <1>1, <1>3, <2>2 DEF Armed, Busy
    <3> QED
      BY <1>3, <2>1, <2>2, <3>2, <3>3 DEF Armed, TypeOK, calls
  <2>3. CASE ~Open(i)
    BY <1>3, <2>1, <2>3, RelayEndsFacts DEF Armed, TypeOK, calls, RelType
  <2> QED
    BY <2>2, <2>3
<1>4. CASE CodeArrives(i)
  <2>1. \/ item' = [item EXCEPT ![i].starting = FALSE, ![i].sms = "delivered"]
        \/ item' = item
    BY <1>4 DEF CodeArrives
  <2>2. item' \in [Items -> Item]
    BY <1>1, <1>6, <2>1
  <2> QED
    BY <1>4, <2>2, RelayEndsFacts DEF CodeArrives, TypeOK, calls, outside, RelType
<1>5. CASE NoCode(i)
  BY <1>5, RelayEndsFacts DEF NoCode, TypeOK, calls, outside, RelType
<1> QED
  BY <1>2, <1>3, <1>4, <1>5 DEF Relays

\* Steps of the service as a whole.
LEMMA TypeWhole ==
  ASSUME TypeOK,
         Cancel \/ CancelReturns \/ View \/ ViewEnds \/ Restart \/ RecoverPending \/ Recovered
  PROVE  TypeOK'
<1>1. item \in [Items -> Item] /\ task \in Statuses /\ rel \in [Items -> RelType]
  BY DEF TypeOK, RelType
<1>2. \A i \in Items, s \in Statuses :
          /\ [item[i] EXCEPT !.status = s] \in Item
          /\ [item[i] EXCEPT !.status = s, !.starting = FALSE] \in Item
  BY <1>1 DEF Item
<1>3. Good \in [Items -> BOOLEAN] /\ Bad \in [Items -> BOOLEAN]
  BY DEF Good, Bad
<1>4. CASE Cancel
  <2> DEFINE hit == {i \in Items : item[i].status \in Active}
  <2>1. item' \in [Items -> Item]
    BY <1>1, <1>2, <1>4 DEF Cancel, Statuses, Active
  <2>2. rel' \in [Items -> RelType]
    <3>1. rel' = Asked(hit, Bad) /\ hit \in SUBSET Items
      BY <1>4 DEF Cancel
    <3> QED
      BY <1>3, <3>1, AskedFacts
  <2>3. call' \in [pc: {"none", "releasing"}, asked: SUBSET Items,
                   queued: SUBSET Items, chased: SUBSET Items]
    <3>1. call' = [pc |-> "releasing", asked |-> {i \in hit : rel'[i].pc # "none"},
                   queued |-> {i \in hit : item[i].status = "queued"},
                   chased |-> {i \in hit : item[i].remoteId /\ ~item[i].starting}]
      BY <1>4 DEF Cancel
    <3> QED
      BY <3>1
  <2> QED
    BY <1>4, <2>1, <2>2, <2>3 DEF Cancel, TypeOK, outside, RelType, Statuses, Active
<1>5. CASE CancelReturns
  <2>1. item' \in [Items -> Item]
    BY <1>1, <1>2, <1>5 DEF CancelReturns, Statuses, Terminal
  <2>2. Recompute(task, item') \in Statuses
    BY <1>1, <2>1, RecomputeFacts
  <2>3. task' \in Statuses
    BY <1>1, <1>5, <2>1, <2>2, RecomputeFacts DEF CancelReturns
  <2> QED
    BY <1>5, <2>1, <2>3, ChasingType DEF CancelReturns, TypeOK, outside
<1>6. CASE View
  BY <1>6 DEF View, TypeOK, outside
<1>7. CASE ViewEnds
  <2>1. task' \in Statuses
    BY <1>1, <1>7, RecomputeFacts DEF ViewEnds
  <2> QED
    BY <1>7, <2>1 DEF ViewEnds, TypeOK, outside
<1>8. CASE Restart
  <2> DEFINE hit == {i \in Items : item[i].status \in Active}
  <2>1. crashes' \in 0 .. MaxCrashes
    <3>1. crashes \in 0 .. MaxCrashes /\ MaxCrashes \in Nat
      BY SmsAssumption DEF TypeOK
    <3>2. crashes < MaxCrashes /\ crashes' = crashes + 1
      BY <1>8 DEF Restart
    <3> QED
      BY <3>1, <3>2
  <2>2. /\ run' \in [Items -> RunPc] /\ relay' \in [Items -> Busy \cup {"none", "queued"}]
        /\ timer' \in [Items -> BOOLEAN] /\ chase' \in [Items -> {"none", "calling", "finishing"}]
    BY <1>8 DEF Restart, RunPc
  <2>3. call' \in [pc: {"none", "releasing"}, asked: SUBSET Items,
                   queued: SUBSET Items, chased: SUBSET Items]
    BY <1>8 DEF Restart
  <2>4. UNCHANGED <<worker, told, faults>> /\ viewing' = FALSE
    BY <1>8 DEF Restart
  <2>5. CASE task \in Terminal
    <3>1. boot' = "pending" /\ rec' = {} /\ rel' = Pending /\ UNCHANGED <<task, item>>
      BY <1>8, <2>5 DEF Restart
    <3>2. Pending \in [Items -> [pc: RelPc, ok: BOOLEAN]]
      BY <1>3 DEF Pending, RelPc
    <3> QED
      BY <2>1, <2>2, <2>3, <2>4, <3>1, <3>2 DEF TypeOK
  <2>6. CASE task \notin Terminal
    <3>1. /\ boot' = "items" /\ task' = "interrupted"
          /\ item' = [i \in Items |-> IF i \in hit
                 THEN [item[i] EXCEPT !.status = "interrupted", !.starting = FALSE]
                 ELSE item[i]]
          /\ rec' = {i \in hit : item[i].remoteId}
          /\ rel' = [i \in Items |->
                 [pc |-> IF i \in hit \ rec' /\ Held(i) THEN "calling" ELSE "none",
                  ok |-> FALSE]]
      BY <1>8, <2>6 DEF Restart
    <3>2. item' \in [Items -> Item]
      BY <1>1, <1>2, <3>1 DEF Statuses, Terminal
    <3>3. rel' \in [Items -> [pc: RelPc, ok: BOOLEAN]]
      BY <3>1 DEF RelPc
    <3>4. rec' \in SUBSET Items
      BY <3>1
    <3> HIDE DEF hit
    <3> QED
      BY <2>1, <2>2, <2>3, <2>4, <3>1, <3>2, <3>3, <3>4 DEF TypeOK, Statuses, Terminal
  <2> QED
    BY <2>5, <2>6
<1>9. CASE RecoverPending
  <2>1. task' \in Statuses /\ rel' \in [Items -> RelType]
    BY <1>1, <1>3, <1>9, RecomputeFacts, AskedFacts DEF RecoverPending
  <2> QED
    BY <1>9, <2>1 DEF RecoverPending, TypeOK, outside, RelType
<1>10. CASE Recovered
  BY <1>10 DEF Recovered, TypeOK, outside
<1> QED
  BY <1>4, <1>5, <1>6, <1>7, <1>8, <1>9, <1>10

LEMMA TypeStep == TypeOK /\ [Next]_vars => TypeOK'
<1> SUFFICES ASSUME TypeOK, [Next]_vars PROVE TypeOK'
  OBVIOUS
<1>1. CASE UNCHANGED vars
  BY <1>1 DEF vars, service, calls, outside, TypeOK
<1> QED
  BY <1>1, TypeProceeds, TypeOthers, TypeRelays, TypeWhole DEF Next

\* Every variable of the service keeps its type.
THEOREM TypeCorrect == Spec => []TypeOK
  BY TypeInit, TypeStep, PTL DEF Spec


--------------------------------------------------------------------------------
(* What each step keeps of the items.                                        *)

Same(i) ==
    /\ item'[i] = item[i] /\ run'[i] = run[i] /\ rel'[i] = rel[i] /\ relay'[i] = relay[i]
    /\ timer'[i] = timer[i] /\ worker'[i] = worker[i] /\ told'[i] = told[i]
    /\ i \in rec' => i \in rec

LEMMA SameKept ==
  ASSUME NEW i \in Items, Safe(i), Same(i)
  PROVE  Kept(i)
<1>1. Early(i)'
  BY DEF Safe, Early, Same
<1>2. Releasing(i)'
  BY DEF Safe, Releasing, GivenUp, Same
<1>3. Apart(i)'
  BY DEF Safe, Apart, Same
<1> QED
  BY <1>1, <1>2, <1>3 DEF Kept, Safe, Same

\* A status, once lost, and a release that follows it.
LEMMA StatusFacts ==
  ASSUME TypeOK, NEW i \in Items
  PROVE  /\ item[i] \in Item /\ rel[i] \in RelType
         /\ item[i].status \in Lost \cup {"queued", "running", "completed"}
         /\ item[i].status \in Terminal <=> item[i].status \in (Lost \cup {"completed"}) \ {"cancel_requested"}
         /\ item[i].status \in Active <=> item[i].status \in {"queued", "running", "cancel_requested"}
         /\ GivenUp(i) => item[i].status \notin {"completed", "queued"}
  BY DEF TypeOK, RelType, Item, Statuses, Terminal, Active, Lost, GivenUp

\* finishItem, or the handler of an error, with what goes with it.
LEMMA EndsKept ==
  ASSUME TypeOK, NEW i \in Items, Safe(i), Ends(i),
         item'[i].status = "completed" =>
             \/ item[i].status = "completed"
             \/ worker[i] = "succeeded" /\ item[i].status \in {"queued", "running"},
         worker'[i] = worker[i] \/ (worker[i] = "active" /\ worker'[i] = "told"),
         told'[i] = told[i], timer'[i] = timer[i], relay'[i] = relay[i], i \in rec' => i \in rec,
         \/ run'[i] = run[i]
         \/ /\ run'[i] \notin {"buying", "napping", "dropping"}
            /\ item'[i].status \in Terminal \/ item[i].remoteId
  PROVE  Kept(i)
<1>1. /\ item[i].status \in Lost \cup {"queued", "running", "completed"}
      /\ rel[i] \in RelType
  BY StatusFacts
<1>2. \/ item'[i].status = item[i].status
      \/ /\ item[i].status \in {"queued", "running", "cancel_requested"}
         /\ item'[i].status \in {"completed", "failed", "cancelled"}
  BY DEF Ends, Active
<1>3. GivenUp(i) => GivenUp(i)'
  BY <1>1, <1>2 DEF GivenUp, Lost, Ends, Safe, Early, Terminal
<1>4. item[i].status = "completed" => item'[i].status = "completed"
  BY <1>2
<1>5. Early(i)'
  BY <1>1, <1>2 DEF Safe, Early, Ends, Lost
<1>6. rel'[i].pc # "none" =>
          IF rel'[i].ok THEN item'[i].status = "completed" ELSE GivenUp(i)'
  <2>1. CASE rel'[i] = rel[i]
    BY <1>3, <1>4, <2>1 DEF Safe, Releasing
  <2>2. CASE item'[i].status \in Terminal /\ rel'[i].ok = (item'[i].status = "completed")
    BY <2>2 DEF Terminal, GivenUp, Lost
  <2> QED
    BY <2>1, <2>2 DEF Ends
<1>7. Releasing(i)'
  BY <1>3, <1>4, <1>6 DEF Safe, Releasing, Ends
<1>8. Apart(i)'
  BY DEF Safe, Apart, Ends
<1>9. i \in rec' => item'[i].status = "interrupted"
  BY <1>2 DEF Safe
<1> QED
  BY <1>2, <1>5, <1>7, <1>8, <1>9 DEF Kept, Safe, Terminal

\* The handler of an error, and finishItem for a verdict other than "completed".
LEMMA CatchKept ==
  ASSUME TypeOK, \A j \in Items : Safe(j), NEW i \in Items, Catch(i),
         UNCHANGED <<relay, timer, told, rec>>,
         \A j \in Items : \/ worker'[j] = worker[j]
                          \/ worker[j] = "active" /\ worker'[j] = "told",
         \A j \in Items \ {i} : worker'[j] = worker[j]
  PROVE  \A j \in Items : Kept(j)
<1>0. relay' = relay /\ timer' = timer /\ told' = told /\ rec' = rec
  OBVIOUS
<1>1. /\ Ends(i)
      /\ item'[i].status \in Terminal \/ item[i].remoteId
      /\ item'[i].status = "completed" => item[i].status = "completed"
  BY CatchEnds
<1>2. PICK pc \in {"finishing", "returned", "chasing", "disowning", "retracting"} :
          run' = [run EXCEPT ![i] = pc]
  BY CatchEnds
<1>3. run'[i] = pc /\ \A j \in Items \ {i} : run'[j] = run[j]
  BY <1>2 DEF TypeOK
<1>4. \A j \in Items \ {i} : Same(j)
  BY <1>0, <1>1, <1>3 DEF Ends, Same
<1>5. Kept(i)
  BY <1>0, <1>1, <1>3, EndsKept
<1> QED
  BY <1>4, <1>5, SameKept

LEMMA FinishKept ==
  ASSUME TypeOK, \A j \in Items : Safe(j), NEW i \in Items,
         NEW s \in {"completed", "failed", "cancelled"}, Finish(i, s),
         s = "completed" => worker[i] = "succeeded",
         UNCHANGED <<relay, timer, told, rec>>,
         \A j \in Items : \/ worker'[j] = worker[j]
                          \/ worker[j] = "active" /\ worker'[j] = "told",
         \A j \in Items \ {i} : worker'[j] = worker[j],
         run' = run \/ Return(i)
  PROVE  \A j \in Items : Kept(j)
<1>0. relay' = relay /\ timer' = timer /\ told' = told /\ rec' = rec
  OBVIOUS
<1>1. /\ Ends(i) /\ item'[i].status \in Terminal
      /\ item'[i].status = "completed" =>
             \/ item[i].status = "completed"
             \/ worker[i] = "succeeded" /\ item[i].status \in {"queued", "running"}
  BY FinishEnds
<1>2. /\ run'[i] = run[i] \/ run'[i] \in {"finishing", "returned"}
      /\ \A j \in Items \ {i} : run'[j] = run[j]
  BY DEF Return, Goto, TypeOK
<1>3. \A j \in Items \ {i} : Same(j)
  BY <1>0, <1>1, <1>2 DEF Ends, Same
<1>4. Kept(i)
  BY <1>0, <1>1, <1>2, EndsKept
<1> QED
  BY <1>3, <1>4, SameKept

\* cancelTask touches the worker's task for one item.
LEMMA CancelSame ==
  ASSUME TypeOK, NEW i \in Items, CancelAccepted(i) \/ CancelRejected(i)
  PROVE  \A j \in Items \ {i} : worker'[j] = worker[j]
  BY DEF CancelAccepted, CancelRejected, TypeOK

\* A number was bought.
LEMMA BuyKept ==
  ASSUME TypeOK, \A j \in Items : Safe(j), NEW i \in Items, Buy(i) \/ BuyWrong(i)
  PROVE  \A j \in Items : Kept(j)
<1>1. UNCHANGED <<relay, timer, told, rec>>
  BY DEF Buy, BuyWrong, calls
<1>2. \A j \in Items \ {i} : Same(j)
  BY <1>1, BuyFacts DEF Same
<1>3. /\ run[i] = "buying" /\ item'[i].status = item[i].status /\ item'[i].out = item[i].out
      /\ \/ /\ run'[i] = "dropping" /\ item'[i].remoteId = item[i].remoteId
            /\ rel'[i] = [pc |-> "calling", ok |-> FALSE] /\ worker'[i] = worker[i]
         \/ /\ run'[i] = "creating" /\ item'[i].remoteId
            /\ rel'[i] = rel[i] /\ worker'[i] = "sent"
  BY BuyFacts
<1>4. ~item[i].remoteId /\ item[i].status \in Lost \cup {"running"}
  BY <1>3, StatusFacts DEF Safe, Early
<1>5. Early(i)'
  BY <1>1, <1>3, <1>4 DEF Safe, Early, Lost
<1>6. GivenUp(i) => GivenUp(i)'
  BY <1>3 DEF GivenUp
<1>7. run'[i] = "dropping" => GivenUp(i)'
  BY <1>3, <1>4 DEF GivenUp
<1>8. item[i].status # "completed"
  BY <1>4 DEF Lost
<1>9. Releasing(i)'
  BY <1>1, <1>3, <1>6, <1>7, <1>8 DEF Safe, Releasing
<1>10. relay'[i] \notin Busy
  BY <1>1, <1>4 DEF Safe, Early, Busy
<1>11. Apart(i)'
  BY <1>10 DEF Apart
<1>12. Kept(i)
  BY <1>1, <1>3, <1>5, <1>9, <1>11 DEF Kept, Safe
<1> QED
  BY <1>2, <1>12, SameKept

\* The loop moves on, and the row at most forgets "starting_worker".
LEMMA MovesKept ==
  ASSUME TypeOK, \A j \in Items : Safe(j), NEW i \in Items,
         \/ item' = item
         \/ item' = [item EXCEPT ![i].starting = FALSE],
         \A j \in Items \ {i} : run'[j] = run[j],
         \/ run'[i] = run[i]
         \/ /\ run[i] # "dropping"
            /\ run'[i] \in {"buying", "napping"} => run[i] \in {"buying", "napping"}
            /\ run'[i] # "dropping",
         \A j \in Items : \/ worker'[j] = worker[j]
                          \/ worker[j] \notin {"none", "succeeded"},
         \A j \in Items \ {i} : worker'[j] = worker[j],
         UNCHANGED <<rel, relay, timer, told, rec>>
  PROVE  \A j \in Items : Kept(j)
<1>1. /\ item'[i].status = item[i].status /\ item'[i].out = item[i].out
      /\ item'[i].remoteId = item[i].remoteId
      /\ \A j \in Items \ {i} : item'[j] = item[j]
  BY StatusFacts DEF TypeOK, Item
<1>2. \A j \in Items \ {i} : Same(j)
  BY <1>1 DEF Same
<1>3. GivenUp(i) => GivenUp(i)'
  BY <1>1 DEF GivenUp
<1>4. Early(i)'
  BY <1>1 DEF Safe, Early
<1>5. Releasing(i)'
  BY <1>1, <1>3 DEF Safe, Releasing
<1>6. Apart(i)'
  BY DEF Safe, Apart
<1>7. Kept(i)
  BY <1>1, <1>4, <1>5, <1>6 DEF Kept, Safe
<1> QED
  BY <1>2, <1>7, SameKept
\* The loop of an item takes the next one.
LEMMA RunEndsKept ==
  ASSUME TypeOK, \A j \in Items : Safe(j), NEW i \in Items, RunEnds(i)
  PROVE  \A j \in Items : Kept(j)
<1> SUFFICES ASSUME NEW j \in Items PROVE Kept(j)
  OBVIOUS
<1>1. /\ rel' = rel /\ relay' = relay /\ timer' = timer /\ worker' = worker
      /\ told' = told /\ rec' = rec
  BY DEF RunEnds, calls, outside
<1>2. \/ /\ item[j].status = "queued" /\ run'[j] = "buying"
         /\ item'[j] = [item[j] EXCEPT !.status = "running"]
      \/ item'[j] = item[j] /\ j = i /\ run'[j] = "done"
      \/ item'[j] = item[j] /\ run'[j] = run[j]
  BY DEF RunEnds
<1>3. item[j] \in Item
  BY StatusFacts
<1>4. CASE item'[j] = item[j] /\ run'[j] = run[j]
  BY <1>1, <1>4, SameKept DEF Same
<1>5. CASE item'[j] = item[j] /\ j = i /\ run'[j] = "done"
  <2>1. run[i] # "dropping"
    BY DEF RunEnds
  <2>2. Early(j)' /\ Apart(j)'
    BY <1>1, <1>5 DEF Safe, Early, Apart
  <2>3. GivenUp(j) => GivenUp(j)'
    BY <1>5, <2>1 DEF GivenUp
  <2>4. Releasing(j)'
    BY <1>1, <1>5, <2>3 DEF Safe, Releasing
  <2> QED
    BY <1>1, <1>5, <2>2, <2>4 DEF Kept, Safe
<1>6. CASE /\ item[j].status = "queued" /\ run'[j] = "buying"
           /\ item'[j] = [item[j] EXCEPT !.status = "running"]
  <2>1. /\ item'[j].status = "running" /\ item'[j].remoteId = item[j].remoteId
        /\ item'[j].out = item[j].out
    BY <1>3, <1>6 DEF Item
  <2>2. ~GivenUp(j)
    BY <1>6 DEF GivenUp, Lost
  <2>3. Early(j)'
    BY <1>1, <1>6, <2>1 DEF Safe, Early
  <2>4. Releasing(j)' /\ Apart(j)'
    BY <1>1, <1>6, <2>1, <2>2 DEF Safe, Releasing, Apart
  <2> QED
    BY <1>1, <1>6, <2>1, <2>3, <2>4 DEF Kept, Safe, Terminal
<1> QED
  BY <1>2, <1>4, <1>5, <1>6

LEMMA KeptProceeds ==
  ASSUME TypeOK, \A j \in Items : Safe(j), NEW i \in Items, Proceeds(i)
  PROVE  \A j \in Items : Kept(j)
<1>1. run \in [Items -> RunPc]
  BY DEF TypeOK
<1>2. CASE Buy(i)
  BY <1>2, BuyKept
<1>3. CASE WakeUp(i)
  <2>1. CASE Cancelled(i)
    BY <1>3, <2>1, CatchKept DEF WakeUp, calls, outside
  <2>2. CASE ~Cancelled(i)
    BY <1>1, <1>3, <2>2, MovesKept DEF WakeUp, Goto, calls, outside
  <2> QED
    BY <2>1, <2>2
<1>4. CASE Dropped(i)
  BY <1>4, CatchKept DEF Dropped, calls, outside
<1>5. CASE Created(i)
  BY <1>1, <1>5, MovesKept DEF Created, Goto, calls, outside
<1>6. CASE ProbeFails(i)
  BY <1>1, <1>6, MovesKept DEF ProbeFails, Goto, calls
<1>7. CASE Uncreated(i)
  <2>1. /\ \A j \in Items : worker'[j] = worker[j] \/ (worker[j] = "active" /\ worker'[j] = "told")
        /\ \A j \in Items \ {i} : worker'[j] = worker[j]
    BY <1>7, CancelFacts, CancelSame DEF Uncreated
  <2>2. CASE Cancelled(i)
    BY <1>7, <2>1, <2>2, FinishKept DEF Uncreated, calls
  <2>3. CASE ~Cancelled(i)
    BY <1>7, <2>1, <2>3, CatchKept DEF Uncreated, calls
  <2> QED
    BY <2>2, <2>3
<1>8. CASE Poll(i)
  <2>1. CASE Cancelled(i)
    BY <1>1, <1>8, <2>1, MovesKept DEF Poll, Goto, calls, outside
  <2>2. CASE ~Cancelled(i) /\ worker[i] # "failed"
    <3>1. PICK s \in {"completed", "cancelled"} :
              Finish(i, s) /\ (s = "completed" => worker[i] = "succeeded")
      BY <1>8, <2>2 DEF Poll
    <3> QED
      BY <1>8, <2>2, <3>1, FinishKept DEF Poll, calls, outside
  <2>3. CASE ~Cancelled(i) /\ worker[i] = "failed"
    BY <1>8, <2>3, CatchKept DEF Poll, calls, outside
  <2> QED
    BY <2>1, <2>2, <2>3
<1>9. CASE Retracted(i)
  <2>1. /\ \A j \in Items : worker'[j] = worker[j] \/ (worker[j] = "active" /\ worker'[j] = "told")
        /\ \A j \in Items \ {i} : worker'[j] = worker[j]
    BY <1>9, CancelFacts, CancelSame DEF Retracted
  <2>2. PICK s \in {"failed", "cancelled"} : Finish(i, s)
    BY <1>9 DEF Retracted
  <2> QED
    BY <1>9, <2>1, <2>2, FinishKept DEF Retracted, calls
<1>10. CASE RunEnds(i)
  BY <1>10, RunEndsKept
<1> QED
  BY <1>2, <1>3, <1>4, <1>5, <1>6, <1>7, <1>8, <1>9, <1>10 DEF Proceeds

\* HeroSMS carries a release out, and the answer reaches the service or not.
LEMMA HeroReleasesKept ==
  ASSUME TypeOK, \A j \in Items : Safe(j), NEW i \in Items, HeroReleases(i)
  PROVE  \A j \in Items : Kept(j)
<1>1. /\ item' = item /\ run' = run /\ rel' = rel /\ relay' = relay /\ timer' = timer
      /\ worker' = worker /\ rec' = rec
  BY DEF HeroReleases, service, calls
<1>2. /\ rel[i].pc = "calling" /\ told'[i] = told[i] \cup {Verdict(i)}
      /\ \A j \in Items \ {i} : told'[j] = told[j]
  BY DEF HeroReleases, TypeOK
<1>3. \A j \in Items \ {i} : Same(j)
  BY <1>1, <1>2 DEF Same
<1>4. Verdict(i) = IF rel[i].ok THEN "finish" ELSE "cancel"
  BY DEF Verdict
<1>5. Early(i)'
  BY <1>1 DEF Safe, Early
<1>6. GivenUp(i) <=> GivenUp(i)'
  BY <1>1 DEF GivenUp
<1>7. Releasing(i)'
  BY <1>1, <1>2, <1>4, <1>6 DEF Safe, Releasing
<1>8. Apart(i)'
  BY <1>1, <1>2 DEF Safe, Apart
<1>9. Kept(i)
  BY <1>1, <1>2, <1>4, <1>5, <1>7, <1>8 DEF Kept, Safe
<1> QED
  BY <1>3, <1>9, SameKept

LEMMA ReleasedKept ==
  ASSUME TypeOK, \A j \in Items : Safe(j), NEW i \in Items, Released(i) \/ ReleaseFails(i)
  PROVE  \A j \in Items : Kept(j)
<1>1. run' = run /\ worker' = worker /\ told' = told /\ rec' = rec /\ rel[i].pc = "calling"
  BY DEF Released, ReleaseFails, calls, outside
<1>2. /\ rel'[i].pc = "none"
      /\ \A j \in Items \ {i} : rel'[j] = rel[j] /\ timer'[j] = timer[j] /\ item'[j] = item[j]
  BY DEF Released, ReleaseFails, TypeOK
<1>3. PICK row : /\ relay' = RelayNext(i, row)
                 /\ row = item[i] \/ row.out # "none"
                 /\ row = item'[i]
  <2>1. CASE Released(i)
    <3>1. item' = [item EXCEPT ![i].out = IF rel[i].ok THEN "completed" ELSE "cancelled"]
      BY <2>1 DEF Released
    <3>2. item'[i].out # "none"
      BY <3>1, StatusFacts DEF TypeOK, Item
    <3> QED
      BY <2>1, <3>2 DEF Released
  <2>2. CASE ReleaseFails(i)
    BY <2>2 DEF ReleaseFails
  <2> QED
    BY <2>1, <2>2
<1>4. /\ \A j \in Items \ {i} : relay'[j] = relay[j]
      /\ relay'[i] # "none" => relay[i] # "none"
      /\ relay'[i] \in Busy => \/ relay[i] \in Busy
                               \/ row.status = "running" /\ row.out = "none"
  BY <1>3, RelayNextType
<1>5. \A j \in Items \ {i} : Same(j)
  BY <1>1, <1>2, <1>4 DEF Same
<1>6. item'[i].status = item[i].status /\ item'[i].remoteId = item[i].remoteId
  BY StatusFacts DEF Released, ReleaseFails, TypeOK, Item
<1>7. GivenUp(i) <=> GivenUp(i)'
  BY <1>1, <1>6 DEF GivenUp
<1>8. Early(i)'
  BY <1>1, <1>4, <1>6 DEF Safe, Early
<1>9. /\ timer'[i] => item[i].status = "completed" \/ GivenUp(i)
      /\ item'[i].out = "completed" => "finish" \in told[i]
      /\ item'[i].out = "cancelled" => "cancel" \in told[i]
  <2>1. item[i].status = "completed" \/ GivenUp(i)
    BY <1>1 DEF Safe, Releasing
  <2>2. CASE Released(i)
    <3>1. item' = [item EXCEPT ![i].out = IF rel[i].ok THEN "completed" ELSE "cancelled"]
      BY <2>2 DEF Released
    <3>2. item'[i].out = IF rel[i].ok THEN "completed" ELSE "cancelled"
      BY <3>1, StatusFacts DEF TypeOK, Item
    <3> QED
      BY <2>1, <2>2, <3>2 DEF Released, Verdict
  <2>3. CASE ReleaseFails(i)
    BY <2>1, <2>3 DEF ReleaseFails, Safe, Releasing
  <2> QED
    BY <2>2, <2>3
<1>10. Releasing(i)'
  BY <1>1, <1>2, <1>6, <1>7, <1>9 DEF Safe, Releasing
<1>11. Apart(i)'
  <2> SUFFICES ASSUME relay'[i] \in Busy
               PROVE  rel'[i].pc # "calling" /\ told'[i] \cap {"finish", "cancel"} = {}
    BY DEF Apart
  <2>1. relay[i] \notin Busy
    BY <1>1 DEF Safe, Apart
  <2>2. item[i].status = "running" /\ relay[i] # "none"
    BY <1>3, <1>4, <1>6, <2>1 DEF Busy
  <2>3. ~GivenUp(i)
    BY <2>2 DEF Safe, Early, GivenUp, Lost
  <2> QED
    BY <1>1, <1>2, <2>2, <2>3 DEF Safe, Releasing
<1>12. Kept(i)
  BY <1>1, <1>6, <1>8, <1>10, <1>11 DEF Kept, Safe
<1> QED
  BY <1>5, <1>12, SameKept
\* A release that was asked for, for an item whose verdict allows it.
LEMMA AskedKept ==
  ASSUME TypeOK, \A j \in Items : Safe(j), NEW S \in SUBSET Items, NEW ok \in [Items -> BOOLEAN],
         rel' = Asked(S, ok), UNCHANGED <<item, run, relay, told>>, rec' \in SUBSET rec,
         \A j \in Items : /\ timer'[j] => timer[j]
                          /\ \/ worker'[j] = worker[j]
                             \/ worker[j] = "active" /\ worker'[j] = "told",
         \A j \in S : IF ok[j] THEN item[j].status = "completed" ELSE GivenUp(j)
  PROVE  \A j \in Items : Kept(j)
<1> SUFFICES ASSUME NEW j \in Items PROVE Kept(j)
  OBVIOUS
<1>1. item' = item /\ run' = run /\ relay' = relay /\ told' = told
  OBVIOUS
<1>2. \/ rel'[j] = rel[j]
      \/ /\ j \in S /\ rel'[j].ok = ok[j]
         /\ rel'[j].pc = IF relay[j] \in Busy THEN "queued" ELSE "calling"
  BY AskedFacts
<1>3. Early(j)'
  BY <1>1 DEF Safe, Early
<1>4. GivenUp(j) <=> GivenUp(j)'
  BY <1>1 DEF GivenUp
<1>5. rel'[j].pc # "none" => IF rel'[j].ok THEN item[j].status = "completed" ELSE GivenUp(j)
  BY <1>2 DEF Safe, Releasing
<1>6. Releasing(j)'
  BY <1>1, <1>4, <1>5 DEF Safe, Releasing
<1>7. Apart(j)'
  BY <1>1, <1>2 DEF Safe, Apart
<1> QED
  BY <1>1, <1>3, <1>6, <1>7 DEF Kept, Safe

LEMMA WorkerKept ==
  ASSUME TypeOK, \A j \in Items : Safe(j), NEW i \in Items, WorkerAnswers(i)
  PROVE  \A j \in Items : Kept(j)
<1>1. \A j \in Items : worker'[j] = worker[j] \/ worker[j] \notin {"none", "succeeded"}
  BY DEF WorkerAnswers, TypeOK
<1>2. \A j \in Items \ {i} : worker'[j] = worker[j]
  BY DEF WorkerAnswers, TypeOK
<1> QED
  BY <1>1, <1>2, MovesKept DEF WorkerAnswers, service, calls

LEMMA KeptOthers ==
  ASSUME TypeOK, \A j \in Items : Safe(j), NEW i \in Items,
         \/ Chases(i) \/ Releases(i) \/ RetryRelease(i) \/ Fails(i)
         \/ Refresh(i) \/ Recover(i) \/ WorkerAnswers(i)
  PROVE  \A j \in Items : Kept(j)
<1>1. run \in [Items -> RunPc] /\ timer \in [Items -> BOOLEAN]
  BY DEF TypeOK
<1>2. CASE BuyWrong(i)
  BY <1>2, BuyKept
<1>3. CASE BuyNothing(i)
  BY <1>1, <1>3, MovesKept DEF BuyNothing, Goto, calls
<1>4. CASE BuyFails(i) \/ PollFails(i)
  BY <1>4, CatchKept DEF BuyFails, PollFails, calls
<1>5. CASE CreateFails(i)
  BY <1>1, <1>5, MovesKept DEF CreateFails, Goto, calls
<1>6. CASE ChaseRejected(i)
  BY <1>6, MovesKept DEF ChaseRejected, CancelRejected, calls
<1>7. CASE Released(i) \/ ReleaseFails(i)
  BY <1>7, ReleasedKept
<1>8. CASE ChaseAccepted(i)
  <2>1. /\ \A j \in Items : worker'[j] = worker[j] \/ (worker[j] = "active" /\ worker'[j] = "told")
        /\ \A j \in Items \ {i} : worker'[j] = worker[j]
    BY <1>8, CancelFacts, CancelSame DEF ChaseAccepted
  <2> QED
    BY <1>8, <2>1, FinishKept DEF ChaseAccepted, calls
<1>9. CASE ChaseEnds(i)
  BY <1>9, MovesKept DEF ChaseEnds, calls, outside
<1>10. CASE HeroReleases(i)
  BY <1>10, HeroReleasesKept
<1>11. CASE RetryRelease(i)
  <2>1. Good \in [Items -> BOOLEAN] /\ {i} \in SUBSET Items
    BY DEF Good
  <2>2. IF Good[i] THEN item[i].status = "completed" ELSE GivenUp(i)
    BY <1>11 DEF RetryRelease, Good, Safe, Releasing
  <2>3. \A j \in Items : timer'[j] => timer[j]
    BY <1>1, <1>11 DEF RetryRelease
  <2> QED
    BY <1>11, <2>1, <2>2, <2>3, AskedKept DEF RetryRelease, calls, outside
<1>12. CASE Refresh(i)
  <2>1. CASE item' = [item EXCEPT ![i].starting = FALSE] /\ UNCHANGED <<task, rel>>
    BY <1>12, <2>1, MovesKept DEF Refresh, calls, outside
  <2>2. CASE \E s \in {"completed", "failed", "cancelled"} :
                 Finish(i, s) /\ (s = "completed" => worker[i] = "succeeded")
    BY <1>12, <2>2, FinishKept DEF Refresh, calls, outside
  <2> QED
    BY <1>12, <2>1, <2>2 DEF Refresh
<1>13. CASE Recover(i)
  <2>1. Bad \in [Items -> BOOLEAN] /\ {i} \in SUBSET Items /\ ~Bad[i]
    BY DEF Bad
  <2>2. GivenUp(i)
    BY <1>13 DEF Recover, Safe, GivenUp, Lost
  <2>3. \A j \in Items : worker'[j] = worker[j] \/ (worker[j] = "active" /\ worker'[j] = "told")
    BY <1>13, CancelFacts DEF Recover
  <2>4. /\ rel' = Asked({i}, Bad) /\ rec' \in SUBSET rec /\ UNCHANGED <<item, run, relay, told>>
        /\ \A j \in Items : timer'[j] => timer[j]
    BY <1>13 DEF Recover
  <2> HIDE DEF Bad
  <2> QED
    BY <2>1, <2>2, <2>3, <2>4, AskedKept
<1>14. CASE WorkerAnswers(i)
  BY <1>14, WorkerKept
<1> QED
  BY <1>2, <1>3, <1>4, <1>5, <1>6, <1>7, <1>8, <1>9, <1>10, <1>11, <1>12, <1>13, <1>14
  DEF Chases, Releases, Fails

\* A relay call is over, and a release that waited for it starts; of the row
\* only what is known about the message changes.
LEMMA RelayEndsKept ==
  ASSUME TypeOK, \A j \in Items : Safe(j), NEW i \in Items, RelayEnds(i), relay[i] \in Busy,
         item' = item \/ item' = [item EXCEPT ![i].starting = FALSE, ![i].sms = "delivered"],
         told' = told \/ told' = [told EXCEPT ![i] = @ \cup {"ready"}]
                      \/ told' = [told EXCEPT ![i] = @ \cup {"retry"}],
         UNCHANGED <<run, timer, worker, rec>>
  PROVE  \A j \in Items : Kept(j)
<1>1. /\ relay'[i] = "none" /\ rel'[i].ok = rel[i].ok /\ (rel'[i].pc # "none" => rel[i].pc # "none")
      /\ \A j \in Items \ {i} : relay'[j] = relay[j] /\ rel'[j] = rel[j]
  BY RelayEndsFacts
<1>2. /\ item'[i].status = item[i].status /\ item'[i].out = item[i].out
      /\ item'[i].remoteId = item[i].remoteId
      /\ \A j \in Items \ {i} : item'[j] = item[j] /\ told'[j] = told[j]
      /\ told'[i] \cap {"finish", "cancel"} = told[i] \cap {"finish", "cancel"}
  BY StatusFacts DEF TypeOK, Item
<1>3. run' = run /\ timer' = timer /\ worker' = worker /\ rec' = rec
  OBVIOUS
<1>4. \A j \in Items \ {i} : Same(j)
  BY <1>1, <1>2, <1>3 DEF Same
<1>5. told[i] \cap {"finish", "cancel"} = {}
  BY DEF Safe, Apart
<1>6. GivenUp(i) <=> GivenUp(i)'
  BY <1>2, <1>3 DEF GivenUp
<1>7. Early(i)' /\ Apart(i)'
  BY <1>1, <1>2, <1>3 DEF Safe, Early, Apart, Busy
<1>8. ("finish" \in told'[i] <=> "finish" \in told[i]) /\ ("cancel" \in told'[i] <=> "cancel" \in told[i])
  BY <1>2
<1>9. Releasing(i)'
  BY <1>1, <1>2, <1>3, <1>6, <1>8 DEF Safe, Releasing
<1>10. Kept(i)
  BY <1>2, <1>3, <1>5, <1>7, <1>9 DEF Kept, Safe
<1> QED
  BY <1>4, <1>10, SameKept
\* A relay call begins, or HeroSMS has taken the order for a message.
LEMMA RelayWorksKept ==
  ASSUME TypeOK, \A j \in Items : Safe(j), NEW i \in Items,
         \/ (\E resend \in BOOLEAN : RelayCall(i, resend))
         \/ Armed(i) /\ Open(i)
  PROVE  \A j \in Items : Kept(j)
<1>1. run' = run /\ rel' = rel /\ timer' = timer /\ worker' = worker /\ rec' = rec
  BY DEF RelayCall, Armed, calls, outside
<1>2. /\ item'[i].status = item[i].status /\ item'[i].out = item[i].out
      /\ item'[i].remoteId = item[i].remoteId
      /\ \A j \in Items \ {i} : item'[j] = item[j]
  BY StatusFacts DEF RelayCall, Armed, TypeOK, Item
<1>3. /\ \A j \in Items \ {i} : relay'[j] = relay[j] /\ told'[j] = told[j]
      /\ told'[i] \cap {"finish", "cancel"} = told[i] \cap {"finish", "cancel"}
  BY DEF RelayCall, Armed, outside, TypeOK
<1>4. \A j \in Items \ {i} : Same(j)
  BY <1>1, <1>2, <1>3 DEF Same
<1>5. /\ item[i].status = "running" /\ item[i].remoteId
      /\ relay'[i] \in Busy => rel[i].pc # "calling"
  <2>1. CASE Armed(i) /\ Open(i)
    BY <2>1 DEF Armed, Open, Safe, Early, Apart, Busy
  <2>2. CASE \E resend \in BOOLEAN : RelayCall(i, resend)
    <3>1. /\ worker[i] \in {"active", "told"} /\ item[i].status = "running"
          /\ rel[i].pc # "none" => relay' = [relay EXCEPT ![i] = "queued"]
      BY <2>2 DEF RelayCall, Open
    <3>2. relay'[i] \in Busy => rel[i].pc = "none"
      BY <3>1 DEF TypeOK, Busy
    <3> QED
      BY <3>1, <3>2 DEF Safe, Early
  <2> QED
    BY <2>1, <2>2
<1>6. told[i] \cap {"finish", "cancel"} = {}
  BY <1>5 DEF Safe, Releasing, GivenUp, Lost
<1>7. GivenUp(i) <=> GivenUp(i)'
  BY <1>1, <1>2 DEF GivenUp
<1>8. Early(i)' /\ Apart(i)'
  BY <1>1, <1>2, <1>3, <1>5, <1>6 DEF Safe, Early, Apart
<1>9. ("finish" \in told'[i] <=> "finish" \in told[i]) /\ ("cancel" \in told'[i] <=> "cancel" \in told[i])
  BY <1>3
<1>10. Releasing(i)'
  BY <1>1, <1>2, <1>7, <1>9 DEF Safe, Releasing
<1>11. Kept(i)
  BY <1>1, <1>2, <1>6, <1>8, <1>10 DEF Kept, Safe
<1> QED
  BY <1>4, <1>11, SameKept

LEMMA KeptRelays ==
  ASSUME TypeOK, \A j \in Items : Safe(j), NEW i \in Items, Relays(i)
  PROVE  \A j \in Items : Kept(j)
<1>1. CASE \/ \E resend \in BOOLEAN : RelayCall(i, resend)
           \/ Armed(i) /\ Open(i)
  BY <1>1, RelayWorksKept
<1>2. CASE Armed(i) /\ ~Open(i)
  BY <1>2, RelayEndsKept DEF Armed, Busy, calls
<1>3. CASE CodeArrives(i)
  BY <1>3, RelayEndsKept DEF CodeArrives, Busy, calls, outside
<1>4. CASE NoCode(i)
  BY <1>4, RelayEndsKept DEF NoCode, calls, outside
<1> QED
  BY <1>1, <1>2, <1>3, <1>4 DEF Relays

LEMMA CancelKept ==
  ASSUME TypeOK, \A j \in Items : Safe(j), Cancel
  PROVE  \A j \in Items : Kept(j)
<1> DEFINE hit == {i \in Items : item[i].status \in Active}
<1> SUFFICES ASSUME NEW j \in Items PROVE Kept(j)
  OBVIOUS
<1>1. /\ run' = run /\ relay' = relay /\ timer' = timer /\ worker' = worker
      /\ told' = told /\ rec' = rec
  BY DEF Cancel, outside
<1>2. rel' = Asked(hit, Bad) /\ hit \in SUBSET Items
  BY DEF Cancel
<1>3. \/ rel'[j] = rel[j]
      \/ /\ j \in hit /\ ~rel'[j].ok
         /\ rel'[j].pc = IF relay[j] \in Busy THEN "queued" ELSE "calling"
  <2>1. Bad \in [Items -> BOOLEAN] /\ ~Bad[j]
    BY DEF Bad
  <2> HIDE DEF Bad, hit
  <2> QED
    BY <1>2, <2>1, AskedFacts
<1>4. item'[j] = IF j \in hit
          THEN [item[j] EXCEPT !.status = "cancel_requested", !.starting = FALSE] ELSE item[j]
  BY DEF Cancel
<1>5. CASE j \notin hit
  BY <1>1, <1>3, <1>4, <1>5, SameKept DEF Same
<1>6. CASE j \in hit
  <2>1. /\ item'[j].status = "cancel_requested" /\ item'[j].remoteId = item[j].remoteId
        /\ item'[j].out = item[j].out
    BY <1>4, <1>6, StatusFacts DEF Item
  <2>2. item[j].status \in {"queued", "running", "cancel_requested"}
    BY <1>6 DEF Active
  <2>3. Early(j)'
    BY <1>1, <2>1 DEF Safe, Early
  <2>4. GivenUp(j)'
    BY <2>1 DEF GivenUp, Lost
  <2>5. rel'[j].pc # "none" => ~rel'[j].ok
    BY <1>3, <2>2 DEF Safe, Releasing
  <2>6. Releasing(j)'
    BY <1>1, <2>1, <2>2, <2>4, <2>5 DEF Safe, Releasing
  <2>7. Apart(j)'
    BY <1>1, <1>3 DEF Safe, Apart
  <2>8. j \notin rec'
    BY <1>1, <2>2 DEF Safe
  <2> QED
    BY <1>1, <2>2, <2>3, <2>6, <2>7, <2>8 DEF Kept, Safe, Terminal
<1> QED
  BY <1>5, <1>6

LEMMA CancelReturnsKept ==
  ASSUME TypeOK, \A j \in Items : Safe(j), CancelReturns
  PROVE  \A j \in Items : Kept(j)
<1> SUFFICES ASSUME NEW j \in Items PROVE Kept(j)
  OBVIOUS
<1>1. /\ run' = run /\ rel' = rel /\ relay' = relay /\ timer' = timer /\ worker' = worker
      /\ told' = told /\ rec' = rec
  BY DEF CancelReturns, outside
<1>2. \/ item'[j] = item[j]
      \/ item[j].status \notin Terminal /\ item'[j] = [item[j] EXCEPT !.status = "cancelled"]
  BY DEF CancelReturns
<1>3. CASE item'[j] = item[j]
  BY <1>1, <1>3, SameKept DEF Same
<1>4. CASE item[j].status \notin Terminal /\ item'[j] = [item[j] EXCEPT !.status = "cancelled"]
  <2>1. /\ item'[j].status = "cancelled" /\ item'[j].remoteId = item[j].remoteId
        /\ item'[j].out = item[j].out
    BY <1>4, StatusFacts DEF Item
  <2>2. GivenUp(j)' /\ item[j].status \notin {"completed", "interrupted"}
    BY <1>4, <2>1 DEF GivenUp, Lost, Terminal
  <2>3. Early(j)' /\ Apart(j)'
    BY <1>1, <2>1 DEF Safe, Early, Apart
  <2>4. Releasing(j)'
    BY <1>1, <2>1, <2>2 DEF Safe, Releasing
  <2> QED
    BY <1>1, <1>4, <2>2, <2>3, <2>4 DEF Kept, Safe
<1> QED
  BY <1>2, <1>3, <1>4

\* A restart forgets everything but the rows, and marks those at work.
LEMMA RestartKept ==
  ASSUME TypeOK, \A j \in Items : Safe(j), Late, Restart
  PROVE  \A j \in Items : Kept(j)
<1> SUFFICES ASSUME NEW j \in Items PROVE Kept(j)
  OBVIOUS
<1>1. /\ run'[j] = "idle" /\ relay'[j] = "none" /\ timer'[j] = FALSE /\ worker' = worker
      /\ told' = told
  BY DEF Restart
<1>2. CASE task \in Terminal
  <2>1. item' = item /\ rec' = {} /\ rel'[j].ok = (item[j].status = "completed")
    BY <1>2 DEF Restart, Pending, Good
  <2>2. item[j].status \in Terminal
    BY <1>2 DEF Late
  <2>3. item[j].status # "completed" => GivenUp(j)'
    BY <2>1, <2>2 DEF GivenUp, Lost, Terminal
  <2>4. GivenUp(j) => item[j].status # "completed"
    BY StatusFacts
  <2>5. Early(j)' /\ Apart(j)'
    BY <1>1, <2>1 DEF Safe, Early, Apart, Busy
  <2>6. Releasing(j)'
    BY <1>1, <2>1, <2>3, <2>4 DEF Safe, Releasing
  <2> QED
    BY <1>1, <2>1, <2>5, <2>6 DEF Kept, Safe
<1>3. CASE task \notin Terminal
  <2>1. /\ item'[j] = IF item[j].status \in Active
               THEN [item[j] EXCEPT !.status = "interrupted", !.starting = FALSE] ELSE item[j]
        /\ j \in rec' => item[j].status \in Active
        /\ ~rel'[j].ok /\ (rel'[j].pc # "none" => item[j].status \in Active)
    <3> DEFINE hit == {i \in Items : item[i].status \in Active}
    <3>1. /\ item' = [i \in Items |-> IF i \in hit
                 THEN [item[i] EXCEPT !.status = "interrupted", !.starting = FALSE]
                 ELSE item[i]]
          /\ rec' = {i \in hit : item[i].remoteId}
          /\ rel' = [i \in Items |->
                 [pc |-> IF i \in hit \ rec' /\ Held(i) THEN "calling" ELSE "none",
                  ok |-> FALSE]]
      BY <1>3 DEF Restart
    <3>2. rel'[j] = [pc |-> IF j \in hit \ rec' /\ Held(j) THEN "calling" ELSE "none",
                     ok |-> FALSE]
      BY <3>1
    <3> QED
      BY <3>1, <3>2
  <2>2. /\ item'[j].remoteId = item[j].remoteId /\ item'[j].out = item[j].out
        /\ item'[j].status = IF item[j].status \in Active THEN "interrupted" ELSE item[j].status
    BY <2>1, StatusFacts DEF Item
  <2>3. /\ item'[j].status \in Terminal
        /\ item[j].status \in Terminal => item'[j].status = item[j].status
        /\ item[j].status = "completed" => item'[j].status = "completed"
        /\ item'[j].status = "completed" => item[j].status = "completed"
    BY <2>2, StatusFacts DEF Terminal, Active, Lost
  <2>4. item'[j].status # "completed" => GivenUp(j)'
    BY <2>3 DEF GivenUp, Lost, Terminal
  <2>5. GivenUp(j) => item[j].status # "completed"
    BY StatusFacts
  <2>6. Early(j)' /\ Apart(j)'
    BY <1>1, <2>2, <2>3 DEF Safe, Early, Apart, Busy, Terminal
  <2>7. rel'[j].pc # "none" => ~rel'[j].ok /\ item'[j].status = "interrupted"
    BY <2>1, <2>2
  <2>8. Releasing(j)'
    BY <1>1, <2>2, <2>3, <2>4, <2>5, <2>7 DEF Safe, Releasing
  <2> QED
    BY <1>1, <2>1, <2>2, <2>3, <2>6, <2>8 DEF Kept, Safe
<1> QED
  BY <1>2, <1>3

LEMMA KeptWhole ==
  ASSUME TypeOK, \A j \in Items : Safe(j), Late,
         Cancel \/ CancelReturns \/ View \/ ViewEnds \/ Restart \/ RecoverPending \/ Recovered
  PROVE  \A j \in Items : Kept(j)
<1>1. CASE View \/ ViewEnds \/ Recovered
  BY <1>1, SameKept DEF View, ViewEnds, Recovered, outside, Same
<1>2. CASE RecoverPending
  <2>1. Good \in [Items -> BOOLEAN] /\ Items \in SUBSET Items
    BY DEF Good
  <2>2. \A j \in Items : item[j].status \in Terminal
    BY <1>2 DEF RecoverPending, Late
  <2>3. \A j \in Items : IF Good[j] THEN item[j].status = "completed" ELSE GivenUp(j)
    BY <2>2 DEF Good, GivenUp, Lost, Terminal
  <2> QED
    BY <1>2, <2>1, <2>3, AskedKept DEF RecoverPending, outside
<1> QED
  BY <1>1, <1>2, CancelKept, CancelReturnsKept, RestartKept
--------------------------------------------------------------------------------
(* The task, and the theorems.                                               *)

\* A task ends only when its items are over, and a restart ends it first.
TaskKept ==
    /\ task' \in Terminal => task \in Terminal \/ \A j \in Items : item'[j].status \in Terminal
    /\ task \in Terminal => task' \in Terminal
    /\ boot' # "up" => boot # "up" \/ task' \in Terminal

LEMMA EndsTask ==
  ASSUME NEW i \in Items, Ends(i), boot' = boot
  PROVE  TaskKept
  BY DEF Ends, TaskKept

LEMMA ItemTask ==
  ASSUME TypeOK, TypeOK', NEW i \in Items,
         \/ Proceeds(i) \/ Chases(i) \/ Releases(i) \/ RetryRelease(i) \/ Fails(i)
         \/ Relays(i) \/ Refresh(i) \/ Recover(i) \/ WorkerAnswers(i)
  PROVE  TaskKept
<1>1. boot' = boot
  BY DEF Proceeds, Chases, Releases, Fails, Relays, Buy, WakeUp, Dropped, Created, ProbeFails,
         Uncreated, Poll, Retracted, RunEnds, ChaseAccepted, ChaseRejected, ChaseEnds, HeroReleases, Released,
         RetryRelease, BuyWrong, BuyNothing, BuyFails, CreateFails, PollFails, ReleaseFails,
         RelayCall, Armed, CodeArrives, NoCode, Refresh, Recover, WorkerAnswers, service, calls
<1>2. CASE task' = task
  BY <1>1, <1>2 DEF TaskKept
<1>3. CASE Catch(i) \/ \E s \in {"completed", "failed", "cancelled"} : Finish(i, s)
  BY <1>1, <1>3, CatchEnds, FinishEnds, EndsTask
<1>4. CASE RunEnds(i)
  <2>1. /\ task' = Recompute(task, item)
        /\ task' \in Terminal => item' = [j \in Items |-> item[j]]
    BY <1>4 DEF RunEnds, Terminal
  <2>2. task \in Statuses /\ item \in [Items -> Item]
    BY DEF TypeOK
  <2> QED
    BY <1>1, <2>1, <2>2, RecomputeFacts DEF TaskKept
<1>5. CASE Proceeds(i) /\ ~RunEnds(i)
  BY <1>2, <1>3, <1>5 DEF Proceeds, Buy, WakeUp, Dropped, Created, ProbeFails, Uncreated,
         Poll, Retracted
<1>6. CASE Chases(i) \/ Releases(i) \/ RetryRelease(i) \/ Fails(i)
  BY <1>2, <1>3, <1>6 DEF Chases, ChaseAccepted, ChaseEnds, Releases, HeroReleases, Released,
         RetryRelease, Fails, BuyWrong, BuyNothing, BuyFails, CreateFails, PollFails,
         ChaseRejected, ReleaseFails
<1>7. CASE Relays(i) \/ Refresh(i) \/ Recover(i) \/ WorkerAnswers(i)
  BY <1>2, <1>3, <1>7 DEF Relays, RelayCall, Armed, CodeArrives, NoCode, Refresh, Recover,
         WorkerAnswers
<1> QED
  BY <1>4, <1>5, <1>6, <1>7

LEMMA WholeTask ==
  ASSUME TypeOK, TypeOK', Late,
         Cancel \/ CancelReturns \/ View \/ ViewEnds \/ Restart \/ RecoverPending \/ Recovered
  PROVE  TaskKept
<1>1. task \in Statuses /\ item \in [Items -> Item] /\ item' \in [Items -> Item]
  BY DEF TypeOK
<1>2. CASE Cancel
  BY <1>2 DEF Cancel, TaskKept, Terminal
<1>3. CASE CancelReturns
  <2> DEFINE t == IF call.queued = {} THEN task ELSE Recompute(task, item')
  <2>1. task' = Recompute(t, item') /\ boot' = boot
    BY <1>3 DEF CancelReturns
  <2>2. /\ t \in Statuses
        /\ task \in Terminal => t \in Terminal
        /\ t \in Terminal => task \in Terminal \/ \A j \in Items : item'[j].status \in Terminal
    BY <1>1, RecomputeFacts
  <2> HIDE DEF t
  <2> QED
    BY <1>1, <2>1, <2>2, RecomputeFacts DEF TaskKept
<1>4. CASE View \/ Recovered
  BY <1>4 DEF View, Recovered, TaskKept
<1>5. CASE ViewEnds \/ RecoverPending
  <2>1. task' = Recompute(task, item) /\ item' = item
    BY <1>5 DEF ViewEnds, RecoverPending
  <2>2. boot' # "up" => boot # "up"
    BY <1>5 DEF ViewEnds, RecoverPending
  <2>3. task \in Terminal => task' \in Terminal
    BY <1>1, <2>1, RecomputeFacts
  <2> QED
    BY <1>1, <2>1, <2>2, <2>3, RecomputeFacts DEF TaskKept
<1>6. CASE Restart
  <2>1. CASE task \in Terminal
    BY <1>6, <2>1 DEF Restart, TaskKept
  <2>2. CASE task \notin Terminal
    <3>1. /\ task' = "interrupted"
          /\ \A j \in Items : item'[j] = IF item[j].status \in Active
                 THEN [item[j] EXCEPT !.status = "interrupted", !.starting = FALSE] ELSE item[j]
      BY <1>6, <2>2 DEF Restart
    <3>2. \A j \in Items : item'[j].status \in Terminal
      BY <1>1, <3>1, StatusFacts DEF Item, Terminal, Active, Lost
    <3> QED
      BY <2>2, <3>1, <3>2 DEF TaskKept, Terminal
  <2> QED
    BY <2>1, <2>2
<1> QED
  BY <1>2, <1>3, <1>4, <1>5, <1>6

LEMMA SafeInit == Init => IInv
<1> SUFFICES ASSUME Init PROVE IInv
  OBVIOUS
<1>1. TypeOK
  BY TypeInit
<1>2. ASSUME NEW i \in Items PROVE Safe(i)
  <2>1. /\ item[i].status \in {"queued", "running"} /\ ~item[i].remoteId /\ item[i].out = "none"
        /\ rel[i].pc = "none" /\ ~timer[i] /\ told[i] = {} /\ worker[i] = "none"
        /\ relay[i] = "none" /\ rec = {}
        /\ run[i] \in {"buying", "napping", "dropping"} => item[i].status = "running"
    BY DEF Init
  <2> QED
    BY <2>1 DEF Safe, Early, Releasing, Apart, Busy
<1>3. Late
  BY DEF Init, Late, Terminal
<1> QED
  BY <1>1, <1>2, <1>3 DEF IInv

LEMMA SafeStep ==
  ASSUME IInv, [Next]_vars
  PROVE  IInv' /\ \A i \in Items : Kept(i)
<1>1. TypeOK /\ TypeOK' /\ (\A i \in Items : Safe(i)) /\ Late
  BY TypeStep DEF IInv
<1>2. CASE UNCHANGED vars
  <2>1. \A i \in Items : Kept(i)
    BY <1>1, <1>2, SameKept DEF Same, vars, service, calls, outside
  <2>2. Late'
    BY <1>1, <1>2 DEF Late, vars, service, calls, outside
  <2> QED
    BY <1>1, <2>1, <2>2 DEF IInv, Kept
<1>3. CASE Next
  <2>1. \A i \in Items : Kept(i)
    BY <1>1, <1>3, KeptProceeds, KeptOthers, KeptRelays, KeptWhole DEF Next
  <2>2. TaskKept
    BY <1>1, <1>3, ItemTask, WholeTask DEF Next
  <2>3. \A i \in Items : item[i].status \in Terminal => item'[i].status \in Terminal
    BY <2>1 DEF Kept
  <2>4. Late'
    BY <1>1, <2>2, <2>3 DEF Late, TaskKept
  <2> QED
    BY <1>1, <2>1, <2>4 DEF IInv, Kept
<1> QED
  BY <1>2, <1>3

LEMMA Safety == Spec => []IInv
  BY SafeInit, SafeStep, PTL DEF Spec

\* finishItem and releaseActivation: HeroSMS hears that a number was used only
\* when the worker bound it, and never hears both.
THEOREM PaidCorrect == Spec => []PaidOnlyIfBound
<1>1. IInv => PaidOnlyIfBound
  BY StatusFacts DEF IInv, Safe, Releasing, PaidOnlyIfBound
<1> QED
  BY <1>1, Safety, PTL

\* releaseActivation: the row records what HeroSMS was told, and agrees with
\* the status of the item.
THEOREM OutcomeCorrect == Spec => []OutcomeIsTrue
<1>1. IInv => OutcomeIsTrue
  BY StatusFacts DEF IInv, Safe, Releasing, OutcomeIsTrue
<1> QED
  BY <1>1, Safety, PTL

\* relay and withItemOperation: no message is asked for once a number was
\* given back.
THEOREM RelayCorrect == Spec => NoSmsAfterRelease
<1>1. IInv /\ [Next]_vars =>
          [\A i \in Items :
               told[i] \cap {"finish", "cancel"} # {} =>
                   told'[i] \cap {"ready", "retry"} = told[i] \cap {"ready", "retry"}]_vars
  BY SafeStep DEF Kept
<1> QED
  BY <1>1, Safety, PTL DEF Spec, NoSmsAfterRelease

\* finishItem, cancel and the recovery: an item that is over keeps its verdict.
THEOREM VerdictCorrect == Spec => ItemVerdictFinal
<1>1. IInv /\ [Next]_vars =>
          [\A i \in Items : item[i].status \in Terminal => item'[i].status = item[i].status]_vars
  BY SafeStep DEF Kept
<1> QED
  BY <1>1, Safety, PTL DEF Spec, ItemVerdictFinal
--------------------------------------------------------------------------------
(* The verdict of the task: what its status says of its items.               *)

Has(rows, S) == \E j \in Items : rows[j].status \in S

\* Nothing is said of an interrupted task: a restart interrupts it whatever its
\* items are.
Matches(t, rows) ==
    /\ t \in Terminal => ~Has(rows, Active)
    /\ t = "cancel_requested" => Has(rows, {"cancel_requested", "cancelled"})
    /\ t = "cancelled" => Has(rows, {"cancelled"})
    /\ t = "completed" => ~Has(rows, {"cancelled", "failed", "interrupted"})
    /\ t = "failed" =>
           \/ Has(rows, {"failed", "interrupted"})
           \/ Has(rows, {"cancelled"}) /\ Has(rows, {"completed"})

\* A cancel finds an item to cancel.
Alive(t, rows) == t \notin Terminal => Has(rows, Active)

Fits == Matches(task, item) /\ Alive(task, item)

Stays(t, u, rows) ==
    t \in Terminal =>
        u = t \/ (t = "cancelled" /\ u = "failed" /\ \E i \in Items : rows[i].status # "cancelled")

LEMMA RecomputeMatches ==
  ASSUME NEW t \in Statuses, NEW rows \in [Items -> Item], Matches(t, rows)
  PROVE  LET u == Recompute(t, rows)
         IN  Matches(u, rows) /\ Alive(u, rows) /\ Stays(t, u, rows)
<1> DEFINE u == Recompute(t, rows)
<1>1. PICK j \in Items : TRUE
  BY SmsAssumption
<1>2. \A i \in Items : rows[i].status \in Terminal \cup Active
  BY DEF Item, Statuses
<1>3. CASE Has(rows, Active)
  <2>1. t \notin Terminal /\ u = IF t = "cancel_requested" THEN t ELSE "running"
    BY <1>3 DEF Matches, Has, Recompute
  <2> QED
    BY <1>3, <2>1 DEF Matches, Alive, Stays, Terminal
<1>4. CASE ~Has(rows, Active)
  <2> DEFINE cancels == Has(rows, {"cancelled"})
             completes == Has(rows, {"completed"})
             fails == Has(rows, {"failed", "interrupted"})
  <2>1. u = CASE t = "interrupted" -> t
              [] t = "cancel_requested" -> "cancelled"
              [] t \notin {"interrupted", "cancel_requested"} ->
                   IF cancels /\ ~completes /\ ~fails THEN "cancelled"
                   ELSE IF fails \/ cancels THEN "failed"
                   ELSE "completed"
    BY <1>4 DEF Recompute, Has
  <2>2. /\ cancels \/ completes \/ fails
        /\ t = "cancel_requested" => cancels
        /\ t = "cancelled" => cancels
        /\ t = "completed" => ~cancels /\ ~fails
        /\ t = "failed" => fails \/ (cancels /\ completes)
        /\ completes \/ fails => \E i \in Items : rows[i].status # "cancelled"
    BY <1>1, <1>2, <1>4 DEF Matches, Has, Terminal, Active
  <2>3. /\ Matches(u, rows) <=>
             /\ u = "cancel_requested" => Has(rows, {"cancel_requested", "cancelled"})
             /\ u = "cancelled" => cancels
             /\ u = "completed" => ~cancels /\ ~fails
             /\ u = "failed" => fails \/ (cancels /\ completes)
        /\ u # "cancel_requested"
    BY <1>4, <2>1, SMTT(20) DEF Matches, Has
  <2> HIDE DEF cancels, completes, fails, u
  <2>4. Matches(u, rows)
    BY <2>1, <2>2, <2>3
  <2>5. u \in Terminal
    BY <2>1 DEF Terminal
  <2>6. Stays(t, u, rows)
    BY <2>1, <2>2 DEF Stays, Terminal
  <2> QED
    BY <2>4, <2>5, <2>6 DEF Alive, u
<1> QED
  BY <1>3, <1>4

\* What a step does to the statuses of the items, the restart's apart.
Follows ==
    \A j \in Items :
        /\ item[j].status \in Terminal => item'[j].status = item[j].status
        /\ item[j].status = "cancel_requested" =>
               item'[j].status \in {"cancel_requested", "cancelled"}

LEMMA MatchesFollows ==
  ASSUME NEW t, Matches(t, item), Follows, TypeOK, TypeOK'
  PROVE  Matches(t, item')
<1>1. \A j \in Items : item[j].status \in Terminal \cup Active
  BY DEF TypeOK, Item, Statuses
<1>2. CASE t \in Terminal
  <2>1. \A j \in Items : item'[j].status = item[j].status
    BY <1>1, <1>2 DEF Matches, Has, Follows
  <2> QED
    BY <1>2, <2>1 DEF Matches, Has
<1>3. CASE t \notin Terminal
  BY <1>3, SMTT(20) DEF Matches, Has, Follows, Terminal
<1> QED
  BY <1>2, <1>3

TaskFits == Fits' /\ Stays(task, task', item')

\* A step that leaves the task and the statuses alone.
Still == task' = task /\ \A j \in Items : item'[j].status = item[j].status

LEMMA StillFits == Fits /\ Still => TaskFits
  BY DEF Fits, Still, TaskFits, Matches, Alive, Has, Stays

LEMMA RecomputedFits ==
  ASSUME TypeOK, TypeOK', Fits, Follows, task' = Recompute(task, item')
  PROVE  TaskFits
<1>1. Matches(task, item')
  BY MatchesFollows DEF Fits
<1>2. task \in Statuses /\ item' \in [Items -> Item]
  BY DEF TypeOK
<1> QED
  BY <1>1, <1>2, RecomputeMatches DEF TaskFits, Fits

LEMMA FinishFits ==
  ASSUME TypeOK, TypeOK', Fits, NEW i \in Items, NEW s, Finish(i, s)
  PROVE  TaskFits
<1>1. CASE item[i].status \in Terminal
  BY <1>1, StillFits DEF Finish, Still
<1>2. CASE item[i].status \notin Terminal
  <2>1. /\ task' = Recompute(task, item')
        /\ item' = [item EXCEPT ![i].status = Settled(i, s), ![i].starting = FALSE]
    BY <1>2 DEF Finish
  <2>2. item \in [Items -> Item]
    BY DEF TypeOK
  <2>3. item'[i].status = Settled(i, s) /\ \A j \in Items \ {i} : item'[j] = item[j]
    BY <2>1, <2>2 DEF Item
  <2>4. Follows
    BY <1>2, <2>3 DEF Follows, Settled
  <2> QED
    BY <2>1, <2>4, RecomputedFits
<1> QED
  BY <1>1, <1>2

LEMMA RunEndsFits ==
  ASSUME TypeOK, TypeOK', Fits, NEW i \in Items, RunEnds(i)
  PROVE  TaskFits
<1>1. /\ task' = Recompute(task, item)
      /\ task' \notin {"queued", "running"} => \A j \in Items : item'[j].status = item[j].status
      /\ \A j \in Items : \/ item'[j].status = item[j].status
                          \/ item[j].status = "queued" /\ item'[j].status = "running"
  <2> DEFINE queued == {j \in Items : item[j].status = "queued"}
             next == IF task' \in {"queued", "running"}
                     THEN {j \in queued : \A k \in queued : j <= k} ELSE {}
  <2>1. /\ task' = Recompute(task, item)
        /\ item' = [j \in Items |-> IF j \in next
                       THEN [item[j] EXCEPT !.status = "running"] ELSE item[j]]
    BY DEF RunEnds
  <2>2. \A j \in next : item[j].status = "queued" /\ task' \in {"queued", "running"}
    OBVIOUS
  <2>3. \A j \in Items : item[j] \in Item
    BY DEF TypeOK
  <2> HIDE DEF next
  <2> QED
    BY <2>1, <2>2, <2>3 DEF Item
<1>2. Matches(task', item) /\ Alive(task', item) /\ Stays(task, task', item)
  BY <1>1, RecomputeMatches DEF Fits, TypeOK
<1>3. CASE task' \in {"queued", "running"}
  BY <1>1, <1>2, <1>3 DEF Matches, Alive, Has, Stays, TaskFits, Fits, Terminal, Active
<1>4. CASE task' \notin {"queued", "running"}
  BY <1>1, <1>2, <1>4 DEF Matches, Alive, Has, Stays, TaskFits, Fits
<1> QED
  BY <1>3, <1>4

LEMMA ItemFits ==
  ASSUME TypeOK, TypeOK', Fits, NEW i \in Items,
         \/ Proceeds(i) \/ Chases(i) \/ Releases(i) \/ RetryRelease(i)
         \/ Fails(i) \/ Relays(i) \/ Refresh(i) \/ Recover(i) \/ WorkerAnswers(i)
  PROVE  TaskFits
<1>1. item \in [Items -> Item] /\ \A j \in Items : item[j] \in Item
  BY DEF TypeOK
<1>2. ASSUME Catch(i) PROVE TaskFits
  BY <1>2, FinishFits, StillFits DEF Catch, Still
<1>3. CASE RunEnds(i)
  BY <1>3, RunEndsFits
<1>4. CASE Buy(i) \/ BuyWrong(i) \/ Created(i) \/ ChaseRejected(i) \/ Released(i)
           \/ Armed(i) \/ CodeArrives(i)
  <2>1. Still
    BY <1>1, <1>4, SMTT(30) DEF Buy, BuyWrong, Created, ChaseRejected, Released, Armed,
           CodeArrives, Still, Item
  <2> QED
    BY <2>1, StillFits
<1>5. CASE Refresh(i)
  <2>1. (\E s : Finish(i, s)) \/ Still
    BY <1>1, <1>5 DEF Refresh, Still, Item
  <2> QED
    BY <2>1, FinishFits, StillFits
<1>6. CASE Proceeds(i) /\ ~RunEnds(i) /\ ~Buy(i) /\ ~Created(i)
  BY <1>2, <1>6, FinishFits, StillFits
     DEF Proceeds, WakeUp, Dropped, ProbeFails, Uncreated, Poll, Retracted, Still
<1>7. CASE Chases(i) \/ HeroReleases(i) \/ RetryRelease(i)
  BY <1>7, FinishFits, StillFits
     DEF Chases, ChaseAccepted, ChaseEnds, HeroReleases, RetryRelease, Still
<1>8. CASE Fails(i) /\ ~BuyWrong(i) /\ ~ChaseRejected(i)
  BY <1>2, <1>8, StillFits
     DEF Fails, BuyNothing, BuyFails, CreateFails, PollFails, ReleaseFails, Still
<1>9. CASE (\E resend \in BOOLEAN : RelayCall(i, resend)) \/ NoCode(i)
           \/ Recover(i) \/ WorkerAnswers(i)
  BY <1>9, StillFits DEF RelayCall, NoCode, Recover, WorkerAnswers, Still
<1> QED
  BY <1>3, <1>4, <1>5, <1>6, <1>7, <1>8, <1>9 DEF Releases, Relays

LEMMA CancelFits ==
  ASSUME TypeOK, TypeOK', Fits, Cancel
  PROVE  TaskFits
<1>1. /\ task \notin Terminal /\ task' = "cancel_requested"
      /\ \A j \in Items : item'[j] = IF item[j].status \in Active
             THEN [item[j] EXCEPT !.status = "cancel_requested", !.starting = FALSE] ELSE item[j]
  BY DEF Cancel
<1>2. \A j \in Items : item[j] \in Item
  BY DEF TypeOK
<1>3. PICK j \in Items : item[j].status \in Active
  BY <1>1 DEF Fits, Alive, Has
<1>4. item'[j].status = "cancel_requested"
  BY <1>1, <1>2, <1>3 DEF Item
<1> QED
  BY <1>1, <1>4 DEF TaskFits, Fits, Matches, Alive, Has, Stays, Terminal, Active

LEMMA CancelReturnsFits ==
  ASSUME TypeOK, TypeOK', Fits, CancelReturns
  PROVE  TaskFits
<1> DEFINE t == IF call.queued = {} THEN task ELSE Recompute(task, item')
<1>1. /\ task' = Recompute(t, item')
      /\ \A j \in Items : item'[j] = IF j \in call.queued /\ item[j].status \notin Terminal
             THEN [item[j] EXCEPT !.status = "cancelled"] ELSE item[j]
  BY DEF CancelReturns
<1>2. task \in Statuses /\ item' \in [Items -> Item] /\ \A j \in Items : item[j] \in Item
  BY DEF TypeOK
<1>3. Follows
  BY <1>1, <1>2 DEF Follows, Item
<1>4. Matches(task, item')
  BY <1>3, MatchesFollows DEF Fits
<1>5. t \in Statuses /\ Matches(t, item') /\ Stays(task, t, item')
  BY <1>2, <1>4, RecomputeMatches, RecomputeFacts DEF Stays
<1> HIDE DEF t
<1>6. Matches(task', item') /\ Alive(task', item') /\ Stays(t, task', item')
  BY <1>1, <1>2, <1>5, RecomputeMatches
<1> QED
  BY <1>5, <1>6 DEF TaskFits, Fits, Stays, Terminal

LEMMA RestartFits ==
  ASSUME TypeOK, TypeOK', Fits, Restart
  PROVE  TaskFits
<1>1. CASE task \in Terminal
  BY <1>1, StillFits DEF Restart, Still
<1>2. CASE task \notin Terminal
  <2>1. /\ task' = "interrupted"
        /\ \A j \in Items : item'[j] = IF item[j].status \in Active
               THEN [item[j] EXCEPT !.status = "interrupted", !.starting = FALSE] ELSE item[j]
    BY <1>2 DEF Restart
  <2>2. \A j \in Items : item'[j].status \notin Active
    <3>1. \A j \in Items : item[j] \in Item
      BY DEF TypeOK
    <3> QED
      BY <2>1, <3>1 DEF Item, Active
  <2> QED
    BY <1>2, <2>1, <2>2 DEF TaskFits, Fits, Matches, Alive, Has, Stays, Terminal
<1> QED
  BY <1>1, <1>2

LEMMA FitsInit == Init => Fits
<1> SUFFICES ASSUME Init PROVE Fits
  OBVIOUS
<1>1. PICK j \in Items : TRUE
  BY SmsAssumption
<1>2. task = "running" /\ item[j].status \in {"running", "queued"}
  BY DEF Init
<1> QED
  BY <1>2 DEF Fits, Matches, Alive, Has, Terminal, Active

LEMMA FitsStep ==
  ASSUME TypeOK, TypeOK', Fits, [Next]_vars
  PROVE  TaskFits
<1>1. CASE UNCHANGED vars
  BY <1>1, StillFits DEF Still, vars
<1>2. CASE View \/ Recovered
  BY <1>2, StillFits DEF View, Recovered, Still
<1>3. CASE ViewEnds \/ RecoverPending
  <2>1. task' = Recompute(task, item') /\ item' = item
    BY <1>3 DEF ViewEnds, RecoverPending
  <2>2. Follows
    BY <2>1 DEF Follows
  <2> QED
    BY <2>1, <2>2, RecomputedFits
<1> QED
  BY <1>1, <1>2, <1>3, ItemFits, CancelFits, CancelReturnsFits, RestartFits DEF Next

\* recomputeTask, cancel and the recovery: a task that is over stays over, with
\* its verdict, except that "cancelled" may become "failed" when it was not
\* every item that was cancelled.
THEOREM TaskVerdictCorrect == Spec => TaskStaysOver
<1>1. IInv /\ Fits /\ [Next]_vars => Fits'
  BY TypeStep, FitsStep DEF TaskFits, IInv
<1>2. IInv /\ Fits /\ [Next]_vars =>
          [(task \in Terminal) => (task' = task \/ CancelledReadsFailed)]_vars
  <2> SUFFICES ASSUME IInv, Fits, [Next]_vars, task \in Terminal
               PROVE  task' = task \/ CancelledReadsFailed
    OBVIOUS
  <2>1. Stays(task, task', item')
    BY TypeStep, FitsStep DEF TaskFits, IInv
  <2>2. \A i \in Items : item[i].status \in Terminal
    BY DEF Fits, Matches, Has, IInv, TypeOK, Item, Statuses
  <2>3. \A i \in Items : item'[i].status = item[i].status
    BY <2>2, SafeStep DEF Kept
  <2> QED
    BY <2>1, <2>3 DEF Stays, CancelledReadsFailed
<1> QED
  BY <1>1, <1>2, Safety, FitsInit, PTL DEF Spec, TaskStaysOver

--------------------------------------------------------------------------------
(* What goes on at the worker while nothing fails and the hub is not         *)
(* restarted.  A binding that was sent or is active belongs to an item that  *)
(* is not over; a loop whose creation or poll went wrong has none; and an    *)
(* item that a cancel found queued never got a loop, so no binding either.   *)

Quiet == faults = 0 /\ crashes = 0

Bound(i) == worker[i] \in {"sent", "active"}

Stray(i) ==
    /\ Bound(i) \/ run[i] \in {"buying", "napping", "dropping"} => item[i].status \notin Terminal
    /\ run[i] \in {"probing", "uncreating", "retracting", "disowning"} => ~Bound(i)
    /\ item[i].status = "queued" \/ i \in call.queued => run[i] = "idle"
    /\ i \in call.queued => item[i].status # "queued"
    /\ run[i] = "idle" => ~item[i].remoteId

StrayInv == Quiet => \A i \in Items : Stray(i)

LEMMA StrayInit == Init => StrayInv
<1> SUFFICES ASSUME Init, NEW i \in Items PROVE Stray(i)
  BY DEF StrayInv
<1>1. /\ \/ item[i].status = "running" /\ run[i] = "buying"
         \/ item[i].status = "queued" /\ run[i] = "idle"
      /\ ~item[i].remoteId /\ worker[i] = "none" /\ call.queued = {}
  BY DEF Init
<1> QED
  BY <1>1 DEF Stray, Bound, Terminal

\* Faults and restarts are only ever counted up.
LEMMA QuietBefore ==
  ASSUME TypeOK, [Next]_vars, Quiet'
  PROVE  Quiet /\ ~Fault /\ ~Restart
<1>1. faults \in Nat /\ crashes \in Nat
  BY SmsAssumption DEF TypeOK
<1>2. ~Fault /\ ~Restart
  <2>1. faults' = 0 /\ crashes' = 0
    BY DEF Quiet
  <2>2. ~Fault
    BY <1>1, <2>1 DEF Fault
  <2>3. Restart => crashes' = crashes + 1
    BY DEF Restart
  <2> QED
    BY <1>1, <2>1, <2>2, <2>3
<1>3. ASSUME NEW i \in Items, CancelAccepted(i) \/ CancelRejected(i) PROVE faults' = faults
  BY <1>2, <1>3 DEF CancelAccepted, CancelRejected
<1>4. ASSUME NEW i \in Items, Proceeds(i) PROVE faults' = faults /\ crashes' = crashes
  <2>1. CASE Buy(i) \/ WakeUp(i) \/ Dropped(i) \/ Created(i) \/ Poll(i) \/ RunEnds(i)
    BY <2>1 DEF Buy, WakeUp, Dropped, Created, Poll, RunEnds, outside
  <2>2. CASE ProbeFails(i)
    BY <1>2, <2>2 DEF ProbeFails
  <2>3. CASE Uncreated(i) \/ Retracted(i)
    BY <1>3, <2>3 DEF Uncreated, Retracted
  <2> QED
    BY <1>4, <2>1, <2>2, <2>3 DEF Proceeds
<1>5. ASSUME NEW i \in Items, Chases(i) \/ Fails(i) PROVE faults' = faults /\ crashes' = crashes
  <2>1. CASE ChaseAccepted(i) \/ ChaseRejected(i)
    BY <1>3, <2>1 DEF ChaseAccepted, ChaseRejected
  <2>2. CASE ChaseEnds(i)
    BY <2>2 DEF ChaseEnds, outside
  <2>3. CASE CreateFails(i)
    BY <1>2, <2>3 DEF CreateFails
  <2> QED
    BY <1>2, <1>5, <2>1, <2>2, <2>3
       DEF Chases, Fails, BuyWrong, BuyNothing, BuyFails, PollFails, ReleaseFails
<1>6. ASSUME NEW i \in Items,
             Releases(i) \/ RetryRelease(i) \/ Relays(i) \/ Refresh(i) \/ WorkerAnswers(i)
      PROVE  faults' = faults /\ crashes' = crashes
  BY <1>6 DEF Releases, HeroReleases, Released, RetryRelease, Relays, RelayCall, Armed,
              CodeArrives, NoCode, Refresh, WorkerAnswers, outside
<1>7. ASSUME NEW i \in Items, Recover(i) PROVE faults' = faults /\ crashes' = crashes
  BY <1>3, <1>7 DEF Recover
<1>8. ASSUME Cancel \/ CancelReturns \/ View \/ ViewEnds \/ RecoverPending \/ Recovered
      PROVE  faults' = faults /\ crashes' = crashes
  BY <1>8 DEF Cancel, CancelReturns, View, ViewEnds, RecoverPending, Recovered, outside
<1>9. faults' = faults /\ crashes' = crashes
  BY <1>2, <1>4, <1>5, <1>6, <1>7, <1>8 DEF Next, vars, outside
<1> QED
  BY <1>2, <1>9 DEF Quiet

\* What a step may do to an item without setting a binding free.
Tame(i) ==
    /\ item'[i].remoteId = item[i].remoteId
    /\ \/ item'[i].status = item[i].status
       \/ /\ item'[i].status \in Terminal /\ ~Bound(i)'
          /\ run'[i] \notin {"buying", "napping", "dropping"}
    /\ Bound(i)' => Bound(i)
    /\ run'[i] \in {"buying", "napping", "dropping"} =>
           run[i] \in {"buying", "napping", "dropping"}
    /\ run'[i] \in {"probing", "uncreating", "retracting", "disowning"} => ~Bound(i)'
    /\ run'[i] = run[i] \/ (run[i] # "idle" /\ run'[i] # "idle")
    /\ i \in call'.queued => i \in call.queued

LEMMA TameStray ==
  ASSUME NEW i \in Items, Stray(i), Tame(i)
  PROVE  Stray(i)'
<1>1. item'[i].status = "queued" => item[i].status = "queued"
  BY DEF Tame, Terminal
<1> QED
  BY <1>1 DEF Stray, Tame

\* The fields of an item that Stray looks at.
Steady(i) ==
    /\ item'[i].status = item[i].status /\ item'[i].remoteId = item[i].remoteId
    /\ run'[i] = run[i] /\ worker'[i] = worker[i]
    /\ i \in call'.queued => i \in call.queued

LEMMA SteadyStray ==
  ASSUME NEW i \in Items, Stray(i), Steady(i)
  PROVE  Stray(i)'
  BY DEF Stray, Steady, Bound

\* cancelTask without a fault: no binding goes on untold, unless its creation
\* is still under way.
LEMMA CancelQuiet ==
  ASSUME TypeOK, NEW i \in Items, CancelAccepted(i) \/ CancelRejected(i), ~Fault, worker[i] # "sent"
  PROVE  ~Bound(i)'
  BY DEF TypeOK, CancelAccepted, CancelRejected, Known, Bound

\* finishItem, or the handler of an error, for an item with no binding.
LEMMA EndsStray ==
  ASSUME TypeOK, \A j \in Items : Stray(j), NEW i \in Items, Ends(i),
         ~Bound(i)', call' = call,
         \A j \in Items \ {i} : run'[j] = run[j] /\ worker'[j] = worker[j],
         run'[i] \notin {"buying", "napping", "dropping"},
         run'[i] = run[i] \/ (run[i] # "idle" /\ run'[i] # "idle")
  PROVE  \A j \in Items : Stray(j)'
<1>1. \A j \in Items \ {i} : Steady(j)
  BY DEF Ends, Steady
<1>2. Tame(i)
  BY DEF Ends, Tame, Terminal
<1> QED
  BY <1>1, <1>2, SteadyStray, TameStray

LEMMA CatchStray ==
  ASSUME TypeOK, \A j \in Items : Stray(j), NEW i \in Items, Catch(i), run[i] # "idle",
         ~Bound(i)', call' = call, \A j \in Items \ {i} : worker'[j] = worker[j]
  PROVE  \A j \in Items : Stray(j)'
<1>1. PICK pc \in {"finishing", "returned", "chasing", "disowning", "retracting"} :
          run' = [run EXCEPT ![i] = pc]
  BY CatchEnds
<1>2. run'[i] = pc /\ \A j \in Items \ {i} : run'[j] = run[j]
  BY <1>1 DEF TypeOK
<1>3. Ends(i)
  BY CatchEnds
<1> QED
  BY <1>2, <1>3, EndsStray

LEMMA FinishStray ==
  ASSUME TypeOK, \A j \in Items : Stray(j), NEW i \in Items,
         NEW s \in {"completed", "failed", "cancelled"}, Finish(i, s),
         ~Bound(i)', call' = call, \A j \in Items \ {i} : worker'[j] = worker[j],
         \/ run' = run /\ run[i] \notin {"buying", "napping", "dropping"}
         \/ Return(i) /\ run[i] # "idle"
  PROVE  \A j \in Items : Stray(j)'
<1>1. /\ \/ run'[i] = run[i] /\ run[i] \notin {"buying", "napping", "dropping"}
         \/ run[i] # "idle" /\ run'[i] \in {"finishing", "returned"}
      /\ \A j \in Items \ {i} : run'[j] = run[j]
  BY DEF Return, Goto, TypeOK
<1>2. Ends(i)
  BY FinishEnds
<1> QED
  BY <1>1, <1>2, EndsStray

\* The loop moves on, and the row at most forgets "starting_worker".
LEMMA MovesStray ==
  ASSUME TypeOK, \A j \in Items : Stray(j), NEW i \in Items, NEW pc,
         item' = item \/ item' = [item EXCEPT ![i].starting = FALSE],
         run' = run \/ (run' = [run EXCEPT ![i] = pc] /\ run[i] # "idle" /\ pc # "idle"),
         run'[i] \in {"buying", "napping", "dropping"} =>
             run[i] \in {"buying", "napping", "dropping"},
         run'[i] \in {"probing", "uncreating", "retracting", "disowning"} => ~Bound(i)',
         Bound(i)' => Bound(i), \A j \in Items \ {i} : worker'[j] = worker[j], call' = call
  PROVE  \A j \in Items : Stray(j)'
<1>1. /\ item'[i].status = item[i].status /\ item'[i].remoteId = item[i].remoteId
      /\ \A j \in Items \ {i} : item'[j] = item[j]
  BY StatusFacts DEF TypeOK, Item
<1>2. /\ run'[i] = run[i] \/ (run[i] # "idle" /\ run'[i] # "idle")
      /\ \A j \in Items \ {i} : run'[j] = run[j]
  BY DEF TypeOK
<1>3. Tame(i) /\ \A j \in Items \ {i} : Steady(j)
  BY <1>1, <1>2 DEF Tame, Steady
<1> QED
  BY <1>3, SteadyStray, TameStray

LEMMA BuyStray ==
  ASSUME TypeOK, \A j \in Items : Safe(j) /\ Stray(j), NEW i \in Items, Buy(i)
  PROVE  \A j \in Items : Stray(j)'
<1>1. call' = call
  BY DEF Buy, calls
<1>2. /\ run[i] = "buying" /\ item'[i].status = item[i].status
      /\ \A j \in Items \ {i} : /\ item'[j] = item[j] /\ run'[j] = run[j]
                                /\ worker'[j] = worker[j]
      /\ \/ run'[i] = "dropping"
         \/ run'[i] = "creating"
  BY BuyFacts
<1>3. item[i].status \notin Terminal \cup {"queued"} /\ i \notin call.queued
  BY <1>2 DEF Stray, Safe, Early
<1>4. Stray(i)'
  BY <1>1, <1>2, <1>3 DEF Stray
<1>5. \A j \in Items \ {i} : Steady(j)
  BY <1>1, <1>2 DEF Steady
<1> QED
  BY <1>4, <1>5, SteadyStray

\* The loop of an item takes the next one, which no cancel has found.
LEMMA RunEndsStray ==
  ASSUME TypeOK, \A j \in Items : Safe(j) /\ Stray(j), NEW i \in Items, RunEnds(i)
  PROVE  \A j \in Items : Stray(j)'
<1> SUFFICES ASSUME NEW j \in Items PROVE Stray(j)'
  OBVIOUS
<1>1. call' = call /\ worker' = worker /\ run[i] \in {"finishing", "chasing", "returned"}
  BY DEF RunEnds, calls, outside
<1>2. \/ item[j].status = "queued" /\ item'[j] = [item[j] EXCEPT !.status = "running"]
         /\ run'[j] = "buying"
      \/ item'[j] = item[j] /\ j = i /\ run'[j] = "done"
      \/ item'[j] = item[j] /\ run'[j] = run[j]
  BY DEF RunEnds
<1>3. CASE item'[j] = item[j] /\ (run'[j] = run[j] \/ (j = i /\ run'[j] = "done"))
  <2>1. Tame(j) \/ Steady(j)
    BY <1>1, <1>3 DEF Tame, Steady, Bound
  <2> QED
    BY <2>1, TameStray, SteadyStray
<1>4. CASE item[j].status = "queued" /\ item'[j] = [item[j] EXCEPT !.status = "running"]
           /\ run'[j] = "buying"
  <2>1. item'[j].status = "running" /\ item'[j].remoteId = item[j].remoteId
    BY <1>4, StatusFacts DEF Item
  <2>2. j \notin call.queued
    BY <1>4 DEF Stray
  <2> QED
    BY <1>1, <1>4, <2>1, <2>2 DEF Stray, Terminal
<1> QED
  BY <1>2, <1>3, <1>4

LEMMA StrayProceeds ==
  ASSUME TypeOK, ~Fault, \A j \in Items : Safe(j) /\ Stray(j), NEW i \in Items, Proceeds(i)
  PROVE  \A j \in Items : Stray(j)'
<1>1. run[i] \in {"buying", "napping", "dropping"} => ~Bound(i)
  BY DEF Safe, Early, Bound
<1>2. CASE Buy(i)
  BY <1>2, BuyStray
<1>3. CASE WakeUp(i)
  <2>1. call' = call /\ worker' = worker /\ run[i] = "napping" /\ ~Bound(i)'
    BY <1>1, <1>3 DEF WakeUp, calls, outside, Bound
  <2>2. CASE Cancelled(i)
    BY <1>3, <2>1, <2>2, CatchStray DEF WakeUp
  <2>3. CASE ~Cancelled(i)
    <3>1. item' = item /\ run' = [run EXCEPT ![i] = "buying"]
      BY <1>3, <2>3 DEF WakeUp, Goto
    <3>2. run'[i] = "buying"
      BY <3>1 DEF TypeOK
    <3> QED
      BY <2>1, <3>1, <3>2, MovesStray
  <2> QED
    BY <2>2, <2>3
<1>4. CASE Dropped(i)
  <2>1. call' = call /\ worker' = worker /\ run[i] = "dropping" /\ Catch(i)
    BY <1>4 DEF Dropped, calls, outside
  <2> QED
    BY <1>1, <2>1, CatchStray DEF Bound
<1>5. CASE Created(i)
  <2>1. PICK pc \in {"chasing", "polling"} : run' = [run EXCEPT ![i] = pc]
    BY <1>5 DEF Created, Goto
  <2>2. /\ item' = [item EXCEPT ![i].starting = FALSE] /\ call' = call /\ worker' = worker
        /\ run[i] \in {"creating", "probing"}
    BY <1>5 DEF Created, calls, outside
  <2>3. run'[i] = pc
    BY <2>1 DEF TypeOK
  <2> QED
    BY <2>1, <2>2, <2>3, MovesStray DEF Bound
<1>6. CASE ProbeFails(i)
  <2>1. /\ item' = item /\ call' = call /\ worker' = worker
        /\ run[i] = "probing" /\ run' = [run EXCEPT ![i] = "uncreating"]
    BY <1>6 DEF ProbeFails, calls, Goto
  <2>2. run'[i] = "uncreating" /\ ~Bound(i)'
    BY <2>1 DEF TypeOK, Stray, Bound
  <2> QED
    BY <2>1, <2>2, MovesStray
<1>7. CASE Uncreated(i)
  <2>1. ~Bound(i) /\ run[i] = "uncreating" /\ call' = call
        /\ (CancelAccepted(i) \/ CancelRejected(i))
    BY <1>7 DEF Uncreated, Stray, calls
  <2>2. ~Bound(i)' /\ \A j \in Items \ {i} : worker'[j] = worker[j]
    BY <2>1, CancelQuiet, CancelSame DEF Bound
  <2>3. CASE Cancelled(i)
    BY <1>7, <2>1, <2>2, <2>3, FinishStray DEF Uncreated
  <2>4. CASE ~Cancelled(i)
    BY <1>7, <2>1, <2>2, <2>4, CatchStray DEF Uncreated
  <2> QED
    BY <2>3, <2>4
<1>8. CASE Poll(i)
  <2>1. call' = call /\ worker' = worker /\ run[i] = "polling"
    BY <1>8 DEF Poll, calls, outside
  <2>2. CASE Cancelled(i)
    <3>1. item' = item /\ run' = [run EXCEPT ![i] = "chasing"]
      BY <1>8, <2>2 DEF Poll, Goto
    <3>2. run'[i] = "chasing"
      BY <3>1 DEF TypeOK
    <3> QED
      BY <2>1, <3>1, <3>2, MovesStray DEF Bound
  <2>3. CASE ~Cancelled(i) /\ worker[i] \in {"succeeded", "cancelled"}
    <3>1. PICK s \in {"completed", "cancelled"} : Finish(i, s)
      BY <1>8, <2>3 DEF Poll
    <3>2. Return(i) /\ ~Bound(i)'
      BY <1>8, <2>1, <2>3 DEF Poll, Bound
    <3> QED
      BY <2>1, <3>1, <3>2, FinishStray
  <2>4. CASE ~Cancelled(i) /\ worker[i] = "failed"
    <3>1. Catch(i) /\ ~Bound(i)'
      BY <1>8, <2>1, <2>4 DEF Poll, Bound
    <3> QED
      BY <2>1, <3>1, CatchStray
  <2> QED
    BY <1>8, <2>2, <2>3, <2>4 DEF Poll
<1>9. CASE Retracted(i)
  <2>1. ~Bound(i) /\ run[i] \in {"retracting", "disowning"} /\ call' = call
        /\ (CancelAccepted(i) \/ CancelRejected(i)) /\ Return(i)
    BY <1>9 DEF Retracted, Stray, calls
  <2>2. ~Bound(i)' /\ \A j \in Items \ {i} : worker'[j] = worker[j]
    BY <2>1, CancelQuiet, CancelSame DEF Bound
  <2>3. PICK s \in {"failed", "cancelled"} : Finish(i, s)
    BY <1>9 DEF Retracted
  <2> QED
    BY <2>1, <2>2, <2>3, FinishStray
<1>10. CASE RunEnds(i)
  BY <1>10, RunEndsStray
<1> QED
  BY <1>2, <1>3, <1>4, <1>5, <1>6, <1>7, <1>8, <1>9, <1>10 DEF Proceeds

\* The loops that cancel, the failures that need no fault, a status call.
LEMMA StrayOthers ==
  ASSUME TypeOK, ~Fault, \A j \in Items : Safe(j) /\ Stray(j), NEW i \in Items,
         Chases(i) \/ Fails(i) \/ Refresh(i)
  PROVE  \A j \in Items : Stray(j)'
<1>1. worker[i] \in Known => run[i] \notin {"buying", "napping", "dropping"}
  BY DEF Safe, Early, Known
<1>2. CASE ChaseAccepted(i)
  <2>1. call' = call /\ run' = run /\ Finish(i, "cancelled") /\ CancelAccepted(i)
        /\ worker[i] \in Known
    BY <1>2 DEF ChaseAccepted, CancelAccepted, calls
  <2>2. worker[i] # "sent"
    BY <2>1 DEF Known
  <2>3. ~Bound(i)' /\ \A j \in Items \ {i} : worker'[j] = worker[j]
    BY <2>1, <2>2, CancelQuiet, CancelSame
  <2> QED
    BY <1>1, <2>1, <2>3, FinishStray
<1>3. CASE ChaseEnds(i)
  BY <1>3, SteadyStray DEF ChaseEnds, Steady, calls, outside
<1>4. CASE ChaseRejected(i)
  <2>1. /\ item' = [item EXCEPT ![i].starting = FALSE] /\ run' = run /\ call' = call
        /\ worker' = worker
    BY <1>4 DEF ChaseRejected, CancelRejected, calls
  <2>2. run[i] \in {"probing", "uncreating", "retracting", "disowning"} => ~Bound(i)
    BY DEF Stray
  <2> QED
    BY <2>1, <2>2, MovesStray DEF Bound
<1>5. CASE CreateFails(i)
  <2>1. /\ item' = item /\ call' = call /\ worker' = worker /\ worker[i] = "refused"
        /\ run[i] = "creating" /\ run' = [run EXCEPT ![i] = "probing"]
    BY <1>5 DEF CreateFails, calls, Goto
  <2>2. run'[i] = "probing" /\ ~Bound(i)' /\ ~Bound(i)
    BY <2>1 DEF TypeOK, Bound
  <2> QED
    BY <2>1, <2>2, MovesStray
<1>6. CASE Refresh(i)
  <2>1. call' = call /\ run' = run /\ worker' = worker /\ worker[i] \in Known
    BY <1>6 DEF Refresh, calls, outside
  <2>2. CASE item' = [item EXCEPT ![i].starting = FALSE]
    <3>1. run[i] \in {"probing", "uncreating", "retracting", "disowning"} => ~Bound(i)
      BY DEF Stray
    <3> QED
      BY <2>1, <2>2, <3>1, MovesStray DEF Bound
  <2>3. CASE item' # [item EXCEPT ![i].starting = FALSE]
    <3>1. PICK s \in {"completed", "failed", "cancelled"} :
              Finish(i, s) /\ worker[i] \in {"succeeded", "failed", "cancelled"}
      BY <1>6, <2>3 DEF Refresh
    <3>2. ~Bound(i)'
      BY <2>1, <3>1 DEF Bound
    <3> QED
      BY <1>1, <2>1, <3>1, <3>2, FinishStray
  <2> QED
    BY <2>2, <2>3
<1> QED
  BY <1>2, <1>3, <1>4, <1>5, <1>6
     DEF Chases, Fails, BuyWrong, BuyNothing, BuyFails, PollFails, ReleaseFails

\* Releases, relay calls, the recovery and the worker leave the loops alone.
LEMMA StrayAround ==
  ASSUME TypeOK, ~Fault, \A j \in Items : Safe(j) /\ Stray(j), NEW i \in Items,
         Releases(i) \/ RetryRelease(i) \/ Relays(i) \/ Recover(i) \/ WorkerAnswers(i)
  PROVE  \A j \in Items : Stray(j)'
<1>1. run' = run /\ call' = call
  BY DEF Releases, HeroReleases, Released, RetryRelease, Relays, RelayCall, Armed, CodeArrives,
         NoCode, Recover, WorkerAnswers, service, calls
<1>2. \A j \in Items : item'[j].status = item[j].status /\ item'[j].remoteId = item[j].remoteId
  <2>1. CASE item' = item
    BY <2>1
  <2>2. CASE Released(i)
    BY <2>2, StatusFacts DEF Released, TypeOK, Item
  <2>3. CASE Armed(i) \/ CodeArrives(i)
    <3>1. \/ item' = item
          \/ item' = [item EXCEPT ![i].starting = FALSE, ![i].sms = "started"]
          \/ item' = [item EXCEPT ![i].starting = FALSE, ![i].sms = "resent"]
          \/ item' = [item EXCEPT ![i].starting = FALSE, ![i].sms = "delivered"]
      BY <2>3 DEF Armed, CodeArrives
    <3>2. item[i] \in Item /\ item \in [Items -> Item]
      BY DEF TypeOK
    <3>3. /\ item'[i].status = item[i].status /\ item'[i].remoteId = item[i].remoteId
          /\ \A j \in Items \ {i} : item'[j] = item[j]
      <4>1. ASSUME NEW s \in {"started", "resent", "delivered"},
                   item' = [item EXCEPT ![i].starting = FALSE, ![i].sms = s]
            PROVE  /\ item'[i].status = item[i].status /\ item'[i].remoteId = item[i].remoteId
                   /\ \A j \in Items \ {i} : item'[j] = item[j]
        BY <3>2, <4>1 DEF Item
      <4>2. CASE item' = item
        BY <4>2
      <4> QED
        BY <3>1, <4>1, <4>2
    <3> QED
      BY <3>3
  <2> QED
    BY <2>1, <2>2, <2>3 DEF Releases, HeroReleases, RetryRelease, Relays, RelayCall, NoCode,
                            Recover, WorkerAnswers
<1>3. CASE worker' = worker
  <2>1. \A j \in Items : Steady(j)
    BY <1>1, <1>2, <1>3 DEF Steady
  <2> QED
    BY <2>1, SteadyStray
<1>4. CASE Recover(i) \/ WorkerAnswers(i)
  <2>1. \A j \in Items : (worker'[j] = worker[j]) \/ (Bound(j)' => Bound(j))
    <3>1. CASE Recover(i)
      BY <3>1, CancelFacts DEF Recover, Bound
    <3>2. CASE WorkerAnswers(i)
      BY <3>2 DEF WorkerAnswers, TypeOK, Bound
    <3> QED
      BY <1>4, <3>1, <3>2
  <2>2. \A j \in Items : Tame(j)
    BY <1>1, <1>2, <2>1 DEF Tame, Stray, Bound
  <2> QED
    BY <2>2, TameStray
<1> QED
  BY <1>3, <1>4 DEF Releases, HeroReleases, Released, RetryRelease, Relays, RelayCall, Armed,
                    CodeArrives, NoCode, outside

LEMMA StrayWhole ==
  ASSUME TypeOK, \A j \in Items : Safe(j) /\ Stray(j),
         Cancel \/ CancelReturns \/ View \/ ViewEnds \/ RecoverPending \/ Recovered
  PROVE  \A j \in Items : Stray(j)'
<1> SUFFICES ASSUME NEW j \in Items PROVE Stray(j)'
  OBVIOUS
<1>1. run' = run /\ worker' = worker
  BY DEF Cancel, CancelReturns, View, ViewEnds, RecoverPending, Recovered, outside
<1>2. CASE Cancel
  <2> DEFINE hit == {i \in Items : item[i].status \in Active}
  <2>1. /\ item'[j] = IF j \in hit
            THEN [item[j] EXCEPT !.status = "cancel_requested", !.starting = FALSE] ELSE item[j]
        /\ call'.queued = {i \in hit : item[i].status = "queued"}
    BY <1>2 DEF Cancel
  <2>2. j \in hit => /\ item'[j].status = "cancel_requested"
                     /\ item'[j].remoteId = item[j].remoteId
    BY <2>1, StatusFacts DEF Item
  <2>3. CASE j \in hit
    BY <1>1, <2>1, <2>2, <2>3 DEF Stray, Bound, Terminal
  <2>4. CASE j \notin hit
    <3>1. Steady(j)
      BY <1>1, <2>1, <2>4 DEF Steady
    <3> QED
      BY <3>1, SteadyStray
  <2> QED
    BY <2>3, <2>4
<1>3. CASE CancelReturns
  <2>1. /\ call'.queued = {}
        /\ item'[j] = IF j \in call.queued /\ item[j].status \notin Terminal
               THEN [item[j] EXCEPT !.status = "cancelled"] ELSE item[j]
    BY <1>3 DEF CancelReturns
  <2>2. CASE item'[j] = item[j]
    BY <1>1, <2>1, <2>2, SteadyStray DEF Steady
  <2>3. CASE j \in call.queued /\ item'[j] = [item[j] EXCEPT !.status = "cancelled"]
    <3>1. item'[j].status = "cancelled" /\ item'[j].remoteId = item[j].remoteId
      BY <2>3, StatusFacts DEF Item
    <3>2. run[j] = "idle" /\ ~Bound(j)
      BY <2>3 DEF Stray, Safe, Early, Bound
    <3>3. Tame(j)
      BY <1>1, <2>1, <3>1, <3>2 DEF Tame, Bound, Terminal
    <3> QED
      BY <3>3, TameStray
  <2> QED
    BY <2>1, <2>2, <2>3
<1>4. CASE View \/ ViewEnds \/ RecoverPending \/ Recovered
  BY <1>1, <1>4, SteadyStray DEF View, ViewEnds, RecoverPending, Recovered, Steady
<1> QED
  BY <1>2, <1>3, <1>4

LEMMA StrayNext == IInv /\ StrayInv /\ [Next]_vars => StrayInv'
<1> SUFFICES ASSUME IInv, StrayInv, [Next]_vars, Quiet' PROVE \A i \in Items : Stray(i)'
  BY DEF StrayInv
<1>1. TypeOK /\ \A i \in Items : Safe(i)
  BY DEF IInv
<1>2. Quiet /\ ~Fault /\ ~Restart
  BY <1>1, QuietBefore
<1>3. \A i \in Items : Stray(i)
  BY <1>2 DEF StrayInv
<1>4. CASE UNCHANGED vars
  BY <1>3, <1>4, SteadyStray DEF vars, service, calls, outside, Steady
<1>5. CASE Next
  BY <1>1, <1>2, <1>3, <1>5, StrayProceeds, StrayOthers, StrayAround, StrayWhole DEF Next
<1> QED
  BY <1>4, <1>5

\* cancel and runItem: while nothing fails and nobody restarts the hub, no
\* binding goes on at the worker, untold, once its item is over.
THEOREM StrayCorrect == Spec => []NoStrayBinding
<1>1. StrayInv => NoStrayBinding
  BY DEF StrayInv, Quiet, Stray, Bound, NoStrayBinding
<1> QED
  BY <1>1, Safety, StrayInit, StrayNext, PTL DEF Spec

================================================================================
