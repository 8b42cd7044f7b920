---------------------------- MODULE IcPipelineProofs ----------------------------
(***************************************************************************)
(* What holds of IcPipeline for any accounts, extractions, workers and     *)
(* failures: an item submits at most one agreement, and one that is        *)
(* completed has been registered and paid with its own link.               *)
(*                                                                         *)
(* The code keeps neither fact anywhere.  PaidOnce says where they are     *)
(* known: while nothing was submitted, by the place the item's loop is at; *)
(* afterwards by the stage of its row, which a restart fails, so that no   *)
(* loop takes the item up again.  PaidFor says what the loop has behind it *)
(* at each place.  Every other step, the cancels and their late calls      *)
(* above all, only lets a row Grow.                                        *)
(***************************************************************************)
EXTENDS IcPipeline, PaymentLinksProofs

Rows ==
  {r \in [Account -> Item] : \A a \in Account : r[a].status \in ItemOver <=> r[a].stage = "over"}

TaskStates == TaskOver \cup {"running", "cancel_requested"}
Loops == {"waiting", "registration", "queueing", "linking", "link",
          "paying", "paid", "agreement", "done"}
Jobs == {"none", "inserted", "submitted", "completed", "failed", "cancelled"}

StartTypes == start \in Starting
ItemTypes  == item \in Rows /\ task \in TaskStates
BossTypes  == boss \in [at : {"off", "creating", "submitting", "adopting", "working"},
                        missing : SUBSET Account]
LoopTypes  == run \in [Account -> Loops]
JobTypes   == job \in [Account -> Jobs]
PaidTypes  == paidLink \in [Payment -> Extraction \cup {None}]

\* No loop runs before the registrations are there.
Idle == boss.at # "working" => \A a \in Account : run[a] = "waiting"

Unpaid(a) == payment[<<a, 1>>] = "none"

PaidOnce(a) ==
  /\ payment[<<a, 2>>] = "none"
  /\ run[a] \in {"registration", "queueing", "linking", "link", "paying"} => Unpaid(a)
  /\ run[a] = "waiting" => Unpaid(a) \/ item[a].status \in ItemOver
  /\ Unpaid(a) \/ item[a].stage \in {"agreement_submitting", "agreement_wait", "over"}
  /\ run[a] = "paying" => item[a].stage \in {"agreement_submitting", "over"}
  /\ run[a] \in {"paid", "agreement"} => ~Unpaid(a)

PaidFor(a) ==
  /\ job[a] = "completed" => registration[a] = "succeeded"
  /\ run[a] \in {"queueing", "linking", "link", "paying", "paid", "agreement"} =>
       registration[a] = "succeeded"
  /\ run[a] \in {"paying", "paid", "agreement"} => paidLink[<<a, 1>>] = item[a].link
  /\ run[a] = "agreement" => item[a].pay = 1
  /\ item[a].status = "completed" =>
       /\ registration[a] = "succeeded" /\ item[a].pay = 1
       /\ payment[<<a, 1>>] = "succeeded" /\ paidLink[<<a, 1>>] = item[a].link

Types == StartTypes /\ ItemTypes /\ BossTypes /\ LoopTypes /\ JobTypes /\ PaidTypes

Inv == Types /\ Idle /\ \A a \in Account : PaidOnce(a) /\ PaidFor(a)

--------------------------------------------------------------------------------
(* What a step does to a row, and to an item it does not move on.             *)

\* A row may end, but not as completed, and its link and its job stay.
Grows(old, new) ==
  /\ new.link = old.link /\ new.pay = old.pay
  /\ new.status = "completed" => old.status = "completed"
  /\ old.status \in ItemOver => new.status \in ItemOver
  /\ new.stage \in {old.stage, "over"}

RowsGrow ==
  /\ item' \in Rows /\ task' \in TaskStates
  /\ \A b \in Account : Grows(item[b], item'[b])

\* An item keeps its extraction.
LinksKept == \A b \in Account : item'[b].link = item[b].link

\* What was submitted stays submitted, and what succeeded stays so.
PaymentsKept(b) ==
  /\ \A n \in {1, 2} : payment'[<<b, n>>] = "none" <=> payment[<<b, n>>] = "none"
  /\ payment[<<b, 1>>] = "succeeded" => payment'[<<b, 1>>] = "succeeded"

RegistrationKept(b) ==
  /\ registration[b] = "succeeded" => registration'[b] = "succeeded"
  /\ job'[b] = "completed" => job[b] = "completed" \/ registration'[b] = "succeeded"

Kept(b) ==
  /\ Grows(item[b], item'[b])
  /\ run'[b] \in {run[b], "done"}
  /\ PaymentsKept(b) /\ RegistrationKept(b)
  /\ paidLink'[<<b, 1>>] = paidLink[<<b, 1>>]

\* An item that is kept keeps what was known of it.
LEMMA KeptHolds ==
  ASSUME NEW b \in Account, Kept(b), PaidOnce(b), PaidFor(b)
  PROVE  PaidOnce(b)' /\ PaidFor(b)'
<1>1. PaidOnce(b)'
  BY DEF Kept, Grows, PaymentsKept, PaidOnce, Unpaid, ItemOver
<1>2. PaidFor(b)'
  BY DEF Kept, Grows, PaymentsKept, RegistrationKept, PaidFor
<1> QED
  BY <1>1, <1>2

\* So a step has to be looked at only for the items it does not keep.
LEMMA StepHolds ==
  ASSUME Inv, Types', Idle',
         \A b \in Account : Kept(b) \/ (PaidOnce(b)' /\ PaidFor(b)')
  PROVE  Inv'
BY KeptHolds DEF Inv

LEMMA GrowsAgain ==
  ASSUME NEW old, NEW mid, NEW new, Grows(old, mid), Grows(mid, new)
  PROVE  Grows(old, new)
BY DEF Grows

LEMMA RowFields ==
  ASSUME NEW rows \in Rows, NEW a \in Account
  PROVE  /\ rows[a] \in Item /\ (rows[a].status \in ItemOver <=> rows[a].stage = "over")
         /\ rows[a].status \in Active \cup ItemOver /\ rows[a].link \in Extraction \cup {None}
BY DEF Rows, Item

LEMMA RecomputeType ==
  ASSUME NEW t \in TaskStates, NEW rows
  PROVE  Recompute(t, rows) \in TaskStates
BY DEF Recompute, TaskStates, TaskOver

\* Rows that replace one row by another are rows again.
LEMMA RowReplaced ==
  ASSUME NEW rows \in Rows, NEW a \in Account, NEW row \in Item,
         row.status \in ItemOver <=> row.stage = "over"
  PROVE  /\ [rows EXCEPT ![a] = row] \in Rows
         /\ [rows EXCEPT ![a] = row][a] = row
         /\ \A b \in Account : b # a => [rows EXCEPT ![a] = row][b] = rows[b]
BY DEF Rows

LEMMA FinishedGrows ==
  ASSUME NEW rows \in Rows, NEW a \in Account, NEW status \in ItemOver \ {"completed"}
  PROVE  /\ Finished(rows, a, status) \in Rows
         /\ Finished(rows, a, status)[a].status \in ItemOver
         /\ \A b \in Account : Grows(rows[b], Finished(rows, a, status)[b])
<1>1. CASE rows[a].status \in ItemOver
  BY <1>1 DEF Finished, Grows
<1>2. CASE rows[a].status \notin ItemOver
  <2> DEFINE s   == IF rows[a].status = "cancel_requested" THEN "cancelled" ELSE status
             row == [rows[a] EXCEPT !.stage = "over", !.status = s]
  <2>1. rows[a] \in Item /\ s \in ItemOver /\ s # "completed"
    BY DEF Rows, ItemOver
  <2>2. /\ row \in Item /\ row.stage = "over" /\ row.status = s
        /\ row.link = rows[a].link /\ row.pay = rows[a].pay
    BY <2>1 DEF Item, Stages
  <2>3. Finished(rows, a, status) = [rows EXCEPT ![a] = row]
    BY <1>2, <2>1 DEF Finished, Rows, Item
  <2> HIDE DEF s, row
  <2>4. [rows EXCEPT ![a] = row] \in Rows /\ [rows EXCEPT ![a] = row][a] = row
    BY <2>1, <2>2, RowReplaced
  <2>5. \A b \in Account : b # a => [rows EXCEPT ![a] = row][b] = rows[b]
    BY <2>1, <2>2, RowReplaced
  <2> QED
    BY <2>1, <2>2, <2>3, <2>4, <2>5 DEF Grows
<1> QED
  BY <1>1, <1>2

\* A row that is staged is one that is neither cancelled nor over.
LEMMA StagedRow ==
  ASSUME NEW row \in Item, row.status \in ItemOver <=> row.stage = "over",
         NEW stage \in Stages \ {"over"}
  PROVE  LET new == Staged(row, stage) IN
         /\ new \in Item /\ (new.status \in ItemOver <=> new.stage = "over")
         /\ new.link = row.link /\ new.pay = row.pay
         /\ new.status = "completed" <=> row.status = "completed"
         /\ new.status \in ItemOver <=> row.status \in ItemOver
         /\ row.status \in {"queued", "running"} => new.stage = stage
         /\ row.status \notin {"queued", "running"} => new = row
BY DEF Staged, Item, Active, ItemOver

LEMMA Same ==
  ASSUME ItemTypes, UNCHANGED <<task, item>>
  PROVE  RowsGrow
BY DEF ItemTypes, RowsGrow, Grows

LEMMA WriteFinished ==
  ASSUME ItemTypes, NEW a \in Account, NEW status \in ItemOver \ {"completed"},
         Write(Finished(item, a, status))
  PROVE  RowsGrow
BY FinishedGrows, RecomputeType DEF ItemTypes, RowsGrow, Write

LEMMA WriteRow ==
  ASSUME ItemTypes, NEW a \in Account, NEW row \in Item,
         row.status \in ItemOver <=> row.stage = "over",
         Write([item EXCEPT ![a] = row])
  PROVE  ItemTypes' /\ item'[a] = row /\ \A b \in Account : b # a => item'[b] = item[b]
<1>1. item \in Rows /\ task \in TaskStates
  BY DEF ItemTypes
<1>2. item' = [item EXCEPT ![a] = row] /\ task' = Recompute(task, [item EXCEPT ![a] = row])
  BY DEF Write
<1>3. item' \in Rows
  BY <1>1, <1>2, RowReplaced
<1>4. item'[a] = row /\ \A b \in Account : b # a => item'[b] = item[b]
  BY <1>1, <1>2, RowReplaced
<1>5. task' \in TaskStates
  BY <1>1, <1>2, RecomputeType
<1> QED
  BY <1>3, <1>4, <1>5 DEF ItemTypes

LEMMA GoesGrows ==
  ASSUME ItemTypes, NEW w, NEW a \in Account, NEW f, Goes(w, a, f)
  PROVE  RowsGrow
<1>1. "cancelled" \in ItemOver \ {"completed"}
  BY DEF ItemOver
<1>2. UNCHANGED <<task, item>> \/ Write(Finished(item, a, "cancelled"))
  BY DEF Goes
<1> QED
  BY <1>1, <1>2, Same, WriteFinished

LEMMA CancelItemGrows ==
  ASSUME ItemTypes, NEW a \in Account, CancelItem(a)
  PROVE  RowsGrow
<1>1. UNCHANGED <<task, item>> \/ Goes("cancel", a, Known(a, item[a]))
  BY DEF CancelItem
<1> QED
  BY <1>1, Same, GoesGrows

\* The loop of an item ends, and not with a success.
Ends(a) == RowsGrow /\ run' = [run EXCEPT ![a] = "done"]

LEMMA VerdictEnds ==
  ASSUME ItemTypes, NEW a \in Account, NEW status \in ItemOver \ {"completed"}, Verdict(a, status)
  PROVE  Ends(a)
BY WriteFinished DEF Verdict, At, Ends

LEMMA ThrowsEnds ==
  ASSUME ItemTypes, NEW a \in Account, Throws(a)
  PROVE  Ends(a)
<1>1. "failed" \in ItemOver \ {"completed"}
  BY DEF ItemOver
<1>2. CASE ItemCancelled(a)
  BY <1>2, CancelItemGrows DEF Throws, At, Ends
<1>3. CASE ~ItemCancelled(a)
  BY <1>1, <1>3, VerdictEnds DEF Throws
<1> QED
  BY <1>2, <1>3

LEMMA MarkedGrows ==
  ASSUME NEW rows \in Rows
  PROVE  /\ Marked(rows) \in Rows
         /\ \A b \in Account : Grows(rows[b], Marked(rows)[b])
<1>1. "cancelled" \in ItemOver \ {"completed"}
  BY DEF ItemOver
<1> SUFFICES ASSUME NEW b \in Account
             PROVE  /\ Marked(rows)[b] \in Item
                    /\ Marked(rows)[b].status \in ItemOver <=> Marked(rows)[b].stage = "over"
                    /\ Grows(rows[b], Marked(rows)[b])
  BY DEF Marked, Rows
<1>2. rows[b] \in Item /\ (rows[b].status \in ItemOver <=> rows[b].stage = "over")
  BY RowFields
<1>3. CASE rows[b].status \notin Active
  BY <1>2, <1>3 DEF Marked, Grows
<1>4. CASE rows[b].status \in Active /\ Known(b, rows[b]).at = "over"
  <2>1. Marked(rows)[b] = Finished(rows, b, "cancelled")[b]
    BY <1>4 DEF Marked
  <2>2. Finished(rows, b, "cancelled") \in Rows
    BY <1>1, FinishedGrows
  <2>3. Grows(rows[b], Finished(rows, b, "cancelled")[b])
    BY <1>1, FinishedGrows
  <2> QED
    BY <2>1, <2>2, <2>3, RowFields
<1>5. CASE rows[b].status \in Active /\ Known(b, rows[b]).at # "over"
  <2>1. Marked(rows)[b] = [rows[b] EXCEPT !.status = "cancel_requested"]
    BY <1>5 DEF Marked
  <2> QED
    BY <1>2, <1>5, <2>1 DEF Item, Active, ItemOver, Grows
<1> QED
  BY <1>3, <1>4, <1>5

LEMMA CancelledGrows ==
  ASSUME NEW rows \in Rows, NEW flows, Cancelled(rows, flows)
  PROVE  /\ item' \in Rows /\ task' \in TaskStates
         /\ \A b \in Account : Grows(rows[b], item'[b])
<1>1. "cancel_requested" \in TaskStates
  BY DEF TaskStates
<1> QED
  BY <1>1, MarkedGrows, RecomputeType DEF Cancelled

LEMMA RecoveredGrows ==
  ASSUME ItemTypes
  PROVE  /\ Recovered \in Rows
         /\ \A b \in Account :
              /\ Grows(item[b], Recovered[b])
              /\ item[b].stage \in {"agreement_submitting", "agreement_wait"} =>
                   Recovered[b].status \in ItemOver
<1>1. "failed" \in ItemOver \ {"completed"}
  BY DEF ItemOver
<1>2. item \in Rows
  BY DEF ItemTypes
<1> SUFFICES ASSUME NEW b \in Account
             PROVE  /\ Recovered[b] \in Item
                    /\ Recovered[b].status \in ItemOver <=> Recovered[b].stage = "over"
                    /\ Grows(item[b], Recovered[b])
                    /\ item[b].stage \in {"agreement_submitting", "agreement_wait"} =>
                         Recovered[b].status \in ItemOver
  BY DEF Recovered, Rows
<1>3. CASE item[b].stage \in {"agreement_submitting", "agreement_wait"}
  <2>1. Recovered[b] = Finished(item, b, "failed")[b]
    BY <1>3 DEF Recovered
  <2>2. Finished(item, b, "failed") \in Rows
    BY <1>1, <1>2, FinishedGrows
  <2>3. /\ Grows(item[b], Finished(item, b, "failed")[b])
        /\ Finished(item, b, "failed")[b].status \in ItemOver
    BY <1>1, <1>2, FinishedGrows
  <2> QED
    BY <2>1, <2>2, <2>3, RowFields
<1>4. CASE item[b].stage \notin {"agreement_submitting", "agreement_wait"}
  BY <1>2, <1>4, RowFields DEF Recovered, Grows
<1> QED
  BY <1>3, <1>4

\* An item that registers anew is staged, one that cannot be fails.
LEMMA RediscoveredGrows ==
  ASSUME NEW rows \in Rows
  PROVE  /\ Rediscovered(rows) \in Rows
         /\ \A b \in Account :
              LET new == Rediscovered(rows)[b] IN
              /\ new.link = rows[b].link /\ new.pay = rows[b].pay
              /\ new.status = "completed" => rows[b].status = "completed"
              /\ rows[b].status \in ItemOver => new = rows[b]
<1> DEFINE found == [a \in Account |->
                       IF a \in Registers(rows) /\ job[a] # "none"
                       THEN [Staged(rows[a], "registration_wait") EXCEPT !.job = TRUE] ELSE rows[a]]
           left  == Registers(found)
           same  == \A a \in Account : found[a].status \notin ItemOver => a \in left
<1>1. \A b \in Account :
        /\ found[b] \in Item /\ (found[b].status \in ItemOver <=> found[b].stage = "over")
        /\ found[b].link = rows[b].link /\ found[b].pay = rows[b].pay
        /\ found[b].status = "completed" => rows[b].status = "completed"
        /\ rows[b].status \in ItemOver => found[b] = rows[b]
  <2> SUFFICES ASSUME NEW b \in Account
               PROVE  /\ found[b] \in Item /\ (found[b].status \in ItemOver <=> found[b].stage = "over")
                      /\ found[b].link = rows[b].link /\ found[b].pay = rows[b].pay
                      /\ found[b].status = "completed" => rows[b].status = "completed"
                      /\ rows[b].status \in ItemOver => found[b] = rows[b]
    OBVIOUS
  <2>1. rows[b] \in Item /\ (rows[b].status \in ItemOver <=> rows[b].stage = "over")
    BY RowFields
  <2>2. CASE b \in Registers(rows) /\ job[b] # "none"
    <3> DEFINE s == Staged(rows[b], "registration_wait")
    <3>1. "registration_wait" \in Stages \ {"over"}
      BY DEF Stages
    <3>2. /\ s \in Item /\ (s.status \in ItemOver <=> s.stage = "over")
          /\ s.link = rows[b].link /\ s.pay = rows[b].pay
          /\ s.status = "completed" <=> rows[b].status = "completed"
      BY <2>1, <3>1, StagedRow
    <3>3. found[b] = [s EXCEPT !.job = TRUE] /\ rows[b].status \notin ItemOver
      BY <2>2 DEF Registers
    <3> HIDE DEF s, found
    <3> QED
      BY <3>2, <3>3 DEF Item
  <2>3. CASE ~(b \in Registers(rows) /\ job[b] # "none")
    BY <2>1, <2>3
  <2> QED
    BY <2>2, <2>3
<1>2. found \in Rows
  BY <1>1 DEF Rows
<1>3. Rediscovered(rows) =
        IF same THEN found
        ELSE [a \in Account |-> IF a \in left THEN Finished(found, a, "failed")[a] ELSE found[a]]
  BY DEF Rediscovered
<1>4. \A b \in left : found[b].status \notin ItemOver
  BY DEF Registers
<1> HIDE DEF found, left, same
<1>5. CASE same
  BY <1>1, <1>2, <1>3, <1>5
<1>6. CASE ~same
  <2>1. "failed" \in ItemOver \ {"completed"}
    BY DEF ItemOver
  <2>2. \A b \in Account : Finished(found, b, "failed")[b] \in Item
    BY <1>2, <2>1, FinishedGrows, RowFields
  <2>3. \A b \in Account :
          Finished(found, b, "failed")[b].status \in ItemOver <=>
          Finished(found, b, "failed")[b].stage = "over"
    BY <1>2, <2>1, FinishedGrows, RowFields
  <2>4. \A b \in Account : Grows(found[b], Finished(found, b, "failed")[b])
    BY <1>2, <2>1, FinishedGrows
  <2>5. \A b \in Account :
          /\ b \in left => Rediscovered(rows)[b] = Finished(found, b, "failed")[b]
          /\ b \notin left => Rediscovered(rows)[b] = found[b]
    BY <1>3, <1>6
  <2>6. Rediscovered(rows) \in Rows
    <3>1. \A b \in Account :
            /\ Rediscovered(rows)[b] \in Item
            /\ Rediscovered(rows)[b].status \in ItemOver <=> Rediscovered(rows)[b].stage = "over"
      BY <1>1, <2>2, <2>3, <2>5
    <3>2. Rediscovered(rows) = [a \in Account |-> Rediscovered(rows)[a]]
      BY <1>3, <1>6
    <3> HIDE DEF Rediscovered
    <3> QED
      BY <3>1, <3>2 DEF Rows
  <2> QED
    BY <1>1, <1>4, <2>4, <2>5, <2>6 DEF Grows
<1> QED
  BY <1>5, <1>6

--------------------------------------------------------------------------------
(* What the services do, and steps that move no item on.                      *)

LEMMA AgreementsKept ==
  ASSUME NEW p \in Payment, Agreement!Cancel(p, {}) \/ Agreement!Work(p)
  PROVE  \A b \in Account : PaymentsKept(b)
<1>1. PICK to : /\ payment' = [i \in Payment |-> IF i = p THEN to ELSE payment[i]]
                /\ payment[p] \in {"queued", "running", "cancelling"} /\ to # "none"
  BY DEF Agreement!Cancel, Agreement!Work, Agreement!Begin, Agreement!Finish,
         Agreement!Verdicts, Agreement!Move
<1> QED
  BY <1>1 DEF Payment, PaymentsKept

LEMMA NoPayments ==
  ASSUME UNCHANGED payment
  PROVE  \A b \in Account : PaymentsKept(b)
BY DEF PaymentsKept

LEMMA SuccessKept ==
  ASSUME NEW a \in Account,
         Worker!Submit(a, {}) \/ Worker!Cancel(a, {}) \/ Worker!Work(a) \/ UNCHANGED registration
  PROVE  \A b \in Account : registration[b] = "succeeded" => registration'[b] = "succeeded"
<1>1. CASE UNCHANGED registration
  BY <1>1
<1>2. CASE ~UNCHANGED registration
  <2>1. PICK to : /\ registration' = [i \in Account |-> IF i = a THEN to ELSE registration[i]]
                  /\ registration[a] \in {"none", "queued", "running", "cancelling"}
    BY <1>2 DEF Worker!Submit, Worker!Cancel, Worker!Work, Worker!Begin, Worker!Finish,
                Worker!Verdicts, Worker!Move
  <2> QED
    BY <2>1
<1> QED
  BY <1>1, <1>2

LEMMA NoRegistrations ==
  ASSUME UNCHANGED <<job, registration>>
  PROVE  \A b \in Account : RegistrationKept(b)
BY DEF RegistrationKept

LEMMA StartStaysTyped ==
  ASSUME StartTypes,
         \/ \E a \in Account, by \in {"user", "pipeline"} : Accept(a, by)
         \/ \E e \in Extraction : Submitted(e)
         \/ Started \/ NotStarted \/ Reboot \/ UNCHANGED start
  PROVE  StartTypes'
<1>1. NoStart \in Starting
  BY DEF NoStart, Starting
<1>2. CASE \E a \in Account, by \in {"user", "pipeline"} : Accept(a, by)
  BY <1>2 DEF Accept, NoStart, Starting, StartTypes
<1>3. CASE \E e \in Extraction : Submitted(e)
  BY <1>3 DEF Submitted, Starting, StartTypes
<1>4. CASE Started \/ NotStarted \/ Reboot
  BY <1>1, <1>4 DEF Started, NotStarted, Reboot, StartDone, StartTypes
<1> QED
  BY <1>2, <1>3, <1>4 DEF StartTypes

\* A step that ends at most the loop of one item
LEMMA QuietStep ==
  ASSUME Inv, RowsGrow, StartTypes', JobTypes', UNCHANGED <<boss, paidLink>>,
         UNCHANGED run \/ \E a \in Account : run[a] # "waiting" /\ run' = [run EXCEPT ![a] = "done"],
         \A b \in Account : PaymentsKept(b), \A b \in Account : RegistrationKept(b)
  PROVE  Inv' /\ LinksKept
<1>1. Types /\ Idle
  BY DEF Inv
<1>2. LoopTypes' /\ \A b \in Account : run'[b] \in {run[b], "done"}
  BY <1>1 DEF Types, LoopTypes, Loops
<1>3. Types'
  BY <1>1, <1>2 DEF Types, RowsGrow, ItemTypes, BossTypes, PaidTypes
<1>4. Idle'
  BY <1>1 DEF Idle
<1>5. \A b \in Account : Kept(b)
  BY <1>2 DEF Kept, RowsGrow
<1>6. LinksKept
  BY DEF RowsGrow, Grows, LinksKept
<1> QED
  BY <1>3, <1>4, <1>5, <1>6, StepHolds

--------------------------------------------------------------------------------
(* The steps of the cancels and of runTask.                                   *)

LEMMA FlowRegistrationStep ==
  ASSUME Inv, NEW w, NEW a \in Account, FlowRegistration(w, a)
  PROVE  Inv' /\ LinksKept
<1>1. Types
  BY DEF Inv
<1>2. RowsGrow
  BY <1>1, GoesGrows DEF FlowRegistration, Types
<1>3. /\ Worker!Cancel(a, {}) \/ UNCHANGED registration
      /\ \/ UNCHANGED job
         \/ job' = [job EXCEPT ![a] =
                      IF @ = "inserted" THEN "cancelled"
                      ELSE IF registration'[a] \in Worker!Over THEN Synced(registration'[a]) ELSE @]
  BY DEF FlowRegistration
<1>4. \A b \in Account : registration[b] = "succeeded" => registration'[b] = "succeeded"
  BY <1>3, SuccessKept
<1>5. JobTypes'
  BY <1>1, <1>3 DEF Types, JobTypes, Jobs, Synced, Worker!Over
<1>6. \A b \in Account : RegistrationKept(b)
  BY <1>1, <1>3, <1>4 DEF Types, JobTypes, RegistrationKept, Synced, Worker!Over
<1>7. UNCHANGED <<start, boss, run, payment, paidLink>>
  BY DEF FlowRegistration
<1> QED
  BY <1>1, <1>2, <1>5, <1>6, <1>7, NoPayments, QuietStep DEF Types, StartTypes

LEMMA FlowLinkStep ==
  ASSUME Inv, NEW w, NEW a \in Account, FlowLink(w, a) \/ FlowAnswered(w, a)
  PROVE  Inv' /\ LinksKept
<1>1. Types
  BY DEF Inv
<1>2. RowsGrow
  BY <1>1, GoesGrows, Same DEF FlowLink, FlowAnswered, Types
<1>3. UNCHANGED <<start, job, boss, run, registration, payment, paidLink>>
  BY DEF FlowLink, FlowAnswered, children
<1> QED
  BY <1>1, <1>2, <1>3, NoPayments, NoRegistrations, QuietStep DEF Types, StartTypes, JobTypes

\* A call has a number of a job, or ends without one.
LEMMA FlowPaymentStep ==
  ASSUME Inv, NEW w, NEW a \in Account, FlowPayment(w, a)
  PROVE  Inv' /\ LinksKept
<1>1. Types
  BY DEF Inv
<1>2. RowsGrow
  BY <1>1, GoesGrows DEF FlowPayment, Types
<1>3. UNCHANGED <<start, job, boss, run, registration, paidLink>>
  BY DEF FlowPayment
<1>4. \A b \in Account : PaymentsKept(b)
  <2> DEFINE p == <<a, flow[w][a].pay>>
  <2>1. CASE UNCHANGED payment
    BY <2>1, NoPayments
  <2>2. CASE Agreement!Cancel(p, {})
    <3>1. PICK to : /\ payment' = [i \in Payment |-> IF i = p THEN to ELSE payment[i]]
                    /\ payment[p] \in {"queued", "running"} /\ to # "none"
      BY <2>2 DEF Agreement!Cancel, Agreement!Move
    <3> HIDE DEF p
    <3> QED
      BY <3>1 DEF Payment, PaymentsKept
  <2> QED
    BY <2>1, <2>2 DEF FlowPayment
<1> QED
  BY <1>1, <1>2, <1>3, <1>4, NoRegistrations, QuietStep DEF Types, StartTypes, JobTypes

LEMMA CancelStep ==
  ASSUME Inv, Cancel
  PROVE  Inv' /\ LinksKept
<1>1. Types
  BY DEF Inv
<1>2. RowsGrow
  BY <1>1, CancelledGrows DEF Cancel, Types, ItemTypes, RowsGrow
<1>3. UNCHANGED <<start, job, boss, run, registration, payment, paidLink>>
  BY DEF Cancel, linkVars, children
<1> QED
  BY <1>1, <1>2, <1>3, NoPayments, NoRegistrations, QuietStep DEF Types, StartTypes, JobTypes

LEMMA BossStep ==
  ASSUME Inv, Insert \/ Refused \/ SubmitsDone \/ Adopted
  PROVE  Inv' /\ LinksKept
<1>1. Types /\ Idle
  BY DEF Inv
<1>2. UNCHANGED <<start, task, item, run, registration, payment, paidLink>>
  BY DEF Insert, Refused, SubmitsDone, Adopted, linkVars, children
<1>3. BossTypes' /\ JobTypes' /\ Idle'
  BY <1>1, <1>2 DEF Types, BossTypes, JobTypes, Jobs, Idle, Insert, Refused, SubmitsDone, Adopted
<1>4. Types'
  BY <1>1, <1>2, <1>3 DEF Types, StartTypes, ItemTypes, LoopTypes, PaidTypes
<1>5. \A b \in Account : RegistrationKept(b)
  BY <1>2 DEF RegistrationKept, Insert, Refused, SubmitsDone, Adopted
<1>6. RowsGrow
  BY <1>1, <1>2, Same DEF Types
<1>7. \A b \in Account : Kept(b)
  BY <1>2, <1>5, <1>6, NoPayments DEF Kept, RowsGrow
<1> QED
  BY <1>2, <1>3, <1>4, <1>7, StepHolds DEF LinksKept

LEMMA SubmitStep ==
  ASSUME Inv, NEW a \in Account, Submit(a)
  PROVE  Inv' /\ LinksKept
<1>1. Types
  BY DEF Inv
<1>2. UNCHANGED <<start, task, item, boss, run, payment, paidLink>>
  BY DEF Submit
<1>3. /\ Worker!Submit(a, {}) \/ UNCHANGED registration
      /\ \E s \in {"submitted", "failed"} : job' = [job EXCEPT ![a] = s]
  BY DEF Submit
<1>4. \A b \in Account : registration[b] = "succeeded" => registration'[b] = "succeeded"
  BY <1>3, SuccessKept
<1>5. JobTypes' /\ \A b \in Account : RegistrationKept(b)
  BY <1>1, <1>3, <1>4 DEF Types, JobTypes, Jobs, RegistrationKept
<1> QED
  BY <1>1, <1>2, <1>5, Same, NoPayments, QuietStep DEF Types, StartTypes

LEMMA AdoptStep ==
  ASSUME Inv, NEW a \in Account, Adopt(a)
  PROVE  Inv' /\ LinksKept
<1> DEFINE s   == Staged(item[a], "registration_wait")
           row == [s EXCEPT !.job = TRUE]
<1>1. Types /\ Idle /\ \A b \in Account : PaidOnce(b) /\ PaidFor(b)
  BY DEF Inv
<1>2. /\ UNCHANGED <<start, job, run, registration, payment, paidLink>>
      /\ boss.at = "adopting" /\ boss' = [boss EXCEPT !.missing = @ \ {a}]
      /\ Write(Finished(item, a, "failed")) \/ Write([item EXCEPT ![a] = row])
  BY DEF Adopt, linkVars, children
<1>3. BossTypes' /\ boss'.at = "adopting"
  BY <1>1, <1>2 DEF Types, BossTypes
<1>4. Idle'
  BY <1>1, <1>2 DEF Idle
<1>5. CASE Write(Finished(item, a, "failed"))
  <2>1. "failed" \in ItemOver \ {"completed"}
    BY DEF ItemOver
  <2>2. RowsGrow
    BY <1>1, <1>5, <2>1, WriteFinished DEF Types
  <2>3. Types'
    BY <1>1, <1>2, <1>3, <2>2 DEF Types, StartTypes, RowsGrow, ItemTypes, LoopTypes, JobTypes, PaidTypes
  <2>4. \A b \in Account : Kept(b)
    BY <1>2, <2>2, NoPayments, NoRegistrations DEF Kept, RowsGrow
  <2> QED
    BY <1>4, <2>2, <2>3, <2>4, StepHolds DEF LinksKept, RowsGrow, Grows
<1>6. CASE Write([item EXCEPT ![a] = row])
  <2>1. item[a] \in Item /\ (item[a].status \in ItemOver <=> item[a].stage = "over")
    BY <1>1, RowFields DEF Types, ItemTypes
  <2>2. "registration_wait" \in Stages \ {"over"}
    BY DEF Stages
  <2>3. /\ s \in Item /\ (s.status \in ItemOver <=> s.stage = "over")
        /\ s.link = item[a].link /\ s.pay = item[a].pay
        /\ s.status = "completed" <=> item[a].status = "completed"
        /\ s.status \in ItemOver <=> item[a].status \in ItemOver
        /\ item[a].status \notin {"queued", "running"} => s = item[a]
    BY <2>1, <2>2, StagedRow
  <2> HIDE DEF s
  <2>4. /\ row \in Item /\ (row.status \in ItemOver <=> row.stage = "over")
        /\ row.link = item[a].link /\ row.pay = item[a].pay
        /\ row.status = "completed" => item[a].status = "completed"
        /\ item[a].status \in ItemOver => row.status \in ItemOver /\ row.stage = item[a].stage
    BY <2>1, <2>3 DEF Item, ItemOver
  <2> HIDE DEF row
  <2>5. ItemTypes' /\ item'[a] = row /\ \A b \in Account : b # a => item'[b] = item[b]
    BY <1>1, <1>6, <2>4, WriteRow DEF Types
  <2>6. Types'
    BY <1>1, <1>2, <1>3, <2>5 DEF Types, StartTypes, LoopTypes, JobTypes, PaidTypes
  <2>7. \A b \in Account : b # a => Kept(b)
    BY <1>2, <2>5, NoPayments, NoRegistrations DEF Kept, Grows
  \* No loop runs yet: what is not over was never submitted.
  <2>8. run[a] = "waiting"
    BY <1>1, <1>2 DEF Idle
  <2>9. PaidOnce(a)'
    BY <1>1, <1>2, <2>4, <2>5, <2>8 DEF PaidOnce, Unpaid
  <2>10. PaidFor(a)'
    BY <1>1, <1>2, <2>4, <2>5, <2>8 DEF PaidFor
  <2> QED
    BY <1>4, <2>4, <2>5, <2>6, <2>7, <2>9, <2>10, StepHolds DEF LinksKept
<1> QED
  BY <1>2, <1>5, <1>6

LEMMA TakeStep ==
  ASSUME Inv, NEW a \in Account, Take(a)
  PROVE  Inv' /\ LinksKept
<1>1. Types /\ Idle /\ \A b \in Account : PaidOnce(b) /\ PaidFor(b)
  BY DEF Inv
<1>2. /\ UNCHANGED <<start, task, item, job, boss, registration, payment, paidLink>>
      /\ boss.at = "working" /\ run[a] = "waiting"
      /\ run' = [run EXCEPT ![a] = IF item[a].status \in ItemOver THEN "done" ELSE "registration"]
  BY DEF Take, linkVars, children
<1>3. Types' /\ Idle'
  BY <1>1, <1>2 DEF Types, StartTypes, ItemTypes, BossTypes, LoopTypes, Loops, JobTypes, PaidTypes, Idle
<1>4. \A b \in Account : b # a => Kept(b)
  <2>1. \A b \in Account : b # a => run'[b] = run[b]
    BY <1>1, <1>2 DEF Types, LoopTypes
  <2> QED
    BY <1>2, <2>1, NoPayments, NoRegistrations DEF Kept, Grows
<1>5. run'[a] = IF item[a].status \in ItemOver THEN "done" ELSE "registration"
  BY <1>1, <1>2 DEF Types, LoopTypes
<1>6. PaidOnce(a)'
  BY <1>1, <1>2, <1>5 DEF PaidOnce, Unpaid
<1>7. PaidFor(a)'
  BY <1>1, <1>2, <1>5 DEF PaidFor
<1> QED
  BY <1>2, <1>3, <1>4, <1>6, <1>7, StepHolds DEF LinksKept

--------------------------------------------------------------------------------
(* The steps of the loop that runs an item.                                   *)

LEMMA EndsStep ==
  ASSUME Inv, NEW a \in Account,
         Overtaken(a) \/ LinkRefused(a) \/ LinkFails(a) \/ NotLinked(a) \/ PayFails(a)
  PROVE  Inv' /\ LinksKept
<1>1. Types
  BY DEF Inv
<1>2. UNCHANGED <<job, boss, registration, payment, paidLink>>
  BY DEF Overtaken, LinkRefused, LinkFails, NotLinked, PayFails, children
<1>3. StartTypes'
  BY <1>1, StartStaysTyped DEF Types, Overtaken, LinkRefused, LinkFails, NotLinked, PayFails, linkVars
<1>4. run[a] # "waiting"
  BY DEF Overtaken, LinkRefused, LinkFails, NotLinked, PayFails, Waits
<1>5. Ends(a)
  <2>1. CASE Overtaken(a)
    BY <1>1, <2>1, CancelItemGrows DEF Overtaken, At, Ends, Types
  <2>2. CASE LinkRefused(a) \/ LinkFails(a) \/ PayFails(a)
    BY <1>1, <2>2, ThrowsEnds DEF LinkRefused, LinkFails, PayFails, Types
  <2>3. CASE NotLinked(a)
    <3>1. {"failed", "cancelled"} \subseteq ItemOver \ {"completed"}
      BY DEF ItemOver
    <3> QED
      BY <1>1, <2>3, <3>1, ThrowsEnds, VerdictEnds DEF NotLinked, Types
  <2> QED
    BY <2>1, <2>2, <2>3
<1> QED
  BY <1>1, <1>2, <1>3, <1>4, <1>5, NoPayments, NoRegistrations, QuietStep DEF Types, JobTypes, Ends

LEMMA NotRegisteredStep ==
  ASSUME Inv, NEW a \in Account, NotRegistered(a)
  PROVE  Inv' /\ LinksKept
<1>1. Types
  BY DEF Inv
<1>2. /\ UNCHANGED <<start, boss, registration, payment, paidLink>> /\ run[a] # "waiting"
      /\ job' = [job EXCEPT ![a] =
                   IF @ = "submitted" /\ registration[a] \in Worker!Over THEN Synced(registration[a]) ELSE @]
      /\ job'[a] \in {"failed", "cancelled"} /\ Verdict(a, job'[a])
  BY DEF NotRegistered, linkVars, children
<1>3. JobTypes' /\ \A b \in Account : RegistrationKept(b)
  BY <1>1, <1>2 DEF Types, JobTypes, Jobs, RegistrationKept, Synced, Worker!Over
<1>4. Ends(a)
  <2>1. {"failed", "cancelled"} \subseteq ItemOver \ {"completed"}
    BY DEF ItemOver
  <2>2. PICK s \in {"failed", "cancelled"} : Verdict(a, s)
    BY <1>2
  <2> QED
    BY <1>1, <2>1, <2>2, VerdictEnds DEF Types
<1> QED
  BY <1>1, <1>2, <1>3, <1>4, NoPayments, QuietStep DEF Types, StartTypes, Ends

\* A step that moves the loop of one item on
LEMMA ItemStep ==
  ASSUME Inv, NEW a \in Account, NEW pc \in Loops,
         StartTypes', ItemTypes', JobTypes', PaidTypes', UNCHANGED boss,
         run[a] # "waiting", run' = [run EXCEPT ![a] = pc],
         \A b \in Account : b # a =>
           /\ item'[b] = item[b] /\ PaymentsKept(b) /\ RegistrationKept(b)
           /\ paidLink'[<<b, 1>>] = paidLink[<<b, 1>>],
         PaidOnce(a)', PaidFor(a)'
  PROVE  Inv' /\ (item'[a].link = item[a].link => LinksKept)
<1>1. Types /\ Idle
  BY DEF Inv
<1>2. LoopTypes' /\ \A b \in Account : b # a => run'[b] = run[b]
  BY <1>1 DEF Types, LoopTypes
<1>3. Types' /\ Idle'
  BY <1>1, <1>2 DEF Types, BossTypes, Idle
<1>4. \A b \in Account : b # a => Kept(b)
  BY <1>2 DEF Kept, Grows
<1> QED
  BY <1>3, <1>4, StepHolds DEF LinksKept

\* What a staged row of the item that is written keeps.
LEMMA StageWritten ==
  ASSUME ItemTypes, NEW a \in Account, NEW stage \in Stages \ {"over"},
         Write([item EXCEPT ![a] = Staged(@, stage)])
  PROVE  /\ ItemTypes' /\ \A b \in Account : b # a => item'[b] = item[b]
         /\ item'[a].link = item[a].link /\ item'[a].pay = item[a].pay
         /\ item'[a].status = "completed" <=> item[a].status = "completed"
         /\ item[a].status \in {"queued", "running"} => item'[a].stage = stage
<1> DEFINE row == Staged(item[a], stage)
<1>1. item[a] \in Item /\ (item[a].status \in ItemOver <=> item[a].stage = "over")
  BY RowFields DEF ItemTypes
<1>2. /\ row \in Item /\ (row.status \in ItemOver <=> row.stage = "over")
      /\ row.link = item[a].link /\ row.pay = item[a].pay
      /\ row.status = "completed" <=> item[a].status = "completed"
      /\ item[a].status \in {"queued", "running"} => row.stage = stage
  BY <1>1, StagedRow
<1>3. Write([item EXCEPT ![a] = row])
  OBVIOUS
<1> HIDE DEF row
<1>4. ItemTypes' /\ item'[a] = row /\ \A b \in Account : b # a => item'[b] = item[b]
  BY <1>2, <1>3, WriteRow
<1> QED
  BY <1>2, <1>4

LEMMA RegisteredStep ==
  ASSUME Inv, NEW a \in Account, Registered(a)
  PROVE  Inv' /\ LinksKept
<1>1. Types /\ PaidOnce(a) /\ PaidFor(a)
  BY DEF Inv
<1>2. /\ UNCHANGED <<start, boss, registration, payment, paidLink>> /\ run[a] = "registration"
      /\ job[a] = "completed" \/ registration[a] = "succeeded"
      /\ job' = [job EXCEPT ![a] = "completed"]
      /\ \E stage \in {"link_ready", "link_submitting"}, pc \in {"link", "queueing"} :
           Write([item EXCEPT ![a] = Staged(@, stage)]) /\ run' = [run EXCEPT ![a] = pc]
  BY DEF Registered, Waits, At, children
<1>3. registration[a] = "succeeded"
  BY <1>1, <1>2 DEF PaidFor
<1>4. PICK stage \in {"link_ready", "link_submitting"}, pc \in {"link", "queueing"} :
        Write([item EXCEPT ![a] = Staged(@, stage)]) /\ run' = [run EXCEPT ![a] = pc]
  BY <1>2
<1>5. stage \in Stages \ {"over"} /\ pc \in Loops
  BY DEF Stages, Loops
<1>6. /\ ItemTypes' /\ \A b \in Account : b # a => item'[b] = item[b]
      /\ item'[a].link = item[a].link
      /\ item'[a].status = "completed" <=> item[a].status = "completed"
  BY <1>1, <1>4, <1>5, StageWritten DEF Types
<1>7. run'[a] = pc
  BY <1>1, <1>4 DEF Types, LoopTypes
<1>8. JobTypes' /\ \A b \in Account : RegistrationKept(b)
  BY <1>1, <1>2, <1>3 DEF Types, JobTypes, Jobs, RegistrationKept
<1>9. PaidOnce(a)'
  BY <1>1, <1>2, <1>7 DEF PaidOnce, Unpaid
\* It is not completed: nothing was submitted for it.
<1>10. PaidFor(a)'
  BY <1>1, <1>2, <1>3, <1>6, <1>7 DEF PaidFor, PaidOnce, Unpaid
<1> QED
  BY <1>1, <1>2, <1>4, <1>5, <1>6, <1>8, <1>9, <1>10, NoPayments, ItemStep DEF Types, StartTypes, PaidTypes

LEMMA StartLinkStep ==
  ASSUME Inv, NEW a \in Account, StartLink(a)
  PROVE  Inv' /\ LinksKept
<1>1. Types /\ PaidOnce(a) /\ PaidFor(a)
  BY DEF Inv
<1>2. /\ UNCHANGED <<task, item, job, boss, registration, payment, paidLink>>
      /\ run[a] = "queueing" /\ run' = [run EXCEPT ![a] = "linking"] /\ Accept(a, "pipeline")
  BY DEF StartLink, At, children
<1>3. StartTypes'
  BY <1>1, <1>2, StartStaysTyped DEF Types
<1>4. "linking" \in Loops /\ run'[a] = "linking"
  BY <1>1, <1>2 DEF Types, LoopTypes, Loops
<1>5. PaidOnce(a)' /\ PaidFor(a)'
  BY <1>1, <1>2, <1>4 DEF PaidOnce, PaidFor, Unpaid
<1> QED
  BY <1>1, <1>2, <1>3, <1>4, <1>5, NoPayments, NoRegistrations, ItemStep
  DEF Types, ItemTypes, JobTypes, PaidTypes

LEMMA LinkStartedStep ==
  ASSUME Inv, NEW a \in Account, LinkStarted(a)
  PROVE  /\ Inv' /\ item'[a].link = start.task
         /\ \A b \in Account : b # a => item'[b] = item[b]
<1> DEFINE s   == Staged(item[a], "link_wait")
           row == [s EXCEPT !.link = start.task]
<1>1. Types /\ PaidOnce(a) /\ PaidFor(a)
  BY DEF Inv
<1>2. /\ UNCHANGED <<job, boss, registration, payment, paidLink>>
      /\ run[a] = "linking" /\ run' = [run EXCEPT ![a] = "link"] /\ Started
      /\ Write([item EXCEPT ![a] = row])
  BY DEF LinkStarted, At, children
<1>3. StartTypes'
  BY <1>1, <1>2, StartStaysTyped DEF Types
<1>4. item[a] \in Item /\ (item[a].status \in ItemOver <=> item[a].stage = "over")
  BY <1>1, RowFields DEF Types, ItemTypes
<1>5. "link_wait" \in Stages \ {"over"}
  BY DEF Stages
<1>6. /\ s \in Item /\ (s.status \in ItemOver <=> s.stage = "over")
      /\ s.status = "completed" <=> item[a].status = "completed"
  BY <1>4, <1>5, StagedRow
<1> HIDE DEF s
<1>7. start.task \in Extraction \cup {None}
  BY <1>1 DEF Types, StartTypes, Starting
<1>8. /\ row \in Item /\ (row.status \in ItemOver <=> row.stage = "over")
      /\ row.link = start.task
      /\ row.status = "completed" <=> item[a].status = "completed"
  BY <1>6, <1>7 DEF Item
<1> HIDE DEF row
<1>9. ItemTypes' /\ item'[a] = row /\ \A b \in Account : b # a => item'[b] = item[b]
  BY <1>1, <1>2, <1>8, WriteRow DEF Types
<1>10. "link" \in Loops /\ run'[a] = "link"
  BY <1>1, <1>2 DEF Types, LoopTypes, Loops
<1>11. PaidOnce(a)'
  BY <1>1, <1>2, <1>10 DEF PaidOnce, Unpaid
<1>12. PaidFor(a)'
  BY <1>1, <1>2, <1>8, <1>9, <1>10 DEF PaidFor, PaidOnce, Unpaid
<1> QED
  BY <1>1, <1>2, <1>3, <1>8, <1>9, <1>10, <1>11, <1>12, NoPayments, NoRegistrations, ItemStep
  DEF Types, JobTypes, PaidTypes

\* The submissions of an item are counted by its first.
LEMMA Counted ==
  ASSUME NEW a \in Account, PaidOnce(a)
  PROVE  /\ Submissions(a) = IF Unpaid(a) THEN 0 ELSE 1
         /\ Unpaid(a) => NextPayment(a) = <<a, 1>>
<1> DEFINE S == {n \in {1, 2} : payment[<<a, n>>] # "none"}
<1>1. S = IF Unpaid(a) THEN {} ELSE {1}
  BY DEF PaidOnce, Unpaid
<1>2. Cardinality({}) = 0 /\ Cardinality({1}) = 1
  BY FS_EmptySet, FS_Singleton
<1>3. Submissions(a) = Cardinality(S)
  BY DEF Submissions
<1>4. Submissions(a) = IF Unpaid(a) THEN 0 ELSE 1
  BY <1>1, <1>2, <1>3
<1> QED
  BY <1>4 DEF NextPayment

LEMMA LinkReadyStep ==
  ASSUME Inv, NEW a \in Account, LinkReady(a)
  PROVE  Inv' /\ LinksKept
<1>1. Types /\ PaidOnce(a) /\ PaidFor(a)
  BY DEF Inv
<1>2. /\ UNCHANGED <<start, job, boss, registration, payment>>
      /\ run[a] = "link" /\ run' = [run EXCEPT ![a] = "paying"] /\ ~ItemCancelled(a)
      /\ link[a].task = item[a].link
      /\ Write([item EXCEPT ![a] = Staged(@, "agreement_submitting")])
      /\ paidLink' = [paidLink EXCEPT ![NextPayment(a)] = link[a].task]
  BY DEF LinkReady, Waits, At, linkVars
<1>3. Unpaid(a) /\ NextPayment(a) = <<a, 1>>
  BY <1>1, <1>2, Counted DEF PaidOnce
<1>4. item[a].status \in {"queued", "running"} /\ item[a].link \in Extraction \cup {None}
  BY <1>1, <1>2, RowFields DEF Types, ItemTypes, ItemCancelled, Active
<1>5. "agreement_submitting" \in Stages \ {"over"} /\ "paying" \in Loops
  BY DEF Stages, Loops
<1>6. /\ ItemTypes' /\ \A b \in Account : b # a => item'[b] = item[b]
      /\ item'[a].link = item[a].link /\ item'[a].stage = "agreement_submitting"
      /\ item'[a].status # "completed"
  BY <1>1, <1>2, <1>4, <1>5, StageWritten DEF Types
<1>7. /\ PaidTypes' /\ paidLink'[<<a, 1>>] = item[a].link
      /\ \A b \in Account : b # a => paidLink'[<<b, 1>>] = paidLink[<<b, 1>>]
  <2>1. \A b \in Account : <<b, 1>> \in Payment
    BY DEF Payment
  <2>2. paidLink' = [paidLink EXCEPT ![<<a, 1>>] = item[a].link]
    BY <1>2, <1>3
  <2> QED
    BY <1>1, <1>4, <2>1, <2>2 DEF Types, PaidTypes
<1>8. run'[a] = "paying"
  BY <1>1, <1>2 DEF Types, LoopTypes
<1>9. PaidOnce(a)'
  BY <1>1, <1>2, <1>3, <1>6, <1>8 DEF PaidOnce, Unpaid
<1>10. PaidFor(a)'
  BY <1>1, <1>2, <1>6, <1>7, <1>8 DEF PaidFor
<1> QED
  BY <1>1, <1>2, <1>5, <1>6, <1>7, <1>9, <1>10, NoPayments, NoRegistrations, ItemStep
  DEF Types, StartTypes, JobTypes

LEMMA PayStep ==
  ASSUME Inv, NEW a \in Account, Pay(a)
  PROVE  Inv' /\ LinksKept
<1>1. Types /\ PaidOnce(a) /\ PaidFor(a)
  BY DEF Inv
<1>2. /\ UNCHANGED <<start, task, item, job, boss, registration, paidLink>>
      /\ run[a] = "paying" /\ run' = [run EXCEPT ![a] = "paid"]
      /\ Agreement!Submit(NextPayment(a), {})
  BY DEF Pay, At, linkVars
<1>3. NextPayment(a) = <<a, 1>>
  BY <1>1, <1>2, Counted DEF PaidOnce
<1>4. payment' = [i \in Payment |-> IF i = <<a, 1>> THEN "queued" ELSE payment[i]]
  BY <1>2, <1>3 DEF Agreement!Submit, Agreement!Move
<1>5. /\ payment'[<<a, 1>>] = "queued" /\ payment'[<<a, 2>>] = payment[<<a, 2>>]
      /\ \A b \in Account : b # a => PaymentsKept(b)
  BY <1>4 DEF Payment, PaymentsKept
<1>6. "paid" \in Loops /\ run'[a] = "paid"
  BY <1>1, <1>2 DEF Types, LoopTypes, Loops
<1>7. PaidOnce(a)'
  BY <1>1, <1>2, <1>5, <1>6 DEF PaidOnce, Unpaid
\* It is not completed: nothing was submitted for it before.
<1>8. PaidFor(a)'
  BY <1>1, <1>2, <1>6 DEF PaidFor, PaidOnce, Unpaid
<1> QED
  BY <1>1, <1>2, <1>5, <1>6, <1>7, <1>8, NoRegistrations, ItemStep
  DEF Types, StartTypes, ItemTypes, JobTypes, PaidTypes

LEMMA PaidStep ==
  ASSUME Inv, NEW a \in Account, Paid(a)
  PROVE  Inv' /\ LinksKept
<1> DEFINE s   == Staged(item[a], "agreement_wait")
           row == [s EXCEPT !.pay = Submissions(a)]
<1>1. Types /\ PaidOnce(a) /\ PaidFor(a)
  BY DEF Inv
<1>2. /\ UNCHANGED <<start, job, boss, registration, payment, paidLink>>
      /\ run[a] = "paid" /\ run' = [run EXCEPT ![a] = "agreement"]
      /\ Write([item EXCEPT ![a] = row])
  BY DEF Paid, At, linkVars, children
<1>3. Submissions(a) = 1
  BY <1>1, <1>2, Counted DEF PaidOnce
<1>4. item[a] \in Item /\ (item[a].status \in ItemOver <=> item[a].stage = "over")
  BY <1>1, RowFields DEF Types, ItemTypes
<1>5. "agreement_wait" \in Stages \ {"over"}
  BY DEF Stages
<1>6. /\ s \in Item /\ (s.status \in ItemOver <=> s.stage = "over")
      /\ s.link = item[a].link
      /\ s.status = "completed" <=> item[a].status = "completed"
      /\ s.stage \in {item[a].stage, "agreement_wait"}
  BY <1>4, <1>5, StagedRow
<1> HIDE DEF s
<1>7. /\ row \in Item /\ (row.status \in ItemOver <=> row.stage = "over")
      /\ row.link = item[a].link /\ row.pay = 1
      /\ row.status = "completed" <=> item[a].status = "completed"
      /\ row.stage \in {item[a].stage, "agreement_wait"}
  BY <1>3, <1>6 DEF Item
<1> HIDE DEF row
<1>8. ItemTypes' /\ item'[a] = row /\ \A b \in Account : b # a => item'[b] = item[b]
  BY <1>1, <1>2, <1>7, WriteRow DEF Types
<1>9. "agreement" \in Loops /\ run'[a] = "agreement"
  BY <1>1, <1>2 DEF Types, LoopTypes, Loops
<1>10. PaidOnce(a)'
  BY <1>1, <1>2, <1>7, <1>8, <1>9 DEF PaidOnce, Unpaid
<1>11. PaidFor(a)'
  BY <1>1, <1>2, <1>7, <1>8, <1>9 DEF PaidFor
<1> QED
  BY <1>1, <1>2, <1>7, <1>8, <1>9, <1>10, <1>11, NoPayments, NoRegistrations, ItemStep
  DEF Types, StartTypes, JobTypes, PaidTypes

LEMMA AgreedStep ==
  ASSUME Inv, NEW a \in Account, Agreed(a)
  PROVE  Inv' /\ LinksKept
<1>1. Types /\ PaidOnce(a) /\ PaidFor(a)
  BY DEF Inv
<1>2. /\ UNCHANGED <<start, job, boss, registration, payment, paidLink>>
      /\ run[a] = "agreement" /\ ~ItemCancelled(a)
      /\ \/ \E v \in {"failed", "cancelled"} : Verdict(a, v)
         \/ payment[<<a, item[a].pay>>] = "succeeded" /\ Verdict(a, "completed")
  BY DEF Agreed, Waits, Agreement!Over, linkVars, children
<1>3. CASE \E v \in {"failed", "cancelled"} : Verdict(a, v)
  <2>1. {"failed", "cancelled"} \subseteq ItemOver \ {"completed"}
    BY DEF ItemOver
  <2>2. Ends(a)
    BY <1>1, <1>3, <2>1, VerdictEnds DEF Types
  <2> QED
    BY <1>1, <1>2, <2>2, NoPayments, NoRegistrations, QuietStep DEF Types, StartTypes, JobTypes, Ends
\* What the loop has behind it is what a completed item needs.
<1>4. CASE payment[<<a, item[a].pay>>] = "succeeded" /\ Verdict(a, "completed")
  <2> DEFINE row == [item[a] EXCEPT !.stage = "over", !.status = "completed"]
  <2>1. item[a] \in Item /\ item[a].status \notin ItemOver
    BY <1>1, <1>2, RowFields DEF Types, ItemTypes, ItemCancelled
  <2>2. /\ row \in Item /\ row.stage = "over" /\ row.status = "completed" /\ row.status \in ItemOver
        /\ row.link = item[a].link /\ row.pay = item[a].pay
    BY <2>1 DEF Item, Stages, ItemOver
  <2>3. Write([item EXCEPT ![a] = row]) /\ run' = [run EXCEPT ![a] = "done"]
    BY <1>1, <1>4, <2>1 DEF Verdict, Finished, At, Types, ItemTypes, Rows, Item
  <2> HIDE DEF row
  <2>4. ItemTypes' /\ item'[a] = row /\ \A b \in Account : b # a => item'[b] = item[b]
    BY <1>1, <2>2, <2>3, WriteRow DEF Types
  <2>5. "done" \in Loops /\ run'[a] = "done"
    BY <1>1, <2>3 DEF Types, LoopTypes, Loops
  <2>6. PaidOnce(a)'
    BY <1>1, <1>2, <2>2, <2>4, <2>5 DEF PaidOnce, Unpaid
  <2>7. PaidFor(a)'
    BY <1>1, <1>2, <1>4, <2>2, <2>4, <2>5 DEF PaidFor
  <2> QED
    BY <1>1, <1>2, <2>2, <2>3, <2>4, <2>5, <2>6, <2>7, NoPayments, NoRegistrations, ItemStep
    DEF Types, StartTypes, JobTypes, PaidTypes
<1> QED
  BY <1>2, <1>3, <1>4

LEMMA ContextStopsStep ==
  ASSUME Inv, NEW a \in Account, ContextStops(a)
  PROVE  Inv' /\ LinksKept
<1>1. Types /\ PaidOnce(a) /\ PaidFor(a)
  BY DEF Inv
<1>2. /\ UNCHANGED <<start, task, item, job, boss, run, registration, paidLink>>
      /\ run[a] = "agreement"
      /\ UNCHANGED payment \/ Agreement!Cancel(<<a, item[a].pay>>, {})
  BY DEF ContextStops, linkVars
<1>3. <<a, item[a].pay>> \in Payment
  BY <1>1, <1>2 DEF PaidFor, Payment
<1>4. \A b \in Account : PaymentsKept(b)
  BY <1>2, <1>3, AgreementsKept, NoPayments
<1> QED
  BY <1>1, <1>2, <1>4, Same, NoRegistrations, QuietStep DEF Types, StartTypes, JobTypes

--------------------------------------------------------------------------------
(* A restart, and the steps of the services.                                  *)

\* Whatever a restart makes of the rows, one that is over stays so, and one
\* whose agreement was under way ends.
LEMMA RestartRows ==
  ASSUME ItemTypes, Restart
  PROVE  /\ ItemTypes' /\ BossTypes'
         /\ \A b \in Account :
              /\ item'[b].link = item[b].link /\ item'[b].pay = item[b].pay
              /\ item'[b].status = "completed" => item[b].status = "completed"
              /\ item[b].status \in ItemOver
                   \/ item[b].stage \in {"agreement_submitting", "agreement_wait"} =>
                 item'[b].status \in ItemOver
<1> DEFINE rows == Recovered
           t    == IF task \in TaskOver THEN task ELSE Recompute(task, rows)
           none == [w \in Callers |-> [a \in Account |-> NoFlow]]
           Off  == [at |-> "off", missing |-> {}]
           left == Registers(item')
<1>1. /\ rows \in Rows
      /\ \A b \in Account :
           /\ Grows(item[b], rows[b])
           /\ item[b].stage \in {"agreement_submitting", "agreement_wait"} => rows[b].status \in ItemOver
  BY RecoveredGrows
<1>2. t \in TaskStates
  BY RecomputeType DEF ItemTypes
<1>3. t \in TaskOver => item' = rows /\ task' = t /\ boss' = Off
  BY DEF Restart, TaskOver
<1>4. t = "cancel_requested" => Cancelled(rows, none) /\ boss' = Off
  BY DEF Restart, TaskOver
<1>5. t = "running" =>
        /\ Write(Rediscovered(rows))
        /\ boss' = [at |-> IF left = {} THEN "working" ELSE "creating", missing |-> left]
  BY DEF Restart, TaskOver
<1> HIDE DEF rows, t, none
<1>6. CASE t \in TaskOver
  <2>1. ItemTypes' /\ BossTypes'
    BY <1>1, <1>2, <1>3, <1>6 DEF ItemTypes, BossTypes
  <2> QED
    BY <1>1, <1>3, <1>6, <2>1 DEF Grows
<1>7. CASE t = "cancel_requested"
  <2>1. /\ item' \in Rows /\ task' \in TaskStates
        /\ \A b \in Account : Grows(rows[b], item'[b])
    BY <1>1, <1>4, <1>7, CancelledGrows
  <2>2. \A b \in Account : Grows(item[b], item'[b])
    BY <1>1, <2>1, GrowsAgain
  <2>3. ItemTypes' /\ BossTypes'
    BY <1>4, <1>7, <2>1 DEF ItemTypes, BossTypes
  <2> QED
    BY <1>1, <2>1, <2>2, <2>3 DEF Grows
<1>8. CASE t = "running"
  <2>1. item' = Rediscovered(rows) /\ task' = Recompute(task, Rediscovered(rows))
    BY <1>5, <1>8 DEF Write
  <2>2. /\ item' \in Rows
        /\ \A b \in Account :
             /\ item'[b].link = rows[b].link /\ item'[b].pay = rows[b].pay
             /\ item'[b].status = "completed" => rows[b].status = "completed"
             /\ rows[b].status \in ItemOver => item'[b] = rows[b]
    BY <1>1, <2>1, RediscoveredGrows
  <2>3. ItemTypes'
    BY <2>1, <2>2, RecomputeType DEF ItemTypes
  <2>4. BossTypes'
    BY <1>5, <1>8 DEF BossTypes, Registers
  <2> QED
    BY <1>1, <2>2, <2>3, <2>4 DEF Grows
<1> QED
  BY <1>2, <1>6, <1>7, <1>8 DEF TaskStates

LEMMA RestartStep ==
  ASSUME Inv, Restart
  PROVE  Inv' /\ LinksKept
<1>1. Types /\ \A b \in Account : PaidOnce(b) /\ PaidFor(b)
  BY DEF Inv
<1>2. UNCHANGED <<job, registration, payment, paidLink>> /\ run' = [a \in Account |-> "waiting"] /\ Reboot
  BY DEF Restart, children
<1>3. ItemTypes' /\ BossTypes'
  BY <1>1, RestartRows DEF Types
<1>4. Types'
  BY <1>1, <1>2, <1>3, StartStaysTyped DEF Types, LoopTypes, Loops, JobTypes, PaidTypes
<1>5. Idle'
  BY <1>2 DEF Idle
<1>6. ASSUME NEW b \in Account PROVE PaidOnce(b)' /\ PaidFor(b)' /\ item'[b].link = item[b].link
  <2>1. /\ item'[b].link = item[b].link /\ item'[b].pay = item[b].pay
        /\ item'[b].status = "completed" => item[b].status = "completed"
        /\ item[b].status \in ItemOver
             \/ item[b].stage \in {"agreement_submitting", "agreement_wait"} =>
           item'[b].status \in ItemOver
    BY <1>1, RestartRows DEF Types
  <2>2. /\ item[b].stage = "over" => item[b].status \in ItemOver
        /\ item'[b].status \in ItemOver => item'[b].stage = "over"
    BY <1>1, <1>3 DEF Types, ItemTypes, Rows
  <2>3. PaidOnce(b)'
    BY <1>1, <1>2, <2>1, <2>2 DEF PaidOnce, Unpaid
  <2>4. PaidFor(b)'
    BY <1>1, <1>2, <2>1 DEF PaidFor
  <2> QED
    BY <2>1, <2>3, <2>4
<1> QED
  BY <1>4, <1>5, <1>6, StepHolds DEF LinksKept

LEMMA RemoteStep ==
  ASSUME Inv, RemoteWorks, UNCHANGED <<task, item, loops>>
  PROVE  Inv' /\ LinksKept
<1>1. Types
  BY DEF Inv
<1>2. UNCHANGED <<start, job, boss, run, paidLink>>
  BY DEF RemoteWorks, ExtractorWorks, loops, linkVars, children
<1>3. \A b \in Account : PaymentsKept(b)
  BY AgreementsKept, NoPayments DEF RemoteWorks, children
<1>4. \A b \in Account : RegistrationKept(b)
  BY <1>2, SuccessKept DEF RemoteWorks, RegistrationKept, children
<1> QED
  BY <1>1, <1>2, <1>3, <1>4, Same, QuietStep DEF Types, StartTypes, JobTypes

LEMMA ServiceStep ==
  ASSUME Inv, Starts \/ LinkService, UNCHANGED <<task, item, loops, children>>
  PROVE  Inv' /\ LinksKept
<1>1. Types
  BY DEF Inv
<1>2. UNCHANGED <<job, boss, run, registration, payment, paidLink>>
  BY DEF loops, children
<1>3. StartTypes'
  <2>1. CASE Starts
    BY <1>1, <2>1, StartStaysTyped DEF Starts, Types
  <2>2. CASE LinkService
    <3>1. \/ \E a \in Account : Accept(a, "user")
          \/ UNCHANGED start
      BY <2>2 DEF LinkService, BeginDelete, Tracks, Ask, Heard, Missing, TimedOut, PollFails,
                  Expire, EndDelete, ExtractorForgets
    <3> QED
      BY <1>1, <3>1, StartStaysTyped DEF Types
  <2> QED
    BY <2>1, <2>2
<1> QED
  BY <1>1, <1>2, <1>3, Same, NoPayments, NoRegistrations, QuietStep DEF Types, JobTypes

LEMMA StutterStep ==
  ASSUME Inv, UNCHANGED vars
  PROVE  Inv' /\ LinksKept
<1>1. Types
  BY DEF Inv
<1>2. UNCHANGED <<start, task, item, job, boss, run, registration, payment, paidLink>>
  BY DEF vars, linkVars, loops, children
<1> QED
  BY <1>1, <1>2, Same, NoPayments, NoRegistrations, QuietStep DEF Types, StartTypes, JobTypes

--------------------------------------------------------------------------------
(* The theorems.                                                              *)

LEMMA InitHolds == Init => Inv
<1> SUFFICES ASSUME Init PROVE Inv
  OBVIOUS
<1>1. StartTypes /\ BossTypes
  BY DEF Init, LinkInit, StartTypes, Starting, NoStart, BossTypes
<1>2. ItemTypes
  BY DEF Init, ItemTypes, TaskStates, Rows, Item, Active, ItemOver, Stages
<1>3. LoopTypes /\ JobTypes /\ PaidTypes
  BY DEF Init, LoopTypes, Loops, JobTypes, Jobs, PaidTypes
<1>4. Idle
  BY DEF Init, Idle
<1>5. ASSUME NEW a \in Account PROVE PaidOnce(a) /\ PaidFor(a)
  <2>1. payment[<<a, 1>>] = "none" /\ payment[<<a, 2>>] = "none"
    BY DEF Init, Agreement!Init, Payment
  <2> QED
    BY <2>1 DEF Init, PaidOnce, PaidFor, Unpaid
<1> QED
  BY <1>1, <1>2, <1>3, <1>4, <1>5 DEF Inv, Types

LEMMA NextHolds == Inv /\ [Next]_vars => Inv'
<1> SUFFICES ASSUME Inv, [Next]_vars PROVE Inv'
  OBVIOUS
<1>1. CASE Bosses \/ Refused
  BY <1>1, BossStep, SubmitStep, AdoptStep, TakeStep DEF Bosses
<1>2. CASE Cancel \/ Restart
  BY <1>2, CancelStep, RestartStep
<1>3. ASSUME NEW a \in Account, Runs(a) PROVE Inv'
  BY <1>3, EndsStep, RegisteredStep, NotRegisteredStep, LinkStartedStep, LinkReadyStep,
     PayStep, PaidStep, AgreedStep DEF Runs
<1>4. ASSUME NEW a \in Account, StartLink(a) \/ ContextStops(a) PROVE Inv'
  BY <1>4, StartLinkStep, ContextStopsStep
<1>5. ASSUME NEW a \in Account, NEW w \in Callers, Flows(w, a) PROVE Inv'
  BY <1>5, FlowRegistrationStep, FlowLinkStep, FlowPaymentStep DEF Flows
<1>6. CASE RemoteWorks /\ UNCHANGED <<task, item, loops>>
  BY <1>6, RemoteStep
<1>7. CASE (Starts \/ LinkService) /\ UNCHANGED <<task, item, loops, children>>
  BY <1>7, ServiceStep
<1>8. CASE UNCHANGED vars
  BY <1>8, StutterStep
<1> QED
  BY <1>1, <1>2, <1>3, <1>4, <1>5, <1>6, <1>7, <1>8 DEF Next

LEMMA InvHolds == Spec => []Inv
BY InitHolds, NextHolds, PTL DEF Spec

\* ensureAgreement and recoverActivePipelines: in every pipeline an item has at
\* most one agreement job submitted, through cancels, failures and restarts.
THEOREM OneAgreement == Spec => []AgreementOnce
<1>1. Inv => AgreementOnce
  <2> SUFFICES ASSUME Inv, NEW a \in Account PROVE Submissions(a) <= 1
    BY DEF AgreementOnce
  <2>1. PaidOnce(a)
    BY DEF Inv
  <2> QED
    BY <2>1, Counted
<1> QED
  BY <1>1, InvHolds, PTL

\* runItem: in every pipeline a completed item was registered, its agreement
\* succeeded, and it was for the link of the item's own extraction.
THEOREM CompletedWasPaid == Spec => []CompletedIsPaid
<1>1. Inv => CompletedIsPaid
  BY DEF Inv, PaidFor, CompletedIsPaid
<1> QED
  BY <1>1, InvHolds, PTL
================================================================================
