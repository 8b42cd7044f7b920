-------------------------- MODULE IcPipelineLinkProofs --------------------------
(***************************************************************************)
(* IcPipeline and PaymentLinks together, for any accounts, extractions,    *)
(* workers and failures: the pipeline's loops, its cancels and the users   *)
(* of the accounts call one service, and the service's LinkInv survives    *)
(* them all.                                                               *)
(*                                                                         *)
(* For that every extraction the pipeline knows of, of a row or of a call  *)
(* that cancels, is one the extractor took (it is not about to be taken),  *)
(* and an answer a call still has in hand says of no extraction that it is *)
(* over when it may yet run.                                               *)
(*                                                                         *)
(* On top of that StrayInv follows the children of every item: without     *)
(* failures each that goes on is minded by someone who will look at it.    *)
(***************************************************************************)
EXTENDS IcPipelineProofs

Fits(f, state) ==
  /\ f \in Flow
  /\ f.link # None => state[f.link] # "none"
  /\ f.at \in {"link", "answered"} => f.link # None
  /\ f.at = "answered" /\ f.answer \in Settled => state[f.link] \notin {"queued", "running"}

Calls ==
  /\ flow \in [Callers -> [Account -> Flow]]
  /\ \A w \in Callers, a \in Account : Fits(flow[w][a], extraction)

ItemLinks == \A a \in Account : item[a].link # None => Taken(item[a].link)

Contexts == context \in [Account -> {"none", "live", "stopped"}]

Whole == Inv /\ LinkInv /\ Calls /\ ItemLinks /\ Contexts

\* What was taken stays taken, and does not start again.
Older ==
  \A e \in Extraction :
    (Taken(e) => extraction'[e] # "none")
      /\ (Taken(e) /\ extraction'[e] \in {"queued", "running"} => Unstopped(e))

--------------------------------------------------------------------------------
(* What a call may be.                                                        *)

LEMMA AgedIsOlder == Aged => Older
BY DEF Aged, Older, Taken, Unstopped

LEMMA WholeTypes ==
  ASSUME Whole
  PROVE  /\ LinkTypes /\ ItemTypes /\ StartTypes
         /\ \A a \in Account : item[a] \in Item /\ item[a].link \in Extraction \cup {None}
BY TypesNamed, RowFields DEF Whole, Inv, LinkInv, Types, ItemTypes

\* A call of the new state that was one before
LEMMA FitsLater ==
  ASSUME Older, NEW f, Fits(f, extraction)
  PROVE  Fits(f, extraction')
<1>1. f.link \in Extraction \cup {None}
  BY DEF Fits, Flow
<1>2. CASE f.link = None
  BY <1>2 DEF Fits
<1>3. CASE f.link \in Extraction
  BY <1>3 DEF Fits, Older, Taken, Unstopped
<1> QED
  BY <1>1, <1>2, <1>3

LEMMA NoFlowFits ==
  ASSUME NEW state
  PROVE  Fits(NoFlow, state)
BY DEF NoFlow, Flow, Fits, Answers

\* A call that is done with the link, and one that is not
LEMMA NextFits ==
  ASSUME NEW f \in Flow, NEW state, f.link # None => state[f.link] # "none"
  PROVE  Fits(Open(AtPayment(f)), state) /\ Fits(Open(AtLink(f)), state)
<1> DEFINE to(pc) == [f EXCEPT !.at = pc]
<1>1. \A pc \in {"payment", "link"} :
        /\ to(pc) \in Flow /\ to(pc).at = pc /\ to(pc).link = f.link
  BY DEF Flow
<1>2. to("over").at = "over"
  BY DEF Flow
<1>3. Fits(to("payment"), state) /\ Fits(NoFlow, state)
  BY <1>1, NoFlowFits DEF Fits
<1>4. f.link # None => Fits(to("link"), state)
  BY <1>1 DEF Fits
<1>5. AtPayment(f) = IF f.pay # 0 THEN to("payment") ELSE to("over")
  BY DEF AtPayment, Flow
<1>6. AtLink(f) = IF f.link # None THEN to("link") ELSE AtPayment(f)
  BY DEF AtLink
<1>7. Open(to("payment")) = to("payment") /\ Open(to("link")) = to("link") /\ Open(to("over")) = NoFlow
  BY <1>1, <1>2 DEF Open
<1> HIDE DEF to
<1>8. Fits(Open(AtPayment(f)), state)
  BY <1>3, <1>5, <1>7
<1> QED
  BY <1>4, <1>6, <1>7, <1>8

LEMMA KnownFits ==
  ASSUME NEW a, NEW row \in Item, NEW state, row.link # None => state[row.link] # "none"
  PROVE  Fits(Open(Known(a, row)), state)
<1> DEFINE f == [NoFlow EXCEPT !.link = row.link, !.pay = row.pay]
           r == [f EXCEPT !.at = "registration"]
<1>1. f \in Flow /\ f.link = row.link
  BY DEF NoFlow, Flow, Item, Answers
<1>2. Known(a, row) = r \/ Known(a, row) = AtLink(f)
  BY DEF Known
<1> HIDE DEF f
<1>3. r \in Flow /\ r.at = "registration" /\ r.link = row.link
  BY <1>1 DEF Flow
<1> HIDE DEF r
<1>4. Fits(Open(r), state)
  BY <1>3 DEF Open, Fits
<1>5. Fits(Open(AtLink(f)), state)
  BY <1>1, NextFits
<1> QED
  BY <1>2, <1>4, <1>5

--------------------------------------------------------------------------------
(* What a step makes of the calls.                                            *)

LEMMA CallsStay ==
  ASSUME Calls, Older, UNCHANGED flow
  PROVE  Calls'
BY FitsLater DEF Calls

LEMMA CallMade ==
  ASSUME Calls, Older, NEW w \in Callers, NEW a \in Account, NEW f, Fits(f, extraction'),
         flow' = [flow EXCEPT ![w][a] = f]
  PROVE  Calls'
<1>1. f \in Flow
  BY DEF Fits
<1>2. flow' \in [Callers -> [Account -> Flow]]
  BY <1>1 DEF Calls
<1>3. ASSUME NEW v \in Callers, NEW b \in Account PROVE Fits(flow'[v][b], extraction')
  <2>1. flow'[v][b] = f \/ flow'[v][b] = flow[v][b]
    BY DEF Calls
  <2> QED
    BY <2>1, FitsLater DEF Calls
<1> QED
  BY <1>2, <1>3 DEF Calls

LEMMA GoesCalls ==
  ASSUME Calls, Older, NEW w \in Callers, NEW a \in Account, NEW f,
         Fits(Open(f), extraction'), Goes(w, a, f)
  PROVE  Calls'
BY CallMade DEF Goes

\* cancelItem works on the row as it is.
LEMMA CancelItemCalls ==
  ASSUME Whole, Older, UNCHANGED extraction, NEW a \in Account, CancelItem(a)
  PROVE  Calls'
<1>1. item[a] \in Item /\ (item[a].link # None => extraction'[item[a].link] # "none")
  BY WholeTypes DEF Whole, ItemLinks, Taken
<1>2. Fits(Open(Known(a, item[a])), extraction')
  BY <1>1, KnownFits
<1>3. "cancel" \in Callers
  BY DEF Callers
<1>4. UNCHANGED flow \/ Goes("cancel", a, Known(a, item[a]))
  BY DEF CancelItem
<1> QED
  BY <1>2, <1>3, <1>4, CallsStay, GoesCalls DEF Whole

LEMMA ThrowsCalls ==
  ASSUME Whole, Older, UNCHANGED extraction, NEW a \in Account, Throws(a)
  PROVE  Calls'
<1>1. UNCHANGED flow \/ CancelItem(a)
  BY DEF Throws, Verdict
<1> QED
  BY <1>1, CallsStay, CancelItemCalls DEF Whole

\* A late call works on the row as it was just written.
LEMMA LateCalls ==
  ASSUME Calls, Older, NEW a \in Account, NEW row \in Item,
         row.link # None => extraction'[row.link] # "none", Late(a, row)
  PROVE  Calls'
<1>1. Fits(Open(Known(a, row)), extraction')
  BY KnownFits
<1>2. "late" \in Callers
  BY DEF Callers
<1>3. \/ flow' = [flow EXCEPT !["late"][a] = Open(Known(a, row))]
      \/ flow' = [flow EXCEPT !["late"][a] = @]
  BY DEF Late
<1>4. CASE flow' = [flow EXCEPT !["late"][a] = Open(Known(a, row))]
  BY <1>1, <1>2, <1>4, CallMade
<1>5. CASE flow' = [flow EXCEPT !["late"][a] = @]
  <2>1. UNCHANGED flow
    BY <1>2, <1>5 DEF Calls
  <2> QED
    BY <2>1, CallsStay
<1> QED
  BY <1>3, <1>4, <1>5

LEMMA CancelledCalls ==
  ASSUME NEW rows \in Rows, NEW flows \in [Callers -> [Account -> Flow]], Cancelled(rows, flows),
         \A a \in Account : rows[a].link # None => extraction'[rows[a].link] # "none",
         \A w \in Callers, a \in Account : Fits(flows[w][a], extraction')
  PROVE  Calls'
<1>1. "cancel" \in Callers
  BY DEF Callers
<1> DEFINE made == [a \in Account |-> IF rows[a].status \in Active /\ flows["cancel"][a].at = "none"
                                      THEN Open(Known(a, rows[a])) ELSE flows["cancel"][a]]
<1>2. flow' = [flows EXCEPT !["cancel"] = made]
  BY <1>1 DEF Cancelled
<1>3. \A a \in Account : Fits(made[a], extraction')
  <2> SUFFICES ASSUME NEW a \in Account PROVE Fits(made[a], extraction')
    OBVIOUS
  <2>1. rows[a] \in Item
    BY RowFields
  <2>2. Fits(Open(Known(a, rows[a])), extraction')
    BY <2>1, KnownFits
  <2> QED
    BY <1>1, <2>2
<1>4. made \in [Account -> Flow]
  BY <1>3 DEF Fits
<1> HIDE DEF made
<1>5. /\ flow' \in [Callers -> [Account -> Flow]] /\ flow'["cancel"] = made
      /\ \A w \in Callers : w # "cancel" => flow'[w] = flows[w]
  BY <1>1, <1>2, <1>4
<1> QED
  BY <1>3, <1>5 DEF Calls

LEMMA ItemLinksStay ==
  ASSUME Whole, Older, LinksKept
  PROVE  ItemLinks'
<1>1. \A b \in Account : item[b].link \in Extraction \cup {None}
  BY WholeTypes
<1> QED
  BY <1>1 DEF Whole, ItemLinks, LinksKept, Older, Taken

--------------------------------------------------------------------------------
(* The steps.  Those that leave the rows of the links alone come first.       *)

\* At most a request fails.
LEMMA Elsewhere ==
  ASSUME Whole, UNCHANGED <<extraction, owner, deleted, link, reserved, deleting, start, tracker>>,
         UNCHANGED faults \/ Fault
  PROVE  LinkInv' /\ Older
<1>1. LinkTypes /\ Existing /\ HeardLate
  BY TypesNamed DEF Whole, LinkInv
<1>2. Aged /\ faults' \in 0 .. MaxFaults /\ (faults' = 0 => faults = 0)
  BY <1>1, SameAge, Faults
<1>3. link' \in [Account -> Row] /\ tracker' \in [Account -> Tracker]
  BY <1>1 DEF LinkTypes
<1>4. \A b \in Account : tracker'[b].at # "none" =>
        tracker'[b].task \in Extraction /\ Taken(tracker'[b].task)
  BY <1>1 DEF Existing
<1>5. \A b \in Account : tracker'[b].at = "answered" /\ tracker'[b].answer \notin Active =>
        extraction'[tracker'[b].task] \notin {"queued", "running"}
  BY <1>1 DEF HeardLate, Unstopped
<1>6. LinkInv'
  BY <1>2, <1>3, <1>4, <1>5, RowStep DEF Whole
<1> QED
  BY <1>2, <1>6, AgedIsOlder

\* A step of which the links, the calls and the rows are known
LEMMA WholeStep ==
  ASSUME Whole, Inv', LinkInv', Older, LinksKept, Calls', Contexts'
  PROVE  Whole'
BY ItemLinksStay DEF Whole

LEMMA QuietWhole ==
  ASSUME Whole,
         \/ Insert \/ Refused \/ SubmitsDone \/ Adopted
         \/ \E a \in Account :
              Submit(a) \/ Take(a) \/ NotRegistered(a) \/ LinkReady(a) \/ Pay(a)
  PROVE  Whole'
<1>1. /\ UNCHANGED <<extraction, owner, deleted, link, reserved, deleting, start, tracker, flow, context>>
      /\ UNCHANGED faults \/ Fault
  BY DEF Insert, Refused, SubmitsDone, Adopted, Submit, Take, NotRegistered, Verdict, LinkReady, Pay,
         linkVars
<1>2. LinkInv' /\ Older
  BY <1>1, Elsewhere
<1>3. Inv' /\ LinksKept
  BY BossStep, SubmitStep, TakeStep, NotRegisteredStep, LinkReadyStep, PayStep DEF Whole
<1>4. Calls' /\ Contexts'
  BY <1>1, <1>2, CallsStay DEF Whole, Contexts
<1> QED
  BY <1>2, <1>3, <1>4, WholeStep

LEMMA AdoptWhole ==
  ASSUME Whole, NEW a \in Account, Adopt(a)
  PROVE  Whole'
<1> DEFINE row == [Staged(item[a], "registration_wait") EXCEPT !.job = TRUE]
<1>1. UNCHANGED linkVars /\ UNCHANGED context
  BY DEF Adopt
<1>2. LinkInv' /\ Older
  BY <1>1, Elsewhere DEF linkVars
<1>3. Inv' /\ LinksKept
  BY AdoptStep DEF Whole
<1>4. UNCHANGED flow \/ (Write([item EXCEPT ![a] = row]) /\ Late(a, row))
  BY DEF Adopt
<1> HIDE DEF row
<1>5. CASE UNCHANGED flow
  BY <1>1, <1>2, <1>3, <1>5, CallsStay, WholeStep DEF Whole, Contexts
<1>6. CASE Write([item EXCEPT ![a] = row]) /\ Late(a, row)
  <2>1. item'[a] = row
    BY <1>6 DEF Write, Whole, Inv, Types, ItemTypes, Rows
  <2>2. row \in Item
    BY <1>3, <2>1 DEF Inv, Types, ItemTypes, Rows
  <2>3. row.link # None => extraction'[row.link] # "none"
    BY <1>1, <1>3, <2>1 DEF LinksKept, Whole, ItemLinks, Taken, linkVars
  <2>4. Calls'
    BY <1>2, <1>6, <2>2, <2>3, LateCalls DEF Whole
  <2> QED
    BY <1>1, <1>2, <1>3, <2>4, WholeStep DEF Whole, Contexts
<1> QED
  BY <1>4, <1>5, <1>6

LEMMA EndsWhole ==
  ASSUME Whole, NEW a \in Account, Overtaken(a) \/ LinkRefused(a) \/ NotLinked(a) \/ PayFails(a)
  PROVE  Whole'
<1>1. /\ UNCHANGED <<extraction, owner, deleted, link, reserved, deleting, start, tracker, context>>
      /\ UNCHANGED faults \/ Fault
  BY DEF Overtaken, LinkRefused, NotLinked, PayFails, linkVars
<1>2. LinkInv' /\ Older
  BY <1>1, Elsewhere
<1>3. Inv' /\ LinksKept
  BY EndsStep DEF Whole
<1>4. CancelItem(a) \/ Throws(a) \/ UNCHANGED flow
  BY DEF Overtaken, LinkRefused, NotLinked, PayFails, Verdict
<1>5. Calls'
  BY <1>1, <1>2, <1>4, CallsStay, CancelItemCalls, ThrowsCalls DEF Whole
<1> QED
  BY <1>1, <1>2, <1>3, <1>5, WholeStep DEF Whole, Contexts

LEMMA PaidWhole ==
  ASSUME Whole, NEW a \in Account, Paid(a)
  PROVE  Whole'
<1> DEFINE row == [Staged(item[a], "agreement_wait") EXCEPT !.pay = Submissions(a)]
<1>1. UNCHANGED linkVars /\ context' = [context EXCEPT ![a] = "live"]
  BY DEF Paid
<1>2. LinkInv' /\ Older
  BY <1>1, Elsewhere DEF linkVars
<1>3. Inv' /\ LinksKept
  BY PaidStep DEF Whole
<1>4. Write([item EXCEPT ![a] = row]) /\ Late(a, row)
  BY DEF Paid
<1> HIDE DEF row
<1>5. item'[a] = row
  BY <1>4 DEF Write, Whole, Inv, Types, ItemTypes, Rows
<1>6. row \in Item
  BY <1>3, <1>5 DEF Inv, Types, ItemTypes, Rows
<1>7. row.link # None => extraction'[row.link] # "none"
  BY <1>1, <1>3, <1>5 DEF LinksKept, Whole, ItemLinks, Taken, linkVars
<1>8. Calls'
  BY <1>2, <1>4, <1>6, <1>7, LateCalls DEF Whole
<1>9. Contexts'
  BY <1>1 DEF Whole, Contexts
<1> QED
  BY <1>2, <1>3, <1>8, <1>9, WholeStep

LEMMA AgreedWhole ==
  ASSUME Whole, NEW a \in Account, Agreed(a) \/ ContextStops(a)
  PROVE  Whole'
<1>1. /\ UNCHANGED linkVars /\ UNCHANGED flow
      /\ context' = [context EXCEPT ![a] = "none"] \/ context' = [context EXCEPT ![a] = "stopped"]
  BY DEF Agreed, ContextStops, Verdict
<1>2. LinkInv' /\ Older
  BY <1>1, Elsewhere DEF linkVars
<1>3. Inv' /\ LinksKept
  BY AgreedStep, ContextStopsStep DEF Whole
<1>4. Contexts'
  BY <1>1 DEF Whole, Contexts
<1> QED
  BY <1>1, <1>2, <1>3, <1>4, CallsStay, WholeStep DEF Whole

LEMMA FlowRegistrationWhole ==
  ASSUME Whole, NEW w \in Callers, NEW a \in Account, FlowRegistration(w, a)
  PROVE  Whole'
<1> DEFINE f == flow[w][a]
<1>1. /\ UNCHANGED <<extraction, owner, deleted, link, reserved, deleting, start, tracker, context>>
      /\ UNCHANGED faults \/ Fault
      /\ Goes(w, a, AtLink(f))
  BY DEF FlowRegistration
<1>2. LinkInv' /\ Older
  BY <1>1, Elsewhere
<1>3. Inv' /\ LinksKept
  BY FlowRegistrationStep DEF Whole
<1>4. f \in Flow /\ (f.link # None => extraction'[f.link] # "none")
  BY <1>1 DEF Whole, Calls, Fits
<1> HIDE DEF f
<1>5. Fits(Open(AtLink(f)), extraction')
  BY <1>4, NextFits
<1>6. Calls'
  BY <1>1, <1>2, <1>5, GoesCalls DEF Whole
<1> QED
  BY <1>1, <1>2, <1>3, <1>6, WholeStep DEF Whole, Contexts

LEMMA FlowPaymentWhole ==
  ASSUME Whole, NEW w \in Callers, NEW a \in Account, FlowPayment(w, a)
  PROVE  Whole'
<1> DEFINE f == [flow[w][a] EXCEPT !.at = "over"]
<1>1. /\ UNCHANGED <<extraction, owner, deleted, link, reserved, deleting, start, tracker>>
      /\ UNCHANGED faults \/ Fault
      /\ UNCHANGED context \/ context' = [context EXCEPT ![a] = "none"]
      /\ Goes(w, a, f)
  BY DEF FlowPayment
<1>2. LinkInv' /\ Older
  BY <1>1, Elsewhere
<1>3. Inv' /\ LinksKept
  BY FlowPaymentStep DEF Whole
<1>4. f.at = "over"
  BY DEF Whole, Calls, Flow
<1> HIDE DEF f
<1>5. Fits(Open(f), extraction')
  BY <1>4, NoFlowFits DEF Open
<1>6. Calls'
  BY <1>1, <1>2, <1>5, GoesCalls DEF Whole
<1>7. Contexts'
  BY <1>1 DEF Whole, Contexts
<1> QED
  BY <1>2, <1>3, <1>6, <1>7, WholeStep

LEMMA CancelWhole ==
  ASSUME Whole, Cancel
  PROVE  Whole'
<1>1. UNCHANGED linkVars /\ UNCHANGED context /\ Cancelled(item, flow)
  BY DEF Cancel
<1>2. LinkInv' /\ Older
  BY <1>1, Elsewhere DEF linkVars
<1>3. Inv' /\ LinksKept
  BY CancelStep DEF Whole
<1>4. item \in Rows /\ flow \in [Callers -> [Account -> Flow]]
  BY DEF Whole, Inv, Types, ItemTypes, Calls
<1>5. \A a \in Account : item[a].link # None => extraction'[item[a].link] # "none"
  BY <1>1 DEF Whole, ItemLinks, Taken, linkVars
<1>6. \A w \in Callers, a \in Account : Fits(flow[w][a], extraction')
  BY <1>1 DEF Whole, Calls, linkVars
<1>7. Calls'
  BY <1>1, <1>4, <1>5, <1>6, CancelledCalls
<1> QED
  BY <1>1, <1>2, <1>3, <1>7, WholeStep DEF Whole, Contexts

--------------------------------------------------------------------------------
(* The steps that touch them.                                                 *)

\* A call marks a row, or applies what it was answered.
LEMMA RowWritten ==
  ASSUME Whole, NEW a \in Account, NEW row \in Row, Aged, row.task = link[a].task,
         link' = [link EXCEPT ![a] = row],
         UNCHANGED <<owner, deleted, reserved, deleting, start, tracker>>,
         faults' \in 0 .. MaxFaults, faults' = 0 => faults = 0,
         \/ link[a].status \notin Active \/ row.status \in Active \/ link[a].task = None
         \/ extraction'[link[a].task] \notin {"queued", "running"}
  PROVE  LinkInv'
<1>1. LinkTypes /\ Existing /\ HeardLate /\ tracker[a] \in Tracker
  BY TypesNamed DEF Whole, LinkInv, LinkTypes
<1>2. tracker' = [tracker EXCEPT ![a] = tracker[a]]
  BY <1>1 DEF LinkTypes
<1>3. tracker[a].at = "answered" /\ tracker[a].answer \notin Active =>
        extraction'[tracker[a].task] \notin {"queued", "running"}
  BY <1>1 DEF HeardLate, Existing, Aged, Unstopped
<1> QED
  BY <1>1, <1>2, <1>3, TrackerStep DEF Whole

LEMMA FlowLinkWhole ==
  ASSUME Whole, NEW w \in Callers, NEW a \in Account, FlowLink(w, a)
  PROVE  Whole'
<1> DEFINE f   == flow[w][a]
           row == Persisted(link[a], f.link, "cancel_requested")
           ans == IF faults' # faults \/ extraction[f.link] \notin Extractor!Working
                  THEN "missing" ELSE Snapshot(extraction'[f.link])
           g   == [f EXCEPT !.at = "answered", !.answer = ans]
<1>1. /\ f.at = "link" /\ link' = [link EXCEPT ![a] = row]
      /\ \/ CancelRemotely(f.link) /\ UNCHANGED faults
         \/ Fault /\ UNCHANGED extraction
      /\ UNCHANGED <<owner, deleted, reserved, deleting, start, tracker, context>>
  BY DEF FlowLink
<1>2. flow' = [flow EXCEPT ![w][a].at = "answered", ![w][a].answer = ans]
  BY DEF FlowLink
<1>3. LinkTypes /\ link[a] \in Row
  BY WholeTypes DEF LinkTypes
<1>4. f \in Flow /\ f.link \in Extraction /\ Taken(f.link)
  BY <1>1 DEF Whole, Calls, Fits, Flow, Taken
<1>5. flow' = [flow EXCEPT ![w][a] = g]
  BY <1>2 DEF Whole, Calls, Flow
<1>6. /\ row \in Row /\ row.task = link[a].task
      /\ link[a].status \in Active => row.status \in Active
  <2>1. "cancel_requested" \in Active /\ "cancel_requested" \notin Settled
    BY DEF Active, Settled
  <2> QED
    BY <1>3, <2>1, PersistedTypes
<1>7. /\ Aged /\ faults' \in 0 .. MaxFaults /\ (faults' = 0 => faults = 0)
      /\ faults' # faults \/ extraction'[f.link] \notin {"queued", "running"}
  <2>1. CASE CancelRemotely(f.link) /\ UNCHANGED faults
    BY <1>3, <1>4, <2>1, CancelAges, Faults DEF Unstopped
  <2>2. CASE Fault /\ UNCHANGED extraction
    BY <1>3, <2>2, SameAge, Faults
  <2> QED
    BY <1>1, <2>1, <2>2
<1>8. extraction'[f.link] \in States /\ extraction'[f.link] # "none" /\ Older
  BY <1>4, <1>7, AgedIsOlder DEF Aged, Taken
<1>9. ans \in Answers /\ (ans \in Settled => extraction'[f.link] \notin {"queued", "running"})
  <2>1. "missing" \in Answers /\ "missing" \notin Settled
    BY DEF Answers, Settled
  <2> QED
    BY <1>7, <1>8, <2>1, SnapshotTypes
<1> HIDE DEF ans, row, f
<1>10. g \in Flow /\ g.at = "answered" /\ g.link = f.link /\ g.answer = ans
  BY <1>4, <1>9 DEF Flow
<1> HIDE DEF g
<1>11. Fits(g, extraction')
  BY <1>4, <1>8, <1>9, <1>10, Assumed DEF Fits
<1>12. Calls'
  BY <1>5, <1>8, <1>11, CallMade DEF Whole
<1>13. LinkInv'
  BY <1>1, <1>6, <1>7, RowWritten
<1>14. Inv' /\ LinksKept
  BY FlowLinkStep DEF Whole
<1> QED
  BY <1>1, <1>8, <1>12, <1>13, <1>14, WholeStep DEF Whole, Contexts

LEMMA FlowAnsweredWhole ==
  ASSUME Whole, NEW w \in Callers, NEW a \in Account, FlowAnswered(w, a)
  PROVE  Whole'
<1> DEFINE f   == flow[w][a]
           g   == [f EXCEPT !.answer = "missing"]
           row == Applied(link[a], f.link, f.answer)
<1>1. /\ f.at = "answered" /\ Goes(w, a, AtPayment(g))
      /\ \/ UNCHANGED link
         \/ f.answer # "missing" /\ link' = [link EXCEPT ![a] = row]
      /\ UNCHANGED <<extraction, owner, deleted, reserved, deleting, start, tracker, faults, context>>
  BY DEF FlowAnswered
<1>2. LinkTypes /\ link[a] \in Row
  BY WholeTypes DEF LinkTypes
<1>3. /\ f \in Flow /\ f.link # None /\ extraction'[f.link] # "none"
      /\ f.answer \in Settled => extraction'[f.link] \notin {"queued", "running"}
  BY <1>1 DEF Whole, Calls, Fits
<1>4. Aged /\ Older /\ faults' \in 0 .. MaxFaults
  BY <1>1, <1>2, SameAge, AgedIsOlder, Faults
<1> HIDE DEF f
<1>5. g \in Flow /\ g.link = f.link
  BY <1>3 DEF Flow, Answers
<1> HIDE DEF g
<1>6. Fits(Open(AtPayment(g)), extraction')
  BY <1>3, <1>5, NextFits
<1>7. Calls'
  BY <1>1, <1>4, <1>6, GoesCalls DEF Whole
<1>8. LinkInv'
  <2>1. CASE UNCHANGED link
    BY <1>1, <2>1, Elsewhere
  <2>2. CASE f.answer # "missing" /\ link' = [link EXCEPT ![a] = row]
    <3>1. f.answer \in Answers \ {"missing"}
      BY <1>3, <2>2 DEF Flow
    <3>2. /\ row \in Row /\ row.task = link[a].task
          /\ link[a].status \in Active =>
               \/ row.status \in Active
               \/ link[a].task \in {f.link, None} /\ f.answer \in Settled
      BY <1>2, <3>1, RowTypes
    <3> HIDE DEF row
    <3> QED
      BY <1>1, <1>3, <1>4, <2>2, <3>2, RowWritten
  <2> QED
    BY <1>1, <2>1, <2>2
<1>9. Inv' /\ LinksKept
  BY FlowLinkStep DEF Whole
<1> QED
  BY <1>1, <1>4, <1>7, <1>8, <1>9, WholeStep DEF Whole, Contexts

LEMMA RegisteredWhole ==
  ASSUME Whole, NEW a \in Account, Registered(a)
  PROVE  Whole'
<1>1. /\ UNCHANGED <<extraction, owner, deleted, link, reserved, deleting, start, faults, flow, context>>
      /\ \/ UNCHANGED tracker
         \/ item[a].link # None /\ tracker' = [tracker EXCEPT ![a] = Tracked(a, item[a].link)]
  BY DEF Registered
<1>2. LinkInv' /\ Older
  <2>1. LinkTypes /\ item[a].link \in Extraction \cup {None}
    BY WholeTypes
  <2>2. Older
    BY <1>1, <2>1, SameAge, AgedIsOlder
  <2>3. CASE UNCHANGED tracker
    BY <1>1, <2>2, <2>3, Elsewhere
  <2>4. CASE item[a].link # None /\ tracker' = [tracker EXCEPT ![a] = Tracked(a, item[a].link)]
    BY <1>1, <2>1, <2>2, <2>4, FollowKeeps DEF Whole, ItemLinks
  <2> QED
    BY <1>1, <2>3, <2>4
<1>3. Inv' /\ LinksKept
  BY RegisteredStep DEF Whole
<1> QED
  BY <1>1, <1>2, <1>3, CallsStay, WholeStep DEF Whole, Contexts

LEMMA StartLinkWhole ==
  ASSUME Whole, NEW a \in Account, StartLink(a)
  PROVE  Whole'
<1>1. Accept(a, "pipeline") /\ UNCHANGED <<extraction, flow, context>>
  BY DEF StartLink, Accept
<1>2. LinkInv' /\ Older
  BY <1>1, WholeTypes, AcceptKeeps, SameAge, AgedIsOlder DEF Whole
<1>3. Inv' /\ LinksKept
  BY StartLinkStep DEF Whole
<1> QED
  BY <1>1, <1>2, <1>3, CallsStay, WholeStep DEF Whole, Contexts

\* The item learns of the extraction the batch was answered with.
LEMMA LinkStartedWhole ==
  ASSUME Whole, NEW a \in Account, LinkStarted(a)
  PROVE  Whole'
<1> DEFINE row == [Staged(item[a], "link_wait") EXCEPT !.link = start.task]
<1>1. Started /\ UNCHANGED <<extraction, context>> /\ Write([item EXCEPT ![a] = row]) /\ Late(a, row)
  BY DEF LinkStarted, Started
<1> HIDE DEF row
<1>2. LinkInv' /\ Older
  BY <1>1, WholeTypes, StartedKeeps, SameAge, AgedIsOlder DEF Whole
<1>3. /\ Inv' /\ item'[a].link = start.task
      /\ \A b \in Account : b # a => item'[b] = item[b]
  BY LinkStartedStep DEF Whole
<1>4. item'[a] = row
  BY <1>1 DEF Write, Whole, Inv, Types, ItemTypes, Rows
<1>5. row \in Item
  BY <1>3, <1>4 DEF Inv, Types, ItemTypes, Rows
<1>6. Taken(start.task)
  BY <1>1 DEF Started, Whole, LinkInv, Turn
<1>7. row.link # None => extraction'[row.link] # "none"
  BY <1>1, <1>3, <1>4, <1>6 DEF Taken
<1>8. Calls'
  BY <1>1, <1>2, <1>5, <1>7, LateCalls DEF Whole
<1>9. ItemLinks'
  BY <1>1, <1>3, <1>6 DEF Whole, ItemLinks, Taken
<1> QED
  BY <1>1, <1>2, <1>3, <1>8, <1>9 DEF Whole, Contexts

LEMMA LinkFailsWhole ==
  ASSUME Whole, NEW a \in Account, LinkFails(a)
  PROVE  Whole'
<1>1. NotStarted /\ Throws(a) /\ UNCHANGED <<extraction, context>>
  BY DEF LinkFails, NotStarted
<1>2. LinkInv' /\ Older
  BY <1>1, WholeTypes, NotStartedKeeps, SameAge, AgedIsOlder DEF Whole
<1>3. Inv' /\ LinksKept
  BY EndsStep DEF Whole
<1> QED
  BY <1>1, <1>2, <1>3, ThrowsCalls, WholeStep DEF Whole, Contexts

LEMMA RestartWhole ==
  ASSUME Whole, Restart
  PROVE  Whole'
<1> DEFINE none == [w \in Callers |-> [a \in Account |-> NoFlow]]
<1>1. Reboot /\ UNCHANGED extraction /\ context' = [a \in Account |-> "none"]
  BY DEF Restart, Reboot
<1>2. LinkInv' /\ Older
  BY <1>1, RebootKeeps, AgedIsOlder DEF Whole
<1>3. Inv' /\ LinksKept
  BY RestartStep DEF Whole
<1>4. none \in [Callers -> [Account -> Flow]] /\ \A w \in Callers, a \in Account : Fits(none[w][a], extraction')
  <2>1. Fits(NoFlow, extraction') /\ NoFlow \in Flow
    BY NoFlowFits DEF Fits
  <2> QED
    BY <2>1
<1>5. flow' = none \/ Cancelled(Recovered, none)
  <2> DEFINE t == IF task \in TaskOver THEN task ELSE Recompute(task, Recovered)
  <2>1. t \in TaskStates
    BY WholeTypes, RecomputeType DEF ItemTypes
  <2>2. t \in TaskOver => flow' = none
    BY DEF Restart, TaskOver
  <2>3. t = "cancel_requested" => Cancelled(Recovered, none)
    BY DEF Restart, TaskOver
  <2>4. t = "running" => flow' = none
    BY DEF Restart, TaskOver
  <2> QED
    BY <2>1, <2>2, <2>3, <2>4 DEF TaskStates
<1> HIDE DEF none
<1>6. CASE flow' = none
  BY <1>1, <1>2, <1>3, <1>4, <1>6, WholeStep DEF Calls, Contexts
<1>7. CASE Cancelled(Recovered, none)
  <2>1. Recovered \in Rows /\ \A a \in Account : Recovered[a].link = item[a].link
    BY WholeTypes, RecoveredGrows DEF Grows
  <2>2. \A a \in Account : Recovered[a].link # None => extraction'[Recovered[a].link] # "none"
    BY <1>1, <2>1 DEF Whole, ItemLinks, Taken
  <2>3. Calls'
    BY <1>4, <1>7, <2>1, <2>2, CancelledCalls
  <2> QED
    BY <1>1, <1>2, <1>3, <2>3, WholeStep DEF Contexts
<1> QED
  BY <1>5, <1>6, <1>7

LEMMA RemoteWhole ==
  ASSUME Whole, RemoteWorks, UNCHANGED <<task, item, loops>>
  PROVE  Whole'
<1>1. Inv' /\ LinksKept
  BY RemoteStep DEF Whole
<1>2. UNCHANGED <<flow, context>>
  BY DEF loops
<1>3. LinkInv' /\ Older
  <2>1. CASE \E e \in Extraction : ExtractorWorks(e)
    BY <2>1, WorkKeeps, AgedIsOlder DEF Whole
  <2>2. CASE UNCHANGED linkVars
    BY <2>2, Elsewhere DEF linkVars
  <2> QED
    BY <2>1, <2>2 DEF RemoteWorks
<1> QED
  BY <1>1, <1>2, <1>3, CallsStay, WholeStep DEF Whole, Contexts

LEMMA ServiceWhole ==
  ASSUME Whole, Starts \/ LinkService, UNCHANGED <<task, item, loops, children>>
  PROVE  Whole'
<1>1. Inv' /\ LinksKept
  BY ServiceStep DEF Whole
<1>2. UNCHANGED <<flow, context>>
  BY DEF loops
<1>3. LinkInv /\ LinkTypes
  BY WholeTypes DEF Whole
<1>4. CASE Starts
  <2>1. LinkInv' /\ Older
    BY <1>3, <1>4, SubmittedKeeps, StartedKeeps, NotStartedKeeps, SameAge, AgedIsOlder
    DEF Starts, Started, NotStarted, Older, Taken, Unstopped
  <2> QED
    BY <1>1, <1>2, <2>1, CallsStay, WholeStep DEF Whole, Contexts
<1>5. CASE LinkService
  <2> SUFFICES LinkInv' /\ Older
    BY <1>1, <1>2, CallsStay, WholeStep DEF Whole, Contexts
  <2>1. CASE \E e \in Extraction : ExtractorForgets(e)
    BY <1>3, <2>1, WorkKeeps, AgedIsOlder
  <2>2. ASSUME NEW a \in Account, Accept(a, "user") \/ BeginDelete(a) \/ EndDelete(a)
        PROVE  LinkInv' /\ Older
    <3>1. UNCHANGED extraction
      BY <2>2 DEF Accept, BeginDelete, EndDelete
    <3> QED
      BY <1>3, <2>2, <3>1, AcceptKeeps, BeginDeleteKeeps, EndDeleteKeeps, SameAge, AgedIsOlder
  <2>3. ASSUME NEW a \in Account, Ask(a) \/ Heard(a) \/ Missing(a) \/ PollFails(a) \/ Expire(a)
        PROVE  LinkInv' /\ Older
    <3>1. UNCHANGED extraction
      BY <2>3 DEF Ask, Heard, Missing, PollFails, Expire
    <3> QED
      BY <1>3, <2>3, <3>1, AskKeeps, HeardKeeps, MissingKeeps, PollFailsKeeps, ExpireKeeps,
         SameAge, AgedIsOlder
  <2>4. ASSUME NEW a \in Account, TimedOut(a)
        PROVE  LinkInv' /\ Older
    <3>1. tracker[a].task \in Extraction
      BY <1>3, <2>4, TrackerFields DEF TimedOut
    <3>2. Aged
      BY <1>3, <2>4, <3>1, CancelAges, SameAge DEF TimedOut
    <3> QED
      BY <1>3, <2>4, <3>2, TimedOutKeeps, AgedIsOlder
  <2> QED
    BY <1>5, <2>1, <2>2, <2>3, <2>4 DEF LinkService, Tracks
<1> QED
  BY <1>4, <1>5

LEMMA StutterWhole ==
  ASSUME Whole, UNCHANGED vars
  PROVE  Whole'
<1>1. UNCHANGED linkVars /\ UNCHANGED <<flow, context>>
  BY DEF vars, loops
<1>2. LinkInv' /\ Older
  BY <1>1, Elsewhere DEF linkVars
<1>3. Inv' /\ LinksKept
  BY StutterStep DEF Whole
<1> QED
  BY <1>1, <1>2, <1>3, CallsStay, WholeStep DEF Whole, Contexts

--------------------------------------------------------------------------------
(* Types, and one extraction.                                                 *)

LEMMA InitWhole == Init => Whole
<1> SUFFICES ASSUME Init PROVE Whole
  OBVIOUS
<1>1. Inv /\ LinkInv
  BY InitHolds, LinkInitHolds DEF Init
<1>2. Fits(NoFlow, extraction) /\ NoFlow \in Flow
  BY NoFlowFits DEF Fits
<1>3. Calls /\ ItemLinks /\ Contexts
  BY <1>2 DEF Init, Calls, ItemLinks, Contexts
<1> QED
  BY <1>1, <1>3 DEF Whole

LEMMA NextWhole == Whole /\ [Next]_vars => Whole'
<1> SUFFICES ASSUME Whole, [Next]_vars PROVE Whole'
  OBVIOUS
<1>1. CASE Bosses \/ Refused
  BY <1>1, QuietWhole, AdoptWhole DEF Bosses
<1>2. CASE Cancel \/ Restart
  BY <1>2, CancelWhole, RestartWhole
<1>3. ASSUME NEW a \in Account, Runs(a) PROVE Whole'
  BY <1>3, QuietWhole, EndsWhole, RegisteredWhole, LinkStartedWhole, LinkFailsWhole,
     PaidWhole, AgreedWhole DEF Runs
<1>4. ASSUME NEW a \in Account, StartLink(a) \/ ContextStops(a) PROVE Whole'
  BY <1>4, StartLinkWhole, AgreedWhole
<1>5. ASSUME NEW a \in Account, NEW w \in Callers, Flows(w, a) PROVE Whole'
  BY <1>5, FlowRegistrationWhole, FlowLinkWhole, FlowAnsweredWhole, FlowPaymentWhole DEF Flows
<1>6. CASE RemoteWorks /\ UNCHANGED <<task, item, loops>>
  BY <1>6, RemoteWhole
<1>7. CASE (Starts \/ LinkService) /\ UNCHANGED <<task, item, loops, children>>
  BY <1>7, ServiceWhole
<1>8. CASE UNCHANGED vars
  BY <1>8, StutterWhole
<1> QED
  BY <1>1, <1>2, <1>3, <1>4, <1>5, <1>6, <1>7, <1>8 DEF Next

LEMMA WholeHolds == Spec => []Whole
BY InitWhole, NextWhole, PTL DEF Spec

\* The rows, calls, trackers and reservations of every pipeline are well formed;
\* an item is over exactly when its stage is.
THEOREM PipelineTypeCorrect == Spec => []TypeOK
<1>1. Whole => TypeOK
  <2> SUFFICES ASSUME Whole PROVE TypeOK
    OBVIOUS
  <2>1. LinkTypeOK
    BY DEF Whole, LinkInv
  <2>2. Types /\ Calls /\ Contexts
    BY DEF Whole, Inv
  <2> QED
    BY <2>1, <2>2 DEF TypeOK, Types, ItemTypes, TaskStates, BossTypes, LoopTypes, Loops, JobTypes, Jobs,
       Rows, Calls, Contexts
<1> QED
  BY <1>1, WholeHolds, PTL

\* startBatch and reserveForAccountDeletion: in every pipeline, while no request
\* fails and the hub is not restarted, an account has at most one extraction
\* that nobody asked to stop, and none once it is being deleted.
THEOREM AtMostOneExtraction == Spec => []OneExtraction
<1>1. Whole => OneExtraction
  <2> SUFFICES ASSUME Whole, faults = 0, NEW a \in Account
               PROVE  Cardinality({e \in Extraction :
                        owner[e] = a /\ extraction[e] \in {"queued", "running"}})
                      <= IF a \in deleting \cup deleted THEN 0 ELSE 1
    BY DEF OneExtraction
  <2> DEFINE S == {e \in Extraction : owner[e] = a /\ extraction[e] \in {"queued", "running"}}
  <2>1. \A e \in S : Held(e, a)
    BY DEF Whole, LinkInv, Exclusive, Unstopped
  \* The batch has it, and the account is in its turn; or its row does.
  <2>2. \A e \in S, i \in S : e = i
    BY <2>1 DEF Whole, LinkInv, Turn, Held
  <2>3. a \in deleting \cup deleted => S = {}
    BY <2>1 DEF Held
  <2>4. S = {} \/ \E e \in S : S = {e}
    BY <2>2
  <2> HIDE DEF S
  <2>5. Cardinality({}) = 0 /\ \A e \in S : Cardinality({e}) = 1
    BY FS_EmptySet, FS_Singleton
  <2>6. Cardinality(S) = 0 \/ (S # {} /\ Cardinality(S) = 1)
    BY <2>4, <2>5
  <2>7. Cardinality(S) <= IF a \in deleting \cup deleted THEN 0 ELSE 1
    BY <2>3, <2>5, <2>6
  <2> QED
    BY <2>7 DEF S
<1> QED
  BY <1>1, WholeHolds, PTL

--------------------------------------------------------------------------------
(* Without failures, who minds the children of an item.                       *)
(*                                                                            *)
(* NoStrayChild speaks of an item that has come to rest.  What is inductive   *)
(* follows every child that goes on from its submission: it is minded by an   *)
(* open row that names it (with a loop that waits for it, when it is a link   *)
(* or an agreement), by runTask before it adopts the registration, by the     *)
(* await whose answer will name the agreement, or by a call that knows the    *)
(* child and has not come to it yet.                                          *)

Going == {"queued", "running"}

\* A cancel has reached the item, or it is over.
Doomed(a) == item[a].status \in ItemOver \cup {"cancel_requested"} \/ task = "cancel_requested"

\* Whoever ends this item next, or asks it to end, works on the row as it is.
Minded(a) == item[a].status \notin ItemOver /\ flow["cancel"][a].at = "none"

\* runTask, and that it submits a registration only for an item without a job
Bossed ==
  /\ boss.at # "off" /\ (boss.at = "working" => boss.missing = {})
  /\ boss.at = "creating" => \A a \in Account : registration[a] = "none"
  /\ \A a \in boss.missing : ~item[a].job

OverIsOver == task \in TaskOver => \A a \in Account : item[a].status \in ItemOver

\* Only a cancel makes a call, and a call knows of one agreement at most.
Warned(a) ==
  \A w \in Callers :
    /\ flow[w][a].at # "none" => Doomed(a)
    /\ flow[w][a].pay \in {0, 1} /\ (flow[w][a].at = "payment" => flow[w][a].pay = 1)

\* The extraction of an item is its account's, and the batch has handed it over.
Owned(a) ==
  /\ item[a].pay \in {0, 1}
  /\ item[a].link # None =>
       owner[item[a].link] = a /\ (start.at = "answered" => start.task # item[a].link)
  /\ run[a] = "linking" => start.at # "none" /\ start.by = "pipeline" /\ start.account = a

RegistrationMinded(a) ==
  registration[a] \in Going =>
    /\ job[a] = "submitted"
    /\ \/ a \in boss.missing
       \/ item[a].job /\ Minded(a)
       \/ \E w \in Callers : flow[w][a].at = "registration"

LinkMinded(a) ==
  item[a].link # None /\ extraction[item[a].link] \in Going =>
    \/ run[a] = "link" /\ Minded(a)
    \/ \E w \in Callers :
         flow[w][a].at \in {"registration", "link"} /\ flow[w][a].link = item[a].link

PaymentMinded(a) ==
  payment[<<a, 1>>] \in Going =>
    \/ run[a] = "paid"
    \/ /\ context[a] = "live"
       /\ \/ run[a] = "agreement" /\ item[a].pay = 1 /\ Minded(a)
          \/ \E w \in Callers : flow[w][a].at # "none" /\ flow[w][a].pay = 1

ChildrenMinded(a) == RegistrationMinded(a) /\ LinkMinded(a) /\ PaymentMinded(a)

Followed(a) == Owned(a) /\ Warned(a) /\ ChildrenMinded(a)

Traced == Bossed /\ OverIsOver /\ \A a \in Account : Followed(a)

StrayInv == faults = 0 => Traced

--------------------------------------------------------------------------------
(* What a call goes on with.                                                  *)

\* What a call that goes on keeps, and what it skips.
LEMMA NextCall ==
  ASSUME NEW f \in Flow
  PROVE  /\ f.link # None =>
              Open(AtLink(f)).at = "link" /\ Open(AtLink(f)).link = f.link /\ Open(AtLink(f)).pay = f.pay
         /\ f.link = None => Open(AtLink(f)) = Open(AtPayment(f)) /\ AtLink(f) = AtPayment(f)
         /\ f.link # None => AtLink(f).at = "link"
         /\ f.pay # 0 => /\ Open(AtPayment(f)).at = "payment" /\ Open(AtPayment(f)).link = f.link
                         /\ Open(AtPayment(f)).pay = f.pay /\ AtPayment(f).at = "payment"
         /\ f.pay = 0 => Open(AtPayment(f)) = NoFlow /\ AtPayment(f).at = "over"
<1> DEFINE to(pc) == [f EXCEPT !.at = pc]
<1>1. \A pc \in {"payment", "link", "over"} :
        to(pc).at = pc /\ to(pc).link = f.link /\ to(pc).pay = f.pay
  BY DEF Flow
<1>2. AtPayment(f) = IF f.pay # 0 THEN to("payment") ELSE to("over")
  BY DEF AtPayment, Flow
<1>3. AtLink(f) = IF f.link # None THEN to("link") ELSE AtPayment(f)
  BY DEF AtLink
<1>4. Open(to("payment")) = to("payment") /\ Open(to("link")) = to("link") /\ Open(to("over")) = NoFlow
  BY <1>1 DEF Open
<1> HIDE DEF to
<1> QED
  BY <1>1, <1>2, <1>3, <1>4

LEMMA KnownCall ==
  ASSUME NEW a, NEW row \in Item
  PROVE  LET f == Open(Known(a, row)) IN
         /\ Known(a, row).at = "over" => f = NoFlow
         /\ f.at # "none" => f.link = row.link /\ f.pay = row.pay
         /\ f.at = "none" => f.pay = 0
         /\ row.job /\ job[a] = "submitted" => f.at = "registration"
         /\ row.link # None => f.at \in {"registration", "link"}
         /\ row.pay # 0 => f.at # "none"
         /\ f.at = "payment" => row.pay # 0
<1> DEFINE f == [NoFlow EXCEPT !.link = row.link, !.pay = row.pay]
           r == [f EXCEPT !.at = "registration"]
<1>1. f \in Flow /\ f.link = row.link /\ f.pay = row.pay
  BY DEF NoFlow, Flow, Item, Answers
<1>2. Known(a, row) = IF row.job /\ job[a] \in Unended THEN r ELSE AtLink(f)
  BY DEF Known
<1> HIDE DEF f
<1>3. r.at = "registration" /\ r.link = row.link /\ r.pay = row.pay /\ Open(r) = r
  BY <1>1 DEF Flow, Open
<1> HIDE DEF r
<1>4. NoFlow.at = "none" /\ NoFlow.pay = 0
  BY DEF NoFlow
<1>5. "submitted" \in Unended
  BY DEF Unended
<1>6. CASE row.job /\ job[a] \in Unended
  BY <1>2, <1>3, <1>6
<1>7. CASE ~(row.job /\ job[a] \in Unended)
  <2>1. Known(a, row) = AtLink(f)
    BY <1>2, <1>7
  <2>2. /\ f.link # None =>
              /\ Open(AtLink(f)).at = "link" /\ Open(AtLink(f)).link = f.link
              /\ Open(AtLink(f)).pay = f.pay /\ AtLink(f).at = "link"
        /\ f.link = None => Open(AtLink(f)) = Open(AtPayment(f)) /\ AtLink(f) = AtPayment(f)
        /\ f.pay # 0 => /\ Open(AtPayment(f)).at = "payment" /\ Open(AtPayment(f)).link = f.link
                        /\ Open(AtPayment(f)).pay = f.pay /\ AtPayment(f).at = "payment"
        /\ f.pay = 0 => Open(AtPayment(f)) = NoFlow /\ AtPayment(f).at = "over"
    BY <1>1, NextCall
  <2>3. CASE f.link # None
    BY <1>1, <1>5, <1>7, <2>1, <2>2, <2>3
  <2>4. CASE f.link = None /\ f.pay # 0
    BY <1>1, <1>5, <1>7, <2>1, <2>2, <2>4
  <2>5. CASE f.link = None /\ f.pay = 0
    BY <1>1, <1>4, <1>5, <1>7, <2>1, <2>2, <2>5
  <2> QED
    BY <2>3, <2>4, <2>5
<1> QED
  BY <1>6, <1>7

--------------------------------------------------------------------------------
(* Rows and their task.                                                       *)

\* What a row may not lose.
SameRow(old, new) ==
  /\ new.link = old.link /\ new.pay = old.pay /\ new.job = old.job
  /\ old.status \in ItemOver => new.status \in ItemOver
  /\ old.status = "cancel_requested" => new.status \in ItemOver \cup {"cancel_requested"}

LEMMA FinishedRow ==
  ASSUME NEW rows \in Rows, NEW a \in Account, NEW status \in ItemOver
  PROVE  /\ Finished(rows, a, status)[a].status \in ItemOver
         /\ SameRow(rows[a], Finished(rows, a, status)[a])
         /\ \A b \in Account : b # a => Finished(rows, a, status)[b] = rows[b]
<1>1. CASE rows[a].status \in ItemOver
  BY <1>1 DEF Finished, SameRow
<1>2. CASE rows[a].status \notin ItemOver
  <2> DEFINE s   == IF rows[a].status = "cancel_requested" /\ status # "completed" THEN "cancelled" ELSE status
             row == [rows[a] EXCEPT !.stage = "over", !.status = s]
  <2>1. rows[a] \in Item /\ s \in ItemOver
    BY DEF Rows, ItemOver
  <2>2. /\ row.status = s /\ row.link = rows[a].link /\ row.pay = rows[a].pay
        /\ row.job = rows[a].job
    BY <2>1 DEF Item
  <2>3. Finished(rows, a, status) = [rows EXCEPT ![a] = row]
    BY <1>2, <2>1 DEF Finished, Rows, Item
  <2> HIDE DEF s, row
  <2>4. /\ [rows EXCEPT ![a] = row][a] = row
        /\ \A b \in Account : b # a => [rows EXCEPT ![a] = row][b] = rows[b]
    BY DEF Rows
  <2> QED
    BY <1>2, <2>1, <2>2, <2>3, <2>4 DEF SameRow
<1> QED
  BY <1>1, <1>2

LEMMA StagedSame ==
  ASSUME NEW row \in Item, NEW stage \in Stages \ {"over"}
  PROVE  /\ SameRow(row, Staged(row, stage)) /\ Staged(row, stage) \in Item
         /\ row.status \in {"queued", "running"} => Staged(row, stage).status = "running"
         /\ row.status \notin {"queued", "running"} => Staged(row, stage) = row
BY DEF Staged, Item, Active, ItemOver, SameRow

\* A task that was cancelled stays so until all its items are over.
LEMMA Recomputed ==
  ASSUME NEW t \in TaskStates, NEW rows \in Rows
  PROVE  /\ Recompute(t, rows) \in TaskOver => \A a \in Account : rows[a].status \in ItemOver
         /\ t = "cancel_requested" => Recompute(t, rows) \in TaskOver \cup {"cancel_requested"}
<1>1. \A a \in Account : rows[a].status \in Active \cup ItemOver
  BY RowFields
<1>2. CASE \E a \in Account : rows[a].status \in Active
  <2>1. Recompute(t, rows) = IF t = "cancel_requested" THEN t ELSE "running"
    BY <1>2 DEF Recompute, Active
  <2> QED
    BY <2>1 DEF TaskOver
<1>3. CASE ~\E a \in Account : rows[a].status \in Active
  <2>1. \A a \in Account : rows[a].status \in ItemOver
    BY <1>1, <1>3
  <2>2. Recompute(t, rows) \in {"completed", "cancelled", "partial_failed", "failed"}
    <3>1. CASE \A a \in Account : rows[a].status = "completed"
      BY <1>3, <3>1 DEF Recompute
    <3>2. CASE ~\A a \in Account : rows[a].status = "completed"
      BY <1>3, <3>2 DEF Recompute
    <3> QED
      BY <3>1, <3>2
  <2> QED
    BY <2>1, <2>2 DEF TaskOver
<1> QED
  BY <1>2, <1>3

DoomedStays == \A a \in Account : Doomed(a) => Doomed(a)'

LEMMA DoomLasts ==
  ASSUME ItemTypes, OverIsOver,
         \A b \in Account :
           /\ item[b].status \in ItemOver => item'[b].status \in ItemOver
           /\ item[b].status = "cancel_requested" => item'[b].status \in ItemOver \cup {"cancel_requested"},
         \/ UNCHANGED <<task, item>>
         \/ item' \in Rows /\ task' = Recompute(task, item')
         \/ item' \in Rows /\ task' = Recompute("cancel_requested", item')
  PROVE  OverIsOver' /\ DoomedStays
<1>1. CASE UNCHANGED <<task, item>>
  BY <1>1 DEF OverIsOver, DoomedStays, Doomed
<1>2. ASSUME NEW t \in TaskStates, item' \in Rows, task' = Recompute(t, item'),
             task = "cancel_requested" => t = "cancel_requested"
      PROVE  OverIsOver' /\ DoomedStays
  <2>1. /\ Recompute(t, item') \in TaskOver => \A a \in Account : item'[a].status \in ItemOver
        /\ t = "cancel_requested" => Recompute(t, item') \in TaskOver \cup {"cancel_requested"}
    BY <1>2, Recomputed
  <2>2. OverIsOver'
    BY <1>2, <2>1 DEF OverIsOver
  <2>3. DoomedStays
    BY <1>2, <2>1 DEF DoomedStays, Doomed
  <2> QED
    BY <2>2, <2>3
<1>3. task \in TaskStates /\ "cancel_requested" \in TaskStates
  BY DEF ItemTypes, TaskStates
<1> QED
  BY <1>1, <1>2, <1>3

LEMMA ItemDoomed ==
  ASSUME OverIsOver, NEW a \in Account
  PROVE  ItemCancelled(a) <=> Doomed(a)
BY DEF OverIsOver, ItemCancelled, Doomed, TaskOver, ItemOver

--------------------------------------------------------------------------------
(* What a step leaves minded.                                                 *)

\* A step that takes nothing away from what minds the children of an item
Steady(b) ==
  /\ item'[b].link = item[b].link /\ item'[b].pay = item[b].pay /\ item'[b].job = item[b].job
  /\ item'[b].status \in ItemOver =>
       \/ item[b].status \in ItemOver
       \/ registration'[b] \notin Going /\ run[b] \notin {"link", "agreement"}
  /\ \A w \in Callers : flow'[w][b] = flow[w][b]
  /\ context'[b] = context[b]
  /\ run'[b] = run[b] \/ run[b] \notin {"link", "paid", "agreement"}
  /\ b \in boss.missing => b \in boss'.missing
  /\ registration'[b] \in Going => registration[b] \in Going /\ job'[b] = job[b]
  /\ payment'[<<b, 1>>] \in Going => payment[<<b, 1>>] \in Going

\* The extraction of an item that goes on went on before.
LEMMA LinkAged ==
  ASSUME Whole, Older, NEW a \in Account, item[a].link # None, extraction'[item[a].link] \in Going
  PROVE  extraction[item[a].link] \in Going
<1>1. item[a].link \in Extraction /\ Taken(item[a].link)
  BY WholeTypes DEF Whole, ItemLinks
<1> QED
  BY <1>1 DEF Older, Unstopped, Going

LEMMA WarnedStays ==
  ASSUME NEW a \in Account, Warned(a), DoomedStays, \A w \in Callers : flow'[w][a] = flow[w][a]
  PROVE  Warned(a)'
BY DEF Warned, DoomedStays

LEMMA SteadyFollowed ==
  ASSUME Whole, Older, DoomedStays, NEW b \in Account, Followed(b), Steady(b)
  PROVE  Warned(b)' /\ ChildrenMinded(b)'
<1>1. Warned(b)'
  BY WarnedStays DEF Followed, Steady
<1>2. RegistrationMinded(b)'
  BY DEF Followed, ChildrenMinded, RegistrationMinded, Steady, Minded, Callers
<1>3. LinkMinded(b)'
  BY LinkAged DEF Followed, ChildrenMinded, LinkMinded, Steady, Minded, Callers
<1>4. PaymentMinded(b)'
  BY DEF Followed, ChildrenMinded, PaymentMinded, Steady, Minded, Callers
<1> QED
  BY <1>1, <1>2, <1>3, <1>4 DEF ChildrenMinded

\* An item none of whose children goes on
LEMMA NothingToMind ==
  ASSUME NEW a \in Account, Warned(a), DoomedStays, \A w \in Callers : flow'[w][a] = flow[w][a],
         registration'[a] \notin Going, payment'[<<a, 1>>] \notin Going,
         item'[a].link # None => extraction'[item'[a].link] \notin Going
  PROVE  Warned(a)' /\ ChildrenMinded(a)'
BY WarnedStays DEF ChildrenMinded, RegistrationMinded, LinkMinded, PaymentMinded

\* A cancel opens a call for an item that is minded, on the row as it is.
LEMMA AskedFollowed ==
  ASSUME Whole, Older, DoomedStays, NEW a \in Account, Followed(a), Doomed(a)',
         item'[a].link = item[a].link, item'[a].pay = item[a].pay, item'[a].job = item[a].job,
         flow'["late"][a] = flow["late"][a],
         flow'["cancel"][a] = IF Minded(a) THEN Open(Known(a, item[a])) ELSE flow["cancel"][a],
         UNCHANGED <<job, boss, context, registration, payment>>,
         run'[a] = run[a] \/ run[a] # "paid"
  PROVE  Warned(a)' /\ ChildrenMinded(a)'
<1> DEFINE f == Open(Known(a, item[a]))
<1>1. item[a] \in Item
  BY WholeTypes
<1>2. /\ f.at # "none" => f.link = item[a].link /\ f.pay = item[a].pay
      /\ f.at = "none" => f.pay = 0
      /\ item[a].job /\ job[a] = "submitted" => f.at = "registration"
      /\ item[a].link # None => f.at \in {"registration", "link"}
      /\ item[a].pay # 0 => f.at # "none"
      /\ f.at = "payment" => item[a].pay # 0
  BY <1>1, KnownCall
<1>3. flow'["cancel"][a] = IF Minded(a) THEN f ELSE flow["cancel"][a]
  OBVIOUS
<1> HIDE DEF f
<1>4. Owned(a) /\ Warned(a) /\ ChildrenMinded(a)
  BY DEF Followed
<1>5. Warned(a)'
  BY <1>2, <1>3, <1>4 DEF Warned, Owned, Callers
<1>6. RegistrationMinded(a)'
  BY <1>2, <1>3, <1>4 DEF ChildrenMinded, RegistrationMinded, Callers, Minded
<1>7. LinkMinded(a)'
  BY <1>2, <1>3, <1>4, LinkAged DEF ChildrenMinded, LinkMinded, Callers, Minded
<1>8. PaymentMinded(a)'
  BY <1>2, <1>3, <1>4 DEF ChildrenMinded, PaymentMinded, Callers, Minded
<1> QED
  BY <1>5, <1>6, <1>7, <1>8 DEF ChildrenMinded

\* A call goes on to g, and does not skip what goes on.
LEMMA CallFollowed ==
  ASSUME Whole, Older, DoomedStays, NEW w \in Callers, NEW a \in Account, NEW g, Followed(a),
         flow[w][a].at # "none", flow'[w][a] = g,
         \A v \in Callers : v # w => flow'[v][a] = flow[v][a],
         item'[a].link = item[a].link, item'[a].pay = item[a].pay, item'[a].job = item[a].job,
         item'[a].status \in ItemOver => item[a].status \in ItemOver \/ w = "cancel",
         g.pay \in {0, 1}, g.at = "payment" => g.pay = 1,
         UNCHANGED <<boss, run>>,
         registration'[a] \in Going =>
           registration[a] \in Going /\ job'[a] = job[a] /\ flow[w][a].at # "registration",
         item[a].link # None /\ extraction'[item[a].link] \in Going
           /\ flow[w][a].at \in {"registration", "link"} /\ flow[w][a].link = item[a].link =>
             g.at \in {"registration", "link"} /\ g.link = item[a].link,
         payment'[<<a, 1>>] \in Going =>
           /\ payment[<<a, 1>>] \in Going /\ context'[a] = context[a]
           /\ context[a] = "live" /\ flow[w][a].pay = 1 => g.at # "none" /\ g.pay = 1
  PROVE  Warned(a)' /\ ChildrenMinded(a)'
<1>1. Owned(a) /\ Warned(a) /\ ChildrenMinded(a)
  BY DEF Followed
<1>2. Doomed(a)'
  BY <1>1 DEF Warned, DoomedStays
<1>3. Warned(a)'
  BY <1>1, <1>2 DEF Warned
<1>4. Minded(a) => w = "late" /\ Minded(a)'
  BY DEF Minded, Callers
<1>5. RegistrationMinded(a)'
  BY <1>1, <1>4 DEF ChildrenMinded, RegistrationMinded
<1>6. LinkMinded(a)'
  BY <1>1, <1>4, LinkAged DEF ChildrenMinded, LinkMinded
<1>7. PaymentMinded(a)'
  BY <1>1, <1>4 DEF ChildrenMinded, PaymentMinded
<1> QED
  BY <1>3, <1>5, <1>6, <1>7 DEF ChildrenMinded

\* What one learns: its caller cancels it itself when the item was cancelled.
LEMMA LearntLate ==
  ASSUME Whole, OverIsOver, NEW a \in Account, Warned(a), NEW row, Late(a, row)
  PROVE  /\ flow'["cancel"][a] = flow["cancel"][a]
         /\ Doomed(a) => flow'["late"][a] = Open(Known(a, row))
         /\ ~Doomed(a) => \A w \in Callers : flow'[w][a] = flow[w][a] /\ flow[w][a].at = "none"
         /\ \A b \in Account, w \in Callers : b # a => flow'[w][b] = flow[w][b]
<1>1. flow \in [Callers -> [Account -> Flow]]
  BY DEF Whole, Calls
<1>2. flow' = [flow EXCEPT !["late"][a] = IF Doomed(a) THEN Open(Known(a, row)) ELSE @]
  BY ItemDoomed DEF Late
<1>3. ~Doomed(a) => \A w \in Callers : flow[w][a].at = "none"
  BY DEF Warned
<1> QED
  BY <1>1, <1>2, <1>3 DEF Callers

\* A step writes rows, of which no link, job or payment and no end is lost.
Rewrites ==
  /\ \A b \in Account : SameRow(item[b], item'[b])
  /\ \/ UNCHANGED <<task, item>>
     \/ item' \in Rows /\ task' = Recompute(task, item')
     \/ item' \in Rows /\ task' = Recompute("cancel_requested", item')

LEMMA RewritesLast ==
  ASSUME Whole, OverIsOver, Rewrites
  PROVE  OverIsOver' /\ DoomedStays
<1>1. ItemTypes
  BY WholeTypes
<1>2. \A b \in Account :
           /\ item[b].status \in ItemOver => item'[b].status \in ItemOver
           /\ item[b].status = "cancel_requested" => item'[b].status \in ItemOver \cup {"cancel_requested"}
  BY DEF Rewrites, SameRow
<1> QED
  BY <1>1, <1>2, DoomLasts DEF Rewrites

LEMMA SameRewrites ==
  ASSUME UNCHANGED <<task, item>>
  PROVE  Rewrites
BY DEF Rewrites, SameRow

LEMMA FinishedRewrites ==
  ASSUME Whole, NEW a \in Account, NEW status \in ItemOver, Write(Finished(item, a, status)), ItemTypes'
  PROVE  /\ Rewrites /\ item'[a].status \in ItemOver
         /\ \A b \in Account : b # a => item'[b] = item[b]
<1>1. item \in Rows /\ item' \in Rows
  BY WholeTypes DEF ItemTypes
<1>2. /\ item'[a].status \in ItemOver /\ SameRow(item[a], item'[a])
      /\ \A b \in Account : b # a => item'[b] = item[b]
  BY <1>1, FinishedRow DEF Write
<1>3. \A b \in Account : SameRow(item[b], item[b])
  BY DEF SameRow
<1>4. \A b \in Account : SameRow(item[b], item'[b])
  BY <1>2, <1>3
<1> QED
  BY <1>1, <1>2, <1>4 DEF Rewrites, Write

LEMMA RowRewrites ==
  ASSUME Whole, NEW a \in Account, NEW row, SameRow(item[a], row),
         Write([item EXCEPT ![a] = row]), ItemTypes'
  PROVE  /\ Rewrites /\ item'[a] = row
         /\ \A b \in Account : b # a => item'[b] = item[b]
<1>1. item \in Rows /\ item' \in Rows
  BY WholeTypes DEF ItemTypes
<1>2. item'[a] = row /\ \A b \in Account : b # a => item'[b] = item[b]
  BY <1>1 DEF Write, Rows
<1>3. \A b \in Account : SameRow(item[b], item[b])
  BY DEF SameRow
<1>4. \A b \in Account : SameRow(item[b], item'[b])
  BY <1>2, <1>3
<1> QED
  BY <1>1, <1>2, <1>4 DEF Rewrites, Write

\* No registration or agreement starts again, and none is there before it is submitted.
RemoteLater ==
  \A b \in Account :
    /\ registration[b] = "none" => registration'[b] = "none"
    /\ registration'[b] \in Going => registration[b] \in Going
    /\ payment'[<<b, 1>>] \in Going => payment[<<b, 1>>] \in Going

LEMMA SameRemote ==
  ASSUME UNCHANGED <<registration, payment>>
  PROVE  RemoteLater
BY DEF RemoteLater

LEMMA WorkerLater ==
  ASSUME NEW a \in Account, Worker!Cancel(a, {}) \/ Worker!Work(a), UNCHANGED payment
  PROVE  RemoteLater /\ (Worker!Cancel(a, {}) => registration'[a] \notin Going)
<1>1. PICK to : /\ registration' = [i \in Account |-> IF i = a THEN to ELSE registration[i]]
                /\ registration[a] # "none"
                /\ to \in Going => registration[a] \in Going
                /\ Worker!Cancel(a, {}) => to \notin Going
  BY DEF Worker!Cancel, Worker!Work, Worker!Begin, Worker!Finish, Worker!Verdicts, Worker!Move, Going
<1> QED
  BY <1>1 DEF RemoteLater

LEMMA AgreementLater ==
  ASSUME NEW p \in Payment, Agreement!Cancel(p, {}) \/ Agreement!Work(p), UNCHANGED registration
  PROVE  RemoteLater /\ (Agreement!Cancel(p, {}) => payment'[p] \notin Going)
<1>1. PICK to : /\ payment' = [i \in Payment |-> IF i = p THEN to ELSE payment[i]]
                /\ to \in Going => payment[p] \in Going
                /\ Agreement!Cancel(p, {}) => to \notin Going
  BY DEF Agreement!Cancel, Agreement!Work, Agreement!Begin, Agreement!Finish, Agreement!Verdicts,
         Agreement!Move, Going
<1> QED
  BY <1>1 DEF RemoteLater, Payment

LEMMA BossedStays ==
  ASSUME Bossed, UNCHANGED boss, \A b \in Account : item'[b].job = item[b].job,
         \A b \in Account : registration[b] = "none" => registration'[b] = "none",
         boss.missing \subseteq Account
  PROVE  Bossed'
BY DEF Bossed

LEMMA OwnedStays ==
  ASSUME NEW b \in Account, Owned(b), UNCHANGED <<owner, start>>,
         item'[b].link = item[b].link, item'[b].pay = item[b].pay,
         run'[b] = "linking" => run[b] = "linking"
  PROVE  Owned(b)'
BY DEF Owned

LEMMA MissingTyped ==
  ASSUME Whole
  PROVE  boss.missing \subseteq Account /\ run \in [Account -> Loops] /\ job \in [Account -> Jobs]
BY DEF Whole, Inv, Types, BossTypes, LoopTypes, JobTypes

\* Each item is left as it was, or minded anew.
Minding == \A b \in Account : Steady(b) \/ (Warned(b)' /\ ChildrenMinded(b)')

LEMMA TracedBy ==
  ASSUME Whole, Traced, Older, DoomedStays, OverIsOver', Bossed', \A b \in Account : Owned(b)', Minding
  PROVE  Traced'
<1>1. ASSUME NEW b \in Account PROVE Followed(b)'
  <2>1. Warned(b)' /\ ChildrenMinded(b)'
    BY SteadyFollowed DEF Traced, Minding
  <2> QED
    BY <2>1 DEF Followed
<1> QED
  BY <1>1 DEF Traced

\* A step of which runTask knows nothing
LEMMA MindingStep ==
  ASSUME Whole, Traced, Older, Rewrites, RemoteLater, UNCHANGED boss,
         \A b \in Account : Owned(b)', DoomedStays => Minding
  PROVE  Traced'
<1>1. OverIsOver' /\ DoomedStays
  BY RewritesLast DEF Traced
<1>2. \A b \in Account : item'[b].job = item[b].job
  BY DEF Rewrites, SameRow
<1>3. Bossed'
  BY <1>2, MissingTyped, BossedStays DEF Traced, RemoteLater
<1> QED
  BY <1>1, <1>3, TracedBy

\* ... and of which the batch knows nothing
LEMMA TracedStep ==
  ASSUME Whole, Traced, Older, Rewrites, RemoteLater, UNCHANGED <<owner, start, boss>>,
         \A b \in Account : run'[b] = "linking" => run[b] = "linking",
         DoomedStays => Minding
  PROVE  Traced'
<1>1. \A b \in Account : item'[b].link = item[b].link /\ item'[b].pay = item[b].pay
  BY DEF Rewrites, SameRow
<1>2. \A b \in Account : Owned(b)'
  BY <1>1, OwnedStays DEF Traced, Followed
<1> QED
  BY <1>2, MindingStep

\* An item of which a step changes nothing but that a child may stop
LEMMA SteadyItem ==
  ASSUME NEW b \in Account, item'[b] = item[b], run'[b] = run[b], context'[b] = context[b], job'[b] = job[b],
         \A w \in Callers : flow'[w][b] = flow[w][b], UNCHANGED boss, RemoteLater
  PROVE  Steady(b)
BY DEF Steady, RemoteLater

--------------------------------------------------------------------------------
(* The calls.                                                                 *)

LEMMA SameOlder ==
  ASSUME Whole, UNCHANGED extraction
  PROVE  Older
BY WholeTypes, SameAge, AgedIsOlder

LEMMA CallGoes ==
  ASSUME Whole, Whole', NEW w \in Callers, NEW a \in Account, NEW f, Goes(w, a, f)
  PROVE  /\ Rewrites /\ flow'[w][a] = Open(f)
         /\ \A v \in Callers, b \in Account : v # w \/ b # a => flow'[v][b] = flow[v][b]
         /\ \A b \in Account : b # a => item'[b] = item[b]
         /\ item'[a].status \in ItemOver => item[a].status \in ItemOver \/ w = "cancel"
<1>1. flow' = [flow EXCEPT ![w][a] = Open(f)] /\ flow \in [Callers -> [Account -> Flow]]
  BY DEF Goes, Whole, Calls
<1>2. \/ UNCHANGED <<task, item>>
      \/ w = "cancel" /\ Write(Finished(item, a, "cancelled"))
  BY DEF Goes
<1>3. "cancelled" \in ItemOver /\ ItemTypes'
  BY DEF ItemOver, Whole, Inv, Types
<1>4. /\ Rewrites /\ \A b \in Account : b # a => item'[b] = item[b]
      /\ UNCHANGED item \/ w = "cancel"
  BY <1>2, <1>3, SameRewrites, FinishedRewrites
<1> QED
  BY <1>1, <1>4

\* What a call keeps when it goes on to the link or to the payment
LEMMA WentOn ==
  ASSUME NEW f \in Flow, f.pay \in {0, 1}
  PROVE  /\ \A g \in {Open(AtLink(f)), Open(AtPayment(f))} :
              /\ g.pay \in {0, 1} /\ (g.at = "payment" => g.pay = 1)
              /\ f.pay = 1 => g.at # "none" /\ g.pay = 1
         /\ f.link # None => Open(AtLink(f)).at = "link" /\ Open(AtLink(f)).link = f.link
<1> DEFINE p == Open(AtPayment(f))
           l == Open(AtLink(f))
<1>1. NoFlow.pay = 0 /\ NoFlow.at = "none"
  BY DEF NoFlow
<1>2. /\ f.link # None => l.at = "link" /\ l.link = f.link /\ l.pay = f.pay
      /\ f.link = None => l = p
      /\ f.pay # 0 => p.at = "payment" /\ p.pay = f.pay
      /\ f.pay = 0 => p = NoFlow
  BY NextCall
<1> HIDE DEF p, l
<1>3. p.pay \in {0, 1} /\ (p.at = "payment" => p.pay = 1) /\ (f.pay = 1 => p.at # "none" /\ p.pay = 1)
  BY <1>1, <1>2
<1>4. l.pay \in {0, 1} /\ (l.at = "payment" => l.pay = 1) /\ (f.pay = 1 => l.at # "none" /\ l.pay = 1)
  BY <1>2, <1>3
<1>5. f.link # None => l.at = "link" /\ l.link = f.link
  BY <1>2
<1> QED
  BY <1>3, <1>4, <1>5 DEF p, l

LEMMA FlowRegistrationTraced ==
  ASSUME Whole, Whole', Traced, ~Fault, NEW w \in Callers, NEW a \in Account, FlowRegistration(w, a)
  PROVE  Traced'
<1> DEFINE f == flow[w][a]
           g == Open(AtLink(f))
<1>1. /\ f.at = "registration" /\ Goes(w, a, AtLink(f))
      /\ UNCHANGED <<extraction, owner, start, boss, run, context, payment>>
      /\ IF registration[a] \in {"queued", "running"}
         THEN Worker!Cancel(a, {}) ELSE UNCHANGED registration
      /\ \E s : job' = [job EXCEPT ![a] = s]
  BY DEF FlowRegistration
<1>2. RemoteLater /\ registration'[a] \notin Going
  BY <1>1, WorkerLater, SameRemote DEF Going
<1>3. /\ Rewrites /\ flow'[w][a] = g
      /\ \A v \in Callers, b \in Account : v # w \/ b # a => flow'[v][b] = flow[v][b]
      /\ \A b \in Account : b # a => item'[b] = item[b]
      /\ item'[a].status \in ItemOver => item[a].status \in ItemOver \/ w = "cancel"
  BY <1>1, CallGoes
<1>4. f \in Flow /\ f.pay \in {0, 1}
  BY DEF Whole, Calls, Traced, Followed, Warned
<1>5. /\ g.pay \in {0, 1} /\ (g.at = "payment" => g.pay = 1)
      /\ f.pay = 1 => g.at # "none" /\ g.pay = 1
      /\ f.link # None => g.at = "link" /\ g.link = f.link
  BY <1>4, WentOn
<1> HIDE DEF g
<1>6. Older
  BY <1>1, SameOlder
<1>7. ASSUME NEW b \in Account, b # a PROVE Steady(b)
  BY <1>1, <1>2, <1>3, <1>7, SteadyItem, MissingTyped
<1>8. DoomedStays => Warned(a)' /\ ChildrenMinded(a)'
  <2> SUFFICES ASSUME DoomedStays PROVE Warned(a)' /\ ChildrenMinded(a)'
    OBVIOUS
  <2>1. item'[a].link = item[a].link /\ item'[a].pay = item[a].pay /\ item'[a].job = item[a].job
    BY <1>3 DEF Rewrites, SameRow
  <2>2. /\ f.at # "none" /\ Followed(a)
        /\ item[a].link # None /\ f.link = item[a].link => g.at = "link" /\ g.link = item[a].link
    BY <1>1, <1>5 DEF Traced
  <2>3. /\ registration'[a] \notin Going /\ UNCHANGED <<boss, run>> /\ context'[a] = context[a]
        /\ payment'[<<a, 1>>] \in Going => payment[<<a, 1>>] \in Going
    BY <1>1, <1>2 DEF RemoteLater
  <2> QED
    BY <1>3, <1>5, <1>6, <2>1, <2>2, <2>3, CallFollowed
<1> QED
  BY <1>1, <1>2, <1>3, <1>6, <1>7, <1>8, TracedStep DEF Minding

LEMMA FlowLinkTraced ==
  ASSUME Whole, Whole', Traced, ~Fault, NEW w \in Callers, NEW a \in Account, FlowLink(w, a)
  PROVE  Traced'
<1> DEFINE f == flow[w][a]
           s == IF faults' # faults \/ extraction[f.link] \notin Extractor!Working
                THEN "missing" ELSE Snapshot(extraction'[f.link])
           g == [f EXCEPT !.at = "answered", !.answer = s]
<1>1. /\ f.at = "link" /\ CancelRemotely(f.link)
      /\ UNCHANGED <<owner, start, task, item, job, boss, run, context, registration, payment>>
      /\ flow' = [flow EXCEPT ![w][a].at = "answered", ![w][a].answer = s]
  BY DEF FlowLink, children
<1> HIDE DEF s
<1>2. f \in Flow /\ flow \in [Callers -> [Account -> Flow]] /\ f.link \in Extraction
  BY <1>1 DEF Whole, Calls, Fits, Flow
<1>3. flow' = [flow EXCEPT ![w][a] = g]
  BY <1>1, <1>2 DEF Flow
<1>4. g.at = "answered" /\ g.link = f.link /\ g.pay = f.pay
  BY <1>2 DEF Flow
<1> HIDE DEF g
<1>5. /\ flow'[w][a] = g
      /\ \A v \in Callers, b \in Account : v # w \/ b # a => flow'[v][b] = flow[v][b]
  BY <1>2, <1>3
<1>6. f.pay \in {0, 1}
  BY DEF Traced, Followed, Warned
<1>7. Older /\ extraction'[f.link] \notin Going
  BY <1>1, <1>2, WholeTypes, CancelAges, AgedIsOlder DEF Unstopped, Going
<1>8. RemoteLater /\ Rewrites
  BY <1>1, SameRemote, SameRewrites
<1>9. ASSUME NEW b \in Account, b # a PROVE Steady(b)
  BY <1>1, <1>5, <1>8, <1>9, SteadyItem
<1>10. DoomedStays => Warned(a)' /\ ChildrenMinded(a)'
  <2> SUFFICES ASSUME DoomedStays PROVE Warned(a)' /\ ChildrenMinded(a)'
    OBVIOUS
  <2>1. f.at # "none" /\ f.at # "registration" /\ Followed(a)
    BY <1>1 DEF Traced
  <2>2. g.pay \in {0, 1} /\ g.at # "payment" /\ g.at # "none"
    BY <1>4, <1>6
  <2>3. /\ registration'[a] \in Going => registration[a] \in Going /\ job'[a] = job[a]
        /\ payment'[<<a, 1>>] \in Going => payment[<<a, 1>>] \in Going /\ context'[a] = context[a]
        /\ item'[a] = item[a] /\ UNCHANGED <<boss, run>>
    BY <1>1, <1>8 DEF RemoteLater
  <2>4. ~(extraction'[item[a].link] \in Going /\ f.link = item[a].link)
    BY <1>7
  <2> QED
    BY <1>4, <1>5, <1>7, <2>1, <2>2, <2>3, <2>4, CallFollowed
<1> QED
  BY <1>1, <1>7, <1>8, <1>9, <1>10, TracedStep DEF Minding

LEMMA FlowAnsweredTraced ==
  ASSUME Whole, Whole', Traced, NEW w \in Callers, NEW a \in Account, FlowAnswered(w, a)
  PROVE  Traced'
<1> DEFINE f == flow[w][a]
           m == [f EXCEPT !.answer = "missing"]
           g == Open(AtPayment(m))
<1>1. /\ f.at = "answered" /\ Goes(w, a, AtPayment(m))
      /\ UNCHANGED <<extraction, owner, start, job, boss, run, context, registration, payment>>
  BY DEF FlowAnswered, children
<1>2. f \in Flow /\ f.pay \in {0, 1}
  BY DEF Whole, Calls, Traced, Followed, Warned
<1>3. m \in Flow /\ m.pay = f.pay
  BY <1>2 DEF Flow, Answers
<1> HIDE DEF m
<1>4. /\ g.pay \in {0, 1} /\ (g.at = "payment" => g.pay = 1)
      /\ f.pay = 1 => g.at # "none" /\ g.pay = 1
  BY <1>2, <1>3, WentOn
<1>5. /\ Rewrites /\ flow'[w][a] = g
      /\ \A v \in Callers, b \in Account : v # w \/ b # a => flow'[v][b] = flow[v][b]
      /\ \A b \in Account : b # a => item'[b] = item[b]
      /\ item'[a].status \in ItemOver => item[a].status \in ItemOver \/ w = "cancel"
  BY <1>1, CallGoes
<1> HIDE DEF g
<1>6. Older /\ RemoteLater
  BY <1>1, SameOlder, SameRemote
<1>7. ASSUME NEW b \in Account, b # a PROVE Steady(b)
  BY <1>1, <1>5, <1>6, <1>7, SteadyItem
<1>8. DoomedStays => Warned(a)' /\ ChildrenMinded(a)'
  <2> SUFFICES ASSUME DoomedStays PROVE Warned(a)' /\ ChildrenMinded(a)'
    OBVIOUS
  <2>1. item'[a].link = item[a].link /\ item'[a].pay = item[a].pay /\ item'[a].job = item[a].job
    BY <1>5 DEF Rewrites, SameRow
  <2> QED
    BY <1>1, <1>4, <1>5, <1>6, <2>1, CallFollowed DEF Traced, RemoteLater
<1> QED
  BY <1>1, <1>5, <1>6, <1>7, <1>8, TracedStep DEF Minding

\* The agreement goes with its context.
LEMMA FlowPaymentTraced ==
  ASSUME Whole, Whole', Traced, ~Fault, NEW w \in Callers, NEW a \in Account, FlowPayment(w, a)
  PROVE  Traced'
<1> DEFINE f == flow[w][a]
           g == [f EXCEPT !.at = "over"]
<1>1. /\ f.at = "payment" /\ Goes(w, a, g)
      /\ UNCHANGED <<extraction, owner, start, job, boss, run, registration>>
      /\ \/ /\ IF payment[<<a, f.pay>>] \in {"queued", "running"}
               THEN Agreement!Cancel(<<a, f.pay>>, {}) ELSE UNCHANGED payment
            /\ context' = [context EXCEPT ![a] = "none"]
         \/ context[a] = "none" /\ UNCHANGED <<context, payment>>
  BY DEF FlowPayment
<1>2. f \in Flow /\ f.pay = 1 /\ context \in [Account -> {"none", "live", "stopped"}]
  BY <1>1 DEF Whole, Calls, Contexts, Traced, Followed, Warned
<1>3. g.at = "over"
  BY <1>2 DEF Flow
<1> HIDE DEF g
<1>4. Open(g) = NoFlow /\ NoFlow.at = "none" /\ NoFlow.pay = 0
  BY <1>3 DEF Open, NoFlow
<1>5. /\ Rewrites /\ flow'[w][a] = NoFlow
      /\ \A v \in Callers, b \in Account : v # w \/ b # a => flow'[v][b] = flow[v][b]
      /\ \A b \in Account : b # a => item'[b] = item[b]
      /\ item'[a].status \in ItemOver => item[a].status \in ItemOver \/ w = "cancel"
  BY <1>1, <1>4, CallGoes
<1>6. /\ RemoteLater
      /\ payment'[<<a, 1>>] \in Going => context[a] = "none" /\ UNCHANGED context
  <2>1. <<a, 1>> \in Payment
    BY DEF Payment
  <2> QED
    BY <1>1, <1>2, <2>1, AgreementLater, SameRemote DEF Going
<1>7. Older
  BY <1>1, SameOlder
<1>8. \A b \in Account : b # a => context'[b] = context[b]
  BY <1>1, <1>2
<1>9. ASSUME NEW b \in Account, b # a PROVE Steady(b)
  BY <1>1, <1>5, <1>6, <1>8, <1>9, SteadyItem
<1>10. DoomedStays => Warned(a)' /\ ChildrenMinded(a)'
  <2> SUFFICES ASSUME DoomedStays PROVE Warned(a)' /\ ChildrenMinded(a)'
    OBVIOUS
  <2>1. item'[a].link = item[a].link /\ item'[a].pay = item[a].pay /\ item'[a].job = item[a].job
    BY <1>5 DEF Rewrites, SameRow
  <2> QED
    BY <1>1, <1>4, <1>5, <1>6, <1>7, <2>1, CallFollowed DEF Traced, RemoteLater
<1> QED
  BY <1>1, <1>5, <1>6, <1>7, <1>9, <1>10, TracedStep DEF Minding

--------------------------------------------------------------------------------
(* The loops of the items.                                                    *)

\* What an item's loop has behind it at each place
LEMMA Behind ==
  ASSUME Whole, NEW a \in Account
  PROVE  /\ run[a] \in {"queueing", "linking", "link", "paying", "paid", "agreement"} =>
              registration[a] = "succeeded"
         /\ run[a] \in {"registration", "queueing", "linking", "link", "paying"} =>
              payment[<<a, 1>>] = "none"
         /\ run[a] = "agreement" => item[a].pay = 1
         /\ job[a] = "completed" => registration[a] = "succeeded"
BY DEF Whole, Inv, PaidFor, PaidOnce, Unpaid

LEMMA LoopMoved ==
  ASSUME Whole, NEW a \in Account, NEW pc, run' = [run EXCEPT ![a] = pc]
  PROVE  run'[a] = pc /\ \A b \in Account : b # a => run'[b] = run[b]
BY MissingTyped

LEMMA CancelItemMinding ==
  ASSUME Whole, Whole', Traced, Older, NEW a \in Account, CancelItem(a), ItemCancelled(a),
         run[a] # "paid", run' = [run EXCEPT ![a] = "done"],
         UNCHANGED <<job, boss, context, registration, payment>>
  PROVE  Rewrites /\ (DoomedStays => Minding)
<1> DEFINE f == Open(Known(a, item[a]))
<1>1. "cancel" \in Callers /\ "late" \in Callers /\ Callers = {"cancel", "late"}
  BY DEF Callers
<1>2. /\ Minded(a) => Goes("cancel", a, Known(a, item[a]))
      /\ ~Minded(a) => UNCHANGED <<task, item, flow>>
  BY DEF CancelItem, Minded
<1>3. /\ Rewrites
      /\ \A w \in Callers, b \in Account : b # a => flow'[w][b] = flow[w][b]
      /\ \A b \in Account : b # a => item'[b] = item[b]
      /\ flow'["late"][a] = flow["late"][a]
      /\ flow'["cancel"][a] = IF Minded(a) THEN f ELSE flow["cancel"][a]
  <2>1. CASE Minded(a)
    BY <1>1, <1>2, <2>1, CallGoes
  <2>2. CASE ~Minded(a)
    BY <1>2, <2>2, SameRewrites
  <2> QED
    BY <2>1, <2>2
<1> SUFFICES ASSUME DoomedStays PROVE Minding
  BY <1>3
<1>4. run'[a] = "done" /\ \A b \in Account : b # a => run'[b] = run[b]
  BY LoopMoved
<1>5. RemoteLater
  BY SameRemote
<1>6. ASSUME NEW b \in Account, b # a PROVE Steady(b)
  BY <1>3, <1>4, <1>5, <1>6, SteadyItem
<1>7. Warned(a)' /\ ChildrenMinded(a)'
  <2>1. Doomed(a)' /\ Followed(a)
    BY ItemDoomed DEF Traced, DoomedStays
  <2>2. item'[a].link = item[a].link /\ item'[a].pay = item[a].pay /\ item'[a].job = item[a].job
    BY <1>3 DEF Rewrites, SameRow
  <2> QED
    BY <1>3, <2>1, <2>2, AskedFollowed
<1> QED
  BY <1>6, <1>7 DEF Minding

\* The loop ends the item of which nothing goes on that is not told.
LEMMA VerdictMinding ==
  ASSUME Whole, Whole', Traced, Older, NEW a \in Account, NEW s \in ItemOver, Verdict(a, s),
         UNCHANGED <<boss, context, registration, payment>>, run[a] \notin {"link", "paid", "agreement"},
         registration[a] \notin Going, \A b \in Account : b # a => job'[b] = job[b]
  PROVE  Rewrites /\ (DoomedStays => Minding)
<1>1. ItemTypes'
  BY DEF Whole, Inv, Types
<1>2. Write(Finished(item, a, s)) /\ UNCHANGED flow /\ run' = [run EXCEPT ![a] = "done"]
  BY DEF Verdict, At
<1>3. Rewrites /\ \A b \in Account : b # a => item'[b] = item[b]
  BY <1>1, <1>2, FinishedRewrites
<1>4. run'[a] = "done" /\ \A b \in Account : b # a => run'[b] = run[b]
  BY <1>2, LoopMoved
<1>5. RemoteLater
  BY SameRemote
<1>6. ASSUME NEW b \in Account, b # a PROVE Steady(b)
  BY <1>2, <1>3, <1>4, <1>5, <1>6, SteadyItem
<1>7. Steady(a)
  BY <1>2, <1>3, <1>5 DEF Steady, Rewrites, SameRow, RemoteLater
<1> QED
  BY <1>3, <1>6, <1>7 DEF Minding

LEMMA ThrowsMinding ==
  ASSUME Whole, Whole', Traced, Older, NEW a \in Account, Throws(a),
         run[a] \in {"queueing", "linking", "paying"},
         UNCHANGED <<job, boss, context, registration, payment>>
  PROVE  Rewrites /\ (DoomedStays => Minding) /\ run' = [run EXCEPT ![a] = "done"]
<1>1. run' = [run EXCEPT ![a] = "done"]
  BY DEF Throws, Verdict, At
<1>2. CASE ItemCancelled(a)
  BY <1>1, <1>2, CancelItemMinding DEF Throws
<1>3. CASE ~ItemCancelled(a)
  <2>1. registration[a] \notin Going /\ "failed" \in ItemOver /\ Verdict(a, "failed")
    BY <1>3, Behind DEF Going, ItemOver, Throws
  <2> QED
    BY <1>1, <2>1, VerdictMinding
<1> QED
  BY <1>1, <1>2, <1>3

\* What is said of an item at its link, when its row says it is over, or of another.
LEMMA LinkOver ==
  ASSUME Whole, faults = 0, NEW a \in Account, Owned(a), item[a].link # None,
         link[a].task # item[a].link \/ link[a].status \notin Active
  PROVE  extraction[item[a].link] \notin Going
<1>1. item[a].link \in Extraction
  BY WholeTypes
<1> QED
  BY <1>1 DEF Whole, LinkInv, Exclusive, Held, Unstopped, Going, Owned

\* An item that was not cancelled, and of which nothing goes on, moves on.
LEMMA IdleMinding ==
  ASSUME Whole, Whole', Traced, Older, NEW a \in Account, ~ItemCancelled(a),
         NEW pc, run' = [run EXCEPT ![a] = pc], UNCHANGED <<boss, flow>>, RemoteLater,
         registration[a] \notin Going, payment'[<<a, 1>>] \notin Going,
         item[a].link # None => extraction[item[a].link] \notin Going,
         \A b \in Account : b # a =>
           item'[b] = item[b] /\ job'[b] = job[b] /\ context'[b] = context[b],
         item'[a].link = item[a].link
  PROVE  DoomedStays => Minding
<1> SUFFICES ASSUME DoomedStays PROVE Minding
  OBVIOUS
<1>1. \A b \in Account : b # a => run'[b] = run[b]
  BY LoopMoved
<1>2. ASSUME NEW b \in Account, b # a PROVE Steady(b)
  BY <1>1, <1>2, SteadyItem
<1>3. item'[a].link # None => extraction'[item'[a].link] \notin Going
  BY LinkAged
<1>4. Warned(a)' /\ ChildrenMinded(a)'
  BY <1>3, NothingToMind DEF Traced, Followed, RemoteLater
<1> QED
  BY <1>2, <1>4 DEF Minding

LEMMA NoCalls ==
  ASSUME Traced, NEW a \in Account, ~ItemCancelled(a)
  PROVE  \A w \in Callers : flow[w][a].at = "none"
BY ItemDoomed DEF Traced, Followed, Warned

LEMMA EndsTraced ==
  ASSUME Whole, Whole', Traced, ~Fault, NEW a \in Account, Overtaken(a) \/ LinkRefused(a) \/ PayFails(a)
  PROVE  Traced'
<1>1. UNCHANGED <<extraction, owner, start, job, boss, context, registration, payment>>
  BY DEF Overtaken, LinkRefused, PayFails, linkVars, children
<1>2. Older /\ RemoteLater
  BY <1>1, SameOlder, SameRemote
<1>3. Rewrites /\ (DoomedStays => Minding) /\ run' = [run EXCEPT ![a] = "done"]
  <2>1. CASE Overtaken(a)
    <3>1. /\ CancelItem(a) /\ ItemCancelled(a) /\ run[a] # "paid"
          /\ run' = [run EXCEPT ![a] = "done"]
      BY <2>1 DEF Overtaken, At
    <3> QED
      BY <1>1, <1>2, <3>1, CancelItemMinding
  <2>2. CASE LinkRefused(a) \/ PayFails(a)
    <3>1. Throws(a) /\ run[a] \in {"queueing", "linking", "paying"}
      BY <2>2 DEF LinkRefused, PayFails
    <3> QED
      BY <1>1, <1>2, <3>1, ThrowsMinding
  <2> QED
    BY <2>1, <2>2
<1>4. \A b \in Account : run'[b] = "linking" => run[b] = "linking"
  BY <1>3, MissingTyped
<1> QED
  BY <1>1, <1>2, <1>3, <1>4, TracedStep

\* One item is at the batch at a time.
LEMMA LinkFailsTraced ==
  ASSUME Whole, Whole', Traced, NEW a \in Account, LinkFails(a)
  PROVE  Traced'
<1>1. /\ UNCHANGED <<extraction, owner, job, boss, context, registration, payment>>
      /\ start' = NoStart /\ run[a] = "linking" /\ Throws(a)
  BY DEF LinkFails, NotStarted, StartDone, children
<1>2. Older /\ RemoteLater
  BY <1>1, SameOlder, SameRemote
<1>3. Rewrites /\ (DoomedStays => Minding) /\ run' = [run EXCEPT ![a] = "done"]
  BY <1>1, <1>2, ThrowsMinding
<1>4. NoStart.at = "none"
  BY DEF NoStart
<1>5. ASSUME NEW b \in Account PROVE Owned(b)'
  <2>1. Owned(a) /\ Owned(b)
    BY DEF Traced, Followed
  <2>2. run'[b] # "linking"
    <3>1. run'[a] = "done" /\ (b # a => run'[b] = run[b])
      BY <1>3, LoopMoved
    <3>2. run[b] = "linking" => b = a
      BY <1>1, <2>1 DEF Owned
    <3> QED
      BY <3>1, <3>2
  <2>3. item'[b].link = item[b].link /\ item'[b].pay = item[b].pay
    BY <1>3 DEF Rewrites, SameRow
  <2> QED
    BY <1>1, <1>4, <2>1, <2>2, <2>3 DEF Owned
<1> QED
  BY <1>1, <1>2, <1>3, <1>5, MindingStep

LEMMA NotRegisteredTraced ==
  ASSUME Whole, Whole', Traced, NEW a \in Account, NotRegistered(a)
  PROVE  Traced'
<1> DEFINE j == IF job[a] = "submitted" /\ registration[a] \in Worker!Over
                THEN Synced(registration[a]) ELSE job[a]
<1>1. /\ UNCHANGED <<extraction, owner, start, boss, context, registration, payment>>
      /\ run[a] = "registration" /\ job' = [job EXCEPT ![a] = j]
      /\ job'[a] \in {"failed", "cancelled"} /\ Verdict(a, job'[a])
  BY DEF NotRegistered, linkVars, children
<1>2. Older /\ RemoteLater
  BY <1>1, SameOlder, SameRemote
<1>3. job'[a] = j /\ \A b \in Account : b # a => job'[b] = job[b]
  BY <1>1, MissingTyped
<1>4. registration[a] \notin Going
  BY <1>1, <1>3 DEF Traced, Followed, ChildrenMinded, RegistrationMinded, Worker!Over, Going
<1>5. PICK s \in ItemOver : Verdict(a, s)
  BY <1>1 DEF ItemOver
<1>6. Rewrites /\ (DoomedStays => Minding)
  BY <1>1, <1>2, <1>3, <1>4, <1>5, VerdictMinding
<1>7. \A b \in Account : run'[b] = "linking" => run[b] = "linking"
  BY <1>5, MissingTyped DEF Verdict, At
<1> QED
  BY <1>1, <1>2, <1>6, <1>7, TracedStep

LEMMA StagedRewrites ==
  ASSUME Whole, Whole', NEW a \in Account, NEW stage \in Stages \ {"over"},
         Write([item EXCEPT ![a] = Staged(@, stage)])
  PROVE  /\ Rewrites /\ item'[a].link = item[a].link
         /\ \A b \in Account : b # a => item'[b] = item[b]
<1> DEFINE row == Staged(item[a], stage)
<1>1. item[a] \in Item /\ ItemTypes'
  BY WholeTypes DEF Whole, Inv, Types
<1>2. SameRow(item[a], row)
  BY <1>1, StagedSame
<1>3. Write([item EXCEPT ![a] = row])
  OBVIOUS
<1> HIDE DEF row
<1>4. Rewrites /\ item'[a] = row /\ \A b \in Account : b # a => item'[b] = item[b]
  BY <1>1, <1>2, <1>3, RowRewrites
<1> QED
  BY <1>2, <1>4 DEF SameRow

LEMMA RegisteredTraced ==
  ASSUME Whole, Whole', Traced, NEW a \in Account, Registered(a)
  PROVE  Traced'
<1>1. /\ run[a] = "registration" /\ ~ItemCancelled(a)
      /\ job[a] = "completed" \/ registration[a] = "succeeded"
      /\ UNCHANGED <<extraction, owner, start, boss, flow, context, registration, payment>>
      /\ job' = [job EXCEPT ![a] = "completed"]
      /\ \E stage \in {"link_ready", "link_submitting"}, pc \in {"link", "queueing"} :
           Write([item EXCEPT ![a] = Staged(@, stage)]) /\ run' = [run EXCEPT ![a] = pc]
  BY DEF Registered, Waits, At, children
<1>2. PICK stage \in {"link_ready", "link_submitting"}, pc \in {"link", "queueing"} :
           Write([item EXCEPT ![a] = Staged(@, stage)]) /\ run' = [run EXCEPT ![a] = pc]
  BY <1>1
<1>3. stage \in Stages \ {"over"}
  BY DEF Stages
<1>4. /\ Rewrites /\ item'[a].link = item[a].link
      /\ \A b \in Account : b # a => item'[b] = item[b]
  BY <1>2, <1>3, StagedRewrites
<1>5. Older /\ RemoteLater
  BY <1>1, SameOlder, SameRemote
<1>6. registration[a] \notin Going /\ payment'[<<a, 1>>] \notin Going
  BY <1>1, Behind DEF Going
<1>7. item[a].link # None => extraction[item[a].link] \notin Going
  BY <1>1, NoCalls DEF Traced, Followed, ChildrenMinded, LinkMinded
<1>8. \A b \in Account : b # a => job'[b] = job[b]
  BY <1>1, MissingTyped
<1>9. DoomedStays => Minding
  BY <1>1, <1>2, <1>4, <1>5, <1>6, <1>7, <1>8, IdleMinding
<1>10. \A b \in Account : run'[b] = "linking" => run[b] = "linking"
  BY <1>2, MissingTyped
<1> QED
  BY <1>1, <1>4, <1>5, <1>9, <1>10, TracedStep

LEMMA LinkReadyTraced ==
  ASSUME Whole, Whole', Traced, faults = 0, NEW a \in Account, LinkReady(a)
  PROVE  Traced'
<1>1. /\ run[a] = "link" /\ ~ItemCancelled(a)
      /\ link[a].status = "succeeded"
      /\ UNCHANGED <<extraction, owner, start, job, boss, flow, context, registration, payment>>
      /\ Write([item EXCEPT ![a] = Staged(@, "agreement_submitting")])
      /\ run' = [run EXCEPT ![a] = "paying"]
  BY DEF LinkReady, Waits, At, linkVars
<1>2. "agreement_submitting" \in Stages \ {"over"}
  BY DEF Stages
<1>3. /\ Rewrites /\ item'[a].link = item[a].link
      /\ \A b \in Account : b # a => item'[b] = item[b]
  BY <1>1, <1>2, StagedRewrites
<1>4. Older /\ RemoteLater
  BY <1>1, SameOlder, SameRemote
<1>5. registration[a] \notin Going /\ payment'[<<a, 1>>] \notin Going
  BY <1>1, Behind DEF Going
<1>6. item[a].link # None => extraction[item[a].link] \notin Going
  BY <1>1, LinkOver DEF Traced, Followed, Active
<1>7. DoomedStays => Minding
  BY <1>1, <1>3, <1>4, <1>5, <1>6, IdleMinding
<1>8. \A b \in Account : run'[b] = "linking" => run[b] = "linking"
  BY <1>1, MissingTyped
<1> QED
  BY <1>1, <1>3, <1>4, <1>7, <1>8, TracedStep

LEMMA NotLinkedTraced ==
  ASSUME Whole, Whole', Traced, faults = 0, NEW a \in Account, NotLinked(a)
  PROVE  Traced'
<1>1. /\ run[a] = "link" /\ ~ItemCancelled(a)
      /\ UNCHANGED <<extraction, owner, start, job, boss, context, registration, payment>>
      /\ \/ link[a].task # item[a].link /\ Verdict(a, "failed")
         \/ link[a].status \in {"failed", "cancelled"} /\ Verdict(a, link[a].status)
  BY DEF NotLinked, Throws, Waits, linkVars, children
<1>2. PICK s \in ItemOver : Verdict(a, s)
  BY <1>1 DEF ItemOver
<1>3. /\ Write(Finished(item, a, s)) /\ UNCHANGED flow /\ run' = [run EXCEPT ![a] = "done"] /\ ItemTypes'
  BY <1>2 DEF Verdict, At, Whole, Inv, Types
<1>4. Rewrites /\ \A b \in Account : b # a => item'[b] = item[b]
  BY <1>3, FinishedRewrites
<1>5. item'[a].link = item[a].link
  BY <1>4 DEF Rewrites, SameRow
<1>6. Older /\ RemoteLater
  BY <1>1, SameOlder, SameRemote
<1>7. registration[a] \notin Going /\ payment'[<<a, 1>>] \notin Going
  BY <1>1, Behind DEF Going
<1>8. item[a].link # None => extraction[item[a].link] \notin Going
  BY <1>1, LinkOver DEF Traced, Followed, Active
<1>9. DoomedStays => Minding
  BY <1>1, <1>3, <1>4, <1>5, <1>6, <1>7, <1>8, IdleMinding
<1>10. \A b \in Account : run'[b] = "linking" => run[b] = "linking"
  BY <1>3, MissingTyped
<1> QED
  BY <1>1, <1>4, <1>6, <1>9, <1>10, TracedStep

LEMMA AgreedTraced ==
  ASSUME Whole, Whole', Traced, NEW a \in Account, Agreed(a)
  PROVE  Traced'
<1>1. /\ run[a] = "agreement" /\ ~ItemCancelled(a) /\ context' = [context EXCEPT ![a] = "none"]
      /\ UNCHANGED <<extraction, owner, start, job, boss, registration, payment>>
      /\ context[a] = "live" => payment[<<a, item[a].pay>>] \in {"succeeded", "failed", "cancelled"}
      /\ \E s \in ItemOver : Verdict(a, s)
  BY DEF Agreed, Waits, Agreement!Over, ItemOver, linkVars, children
<1>2. PICK s \in ItemOver : Verdict(a, s)
  BY <1>1
<1>3. /\ Write(Finished(item, a, s)) /\ UNCHANGED flow /\ run' = [run EXCEPT ![a] = "done"] /\ ItemTypes'
  BY <1>2 DEF Verdict, At, Whole, Inv, Types
<1>4. Rewrites /\ \A b \in Account : b # a => item'[b] = item[b]
  BY <1>3, FinishedRewrites
<1>5. item'[a].link = item[a].link
  BY <1>4 DEF Rewrites, SameRow
<1>6. Older /\ RemoteLater
  BY <1>1, SameOlder, SameRemote
<1>7. registration[a] \notin Going /\ payment'[<<a, 1>>] \notin Going
  BY <1>1, Behind DEF Going, Traced, Followed, ChildrenMinded, PaymentMinded
<1>8. item[a].link # None => extraction[item[a].link] \notin Going
  BY <1>1, NoCalls DEF Traced, Followed, ChildrenMinded, LinkMinded
<1>9. \A b \in Account : b # a => context'[b] = context[b]
  BY <1>1 DEF Whole, Contexts
<1>10. DoomedStays => Minding
  BY <1>1, <1>3, <1>4, <1>5, <1>6, <1>7, <1>8, <1>9, IdleMinding
<1>11. \A b \in Account : run'[b] = "linking" => run[b] = "linking"
  BY <1>3, MissingTyped
<1> QED
  BY <1>1, <1>4, <1>6, <1>10, <1>11, TracedStep

LEMMA ContextStopsTraced ==
  ASSUME Whole, Whole', Traced, NEW a \in Account, ContextStops(a)
  PROVE  Traced'
<1>1. /\ run[a] = "agreement" /\ context' = [context EXCEPT ![a] = "stopped"]
      /\ UNCHANGED <<extraction, owner, start, task, item, job, boss, run, flow, registration>>
      /\ IF payment[<<a, item[a].pay>>] = "cancelling" THEN UNCHANGED payment
         ELSE Agreement!Cancel(<<a, item[a].pay>>, {})
  BY DEF ContextStops, linkVars
<1>2. item[a].pay = 1 /\ <<a, 1>> \in Payment
  BY <1>1, Behind DEF Payment
<1>3. RemoteLater /\ payment'[<<a, 1>>] \notin Going
  BY <1>1, <1>2, AgreementLater, SameRemote DEF Going
<1>4. Older /\ Rewrites
  BY <1>1, SameOlder, SameRewrites
<1>5. \A b \in Account : b # a => context'[b] = context[b]
  BY <1>1 DEF Whole, Contexts
<1>6. ASSUME NEW b \in Account, b # a PROVE Steady(b)
  BY <1>1, <1>3, <1>5, <1>6, SteadyItem
<1>7. RegistrationMinded(a)' /\ LinkMinded(a)' /\ PaymentMinded(a)'
  BY <1>1, <1>3 DEF Traced, Followed, ChildrenMinded, RegistrationMinded, LinkMinded, PaymentMinded, Minded
<1>8. DoomedStays => Warned(a)'
  BY <1>1, WarnedStays DEF Traced, Followed
<1>9. DoomedStays => Minding
  BY <1>6, <1>7, <1>8 DEF Minding, ChildrenMinded
<1> QED
  BY <1>1, <1>3, <1>4, <1>9, TracedStep

LEMMA TakeTraced ==
  ASSUME Whole, Whole', Traced, NEW a \in Account, Take(a)
  PROVE  Traced'
<1>1. /\ run[a] = "waiting"
      /\ UNCHANGED <<extraction, owner, start, task, item, job, boss, flow, context, registration, payment>>
      /\ \E pc \in {"done", "registration"} : run' = [run EXCEPT ![a] = pc]
  BY DEF Take, linkVars, children
<1>2. Older /\ RemoteLater /\ Rewrites
  BY <1>1, SameOlder, SameRemote, SameRewrites
<1>3. /\ \A b \in Account : run'[b] = run[b] \/ run[b] = "waiting"
      /\ \A b \in Account : run'[b] = "linking" => run[b] = "linking"
  BY <1>1, MissingTyped
<1>4. Minding
  BY <1>1, <1>2, <1>3 DEF Minding, Steady, RemoteLater
<1> QED
  BY <1>1, <1>2, <1>3, <1>4, TracedStep

\* The batch is free: no other item is at it.
LEMMA StartLinkTraced ==
  ASSUME Whole, Whole', Traced, NEW a \in Account, StartLink(a)
  PROVE  Traced'
<1>1. /\ run[a] = "queueing" /\ run' = [run EXCEPT ![a] = "linking"] /\ start.at = "none"
      /\ start' = [NoStart EXCEPT !.at = "asking", !.account = a, !.by = "pipeline"]
      /\ UNCHANGED <<extraction, owner, task, item, job, boss, flow, context, registration, payment>>
  BY DEF StartLink, Accept, At, children
<1>2. start'.at = "asking" /\ start'.account = a /\ start'.by = "pipeline"
  BY <1>1 DEF NoStart
<1>3. Older /\ RemoteLater /\ Rewrites
  BY <1>1, SameOlder, SameRemote, SameRewrites
<1>4. /\ run'[a] = "linking" /\ \A b \in Account : b # a => run'[b] = run[b]
  BY <1>1, LoopMoved
<1>5. \A b \in Account : Owned(b)'
  BY <1>1, <1>2, <1>4 DEF Traced, Followed, Owned
<1>6. Minding
  BY <1>1, <1>3, <1>4 DEF Minding, Steady, RemoteLater
<1> QED
  BY <1>1, <1>3, <1>5, <1>6, MindingStep

LEMMA PayTraced ==
  ASSUME Whole, Whole', Traced, NEW a \in Account, Pay(a)
  PROVE  Traced'
<1>1. /\ run[a] = "paying" /\ run' = [run EXCEPT ![a] = "paid"]
      /\ UNCHANGED <<extraction, owner, start, task, item, job, boss, flow, context, registration>>
      /\ \E p \in {<<a, 1>>, <<a, 2>>} : Agreement!Submit(p, {})
  BY DEF Pay, NextPayment, At, linkVars
<1>2. Older /\ Rewrites
  BY <1>1, SameOlder, SameRewrites
<1>3. OverIsOver' /\ DoomedStays
  BY <1>2, RewritesLast DEF Traced
<1>4. \A b \in Account : b # a => payment'[<<b, 1>>] = payment[<<b, 1>>]
  BY <1>1 DEF Agreement!Submit, Agreement!Move, Payment
<1>5. /\ run'[a] = "paid" /\ \A b \in Account : b # a => run'[b] = run[b]
  BY <1>1, LoopMoved
<1>6. Bossed'
  BY <1>1 DEF Traced, Bossed
<1>7. \A b \in Account : Owned(b)'
  BY <1>1, <1>5 DEF Traced, Followed, Owned
<1>8. ASSUME NEW b \in Account, b # a PROVE Steady(b)
  BY <1>1, <1>4, <1>5, <1>8 DEF Steady
<1>9. Warned(a)'
  BY <1>1, <1>3, WarnedStays DEF Traced, Followed
<1>10. ChildrenMinded(a)'
  BY <1>1, <1>5 DEF Traced, Followed, ChildrenMinded, RegistrationMinded, LinkMinded, PaymentMinded, Minded
<1> QED
  BY <1>2, <1>3, <1>6, <1>7, <1>8, <1>9, <1>10, TracedBy DEF Minding

--------------------------------------------------------------------------------
(* runTask up to the work on the items.                                       *)

LEMMA BossTraced ==
  ASSUME Whole, Whole', Traced, Insert \/ Refused \/ SubmitsDone \/ Adopted
  PROVE  Traced'
<1>1. /\ UNCHANGED <<extraction, owner, start, task, item, run, flow, context, registration, payment>>
      /\ boss'.missing = boss.missing /\ boss'.at \in {"submitting", "adopting", "working"}
      /\ boss'.at = "working" => boss.missing = {}
      /\ UNCHANGED job \/ boss.at = "creating"
  BY MissingTyped DEF Insert, Refused, SubmitsDone, Adopted, linkVars, children, Whole, Inv, Types, BossTypes
<1>2. Older /\ Rewrites
  BY <1>1, SameOlder, SameRewrites
<1>3. OverIsOver' /\ DoomedStays
  BY <1>2, RewritesLast DEF Traced
<1>4. Bossed'
  BY <1>1 DEF Traced, Bossed
<1>5. \A b \in Account : Owned(b)'
  BY <1>1 DEF Traced, Followed, Owned
<1>6. \A b \in Account : registration'[b] \in Going => job'[b] = job[b]
  BY <1>1 DEF Traced, Bossed, Going
<1>7. Minding
  BY <1>1, <1>6 DEF Minding, Steady
<1> QED
  BY <1>2, <1>3, <1>4, <1>5, <1>7, TracedBy

LEMMA SubmitTraced ==
  ASSUME Whole, Whole', Traced, ~Fault, NEW a \in Account, Submit(a)
  PROVE  Traced'
<1>1. /\ boss.at = "submitting" /\ a \in boss.missing
      /\ UNCHANGED <<extraction, owner, start, task, item, boss, run, flow, context, payment>>
      /\ Worker!Submit(a, {}) /\ job' = [job EXCEPT ![a] = "submitted"]
  BY DEF Submit
<1>2. Older /\ Rewrites
  BY <1>1, SameOlder, SameRewrites
<1>3. OverIsOver' /\ DoomedStays
  BY <1>2, RewritesLast DEF Traced
<1>4. Bossed'
  BY <1>1 DEF Traced, Bossed
<1>5. \A b \in Account : Owned(b)'
  BY <1>1 DEF Traced, Followed, Owned
<1>6. /\ job'[a] = "submitted"
      /\ \A b \in Account : b # a => job'[b] = job[b] /\ registration'[b] = registration[b]
  BY <1>1, MissingTyped DEF Worker!Submit, Worker!Move
<1>7. ASSUME NEW b \in Account, b # a PROVE Steady(b)
  BY <1>1, <1>6, <1>7 DEF Steady
<1>8. Warned(a)'
  BY <1>1, <1>3, WarnedStays DEF Traced, Followed
<1>9. ChildrenMinded(a)'
  BY <1>1, <1>6 DEF Traced, Followed, ChildrenMinded, RegistrationMinded, LinkMinded, PaymentMinded, Minded
<1> QED
  BY <1>2, <1>3, <1>4, <1>5, <1>7, <1>8, <1>9, TracedBy DEF Minding

--------------------------------------------------------------------------------
(* What is learnt late.                                                       *)

\* What is learnt is minded by the open row, or by the late call that knows it.
LEMMA LateMinds ==
  ASSUME Whole, OverIsOver, DoomedStays, NEW a \in Account, Owned(a), Warned(a), NEW row \in Item, Late(a, row),
         item'[a] = row, row.pay \in {0, 1}, UNCHANGED job,
         ~Doomed(a) => row.status \notin ItemOver
  PROVE  /\ Warned(a)'
         /\ \/ /\ Minded(a)' /\ \A w \in Callers : flow[w][a].at = "none"
            \/ /\ flow'["late"][a].at # "none" => flow'["late"][a].pay = row.pay /\ flow'["late"][a].link = row.link
               /\ row.job /\ job[a] = "submitted" => flow'["late"][a].at = "registration"
               /\ row.link # None => flow'["late"][a].at \in {"registration", "link"}
               /\ row.pay # 0 => flow'["late"][a].at # "none"
               /\ flow'["cancel"][a] = flow["cancel"][a]
<1> DEFINE f == Open(Known(a, row))
<1>1. /\ flow'["cancel"][a] = flow["cancel"][a]
      /\ Doomed(a) => flow'["late"][a] = f
      /\ ~Doomed(a) => \A w \in Callers : flow'[w][a] = flow[w][a] /\ flow[w][a].at = "none"
  BY LearntLate
<1>2. /\ f.at # "none" => f.link = row.link /\ f.pay = row.pay
      /\ f.at = "none" => f.pay = 0
      /\ row.job /\ job[a] = "submitted" => f.at = "registration"
      /\ row.link # None => f.at \in {"registration", "link"}
      /\ row.pay # 0 => f.at # "none"
      /\ f.at = "payment" => row.pay # 0
  BY KnownCall
<1> HIDE DEF f
<1>3. CASE Doomed(a)
  <2>1. Doomed(a)'
    BY <1>3 DEF DoomedStays
  <2>2. Warned(a)'
    BY <1>1, <1>2, <1>3, <2>1 DEF Warned, Callers
  <2> QED
    BY <1>1, <1>2, <1>3, <2>2
<1>4. CASE ~Doomed(a)
  BY <1>1, <1>4, WarnedStays DEF Minded, Callers
<1> QED
  BY <1>3, <1>4

LEMMA AdoptTraced ==
  ASSUME Whole, Whole', Traced, NEW a \in Account, Adopt(a)
  PROVE  Traced'
<1> DEFINE s   == Staged(item[a], "registration_wait")
           row == [s EXCEPT !.job = TRUE]
<1>1. /\ UNCHANGED <<extraction, owner, start, job, run, context, registration, payment>>
      /\ boss.at = "adopting" /\ a \in boss.missing /\ flow["late"][a].at = "none"
      /\ boss' = [boss EXCEPT !.missing = @ \ {a}]
      /\ \/ job[a] = "none" /\ Write(Finished(item, a, "failed")) /\ UNCHANGED flow
         \/ Write([item EXCEPT ![a] = row]) /\ Late(a, row)
  BY DEF Adopt, NoLate, linkVars, children
<1>2. boss'.at = "adopting" /\ boss'.missing = boss.missing \ {a}
  BY <1>1 DEF Whole, Inv, Types, BossTypes
<1>3. Older /\ item \in Rows /\ ItemTypes' /\ run[a] = "waiting"
  BY <1>1, SameOlder DEF Whole, Inv, Types, ItemTypes, Idle
<1>4. CASE job[a] = "none" /\ Write(Finished(item, a, "failed")) /\ UNCHANGED flow
  <2>1. "failed" \in ItemOver
    BY DEF ItemOver
  <2>2. Rewrites /\ \A b \in Account : b # a => item'[b] = item[b]
    BY <1>3, <1>4, <2>1, FinishedRewrites
  <2>3. OverIsOver' /\ DoomedStays
    BY <2>2, RewritesLast DEF Traced
  <2>4. \A b \in Account :
          item'[b].link = item[b].link /\ item'[b].pay = item[b].pay /\ item'[b].job = item[b].job
    BY <2>2 DEF Rewrites, SameRow
  <2>5. Bossed'
    BY <1>1, <1>2, <2>4, MissingTyped DEF Traced, Bossed
  <2>6. \A b \in Account : Owned(b)'
    BY <1>1, <2>4, OwnedStays DEF Traced, Followed
  <2>7. ASSUME NEW b \in Account, b # a PROVE Steady(b)
    BY <1>1, <1>2, <1>4, <2>2, <2>7 DEF Steady
  <2>8. registration[a] \notin Going
    BY <1>4 DEF Traced, Followed, ChildrenMinded, RegistrationMinded
  <2>9. Warned(a)'
    BY <1>4, <2>3, WarnedStays DEF Traced, Followed
  <2>10. ChildrenMinded(a)'
    BY <1>1, <1>3, <1>4, <2>4, <2>8, LinkAged
    DEF Traced, Followed, ChildrenMinded, RegistrationMinded, LinkMinded, PaymentMinded
  <2> QED
    BY <1>3, <2>3, <2>5, <2>6, <2>7, <2>9, <2>10, TracedBy DEF Minding
<1>5. CASE Write([item EXCEPT ![a] = row]) /\ Late(a, row)
  <2>1. item[a] \in Item /\ "registration_wait" \in Stages \ {"over"}
    BY <1>3, RowFields DEF Stages
  <2>2. /\ SameRow(item[a], s) /\ s \in Item
        /\ item[a].status \in {"queued", "running"} => s.status = "running"
        /\ item[a].status \notin {"queued", "running"} => s = item[a]
    BY <2>1, StagedSame
  <2> HIDE DEF s
  <2>3. /\ row \in Item /\ row.job /\ row.link = item[a].link /\ row.pay = item[a].pay
        /\ row.status = s.status
    BY <2>2 DEF Item, SameRow
  <2> HIDE DEF row
  <2>4. /\ item[a].status \in ItemOver => row.status \in ItemOver
        /\ item[a].status = "cancel_requested" => row.status \in ItemOver \cup {"cancel_requested"}
        /\ item[a].status \notin ItemOver => row.status \notin ItemOver
    BY <2>2, <2>3 DEF SameRow, ItemOver
  <2>5. item'[a] = row /\ \A b \in Account : b # a => item'[b] = item[b]
    BY <1>3, <1>5 DEF Write, Rows
  <2>6. OverIsOver' /\ DoomedStays
    BY <1>3, <1>5, <2>4, <2>5, WholeTypes, DoomLasts DEF Write, Traced, ItemTypes
  <2>7. Bossed'
    BY <1>1, <1>2, <2>5, MissingTyped DEF Traced, Bossed
  <2>8. \A b \in Account : item'[b].link = item[b].link /\ item'[b].pay = item[b].pay
    BY <2>3, <2>5
  <2>9. \A b \in Account : Owned(b)'
    BY <1>1, <2>8, OwnedStays DEF Traced, Followed
  <2>10. Owned(a) /\ Warned(a) /\ ChildrenMinded(a) /\ OverIsOver
    BY DEF Traced, Followed
  <2>11. \A b \in Account, w \in Callers : b # a => flow'[w][b] = flow[w][b]
    BY <1>5, <2>10, LearntLate
  <2>12. ASSUME NEW b \in Account, b # a PROVE Steady(b)
    BY <1>1, <1>2, <2>5, <2>11, <2>12 DEF Steady
  <2>13. row.pay \in {0, 1} /\ (~Doomed(a) => row.status \notin ItemOver)
    BY <2>3, <2>4, <2>10 DEF Owned, Doomed
  <2>14. /\ Warned(a)'
         /\ \/ /\ Minded(a)' /\ \A w \in Callers : flow[w][a].at = "none"
            \/ /\ job[a] = "submitted" => flow'["late"][a].at = "registration"
               /\ flow'["cancel"][a] = flow["cancel"][a]
    BY <1>1, <1>5, <2>3, <2>5, <2>6, <2>10, <2>13, LateMinds
  <2>15. RegistrationMinded(a)'
    BY <1>1, <2>3, <2>5, <2>10, <2>14 DEF ChildrenMinded, RegistrationMinded, Callers
  <2>16. LinkMinded(a)'
    BY <1>1, <1>3, <2>8, <2>10, <2>14, LinkAged DEF ChildrenMinded, LinkMinded, Callers
  <2>17. PaymentMinded(a)'
    BY <1>1, <1>3, <2>8, <2>10, <2>14 DEF ChildrenMinded, PaymentMinded, Callers
  <2> QED
    BY <1>3, <2>6, <2>7, <2>9, <2>12, <2>14, <2>15, <2>16, <2>17, TracedBy DEF Minding, ChildrenMinded
<1> QED
  BY <1>1, <1>4, <1>5

LEMMA LinkStartedTraced ==
  ASSUME Whole, Whole', Traced, NEW a \in Account, LinkStarted(a)
  PROVE  Traced'
<1> DEFINE s   == Staged(item[a], "link_wait")
           row == [s EXCEPT !.link = start.task]
<1>1. /\ UNCHANGED <<extraction, owner, job, boss, context, registration, payment>>
      /\ run[a] = "linking" /\ run' = [run EXCEPT ![a] = "link"]
      /\ start.at = "answered" /\ start' = NoStart
      /\ Write([item EXCEPT ![a] = row]) /\ Late(a, row)
  BY DEF LinkStarted, Started, StartDone, At, children
<1>2. Older /\ item \in Rows /\ ItemTypes' /\ NoStart.at = "none"
  BY <1>1, SameOlder DEF Whole, Inv, Types, ItemTypes, NoStart
<1>3. Owned(a) /\ Warned(a) /\ ChildrenMinded(a) /\ OverIsOver
  BY DEF Traced, Followed
<1>4. start.task \in Extraction /\ owner[start.task] = a
  BY <1>1, <1>3 DEF Owned, Whole, LinkInv, Turn
<1>5. item[a] \in Item /\ "link_wait" \in Stages \ {"over"}
  BY <1>2, RowFields DEF Stages
<1>6. /\ SameRow(item[a], s) /\ s \in Item
      /\ item[a].status \in {"queued", "running"} => s.status = "running"
      /\ item[a].status \notin {"queued", "running"} => s = item[a]
  BY <1>5, StagedSame
<1> HIDE DEF s
<1>7. /\ row \in Item /\ row.job = item[a].job /\ row.link = start.task /\ row.pay = item[a].pay
      /\ row.status = s.status
  BY <1>4, <1>6 DEF Item, SameRow
<1> HIDE DEF row
<1>8. /\ item[a].status \in ItemOver => row.status \in ItemOver
      /\ item[a].status = "cancel_requested" => row.status \in ItemOver \cup {"cancel_requested"}
      /\ item[a].status \notin ItemOver => row.status \notin ItemOver
  BY <1>6, <1>7 DEF SameRow, ItemOver
<1>9. item'[a] = row /\ \A b \in Account : b # a => item'[b] = item[b]
  BY <1>1, <1>2 DEF Write, Rows
<1>10. OverIsOver' /\ DoomedStays
  BY <1>1, <1>2, <1>8, <1>9, WholeTypes, DoomLasts DEF Write, Traced, ItemTypes
<1>11. Bossed'
  BY <1>1, <1>7, <1>9, MissingTyped DEF Traced, Bossed
<1>12. run'[a] = "link" /\ \A b \in Account : b # a => run'[b] = run[b]
  BY <1>1, LoopMoved
<1>13. ASSUME NEW b \in Account PROVE Owned(b)'
  <2>1. Owned(b) /\ run'[b] # "linking"
    BY <1>1, <1>3, <1>12 DEF Traced, Followed, Owned
  <2> QED
    BY <1>1, <1>2, <1>3, <1>4, <1>7, <1>9, <2>1 DEF Owned
<1>14. \A b \in Account, w \in Callers : b # a => flow'[w][b] = flow[w][b]
  BY <1>1, <1>3, LearntLate
<1>15. ASSUME NEW b \in Account, b # a PROVE Steady(b)
  BY <1>1, <1>9, <1>12, <1>14, <1>15 DEF Steady
<1>16. row.pay \in {0, 1} /\ (~Doomed(a) => row.status \notin ItemOver)
  BY <1>3, <1>7, <1>8 DEF Owned, Doomed
<1>17. /\ Warned(a)'
       /\ \/ Minded(a)'
          \/ /\ flow'["late"][a].at # "none" => flow'["late"][a].link = row.link
             /\ row.link # None => flow'["late"][a].at \in {"registration", "link"}
  BY <1>1, <1>3, <1>7, <1>9, <1>10, <1>16, LateMinds
<1>18. LinkMinded(a)'
  BY <1>9, <1>12, <1>17 DEF LinkMinded, Callers
<1>19. registration[a] \notin Going /\ payment[<<a, 1>>] \notin Going
  BY <1>1, Behind DEF Going
<1>20. RegistrationMinded(a)' /\ PaymentMinded(a)'
  BY <1>1, <1>19 DEF RegistrationMinded, PaymentMinded
<1> QED
  BY <1>2, <1>10, <1>11, <1>13, <1>15, <1>17, <1>18, <1>20, TracedBy DEF Minding, ChildrenMinded

LEMMA PaidTraced ==
  ASSUME Whole, Whole', Traced, NEW a \in Account, Paid(a)
  PROVE  Traced'
<1> DEFINE s   == Staged(item[a], "agreement_wait")
           row == [s EXCEPT !.pay = Submissions(a)]
<1>1. /\ UNCHANGED <<extraction, owner, start, job, boss, registration, payment>>
      /\ run[a] = "paid" /\ run' = [run EXCEPT ![a] = "agreement"]
      /\ context' = [context EXCEPT ![a] = "live"]
      /\ Write([item EXCEPT ![a] = row]) /\ Late(a, row)
  BY DEF Paid, At, linkVars, children
<1>2. Older /\ item \in Rows /\ ItemTypes'
  BY <1>1, SameOlder DEF Whole, Inv, Types, ItemTypes
<1>3. Owned(a) /\ Warned(a) /\ ChildrenMinded(a) /\ OverIsOver
  BY DEF Traced, Followed
<1>4. Submissions(a) = 1
  BY <1>1, Counted DEF Whole, Inv, PaidOnce
<1>5. item[a] \in Item /\ "agreement_wait" \in Stages \ {"over"}
  BY <1>2, RowFields DEF Stages
<1>6. /\ SameRow(item[a], s) /\ s \in Item
      /\ item[a].status \in {"queued", "running"} => s.status = "running"
      /\ item[a].status \notin {"queued", "running"} => s = item[a]
  BY <1>5, StagedSame
<1> HIDE DEF s
<1>7. /\ row \in Item /\ row.job = item[a].job /\ row.link = item[a].link /\ row.pay = 1
      /\ row.status = s.status
  BY <1>4, <1>6 DEF Item, SameRow
<1> HIDE DEF row
<1>8. /\ item[a].status \in ItemOver => row.status \in ItemOver
      /\ item[a].status = "cancel_requested" => row.status \in ItemOver \cup {"cancel_requested"}
      /\ item[a].status \notin ItemOver => row.status \notin ItemOver
  BY <1>6, <1>7 DEF SameRow, ItemOver
<1>9. item'[a] = row /\ \A b \in Account : b # a => item'[b] = item[b]
  BY <1>1, <1>2 DEF Write, Rows
<1>10. OverIsOver' /\ DoomedStays
  BY <1>1, <1>2, <1>8, <1>9, WholeTypes, DoomLasts DEF Write, Traced, ItemTypes
<1>11. Bossed'
  BY <1>1, <1>7, <1>9, MissingTyped DEF Traced, Bossed
<1>12. run'[a] = "agreement" /\ \A b \in Account : b # a => run'[b] = run[b]
  BY <1>1, LoopMoved
<1>13. \A b \in Account : Owned(b)'
  BY <1>1, <1>7, <1>9, <1>12 DEF Traced, Followed, Owned
<1>14. \A b \in Account, w \in Callers : b # a => flow'[w][b] = flow[w][b]
  BY <1>1, <1>3, LearntLate
<1>15. context'[a] = "live" /\ \A b \in Account : b # a => context'[b] = context[b]
  BY <1>1 DEF Whole, Contexts
<1>16. ASSUME NEW b \in Account, b # a PROVE Steady(b)
  BY <1>1, <1>9, <1>12, <1>14, <1>15, <1>16 DEF Steady
<1>17. ~Doomed(a) => row.status \notin ItemOver
  BY <1>8 DEF Doomed
<1>18. /\ Warned(a)'
       /\ \/ Minded(a)' /\ \A w \in Callers : flow[w][a].at = "none"
          \/ /\ flow'["late"][a].at # "none" =>
                  flow'["late"][a].pay = 1 /\ flow'["late"][a].link = item[a].link
             /\ item[a].link # None => flow'["late"][a].at \in {"registration", "link"}
             /\ flow'["late"][a].at # "none"
  BY <1>1, <1>3, <1>7, <1>9, <1>10, <1>17, LateMinds
<1>19. registration[a] \notin Going
  BY <1>1, Behind DEF Going
<1>20. RegistrationMinded(a)'
  BY <1>1, <1>19 DEF RegistrationMinded
<1>21. LinkMinded(a)'
  BY <1>1, <1>3, <1>7, <1>9, <1>18 DEF ChildrenMinded, LinkMinded, Callers
<1>22. PaymentMinded(a)'
  BY <1>7, <1>9, <1>12, <1>15, <1>18 DEF PaymentMinded, Callers
<1> QED
  BY <1>2, <1>10, <1>11, <1>13, <1>16, <1>18, <1>20, <1>21, <1>22, TracedBy DEF Minding, ChildrenMinded

--------------------------------------------------------------------------------
(* The cancel, and what the services and the users of the accounts do.        *)

LEMMA CancelTraced ==
  ASSUME Whole, Whole', Traced, Cancel
  PROVE  Traced'
<1>1. /\ UNCHANGED <<extraction, owner, start, job, boss, run, context, registration, payment>>
      /\ item' = Marked(item) /\ task' = Recompute("cancel_requested", item')
  BY DEF Cancel, Cancelled, linkVars, children
<1>2. item \in Rows /\ item' \in Rows /\ flow \in [Callers -> [Account -> Flow]]
  BY WholeTypes DEF ItemTypes, Whole, Inv, Types, Calls
<1>3. Older /\ RemoteLater
  BY <1>1, SameOlder, SameRemote
<1>4. \A b \in Account : item[b].status \in Active \cup ItemOver /\ Active \cap ItemOver = {}
  BY <1>2, RowFields DEF Active, ItemOver
<1>5. ASSUME NEW b \in Account
      PROVE  SameRow(item[b], item'[b]) /\ item'[b].status \in ItemOver \cup {"cancel_requested"}
  <2>1. "cancelled" \in ItemOver /\ item[b] \in Item
    BY <1>2, RowFields DEF ItemOver
  <2>2. CASE item[b].status \notin Active
    BY <1>1, <1>4, <2>2 DEF Marked, SameRow
  <2>3. CASE item[b].status \in Active /\ Known(b, item[b]).at = "over"
    <3>1. item'[b] = Finished(item, b, "cancelled")[b]
      BY <1>1, <2>3 DEF Marked
    <3> QED
      BY <1>2, <2>1, <3>1, FinishedRow
  <2>4. CASE item[b].status \in Active /\ Known(b, item[b]).at # "over"
    <3>1. item'[b] = [item[b] EXCEPT !.status = "cancel_requested"]
      BY <1>1, <2>4 DEF Marked
    <3> QED
      BY <1>4, <2>1, <2>4, <3>1 DEF Item, SameRow
  <2> QED
    BY <2>2, <2>3, <2>4
<1>6. Rewrites
  BY <1>1, <1>2, <1>5 DEF Rewrites
<1>7. \A b \in Account : Doomed(b)'
  BY <1>5 DEF Doomed
<1>8. ASSUME NEW b \in Account
      PROVE  /\ flow'["late"][b] = flow["late"][b]
             /\ flow'["cancel"][b] = IF Minded(b) THEN Open(Known(b, item[b])) ELSE flow["cancel"][b]
  <2>1. /\ flow'["late"][b] = flow["late"][b]
        /\ flow'["cancel"][b] = IF item[b].status \in Active /\ flow["cancel"][b].at = "none"
                                THEN Open(Known(b, item[b])) ELSE flow["cancel"][b]
    BY <1>2 DEF Cancel, Cancelled, Callers
  <2> QED
    BY <1>4, <2>1 DEF Minded
<1>9. ASSUME DoomedStays, NEW b \in Account PROVE Warned(b)' /\ ChildrenMinded(b)'
  <2>1. Followed(b)
    BY DEF Traced
  <2>2. item'[b].link = item[b].link /\ item'[b].pay = item[b].pay /\ item'[b].job = item[b].job
    BY <1>5 DEF SameRow
  <2> QED
    BY <1>1, <1>3, <1>7, <1>8, <1>9, <2>1, <2>2, AskedFollowed
<1> QED
  BY <1>1, <1>3, <1>6, <1>9, TracedStep DEF Minding

LEMMA RemoteTraced ==
  ASSUME Whole, Whole', Traced, RemoteWorks, UNCHANGED <<task, item, loops>>
  PROVE  Traced'
<1>1. UNCHANGED <<owner, start, task, item, job, boss, run, flow, context>>
  BY DEF RemoteWorks, ExtractorWorks, linkVars, loops
<1>2. CASE \E a \in Account : Worker!Work(a) /\ UNCHANGED <<linkVars, payment, paidLink>>
  <2>1. UNCHANGED extraction
    BY <1>2 DEF linkVars
  <2>2. Older /\ RemoteLater
    BY <1>2, <2>1, SameOlder, WorkerLater
  <2> QED
    BY <1>1, <2>2, SameRewrites, SteadyItem, TracedStep DEF Minding
<1>3. CASE \E p \in Payment : Agreement!Work(p) /\ UNCHANGED <<linkVars, registration, paidLink>>
  <2>1. UNCHANGED extraction
    BY <1>3 DEF linkVars
  <2>2. Older /\ RemoteLater
    BY <1>3, <2>1, SameOlder, AgreementLater
  <2> QED
    BY <1>1, <2>2, SameRewrites, SteadyItem, TracedStep DEF Minding
<1>4. CASE \E e \in Extraction : ExtractorWorks(e) /\ UNCHANGED children
  <2>1. Older
    BY <1>4, WorkKeeps, AgedIsOlder DEF Whole
  <2>2. RemoteLater
    BY <1>4, SameRemote DEF children
  <2> QED
    BY <1>1, <2>1, <2>2, SameRewrites, SteadyItem, TracedStep DEF Minding
<1> QED
  BY <1>2, <1>3, <1>4 DEF RemoteWorks

LEMMA ServiceTraced ==
  ASSUME Whole, Whole', Traced, Starts \/ LinkService, UNCHANGED <<task, item, loops, children>>
  PROVE  Traced'
<1>1. UNCHANGED <<task, item, job, boss, run, flow, context, registration, payment>>
  BY DEF loops, children
<1>2. RemoteLater /\ Rewrites /\ \A b \in Account : Steady(b)
  BY <1>1, SameRemote, SameRewrites, SteadyItem
<1>3. LinkInv /\ LinkTypes /\ StartTypes
  BY WholeTypes DEF Whole
<1>4. \A b \in Account : Owned(b)
  BY DEF Traced, Followed
<1> SUFFICES Older /\ \A b \in Account : Owned(b)'
  BY <1>1, <1>2, MindingStep DEF Minding
<1>5. UNCHANGED <<owner, start>> => \A b \in Account : Owned(b)'
  BY <1>1, <1>4, OwnedStays
\* Whoever is linking has the batch.
<1>6. start'.at = "none" /\ (start.at = "none" \/ start.by = "user") /\ UNCHANGED owner =>
        \A b \in Account : Owned(b)'
  BY <1>1, <1>4 DEF Owned
<1>7. ASSUME NEW e \in Extraction, Submitted(e) PROVE Older /\ \A b \in Account : Owned(b)'
  <2>1. Older
    BY <1>3, <1>7, SubmittedKeeps DEF Older, Taken, Unstopped
  <2>2. /\ extraction[e] = "none" /\ start.at = "asking"
        /\ owner' = [owner EXCEPT ![e] = start.account]
        /\ start' = [start EXCEPT !.at = "answered", !.task = e]
    BY <1>7 DEF Submitted, Extractor!Submit
  <2>3. start'.at = "answered" /\ start'.task = e /\ start'.account = start.account /\ start'.by = start.by
    BY <1>3, <2>2 DEF StartTypes, Starting
  <2>4. ASSUME NEW b \in Account PROVE Owned(b)'
    <3>1. item[b].link # None => item[b].link # e /\ item[b].link \in Extraction
      BY <2>2, WholeTypes DEF Whole, ItemLinks, Taken
    <3>2. item[b].link # None => owner'[item[b].link] = owner[item[b].link]
      BY <1>3, <2>2, <3>1 DEF LinkTypes
    <3> QED
      BY <1>1, <1>4, <2>2, <2>3, <3>1, <3>2 DEF Owned
  <2> QED
    BY <2>1, <2>4
<1>8. CASE start.by = "user" /\ (Started \/ NotStarted)
  <2>1. UNCHANGED <<extraction, owner>> /\ start' = NoStart
    BY <1>8 DEF Started, NotStarted, StartDone
  <2> QED
    BY <1>6, <1>8, <2>1, SameOlder DEF NoStart
<1>9. ASSUME NEW a \in Account, Accept(a, "user") PROVE Older /\ \A b \in Account : Owned(b)'
  <2>1. /\ UNCHANGED <<extraction, owner>> /\ start.at = "none"
        /\ start' = [NoStart EXCEPT !.at = "asking", !.account = a, !.by = "user"]
    BY <1>9 DEF Accept
  <2>2. start'.at = "asking"
    BY <2>1 DEF NoStart
  <2> QED
    BY <1>1, <1>4, <2>1, <2>2, SameOlder DEF Owned
<1>10. ASSUME NEW a \in Account,
              BeginDelete(a) \/ EndDelete(a) \/ Ask(a) \/ Heard(a) \/ Missing(a) \/ PollFails(a) \/ Expire(a)
       PROVE  Older /\ \A b \in Account : Owned(b)'
  <2>1. UNCHANGED <<extraction, owner, start>>
    BY <1>10 DEF BeginDelete, EndDelete, Ask, Heard, Missing, PollFails, Expire
  <2> QED
    BY <1>5, <2>1, SameOlder
<1>11. ASSUME NEW a \in Account, TimedOut(a) PROVE Older /\ \A b \in Account : Owned(b)'
  <2>1. UNCHANGED <<owner, start>> /\ tracker[a].task \in Extraction
    BY <1>3, <1>11, TrackerFields DEF TimedOut
  <2>2. Aged
    BY <1>3, <1>11, <2>1, CancelAges, SameAge DEF TimedOut
  <2> QED
    BY <1>5, <2>1, <2>2, AgedIsOlder
<1>12. ASSUME NEW e \in Extraction, ExtractorForgets(e) PROVE Older /\ \A b \in Account : Owned(b)'
  <2>1. UNCHANGED <<owner, start>>
    BY <1>12 DEF ExtractorForgets
  <2> QED
    BY <1>3, <1>5, <1>12, <2>1, WorkKeeps, AgedIsOlder
<1> QED
  BY <1>7, <1>8, <1>9, <1>10, <1>11, <1>12 DEF Starts, LinkService, Tracks

LEMMA StutterTraced ==
  ASSUME Whole, Whole', Traced, UNCHANGED vars
  PROVE  Traced'
<1>1. /\ UNCHANGED <<extraction, owner, start, task, item, job, boss, run, flow, context,
                     registration, payment>>
  BY DEF vars, linkVars, loops, children
<1>2. Older /\ RemoteLater /\ Rewrites
  BY <1>1, SameOlder, SameRemote, SameRewrites
<1> QED
  BY <1>1, <1>2, SteadyItem, TracedStep DEF Minding

LEMMA InitTraced == Init => Traced
<1> SUFFICES ASSUME Init PROVE Traced
  OBVIOUS
<1>1. boss.at = "creating" /\ boss.missing = Account /\ start.at = "none" /\ task = "running"
  BY DEF Init, LinkInit, NoStart
<1>2. ASSUME NEW a \in Account
      PROVE  /\ registration[a] = "none" /\ payment[<<a, 1>>] = "none" /\ run[a] = "waiting"
             /\ item[a].link = None /\ item[a].pay = 0 /\ ~item[a].job
             /\ \A w \in Callers : flow[w][a].at = "none" /\ flow[w][a].pay = 0
  BY DEF Init, Worker!Init, Agreement!Init, Payment, NoFlow
<1>3. Bossed /\ OverIsOver
  BY <1>1, <1>2 DEF Bossed, OverIsOver, TaskOver
<1>4. ASSUME NEW a \in Account PROVE Followed(a)
  BY <1>1, <1>2
  DEF Followed, Owned, Warned, ChildrenMinded, RegistrationMinded, LinkMinded, PaymentMinded, Going
<1> QED
  BY <1>3, <1>4 DEF Traced

\* Failures are counted, and so is a restart.
LEMMA QuietBefore ==
  ASSUME Whole, Whole', [Next]_vars, faults' = 0
  PROVE  faults = 0 /\ ~Fault /\ ~Restart
<1>1. faults \in Nat /\ (Fault => faults' # 0)
  BY WholeTypes, Faults, Assumed DEF LinkTypes
<1>2. ~Fault /\ ~Restart
  BY <1>1 DEF Restart, Reboot
<1>3. ASSUME Bosses \/ Refused \/ Cancel PROVE UNCHANGED faults
  BY <1>2, <1>3
  DEF Bosses, Refused, Insert, SubmitsDone, Adopted, Submit, Adopt, Take, Cancel, linkVars
<1>4. ASSUME NEW a \in Account, Runs(a) \/ StartLink(a) \/ ContextStops(a) PROVE UNCHANGED faults
  BY <1>2, <1>4
  DEF Runs, Overtaken, Registered, NotRegistered, LinkRefused, LinkStarted, Started, LinkFails, NotStarted,
      LinkReady, NotLinked, Pay, Paid, PayFails, Agreed, StartLink, Accept, ContextStops, linkVars
<1>5. ASSUME NEW a \in Account, NEW w \in Callers, Flows(w, a) PROVE UNCHANGED faults
  BY <1>2, <1>5 DEF Flows, FlowRegistration, FlowLink, FlowAnswered, FlowPayment, linkVars
<1>6. ASSUME RemoteWorks PROVE UNCHANGED faults
  BY <1>6 DEF RemoteWorks, ExtractorWorks, linkVars
<1>7. ASSUME Starts \/ LinkService PROVE UNCHANGED faults
  BY <1>2, <1>7
  DEF Starts, Submitted, Started, NotStarted, LinkService, Accept, BeginDelete, EndDelete, Tracks, Ask, Heard,
      Missing, TimedOut, PollFails, Expire, ExtractorForgets
<1>8. UNCHANGED vars => UNCHANGED faults
  BY DEF vars, linkVars
<1>9. UNCHANGED faults
  BY <1>2, <1>3, <1>4, <1>5, <1>6, <1>7, <1>8 DEF Next
<1> QED
  BY <1>2, <1>9

LEMMA NextTraced == Whole /\ StrayInv /\ [Next]_vars => StrayInv'
<1> SUFFICES ASSUME Whole, StrayInv, [Next]_vars, faults' = 0 PROVE Traced'
  BY DEF StrayInv, Traced
<1>1. Whole'
  BY NextWhole
<1>2. faults = 0 /\ ~Fault /\ ~Restart
  BY <1>1, QuietBefore
<1>3. Traced
  BY <1>2 DEF StrayInv, Traced
<1>4. CASE Bosses \/ Refused
  BY <1>1, <1>2, <1>3, <1>4, BossTraced, SubmitTraced, AdoptTraced, TakeTraced DEF Bosses
<1>5. CASE Cancel
  BY <1>1, <1>3, <1>5, CancelTraced
<1>6. ASSUME NEW a \in Account, Runs(a) PROVE Traced'
  BY <1>1, <1>2, <1>3, <1>6, EndsTraced, RegisteredTraced, NotRegisteredTraced, LinkStartedTraced,
     LinkFailsTraced, LinkReadyTraced, NotLinkedTraced, PayTraced, PaidTraced, AgreedTraced DEF Runs
<1>7. ASSUME NEW a \in Account, StartLink(a) \/ ContextStops(a) PROVE Traced'
  BY <1>1, <1>3, <1>7, StartLinkTraced, ContextStopsTraced
<1>8. ASSUME NEW a \in Account, NEW w \in Callers, Flows(w, a) PROVE Traced'
  BY <1>1, <1>2, <1>3, <1>8, FlowRegistrationTraced, FlowLinkTraced, FlowAnsweredTraced,
     FlowPaymentTraced DEF Flows
<1>9. CASE RemoteWorks /\ UNCHANGED <<task, item, loops>>
  BY <1>1, <1>3, <1>9, RemoteTraced
<1>10. CASE (Starts \/ LinkService) /\ UNCHANGED <<task, item, loops, children>>
  BY <1>1, <1>3, <1>10, ServiceTraced
<1>11. CASE UNCHANGED vars
  BY <1>1, <1>3, <1>11, StutterTraced
<1> QED
  BY <1>2, <1>4, <1>5, <1>6, <1>7, <1>8, <1>9, <1>10, <1>11 DEF Next

\* cancelKnownChildren and its late calls: in every pipeline, while no request
\* fails and the hub is not restarted, nothing goes on, untold, for an item that
\* is over and that no loop and no call works for.
THEOREM NoChildAstray == Spec => []NoStrayChild
<1>1. Whole /\ StrayInv => NoStrayChild
  <2> SUFFICES ASSUME Whole, StrayInv, NEW a \in Account,
                      faults = 0, item[a].status \in ItemOver,
                      boss.at = "working", run[a] \in {"waiting", "done"},
                      \A w \in Callers : flow[w][a].at = "none"
               PROVE  /\ registration[a] \notin {"queued", "running"}
                      /\ item[a].link # None => extraction[item[a].link] \notin {"queued", "running"}
                      /\ \A n \in {1, 2} : payment[<<a, n>>] \notin {"queued", "running"}
    BY DEF NoStrayChild
  <2>1. Bossed /\ ChildrenMinded(a) /\ ~Minded(a)
    BY DEF StrayInv, Traced, Followed, Minded
  <2>2. registration[a] \notin Going
    BY <2>1 DEF Bossed, ChildrenMinded, RegistrationMinded
  <2>3. item[a].link # None => extraction[item[a].link] \notin Going
    BY <2>1 DEF ChildrenMinded, LinkMinded
  <2>4. payment[<<a, 1>>] \notin Going /\ payment[<<a, 2>>] = "none"
    BY <2>1 DEF ChildrenMinded, PaymentMinded, Whole, Inv, PaidOnce
  <2> QED
    BY <2>2, <2>3, <2>4 DEF Going
<1>2. Init => StrayInv
  BY InitTraced DEF StrayInv, Traced
<1> QED
  BY <1>1, <1>2, NextTraced, WholeHolds, PTL DEF Spec
================================================================================
