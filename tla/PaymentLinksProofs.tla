--------------------------- MODULE PaymentLinksProofs ---------------------------
(***************************************************************************)
(* What each operation of PaymentLinks keeps, for any accounts,            *)
(* extractions and failures, whoever calls it: IcPipelineProofs composes   *)
(* these lemmas with the pipeline that shares the rows.                    *)
(*                                                                         *)
(* Exclusive is the point: without failures an extraction that nobody      *)
(* stopped is held, by the batch that submitted it or by the active row of *)
(* its account, either of which refuses another one.  It rests on the turn *)
(* of the batch, whose account is reserved but not for a deletion, and on  *)
(* answers that are old when they are heard: one that lets a row end is    *)
(* about an extraction that cannot start to run again.                     *)
(***************************************************************************)
EXTENDS PaymentLinks, FiniteSetTheorems, TLAPS

Unstopped(e) == extraction[e] \in {"queued", "running"}
Taken(e)     == extraction[e] # "none"

Turn ==
  /\ start.at # "none" => start.account \in reserved \ deleting
  /\ start.at = "answered" =>
       start.task \in Extraction /\ owner[start.task] = start.account /\ Taken(start.task)

Existing ==
  \A a \in Account :
    /\ link[a].task # None => Taken(link[a].task)
    /\ tracker[a].at # "none" => tracker[a].task \in Extraction /\ Taken(tracker[a].task)

HeardLate ==
  \A a \in Account :
    tracker[a].at = "answered" /\ tracker[a].answer \notin Active => ~Unstopped(tracker[a].task)

\* The batch has e, or the row of its account a.
Held(e, a) ==
  /\ a \in Account \ (deleting \cup deleted)
  /\ \/ start.at = "answered" /\ start.task = e
     \/ /\ start.at = "none" \/ start.account # a
        /\ link[a].task = e /\ link[a].status \in Active

Exclusive == faults = 0 => \A e \in Extraction : Unstopped(e) => Held(e, owner[e])

LinkInv == LinkTypeOK /\ Turn /\ Existing /\ HeardLate /\ Exclusive

--------------------------------------------------------------------------------
(* Types.                                                                     *)

States   == Extractor!Working \cup Extractor!Over \cup {"none", "gone"}
Starting == [at : {"none", "asking", "answered"}, account : Account \cup {None},
             task : Extraction \cup {None}, by : {"user", "pipeline"}]
Tracker  == [at : {"none", "polling", "answered", "expired"}, task : Extraction \cup {None},
             answer : Answers, failures : 0 .. Patience - 1]

\* The parts of LinkTypeOK, each by a name
LinkTypes ==
  /\ extraction \in [Extraction -> States] /\ owner \in [Extraction -> Account \cup {None}]
  /\ link \in [Account -> Row] /\ start \in Starting /\ tracker \in [Account -> Tracker]
  /\ faults \in 0 .. MaxFaults

Sets == deleted \subseteq Account /\ deleting \subseteq reserved /\ reserved \subseteq Account

LEMMA TypesNamed == LinkTypeOK <=> LinkTypes /\ Sets
BY DEF LinkTypeOK, LinkTypes, Sets, States, Starting, Tracker

LEMMA Assumed ==
  /\ None \notin Extraction /\ Payable \subseteq Extraction /\ Forgettable \subseteq Extraction
  /\ Patience \in Nat \ {0} /\ MaxFaults \in Nat
BY LinksAssumption

\* Requests that fail are counted.
LEMMA Faults ==
  ASSUME LinkTypes
  PROVE  /\ Fault => faults' \in 0 .. MaxFaults /\ faults' # 0 /\ faults' # faults
         /\ UNCHANGED faults => faults' \in 0 .. MaxFaults
BY Assumed DEF LinkTypes, Fault

LEMMA RowTypes ==
  ASSUME NEW row \in Row, NEW e, NEW status \in Answers \ {"missing"}
  PROVE  /\ Applied(row, e, status) \in Row /\ Applied(row, e, status).task = row.task
         /\ Applied(row, e, status).status \in {row.status, status, "failed"}
         /\ row.status \in Active =>
              \/ Applied(row, e, status).status \in Active
              \/ row.task \in {e, None} /\ status \in Settled
<1> DEFINE s == IF status = "succeeded" /\ e \notin Payable THEN "failed" ELSE status
           as == row.status = "absent" \/ row.task \notin {e, None}
<1>1. Applied(row, e, status) = IF as THEN row ELSE [row EXCEPT !.status = s]
  BY DEF Applied
<1>2. s \in {status, "failed"} /\ (status \in Active => s \in Active) /\ s \in Active \cup Settled
  BY DEF Answers, Active, Settled
<1> HIDE DEF s
<1>3. CASE as
  BY <1>1, <1>3 DEF Active
<1>4. CASE ~as
  <2>1. Applied(row, e, status) = [row EXCEPT !.status = s]
    BY <1>1, <1>4
  <2>2. [row EXCEPT !.status = s] \in Row
    BY <1>2 DEF Row
  <2>3. [row EXCEPT !.status = s].task = row.task /\ [row EXCEPT !.status = s].status = s
    BY DEF Row
  <2>4. status \in Active \cup Settled
    BY DEF Answers
  <2> QED
    BY <1>2, <1>4, <2>1, <2>2, <2>3, <2>4
<1> QED
  BY <1>3, <1>4

LEMMA PersistedTypes ==
  ASSUME NEW row \in Row, NEW e, NEW status \in Active \cup Settled
  PROVE  /\ Persisted(row, e, status) \in Row /\ Persisted(row, e, status).task = row.task
         /\ row.status \in Active =>
              \/ Persisted(row, e, status).status \in Active
              \/ row.task = e /\ status \in Settled
<1> DEFINE new == [row EXCEPT !.status = status]
<1>1. new \in Row
  BY DEF Row
<1>2. new.task = row.task /\ new.status = status
  BY DEF Row
<1>3. Persisted(row, e, status) = row \/ (Persisted(row, e, status) = new /\ row.task = e)
  BY DEF Persisted
<1> HIDE DEF new
<1>4. CASE Persisted(row, e, status) = row
  BY <1>4
<1>5. CASE Persisted(row, e, status) = new /\ row.task = e
  BY <1>1, <1>2, <1>5
<1> QED
  BY <1>3, <1>4, <1>5

LEMMA SnapshotTypes ==
  ASSUME NEW state \in States
  PROVE  /\ Snapshot(state) \in Answers
         /\ Snapshot(state) \notin Active => state \notin {"queued", "running"}
         /\ state \in {"queued", "running"} => Snapshot(state) = state
BY DEF Snapshot, States, Answers, Active, Settled, Extractor!Working, Extractor!Over

LEMMA UntrackedType == Untracked \in Tracker /\ Untracked.at = "none"
<1>1. 0 \in 0 .. Patience - 1
  BY Assumed
<1> QED
  BY <1>1 DEF Untracked, Tracker, Answers

LEMMA TrackedTypes ==
  ASSUME LinkTypes, NEW a \in Account, NEW e \in Extraction
  PROVE  /\ Tracked(a, e) \in Tracker
         /\ \/ Tracked(a, e) = tracker[a]
            \/ Tracked(a, e).at = "polling" /\ Tracked(a, e).task = e
<1>1. [Untracked EXCEPT !.at = "polling", !.task = e] \in Tracker
  BY UntrackedType DEF Tracker
<1> QED
  BY <1>1, UntrackedType DEF Tracked, LinkTypes, Tracker

--------------------------------------------------------------------------------
(* How time passes at the extractor, and for the rows.                        *)

\* No extraction starts again, and none is forgotten to have been taken.
Aged ==
  /\ extraction' \in [Extraction -> States]
  /\ \A e \in Extraction : (Unstopped(e)' => Unstopped(e)) /\ (Taken(e) => Taken(e)')

LEMMA SameAge ==
  ASSUME LinkTypes, UNCHANGED extraction
  PROVE  Aged
BY DEF Aged, LinkTypes, Unstopped, Taken

LEMMA ExtractorAges ==
  ASSUME LinkTypes, NEW e \in Extraction,
         Extractor!Work(e) \/ Extractor!Cancel(e, {}) \/ Extractor!Forget({e})
  PROVE  Aged /\ (Extractor!Cancel(e, {}) => ~Unstopped(e)')
<1>1. PICK to \in States \ {"none"} :
        /\ extraction' = [i \in Extraction |-> IF i = e THEN to ELSE extraction[i]]
        /\ to \in {"queued", "running"} => extraction[e] = "queued" /\ ~Extractor!Cancel(e, {})
  BY DEF Extractor!Work, Extractor!Begin, Extractor!Finish, Extractor!Verdicts, Extractor!Cancel,
         Extractor!Forget, Extractor!Move, States, Extractor!Working, Extractor!Over
<1> QED
  BY <1>1 DEF Aged, LinkTypes, Unstopped, Taken

LEMMA CancelAges ==
  ASSUME LinkTypes, NEW e \in Extraction, CancelRemotely(e)
  PROVE  Aged /\ ~Unstopped(e)'
<1>1. CASE extraction[e] \in {"queued", "running"}
  BY <1>1, ExtractorAges DEF CancelRemotely
<1>2. CASE extraction[e] \notin {"queued", "running"}
  BY <1>2, SameAge DEF CancelRemotely, Unstopped
<1> QED
  BY <1>1, <1>2

\* A step that ends a row only with the extraction it is about, or fails
LEMMA RowStep ==
  ASSUME LinkInv, Aged, UNCHANGED <<owner, deleted, reserved, deleting, start>>,
         faults' \in 0 .. MaxFaults, faults' = 0 => faults = 0,
         link' \in [Account -> Row], tracker' \in [Account -> Tracker],
         \A b \in Account : link'[b].task = link[b].task,
         \A b \in Account : link[b].status \in Active /\ link[b].task # None =>
           \/ link'[b].status \in Active \/ faults' # 0
           \/ extraction'[link[b].task] \notin {"queued", "running"},
         \A b \in Account : tracker'[b].at # "none" =>
           tracker'[b].task \in Extraction /\ Taken(tracker'[b].task),
         \A b \in Account : tracker'[b].at = "answered" /\ tracker'[b].answer \notin Active =>
           extraction'[tracker'[b].task] \notin {"queued", "running"}
  PROVE  LinkInv'
<1>1. LinkTypes /\ Sets /\ Turn /\ Existing /\ HeardLate /\ Exclusive
  BY TypesNamed DEF LinkInv
<1>2. LinkTypes' /\ Sets'
  BY <1>1 DEF LinkTypes, Sets, Aged
<1>3. LinkTypeOK'
  BY <1>2 DEF LinkTypeOK, LinkTypes, Sets, States, Starting, Tracker
<1>4. Turn'
  BY <1>1 DEF Turn, Aged, Taken
<1>5. Existing'
  <2>1. \A b \in Account : link[b].task \in Extraction \cup {None}
    BY <1>1 DEF LinkTypes, Row
  <2> QED
    BY <1>1, <2>1 DEF Existing, Aged, Taken
<1>6. HeardLate'
  BY DEF HeardLate, Unstopped
<1>7. Exclusive'
  BY <1>1, Assumed DEF Exclusive, Held, Aged, Unstopped
<1> QED
  BY <1>3, <1>4, <1>5, <1>6, <1>7 DEF LinkInv

--------------------------------------------------------------------------------
(* The tracker of an account.                                                 *)

\* It may be told anything of an extraction that was taken, while it polls.
LEMMA TrackerStep ==
  ASSUME LinkInv, NEW a \in Account, NEW t \in Tracker, NEW row \in Row, Aged,
         UNCHANGED <<owner, deleted, reserved, deleting, start>>,
         faults' \in 0 .. MaxFaults, faults' = 0 => faults = 0,
         tracker' = [tracker EXCEPT ![a] = t], link' = [link EXCEPT ![a] = row],
         row.task = link[a].task,
         \/ link[a].status \notin Active \/ row.status \in Active
         \/ link[a].task = None \/ faults' # 0
         \/ extraction'[link[a].task] \notin {"queued", "running"},
         t.at # "none" => t.task = tracker[a].task /\ tracker[a].at # "none",
         t.at = "answered" /\ t.answer \notin Active =>
           extraction'[t.task] \notin {"queued", "running"}
  PROVE  LinkInv'
<1>1. LinkTypes /\ Existing /\ HeardLate
  BY TypesNamed DEF LinkInv
<1>2. /\ link' \in [Account -> Row] /\ tracker' \in [Account -> Tracker]
      /\ link'[a] = row /\ tracker'[a] = t
      /\ \A b \in Account : b # a => link'[b] = link[b] /\ tracker'[b] = tracker[b]
  BY <1>1 DEF LinkTypes
<1>3. \A b \in Account : link'[b].task = link[b].task
  BY <1>2
<1>4. \A b \in Account : link[b].status \in Active /\ link[b].task # None =>
        \/ link'[b].status \in Active \/ faults' # 0
        \/ extraction'[link[b].task] \notin {"queued", "running"}
  BY <1>2
<1>5. \A b \in Account : tracker'[b].at # "none" =>
        tracker'[b].task \in Extraction /\ Taken(tracker'[b].task)
  BY <1>1, <1>2 DEF Existing
<1>6. \A b \in Account : tracker'[b].at = "answered" /\ tracker'[b].answer \notin Active =>
        extraction'[tracker'[b].task] \notin {"queued", "running"}
  BY <1>1, <1>2 DEF HeardLate, Existing, Aged, Unstopped
<1> QED
  BY <1>2, <1>3, <1>4, <1>5, <1>6, RowStep

LEMMA TrackerFields ==
  ASSUME LinkInv, NEW a \in Account
  PROVE  /\ LinkTypes /\ tracker[a] \in Tracker /\ link[a] \in Row
         /\ tracker[a].at # "none" => tracker[a].task \in Extraction
BY TypesNamed DEF LinkInv, LinkTypes, Existing

LEMMA AskKeeps ==
  ASSUME LinkInv, NEW a \in Account, Ask(a)
  PROVE  LinkInv'
<1> DEFINE s == Snapshot(extraction[tracker[a].task])
           t == [tracker[a] EXCEPT !.at = "answered", !.answer = s]
<1>1. /\ LinkTypes /\ tracker[a] \in Tracker /\ link[a] \in Row
      /\ tracker[a].at = "polling" /\ tracker[a].task \in Extraction
  BY TrackerFields DEF Ask
<1>2. s \in Answers /\ (s \notin Active => extraction[tracker[a].task] \notin {"queued", "running"})
  BY <1>1, SnapshotTypes DEF LinkTypes
<1>3. tracker' = [tracker EXCEPT ![a] = t]
  BY DEF Ask, Follow
<1>4. UNCHANGED <<extraction, owner, deleted, link, reserved, deleting, start, faults>>
  BY DEF Ask
<1> HIDE DEF s
<1>5. t \in Tracker /\ t.at = "answered" /\ t.task = tracker[a].task /\ t.answer = s
  BY <1>1, <1>2 DEF Tracker
<1> HIDE DEF t
<1>6. Aged /\ faults' \in 0 .. MaxFaults
  BY <1>1, <1>4, SameAge, Faults
<1>7. link' = [link EXCEPT ![a] = link[a]]
  BY <1>1, <1>4 DEF LinkTypes
<1> QED
  BY <1>1, <1>2, <1>3, <1>4, <1>5, <1>6, <1>7, TrackerStep

\* A settled answer that ends the row is about the row's own extraction.
LEMMA HeardKeeps ==
  ASSUME LinkInv, NEW a \in Account, Heard(a)
  PROVE  LinkInv'
<1> DEFINE told == tracker[a]
           row  == Applied(link[a], told.task, told.answer)
           t    == IF row.task # told.task \/ row.status \in Settled THEN Untracked
                   ELSE [told EXCEPT !.at = "polling", !.answer = "missing", !.failures = 0]
<1>1. /\ LinkTypes /\ told \in Tracker /\ link[a] \in Row
      /\ told.at = "answered" /\ told.answer # "missing" /\ told.task \in Extraction
  BY TrackerFields DEF Heard
<1>2. /\ tracker' = [tracker EXCEPT ![a] = t] /\ link' = [link EXCEPT ![a] = row]
      /\ UNCHANGED <<extraction, owner, deleted, reserved, deleting, start, faults>>
  BY DEF Heard, Follow
<1>3. told.answer \in Answers \ {"missing"}
  BY <1>1 DEF Tracker
<1>4. /\ row \in Row /\ row.task = link[a].task
      /\ link[a].status \in Active =>
           \/ row.status \in Active
           \/ link[a].task \in {told.task, None} /\ told.answer \in Settled
  BY <1>1, <1>3, RowTypes
<1>5. t \in Tracker /\ (t.at # "none" => t.at = "polling" /\ t.task = told.task)
  <2>1. 0 \in 0 .. Patience - 1 /\ "missing" \in Answers
    BY Assumed DEF Answers
  <2>2. [told EXCEPT !.at = "polling", !.answer = "missing", !.failures = 0] \in Tracker
    BY <1>1, <2>1 DEF Tracker
  <2> QED
    BY <1>1, <2>2, UntrackedType DEF Tracker
<1> HIDE DEF row, t
<1>6. told.answer \in Settled => extraction[told.task] \notin {"queued", "running"}
  <2>1. Active \cap Settled = {}
    BY DEF Active, Settled
  <2> QED
    BY <1>1, <2>1 DEF LinkInv, HeardLate, Unstopped
<1>7. Aged /\ faults' \in 0 .. MaxFaults
  BY <1>1, <1>2, SameAge, Faults
<1> QED
  BY <1>1, <1>2, <1>4, <1>5, <1>6, <1>7, TrackerStep

\* A tracker gives up an extraction that is over, or after a failure.
LEMMA GiveUpKeeps ==
  ASSUME LinkInv, NEW a \in Account, GiveUp(a), tracker[a].at # "none", Aged,
         UNCHANGED <<owner, deleted, reserved, deleting, start>>,
         faults' \in 0 .. MaxFaults, faults' = 0 => faults = 0,
         faults' # 0 \/ extraction'[tracker[a].task] \notin {"queued", "running"}
  PROVE  LinkInv'
<1> DEFINE row == Persisted(link[a], tracker[a].task, "failed")
<1>1. LinkTypes /\ link[a] \in Row
  BY TrackerFields
<1>2. tracker' = [tracker EXCEPT ![a] = Untracked] /\ link' = [link EXCEPT ![a] = row]
  BY DEF GiveUp, Follow
<1>3. /\ row \in Row /\ row.task = link[a].task
      /\ link[a].status \in Active => row.status \in Active \/ link[a].task = tracker[a].task
  BY <1>1, PersistedTypes DEF Settled
<1> HIDE DEF row
<1> QED
  BY <1>1, <1>2, <1>3, UntrackedType, TrackerStep

LEMMA MissingKeeps ==
  ASSUME LinkInv, NEW a \in Account, Missing(a)
  PROVE  LinkInv'
<1>1. /\ tracker[a].at = "answered" /\ tracker[a].answer = "missing" /\ GiveUp(a)
      /\ UNCHANGED <<extraction, owner, deleted, reserved, deleting, start, faults>>
  BY DEF Missing
<1>2. extraction[tracker[a].task] \notin {"queued", "running"}
  <2>1. "missing" \notin Active
    BY DEF Active
  <2> QED
    BY <1>1, <2>1 DEF LinkInv, HeardLate, Unstopped
<1>3. Aged /\ faults' \in 0 .. MaxFaults
  BY <1>1, TrackerFields, SameAge, Faults
<1> QED
  BY <1>1, <1>2, <1>3, GiveUpKeeps

LEMMA TimedOutKeeps ==
  ASSUME LinkInv, NEW a \in Account, TimedOut(a)
  PROVE  LinkInv'
<1>1. /\ tracker[a].at = "expired" /\ GiveUp(a)
      /\ UNCHANGED <<owner, deleted, reserved, deleting, start>>
      /\ \/ CancelRemotely(tracker[a].task) /\ UNCHANGED faults
         \/ Fault /\ UNCHANGED extraction
  BY DEF TimedOut
<1>2. LinkTypes /\ tracker[a].task \in Extraction
  BY <1>1, TrackerFields
<1>3. CASE CancelRemotely(tracker[a].task) /\ UNCHANGED faults
  <2>1. Aged /\ extraction'[tracker[a].task] \notin {"queued", "running"}
    BY <1>2, <1>3, CancelAges DEF Unstopped
  <2> QED
    BY <1>1, <1>2, <1>3, <2>1, Faults, GiveUpKeeps
<1>4. CASE Fault /\ UNCHANGED extraction
  BY <1>1, <1>2, <1>4, SameAge, Faults, GiveUpKeeps
<1> QED
  BY <1>1, <1>3, <1>4

LEMMA PollFailsKeeps ==
  ASSUME LinkInv, NEW a \in Account, PollFails(a)
  PROVE  LinkInv'
<1> DEFINE t == [tracker[a] EXCEPT !.at = "polling", !.answer = "missing", !.failures = @ + 1]
<1>1. /\ tracker[a].at \in {"polling", "answered"} /\ Fault
      /\ UNCHANGED <<extraction, owner, deleted, reserved, deleting, start>>
      /\ \/ GiveUp(a)
         \/ /\ tracker[a].failures + 1 < Patience
            /\ tracker' = [tracker EXCEPT ![a] = t] /\ UNCHANGED link
  BY DEF PollFails, Follow
<1>2. LinkTypes /\ tracker[a] \in Tracker /\ link[a] \in Row
  BY TrackerFields
<1>3. Aged /\ faults' \in 0 .. MaxFaults /\ faults' # 0
  BY <1>1, <1>2, SameAge, Faults
<1>4. CASE GiveUp(a)
  BY <1>1, <1>3, <1>4, GiveUpKeeps
<1>5. CASE /\ tracker[a].failures + 1 < Patience
           /\ tracker' = [tracker EXCEPT ![a] = t] /\ UNCHANGED link
  <2>1. tracker[a].failures \in 0 .. Patience - 1
    BY <1>2 DEF Tracker
  <2>2. tracker[a].failures + 1 \in 0 .. Patience - 1
    BY <1>5, <2>1, Assumed
  <2>3. "missing" \in Answers
    BY DEF Answers
  <2>4. t \in Tracker /\ t.at = "polling" /\ t.task = tracker[a].task
    BY <1>2, <2>2, <2>3 DEF Tracker
  <2> HIDE DEF t
  <2>5. link' = [link EXCEPT ![a] = link[a]]
    BY <1>2, <1>5 DEF LinkTypes
  <2> QED
    BY <1>1, <1>2, <1>3, <1>5, <2>4, <2>5, TrackerStep
<1> QED
  BY <1>1, <1>4, <1>5

LEMMA ExpireKeeps ==
  ASSUME LinkInv, NEW a \in Account, Expire(a)
  PROVE  LinkInv'
<1> DEFINE t == [tracker[a] EXCEPT !.at = "expired"]
<1>1. /\ tracker[a].at = "polling" /\ tracker' = [tracker EXCEPT ![a] = t]
      /\ UNCHANGED <<extraction, owner, deleted, link, reserved, deleting, start, faults>>
  BY DEF Expire, Follow
<1>2. LinkTypes /\ tracker[a] \in Tracker /\ link[a] \in Row
  BY TrackerFields
<1>3. Aged /\ faults' \in 0 .. MaxFaults
  BY <1>1, <1>2, SameAge, Faults
<1>4. t \in Tracker /\ t.at = "expired" /\ t.task = tracker[a].task
  BY <1>2 DEF Tracker
<1> HIDE DEF t
<1>5. link' = [link EXCEPT ![a] = link[a]]
  BY <1>1, <1>2 DEF LinkTypes
<1> QED
  BY <1>1, <1>2, <1>3, <1>4, <1>5, TrackerStep

\* An item that has an extraction already has it tracked.
LEMMA FollowKeeps ==
  ASSUME LinkInv, NEW a \in Account, NEW e \in Extraction, Taken(e),
         tracker' = [tracker EXCEPT ![a] = Tracked(a, e)],
         UNCHANGED <<extraction, owner, deleted, link, reserved, deleting, start, faults>>
  PROVE  LinkInv'
<1>1. LinkTypes /\ Existing /\ HeardLate
  BY TypesNamed DEF LinkInv
<1>2. /\ Tracked(a, e) \in Tracker
      /\ \/ Tracked(a, e) = tracker[a]
         \/ Tracked(a, e).at = "polling" /\ Tracked(a, e).task = e
  BY <1>1, TrackedTypes
<1>3. /\ tracker' \in [Account -> Tracker] /\ tracker'[a] = Tracked(a, e)
      /\ \A b \in Account : b # a => tracker'[b] = tracker[b]
  BY <1>1, <1>2 DEF LinkTypes
<1>4. Aged /\ faults' \in 0 .. MaxFaults /\ link' \in [Account -> Row]
  BY <1>1, SameAge, Faults DEF LinkTypes
<1>5. \A b \in Account : tracker'[b].at # "none" =>
        tracker'[b].task \in Extraction /\ Taken(tracker'[b].task)
  BY <1>1, <1>2, <1>3 DEF Existing
<1>6. \A b \in Account : tracker'[b].at = "answered" /\ tracker'[b].answer \notin Active =>
        extraction'[tracker'[b].task] \notin {"queued", "running"}
  BY <1>1, <1>2, <1>3 DEF HeardLate, Unstopped
<1> QED
  BY <1>3, <1>4, <1>5, <1>6, RowStep

--------------------------------------------------------------------------------
(* The extractor.                                                             *)

\* Nothing of the hub changes.
LEMMA ExtractorKeeps ==
  ASSUME LinkInv, Aged,
         UNCHANGED <<owner, deleted, link, reserved, deleting, start, tracker, faults>>
  PROVE  LinkInv'
<1>1. LinkTypes /\ Existing /\ HeardLate
  BY TypesNamed DEF LinkInv
<1>2. faults' \in 0 .. MaxFaults /\ link' \in [Account -> Row] /\ tracker' \in [Account -> Tracker]
  BY <1>1, Faults DEF LinkTypes
<1>3. \A b \in Account : tracker'[b].at # "none" =>
        tracker'[b].task \in Extraction /\ Taken(tracker'[b].task)
  BY <1>1 DEF Existing
<1>4. \A b \in Account : tracker'[b].at = "answered" /\ tracker'[b].answer \notin Active =>
        extraction'[tracker'[b].task] \notin {"queued", "running"}
  BY <1>1 DEF HeardLate, Existing, Aged, Unstopped
<1> QED
  BY <1>2, <1>3, <1>4, RowStep

LEMMA WorkKeeps ==
  ASSUME LinkInv, NEW e \in Extraction, ExtractorWorks(e) \/ ExtractorForgets(e)
  PROVE  LinkInv' /\ Aged
<1>1. LinkTypes
  BY TypesNamed DEF LinkInv
<1>2. /\ UNCHANGED <<owner, deleted, link, reserved, deleting, start, tracker, faults>>
      /\ Extractor!Work(e) \/ Extractor!Forget({e})
  BY DEF ExtractorWorks, ExtractorForgets
<1>3. Aged
  BY <1>1, <1>2, ExtractorAges
<1> QED
  BY <1>2, <1>3, ExtractorKeeps

--------------------------------------------------------------------------------
(* The batch, the deletions, and a restart.                                   *)

LEMMA AcceptKeeps ==
  ASSUME LinkInv, NEW a \in Account, NEW by \in {"user", "pipeline"}, Accept(a, by)
  PROVE  LinkInv'
<1>1. LinkTypes /\ Sets /\ Turn /\ Existing /\ HeardLate /\ Exclusive
  BY TypesNamed DEF LinkInv
<1>2. /\ start.at = "none" /\ a \notin reserved /\ link[a].status \notin Active
      /\ reserved' = reserved \cup {a}
      /\ UNCHANGED <<extraction, owner, deleted, link, deleting, tracker, faults>>
  BY DEF Accept, Free
<1>3. /\ start' \in Starting /\ start'.at = "asking" /\ start'.account = a
  BY DEF Accept, NoStart, Starting
<1>4. LinkTypeOK'
  BY <1>1, <1>2, <1>3 DEF LinkTypeOK, LinkTypes, Sets, States, Starting, Tracker
<1>5. Turn'
  BY <1>1, <1>2, <1>3 DEF Turn, Sets
<1>6. Existing' /\ HeardLate'
  BY <1>1, <1>2 DEF Existing, HeardLate, Unstopped, Taken
\* The account was free: its row held no extraction.
<1>7. Exclusive'
  BY <1>1, <1>2, <1>3 DEF Exclusive, Held, Unstopped
<1> QED
  BY <1>4, <1>5, <1>6, <1>7 DEF LinkInv

LEMMA SubmittedKeeps ==
  ASSUME LinkInv, NEW e \in Extraction, Submitted(e)
  PROVE  /\ LinkInv'
         /\ \A i \in Extraction :
              (Taken(i) => Taken(i)') /\ (Taken(i) /\ Unstopped(i)' => Unstopped(i))
<1>1. LinkTypes /\ Sets /\ Turn /\ Existing /\ HeardLate /\ Exclusive
  BY TypesNamed DEF LinkInv
<1>2. /\ start.at = "asking" /\ start.account \notin deleted
      /\ owner' = [owner EXCEPT ![e] = start.account]
      /\ start' = [start EXCEPT !.at = "answered", !.task = e]
      /\ UNCHANGED <<deleted, link, reserved, deleting, tracker, faults>>
  BY DEF Submitted
<1>3. ~Taken(e) /\ extraction' = [i \in Extraction |-> IF i = e THEN "queued" ELSE extraction[i]]
  BY DEF Submitted, Extractor!Submit, Extractor!Move, Taken
<1>4. start.account \in Account /\ start.account \notin deleting
  BY <1>1, <1>2 DEF Turn, Sets
<1>5. start' \in Starting /\ start'.at = "answered" /\ start'.task = e /\ start'.account = start.account
  BY <1>1, <1>2 DEF LinkTypes, Starting
<1>6. extraction' \in [Extraction -> States] /\ extraction'[e] = "queued"
  BY <1>1, <1>3 DEF LinkTypes, States, Extractor!Working
<1>7. \A i \in Extraction : i # e => extraction'[i] = extraction[i] /\ owner'[i] = owner[i]
  BY <1>1, <1>2, <1>3 DEF LinkTypes
<1>8. owner' \in [Extraction -> Account \cup {None}] /\ owner'[e] = start.account
  BY <1>1, <1>2, <1>4 DEF LinkTypes
<1>9. LinkTypeOK'
  BY <1>1, <1>2, <1>5, <1>6, <1>8 DEF LinkTypeOK, LinkTypes, Sets, States, Starting, Tracker
<1>10. Turn'
  BY <1>1, <1>2, <1>5, <1>6, <1>8 DEF Turn, Taken
<1>11. Existing'
  <2>1. \A b \in Account : link[b].task \in Extraction \cup {None}
    BY <1>1 DEF LinkTypes, Row
  <2> QED
    BY <1>1, <1>2, <1>6, <1>7, <2>1 DEF Existing, Taken
<1>12. HeardLate'
  BY <1>1, <1>2, <1>3, <1>7 DEF HeardLate, Existing, Unstopped
<1>13. Exclusive'
  <2>1. Held(e, owner[e])'
    BY <1>2, <1>4, <1>5, <1>8 DEF Held
  <2>2. ASSUME NEW i \in Extraction, i # e, Unstopped(i)', faults = 0
        PROVE  Held(i, owner[i])'
    <3>1. Held(i, owner[i]) /\ owner'[i] = owner[i]
      BY <1>1, <1>7, <2>2 DEF Exclusive, Unstopped
    <3>2. /\ owner[i] \in Account \ (deleting \cup deleted) /\ start.account # owner[i]
          /\ link[owner[i]].task = i /\ link[owner[i]].status \in Active
      BY <1>2, <3>1 DEF Held
    <3> QED
      BY <1>2, <1>5, <3>1, <3>2 DEF Held
  <2> QED
    BY <1>2, <2>1, <2>2 DEF Exclusive
<1>14. \A i \in Extraction :
         (Taken(i) => Taken(i)') /\ (Taken(i) /\ Unstopped(i)' => Unstopped(i))
  BY <1>3, <1>6, <1>7 DEF Taken, Unstopped
<1> QED
  BY <1>9, <1>10, <1>11, <1>12, <1>13, <1>14 DEF LinkInv

\* The turn ends: with the row of the extraction, or without one.
LEMMA TurnEnds ==
  ASSUME LinkInv, start.at # "none", StartDone, NEW row \in Row,
         link' = [link EXCEPT ![start.account] = row], tracker' \in [Account -> Tracker],
         row.task # None => Taken(row.task),
         \A b \in Account : tracker'[b].at # "none" =>
           tracker'[b].task \in Extraction /\ Taken(tracker'[b].task),
         \A b \in Account : tracker'[b].at = "answered" /\ tracker'[b].answer \notin Active =>
           ~Unstopped(tracker'[b].task),
         \/ faults' # 0 \/ start.at = "asking"
         \/ start.at = "answered" /\ row.task = start.task /\ row.status \in Active,
         faults' \in 0 .. MaxFaults, faults' = 0 => faults = 0,
         UNCHANGED <<extraction, owner, deleted, deleting>>
  PROVE  LinkInv'
<1>1. LinkTypes /\ Sets /\ Turn /\ Existing /\ HeardLate /\ Exclusive
  BY TypesNamed DEF LinkInv
<1>2. start.account \in Account /\ start.account \in reserved \ deleting
  BY <1>1 DEF Turn, Sets
<1>3. start' = NoStart /\ start' \in Starting /\ start'.at = "none"
      /\ reserved' = reserved \ {start.account}
  BY DEF StartDone, NoStart, Starting
<1>4. /\ link' \in [Account -> Row] /\ link'[start.account] = row
      /\ \A b \in Account : b # start.account => link'[b] = link[b]
  BY <1>1, <1>2 DEF LinkTypes
<1>5. LinkTypeOK'
  BY <1>1, <1>2, <1>3, <1>4 DEF LinkTypeOK, LinkTypes, Sets, States, Starting, Tracker
<1>6. Turn'
  BY <1>3 DEF Turn
<1>7. Existing' /\ HeardLate'
  BY <1>1, <1>4 DEF Existing, HeardLate, Unstopped, Taken
<1>8. Exclusive'
  <2> SUFFICES ASSUME NEW e \in Extraction, Unstopped(e)', faults' = 0
               PROVE  Held(e, owner[e])'
    BY DEF Exclusive
  <2>1. Held(e, owner[e]) /\ owner'[e] = owner[e]
    BY <1>1 DEF Exclusive, Unstopped
  <2>2. CASE start.at = "answered" /\ start.task = e
    BY <1>1, <1>3, <1>4, <2>1, <2>2 DEF Held, Turn
  <2>3. CASE ~(start.at = "answered" /\ start.task = e)
    BY <1>3, <1>4, <2>1, <2>3 DEF Held
  <2> QED
    BY <2>2, <2>3
<1> QED
  BY <1>5, <1>6, <1>7, <1>8 DEF LinkInv

LEMMA StartedKeeps ==
  ASSUME LinkInv, Started
  PROVE  LinkInv'
<1> DEFINE row == [task |-> start.task, status |-> "queued"]
           a   == start.account
<1>1. LinkTypes /\ Sets /\ Turn /\ Existing /\ HeardLate
  BY TypesNamed DEF LinkInv
<1>2. /\ start.at = "answered" /\ link' = [link EXCEPT ![a] = row]
      /\ tracker' = [tracker EXCEPT ![a] = Tracked(a, start.task)] /\ StartDone
      /\ UNCHANGED <<extraction, owner, deleted, deleting, faults>>
  BY DEF Started
<1>3. a \in Account /\ start.task \in Extraction /\ Taken(start.task)
  BY <1>1, <1>2 DEF Turn, Sets
<1>4. row \in Row /\ row.task = start.task /\ row.status \in Active
  BY <1>3 DEF Row, Active
<1> HIDE DEF row, a
<1>5. /\ Tracked(a, start.task) \in Tracker
      /\ \/ Tracked(a, start.task) = tracker[a]
         \/ Tracked(a, start.task).at = "polling" /\ Tracked(a, start.task).task = start.task
  BY <1>1, <1>3, TrackedTypes
<1>6. /\ tracker' \in [Account -> Tracker] /\ tracker'[a] = Tracked(a, start.task)
      /\ \A b \in Account : b # a => tracker'[b] = tracker[b]
  BY <1>1, <1>2, <1>3, <1>5 DEF LinkTypes
<1>7. \A b \in Account : tracker'[b].at # "none" =>
        tracker'[b].task \in Extraction /\ Taken(tracker'[b].task)
  BY <1>1, <1>3, <1>5, <1>6 DEF Existing
<1>8. \A b \in Account : tracker'[b].at = "answered" /\ tracker'[b].answer \notin Active =>
        ~Unstopped(tracker'[b].task)
  BY <1>1, <1>5, <1>6 DEF HeardLate
<1>9. faults' \in 0 .. MaxFaults
  BY <1>1, <1>2, Faults
<1>10. link' = [link EXCEPT ![start.account] = row]
  BY <1>2 DEF a
<1> QED
  BY <1>2, <1>3, <1>4, <1>6, <1>7, <1>8, <1>9, <1>10, TurnEnds

LEMMA NotStartedKeeps ==
  ASSUME LinkInv, NotStarted
  PROVE  LinkInv'
<1> DEFINE row == [task |-> None, status |-> "failed"]
<1>1. LinkTypes /\ Existing /\ HeardLate
  BY TypesNamed DEF LinkInv
<1>2. /\ link' = [link EXCEPT ![start.account] = row] /\ StartDone
      /\ UNCHANGED <<extraction, owner, deleted, deleting, tracker>>
      /\ \/ start.at = "asking" /\ UNCHANGED faults
         \/ start.at = "answered" /\ Fault
  BY DEF NotStarted
<1>3. row \in Row /\ row.task = None
  BY DEF Row, Settled
<1> HIDE DEF row
<1>4. faults' \in 0 .. MaxFaults /\ (faults' = 0 => faults = 0) /\ (start.at = "asking" \/ faults' # 0)
  BY <1>1, <1>2, Faults
<1>5. tracker' \in [Account -> Tracker]
  BY <1>1, <1>2 DEF LinkTypes
<1>6. \A b \in Account : tracker'[b].at # "none" =>
        tracker'[b].task \in Extraction /\ Taken(tracker'[b].task)
  BY <1>1, <1>2 DEF Existing
<1>7. \A b \in Account : tracker'[b].at = "answered" /\ tracker'[b].answer \notin Active =>
        ~Unstopped(tracker'[b].task)
  BY <1>1, <1>2 DEF HeardLate
<1> QED
  BY <1>2, <1>3, <1>4, <1>5, <1>6, <1>7, TurnEnds

LEMMA BeginDeleteKeeps ==
  ASSUME LinkInv, NEW a \in Account, BeginDelete(a)
  PROVE  LinkInv'
<1>1. LinkTypes /\ Sets /\ Turn /\ Existing /\ HeardLate /\ Exclusive
  BY TypesNamed DEF LinkInv
<1>2. /\ a \notin reserved /\ link[a].status \notin Active
      /\ reserved' = reserved \cup {a} /\ deleting' = deleting \cup {a}
      /\ UNCHANGED <<extraction, owner, deleted, link, start, tracker, faults>>
  BY DEF BeginDelete, Free
<1>3. LinkTypeOK'
  BY <1>1, <1>2 DEF LinkTypeOK, LinkTypes, Sets, States, Starting, Tracker
<1>4. Turn'
  BY <1>1, <1>2 DEF Turn, Taken
<1>5. Existing' /\ HeardLate'
  BY <1>1, <1>2 DEF Existing, HeardLate, Unstopped, Taken
\* The account was free: neither the batch nor its row held an extraction.
<1>6. Exclusive'
  BY <1>1, <1>2 DEF Exclusive, Held, Unstopped, Turn
<1> QED
  BY <1>3, <1>4, <1>5, <1>6 DEF LinkInv

LEMMA EndDeleteKeeps ==
  ASSUME LinkInv, NEW a \in Account, EndDelete(a)
  PROVE  LinkInv'
<1>1. LinkTypes /\ Sets /\ Turn /\ Existing /\ HeardLate /\ Exclusive
  BY TypesNamed DEF LinkInv
<1>2. /\ a \in deleting /\ reserved' = reserved \ {a} /\ deleting' = deleting \ {a}
      /\ deleted' \subseteq deleted \cup {a} /\ (deleted' = deleted \/ deleted' = deleted \cup {a})
      /\ link' = [link EXCEPT ![a] = NoRow] \/ UNCHANGED link
      /\ UNCHANGED <<extraction, owner, start, tracker, faults>>
  BY DEF EndDelete
<1>3. NoRow \in Row /\ NoRow.task = None
  BY DEF NoRow, Row
<1>4. /\ link' \in [Account -> Row]
      /\ \A b \in Account : b # a => link'[b] = link[b]
      /\ link'[a] = link[a] \/ link'[a].task = None
  BY <1>1, <1>2, <1>3 DEF LinkTypes
<1>5. LinkTypeOK'
  BY <1>1, <1>2, <1>4 DEF LinkTypeOK, LinkTypes, Sets, States, Starting, Tracker
<1>6. Turn'
  BY <1>1, <1>2 DEF Turn, Taken
<1>7. Existing' /\ HeardLate'
  BY <1>1, <1>2, <1>4 DEF Existing, HeardLate, Unstopped, Taken
<1>8. Exclusive'
  BY <1>1, <1>2, <1>4 DEF Exclusive, Held, Unstopped
<1> QED
  BY <1>5, <1>6, <1>7, <1>8 DEF LinkInv

\* After a failure nothing is exclusive; what is tracked again was taken.
LEMMA RebootKeeps ==
  ASSUME LinkInv, Reboot
  PROVE  LinkInv' /\ Aged
<1> DEFINE again(a) == link[a].status \in Active /\ link[a].task # None
           t(a)     == IF again(a) THEN [Untracked EXCEPT !.at = "polling", !.task = link[a].task]
                       ELSE Untracked
<1>1. LinkTypes /\ Sets /\ Existing
  BY TypesNamed DEF LinkInv
<1>2. /\ Fault /\ start' = NoStart /\ reserved' = {} /\ deleting' = {}
      /\ tracker' = [a \in Account |-> t(a)]
      /\ UNCHANGED <<extraction, owner, deleted, link>>
  BY DEF Reboot
<1>3. \A a \in Account : link[a].task \in Extraction \cup {None}
  BY <1>1 DEF LinkTypes, Row
<1>4. \A a \in Account :
        /\ t(a) \in Tracker /\ t(a).at \in {"none", "polling"}
        /\ t(a).at = "polling" => t(a).task = link[a].task /\ link[a].task # None
  BY <1>3, UntrackedType DEF Tracker
<1> HIDE DEF t
<1>5. NoStart \in Starting /\ NoStart.at = "none"
  BY DEF NoStart, Starting
<1>6. faults' \in 0 .. MaxFaults /\ faults' # 0
  BY <1>1, <1>2, Faults
<1>7. LinkTypeOK'
  <2>1. tracker' \in [Account -> Tracker]
    BY <1>2, <1>4
  <2> QED
    BY <1>1, <1>2, <1>5, <1>6, <2>1 DEF LinkTypeOK, LinkTypes, Sets, States, Starting, Tracker
<1>8. Turn' /\ Exclusive'
  BY <1>2, <1>5, <1>6 DEF Turn, Exclusive
<1>9. Existing' /\ HeardLate'
  BY <1>1, <1>2, <1>3, <1>4 DEF Existing, HeardLate, Taken
<1>10. Aged
  BY <1>1, <1>2, SameAge
<1> QED
  BY <1>7, <1>8, <1>9, <1>10 DEF LinkInv

LEMMA LinkInitHolds == LinkInit => LinkInv
<1> SUFFICES ASSUME LinkInit PROVE LinkInv
  OBVIOUS
<1>1. \A e \in Extraction : extraction[e] = "none"
  BY DEF LinkInit, Extractor!Init
<1>2. LinkTypes
  <2>1. 0 \in 0 .. MaxFaults
    BY Assumed
  <2>2. NoStart \in Starting /\ NoRow \in Row
    BY DEF NoStart, Starting, NoRow, Row
  <2> QED
    BY <2>1, <2>2, UntrackedType DEF LinkInit, LinkTypes, States, Extractor!Init
<1>3. LinkTypeOK
  BY <1>2, TypesNamed DEF LinkInit, Sets
<1>4. Turn
  BY DEF LinkInit, Turn, NoStart
<1>5. Existing /\ HeardLate
  BY UntrackedType DEF LinkInit, Existing, HeardLate, NoRow
<1>6. Exclusive
  BY <1>1 DEF Exclusive, Unstopped
<1> QED
  BY <1>3, <1>4, <1>5, <1>6 DEF LinkInv
================================================================================
