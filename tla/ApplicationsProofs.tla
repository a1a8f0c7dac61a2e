------------------------- MODULE ApplicationsProofs -------------------------
(***************************************************************************)
(* Theorems about Applications, and about Access, which adds no variable   *)
(* to it, for every set of applications, handlers and people, every number *)
(* of stages and every bound.  All of them hold however requests overlap,  *)
(* fail or are lost.                                                       *)
(*                                                                         *)
(* First what the rows keep; then what the saved changes tell of them;     *)
(* then the accounts of what is reported of a change; then that the        *)
(* service keeps the promise of Lifecycle; at the end the comparison of    *)
(* Access.                                                                 *)
(***************************************************************************)
EXTENDS Access, ApplicationsRefinement,
        SequenceTheorems, FiniteSetTheorems, TLAPS

(* What the checks of an operation establish about the row it loaded.  The *)
(* snapshot never changes while the handler runs, so the stored row may    *)
(* leave it behind, but the save relies on nothing else.                   *)
CheckPassed(b) ==
  /\ b.op \in {"submit", "advance"} =>
       ~closed(b.seen) /\ b.seen.stage < FINAL_STAGE /\ b.reason = None
  /\ b.op = "submit" =>
       b.seen.stage = FIRST_STAGE /\ b.actor = customerId[b.app]
  /\ b.op = "revert" =>
       b.actor \in Admins /\ b.seen.stage > FIRST_STAGE /\ b.reason = None
  /\ b.op = "reject" => ~b.seen.isRejected /\ b.reason \in Reasons
  /\ b.op \in {"advance", "reject"} =>
       b.actor \in Admins \cup {staffId[b.app]}

ReasonGiven(row) == row.isRejected <=> row.rejectionReason # None

Snapshots ==
  \A h \in Handlers : InFlight(h) =>
    CheckPassed(handler[h]) /\ ReasonGiven(handler[h].seen)

(* The inductive invariant.                                                *)
IInv == TypeOK /\ Snapshots /\ DisbursedLocked /\ RejectedHasReason

-----------------------------------------------------------------------------
(* The operators *)


(* A handler that passed its checks edits the row into a row, moves it by  *)
(* one stage at most, and touches only the fields of its operation.        *)
LEMMA EditedFacts ==
  ASSUME NEW b \in Busy, CheckPassed(b)
  PROVE  /\ edited(b) \in Row
         /\ b.op \in {"submit", "advance"} =>
              /\ edited(b).stage = b.seen.stage + 1
              /\ edited(b).locked = (edited(b).stage = FINAL_STAGE)
              /\ edited(b).isRejected = b.seen.isRejected
              /\ edited(b).rejectionReason = b.seen.rejectionReason
         /\ b.op = "revert" =>
              /\ edited(b).stage = b.seen.stage - 1
              /\ edited(b).locked = FALSE
              /\ edited(b).isRejected = b.seen.isRejected
              /\ edited(b).rejectionReason = b.seen.rejectionReason
         /\ b.op = "reject" =>
              /\ edited(b).stage = b.seen.stage
              /\ edited(b).locked = b.seen.locked
              /\ edited(b).isRejected = TRUE
              /\ edited(b).rejectionReason = b.reason
<1>1. b.seen \in Row /\ b.op \in Ops /\ b.reason \in Reasons \cup {None}
  BY DEF Busy
<1>2. CASE b.op = "submit"
  <2>1. edited(b) = [b.seen EXCEPT
          !.stage = b.seen.stage + 1,
          !.locked = (b.seen.stage + 1 = FINAL_STAGE),
          !.submittedAt = TRUE]
    BY <1>1, <1>2
    DEF Row, CheckPassed, closed, edited, applyStageChange, nextStage
  <2>2. b.seen.stage + 1 \in Stage /\ b.seen.locked = FALSE
    BY <1>1, <1>2, FinalStageAssumption
    DEF Row, CheckPassed, closed, Stage, FIRST_STAGE
  <2>3. QED
    BY <1>1, <1>2, <2>1, <2>2 DEF Row
<1>3. CASE b.op = "advance"
  <2>1. edited(b) = [b.seen EXCEPT
          !.stage = b.seen.stage + 1,
          !.locked = (b.seen.stage + 1 = FINAL_STAGE)]
    BY <1>1, <1>3
    DEF Row, CheckPassed, closed, edited, applyStageChange, nextStage
  <2>2. b.seen.stage + 1 \in Stage /\ b.seen.locked = FALSE
    BY <1>1, <1>3, FinalStageAssumption
    DEF Row, CheckPassed, closed, Stage, FIRST_STAGE
  <2>3. QED
    BY <1>1, <1>3, <2>1, <2>2 DEF Row
<1>4. CASE b.op = "revert"
  <2>1. edited(b) =
          [b.seen EXCEPT !.stage = b.seen.stage - 1, !.locked = FALSE]
    BY <1>1, <1>4 DEF Row, edited, reverted
  <2>2. b.seen.stage - 1 \in Stage
    BY <1>1, <1>4, FinalStageAssumption
    DEF Row, CheckPassed, Stage, FIRST_STAGE
  <2>3. QED
    BY <1>1, <1>4, <2>1, <2>2 DEF Row
<1>5. CASE b.op = "reject"
  BY <1>1, <1>5 DEF Row, CheckPassed, edited, rejected
<1>6. QED
  BY <1>1, <1>2, <1>3, <1>4, <1>5 DEF Ops

LEMMA MergedType ==
  ASSUME NEW cur \in Row, NEW old \in Row, NEW new \in Row
  PROVE  merged(cur, old, new) \in Row
BY DEF merged, delta, Row

(* What a handler writes about a change has the types of the logs.         *)
LEMMA ReportType ==
  ASSUME NEW b \in Busy, CheckPassed(b)
  PROVE  /\ systemMessage(b) \in Message
         /\ auditRow(b) \in AuditRow
         /\ messageEvent(b) \in Event
         /\ changeEvent(b) \in Event
<1>1. /\ edited(b).stage \in Stage
      /\ b.seen.stage \in Stage
      /\ b.reason \in Reasons \cup {None}
      /\ b.actor \in Users
      /\ customerId[b.app] \in Customers
  BY EditedFacts, PartiesAssumption DEF Busy, Row
<1>2. action(b.op) \in AuditAction
  BY DEF Busy, Ops, action, AuditAction
<1>3. QED
  BY <1>1, <1>2 DEF systemMessage, Message, auditRow, AuditRow, messageEvent,
    changeEvent, Event
-----------------------------------------------------------------------------
(* The invariant holds initially and each kind of step keeps it *)

LEMMA NewRowFacts ==
  NewRow \in Row /\ NewRow.stage # FINAL_STAGE /\ ReasonGiven(NewRow)
BY FinalStageAssumption DEF NewRow, Row, Stage, FIRST_STAGE, ReasonGiven

LEMMA InitIInv == Init => IInv
<1> SUFFICES ASSUME Init PROVE IInv
  OBVIOUS
<1>1. TypeOK
  BY NewRowFacts DEF Init, TypeOK
<1>2. Snapshots
  BY DEF Init, Snapshots, InFlight
<1>3. DisbursedLocked /\ RejectedHasReason
  BY NewRowFacts DEF Init, DisbursedLocked, RejectedHasReason, ReasonGiven
<1>4. QED
  BY <1>1, <1>2, <1>3 DEF IInv

LEMMA BusyHandler ==
  ASSUME TypeOK, Snapshots, NEW h \in Handlers, InFlight(h)
  PROVE  /\ handler[h] \in Busy
         /\ handler[h].app \in Apps
         /\ handler[h].seen \in Row
         /\ CheckPassed(handler[h])
         /\ ReasonGiven(handler[h].seen)
<1>1. handler[h] \in Busy
  BY DEF TypeOK, InFlight
<1>2. QED
  BY <1>1 DEF Snapshots, Busy

LEMMA RoleFacts ==
  /\ \A u \in Customers : role(u) = "CUSTOMER"
  /\ \A u \in Partners : role(u) = "PARTNER"
  /\ \A u \in Staff : role(u) = "STAFF"
  /\ \A u \in Admins : role(u) = "ADMIN"
BY PartiesAssumption DEF role

(* Whom the guard of a route and the check behind it let through.          *)
LEMMA LetThrough ==
  ASSUME NEW u \in Users, NEW a \in Apps
  PROVE  /\ canActivate("revert", u) => u \in Admins
         /\ \A op \in {"advance", "reject"} :
              canActivate(op, u) /\ ~notAssigned(u, a) =>
                u \in Admins \cup {staffId[a]}
<1>1. canActivate("revert", u) => role(u) = "ADMIN"
  BY DEF canActivate, Required
<1>2. \A op \in {"advance", "reject"} :
        canActivate(op, u) => role(u) \in {"STAFF", "ADMIN"}
  BY DEF canActivate, Required
<1>3. /\ role(u) = "ADMIN" => u \in Admins
      /\ role(u) = "STAFF" => u \in Staff
  BY RoleFacts DEF Users
<1>4. QED
  BY <1>1, <1>2, <1>3 DEF notAssigned

(* A request loads the stored row, and the checks passed on it.            *)
LEMMA LoadIInv ==
  ASSUME IInv, NEW h \in Handlers, NEW a \in Apps, NEW u \in Users,
         NEW op \in Ops, NEW why \in Reasons \cup {None}, NEW call \in Calls,
         Load(h, op, a, u, why, call),
         CheckPassed([pc |-> call, op |-> op, app |-> a, actor |-> u,
                      reason |-> why, seen |-> applications[a]])
  PROVE  IInv'
<1> DEFINE b == [pc |-> call, op |-> op, app |-> a, actor |-> u,
                 reason |-> why, seen |-> applications[a]]
<1>1. /\ handler' = [handler EXCEPT ![h] = b]
      /\ UNCHANGED <<applications, complete, thread, audit, events, writes,
                     failures>>
  BY DEF Load
<1>2. b \in Busy /\ ReasonGiven(b.seen)
  BY DEF Busy, IInv, TypeOK, RejectedHasReason, ReasonGiven
<1>3. TypeOK'
  BY <1>1, <1>2 DEF IInv, TypeOK
<1>4. Snapshots'
  <2> SUFFICES ASSUME NEW k \in Handlers, InFlight(k)'
               PROVE  CheckPassed(handler'[k]) /\ ReasonGiven(handler'[k].seen)
    BY DEF Snapshots
  <2>1. CASE k = h
    <3>1. handler'[k] = b
      BY <1>1, <2>1 DEF IInv, TypeOK
    <3>2. QED
      BY <1>2, <3>1
  <2>2. CASE k # h
    <3>1. handler'[k] = handler[k]
      BY <1>1, <2>2 DEF IInv, TypeOK
    <3>2. QED
      BY <3>1 DEF InFlight, IInv, Snapshots
  <2>3. QED
    BY <2>1, <2>2
<1>5. DisbursedLocked' /\ RejectedHasReason'
  BY <1>1 DEF IInv, DisbursedLocked, RejectedHasReason
<1>6. QED
  BY <1>3, <1>4, <1>5 DEF IInv

LEMMA ArriveIInv ==
  ASSUME IInv, NEW h \in Handlers, Arrive(h)
  PROVE  IInv'
<1> PICK a \in Apps, u \in Users :
      \/ submit(h, a, u)
      \/ advanceStage(h, a, u)
      \/ revertStage(h, a, u)
      \/ \E why \in Reasons : reject(h, a, u, why)
  BY DEF Arrive
<1>1. applications[a] \in Row
  BY DEF IInv, TypeOK
<1>2. CASE submit(h, a, u)
  <2>1. /\ ~closed(applications[a]) /\ applications[a].stage = FIRST_STAGE
        /\ u = customerId[a]
    BY <1>2 DEF submit
  <2>2. Load(h, "submit", a, u, None, "pendingMandatory")
    BY <1>2 DEF submit
  <2>3. CheckPassed([pc |-> "pendingMandatory", op |-> "submit", app |-> a,
                     actor |-> u, reason |-> None,
                     seen |-> applications[a]])
    BY <2>1, FinalStageAssumption DEF CheckPassed, FIRST_STAGE
  <2>4. QED
    BY <2>2, <2>3, LoadIInv DEF Ops, Calls
<1>3. CASE advanceStage(h, a, u)
  <2>1. /\ ~closed(applications[a]) /\ applications[a].stage < FINAL_STAGE
        /\ u \in Admins \cup {staffId[a]}
    BY <1>3, LetThrough DEF advanceStage, Load
  <2>2. Load(h, "advance", a, u, None, "save")
    BY <1>3 DEF advanceStage
  <2>3. CheckPassed([pc |-> "save", op |-> "advance", app |-> a, actor |-> u,
                     reason |-> None, seen |-> applications[a]])
    BY <2>1 DEF CheckPassed
  <2>4. QED
    BY <2>2, <2>3, LoadIInv DEF Ops, Calls
<1>4. CASE revertStage(h, a, u)
  <2>1. u \in Admins /\ applications[a].stage > FIRST_STAGE
    BY <1>4, LetThrough DEF revertStage, Load
  <2>2. Load(h, "revert", a, u, None, "save")
    BY <1>4 DEF revertStage
  <2>3. CheckPassed([pc |-> "save", op |-> "revert", app |-> a, actor |-> u,
                     reason |-> None, seen |-> applications[a]])
    BY <2>1 DEF CheckPassed
  <2>4. QED
    BY <2>2, <2>3, LoadIInv DEF Ops, Calls
<1>5. ASSUME NEW why \in Reasons, reject(h, a, u, why)
      PROVE  IInv'
  <2>1. ~applications[a].isRejected /\ u \in Admins \cup {staffId[a]}
    BY <1>5, LetThrough DEF reject, Load
  <2>2. Load(h, "reject", a, u, why, "save")
    BY <1>5 DEF reject
  <2>3. CheckPassed([pc |-> "save", op |-> "reject", app |-> a, actor |-> u,
                     reason |-> why, seen |-> applications[a]])
    BY <2>1 DEF CheckPassed
  <2>4. QED
    BY <2>2, <2>3, LoadIInv DEF Ops, Calls
<1>6. QED
  BY <1>2, <1>3, <1>4, <1>5

(* Going on to the next call keeps the type and the snapshot.              *)
LEMMA GotoKeeps ==
  ASSUME TypeOK, Snapshots, NEW h \in Handlers, InFlight(h),
         NEW call \in Calls, Goto(h, call)
  PROVE  /\ handler' \in [Handlers -> {Idle} \cup Busy]
         /\ Snapshots'
<1> DEFINE b == [handler[h] EXCEPT !.pc = call]
<1>1. handler' = [handler EXCEPT ![h] = b]
  BY DEF Goto
<1>2. /\ b \in Busy
      /\ b.op = handler[h].op
      /\ b.app = handler[h].app
      /\ b.actor = handler[h].actor
      /\ b.reason = handler[h].reason
      /\ b.seen = handler[h].seen
  BY BusyHandler DEF Busy
<1>3. CheckPassed(b) /\ ReasonGiven(b.seen)
  BY <1>2, BusyHandler DEF CheckPassed
<1> HIDE DEF b
<1>4. handler' \in [Handlers -> {Idle} \cup Busy]
  BY <1>1, <1>2 DEF TypeOK
<1>5. \A k \in Handlers : handler'[k] = IF k = h THEN b ELSE handler[k]
  BY <1>1 DEF TypeOK
<1>6. Snapshots'
  BY <1>3, <1>5 DEF Snapshots, InFlight
<1>7. QED
  BY <1>4, <1>6

(* Ending a handler does as well.                                          *)
LEMMA LeaveKeeps ==
  ASSUME TypeOK, Snapshots, NEW h \in Handlers, Leave(h)
  PROVE  /\ handler' \in [Handlers -> {Idle} \cup Busy]
         /\ Snapshots'
<1>1. handler' = [handler EXCEPT ![h] = Idle]
  BY DEF Leave
<1>2. \A k \in Handlers : handler'[k] = IF k = h THEN Idle ELSE handler[k]
  BY <1>1 DEF TypeOK
<1>3. Snapshots'
  BY <1>2 DEF Snapshots, InFlight
<1>4. QED
  BY <1>1, <1>3 DEF TypeOK

(* The row a handler's save leaves behind, whatever was stored in the      *)
(* meantime.                                                               *)
LEMMA SavedRow ==
  ASSUME NEW b \in Busy, CheckPassed(b), ReasonGiven(b.seen), NEW cur \in Row,
         cur.stage = FINAL_STAGE => cur.locked, ReasonGiven(cur)
  PROVE  LET new == merged(cur, b.seen, edited(b)) IN
         /\ new \in Row
         /\ new.stage = FINAL_STAGE => new.locked
         /\ ReasonGiven(new)
         /\ cur.isRejected => new.isRejected
         /\ cur.locked /\ ~new.locked => b.op = "revert"
<1> DEFINE new == merged(cur, b.seen, edited(b))
<1>1. b.seen \in Row /\ edited(b) \in Row /\ b.op \in Ops
  BY EditedFacts DEF Busy
<1>2. new \in Row
  BY <1>1, MergedType
<1>3. CASE b.op \in {"submit", "advance"}
  <2>8. b.seen.stage \in Int /\ b.seen.locked = FALSE
    BY <1>1, <1>3 DEF CheckPassed, closed, Row, Stage
  <2>9. /\ edited(b).stage = b.seen.stage + 1
        /\ edited(b).locked = (edited(b).stage = FINAL_STAGE)
        /\ edited(b).isRejected = b.seen.isRejected
        /\ edited(b).rejectionReason = b.seen.rejectionReason
    BY <1>3, EditedFacts
  <2>1. edited(b).stage # b.seen.stage
    BY <2>8, <2>9
  <2>2. /\ new.stage = edited(b).stage
        /\ edited(b).stage = FINAL_STAGE => new.locked = TRUE
        /\ edited(b).stage # FINAL_STAGE => new.locked = cur.locked
        /\ new.isRejected = cur.isRejected
        /\ new.rejectionReason = cur.rejectionReason
    BY <2>8, <2>9, <2>1 DEF merged, delta
  <2>3. QED
    BY <1>2, <2>2 DEF ReasonGiven
<1>4. CASE b.op = "revert"
  <2>8. b.seen.stage \in Int /\ b.seen.stage <= FINAL_STAGE
    BY <1>1, FinalStageAssumption DEF Row, Stage, FIRST_STAGE
  <2>9. /\ edited(b).stage = b.seen.stage - 1
        /\ edited(b).isRejected = b.seen.isRejected
        /\ edited(b).rejectionReason = b.seen.rejectionReason
    BY <1>4, EditedFacts
  <2>1. edited(b).stage # b.seen.stage /\ edited(b).stage < FINAL_STAGE
    BY <2>8, <2>9, FinalStageAssumption
  <2>2. /\ new.stage = edited(b).stage
        /\ new.isRejected = cur.isRejected
        /\ new.rejectionReason = cur.rejectionReason
    BY <2>9, <2>1 DEF merged, delta
  <2>3. QED
    BY <1>2, <1>4, <2>1, <2>2, FinalStageAssumption DEF ReasonGiven
<1>5. CASE b.op = "reject"
  <2>1. /\ edited(b).stage = b.seen.stage
        /\ edited(b).locked = b.seen.locked
        /\ edited(b).isRejected = TRUE
        /\ edited(b).rejectionReason = b.reason
        /\ b.seen.isRejected = FALSE
        /\ b.seen.rejectionReason = None
        /\ b.reason # None
    BY <1>1, <1>5, EditedFacts, NoneAssumption DEF CheckPassed, ReasonGiven,
      Row
  <2>2. /\ new.stage = cur.stage
        /\ new.locked = cur.locked
        /\ new.isRejected = TRUE
        /\ new.rejectionReason = b.reason
    BY <2>1 DEF merged, delta
  <2>3. QED
    BY <1>2, <2>1, <2>2 DEF ReasonGiven
<1>6. QED
  BY <1>1, <1>3, <1>4, <1>5 DEF Ops

(* A save replaces one row by the merge of the handler's edits into it.    *)
LEMMA SaveEffect ==
  ASSUME IInv, NEW h \in Handlers, save(h)
  PROVE  LET b == handler[h]
             new == merged(applications[b.app], b.seen, edited(b)) IN
         /\ b \in Busy /\ b.app \in Apps
         /\ new \in Row
         /\ new.stage = FINAL_STAGE => new.locked
         /\ ReasonGiven(new)
         /\ applications[b.app].isRejected => new.isRejected
         /\ applications[b.app].locked /\ ~new.locked => b.op = "revert"
         /\ \A a \in Apps :
              applications'[a] = IF a = b.app THEN new ELSE applications[a]
<1> DEFINE b == handler[h]
           new == merged(applications[b.app], b.seen, edited(b))
<1>1. /\ b \in Busy
      /\ b.app \in Apps
      /\ CheckPassed(b)
      /\ ReasonGiven(b.seen)
  BY BusyHandler DEF IInv, save, At
<1>2. /\ applications[b.app] \in Row
      /\ applications[b.app].stage = FINAL_STAGE => applications[b.app].locked
      /\ ReasonGiven(applications[b.app])
  BY <1>1
  DEF IInv, TypeOK, DisbursedLocked, RejectedHasReason, ReasonGiven
<1>3. /\ new \in Row
      /\ new.stage = FINAL_STAGE => new.locked
      /\ ReasonGiven(new)
      /\ applications[b.app].isRejected => new.isRejected
      /\ applications[b.app].locked /\ ~new.locked => b.op = "revert"
  BY <1>1, <1>2, SavedRow
<1>4. \A a \in Apps :
        applications'[a] = IF a = b.app THEN new ELSE applications[a]
  BY <1>1 DEF save, IInv, TypeOK
<1>5. QED
  BY <1>1, <1>3, <1>4

LEMMA SaveIInv ==
  ASSUME IInv, NEW h \in Handlers, save(h)
  PROVE  IInv'
<1> DEFINE b == handler[h]
           new == merged(applications[b.app], b.seen, edited(b))
<1>1. /\ b \in Busy /\ b.app \in Apps
      /\ new \in Row
      /\ new.stage = FINAL_STAGE => new.locked
      /\ ReasonGiven(new)
      /\ \A a \in Apps :
           applications'[a] = IF a = b.app THEN new ELSE applications[a]
  BY SaveEffect
<1>2. /\ applications' = [applications EXCEPT ![b.app] = new]
      /\ writes' = [writes EXCEPT ![b.app] = Append(@, auditRow(b))]
      /\ Goto(h, "postSystem")
      /\ InFlight(h)
      /\ UNCHANGED <<complete, thread, audit, events, failures>>
  BY DEF save, At
<1>3. TypeOK /\ Snapshots
  BY DEF IInv
<1>4. auditRow(b) \in AuditRow
  BY <1>1, <1>2, <1>3, BusyHandler, ReportType
<1>5. handler' \in [Handlers -> {Idle} \cup Busy] /\ Snapshots'
  BY <1>2, <1>3, GotoKeeps DEF Calls
<1>6. applications' \in [Apps -> Row]
  BY <1>1, <1>2, <1>3 DEF TypeOK
<1>7. writes' \in [Apps -> Seq(AuditRow)]
  BY <1>1, <1>2, <1>3, <1>4 DEF TypeOK
<1>8. TypeOK'
  BY <1>2, <1>3, <1>5, <1>6, <1>7 DEF TypeOK
<1>9. DisbursedLocked'
  BY <1>1 DEF IInv, DisbursedLocked
<1>10. RejectedHasReason'
  BY <1>1 DEF IInv, RejectedHasReason, ReasonGiven
<1>11. QED
  BY <1>5, <1>8, <1>9, <1>10 DEF IInv

(* The calls after the save, and the one before it, leave the rows alone.  *)
LEMMA ReportIInv ==
  ASSUME IInv, NEW h \in Handlers,
         \/ pendingMandatory(h) \/ postSystem(h) \/ announce(h)
         \/ record(h) \/ publish(h)
  PROVE  IInv' /\ applications' = applications
<1> DEFINE b == handler[h]
<1>1. TypeOK /\ Snapshots /\ InFlight(h)
  BY DEF IInv, pendingMandatory, postSystem, announce, record, publish, At
<1>2. /\ thread \in [Apps -> Seq(Message)]
      /\ audit \in [Apps -> Seq(AuditRow)]
      /\ events \in [Apps -> Seq(Event)]
  BY <1>1 DEF TypeOK
<1>3. /\ b.app \in Apps
      /\ systemMessage(b) \in Message
      /\ auditRow(b) \in AuditRow
      /\ messageEvent(b) \in Event
      /\ changeEvent(b) \in Event
  BY <1>1, BusyHandler, ReportType
<1>4. /\ applications' = applications
      /\ complete' = complete
      /\ writes' = writes
      /\ failures' = failures
  BY DEF pendingMandatory, postSystem, announce, record, publish
<1>5. handler' \in [Handlers -> {Idle} \cup Busy] /\ Snapshots'
  <2>1. CASE Leave(h)
    BY <1>1, <2>1, LeaveKeeps
  <2>2. ASSUME NEW call \in Calls, Goto(h, call)
        PROVE  handler' \in [Handlers -> {Idle} \cup Busy] /\ Snapshots'
    BY <1>1, <2>2, GotoKeeps
  <2>3. \/ Leave(h) \/ Goto(h, "save") \/ Goto(h, "announce")
        \/ Goto(h, "record") \/ Goto(h, "publish")
    BY DEF pendingMandatory, postSystem, announce, record, publish
  <2>4. QED
    BY <2>1, <2>2, <2>3 DEF Calls
<1>6. thread' \in [Apps -> Seq(Message)]
  <2>1. \/ thread' = thread
        \/ thread' = [thread EXCEPT ![b.app] = Append(@, systemMessage(b))]
    BY DEF pendingMandatory, postSystem, announce, record, publish
  <2>2. Append(thread[b.app], systemMessage(b)) \in Seq(Message)
    BY <1>2, <1>3
  <2>3. QED
    BY <1>2, <1>3, <2>1, <2>2
<1>7. audit' \in [Apps -> Seq(AuditRow)]
  <2>1. \/ audit' = audit
        \/ audit' = [audit EXCEPT ![b.app] = Append(@, auditRow(b))]
    BY DEF pendingMandatory, postSystem, announce, record, publish
  <2>2. Append(audit[b.app], auditRow(b)) \in Seq(AuditRow)
    BY <1>2, <1>3
  <2>3. QED
    BY <1>2, <1>3, <2>1, <2>2
<1>8. events' \in [Apps -> Seq(Event)]
  <2>1. \/ events' = events
        \/ events' = [events EXCEPT ![b.app] = Append(@, messageEvent(b))]
        \/ events' = [events EXCEPT ![b.app] = Append(@, changeEvent(b))]
    BY DEF pendingMandatory, postSystem, announce, record, publish
  <2>2. /\ Append(events[b.app], messageEvent(b)) \in Seq(Event)
        /\ Append(events[b.app], changeEvent(b)) \in Seq(Event)
    BY <1>2, <1>3
  <2>3. QED
    BY <1>2, <1>3, <2>1, <2>2
<1>9. TypeOK'
  BY <1>1, <1>4, <1>5, <1>6, <1>7, <1>8 DEF TypeOK
<1>10. DisbursedLocked' /\ RejectedHasReason'
  BY <1>4 DEF IInv, DisbursedLocked, RejectedHasReason
<1>11. QED
  BY <1>4, <1>5, <1>9, <1>10 DEF IInv

LEMMA LostCount ==
  Cardinality({h \in Handlers : InFlight(h)}) \in Nat
BY FS_Subset, FS_CardinalityType, HandlersAssumption

(* A failed call or a restart ends handlers and touches nothing else.      *)
LEMMA LossIInv ==
  ASSUME IInv, \/ \E h \in Handlers : fail(h)
               \/ crash
               \/ \E a \in Apps : documentsChange(a)
  PROVE  IInv' /\ applications' = applications
<1>1. TypeOK /\ Snapshots
  BY DEF IInv
<1>2. UNCHANGED <<applications, thread, audit, events, writes>>
  BY DEF fail, crash, documentsChange
<1>3. complete' \in [Apps -> BOOLEAN]
  BY <1>1 DEF TypeOK, fail, crash, documentsChange
<1>4. handler' \in [Handlers -> {Idle} \cup Busy] /\ Snapshots'
  <2>1. CASE \E h \in Handlers : fail(h)
    BY <1>1, <2>1, LeaveKeeps DEF fail
  <2>2. CASE crash
    BY <2>2 DEF crash, Snapshots, InFlight
  <2>3. CASE \E a \in Apps : documentsChange(a)
    BY <1>1, <2>3 DEF documentsChange, TypeOK, Snapshots, InFlight
  <2>4. QED
    BY <2>1, <2>2, <2>3
<1>5. failures' \in Nat
  <2>1. CASE \E h \in Handlers : fail(h)
    BY <1>1, <2>1 DEF TypeOK, fail
  <2>2. CASE crash
    BY <1>1, <2>2, LostCount DEF TypeOK, crash
  <2>3. CASE \E a \in Apps : documentsChange(a)
    BY <1>1, <2>3 DEF TypeOK, documentsChange
  <2>4. QED
    BY <2>1, <2>2, <2>3
<1>6. TypeOK'
  BY <1>1, <1>2, <1>3, <1>4, <1>5 DEF TypeOK
<1>7. DisbursedLocked' /\ RejectedHasReason'
  BY <1>2 DEF IInv, DisbursedLocked, RejectedHasReason
<1>8. QED
  BY <1>2, <1>4, <1>6, <1>7 DEF IInv

LEMMA NextIInv == IInv /\ [Next]_vars => IInv'
<1> SUFFICES ASSUME IInv, [Next]_vars PROVE IInv'
  OBVIOUS
<1>1. ASSUME NEW h \in Handlers, Arrive(h)
      PROVE  IInv'
  BY <1>1, ArriveIInv
<1>2. ASSUME NEW h \in Handlers, Continue(h)
      PROVE  IInv'
  BY <1>2, SaveIInv, ReportIInv DEF Continue
<1>3. CASE \/ \E h \in Handlers : fail(h)
           \/ crash
           \/ \E a \in Apps : documentsChange(a)
  BY <1>3, LossIInv
<1>4. CASE UNCHANGED vars
  BY <1>4 DEF vars, IInv, TypeOK, Snapshots, InFlight, DisbursedLocked,
    RejectedHasReason
<1>5. QED
  BY <1>1, <1>2, <1>3, <1>4 DEF Next

LEMMA Invariance == Spec => []IInv
BY InitIInv, NextIInv, PTL DEF Spec

-----------------------------------------------------------------------------
(* The theorems for every interleaving *)

(* Rows, handlers and logs keep their types; every stored stage is a stage. *)
THEOREM TypeCorrect == Spec => []TypeOK
BY Invariance, PTL DEF IInv

(* However handlers interleave, fail or are lost, a row stored at the final *)
(* stage is stored locked.                                                 *)
THEOREM DisbursedIsLocked == Spec => []DisbursedLocked
BY Invariance, PTL DEF IInv

(* A stored rejection carries its reason, and only a rejection does.       *)
THEOREM RejectionCarriesReason == Spec => []RejectedHasReason
BY Invariance, PTL DEF IInv

(* Only a save changes the rows.                                           *)
LEMMA OnlySaveWrites ==
  ASSUME IInv, [Next]_vars
  PROVE  applications' = applications \/ \E h \in Handlers : save(h)
<1>1. ASSUME NEW h \in Handlers, Arrive(h)
      PROVE  applications' = applications
  BY <1>1 DEF Arrive, submit, advanceStage, revertStage, reject, Load
<1>2. ASSUME NEW h \in Handlers, Continue(h)
      PROVE  applications' = applications \/ save(h)
  BY <1>2, ReportIInv DEF Continue
<1>3. CASE \/ \E h \in Handlers : fail(h)
           \/ crash
           \/ \E a \in Apps : documentsChange(a)
  BY <1>3, LossIInv
<1>4. CASE UNCHANGED vars
  BY <1>4 DEF vars
<1>5. QED
  BY <1>1, <1>2, <1>3, <1>4 DEF Next

(* No interleaving of handlers takes a rejection back.                     *)
THEOREM RejectionNeverUndone == Spec => RejectionIsFinal
<1>1. ASSUME IInv, [Next]_vars, NEW a \in Apps, applications[a].isRejected
      PROVE  applications'[a].isRejected
  BY <1>1, OnlySaveWrites, SaveEffect
<1>2. IInv /\ [Next]_vars =>
        [\A a \in Apps :
           applications[a].isRejected => applications'[a].isRejected]_vars
  BY <1>1
<1>3. QED
  BY <1>2, Invariance, PTL DEF Spec, RejectionIsFinal

(* What a handler writes does not depend on the call it is at.             *)
LEMMA SameReport ==
  ASSUME NEW b \in Busy, NEW call
  PROVE  LET c == [b EXCEPT !.pc = call] IN
         /\ systemMessage(c) = systemMessage(b)
         /\ auditRow(c) = auditRow(b)
         /\ messageEvent(c) = messageEvent(b)
         /\ changeEvent(c) = changeEvent(b)
<1> DEFINE c == [b EXCEPT !.pc = call]
<1>1. /\ c.op = b.op /\ c.app = b.app /\ c.actor = b.actor
      /\ c.reason = b.reason /\ c.seen = b.seen
  BY DEF Busy
<1>2. edited(c) = edited(b)
  BY <1>1 DEF edited
<1> HIDE DEF c
<1>3. QED
  BY <1>1, <1>2 DEF systemMessage, auditRow, messageEvent, changeEvent, c

-----------------------------------------------------------------------------
(* What the saved changes tell of the row *)

LEMMA Appended ==
  ASSUME NEW S, NEW log \in Seq(S), NEW x \in S
  PROVE  /\ Len(log) \in Nat
         /\ DOMAIN log = 1 .. Len(log)
         /\ DOMAIN Append(log, x) = 1 .. Len(log) + 1
         /\ Append(log, x)[Len(log) + 1] = x
         /\ \A n \in 1 .. Len(log) : Append(log, x)[n] = log[n]
BY AppendProperties

Had(log) == StagesHad(log, Len(log) + 1)

LEMMA HadAppended ==
  ASSUME NEW S, NEW log \in Seq(S), NEW x \in S
  PROVE  /\ \A n \in 1 .. Len(log) + 1 :
              StagesHad(Append(log, x), n) = StagesHad(log, n)
         /\ Had(Append(log, x)) = Had(log) \cup {x.after}
<1>1. /\ Len(log) \in Nat /\ DOMAIN Append(log, x) = 1 .. Len(log) + 1
      /\ Append(log, x)[Len(log) + 1] = x
      /\ \A n \in 1 .. Len(log) : Append(log, x)[n] = log[n]
      /\ Len(Append(log, x)) = Len(log) + 1
  BY Appended, AppendProperties
<1>2. ASSUME NEW n \in 1 .. Len(log) + 1
      PROVE  StagesHad(Append(log, x), n) = StagesHad(log, n)
  <2>1. 1 .. n - 1 \subseteq 1 .. Len(log)
    BY <1>1
  <2>2. \A m \in 1 .. n - 1 : Append(log, x)[m].after = log[m].after
    BY <1>1, <2>1
  <2>3. QED
    BY <2>2 DEF StagesHad
<1>3. Had(Append(log, x)) = Had(log) \cup {x.after}
  <2>1. 1 .. (Len(log) + 2) - 1 = (1 .. (Len(log) + 1) - 1) \cup {Len(log) + 1}
    BY <1>1
  <2>2. (Len(log) + 1) - 1 = Len(log)
    BY <1>1
  <2>3. QED
    BY <1>1, <2>1, <2>2 DEF Had, StagesHad
<1>4. QED
  BY <1>2, <1>3

(* What the changes so far tell of the row and of the copies of it.        *)
Copies ==
  \A h \in Handlers : InFlight(h) =>
    LET b == handler[h] IN
    /\ b.seen.stage \in Had(writes[b.app])
    /\ b.seen.submittedAt => applications[b.app].submittedAt
    /\ b.seen.stage = FINAL_STAGE => b.seen.locked

StagesKnown == \A a \in Apps : applications[a].stage \in Had(writes[a])

HInv == IInv /\ Copies /\ StagesKnown /\ RowFollowsChanges

(* The row and the line of each kind of change, by the handler that saved. *)
Moved(b, old, new, line) ==
  /\ b.seen.stage < FINAL_STAGE
  /\ new = [old EXCEPT !.stage = b.seen.stage + 1,
                       !.locked = @ \/ b.seen.stage + 1 = FINAL_STAGE,
                       !.submittedAt = @ \/ b.op = "submit"]
  /\ line = [action |-> "StageAdvanced", actor |-> b.actor,
             before |-> b.seen.stage, after |-> b.seen.stage + 1,
             reason |-> None]

Corrected(b, old, new, line) ==
  /\ b.seen.stage > FIRST_STAGE /\ b.actor \in Admins
  /\ new = [old EXCEPT !.stage = b.seen.stage - 1,
                       !.locked = @ /\ ~b.seen.locked]
  /\ line = [action |-> "StageReverted", actor |-> b.actor,
             before |-> b.seen.stage, after |-> b.seen.stage - 1,
             reason |-> None]

Refused(b, old, new, line) ==
  /\ b.reason \in Reasons
  /\ new = [old EXCEPT !.isRejected = TRUE, !.rejectionReason = b.reason]
  /\ line = [action |-> "ApplicationRejected", actor |-> b.actor,
             before |-> None, after |-> b.seen.stage, reason |-> b.reason]

LEMMA ChangeKinds ==
  ASSUME NEW b \in Busy, CheckPassed(b), ReasonGiven(b.seen), NEW old \in Row,
         b.seen.submittedAt => old.submittedAt
  PROVE  LET new == merged(old, b.seen, edited(b)) IN
         /\ b.op \in {"submit", "advance"} => Moved(b, old, new, auditRow(b))
         /\ b.op = "revert" => Corrected(b, old, new, auditRow(b))
         /\ b.op = "reject" => Refused(b, old, new, auditRow(b))
<1> DEFINE new == merged(old, b.seen, edited(b))
<1>1. /\ b.seen \in Row /\ edited(b) \in Row /\ b.op \in Ops
      /\ b.seen.stage \in Int /\ FINAL_STAGE \in Int
      /\ b.seen.locked \in BOOLEAN /\ b.seen.submittedAt \in BOOLEAN
      /\ old.locked \in BOOLEAN /\ old.submittedAt \in BOOLEAN
  <2>1. edited(b) \in Row
    BY EditedFacts
  <2>2. b.seen \in Row /\ b.op \in Ops
    BY DEF Busy
  <2>3. FINAL_STAGE \in Int /\ Stage \subseteq Int
    BY FinalStageAssumption DEF Stage, FIRST_STAGE
  <2>4. QED
    BY <2>1, <2>2, <2>3 DEF Row
<1>2. CASE b.op \in {"submit", "advance"}
  <2>1. /\ b.seen.locked = FALSE /\ b.seen.stage < FINAL_STAGE
        /\ b.reason = None
        /\ edited(b).stage = b.seen.stage + 1
        /\ edited(b).locked = (b.seen.stage + 1 = FINAL_STAGE)
        /\ edited(b).isRejected = b.seen.isRejected
        /\ edited(b).rejectionReason = b.seen.rejectionReason
    BY <1>1, <1>2, EditedFacts DEF CheckPassed, closed
  <2>2. edited(b).submittedAt = (b.seen.submittedAt \/ b.op = "submit")
    <3>1. CASE b.op = "submit"
      <4>1. applyStageChange(b.seen, nextStage(FIRST_STAGE)) =
              [b.seen EXCEPT !.stage = nextStage(FIRST_STAGE),
                 !.locked = @ \/ nextStage(FIRST_STAGE) = FINAL_STAGE]
        BY DEF applyStageChange
      <4>2. edited(b) =
              [applyStageChange(b.seen, nextStage(FIRST_STAGE))
                 EXCEPT !.submittedAt = TRUE]
        BY <3>1 DEF edited
      <4>3. QED
        BY <1>1, <3>1, <4>1, <4>2 DEF Row
    <3>2. CASE b.op = "advance"
      <4>1. edited(b) = [b.seen EXCEPT !.stage = nextStage(b.seen.stage),
              !.locked = @ \/ nextStage(b.seen.stage) = FINAL_STAGE]
        BY <3>2 DEF edited, applyStageChange
      <4>2. edited(b).submittedAt = b.seen.submittedAt
        BY <1>1, <4>1 DEF Row
      <4>3. QED
        BY <1>1, <3>2, <4>2
    <3>3. QED
      BY <1>2, <3>1, <3>2
  <2>3. /\ new.stage = b.seen.stage + 1
        /\ new.isRejected = old.isRejected
        /\ new.rejectionReason = old.rejectionReason
    BY <1>1, <2>1 DEF merged, delta
  <2>4. new.locked = (old.locked \/ b.seen.stage + 1 = FINAL_STAGE)
    BY <1>1, <2>1 DEF merged, delta
  <2>5. new.submittedAt = (old.submittedAt \/ b.op = "submit")
    <3>1. CASE b.op = "submit"
      BY <1>1, <2>2, <3>1 DEF merged, delta
    <3>2. CASE b.op # "submit"
      BY <1>1, <2>2, <3>2 DEF merged, delta
    <3>3. QED
      BY <3>1, <3>2
  <2>6. new = [old EXCEPT !.stage = b.seen.stage + 1,
                          !.locked = @ \/ b.seen.stage + 1 = FINAL_STAGE,
                          !.submittedAt = @ \/ b.op = "submit"]
    <3>1. new \in Row
      BY <1>1, MergedType
    <3>2. QED
      BY <2>3, <2>4, <2>5, <3>1 DEF Row
  <2>7. auditRow(b) =
          [action |-> "StageAdvanced", actor |-> b.actor,
           before |-> b.seen.stage, after |-> b.seen.stage + 1,
           reason |-> None]
    BY <1>2, <2>1 DEF auditRow, action
  <2>8. QED
    BY <1>2, <2>1, <2>6, <2>7 DEF Moved
<1>3. CASE b.op = "revert"
  <2>1. /\ b.seen.stage > FIRST_STAGE /\ b.actor \in Admins
        /\ b.reason = None
        /\ edited(b).stage = b.seen.stage - 1
        /\ edited(b).locked = FALSE
        /\ edited(b).isRejected = b.seen.isRejected
        /\ edited(b).rejectionReason = b.seen.rejectionReason
    BY <1>1, <1>3, EditedFacts DEF CheckPassed
  <2>2. edited(b).submittedAt = b.seen.submittedAt
    BY <1>1, <1>3 DEF edited, reverted, Row
  <2>3. /\ new.stage = b.seen.stage - 1
        /\ new.isRejected = old.isRejected
        /\ new.rejectionReason = old.rejectionReason
        /\ new.submittedAt = old.submittedAt
    BY <1>1, <2>1, <2>2 DEF merged, delta
  <2>4. new.locked = (old.locked /\ ~b.seen.locked)
    BY <1>1, <2>1 DEF merged, delta
  <2>5. new = [old EXCEPT !.stage = b.seen.stage - 1,
                          !.locked = @ /\ ~b.seen.locked]
    <3>1. new \in Row
      BY <1>1, MergedType
    <3>2. QED
      BY <2>3, <2>4, <3>1 DEF Row
  <2>6. auditRow(b) =
          [action |-> "StageReverted", actor |-> b.actor,
           before |-> b.seen.stage, after |-> b.seen.stage - 1,
           reason |-> None]
    BY <1>3, <2>1 DEF auditRow, action
  <2>7. QED
    BY <1>3, <2>1, <2>5, <2>6 DEF Corrected
<1>4. CASE b.op = "reject"
  <2>1. /\ edited(b).stage = b.seen.stage
        /\ edited(b).locked = b.seen.locked
        /\ edited(b).isRejected = TRUE
        /\ edited(b).rejectionReason = b.reason
        /\ b.reason \in Reasons /\ b.reason # None
        /\ b.seen.isRejected = FALSE /\ b.seen.rejectionReason = None
    BY <1>1, <1>4, EditedFacts, NoneAssumption
    DEF CheckPassed, ReasonGiven, Row
  <2>2. edited(b).submittedAt = b.seen.submittedAt
    BY <1>1, <1>4 DEF edited, rejected, Row
  <2>3. /\ new.stage = old.stage
        /\ new.locked = old.locked
        /\ new.isRejected = TRUE
        /\ new.rejectionReason = b.reason
        /\ new.submittedAt = old.submittedAt
    BY <1>1, <2>1, <2>2 DEF merged, delta
  <2>4. new = [old EXCEPT !.isRejected = TRUE, !.rejectionReason = b.reason]
    <3>1. new \in Row
      BY <1>1, MergedType
    <3>2. QED
      BY <2>3, <3>1 DEF Row
  <2>5. auditRow(b) =
          [action |-> "ApplicationRejected", actor |-> b.actor,
           before |-> None, after |-> b.seen.stage, reason |-> b.reason]
    BY <1>4, <2>1 DEF auditRow, action
  <2>6. QED
    BY <1>4, <2>1, <2>4, <2>5 DEF Refused
<1>5. QED
  BY <1>1, <1>2, <1>3, <1>4 DEF Ops

(* A move keeps the tale of the stages, whatever copy decided it.          *)
LEMMA MoveTold ==
  ASSUME NEW log \in Seq(AuditRow), NEW line \in AuditRow, NEW old, NEW new,
         StageFollows(old, log), line.before \in Had(log),
         new.stage = line.after,
         \/ line.action = "StageAdvanced" /\ line.after = line.before + 1
         \/ /\ line.action = "StageReverted" /\ line.after = line.before - 1
            /\ line.actor \in Admins
  PROVE  StageFollows(new, Append(log, line))
<1> DEFINE long == Append(log, line)
           top == Len(log) + 1
<1>1. /\ Len(log) \in Nat /\ DOMAIN log = 1 .. Len(log)
      /\ DOMAIN long = 1 .. top
      /\ long[top] = line
      /\ \A n \in 1 .. Len(log) : long[n] = log[n]
  BY Appended
<1>2. \A n \in 1 .. top : StagesHad(long, n) = StagesHad(log, n)
  BY HadAppended
<1> HIDE DEF long
<1>3. /\ top \in Moves(long)
      /\ \A n \in Moves(long) : n # top => n \in Moves(log)
      /\ \A n \in Moves(log) : n \in 1 .. Len(log)
  BY <1>1 DEF Moves
<1>4. ASSUME NEW n \in Moves(long)
      PROVE  /\ (\A m \in Moves(long) : m <= n) => new.stage = long[n].after
             /\ long[n].before \in StagesHad(long, n)
             /\ \/ /\ long[n].action = "StageAdvanced"
                   /\ long[n].after = long[n].before + 1
                \/ /\ long[n].action = "StageReverted"
                   /\ long[n].after = long[n].before - 1
                   /\ long[n].actor \in Admins
  <2>1. CASE n = top
    BY <1>1, <1>2, <2>1 DEF Had
  <2>2. CASE n # top
    <3>1. /\ n \in Moves(log) /\ n \in 1 .. Len(log)
          /\ long[n] = log[n] /\ StagesHad(long, n) = StagesHad(log, n)
      BY <1>1, <1>2, <1>3, <2>2
    <3>2. ~(top <= n)
      BY <1>1, <3>1
    <3>3. QED
      BY <1>3, <3>1, <3>2 DEF StageFollows
  <2>3. QED
    BY <2>1, <2>2
<1>5. QED
  BY <1>3, <1>4 DEF StageFollows, long

(* A rejection does as well, since it is no move.                          *)
LEMMA RejectionTold ==
  ASSUME NEW log \in Seq(AuditRow), NEW line \in AuditRow, NEW old, NEW new,
         StageFollows(old, log), new.stage = old.stage,
         line.action = "ApplicationRejected"
  PROVE  StageFollows(new, Append(log, line))
<1> DEFINE long == Append(log, line)
<1>1. /\ Len(log) \in Nat /\ DOMAIN log = 1 .. Len(log)
      /\ DOMAIN long = 1 .. Len(log) + 1
      /\ long[Len(log) + 1] = line
      /\ \A n \in 1 .. Len(log) : long[n] = log[n]
  BY Appended
<1>2. \A n \in 1 .. Len(log) + 1 : StagesHad(long, n) = StagesHad(log, n)
  BY HadAppended
<1> HIDE DEF long
<1>3. Moves(long) = Moves(log)
  BY <1>1 DEF Moves
<1>4. \A n \in Moves(log) :
        long[n] = log[n] /\ StagesHad(long, n) = StagesHad(log, n)
  BY <1>1, <1>2 DEF Moves
<1>5. QED
  BY <1>3, <1>4 DEF StageFollows, long

(* The last stage is reached, and the row is locked.                       *)
LEMMA EndTold ==
  ASSUME NEW log \in Seq(AuditRow), NEW line \in AuditRow, NEW new,
         line.action = "StageAdvanced", line.after = FINAL_STAGE,
         new.locked = TRUE
  PROVE  LockFollows(new, Append(log, line))
<1> DEFINE long == Append(log, line)
           top == Len(log) + 1
<1>1. /\ Len(log) \in Nat /\ DOMAIN long = 1 .. top /\ long[top] = line
  BY Appended
<1> HIDE DEF long
<1>2. top \in Ends(long)
  BY <1>1 DEF Ends
<1>3. Corrections(long, top) = {}
  BY <1>1 DEF Corrections
<1>4. QED
  BY <1>2, <1>3 DEF LockFollows, long

(* A line that is neither an end nor a correction leaves the lock's tale.  *)
LEMMA LockUntouched ==
  ASSUME NEW log \in Seq(AuditRow), NEW line \in AuditRow, NEW old, NEW new,
         LockFollows(old, log), new.locked = old.locked,
         line.action # "StageReverted",
         line.action = "StageAdvanced" => line.after # FINAL_STAGE
  PROVE  LockFollows(new, Append(log, line))
<1> DEFINE long == Append(log, line)
           top == Len(log) + 1
<1>1. /\ Len(log) \in Nat /\ DOMAIN log = 1 .. Len(log)
      /\ DOMAIN long = 1 .. top /\ long[top] = line
      /\ \A n \in 1 .. Len(log) : long[n] = log[n]
  BY Appended
<1> HIDE DEF long
<1>2. Ends(long) = Ends(log)
  BY <1>1 DEF Ends
<1>3. \A n \in Ends(log) : Corrections(long, n) = Corrections(log, n)
  BY <1>1 DEF Corrections
<1>4. \A n : \A m \in Corrections(log, n) : long[m] = log[m]
  BY <1>1 DEF Corrections
<1>5. QED
  BY <1>2, <1>3, <1>4 DEF LockFollows, long

(* A correction lifts the lock, or was decided on a copy that had none.    *)
LEMMA CorrectionTold ==
  ASSUME NEW log \in Seq(AuditRow), NEW line \in AuditRow, NEW old, NEW new,
         LockFollows(old, log), line.action = "StageReverted",
         \/ new.locked = FALSE
         \/ new.locked = old.locked /\ line.before # FINAL_STAGE
  PROVE  LockFollows(new, Append(log, line))
<1> DEFINE long == Append(log, line)
           top == Len(log) + 1
<1>1. /\ Len(log) \in Nat /\ DOMAIN log = 1 .. Len(log)
      /\ DOMAIN long = 1 .. top /\ long[top] = line
      /\ \A n \in 1 .. Len(log) : long[n] = log[n]
  BY Appended
<1> HIDE DEF long
<1>2. Ends(long) = Ends(log)
  BY <1>1 DEF Ends
<1>3. ASSUME NEW n \in Ends(log)
      PROVE  /\ Corrections(long, n) = Corrections(log, n) \cup {top}
             /\ \A m \in Corrections(log, n) : long[m] = log[m]
  <2>1. n \in 1 .. Len(log)
    BY <1>1 DEF Ends
  <2>2. QED
    BY <1>1, <2>1 DEF Corrections
<1>4. CASE new.locked = FALSE
  BY <1>2, <1>3, <1>4 DEF LockFollows, long
<1>5. CASE new.locked = old.locked /\ line.before # FINAL_STAGE
  <2>1. CASE old.locked
    <3>1. PICK n \in Ends(log) :
            \A m \in Corrections(log, n) : log[m].before # FINAL_STAGE
      BY <2>1 DEF LockFollows
    <3>2. \A m \in Corrections(log, n) : long[m] = log[m]
      BY <1>3
    <3>3. Corrections(long, n) = Corrections(log, n) \cup {top}
      BY <1>3
    <3>4. \A m \in Corrections(long, n) : long[m].before # FINAL_STAGE
      BY <1>1, <1>5, <3>1, <3>2, <3>3
    <3>5. n \in Ends(long) /\ new.locked
      BY <1>2, <1>5, <2>1
    <3>6. QED
      BY <3>4, <3>5 DEF LockFollows, long
  <2>2. CASE ~old.locked
    BY <1>2, <1>3, <1>5, <2>2 DEF LockFollows, long
  <2>3. QED
    BY <2>1, <2>2
<1>6. QED
  BY <1>4, <1>5

(* A copy stays what it was, or is a new one of the stored row.            *)
LEMMA CopiesStay ==
  ASSUME IInv, [Next]_vars, NEW h \in Handlers, InFlight(h)'
  PROVE  \/ /\ InFlight(h) /\ handler'[h].app = handler[h].app
            /\ handler'[h].seen = handler[h].seen
         \/ /\ handler'[h].app \in Apps
            /\ handler'[h].seen = applications[handler'[h].app]
            /\ UNCHANGED <<applications, writes>>
<1> DEFINE Same ==
      /\ InFlight(h) /\ handler'[h].app = handler[h].app
      /\ handler'[h].seen = handler[h].seen
<1>1. handler \in [Handlers -> {Idle} \cup Busy]
  BY DEF IInv, TypeOK
<1>2. handler'[h] = handler[h] => Same
  BY DEF InFlight
<1>3. ASSUME NEW k \in Handlers, Arrive(k)
      PROVE  \/ Same
             \/ /\ handler'[h].app \in Apps
                /\ handler'[h].seen = applications[handler'[h].app]
                /\ UNCHANGED <<applications, writes>>
  <2>1. PICK a \in Apps, u \in Users, op \in Ops,
             why \in Reasons \cup {None}, call \in Calls :
          Load(k, op, a, u, why, call)
    BY <1>3 DEF Arrive, submit, advanceStage, revertStage, reject, Ops, Calls
  <2>2. /\ handler' = [handler EXCEPT ![k] =
             [pc |-> call, op |-> op, app |-> a, actor |-> u, reason |-> why,
              seen |-> applications[a]]]
        /\ UNCHANGED <<applications, writes>>
    BY <2>1 DEF Load
  <2>3. CASE h = k
    BY <1>1, <2>2, <2>3
  <2>4. CASE h # k
    BY <1>1, <1>2, <2>2, <2>4
  <2>5. QED
    BY <2>3, <2>4
<1>4. ASSUME NEW k \in Handlers, Continue(k)
      PROVE  Same
  <2>1. InFlight(k)
    BY <1>4 DEF Continue, pendingMandatory, save, postSystem, announce,
      record, publish, At
  <2>2. \/ handler' = [handler EXCEPT ![k] = Idle]
        \/ \E call \in Calls :
             handler' = [handler EXCEPT ![k] = [@ EXCEPT !.pc = call]]
    BY <1>4 DEF Continue, pendingMandatory, save, postSystem, announce,
      record, publish, Leave, Goto, Calls
  <2>3. CASE h = k
    <3>1. PICK call : handler'[h] = [handler[h] EXCEPT !.pc = call]
      BY <1>1, <2>2, <2>3 DEF InFlight
    <3>2. handler[h] \in Busy
      BY <2>1, <2>3, BusyHandler DEF IInv
    <3>3. QED
      BY <2>1, <2>3, <3>1, <3>2 DEF Busy
  <2>4. CASE h # k
    BY <1>1, <1>2, <2>2, <2>4
  <2>5. QED
    BY <2>3, <2>4
<1>5. CASE \/ \E k \in Handlers : fail(k)
           \/ crash
           \/ \E a \in Apps : documentsChange(a)
  <2>1. handler'[h] = handler[h] \/ handler'[h] = Idle
    BY <1>1, <1>5 DEF fail, crash, documentsChange, Leave
  <2>2. QED
    BY <1>2, <2>1 DEF InFlight
<1>6. CASE UNCHANGED vars
  BY <1>2, <1>6 DEF vars
<1>7. QED
  BY <1>3, <1>4, <1>5, <1>6 DEF Next

(* What a save does to the row and the changes of its application.         *)
LEMMA SaveChanges ==
  ASSUME HInv, NEW h \in Handlers, save(h)
  PROVE  LET b == handler[h]
             a == handler[h].app
             line == auditRow(handler[h]) IN
         /\ b \in Busy /\ a \in Apps /\ CheckPassed(b)
         /\ b.seen \in Row /\ b.seen.stage \in Had(writes[a])
         /\ b.seen.stage = FINAL_STAGE => b.seen.locked
         /\ line \in AuditRow
         /\ applications[a] \in Row /\ applications'[a] \in Row
         /\ writes[a] \in Seq(AuditRow)
         /\ writes'[a] = Append(writes[a], line)
         /\ applications' = [applications EXCEPT ![a] = applications'[a]]
         /\ writes' = [writes EXCEPT ![a] = Append(writes[a], line)]
         /\ \/ /\ b.op \in {"submit", "advance"}
               /\ Moved(b, applications[a], applications'[a], line)
            \/ b.op = "revert"
               /\ Corrected(b, applications[a], applications'[a], line)
            \/ b.op = "reject"
               /\ Refused(b, applications[a], applications'[a], line)
<1> DEFINE b == handler[h]
           a == b.app
<1>1. InFlight(h) /\ IInv
  BY DEF HInv, save, At
<1>2. /\ b \in Busy /\ a \in Apps /\ b.seen \in Row /\ b.op \in Ops
      /\ CheckPassed(b) /\ ReasonGiven(b.seen)
  BY <1>1, BusyHandler DEF IInv, Busy
<1>3. /\ b.seen.stage \in Had(writes[a])
      /\ b.seen.stage = FINAL_STAGE => b.seen.locked
      /\ b.seen.submittedAt => applications[a].submittedAt
  BY <1>1 DEF HInv, Copies
<1>4. /\ applications \in [Apps -> Row]
      /\ writes \in [Apps -> Seq(AuditRow)]
      /\ applications[a] \in Row /\ writes[a] \in Seq(AuditRow)
  BY <1>1, <1>2 DEF IInv, TypeOK
<1>5. /\ applications' = [applications EXCEPT ![a] =
             merged(applications[a], b.seen, edited(b))]
      /\ writes' = [writes EXCEPT ![a] = Append(writes[a], auditRow(b))]
  BY DEF save
<1>6. /\ applications'[a] = merged(applications[a], b.seen, edited(b))
      /\ writes'[a] = Append(writes[a], auditRow(b))
  BY <1>2, <1>4, <1>5
<1>7. applications'[a] \in Row /\ auditRow(b) \in AuditRow
  BY <1>2, <1>4, <1>6, EditedFacts, MergedType, ReportType
<1>8. /\ b.op \in {"submit", "advance"} =>
           Moved(b, applications[a], applications'[a], auditRow(b))
      /\ b.op = "revert" =>
           Corrected(b, applications[a], applications'[a], auditRow(b))
      /\ b.op = "reject" =>
           Refused(b, applications[a], applications'[a], auditRow(b))
  BY <1>2, <1>3, <1>4, <1>6, ChangeKinds
<1>9. QED
  BY <1>2, <1>3, <1>4, <1>5, <1>6, <1>7, <1>8 DEF Ops

(* A save writes a row that the changes tell, and loses no stage and no    *)
(* submission.                                                             *)
LEMMA SaveTold ==
  ASSUME HInv, NEW h \in Handlers, save(h), NEW a \in Apps
  PROVE  /\ StageFollows(applications'[a], writes'[a])
         /\ LockFollows(applications'[a], writes'[a])
         /\ applications'[a].stage \in Had(writes'[a])
         /\ Had(writes[a]) \subseteq Had(writes'[a])
         /\ applications[a].submittedAt => applications'[a].submittedAt
<1> DEFINE b == handler[h]
           line == auditRow(b)
           old == applications[a]
           new == applications'[a]
           log == writes[a]
<1>1. /\ StageFollows(old, log) /\ LockFollows(old, log)
      /\ old.stage \in Had(log)
  BY DEF HInv, RowFollowsChanges, StagesKnown
<1>2. CASE a # b.app
  <2>1. applications'[a] = old /\ writes'[a] = log
    BY <1>2, SaveChanges DEF HInv, IInv, TypeOK
  <2>2. QED
    BY <1>1, <2>1
<1>3. CASE a = b.app
  <2>1. /\ b \in Busy /\ b.seen \in Row /\ b.seen.stage \in Had(log)
        /\ b.seen.stage = FINAL_STAGE => b.seen.locked
        /\ line \in AuditRow /\ old \in Row /\ new \in Row
        /\ log \in Seq(AuditRow) /\ writes'[a] = Append(log, line)
        /\ \/ Moved(b, old, new, line)
           \/ Corrected(b, old, new, line)
           \/ Refused(b, old, new, line)
    BY <1>3, SaveChanges
  <2>2. Had(writes'[a]) = Had(log) \cup {line.after}
    BY <2>1, HadAppended
  <2>3. FINAL_STAGE \in Int /\ Stage \subseteq Int /\ b.seen.stage \in Int
    BY <2>1, FinalStageAssumption DEF Row, Stage, FIRST_STAGE
  <2> HIDE DEF b, line, old, new, log
  <2>4. CASE Moved(b, old, new, line)
    <3>1. /\ new.stage = b.seen.stage + 1
          /\ new.locked = (old.locked \/ b.seen.stage + 1 = FINAL_STAGE)
          /\ old.submittedAt => new.submittedAt
          /\ line.action = "StageAdvanced" /\ line.before = b.seen.stage
          /\ line.after = b.seen.stage + 1
      BY <2>1, <2>4 DEF Moved, Row
    <3>2. StageFollows(new, Append(log, line))
      BY <1>1, <2>1, <3>1, MoveTold
    <3>3. LockFollows(new, Append(log, line))
      <4>1. CASE line.after = FINAL_STAGE
        BY <2>1, <3>1, <4>1, EndTold
      <4>2. CASE line.after # FINAL_STAGE
        <5>1. new.locked = old.locked
          BY <2>1, <3>1, <4>2 DEF Row
        <5>2. QED
          BY <1>1, <2>1, <3>1, <4>2, <5>1, LockUntouched
      <4>3. QED
        BY <4>1, <4>2
    <3>4. QED
      BY <2>1, <2>2, <3>1, <3>2, <3>3 DEF old, new, log, line
  <2>5. CASE Corrected(b, old, new, line)
    <3>1. /\ new.stage = b.seen.stage - 1
          /\ new.locked = (old.locked /\ ~b.seen.locked)
          /\ new.submittedAt = old.submittedAt
          /\ line.action = "StageReverted" /\ line.before = b.seen.stage
          /\ line.after = b.seen.stage - 1 /\ line.actor \in Admins
      BY <2>1, <2>5 DEF Corrected, Row
    <3>2. StageFollows(new, Append(log, line))
      BY <1>1, <2>1, <3>1, MoveTold
    <3>3. \/ new.locked = FALSE
          \/ new.locked = old.locked /\ line.before # FINAL_STAGE
      BY <2>1, <3>1 DEF Row
    <3>4. LockFollows(new, Append(log, line))
      BY <1>1, <2>1, <3>1, <3>3, CorrectionTold
    <3>5. QED
      BY <2>1, <2>2, <3>1, <3>2, <3>4 DEF old, new, log, line
  <2>6. CASE Refused(b, old, new, line)
    <3>1. /\ new.stage = old.stage /\ new.locked = old.locked
          /\ new.submittedAt = old.submittedAt
          /\ line.action = "ApplicationRejected"
      BY <2>1, <2>6 DEF Refused, Row
    <3>2. StageFollows(new, Append(log, line))
      BY <1>1, <2>1, <3>1, RejectionTold
    <3>3. LockFollows(new, Append(log, line))
      BY <1>1, <2>1, <3>1, LockUntouched
    <3>4. QED
      BY <1>1, <2>1, <2>2, <3>1, <3>2, <3>3 DEF old, new, log, line
  <2>7. QED
    BY <2>1, <2>4, <2>5, <2>6
<1>4. QED
  BY <1>2, <1>3

(* Only a save adds a change.                                              *)
LEMMA OnlySaveChanges ==
  ASSUME IInv, [Next]_vars
  PROVE  \/ UNCHANGED <<applications, writes>>
         \/ \E h \in Handlers : save(h)
<1>1. ASSUME NEW h \in Handlers, Arrive(h)
      PROVE  UNCHANGED <<applications, writes>>
  BY <1>1 DEF Arrive, submit, advanceStage, revertStage, reject, Load
<1>2. ASSUME NEW h \in Handlers, Continue(h)
      PROVE  UNCHANGED <<applications, writes>> \/ save(h)
  BY <1>2 DEF Continue, pendingMandatory, postSystem, announce, record,
    publish
<1>3. CASE \/ \E h \in Handlers : fail(h)
           \/ crash
           \/ \E a \in Apps : documentsChange(a)
           \/ UNCHANGED vars
  BY <1>3 DEF fail, crash, documentsChange, vars
<1>4. QED
  BY <1>1, <1>2, <1>3 DEF Next

LEMMA NextHInv == HInv /\ [Next]_vars => HInv'
<1> SUFFICES ASSUME HInv, [Next]_vars PROVE HInv'
  OBVIOUS
<1>1. IInv /\ IInv'
  BY NextIInv DEF HInv
<1>2. \A a \in Apps :
        /\ StageFollows(applications'[a], writes'[a])
        /\ LockFollows(applications'[a], writes'[a])
        /\ applications'[a].stage \in Had(writes'[a])
        /\ Had(writes[a]) \subseteq Had(writes'[a])
        /\ applications[a].submittedAt => applications'[a].submittedAt
  <2>1. CASE UNCHANGED <<applications, writes>>
    BY <2>1 DEF HInv, RowFollowsChanges, StagesKnown
  <2>2. CASE \E h \in Handlers : save(h)
    BY <2>2, SaveTold
  <2>3. QED
    BY <1>1, <2>1, <2>2, OnlySaveChanges
<1>3. RowFollowsChanges' /\ StagesKnown'
  BY <1>2 DEF RowFollowsChanges, StagesKnown
<1>4. Copies'
  <2> SUFFICES ASSUME NEW h \in Handlers, InFlight(h)'
               PROVE  LET b == handler'[h] IN
                      /\ b.seen.stage \in Had(writes'[b.app])
                      /\ b.seen.submittedAt =>
                           applications'[b.app].submittedAt
                      /\ b.seen.stage = FINAL_STAGE => b.seen.locked
    BY DEF Copies
  <2>1. CASE /\ InFlight(h) /\ handler'[h].app = handler[h].app
             /\ handler'[h].seen = handler[h].seen
    <3>1. handler[h].app \in Apps
      BY <1>1, <2>1, BusyHandler DEF IInv
    <3>2. QED
      BY <1>2, <2>1, <3>1 DEF HInv, Copies
  <2>2. CASE /\ handler'[h].app \in Apps
             /\ handler'[h].seen = applications[handler'[h].app]
             /\ UNCHANGED <<applications, writes>>
    BY <1>1, <2>2 DEF HInv, StagesKnown, IInv, DisbursedLocked
  <2>3. QED
    BY <1>1, <2>1, <2>2, CopiesStay
<1>5. QED
  BY <1>1, <1>3, <1>4 DEF HInv

LEMMA InitHInv == Init => HInv
<1> SUFFICES ASSUME Init PROVE HInv
  OBVIOUS
<1>1. IInv /\ Copies
  BY InitIInv DEF Init, Copies, InFlight
<1>2. ASSUME NEW a \in Apps
      PROVE  /\ StageFollows(applications[a], writes[a])
             /\ LockFollows(applications[a], writes[a])
             /\ applications[a].stage \in Had(writes[a])
  <2>1. /\ applications[a].stage = FIRST_STAGE /\ ~applications[a].locked
        /\ writes[a] = << >>
    BY <1>2 DEF Init, NewRow
  <2>2. Moves(writes[a]) = {} /\ Ends(writes[a]) = {}
    BY <2>1 DEF Moves, Ends
  <2>3. QED
    BY <2>1, <2>2 DEF StageFollows, LockFollows, Had, StagesHad
<1>3. QED
  BY <1>1, <1>2 DEF HInv, StagesKnown, RowFollowsChanges

LEMMA HInvariance == Spec => []HInv
BY InitHInv, NextHInv, PTL DEF Spec

(* Stage and lock of the stored row are what the saved changes tell        *)
(* (applyStageChange, revertStage and reject of applications.service.ts,   *)
(* each saving a copy loaded some calls before): the last move led to the  *)
(* stage, every move started at a stage the application has had and went   *)
(* one stage, back only by an administrator; and the lock is there just    *)
(* when the last stage was reached and not corrected since.                *)
THEOREM ChangesTellRow == Spec => []RowFollowsChanges
BY HInvariance, PTL DEF HInv
-----------------------------------------------------------------------------
(* The audit trail, for every interleaving: row by row, what has been      *)
(* saved and not recorded is in a handler's hands, or was lost with one.   *)

Positions(log, row) == {i \in DOMAIN log : log[i] = row}

Carrying(a, row) == {h \in Unrecorded(a) : auditRow(handler[h]) = row}

Missing(a, row) ==
  Cardinality(Positions(writes[a], row)) - Cardinality(Positions(audit[a], row))

(* With extra rows missing on top of those that handlers carry.            *)
Balanced(a, row) ==
  /\ Missing(a, row) >= Cardinality(Carrying(a, row))
  /\ Missing(a, row) <= Cardinality(Carrying(a, row)) + failures

Ledger == \A a \in Apps, row \in AuditRow : Balanced(a, row)

Recording == {"postSystem", "announce", "record"}

LEMMA PositionsAppended ==
  ASSUME NEW S, NEW log \in Seq(S), NEW x \in S, NEW row
  PROVE  /\ Cardinality(Positions(log, row)) \in Nat
         /\ Cardinality(Positions(Append(log, x), row)) =
              Cardinality(Positions(log, row)) + IF x = row THEN 1 ELSE 0
<1> DEFINE n == Len(log) + 1
<1>1. /\ Len(log) \in Nat /\ DOMAIN log = 1 .. Len(log)
      /\ DOMAIN Append(log, x) = 1 .. n /\ Append(log, x)[n] = x
      /\ \A m \in 1 .. Len(log) : Append(log, x)[m] = log[m]
  BY AppendProperties
<1>2. Positions(log, row) \subseteq 1 .. Len(log)
  BY <1>1 DEF Positions
<1>3. IsFiniteSet(1 .. Len(log))
  BY <1>1, FS_Interval
<1>4. IsFiniteSet(Positions(log, row))
  BY <1>2, <1>3, FS_Subset
<1>5. Cardinality(Positions(log, row)) \in Nat
  BY <1>4, FS_CardinalityType
<1>6. Positions(Append(log, x), row) =
        Positions(log, row) \cup {m \in {n} : x = row}
  <2>1. 1 .. n = (1 .. Len(log)) \cup {n} /\ n \notin 1 .. Len(log)
    BY <1>1
  <2> QED
    BY <1>1, <2>1 DEF Positions
<1>7. n \notin Positions(log, row)
  BY <1>1, <1>2
<1> HIDE DEF n
<1>8. CASE x = row
  <2>1. Positions(Append(log, x), row) = Positions(log, row) \cup {n}
    BY <1>6, <1>8
  <2>2. Cardinality(Positions(log, row) \cup {n}) =
          Cardinality(Positions(log, row)) + 1
    BY <1>4, <1>7, FS_AddElement
  <2> QED
    BY <1>5, <1>8, <2>1, <2>2
<1>9. CASE x # row
  <2>1. Positions(Append(log, x), row) = Positions(log, row)
    BY <1>6, <1>9
  <2> QED
    BY <1>5, <1>9, <2>1
<1> QED
  BY <1>5, <1>8, <1>9

LEMMA CarryingFinite ==
  ASSUME NEW a, NEW row
  PROVE  IsFiniteSet(Carrying(a, row)) /\ Cardinality(Carrying(a, row)) \in Nat
<1>1. Carrying(a, row) \subseteq Handlers
  BY DEF Carrying, Unrecorded
<1>2. IsFiniteSet(Carrying(a, row))
  BY <1>1, HandlersAssumption, FS_Subset
<1>3. Cardinality(Carrying(a, row)) \in Nat
  BY <1>2, FS_CardinalityType
<1> QED
  BY <1>2, <1>3

LEMMA CarryingMember ==
  ASSUME IInv, NEW a, NEW row, NEW h \in Handlers
  PROVE  h \in Carrying(a, row) <=>
           /\ handler[h].pc \in Recording /\ handler[h].app = a
           /\ auditRow(handler[h]) = row
<1>1. handler[h].pc \in Recording => InFlight(h)
  BY DEF InFlight, Idle, Recording
<1> QED
  BY <1>1 DEF Carrying, Unrecorded, Recording

LEMMA CarryingNext ==
  ASSUME IInv', NEW a, NEW row, NEW h \in Handlers
  PROVE  h \in Carrying(a, row)' <=>
           /\ handler'[h].pc \in Recording /\ handler'[h].app = a
           /\ auditRow(handler'[h]) = row
<1>1. handler'[h].pc \in Recording => InFlight(h)'
  BY DEF InFlight, Idle, Recording
<1> QED
  BY <1>1 DEF Carrying, Unrecorded, Recording

(* Every handler keeps what it has to record, or has nothing.              *)
Unmoved ==
  \A h \in Handlers :
    \/ handler'[h] = handler[h]
    \/ handler[h].pc \notin Recording /\ handler'[h].pc \notin Recording
    \/ /\ handler[h].pc \in Recording /\ handler'[h].pc \in Recording
       /\ handler'[h].app = handler[h].app
       /\ auditRow(handler'[h]) = auditRow(handler[h])

LEMMA UnmovedCarriers ==
  ASSUME IInv, IInv', Unmoved, NEW a, NEW row
  PROVE  Carrying(a, row)' = Carrying(a, row)
<1>1. \A h \in Handlers : h \in Carrying(a, row)' <=> h \in Carrying(a, row)
  BY CarryingMember, CarryingNext DEF Unmoved
<1>2. /\ Carrying(a, row) \subseteq Handlers
      /\ Carrying(a, row)' \subseteq Handlers
  BY DEF Carrying, Unrecorded
<1> QED
  BY <1>1, <1>2

(* One handler takes a row into its hands, or lets one go.                 *)
LEMMA CarryingStep ==
  ASSUME IInv, IInv', NEW h \in Handlers, NEW a, NEW row,
         \A k \in Handlers : k # h => handler'[k] = handler[k]
  PROVE  /\ h \in Carrying(a, row) /\ h \notin Carrying(a, row)' =>
              Cardinality(Carrying(a, row)') = Cardinality(Carrying(a, row)) - 1
         /\ h \notin Carrying(a, row) /\ h \in Carrying(a, row)' =>
              Cardinality(Carrying(a, row)') = Cardinality(Carrying(a, row)) + 1
         /\ (h \in Carrying(a, row) <=> h \in Carrying(a, row)') =>
              Cardinality(Carrying(a, row)') = Cardinality(Carrying(a, row))
<1>1. PICK S : S = Carrying(a, row)
  OBVIOUS
<1>2. PICK T : T = Carrying(a, row)'
  OBVIOUS
<1>3. \A k \in Handlers : k # h => (k \in T <=> k \in S)
  BY <1>1, <1>2, CarryingMember, CarryingNext
<1>4. S \subseteq Handlers /\ T \subseteq Handlers
  BY <1>1, <1>2 DEF Carrying, Unrecorded
<1>5. IsFiniteSet(S) /\ Cardinality(S) \in Nat
  BY <1>1, CarryingFinite
<1>6. ASSUME h \in S, h \notin T PROVE Cardinality(T) = Cardinality(S) - 1
  <2>1. T = S \ {h}
    BY <1>3, <1>4, <1>6
  <2>2. Cardinality(S \ {h}) = Cardinality(S) - 1
    BY <1>5, <1>6, FS_RemoveElement
  <2> QED
    BY <2>1, <2>2
<1>7. ASSUME h \notin S, h \in T PROVE Cardinality(T) = Cardinality(S) + 1
  <2>1. T = S \cup {h}
    BY <1>3, <1>4, <1>7
  <2>2. Cardinality(S \cup {h}) = Cardinality(S) + 1
    BY <1>5, <1>7, FS_AddElement
  <2> QED
    BY <2>1, <2>2
<1>8. ASSUME h \in S <=> h \in T PROVE T = S
  BY <1>3, <1>4, <1>8
<1> QED
  BY <1>1, <1>2, <1>6, <1>7, <1>8

(* A handler that goes on to a call.                                       *)
LEMMA CarrierGoes ==
  ASSUME IInv, NEW h \in Handlers, InFlight(h), NEW call, Goto(h, call)
  PROVE  /\ handler[h] \in Busy /\ handler[h].app \in Apps
         /\ handler'[h].pc = call /\ handler'[h].app = handler[h].app
         /\ auditRow(handler'[h]) = auditRow(handler[h])
         /\ auditRow(handler[h]) \in AuditRow
         /\ \A k \in Handlers : k # h => handler'[k] = handler[k]
<1>1. /\ handler[h] \in Busy /\ handler[h].app \in Apps
      /\ CheckPassed(handler[h])
  BY BusyHandler DEF IInv
<1>2. /\ handler'[h] = [handler[h] EXCEPT !.pc = call]
      /\ \A k \in Handlers : k # h => handler'[k] = handler[k]
  BY DEF Goto, IInv, TypeOK
<1>3. handler'[h].pc = call /\ handler'[h].app = handler[h].app
  BY <1>1, <1>2 DEF Busy
<1>4. auditRow(handler'[h]) = auditRow(handler[h])
  BY <1>1, <1>2, SameReport
<1>5. auditRow(handler[h]) \in AuditRow
  BY <1>1, ReportType
<1> QED
  BY <1>1, <1>2, <1>3, <1>4, <1>5

LEMMA SaveLedger ==
  ASSUME IInv, Ledger, NEW h \in Handlers, save(h)
  PROVE  Ledger'
<1> DEFINE b == handler[h]
<1>1. /\ InFlight(h) /\ b.pc = "save" /\ Goto(h, "postSystem")
      /\ writes' = [writes EXCEPT ![b.app] = Append(writes[b.app], auditRow(b))]
      /\ UNCHANGED <<audit, failures>>
  BY DEF save, At
<1>2. IInv'
  BY SaveIInv
<1>3. /\ b.app \in Apps /\ auditRow(b) \in AuditRow
      /\ handler'[h].pc = "postSystem" /\ handler'[h].app = b.app
      /\ auditRow(handler'[h]) = auditRow(b)
      /\ \A k \in Handlers : k # h => handler'[k] = handler[k]
  BY <1>1, CarrierGoes
<1>4. writes \in [Apps -> Seq(AuditRow)] /\ audit \in [Apps -> Seq(AuditRow)]
      /\ failures \in Nat
  BY DEF IInv, TypeOK
<1> SUFFICES ASSUME NEW a \in Apps, NEW row \in AuditRow PROVE Balanced(a, row)'
  BY DEF Ledger
<1>5. Balanced(a, row)
  BY DEF Ledger
<1>6. PICK due : due = IF b.app = a /\ auditRow(b) = row THEN 1 ELSE 0
  OBVIOUS
<1>7. Cardinality(Carrying(a, row)') = Cardinality(Carrying(a, row)) + due
  <2>1. h \notin Carrying(a, row)
    BY <1>1, CarryingMember DEF Recording
  <2>2. h \in Carrying(a, row)' <=> b.app = a /\ auditRow(b) = row
    BY <1>2, <1>3, CarryingNext DEF Recording
  <2>3. Cardinality(Carrying(a, row)) \in Nat
    BY CarryingFinite
  <2> QED
    BY <1>2, <1>3, <1>6, <2>1, <2>2, <2>3, CarryingStep
<1>8. Cardinality(Positions(writes'[a], row)) =
        Cardinality(Positions(writes[a], row)) + due
  <2>1. writes'[a] = IF b.app = a THEN Append(writes[a], auditRow(b))
                     ELSE writes[a]
    BY <1>1, <1>3, <1>4
  <2>2. writes[a] \in Seq(AuditRow)
    BY <1>4
  <2>3. /\ Cardinality(Positions(writes[a], row)) \in Nat
        /\ Cardinality(Positions(Append(writes[a], auditRow(b)), row)) =
             Cardinality(Positions(writes[a], row)) +
               IF auditRow(b) = row THEN 1 ELSE 0
    BY <1>3, <2>2, PositionsAppended
  <2> QED
    BY <1>6, <2>1, <2>3
<1>9. /\ Cardinality(Positions(writes[a], row)) \in Nat
      /\ Cardinality(Positions(audit[a], row)) \in Nat
      /\ Cardinality(Carrying(a, row)) \in Nat
  <2>1. writes[a] \in Seq(AuditRow) /\ audit[a] \in Seq(AuditRow)
    BY <1>4
  <2> QED
    BY <1>3, <2>1, PositionsAppended, CarryingFinite
<1>10. Missing(a, row)' = Missing(a, row) + due
  <2>1. Missing(a, row)' = Cardinality(Positions(writes'[a], row)) -
                             Cardinality(Positions(audit[a], row))
    BY <1>1 DEF Missing
  <2> QED
    BY <1>6, <1>8, <1>9, <2>1 DEF Missing
<1> QED
  BY <1>1, <1>4, <1>5, <1>6, <1>7, <1>9, <1>10 DEF Balanced, Missing

LEMMA RecordLedger ==
  ASSUME IInv, Ledger, NEW h \in Handlers, record(h)
  PROVE  Ledger'
<1> DEFINE b == handler[h]
<1>1. /\ InFlight(h) /\ b.pc = "record" /\ Goto(h, "publish")
      /\ audit' = [audit EXCEPT ![b.app] = Append(audit[b.app], auditRow(b))]
      /\ UNCHANGED <<writes, failures>>
  BY DEF record, At
<1>2. IInv'
  BY ReportIInv
<1>3. /\ b.app \in Apps /\ auditRow(b) \in AuditRow
      /\ handler'[h].pc = "publish"
      /\ \A k \in Handlers : k # h => handler'[k] = handler[k]
  BY <1>1, CarrierGoes
<1>4. writes \in [Apps -> Seq(AuditRow)] /\ audit \in [Apps -> Seq(AuditRow)]
      /\ failures \in Nat
  BY DEF IInv, TypeOK
<1> SUFFICES ASSUME NEW a \in Apps, NEW row \in AuditRow PROVE Balanced(a, row)'
  BY DEF Ledger
<1>5. Balanced(a, row)
  BY DEF Ledger
<1>6. PICK due : due = IF b.app = a /\ auditRow(b) = row THEN 1 ELSE 0
  OBVIOUS
<1>7. Cardinality(Carrying(a, row)') = Cardinality(Carrying(a, row)) - due
  <2>1. h \in Carrying(a, row) <=> b.app = a /\ auditRow(b) = row
    BY <1>1, CarryingMember DEF Recording
  <2>2. h \notin Carrying(a, row)'
    BY <1>2, <1>3, CarryingNext DEF Recording
  <2>3. Cardinality(Carrying(a, row)) \in Nat
    BY CarryingFinite
  <2> QED
    BY <1>2, <1>3, <1>6, <2>1, <2>2, <2>3, CarryingStep
<1>8. Cardinality(Positions(audit'[a], row)) =
        Cardinality(Positions(audit[a], row)) + due
  <2>1. audit'[a] = IF b.app = a THEN Append(audit[a], auditRow(b))
                    ELSE audit[a]
    BY <1>1, <1>3, <1>4
  <2>2. audit[a] \in Seq(AuditRow)
    BY <1>4
  <2>3. /\ Cardinality(Positions(audit[a], row)) \in Nat
        /\ Cardinality(Positions(Append(audit[a], auditRow(b)), row)) =
             Cardinality(Positions(audit[a], row)) +
               IF auditRow(b) = row THEN 1 ELSE 0
    BY <1>3, <2>2, PositionsAppended
  <2> QED
    BY <1>6, <2>1, <2>3
<1>9. /\ Cardinality(Positions(writes[a], row)) \in Nat
      /\ Cardinality(Positions(audit[a], row)) \in Nat
      /\ Cardinality(Carrying(a, row)) \in Nat
  <2>1. writes[a] \in Seq(AuditRow) /\ audit[a] \in Seq(AuditRow)
    BY <1>4
  <2> QED
    BY <1>3, <2>1, PositionsAppended, CarryingFinite
<1>10. Missing(a, row)' = Missing(a, row) - due
  <2>1. Missing(a, row)' = Cardinality(Positions(writes[a], row)) -
                             Cardinality(Positions(audit'[a], row))
    BY <1>1 DEF Missing
  <2> QED
    BY <1>6, <1>8, <1>9, <2>1 DEF Missing
<1> QED
  BY <1>1, <1>4, <1>5, <1>6, <1>7, <1>9, <1>10 DEF Balanced, Missing

(* A handler that is lost takes at most one row with it.                   *)
LEMMA FailLedger ==
  ASSUME IInv, Ledger, NEW h \in Handlers, fail(h)
  PROVE  Ledger'
<1>1. /\ handler' = [handler EXCEPT ![h] = Idle]
      /\ failures' = failures + 1 /\ UNCHANGED <<writes, audit>>
  BY DEF fail, Leave
<1>2. IInv'
  BY LossIInv
<1>3. /\ handler'[h].pc = "idle"
      /\ \A k \in Handlers : k # h => handler'[k] = handler[k]
  BY <1>1 DEF IInv, TypeOK, Idle
<1>4. writes \in [Apps -> Seq(AuditRow)] /\ audit \in [Apps -> Seq(AuditRow)]
      /\ failures \in Nat
  BY DEF IInv, TypeOK
<1> SUFFICES ASSUME NEW a \in Apps, NEW row \in AuditRow PROVE Balanced(a, row)'
  BY DEF Ledger
<1>5. Balanced(a, row) /\ Missing(a, row)' = Missing(a, row)
  BY <1>1 DEF Ledger, Missing
<1>6. /\ Cardinality(Carrying(a, row)') <= Cardinality(Carrying(a, row))
      /\ Cardinality(Carrying(a, row)') >= Cardinality(Carrying(a, row)) - 1
      /\ Cardinality(Carrying(a, row)') \in Int
  <2>1. h \notin Carrying(a, row)'
    BY <1>2, <1>3, CarryingNext DEF Recording
  <2>2. Cardinality(Carrying(a, row)) \in Nat
    BY CarryingFinite
  <2> QED
    BY <1>2, <1>3, <2>1, <2>2, CarryingStep
<1>7. Missing(a, row) \in Int /\ Cardinality(Carrying(a, row)) \in Nat
  <2>1. writes[a] \in Seq(AuditRow) /\ audit[a] \in Seq(AuditRow)
    BY <1>4
  <2>2. /\ Cardinality(Positions(writes[a], row)) \in Nat
        /\ Cardinality(Positions(audit[a], row)) \in Nat
    BY <2>1, PositionsAppended
  <2> QED
    BY <2>2, CarryingFinite DEF Missing
<1> QED
  BY <1>1, <1>4, <1>5, <1>6, <1>7 DEF Balanced

LEMMA CrashLedger ==
  ASSUME IInv, Ledger, crash
  PROVE  Ledger'
<1> DEFINE lost == {h \in Handlers : InFlight(h)}
<1>1. /\ handler' = [h \in Handlers |-> Idle]
      /\ failures' = failures + Cardinality(lost) /\ UNCHANGED <<writes, audit>>
  BY DEF crash
<1>2. IInv'
  BY LossIInv
<1>3. writes \in [Apps -> Seq(AuditRow)] /\ audit \in [Apps -> Seq(AuditRow)]
      /\ failures \in Nat
  BY DEF IInv, TypeOK
<1> SUFFICES ASSUME NEW a \in Apps, NEW row \in AuditRow PROVE Balanced(a, row)'
  BY DEF Ledger
<1>4. Balanced(a, row) /\ Missing(a, row)' = Missing(a, row)
  BY <1>1 DEF Ledger, Missing
<1>5. Carrying(a, row)' = {}
  BY <1>1 DEF Carrying, Unrecorded, InFlight
<1>6. Cardinality(Carrying(a, row)') = 0
  BY <1>5, FS_EmptySet
<1>7. Carrying(a, row) \subseteq lost /\ IsFiniteSet(lost)
  <2>1. lost \subseteq Handlers
    OBVIOUS
  <2>2. IsFiniteSet(lost)
    BY <2>1, HandlersAssumption, FS_Subset
  <2> QED
    BY <2>2 DEF Carrying, Unrecorded
<1> HIDE DEF lost
<1>8. Cardinality(Carrying(a, row)) <= Cardinality(lost)
  BY <1>7, FS_Subset
<1>9. Cardinality(lost) \in Nat
  BY <1>7, FS_CardinalityType
<1>10. Missing(a, row) \in Int /\ Cardinality(Carrying(a, row)) \in Nat
  <2>1. writes[a] \in Seq(AuditRow) /\ audit[a] \in Seq(AuditRow)
    BY <1>3
  <2>2. /\ Cardinality(Positions(writes[a], row)) \in Nat
        /\ Cardinality(Positions(audit[a], row)) \in Nat
    BY <2>1, PositionsAppended
  <2> QED
    BY <2>2, CarryingFinite DEF Missing
<1> QED
  BY <1>1, <1>3, <1>4, <1>6, <1>8, <1>9, <1>10 DEF Balanced

(* The steps that the trail is about, and all the others.                  *)
LEMMA StepKinds ==
  ASSUME IInv, [Next]_vars
  PROVE  \/ \E h \in Handlers : save(h) \/ record(h) \/ fail(h)
         \/ crash
         \/ UNCHANGED <<applications, writes, audit, failures>> /\ Unmoved
<1> DEFINE Goal ==
      UNCHANGED <<applications, writes, audit, failures>> /\ Unmoved
<1>1. ASSUME NEW h \in Handlers, Arrive(h)
      PROVE  Goal
  <2>1. PICK a \in Apps, u \in Users, op \in Ops,
             why \in Reasons \cup {None}, call \in {"pendingMandatory", "save"} :
          Load(h, op, a, u, why, call)
    BY <1>1 DEF Arrive, submit, advanceStage, revertStage, reject, Ops
  <2>2. /\ handler' = [handler EXCEPT ![h] =
             [pc |-> call, op |-> op, app |-> a, actor |-> u, reason |-> why,
              seen |-> applications[a]]]
        /\ handler[h] = Idle
        /\ UNCHANGED <<applications, writes, audit, failures>>
    BY <2>1 DEF Load, InFlight
  <2>3. /\ handler[h].pc \notin Recording /\ handler'[h].pc \notin Recording
        /\ \A k \in Handlers : k # h => handler'[k] = handler[k]
    BY <2>2 DEF IInv, TypeOK, Idle, Recording
  <2> QED
    BY <2>2, <2>3 DEF Unmoved
<1>2. ASSUME NEW h \in Handlers,
             pendingMandatory(h) \/ postSystem(h) \/ announce(h) \/ publish(h)
      PROVE  Goal
  <2>1. /\ InFlight(h)
        /\ UNCHANGED <<applications, writes, audit, failures>>
    BY <1>2 DEF pendingMandatory, postSystem, announce, publish, At
  <2>2. CASE Leave(h) /\ handler[h].pc \in {"pendingMandatory", "publish"}
    <3>1. /\ handler'[h].pc \notin Recording
          /\ \A k \in Handlers : k # h => handler'[k] = handler[k]
      BY <2>2 DEF Leave, IInv, TypeOK, Idle, Recording
    <3> QED
      BY <2>1, <2>2, <3>1 DEF Unmoved, Recording
  <2>3. ASSUME NEW call, Goto(h, call),
               call \in Recording <=> handler[h].pc \in Recording
        PROVE  Goal
    <3>1. /\ handler'[h].pc = call /\ handler'[h].app = handler[h].app
          /\ auditRow(handler'[h]) = auditRow(handler[h])
          /\ \A k \in Handlers : k # h => handler'[k] = handler[k]
      BY <2>1, <2>3, CarrierGoes
    <3> QED
      BY <2>1, <2>3, <3>1 DEF Unmoved
  <2>4. \/ Leave(h) /\ handler[h].pc \in {"pendingMandatory", "publish"}
        \/ Goto(h, "save") /\ handler[h].pc = "pendingMandatory"
        \/ Goto(h, "announce") /\ handler[h].pc = "postSystem"
        \/ Goto(h, "record") /\ handler[h].pc = "announce"
    BY <1>2 DEF pendingMandatory, postSystem, announce, publish, At
  <2> QED
    BY <2>2, <2>3, <2>4 DEF Recording
<1>3. CASE UNCHANGED vars \/ \E a \in Apps : documentsChange(a)
  BY <1>3 DEF vars, documentsChange, Unmoved
<1> QED
  BY <1>1, <1>2, <1>3 DEF Next, Continue

LEMMA LedgerStep ==
  ASSUME IInv, Ledger, [Next]_vars
  PROVE  Ledger'
<1>1. CASE UNCHANGED <<writes, audit, failures>> /\ Unmoved
  <2> SUFFICES ASSUME NEW a \in Apps, NEW row \in AuditRow
               PROVE  Balanced(a, row)'
    BY DEF Ledger
  <2>1. Carrying(a, row)' = Carrying(a, row)
    BY <1>1, NextIInv, UnmovedCarriers
  <2>2. Missing(a, row)' = Missing(a, row)
    BY <1>1 DEF Missing
  <2> QED
    BY <1>1, <2>1, <2>2 DEF Balanced, Ledger
<1> QED
  BY <1>1, StepKinds, SaveLedger, RecordLedger, FailLedger, CrashLedger

LEMMA InitLedger == Init => Ledger
<1> SUFFICES ASSUME Init, NEW a \in Apps, NEW row \in AuditRow
             PROVE  Balanced(a, row)
  BY DEF Ledger
<1>1. Carrying(a, row) = {} /\ failures = 0
  BY DEF Init, Carrying, Unrecorded, InFlight
<1>2. Positions(writes[a], row) = {} /\ Positions(audit[a], row) = {}
  BY DEF Init, Positions
<1>3. Cardinality({}) = 0
  BY FS_EmptySet
<1> QED
  BY <1>1, <1>2, <1>3 DEF Balanced, Missing

(* The audit trail against the saves, row by row (the save and the later   *)
(* auditService.record of applications.service.ts): nothing is recorded    *)
(* that was not saved, nothing twice, and what is missing is in the hands  *)
(* of a handler that has still to record it or was lost with one.          *)
THEOREM AuditIsAccountedFor == Spec => []AuditAccounts
<1>1. IInv /\ Ledger => AuditAccounts
  <2> SUFFICES ASSUME IInv, Ledger, NEW a \in Apps,
                      NEW i \in DOMAIN writes[a] \cup DOMAIN audit[a], NEW row,
                      row = IF i \in DOMAIN audit[a] THEN audit[a][i]
                            ELSE writes[a][i]
               PROVE  Balanced(a, row)
    BY DEF AuditAccounts, Times, Balanced, Missing, Positions, Carrying
  <2>1. writes[a] \in Seq(AuditRow) /\ audit[a] \in Seq(AuditRow)
    BY DEF IInv, TypeOK
  <2>2. row \in AuditRow
    BY <2>1
  <2> QED
    BY <2>2 DEF Ledger
<1>2. IInv /\ Ledger /\ [Next]_vars => Ledger'
  BY LedgerStep
<1> QED
  BY Invariance, InitLedger, <1>1, <1>2, PTL DEF Spec

-----------------------------------------------------------------------------
(* What is reported of a change: a message, an event of it, an audit row   *)
(* and the event of the change, in this order.  Each has its log and the   *)
(* calls at which a handler has still to write it.                         *)

Reports == {"postSystem", "announce", "record", "publish"}

Until(r) ==
  {"postSystem"} \cup
  (IF r = "postSystem" THEN {} ELSE {"announce"}) \cup
  (IF r \in {"postSystem", "announce"} THEN {} ELSE {"record"}) \cup
  (IF r = "publish" THEN {"publish"} ELSE {})

Content(r, a, line) ==
  CASE r = "postSystem" -> Promise!messageOf(line)
    [] r = "announce" -> Promise!messageEventOf(line)
    [] r = "record" -> line
    [] r = "publish" -> Promise!changeEventOf(a, line)

Log(r, a) ==
  CASE r = "postSystem" -> thread[a]
    [] r \in {"announce", "publish"} -> events[a]
    [] r = "record" -> audit[a]

(* The two reports that share a log differ by the type of the event.       *)
OfKind(r, x) ==
  /\ r = "announce" => x.type = "message.created"
  /\ r = "publish" => x.type # "message.created"

DueAt(r, a, x) == {n \in DOMAIN writes[a] : Content(r, a, writes[a][n]) = x}

Owing(r, a, x) ==
  {h \in Handlers : /\ InFlight(h)
                    /\ handler[h].app = a
                    /\ handler[h].pc \in Until(r)
                    /\ Content(r, a, auditRow(handler[h])) = x}

(* What was written and what handlers have still to write was due.         *)
Covered(r, a, x) ==
  Cardinality(Owing(r, a, x)) + Cardinality(Positions(Log(r, a), x))
    <= Cardinality(DueAt(r, a, x))

Accounts ==
  \A r \in Reports, a \in Apps : \A x : OfKind(r, x) => Covered(r, a, x)

LEMMA ContentWritten ==
  ASSUME NEW b \in Busy
  PROVE  /\ Content("postSystem", b.app, auditRow(b)) = systemMessage(b)
         /\ Content("announce", b.app, auditRow(b)) = messageEvent(b)
         /\ Content("record", b.app, auditRow(b)) = auditRow(b)
         /\ Content("publish", b.app, auditRow(b)) = changeEvent(b)
         /\ OfKind("announce", messageEvent(b))
         /\ OfKind("publish", changeEvent(b))
<1>1. /\ auditRow(b).action = action(b.op)
      /\ auditRow(b).after = edited(b).stage
      /\ auditRow(b).reason = b.reason
  BY DEF auditRow
<1>2. /\ action(b.op) = "ApplicationRejected" <=> b.op = "reject"
      /\ action(b.op) = "StageReverted" <=> b.op = "revert"
  BY DEF Busy, Ops, action
<1>3. Promise!messageOf(auditRow(b)) = systemMessage(b)
  BY <1>1 DEF Promise!messageOf, systemMessage
<1>4. Promise!messageEventOf(auditRow(b)) = messageEvent(b)
  BY <1>1 DEF Promise!messageEventOf, messageEvent
<1>5. Promise!changeEventOf(b.app, auditRow(b)) = changeEvent(b)
  BY <1>1, <1>2 DEF Promise!changeEventOf, changeEvent
<1>6. /\ messageEvent(b).type = "message.created"
      /\ changeEvent(b).type # "message.created"
  BY DEF messageEvent, changeEvent
<1>7. QED
  BY <1>3, <1>4, <1>5, <1>6 DEF Content, OfKind

LEMMA OwingFinite ==
  ASSUME NEW r, NEW a, NEW x
  PROVE  /\ Owing(r, a, x) \subseteq Handlers
         /\ IsFiniteSet(Owing(r, a, x))
         /\ Cardinality(Owing(r, a, x)) \in Nat
<1>1. Owing(r, a, x) \subseteq Handlers
  BY DEF Owing
<1>2. IsFiniteSet(Owing(r, a, x))
  BY <1>1, HandlersAssumption, FS_Subset
<1>3. QED
  BY <1>1, <1>2, FS_CardinalityType

LEMMA LogTypes ==
  ASSUME IInv, NEW r \in Reports, NEW a \in Apps
  PROVE  \E S : Log(r, a) \in Seq(S)
BY DEF IInv, TypeOK, Log, Reports

LEMMA LogCount ==
  ASSUME IInv, NEW r \in Reports, NEW a \in Apps, NEW x
  PROVE  Cardinality(Positions(Log(r, a), x)) \in Nat
<1>1. PICK S : Log(r, a) \in Seq(S)
  BY LogTypes
<1>2. DOMAIN Log(r, a) = 1 .. Len(Log(r, a)) /\ Len(Log(r, a)) \in Nat
  BY <1>1
<1>3. Positions(Log(r, a), x) \subseteq 1 .. Len(Log(r, a))
  BY <1>2 DEF Positions
<1>4. IsFiniteSet(1 .. Len(Log(r, a)))
  BY <1>2, FS_Interval
<1>5. IsFiniteSet(Positions(Log(r, a), x))
  BY <1>3, <1>4, FS_Subset
<1>6. QED
  BY <1>5, FS_CardinalityType

LEMMA DueCount ==
  ASSUME IInv, NEW r, NEW a \in Apps, NEW x
  PROVE  /\ IsFiniteSet(DueAt(r, a, x))
         /\ Cardinality(DueAt(r, a, x)) \in Nat
         /\ \A n \in DueAt(r, a, x) : n \in 1 .. Len(writes[a])
<1>1. writes[a] \in Seq(AuditRow)
  BY DEF IInv, TypeOK
<1>2. PICK top \in Nat : top = Len(writes[a]) /\ DOMAIN writes[a] = 1 .. top
  BY <1>1
<1>3. DueAt(r, a, x) \subseteq 1 .. Len(writes[a])
  BY <1>2 DEF DueAt
<1>4. IsFiniteSet(1 .. Len(writes[a]))
  BY <1>2, FS_Interval
<1>5. IsFiniteSet(DueAt(r, a, x))
  BY <1>3, <1>4, FS_Subset
<1>6. QED
  BY <1>3, <1>5, FS_CardinalityType

(* Every step but a save leaves the changes alone, and no handler comes to *)
(* owe a report.                                                           *)
LEMMA OwingShrinks ==
  ASSUME IInv, [Next]_vars, NEW h \in Handlers, NEW r \in Reports, NEW a,
         NEW x, h \in Owing(r, a, x)', ~save(h)
  PROVE  h \in Owing(r, a, x)
<1>1. handler \in [Handlers -> {Idle} \cup Busy]
  BY DEF IInv, TypeOK
<1>2. /\ InFlight(h)' /\ handler'[h].app = a /\ handler'[h].pc \in Until(r)
      /\ Content(r, a, auditRow(handler'[h])) = x
  BY DEF Owing
<1>3. handler'[h].pc \in Reports
  BY <1>2 DEF Until, Reports
<1>4. CASE handler'[h] = handler[h]
  BY <1>2, <1>4 DEF Owing, InFlight
<1>5. ASSUME NEW k \in Handlers, Arrive(k)
      PROVE  handler'[h] = handler[h]
  <2>1. PICK b \in Apps, u \in Users, op \in Ops,
             why \in Reasons \cup {None}, call \in {"pendingMandatory", "save"} :
          Load(k, op, b, u, why, call)
    BY <1>5 DEF Arrive, submit, advanceStage, revertStage, reject, Ops
  <2>2. handler' = [handler EXCEPT ![k] =
             [pc |-> call, op |-> op, app |-> b, actor |-> u, reason |-> why,
              seen |-> applications[b]]]
    BY <2>1 DEF Load
  <2>3. h = k => handler'[h].pc = call
    BY <1>1, <2>2
  <2>4. h # k
    BY <1>3, <2>3 DEF Reports
  <2>5. QED
    BY <1>1, <2>2, <2>4
<1>6. ASSUME NEW k \in Handlers, Continue(k)
      PROVE  h \in Owing(r, a, x)
  <2>1. InFlight(k) /\ handler[k].pc \in Calls
    BY <1>6 DEF Continue, pendingMandatory, save, postSystem, announce,
      record, publish, At, Calls
  <2>2. CASE h # k
    <3>1. handler'[h] = handler[h]
      BY <1>1, <1>6, <2>2 DEF Continue, pendingMandatory, save, postSystem,
        announce, record, publish, Goto, Leave
    <3>2. QED
      BY <1>4, <3>1
  <2>3. CASE h = k
    <3>1. handler'[h] # Idle
      BY <1>2 DEF InFlight
    <3>2. PICK call : /\ Goto(h, call)
                      /\ \/ call = "save"
                         \/ handler[h].pc = "postSystem" /\ call = "announce"
                         \/ handler[h].pc = "announce" /\ call = "record"
                         \/ handler[h].pc = "record" /\ call = "publish"
      BY <1>1, <1>6, <2>3, <3>1 DEF Continue, pendingMandatory, postSystem,
        announce, record, publish, At, Leave
    <3>3. handler[h] \in Busy
      BY <2>1, <2>3, BusyHandler DEF IInv
    <3>4. handler'[h] = [handler[h] EXCEPT !.pc = call]
      BY <1>1, <3>2 DEF Goto
    <3>5. handler'[h].pc = call /\ handler'[h].app = handler[h].app
      BY <3>3, <3>4 DEF Busy
    <3>6. auditRow(handler'[h]) = auditRow(handler[h])
      BY <3>3, <3>4, SameReport
    <3>7. handler[h].pc \in Until(r)
      BY <1>2, <1>3, <3>2, <3>5 DEF Until, Reports
    <3>8. QED
      BY <1>2, <2>1, <2>3, <3>5, <3>6, <3>7 DEF Owing
  <2>4. QED
    BY <2>2, <2>3
<1>7. CASE \/ \E k \in Handlers : fail(k)
           \/ crash
           \/ \E b \in Apps : documentsChange(b)
           \/ UNCHANGED vars
  <2>1. handler'[h] = handler[h] \/ handler'[h] = Idle
    BY <1>1, <1>7 DEF fail, crash, documentsChange, Leave, vars
  <2>2. QED
    BY <1>2, <1>4, <2>1 DEF InFlight
<1>8. QED
  BY <1>4, <1>5, <1>6, <1>7 DEF Next

(* A step that writes nothing of this kind keeps the account.              *)
LEMMA QuietAccount ==
  ASSUME IInv, IInv', [Next]_vars, NEW r \in Reports, NEW a \in Apps, NEW x,
         Covered(r, a, x), \A h \in Handlers : ~save(h),
         Positions(Log(r, a)', x) = Positions(Log(r, a), x)
  PROVE  Covered(r, a, x)'
<1>1. writes' = writes
  BY OnlySaveChanges
<1>2. DueAt(r, a, x)' = DueAt(r, a, x)
  BY <1>1 DEF DueAt
<1>3. Positions(Log(r, a), x)' = Positions(Log(r, a), x)
  BY DEF Positions
<1>4. Owing(r, a, x)' \subseteq Owing(r, a, x)
  <2>1. Owing(r, a, x)' \subseteq Handlers
    BY DEF Owing
  <2>2. QED
    BY <2>1, OwingShrinks
<1>5. PICK n : n = Cardinality(Owing(r, a, x)')
  OBVIOUS
<1>6. n \in Nat /\ n <= Cardinality(Owing(r, a, x))
  BY <1>4, <1>5, OwingFinite, FS_Subset, FS_CardinalityType
<1>7. /\ Cardinality(Owing(r, a, x)) \in Nat
      /\ Cardinality(Positions(Log(r, a), x)) \in Nat
      /\ Cardinality(DueAt(r, a, x)) \in Nat
  BY OwingFinite, LogCount, DueCount
<1>8. QED
  BY <1>2, <1>3, <1>5, <1>6, <1>7 DEF Covered

(* A handler that writes what it owes moves it from hand to log.           *)
LEMMA WriteAccount ==
  ASSUME IInv, IInv', [Next]_vars, NEW r \in Reports, NEW h \in Handlers,
         NEW a \in Apps, NEW x, Covered(r, a, x),
         \A k \in Handlers : ~save(k),
         h \in Owing(r, a, x), h \notin Owing(r, a, x)',
         Log(r, a)' = Append(Log(r, a), x)
  PROVE  Covered(r, a, x)'
<1>1. writes' = writes
  BY OnlySaveChanges
<1>2. DueAt(r, a, x)' = DueAt(r, a, x)
  BY <1>1 DEF DueAt
<1>3. Cardinality(Positions(Log(r, a)', x)) =
        Cardinality(Positions(Log(r, a), x)) + 1
  <2>1. PICK S : Log(r, a) \in Seq(S)
    BY LogTypes
  <2>2. Log(r, a) \in Seq(S \cup {x})
    BY <2>1
  <2>3. QED
    BY <2>2, PositionsAppended
<1>4. Cardinality(Positions(Log(r, a), x)') =
        Cardinality(Positions(Log(r, a)', x))
  BY DEF Positions
<1>5. Owing(r, a, x)' \subseteq Owing(r, a, x) \ {h}
  <2>1. Owing(r, a, x)' \subseteq Handlers
    BY DEF Owing
  <2>2. QED
    BY <2>1, OwingShrinks
<1>6. PICK n : n = Cardinality(Owing(r, a, x)')
  OBVIOUS
<1>7. n \in Nat /\ n <= Cardinality(Owing(r, a, x)) - 1
  <2>1. IsFiniteSet(Owing(r, a, x))
    BY OwingFinite
  <2>2. /\ IsFiniteSet(Owing(r, a, x) \ {h})
        /\ Cardinality(Owing(r, a, x) \ {h}) =
             Cardinality(Owing(r, a, x)) - 1
    BY <2>1, FS_RemoveElement
  <2>3. QED
    BY <1>5, <1>6, <2>2, FS_Subset, FS_CardinalityType
<1>8. /\ Cardinality(Owing(r, a, x)) \in Nat
      /\ Cardinality(Positions(Log(r, a), x)) \in Nat
      /\ Cardinality(DueAt(r, a, x)) \in Nat
  BY OwingFinite, LogCount, DueCount
<1>9. QED
  BY <1>2, <1>3, <1>4, <1>6, <1>7, <1>8 DEF Covered

(* A save makes a report due and puts it into the handler's hands.         *)
LEMMA SaveAccount ==
  ASSUME IInv, IInv', NEW h \in Handlers, save(h),
         NEW r \in Reports, NEW a \in Apps, NEW x, Covered(r, a, x)
  PROVE  Covered(r, a, x)'
<1> DEFINE b == handler[h]
           line == auditRow(b)
           due == b.app = a /\ Content(r, a, line) = x
<1>1. /\ InFlight(h) /\ b.pc = "save" /\ Goto(h, "postSystem")
      /\ writes' = [writes EXCEPT ![b.app] = Append(writes[b.app], line)]
      /\ UNCHANGED <<thread, audit, events>>
  BY DEF save, At
<1>2. /\ b.app \in Apps /\ line \in AuditRow
      /\ handler'[h].pc = "postSystem" /\ handler'[h].app = b.app
      /\ auditRow(handler'[h]) = line
      /\ \A k \in Handlers : k # h => handler'[k] = handler[k]
  BY <1>1, CarrierGoes
<1>3. Positions(Log(r, a), x)' = Positions(Log(r, a), x)
  BY <1>1 DEF Log, Positions
<1>4. PICK n : n = IF due THEN 1 ELSE 0
  OBVIOUS
<1>5. Cardinality(Owing(r, a, x)') <= Cardinality(Owing(r, a, x)) + n
      /\ Cardinality(Owing(r, a, x)') \in Nat
  <2>1. PICK S : S = Owing(r, a, x)
    OBVIOUS
  <2>2. PICK T : T = Owing(r, a, x)'
    OBVIOUS
  <2>3. \A k \in Handlers : k # h => (k \in T <=> k \in S)
    BY <1>2, <2>1, <2>2 DEF Owing, InFlight
  <2>4. S \subseteq Handlers /\ T \subseteq Handlers
    BY <2>1, <2>2 DEF Owing
  <2>5. h \in T => due
    BY <1>2, <2>2 DEF Owing
  <2>6. h \notin S
    BY <1>1, <2>1 DEF Owing, Until
  <2>7. IsFiniteSet(S) /\ Cardinality(S) \in Nat
    BY <2>1, OwingFinite
  <2>8. CASE h \in T
    <3>1. T = S \cup {h}
      BY <2>3, <2>4, <2>8
    <3>2. Cardinality(S \cup {h}) = Cardinality(S) + 1
      BY <2>6, <2>7, FS_AddElement
    <3>3. n = 1
      BY <1>4, <2>5, <2>8
    <3>4. QED
      BY <2>1, <2>2, <2>7, <3>1, <3>2, <3>3
  <2>9. CASE h \notin T
    <3>1. T = S
      BY <2>3, <2>4, <2>6, <2>9
    <3>2. QED
      BY <1>4, <2>1, <2>2, <2>7, <3>1
  <2>10. QED
    BY <2>8, <2>9
<1>6. Cardinality(DueAt(r, a, x)') = Cardinality(DueAt(r, a, x)) + n
  <2>1. PICK S : S = DueAt(r, a, x)
    OBVIOUS
  <2>2. PICK T : T = DueAt(r, a, x)'
    OBVIOUS
  <2>3. writes[a] \in Seq(AuditRow) /\ writes \in [Apps -> Seq(AuditRow)]
    BY DEF IInv, TypeOK
  <2>4. IsFiniteSet(S) /\ Cardinality(S) \in Nat
        /\ \A m \in S : m \in 1 .. Len(writes[a])
    BY <2>1, DueCount
  <2>5. CASE b.app = a
    <3> DEFINE top == Len(writes[a]) + 1
    <3>1. writes'[a] = Append(writes[a], line)
      BY <1>1, <1>2, <2>3, <2>5
    <3>2. /\ Len(writes[a]) \in Nat
          /\ DOMAIN writes[a] = 1 .. Len(writes[a])
          /\ DOMAIN writes'[a] = 1 .. top /\ writes'[a][top] = line
          /\ \A m \in 1 .. Len(writes[a]) : writes'[a][m] = writes[a][m]
      BY <1>2, <2>3, <3>1, Appended
    <3>3. T = {m \in 1 .. top : Content(r, a, writes'[a][m]) = x}
      BY <2>2, <3>2 DEF DueAt
    <3>4. S = {m \in 1 .. Len(writes[a]) : Content(r, a, writes[a][m]) = x}
      BY <2>1, <3>2 DEF DueAt
    <3>5. top \notin S /\ \A m \in 1 .. top : m # top => m \in 1 .. Len(writes[a])
      BY <2>4, <3>2
    <3>6. \A m \in 1 .. Len(writes[a]) :
            Content(r, a, writes'[a][m]) = Content(r, a, writes[a][m])
      BY <3>2
    <3>7. /\ Content(r, a, writes'[a][top]) = Content(r, a, line)
          /\ top \in 1 .. top /\ 1 .. Len(writes[a]) \subseteq 1 .. top
      BY <3>2
    <3> HIDE DEF top
    <3>8. CASE due
      <4>1. T = S \cup {top}
        BY <3>3, <3>4, <3>5, <3>6, <3>7, <3>8
      <4>2. Cardinality(S \cup {top}) = Cardinality(S) + 1
        BY <2>4, <3>5, FS_AddElement
      <4>3. QED
        BY <1>4, <2>1, <2>2, <3>8, <4>1, <4>2
    <3>9. CASE ~due
      <4>1. T = S
        BY <2>5, <3>3, <3>4, <3>5, <3>6, <3>7, <3>9
      <4>2. QED
        BY <1>4, <2>1, <2>2, <2>4, <3>9, <4>1
    <3>10. QED
      BY <3>8, <3>9
  <2>6. CASE b.app # a
    <3>1. writes'[a] = writes[a]
      BY <1>1, <2>3, <2>6
    <3>2. T = S
      BY <2>1, <2>2, <3>1 DEF DueAt
    <3>3. QED
      BY <1>4, <2>1, <2>2, <2>4, <2>6, <3>2
  <2>7. QED
    BY <2>5, <2>6
<1>7. /\ Cardinality(Owing(r, a, x)) \in Nat
      /\ Cardinality(Positions(Log(r, a), x)) \in Nat
      /\ Cardinality(DueAt(r, a, x)) \in Nat /\ n \in Nat
  BY <1>4, OwingFinite, LogCount, DueCount
<1>8. QED
  BY <1>3, <1>5, <1>6, <1>7 DEF Covered

(* The call that writes a report.                                          *)
Writes(r, h) ==
  CASE r = "postSystem" -> postSystem(h)
    [] r = "announce" -> announce(h)
    [] r = "record" -> record(h)
    [] r = "publish" -> publish(h)

SameLog(r, q) == r = q \/ {r, q} = {"announce", "publish"}

LEMMA WriteFacts ==
  ASSUME IInv, NEW h \in Handlers, NEW q \in Reports, Writes(q, h),
         NEW c, c = handler[h].app,
         NEW y, y = Content(q, c, auditRow(handler[h])),
         NEW r \in Reports, NEW a \in Apps
  PROVE  /\ c \in Apps
         /\ h \in Owing(q, c, y) /\ h \notin Owing(q, c, y)'
         /\ OfKind(q, y)
         /\ \/ Log(r, a)' = Log(r, a)
            \/ /\ a = c /\ Log(r, a)' = Append(Log(r, a), y)
               /\ SameLog(r, q)
         /\ Log(q, c)' = Append(Log(q, c), y)
         /\ UNCHANGED <<applications, writes>>
         /\ q # "postSystem" => UNCHANGED thread
         /\ q # "record" => UNCHANGED audit
         /\ q \notin {"announce", "publish"} => UNCHANGED events
<1> DEFINE b == handler[h]
<1>1. InFlight(h) /\ b.pc = q
  BY DEF Writes, Reports, postSystem, announce, record, publish, At
<1>2. b \in Busy /\ c = b.app /\ c \in Apps
  BY <1>1, BusyHandler DEF IInv
<1>3. /\ y = CASE q = "postSystem" -> systemMessage(b)
               [] q = "announce" -> messageEvent(b)
               [] q = "record" -> auditRow(b)
               [] q = "publish" -> changeEvent(b)
      /\ OfKind(q, y)
  BY <1>2, ContentWritten DEF Reports, OfKind
<1>4. h \in Owing(q, c, y)
  BY <1>1, <1>2 DEF Owing, Until, Reports
<1>5. h \notin Owing(q, c, y)'
  <2>1. handler'[h].pc \notin Until(q)
    <3>1. handler \in [Handlers -> {Idle} \cup Busy]
      BY DEF IInv, TypeOK
    <3>2. CASE Leave(h)
      <4>1. handler'[h].pc = "idle"
        BY <3>1, <3>2 DEF Leave, Idle
      <4>2. QED
        BY <4>1 DEF Until
    <3>3. ASSUME NEW call, Goto(h, call), call \notin Until(q)
          PROVE  handler'[h].pc \notin Until(q)
      BY <1>2, <3>1, <3>3 DEF Goto, Busy
    <3>4. \/ Leave(h)
          \/ q = "postSystem" /\ Goto(h, "announce")
          \/ q = "announce" /\ Goto(h, "record")
          \/ q = "record" /\ Goto(h, "publish")
      BY DEF Writes, Reports, postSystem, announce, record, publish
    <3>5. /\ "announce" \notin Until("postSystem")
          /\ "record" \notin Until("announce")
          /\ "publish" \notin Until("record")
      BY DEF Until
    <3>6. QED
      BY <3>2, <3>3, <3>4, <3>5
  <2>2. QED
    BY <2>1 DEF Owing
<1>6. /\ thread \in [Apps -> Seq(Message)]
      /\ audit \in [Apps -> Seq(AuditRow)]
      /\ events \in [Apps -> Seq(Event)]
  BY DEF IInv, TypeOK
<1>7. /\ UNCHANGED <<applications, writes>>
      /\ q = "postSystem" =>
           /\ thread' = [thread EXCEPT ![c] = Append(thread[c], y)]
           /\ UNCHANGED <<audit, events>>
      /\ q \in {"announce", "publish"} =>
           /\ events' = [events EXCEPT ![c] = Append(events[c], y)]
           /\ UNCHANGED <<thread, audit>>
      /\ q = "record" =>
           /\ audit' = [audit EXCEPT ![c] = Append(audit[c], y)]
           /\ UNCHANGED <<thread, events>>
  BY <1>2, <1>3 DEF Writes, Reports, postSystem, announce, record, publish
<1> HIDE DEF b
<1>8. Log(q, c)' = Append(Log(q, c), y)
  <2>1. CASE q = "postSystem"
    BY <1>2, <1>6, <1>7, <2>1 DEF Log
  <2>2. CASE q = "record"
    BY <1>2, <1>6, <1>7, <2>2 DEF Log
  <2>3. CASE q \in {"announce", "publish"}
    BY <1>2, <1>6, <1>7, <2>3 DEF Log
  <2>4. QED
    BY <2>1, <2>2, <2>3 DEF Reports
<1>9. \/ Log(r, a)' = Log(r, a)
      \/ /\ a = c /\ Log(r, a)' = Append(Log(r, a), y)
         /\ SameLog(r, q)
  <2>1. CASE q = "postSystem"
    BY <1>2, <1>6, <1>7, <2>1 DEF Log, Reports, SameLog
  <2>2. CASE q = "record"
    BY <1>2, <1>6, <1>7, <2>2 DEF Log, Reports, SameLog
  <2>3. CASE q \in {"announce", "publish"}
    <3>1. CASE r \in {"postSystem", "record"}
      BY <1>7, <2>3, <3>1 DEF Log
    <3>2. CASE r \in {"announce", "publish"}
      <4>1. SameLog(r, q)
        BY <2>3, <3>2 DEF SameLog
      <4>2. a = c => Log(r, a)' = Append(Log(r, a), y)
        BY <1>2, <1>6, <1>7, <2>3, <3>2 DEF Log
      <4>3. a # c => Log(r, a)' = Log(r, a)
        BY <1>2, <1>6, <1>7, <2>3, <3>2 DEF Log
      <4>4. QED
        BY <4>1, <4>2, <4>3
    <3>3. QED
      BY <3>1, <3>2 DEF Reports
  <2>4. QED
    BY <2>1, <2>2, <2>3 DEF Reports
<1>10. QED
  BY <1>2, <1>3, <1>4, <1>5, <1>7, <1>8, <1>9 DEF Reports

(* Nothing but these calls writes into the logs.                           *)
LEMMA OnlyReportsWrite ==
  ASSUME IInv, [Next]_vars
  PROVE  \/ \E h \in Handlers : save(h)
         \/ \E h \in Handlers, q \in Reports : Writes(q, h)
         \/ UNCHANGED <<applications, thread, audit, events, writes>>
<1>1. ASSUME NEW h \in Handlers, Arrive(h)
      PROVE  UNCHANGED <<applications, thread, audit, events, writes>>
  BY <1>1 DEF Arrive, submit, advanceStage, revertStage, reject, Load
<1>2. ASSUME NEW h \in Handlers, Continue(h)
      PROVE  \/ UNCHANGED <<applications, thread, audit, events, writes>>
             \/ save(h)
             \/ \E q \in Reports : Writes(q, h)
  <2>1. pendingMandatory(h) =>
          UNCHANGED <<applications, thread, audit, events, writes>>
    BY DEF pendingMandatory
  <2>2. postSystem(h) => Writes("postSystem", h)
    BY DEF Writes
  <2>3. announce(h) => Writes("announce", h)
    BY DEF Writes
  <2>4. record(h) => Writes("record", h)
    BY DEF Writes
  <2>5. publish(h) => Writes("publish", h)
    BY DEF Writes
  <2>6. QED
    BY <1>2, <2>1, <2>2, <2>3, <2>4, <2>5 DEF Continue, Reports
<1>3. CASE \/ \E h \in Handlers : fail(h)
           \/ crash
           \/ \E a \in Apps : documentsChange(a)
           \/ UNCHANGED vars
  BY <1>3 DEF fail, crash, documentsChange, vars
<1>4. QED
  BY <1>1, <1>2, <1>3 DEF Next

LEMMA OneCallOnly ==
  ASSUME IInv, NEW h \in Handlers, NEW q \in Reports, Writes(q, h),
         NEW k \in Handlers
  PROVE  ~save(k)
<1>1. PICK c, y : c = handler[h].app /\ y = Content(q, c, auditRow(handler[h]))
  OBVIOUS
<1>2. c \in Apps /\ Log(q, c)' = Append(Log(q, c), y)
  <2>1. c \in Apps
    BY <1>1, BusyHandler DEF IInv, Writes, Reports, postSystem, announce,
      record, publish, At
  <2>2. QED
    BY <1>1, <2>1, WriteFacts
<1>3. PICK S : Log(q, c) \in Seq(S)
  BY <1>2, LogTypes
<1>4. Log(q, c) \in Seq(S \cup {y})
  BY <1>3
<1>5. Log(q, c)' # Log(q, c)
  BY <1>2, <1>4, AppendProperties
<1>6. save(k) => Log(q, c)' = Log(q, c)
  BY DEF save, Log
<1>7. QED
  BY <1>5, <1>6

LEMMA OtherAppended ==
  ASSUME NEW S, NEW log \in Seq(S), NEW y, NEW x, x # y
  PROVE  Positions(Append(log, y), x) = Positions(log, x)
<1>1. log \in Seq(S \cup {y})
  OBVIOUS
<1>2. /\ Len(log) \in Nat /\ DOMAIN log = 1 .. Len(log)
      /\ DOMAIN Append(log, y) = 1 .. Len(log) + 1
      /\ Append(log, y)[Len(log) + 1] = y
      /\ \A n \in 1 .. Len(log) : Append(log, y)[n] = log[n]
  BY <1>1, Appended
<1>3. QED
  BY <1>2 DEF Positions

LEMMA AccountsStep ==
  ASSUME IInv, IInv', Accounts, [Next]_vars
  PROVE  Accounts'
<1> SUFFICES ASSUME NEW r \in Reports, NEW a \in Apps, NEW x, OfKind(r, x)
             PROVE  Covered(r, a, x)'
  BY DEF Accounts, OfKind
<1>1. Covered(r, a, x)
  BY DEF Accounts
<1>2. CASE \E h \in Handlers : save(h)
  BY <1>1, <1>2, SaveAccount
<1>3. ASSUME NEW h \in Handlers, NEW q \in Reports, Writes(q, h)
      PROVE  Covered(r, a, x)'
  <2>0. PICK c, y :
          c = handler[h].app /\ y = Content(q, c, auditRow(handler[h]))
    OBVIOUS
  <2>1. /\ h \in Owing(q, c, y) /\ h \notin Owing(q, c, y)'
        /\ OfKind(q, y)
        /\ \/ Log(r, a)' = Log(r, a)
           \/ /\ a = c /\ Log(r, a)' = Append(Log(r, a), y)
              /\ SameLog(r, q)
        /\ a = c /\ r = q => Log(r, a)' = Append(Log(r, a), y)
    <3>1. Log(q, c)' = Append(Log(q, c), y)
      BY <1>3, <2>0, WriteFacts
    <3>2. \/ Log(r, a)' = Log(r, a)
          \/ /\ a = c /\ Log(r, a)' = Append(Log(r, a), y)
             /\ SameLog(r, q)
      BY <1>3, <2>0, WriteFacts
    <3>3. /\ h \in Owing(q, c, y) /\ h \notin Owing(q, c, y)'
          /\ OfKind(q, y)
      BY <1>3, <2>0, WriteFacts
    <3>4. QED
      BY <3>1, <3>2, <3>3
  <2>2. \A k \in Handlers : ~save(k)
    BY <1>3, OneCallOnly
  <2>3. CASE r = q /\ a = c /\ x = y
    BY <1>1, <2>1, <2>2, <2>3, WriteAccount
  <2>4. CASE ~(r = q /\ a = c /\ x = y)
    <3>1. CASE Log(r, a)' = Log(r, a)
      BY <1>1, <2>2, <3>1, QuietAccount
    <3>2. CASE /\ a = c /\ Log(r, a)' = Append(Log(r, a), y)
               /\ SameLog(r, q)
      <4>1. x # y
        <5>1. CASE r = q
          BY <2>4, <3>2, <5>1
        <5>2. CASE r # q
          <6>1. \/ r = "announce" /\ q = "publish"
                \/ r = "publish" /\ q = "announce"
            BY <3>2, <5>2 DEF SameLog
          <6>2. QED
            BY <2>1, <6>1 DEF OfKind
        <5>3. QED
          BY <5>1, <5>2
      <4>2. PICK S : Log(r, a) \in Seq(S)
        BY LogTypes
      <4>3. Positions(Log(r, a)', x) = Positions(Log(r, a), x)
        BY <3>2, <4>1, <4>2, OtherAppended
      <4>4. QED
        BY <1>1, <2>2, <4>3, QuietAccount
    <3>3. QED
      BY <2>1, <3>1, <3>2
  <2>5. QED
    BY <2>3, <2>4
<1>4. CASE /\ UNCHANGED <<applications, thread, audit, events, writes>>
           /\ \A h \in Handlers : ~save(h)
  <2>1. Log(r, a)' = Log(r, a)
    BY <1>4 DEF Log, Reports
  <2>2. QED
    BY <1>1, <1>4, <2>1, QuietAccount
<1>5. QED
  BY <1>2, <1>3, <1>4, OnlyReportsWrite

LEMMA InitAccounts == Init => Accounts
<1> SUFFICES ASSUME Init, NEW r \in Reports, NEW a \in Apps, NEW x
             PROVE  Covered(r, a, x)
  BY DEF Accounts
<1>1. Owing(r, a, x) = {}
  BY DEF Init, Owing, InFlight
<1>2. Log(r, a) = << >> /\ writes[a] = << >>
  BY DEF Init, Log, Reports
<1>3. Positions(Log(r, a), x) = {} /\ DueAt(r, a, x) = {}
  BY <1>2 DEF Positions, DueAt
<1>4. Cardinality({}) = 0
  BY FS_EmptySet
<1>5. QED
  BY <1>1, <1>3, <1>4 DEF Covered

-----------------------------------------------------------------------------
(* The service keeps the promise of Lifecycle *)

(* A report that a handler still owes is outstanding: there is a change it *)
(* tells, and it has been written less often than there are such changes.  *)
LEMMA OwedIsOutstanding ==
  ASSUME IInv, Accounts, NEW r \in Reports, NEW a \in Apps, NEW x,
         OfKind(r, x), NEW h \in Owing(r, a, x)
  PROVE  /\ \E n \in DOMAIN writes[a] : Content(r, a, writes[a][n]) = x
         /\ Cardinality(Positions(Log(r, a), x)) < Cardinality(DueAt(r, a, x))
<1>1. Covered(r, a, x)
  BY DEF Accounts
<1>2. IsFiniteSet(Owing(r, a, x)) /\ Cardinality(Owing(r, a, x)) \in Nat
  BY OwingFinite
<1>3. Cardinality(Owing(r, a, x)) # 0
  BY <1>2, FS_EmptySet
<1>4. /\ Cardinality(Positions(Log(r, a), x)) \in Nat
      /\ IsFiniteSet(DueAt(r, a, x)) /\ Cardinality(DueAt(r, a, x)) \in Nat
  BY LogCount, DueCount
<1>5. Cardinality(Positions(Log(r, a), x)) < Cardinality(DueAt(r, a, x))
  BY <1>1, <1>2, <1>3, <1>4 DEF Covered
<1>6. DueAt(r, a, x) # {}
  BY <1>4, <1>5, FS_EmptySet
<1>7. QED
  BY <1>5, <1>6 DEF DueAt

LEMMA OutstandingFacts ==
  ASSUME IInv, NEW a \in Apps, NEW x
  PROVE  /\ Promise!Outstanding(x, Promise!messagesDue(a), thread[a]) <=>
              Cardinality(Positions(Log("postSystem", a), x))
                < Cardinality(DueAt("postSystem", a, x))
         /\ Promise!Outstanding(x, writes[a], audit[a]) <=>
              Cardinality(Positions(Log("record", a), x))
                < Cardinality(DueAt("record", a, x))
         /\ Promise!Outstanding(x, Promise!messageEventsDue(a), events[a]) <=>
              Cardinality(Positions(Log("announce", a), x))
                < Cardinality(DueAt("announce", a, x))
         /\ Promise!Outstanding(x, Promise!changeEventsDue(a), events[a]) <=>
              Cardinality(Positions(Log("publish", a), x))
                < Cardinality(DueAt("publish", a, x))
<1>1. ASSUME NEW log
      PROVE  Promise!Count(x, log) = Cardinality(Positions(log, x))
  <2>1. Promise!Cardinality(Positions(log, x)) = Cardinality(Positions(log, x))
    BY DEF Promise!Cardinality, Cardinality
  <2>2. QED
    BY <2>1 DEF Promise!Count, Positions
<1>2. /\ Positions(Promise!messagesDue(a), x) = DueAt("postSystem", a, x)
      /\ Positions(writes[a], x) = DueAt("record", a, x)
      /\ Positions(Promise!messageEventsDue(a), x) = DueAt("announce", a, x)
      /\ Positions(Promise!changeEventsDue(a), x) = DueAt("publish", a, x)
  BY DEF Promise!messagesDue, Promise!messageEventsDue,
    Promise!changeEventsDue, Positions, DueAt, Content
<1>3. /\ Log("postSystem", a) = thread[a] /\ Log("record", a) = audit[a]
      /\ Log("announce", a) = events[a] /\ Log("publish", a) = events[a]
  BY DEF Log
<1>4. QED
  BY <1>1, <1>2, <1>3 DEF Promise!Outstanding

(* The calls that write the reports are steps of the promise.              *)
LEMMA WriteKept ==
  ASSUME IInv, Accounts, NEW h \in Handlers, NEW q \in Reports, Writes(q, h)
  PROVE  Promise!Next
<1>1. PICK c, y : c = handler[h].app /\ y = Content(q, c, auditRow(handler[h]))
  OBVIOUS
<1>2. c \in Apps
  BY <1>1, BusyHandler DEF IInv, Writes, Reports, postSystem, announce,
    record, publish, At
<1>3. /\ h \in Owing(q, c, y) /\ OfKind(q, y)
      /\ UNCHANGED <<applications, writes>>
      /\ q # "postSystem" => UNCHANGED thread
      /\ q # "record" => UNCHANGED audit
      /\ q \notin {"announce", "publish"} => UNCHANGED events
  BY <1>1, <1>2, WriteFacts
<1>4. /\ q = "postSystem" => thread' = [thread EXCEPT ![c] = Append(@, y)]
      /\ q \in {"announce", "publish"} =>
           events' = [events EXCEPT ![c] = Append(@, y)]
      /\ q = "record" => audit' = [audit EXCEPT ![c] = Append(@, y)]
  <2>1. handler[h] \in Busy
    BY BusyHandler DEF IInv, Writes, Reports, postSystem, announce, record,
      publish, At
  <2>2. /\ q = "postSystem" => y = systemMessage(handler[h])
        /\ q = "announce" => y = messageEvent(handler[h])
        /\ q = "record" => y = auditRow(handler[h])
        /\ q = "publish" => y = changeEvent(handler[h])
    BY <1>1, <2>1, ContentWritten
  <2>3. QED
    BY <1>1, <2>2 DEF Writes, Reports, postSystem, announce, record, publish
<1>5. /\ \E n \in DOMAIN writes[c] : Content(q, c, writes[c][n]) = y
      /\ Cardinality(Positions(Log(q, c), y)) < Cardinality(DueAt(q, c, y))
  BY <1>2, <1>3, OwedIsOutstanding
<1>6. PICK n \in DOMAIN writes[c] : Content(q, c, writes[c][n]) = y
  BY <1>5
<1>changed. Promise!reports' # Promise!reports
  <2>1. /\ thread \in [Apps -> Seq(Message)]
        /\ audit \in [Apps -> Seq(AuditRow)]
        /\ events \in [Apps -> Seq(Event)]
    BY DEF IInv, TypeOK
  <2>2. ASSUME NEW S, NEW s \in Seq(S) PROVE Append(s, y) # s
    BY Len(Append(s, y)) = Len(s) + 1, Len(s) \in Nat
  <2>3. /\ Append(thread[c], y) # thread[c] /\ Append(audit[c], y) # audit[c]
        /\ Append(events[c], y) # events[c]
    BY <1>2, <2>1, <2>2
  <2>4. \/ thread'[c] # thread[c] \/ audit'[c] # audit[c]
        \/ events'[c] # events[c]
    BY <1>2, <1>4, <2>1, <2>3 DEF Reports
  <2>5. QED
    BY <2>4 DEF Promise!reports
<1> SUFFICES Promise!Report(c)
  BY <1>2, <1>changed DEF Promise!Next
<1>7. CASE q = "postSystem"
  <2>1. Promise!Outstanding(y, Promise!messagesDue(c), thread[c])
    BY <1>2, <1>5, <1>7, OutstandingFacts
  <2>2. Promise!Say(c, y)
    BY <1>3, <1>4, <1>7, <2>1 DEF Promise!Say
  <2>3. y = Promise!messageOf(writes[c][n])
    BY <1>6, <1>7 DEF Content
  <2>4. QED
    BY <2>2, <2>3 DEF Promise!Report
<1>8. CASE q = "record"
  <2>1. Promise!Outstanding(y, writes[c], audit[c])
    BY <1>2, <1>5, <1>8, OutstandingFacts
  <2>2. Promise!Record(c, y)
    BY <1>3, <1>4, <1>8, <2>1 DEF Promise!Record
  <2>3. y = writes[c][n]
    BY <1>6, <1>8 DEF Content
  <2>4. QED
    BY <2>2, <2>3 DEF Promise!Report
<1>9. CASE q = "announce"
  <2>1. Promise!Outstanding(y, Promise!messageEventsDue(c), events[c])
    BY <1>2, <1>5, <1>9, OutstandingFacts
  <2>2. Promise!Publish(c, y, Promise!messageEventsDue(c))
    BY <1>3, <1>4, <1>9, <2>1 DEF Promise!Publish
  <2>3. y = Promise!messageEventOf(writes[c][n])
    BY <1>6, <1>9 DEF Content
  <2>4. QED
    BY <2>2, <2>3 DEF Promise!Report
<1>10. CASE q = "publish"
  <2>1. Promise!Outstanding(y, Promise!changeEventsDue(c), events[c])
    BY <1>2, <1>5, <1>10, OutstandingFacts
  <2>2. Promise!Publish(c, y, Promise!changeEventsDue(c))
    BY <1>3, <1>4, <1>10, <2>1 DEF Promise!Publish
  <2>3. y = Promise!changeEventOf(c, writes[c][n])
    BY <1>6, <1>10 DEF Content
  <2>4. QED
    BY <2>2, <2>3 DEF Promise!Report
<1>11. QED
  BY <1>7, <1>8, <1>9, <1>10 DEF Reports

(* A save is a change that the promise allows.                             *)
LEMMA SaveKept ==
  ASSUME HInv, NEW h \in Handlers, save(h)
  PROVE  Promise!Next
<1> DEFINE b == handler[h]
           a == b.app
           old == applications[a]
           new == applications'[a]
           line == auditRow(b)
<1>1. /\ b \in Busy /\ a \in Apps /\ CheckPassed(b)
      /\ b.seen \in Row /\ b.seen.stage \in Had(writes[a])
      /\ b.seen.stage = FINAL_STAGE => b.seen.locked
      /\ old \in Row /\ writes[a] \in Seq(AuditRow)
      /\ applications' = [applications EXCEPT ![a] = new]
      /\ writes' = [writes EXCEPT ![a] = Append(writes[a], line)]
      /\ \/ b.op \in {"submit", "advance"} /\ Moved(b, old, new, line)
         \/ b.op = "revert" /\ Corrected(b, old, new, line)
         \/ b.op = "reject" /\ Refused(b, old, new, line)
  BY SaveChanges
<1>2. UNCHANGED <<thread, audit, events>>
  BY DEF save
<1>3. b.seen.stage \in Promise!Had(a)
  <2>1. DOMAIN writes[a] = 1 .. (Len(writes[a]) + 1) - 1
    BY <1>1
  <2>2. QED
    BY <1>1, <2>1 DEF Had, StagesHad, Promise!Had, Promise!FIRST_STAGE,
      FIRST_STAGE
<1>4. b.seen.stage \in Int /\ FINAL_STAGE \in Int
      /\ old.locked \in BOOLEAN /\ b.seen.locked \in BOOLEAN
  BY <1>1, FinalStageAssumption DEF Row, Stage, FIRST_STAGE
<1>changed. writes' # writes
  <2>1. Len(Append(writes[a], line)) = Len(writes[a]) + 1
        /\ Len(writes[a]) \in Nat
    BY <1>1
  <2>2. writes \in [Apps -> Seq(AuditRow)]
    BY DEF HInv, IInv, TypeOK
  <2>3. writes'[a] = Append(writes[a], line)
    BY <1>1, <2>2
  <2>4. QED
    BY <2>1, <2>3
<1> SUFFICES Promise!Change(a)
  BY <1>1, <1>changed DEF Promise!Next
<1> HIDE DEF a, b, old, new, line
<1>5. ASSUME b.op \in {"submit", "advance"}, Moved(b, old, new, line),
             NEW u, u = b.actor, NEW from, from = b.seen.stage,
             NEW row, row = [old EXCEPT !.submittedAt = @ \/ b.op = "submit"]
      PROVE  Promise!Forward(a, u, from, row)
  <2>1. /\ new = [row EXCEPT !.stage = from + 1,
                             !.locked = @ \/ from + 1 = FINAL_STAGE]
        /\ line = [action |-> "StageAdvanced", actor |-> u, before |-> from,
                   after |-> from + 1, reason |-> None]
        /\ from < FINAL_STAGE
    BY <1>1, <1>5 DEF Moved, Row
  <2>2. QED
    BY <1>1, <1>2, <1>3, <1>5, <2>1 DEF Promise!Forward, Promise!Commit
<1>6. PICK u, from : u = b.actor /\ from = b.seen.stage
  OBVIOUS
<1>7. CASE b.op = "submit" /\ Moved(b, old, new, line)
  <2>1. PICK row : row = [old EXCEPT !.submittedAt = TRUE]
    OBVIOUS
  <2>2. Promise!Forward(a, u, from, row)
    BY <1>5, <1>6, <1>7, <2>1
  <2>3. u = customerId[a] /\ from = FIRST_STAGE
    BY <1>1, <1>6, <1>7 DEF CheckPassed, a
  <2>4. Promise!Submit(a)
    BY <2>1, <2>2, <2>3 DEF Promise!Submit, old, Promise!FIRST_STAGE,
      FIRST_STAGE
  <2>5. QED
    BY <2>4 DEF Promise!Change
<1>8. CASE b.op = "advance" /\ Moved(b, old, new, line)
  <2>1. old = [old EXCEPT !.submittedAt = @ \/ b.op = "submit"]
    BY <1>1, <1>8 DEF Row
  <2>2. PICK row : row = old
    OBVIOUS
  <2>3. Promise!Forward(a, u, from, row)
    BY <1>5, <1>6, <1>8, <2>1, <2>2
  <2>4. u \in Promise!Processors(a)
    BY <1>1, <1>6, <1>8 DEF CheckPassed, Promise!Processors, a
  <2>5. Promise!Advance(a, u, from)
    BY <2>2, <2>3, <2>4 DEF Promise!Advance, old
  <2>6. QED
    BY <1>3, <1>6, <2>4, <2>5 DEF Promise!Change
<1>9. CASE b.op = "revert" /\ Corrected(b, old, new, line)
  <2>1. PICK locked : locked = (old.locked /\ ~b.seen.locked)
    OBVIOUS
  <2>2. /\ new = [old EXCEPT !.stage = from - 1, !.locked = locked]
        /\ line = [action |-> "StageReverted", actor |-> u, before |-> from,
                   after |-> from - 1, reason |-> None]
        /\ from > FIRST_STAGE /\ u \in Admins
    BY <1>6, <1>9, <2>1 DEF Corrected
  <2>3. locked \in {FALSE} \cup IF from = FINAL_STAGE THEN {} ELSE {old.locked}
    BY <1>1, <1>4, <1>6, <2>1
  <2>4. Promise!Commit(a, [old EXCEPT !.stage = from - 1, !.locked = locked],
                       "StageReverted", u, from, from - 1, None)
    BY <1>1, <1>2, <2>2 DEF Promise!Commit
  <2>5. Promise!Revert(a, u, from)
    BY <1>3, <1>6, <2>2, <2>3, <2>4 DEF Promise!Revert, old,
      Promise!FIRST_STAGE, FIRST_STAGE
  <2>6. QED
    BY <1>3, <1>6, <2>2, <2>5 DEF Promise!Change, Promise!Processors
<1>10. CASE b.op = "reject" /\ Refused(b, old, new, line)
  <2>1. PICK why \in Reasons : why = b.reason
    BY <1>10 DEF Refused
  <2>2. /\ new = [old EXCEPT !.isRejected = TRUE, !.rejectionReason = why]
        /\ line = [action |-> "ApplicationRejected", actor |-> u,
                   before |-> None, after |-> from, reason |-> why]
    BY <1>6, <1>10, <2>1 DEF Refused
  <2>3. u \in Promise!Processors(a)
    BY <1>1, <1>6, <1>10 DEF CheckPassed, Promise!Processors, a
  <2>4. Promise!Reject(a, u, from, why)
    BY <1>1, <1>2, <1>3, <1>6, <2>2, <2>3 DEF Promise!Reject, Promise!Commit,
      old
  <2>5. QED
    BY <1>3, <1>6, <2>1, <2>3, <2>4 DEF Promise!Change
<1>11. QED
  BY <1>1, <1>7, <1>8, <1>9, <1>10

(* Every save of a copy that some calls ago was the stored row is a change *)
(* that Lifecycle allows, and every message, event and audit row reports   *)
(* one that was not reported like that before (the calls after each save   *)
(* in applications.service.ts), however requests overlap, fail or are      *)
(* lost.                                                                   *)
THEOREM ServiceKeepsPromise == Spec => ImplementsLifecycle
<1>1. Init => Promise!Init
  BY DEF Init, Promise!Init, NewRow, FIRST_STAGE, Promise!FIRST_STAGE
<1>2. HInv /\ Accounts /\ [Next]_vars => [Promise!Next]_(Promise!lifecycle)
  <2> SUFFICES ASSUME HInv, Accounts, [Next]_vars
               PROVE  Promise!Next \/ UNCHANGED Promise!lifecycle
    OBVIOUS
  <2>1. IInv
    BY DEF HInv
  <2>2. CASE \E h \in Handlers : save(h)
    BY <2>2, SaveKept
  <2>3. CASE \E h \in Handlers, q \in Reports : Writes(q, h)
    BY <2>1, <2>3, WriteKept
  <2>4. CASE UNCHANGED <<applications, thread, audit, events, writes>>
    BY <2>4 DEF Promise!lifecycle
  <2>5. QED
    BY <2>1, <2>2, <2>3, <2>4, OnlyReportsWrite
<1>3. HInv /\ Accounts /\ [Next]_vars => Accounts'
  BY NextIInv, AccountsStep DEF HInv
<1>4. QED
  BY <1>1, <1>2, <1>3, InitAccounts, HInvariance, PTL
  DEF Spec, ImplementsLifecycle, Promise!Spec

-----------------------------------------------------------------------------
(* The matrix and the checks *)

LEMMA PartyFacts ==
  \A a \in Apps :
    /\ parties(a).customerId = customerId[a] /\ customerId[a] \in Customers
    /\ parties(a).staffId = staffId[a] /\ staffId[a] \in Staff
    /\ parties(a).partnerId = None
    /\ audienceFor(parties(a)) = {customerId[a], staffId[a]}
BY PartiesAssumption DEF parties, audienceFor

(* What the matrix grants of the customer records.                         *)
LEMMA RecordScope ==
  ASSUME NEW u, NEW a \in Apps
  PROVE  /\ u \in Customers =>
              (Granted("customerRecords", a, u) <=> customerId[a] = u)
         /\ u \in Staff =>
              (Granted("customerRecords", a, u) <=> staffId[a] = u)
         /\ u \in Admins => Granted("customerRecords", a, u)
<1>1. /\ scopeFor("customerRecords", "CUSTOMER") = "OWN"
      /\ scopeFor("customerRecords", "STAFF") = "ASSIGNED"
      /\ scopeFor("customerRecords", "ADMIN") = "ALL"
  BY DEF scopeFor, ACCESS_MATRIX, Scopes
<1>2. QED
  BY <1>1, RoleFacts, PartyFacts DEF Granted, InScope

(* What it grants of the operations on an application.                     *)
LEMMA OperationScope ==
  ASSUME NEW a \in Apps, NEW u \in Admins \cup {staffId[a]}
  PROVE  Granted("advanceApplicationStage", a, u)
<1>1. /\ scopeFor("advanceApplicationStage", "STAFF") = "ASSIGNED"
      /\ scopeFor("advanceApplicationStage", "ADMIN") = "ALL"
  BY DEF scopeFor, ACCESS_MATRIX, Scopes
<1>2. QED
  BY <1>1, RoleFacts, PartyFacts DEF Granted, InScope

(* One user: the four reads are about the same applications.               *)
LEMMA ReadsInScope ==
  ASSUME NEW u \in Users \ Partners
  PROVE  LET may == {a \in Apps : Granted("customerRecords", a, u)}
         IN /\ scopeQuery(u) = may
            /\ {a \in Apps : callerCanSee(parties(a), u)} = may
            /\ {a \in Apps : canAccess(parties(a), u)} = may
            /\ u \notin Admins => streamFor(u) = may
<1> DEFINE mine(a) == Granted("customerRecords", a, u)
           agree(a) ==
             /\ a \in scopeQuery(u) <=> mine(a)
             /\ callerCanSee(parties(a), u) <=> mine(a)
             /\ canAccess(parties(a), u) <=> mine(a)
             /\ u \notin Admins => (u \in audienceFor(parties(a)) <=> mine(a))
<1>1. ASSUME NEW a \in Apps, u \in Customers PROVE agree(a)
  <2>1. role(u) = "CUSTOMER" /\ u \notin Admins /\ u # staffId[a]
    BY <1>1, RoleFacts, PartyFacts, PartiesAssumption
  <2>2. QED
    BY <1>1, <2>1, PartyFacts, RecordScope
    DEF scopeQuery, callerCanSee, canAccess
<1>2. ASSUME NEW a \in Apps, u \in Staff PROVE agree(a)
  <2>1. role(u) = "STAFF" /\ u \notin Admins /\ u # customerId[a]
    BY <1>2, RoleFacts, PartyFacts, PartiesAssumption
  <2>2. QED
    BY <1>2, <2>1, PartyFacts, RecordScope
    DEF scopeQuery, callerCanSee, canAccess
<1>3. ASSUME NEW a \in Apps, u \in Admins PROVE agree(a)
  <2>1. role(u) = "ADMIN"
    BY <1>3, RoleFacts
  <2>2. QED
    BY <1>3, <2>1, PartyFacts, RecordScope
    DEF scopeQuery, callerCanSee, canAccess
<1>4. \A a \in Apps : agree(a)
  BY <1>1, <1>2, <1>3 DEF Users
<1> HIDE DEF mine
<1>5. scopeQuery(u) = {a \in Apps : mine(a)}
  BY <1>4 DEF scopeQuery
<1>6. u \notin Admins => streamFor(u) = {a \in Apps : mine(a)}
  BY <1>4 DEF streamFor
<1>7. QED
  BY <1>4, <1>5, <1>6 DEF mine

(* The guard of the routes and the checks in the handlers (assertion of    *)
(* applications.service.ts:217-219) are written apart from each other and  *)
(* from the matrix; whatever an admitted handler does is in the scope that *)
(* the matrix grants its actor, however long ago it was admitted.  And the *)
(* list, the detail screen, the thread and the live stream select by the   *)
(* scope of the matrix.                                                    *)
THEOREM ChecksMatchMatrix == Spec => []ScopesAgree
<1>1. IInv => ScopesAgree
  <2> SUFFICES ASSUME IInv PROVE ScopesAgree
    OBVIOUS
  <2>1. ASSUME NEW h \in Handlers, InFlight(h), handler[h].op # "submit"
        PROVE  Granted("advanceApplicationStage", handler[h].app,
                       handler[h].actor)
    <3>1. /\ handler[h].app \in Apps /\ handler[h].op \in Ops
          /\ CheckPassed(handler[h])
      BY <2>1, BusyHandler DEF IInv, Busy
    <3>2. handler[h].actor \in Admins \cup {staffId[handler[h].app]}
      BY <2>1, <3>1 DEF CheckPassed, Ops
    <3>3. QED
      BY <3>1, <3>2, OperationScope
  <2>2. QED
    BY <2>1, ReadsInScope DEF ScopesAgree, ShownAsGranted
<1>2. QED
  BY <1>1, Invariance, PTL
=============================================================================
