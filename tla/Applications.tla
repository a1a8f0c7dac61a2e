---------------------------- MODULE Applications ----------------------------
(***************************************************************************)
(* The four operations that change a stored application: submit, advance,  *)
(* revert and reject (src/applications/applications.service.ts).           *)
(*                                                                         *)
(* The API is one Node process in front of MongoDB.  A request runs alone  *)
(* between two awaits and interleaves with the others at each of them, so  *)
(* an action is the code between two awaits with the effect of the call it *)
(* ends in: first findById and the checks on the document it returned,     *)
(* then save and the side effects, one call at a time, no transaction.     *)
(* A handler keeps the document it loaded, `seen', and Mongoose saves only *)
(* the fields whose value differs from it.                                 *)
(***************************************************************************)
EXTENDS Stages, Sequences, FiniteSets

CONSTANTS
  Apps,             \* application ids
  Handlers,         \* requests that can be in flight at the same time
  Customers, Partners, Staff, Admins,
  Reasons,          \* texts a rejection can carry
  None,             \* an absent value
  customerId,       \* customerId[a], staffId[a]: set at creation, and no
  staffId,          \*   operation of the service writes them again
  MaxWrites,        \* bound: saves of one application before requests stop
  MaxFailures       \* bound: handlers lost to a failed call or a crash

Users == Customers \cup Partners \cup Staff \cup Admins

ASSUME PartiesAssumption ==
  /\ customerId \in [Apps -> Customers]
  /\ staffId \in [Apps -> Staff]
  /\ Customers \cap (Partners \cup Staff \cup Admins) = {}
  /\ Partners \cap (Staff \cup Admins) = {}
  /\ Staff \cap Admins = {}

ASSUME NoneAssumption ==
  None \notin Reasons \cup Users \cup Stage

ASSUME HandlersAssumption == IsFiniteSet(Handlers)

ASSUME BoundsAssumption ==
  MaxWrites \in Nat /\ MaxFailures \in Nat

VARIABLES
  applications,     \* the collection: the stored row of each application
  complete,         \* is every mandatory document Submitted or Verified?
  handler,          \* the requests in flight
  thread,           \* system messages of each application
  audit,            \* audit rows of each application
  events,           \* events published about each application
  writes,           \* history: the audit row each save makes due
  failures          \* history: handlers lost

vars == <<applications, complete, handler, thread, audit, events, writes,
          failures>>

-----------------------------------------------------------------------------
(* Data *)

(* submittedAt is kept as "is it set"; rejectedAt is written with, and only *)
(* with, rejectionReason, which stands for both.                           *)
Row == [stage : Stage, isRejected : BOOLEAN,
        rejectionReason : Reasons \cup {None},
        locked : BOOLEAN, submittedAt : BOOLEAN]

NewRow == [stage |-> FIRST_STAGE, isRejected |-> FALSE,
           rejectionReason |-> None, locked |-> FALSE, submittedAt |-> FALSE]

Ops == {"submit", "advance", "revert", "reject"}

(* The call a handler is about to make. *)
Calls == {"pendingMandatory", "save", "postSystem", "announce", "record",
          "publish"}

Idle == [pc |-> "idle"]

Busy == [pc : Calls, op : Ops, app : Apps, actor : Users,
         reason : Reasons \cup {None}, seen : Row]

AuditAction == {"StageAdvanced", "StageReverted", "ApplicationRejected"}

action(op) == CASE op \in {"submit", "advance"} -> "StageAdvanced"
                [] op = "revert" -> "StageReverted"
                [] op = "reject" -> "ApplicationRejected"

AuditRow == [action : AuditAction, actor : Users,
             before : Stage \cup {None}, after : Stage,
             reason : Reasons \cup {None}]

Message == [about : AuditAction, stage : Stage, reason : Reasons \cup {None}]

Event == [type : {"message.created", "stage.changed", "application.rejected"},
          stage : Stage, customerId : Customers \cup {None}]

-----------------------------------------------------------------------------
(* The document in a handler's hands.  Here and below, name_variant is a   *)
(* plausible wrong form of the definition `name' that follows it; no       *)
(* action uses one, they show that the properties depend on the code.      *)

applyStageChange_neverLocks(row, to) == [row EXCEPT !.stage = to]

applyStageChange(row, to) ==
  [row EXCEPT !.stage = to, !.locked = @ \/ to = FINAL_STAGE]

reverted_keepsLock(row) == [row EXCEPT !.stage = @ - 1]

(* Neither the rejection nor the lock stands in an administrator's way.    *)
reverted(row) == [row EXCEPT !.stage = @ - 1, !.locked = FALSE]

rejected(row, why) ==
  [row EXCEPT !.isRejected = TRUE, !.rejectionReason = why]

(* What the handler's document looks like when it is saved.                *)
edited(b) ==
  CASE b.op = "submit" ->
         [applyStageChange(b.seen, nextStage(FIRST_STAGE))
            EXCEPT !.submittedAt = TRUE]
    [] b.op = "advance" -> applyStageChange(b.seen, nextStage(b.seen.stage))
    [] b.op = "revert" -> reverted(b.seen)
    [] b.op = "reject" -> rejected(b.seen, b.reason)

delta_wholeDocument(cur, old, new) == new

(* Mongoose sends the fields that were modified since the document loaded; *)
(* the stored value of the others stays.                                   *)
delta(cur, old, new) == IF new = old THEN cur ELSE new

merged(cur, old, new) ==
  [stage |-> delta(cur.stage, old.stage, new.stage),
   isRejected |-> delta(cur.isRejected, old.isRejected, new.isRejected),
   rejectionReason |-> delta(cur.rejectionReason, old.rejectionReason,
                             new.rejectionReason),
   locked |-> delta(cur.locked, old.locked, new.locked),
   submittedAt |-> delta(cur.submittedAt, old.submittedAt, new.submittedAt)]

systemMessage(b) ==
  [about |-> action(b.op), stage |-> edited(b).stage, reason |-> b.reason]

auditRow(b) ==
  [action |-> action(b.op), actor |-> b.actor,
   before |-> IF b.op = "reject" THEN None ELSE b.seen.stage,
   after |-> edited(b).stage, reason |-> b.reason]

messageEvent(b) ==
  [type |-> "message.created", stage |-> edited(b).stage, customerId |-> None]

changeEvent_stored(b) ==
  [type |-> IF b.op = "reject" THEN "application.rejected" ELSE "stage.changed",
   stage |-> applications[b.app].stage,
   customerId |-> IF b.op = "revert" THEN None ELSE customerId[b.app]]

(* revertStage is the one that publishes without the customer's id. *)
changeEvent(b) ==
  [type |-> IF b.op = "reject" THEN "application.rejected" ELSE "stage.changed",
   stage |-> edited(b).stage,
   customerId |-> IF b.op = "revert" THEN None ELSE customerId[b.app]]

-----------------------------------------------------------------------------
(* The guard in front of the routes.  It knows the caller's role, and not  *)
(* the application.                                                        *)

Role == {"CUSTOMER", "PARTNER", "STAFF", "ADMIN"}

role(u) == CASE u \in Customers -> "CUSTOMER"
             [] u \in Partners -> "PARTNER"
             [] u \in Staff -> "STAFF"
             [] u \in Admins -> "ADMIN"

Required_anyoneRejects ==
  [submit |-> {"CUSTOMER"}, advance |-> {"STAFF", "ADMIN"},
   revert |-> {"ADMIN"}, reject |-> {}]

(* @Roles of the four routes.                                              *)
Required ==
  [submit |-> {"CUSTOMER"}, advance |-> {"STAFF", "ADMIN"},
   revert |-> {"ADMIN"}, reject |-> {"STAFF", "ADMIN"}]

canActivate(op, u) == Required[op] = {} \/ role(u) \in Required[op]

-----------------------------------------------------------------------------
(* Loading and checking *)

Init ==
  /\ applications = [a \in Apps |-> NewRow]
  /\ complete \in [Apps -> BOOLEAN]
  /\ handler = [h \in Handlers |-> Idle]
  /\ thread = [a \in Apps |-> << >>]
  /\ audit = [a \in Apps |-> << >>]
  /\ events = [a \in Apps |-> << >>]
  /\ writes = [a \in Apps |-> << >>]
  /\ failures = 0

InFlight(h) == handler[h] # Idle

(* The guard let u in, findById returned row applications[a], the checks   *)
(* passed, and the handler goes on to `call'.  A request that is refused   *)
(* ends here and changes nothing.                                          *)
Load(h, op, a, u, why, call) ==
  /\ ~InFlight(h)
  /\ Len(writes[a]) < MaxWrites
  /\ canActivate(op, u)
  /\ handler' = [handler EXCEPT ![h] =
        [pc |-> call, op |-> op, app |-> a, actor |-> u, reason |-> why,
         seen |-> applications[a]]]
  /\ UNCHANGED <<applications, complete, thread, audit, events, writes,
                 failures>>

(* The check of advanceStage and reject.  It refuses staff only: the guard *)
(* leaves administrators beside them.                                      *)
notAssigned(u, a) == role(u) = "STAFF" /\ staffId[a] # u

closed(row) == row.isRejected \/ row.locked

submit(h, a, u) ==
  /\ u = customerId[a]
  /\ ~closed(applications[a])
  /\ applications[a].stage = FIRST_STAGE
  /\ Load(h, "submit", a, u, None, "pendingMandatory")

advanceStage(h, a, u) ==
  /\ ~closed(applications[a])
  /\ applications[a].stage < FINAL_STAGE
  /\ ~notAssigned(u, a)
  /\ Load(h, "advance", a, u, None, "save")

revertStage_fromFirst(h, a, u) ==
  /\ applications[a].stage >= FIRST_STAGE
  /\ Load(h, "revert", a, u, None, "save")

revertStage(h, a, u) ==
  /\ applications[a].stage > FIRST_STAGE
  /\ Load(h, "revert", a, u, None, "save")

reject(h, a, u, why) ==
  /\ ~applications[a].isRejected
  /\ ~notAssigned(u, a)
  /\ Load(h, "reject", a, u, why, "save")

-----------------------------------------------------------------------------
(* Going on: one call at a time *)

At(h, call) == InFlight(h) /\ handler[h].pc = call

Goto(h, call) == handler' = [handler EXCEPT ![h] = [@ EXCEPT !.pc = call]]

Leave(h) == handler' = [handler EXCEPT ![h] = Idle]

pendingMandatory(h) ==
  /\ At(h, "pendingMandatory")
  /\ IF complete[handler[h].app] THEN Goto(h, "save") ELSE Leave(h)
  /\ UNCHANGED <<applications, complete, thread, audit, events, writes,
                 failures>>

save(h) ==
  LET b == handler[h] IN
  /\ At(h, "save")
  /\ applications' = [applications EXCEPT ![b.app] =
                        merged(@, b.seen, edited(b))]
  /\ writes' = [writes EXCEPT ![b.app] = Append(@, auditRow(b))]
  /\ Goto(h, "postSystem")
  /\ UNCHANGED <<complete, thread, audit, events, failures>>

postSystem(h) ==
  LET b == handler[h] IN
  /\ At(h, "postSystem")
  /\ thread' = [thread EXCEPT ![b.app] = Append(@, systemMessage(b))]
  /\ Goto(h, "announce")
  /\ UNCHANGED <<applications, complete, audit, events, writes, failures>>

(* The end of postSystem: its own event. *)
announce(h) ==
  LET b == handler[h] IN
  /\ At(h, "announce")
  /\ events' = [events EXCEPT ![b.app] = Append(@, messageEvent(b))]
  /\ Goto(h, "record")
  /\ UNCHANGED <<applications, complete, thread, audit, writes, failures>>

record_storedStage(h) ==
  LET b == handler[h]
      row == [auditRow(b) EXCEPT !.after = applications[b.app].stage]
  IN
  /\ At(h, "record")
  /\ audit' = [audit EXCEPT ![b.app] = Append(@, row)]
  /\ Goto(h, "publish")
  /\ UNCHANGED <<applications, complete, thread, events, writes, failures>>

record(h) ==
  LET b == handler[h] IN
  /\ At(h, "record")
  /\ audit' = [audit EXCEPT ![b.app] = Append(@, auditRow(b))]
  /\ Goto(h, "publish")
  /\ UNCHANGED <<applications, complete, thread, events, writes, failures>>

(* Publishes and answers: detail() only reads. *)
publish(h) ==
  LET b == handler[h] IN
  /\ At(h, "publish")
  /\ events' = [events EXCEPT ![b.app] = Append(@, changeEvent(b))]
  /\ Leave(h)
  /\ UNCHANGED <<applications, complete, thread, audit, writes, failures>>

(* A database call of the handler rejects: the request is answered with an *)
(* error and what was done before stays done.                              *)
fail(h) ==
  /\ InFlight(h)
  /\ failures < MaxFailures
  /\ failures' = failures + 1
  /\ Leave(h)
  /\ UNCHANGED <<applications, complete, thread, audit, events, writes>>

(* The process stops and is started again: every handler in flight is gone. *)
crash ==
  LET lost == {h \in Handlers : InFlight(h)} IN
  /\ lost # {}
  /\ failures + Cardinality(lost) <= MaxFailures
  /\ failures' = failures + Cardinality(lost)
  /\ handler' = [h \in Handlers |-> Idle]
  /\ UNCHANGED <<applications, complete, thread, audit, events, writes>>

(* The documents service, modelled in full elsewhere: uploads complete the *)
(* checklist and reviews reopen it at any time.                            *)
documentsChange(a) ==
  /\ complete' = [complete EXCEPT ![a] = ~@]
  /\ UNCHANGED <<applications, handler, thread, audit, events, writes,
                 failures>>

Arrive(h) ==
  \E a \in Apps, u \in Users :
    \/ submit(h, a, u)
    \/ advanceStage(h, a, u)
    \/ revertStage(h, a, u)
    \/ \E why \in Reasons : reject(h, a, u, why)

Continue(h) ==
  \/ pendingMandatory(h)
  \/ save(h)
  \/ postSystem(h)
  \/ announce(h)
  \/ record(h)
  \/ publish(h)

Next ==
  \/ \E h \in Handlers : Arrive(h) \/ Continue(h) \/ fail(h)
  \/ crash
  \/ \E a \in Apps : documentsChange(a)

Spec == Init /\ [][Next]_vars

-----------------------------------------------------------------------------
(* Properties of every interleaving *)

(* The type invariant: stored rows, handlers and logs stay within the      *)
(* schema; in particular a stage is one of the enum's.                     *)
TypeOK ==
  /\ applications \in [Apps -> Row]
  /\ complete \in [Apps -> BOOLEAN]
  /\ handler \in [Handlers -> {Idle} \cup Busy]
  /\ thread \in [Apps -> Seq(Message)]
  /\ audit \in [Apps -> Seq(AuditRow)]
  /\ events \in [Apps -> Seq(Event)]
  /\ writes \in [Apps -> Seq(AuditRow)]
  /\ failures \in Nat

(* A stored application at the final stage is locked, whatever handlers    *)
(* were in flight: the one save that stores the stage stores the lock, and *)
(* a save that lifts the lock moves the stage.                             *)
DisbursedLocked ==
  \A a \in Apps :
    applications[a].stage = FINAL_STAGE => applications[a].locked

(* isRejected and the mandatory reason are stored together or not at all.  *)
RejectedHasReason ==
  \A a \in Apps :
    applications[a].isRejected <=> applications[a].rejectionReason # None

Times(Test(_), seq) == Cardinality({i \in DOMAIN seq : Test(seq[i])})

(* The handlers that saved application a and have not recorded it yet.     *)
Unrecorded(a) ==
  {h \in Handlers : /\ InFlight(h)
                    /\ handler[h].app = a
                    /\ handler[h].pc \in {"postSystem", "announce", "record"}}

(* The audit trail holds nothing that was not saved, and what it lacks is  *)
(* in a handler's hands or was lost with one: each save is recorded at     *)
(* most once, with the stages and the actor of that save.                  *)
AuditAccounts ==
  \A a \in Apps : \A i \in DOMAIN writes[a] \cup DOMAIN audit[a] :
    LET row == IF i \in DOMAIN audit[a] THEN audit[a][i] ELSE writes[a][i]
        Same(x) == x = row
        unrecorded == {h \in Unrecorded(a) : auditRow(handler[h]) = row}
        missing == Times(Same, writes[a]) - Times(Same, audit[a])
    IN /\ missing >= Cardinality(unrecorded)
       /\ missing <= Cardinality(unrecorded) + failures

(* A rejection is never undone: no handler that loaded the row before the  *)
(* rejection, and saves after it, clears it.                               *)
RejectionIsFinal ==
  [][\A a \in Apps :
       applications[a].isRejected => applications'[a].isRejected]_vars

-----------------------------------------------------------------------------
(* What the changes that were saved say about the row.  A save whose copy  *)
(* was old may move the application from a stage it had before, so that    *)
(* stored stages may jump; but no save invents a stage.                    *)

Moves(log) == {n \in DOMAIN log : log[n].action # "ApplicationRejected"}

(* The stages the application had before its nth change.                   *)
StagesHad(log, n) == {FIRST_STAGE} \cup {log[m].after : m \in 1 .. n - 1}

(* The stored stage is where the last move led.  Every move starts at a    *)
(* stage that the application had by then, goes one stage, and goes back   *)
(* only as an administrator's correction.                                  *)
StageFollows(row, log) ==
  /\ Moves(log) = {} => row.stage = FIRST_STAGE
  /\ \A n \in Moves(log) :
       /\ (\A m \in Moves(log) : m <= n) => row.stage = log[n].after
       /\ log[n].before \in StagesHad(log, n)
       /\ \/ log[n].action = "StageAdvanced" /\ log[n].after = log[n].before + 1
          \/ /\ log[n].action = "StageReverted"
             /\ log[n].after = log[n].before - 1
             /\ log[n].actor \in Admins

Ends(log) == {n \in DOMAIN log : /\ log[n].action = "StageAdvanced"
                                 /\ log[n].after = FINAL_STAGE}

Corrections(log, n) ==
  {m \in DOMAIN log : m > n /\ log[m].action = "StageReverted"}

(* A locked application reached the last stage and was not corrected from  *)
(* there since; one that is not locked was corrected each time it reached  *)
(* the last stage.                                                         *)
LockFollows(row, log) ==
  IF row.locked
  THEN \E n \in Ends(log) : \A m \in Corrections(log, n) :
         log[m].before # FINAL_STAGE
  ELSE \A n \in Ends(log) : Corrections(log, n) # {}

(* Stage and lock of the stored row are those that the saved changes tell, *)
(* however many handlers decided on old copies or were lost.               *)
RowFollowsChanges ==
  \A a \in Apps : /\ StageFollows(applications[a], writes[a])
                  /\ LockFollows(applications[a], writes[a])

-----------------------------------------------------------------------------
(* What a comment of the program says and the program does not do *)

(* An application leaves stage 1 only with its mandatory documents in.     *)
DocumentsGateStageOne ==
  [][\A a \in Apps :
       applications[a].stage = FIRST_STAGE
         /\ applications'[a].stage # FIRST_STAGE => complete[a]]_vars
=============================================================================
