----------------------------- MODULE Lifecycle ------------------------------
(***************************************************************************)
(* What a client of the applications service may rely on, however requests *)
(* overlap and whatever is lost.                                           *)
(*                                                                         *)
(* A change happens at once: the row changes and one line says who moved   *)
(* it from which stage to which.  It was decided on the application as it  *)
(* was then or earlier, so that `from' is any stage it has had; but each   *)
(* kind of change touches its own fields only, and keeps its own rule.     *)
(*                                                                         *)
(* A change is reported by a system message, an audit row and two events,  *)
(* one of the message and one of its own, in any order with the reports of *)
(* other changes, each at most once, and nothing is reported that did not  *)
(* happen.  The repository's README asks for more, one transaction with    *)
(* one event; the program keeps neither, and this is what it does keep.    *)
(***************************************************************************)
EXTENDS Stages, Sequences, FiniteSets

CONSTANTS Apps, Admins, Reasons, None, customerId, staffId

VARIABLES
  applications,     \* the row of each application
  changes,          \* the changes of each application, in their order
  thread, audit, events   \* the reports of them

reports == <<thread, audit, events>>

lifecycle == <<applications, changes, thread, audit, events>>

Init ==
  /\ applications = [a \in Apps |->
       [stage |-> FIRST_STAGE, isRejected |-> FALSE, rejectionReason |-> None,
        locked |-> FALSE, submittedAt |-> FALSE]]
  /\ changes = [a \in Apps |-> << >>]
  /\ thread = [a \in Apps |-> << >>]
  /\ audit = [a \in Apps |-> << >>]
  /\ events = [a \in Apps |-> << >>]

-----------------------------------------------------------------------------
(* Changes *)

Had(a) == {FIRST_STAGE} \cup {changes[a][n].after : n \in DOMAIN changes[a]}

Commit(a, row, what, u, from, to, why) ==
  /\ applications' = [applications EXCEPT ![a] = row]
  /\ changes' = [changes EXCEPT ![a] = Append(@,
       [action |-> what, actor |-> u, before |-> from, after |-> to,
        reason |-> why])]
  /\ UNCHANGED <<thread, audit, events>>

Processors(a) == Admins \cup {staffId[a]}

(* The last stage comes with the lock.                                     *)
Forward(a, u, from, row) ==
  LET to == from + 1 IN
  /\ from \in Had(a) /\ from < FINAL_STAGE
  /\ Commit(a, [row EXCEPT !.stage = to, !.locked = @ \/ to = FINAL_STAGE],
            "StageAdvanced", u, from, to, None)

Submit(a) ==
  Forward(a, customerId[a], FIRST_STAGE,
          [applications[a] EXCEPT !.submittedAt = TRUE])

Advance(a, u, from) ==
  u \in Processors(a) /\ Forward(a, u, from, applications[a])

(* A correction of the last stage lifts the lock, another one may.         *)
Revert(a, u, from) ==
  /\ u \in Admins
  /\ from \in Had(a) /\ from > FIRST_STAGE
  /\ \E locked \in {FALSE} \cup IF from = FINAL_STAGE THEN {}
                                ELSE {applications[a].locked} :
       Commit(a, [applications[a] EXCEPT !.stage = from - 1,
                                         !.locked = locked],
              "StageReverted", u, from, from - 1, None)

(* Only the reason of a second rejection may replace that of a first.      *)
Reject(a, u, seen, why) ==
  /\ u \in Processors(a)
  /\ seen \in Had(a)
  /\ Commit(a, [applications[a] EXCEPT !.isRejected = TRUE,
                                       !.rejectionReason = why],
            "ApplicationRejected", u, None, seen, why)

Change(a) ==
  \/ Submit(a)
  \/ \E u \in Processors(a), stage \in Had(a) :
       \/ Advance(a, u, stage)
       \/ Revert(a, u, stage)
       \/ \E why \in Reasons : Reject(a, u, stage, why)

-----------------------------------------------------------------------------
(* Reports *)

messageOf(line) ==
  [about |-> line.action, stage |-> line.after, reason |-> line.reason]

messageEventOf(line) ==
  [type |-> "message.created", stage |-> line.after, customerId |-> None]

(* A correction is published without the customer's id.                    *)
changeEventOf(a, line) ==
  [type |-> IF line.action = "ApplicationRejected"
            THEN "application.rejected" ELSE "stage.changed",
   stage |-> line.after,
   customerId |-> IF line.action = "StageReverted" THEN None
                  ELSE customerId[a]]

Count(x, log) == Cardinality({i \in DOMAIN log : log[i] = x})

(* x is in the log less often than it is due: there is a change that has   *)
(* not been reported by it.                                                *)
Outstanding(x, due, log) == Count(x, log) < Count(x, due)

messagesDue(a) == [n \in DOMAIN changes[a] |-> messageOf(changes[a][n])]

messageEventsDue(a) ==
  [n \in DOMAIN changes[a] |-> messageEventOf(changes[a][n])]

changeEventsDue(a) ==
  [n \in DOMAIN changes[a] |-> changeEventOf(a, changes[a][n])]

Say(a, x) ==
  /\ Outstanding(x, messagesDue(a), thread[a])
  /\ thread' = [thread EXCEPT ![a] = Append(@, x)]
  /\ UNCHANGED <<applications, changes, audit, events>>

Record(a, x) ==
  /\ Outstanding(x, changes[a], audit[a])
  /\ audit' = [audit EXCEPT ![a] = Append(@, x)]
  /\ UNCHANGED <<applications, changes, thread, events>>

Publish(a, x, due) ==
  /\ Outstanding(x, due, events[a])
  /\ events' = [events EXCEPT ![a] = Append(@, x)]
  /\ UNCHANGED <<applications, changes, thread, audit>>

Report(a) ==
  \E n \in DOMAIN changes[a] :
    LET line == changes[a][n] IN
    \/ Say(a, messageOf(line))
    \/ Record(a, line)
    \/ Publish(a, messageEventOf(line), messageEventsDue(a))
    \/ Publish(a, changeEventOf(a, line), changeEventsDue(a))

(* A step that leaves the changes alone is a report, or nothing.           *)
Next ==
  \/ /\ changes' # changes
     /\ \E a \in Apps : Change(a)
  \/ /\ reports' # reports
     /\ \E a \in Apps : Report(a)

Spec == Init /\ [][Next]_lifecycle
=============================================================================
