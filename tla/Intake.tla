------------------------------- MODULE Intake -------------------------------
(***************************************************************************)
(* How an application comes into being: startOrResume with its checks, the *)
(* choice of an assignee, the number and the insert                        *)
(* (src/applications/applications.service.ts), and the administrator's     *)
(* overview of what was created.                                           *)
(*                                                                         *)
(* startOrResume is a chain of ten database calls, each an action here;    *)
(* everything it read may have changed when it inserts.  The later life of *)
(* an application is reduced to one atomic step per operation (Lifecycle); *)
(* profiles, products and staff change as their services let them.         *)
(***************************************************************************)
EXTENDS Stages, Sequences, FiniteSets

CONSTANTS
  Customers, Products, Staff,
  None,             \* no assignee yet
  Requests,         \* startOrResume requests that can be in flight at a time
  MaxAttempts,      \* bound: tries of newApplicationId, 5 in the program
  MaxApplications,  \* bound: applications created
  MaxSerial,        \* bound: numbers that the fallback of the number can draw
  MaxChanges,       \* bound: applications that open or close
  MaxFailures       \* bound: requests lost to a failed call or a crash

ASSUME RequestsAssumption == IsFiniteSet(Requests)

ASSUME BoundsAssumption ==
  /\ MaxAttempts \in Nat \ {0}
  /\ MaxApplications \in Nat
  /\ MaxSerial \in Nat \ {0}
  /\ MaxChanges \in Nat
  /\ MaxFailures \in Nat

VARIABLES
  applications,     \* the rows in the order of their creation
  seeded,           \* applications whose checklist was seeded
  logged,           \* applications whose creation was audited
  profileComplete,  \* customers with profileCompletedAt
  active,           \* products that are active
  assignable,       \* active members of staff
  attempts,         \* tries of newApplicationId: a parameter, chosen by Init
  request,          \* the startOrResume requests in flight
  failures,         \* history: requests lost
  overlapped,       \* history: have two requests been in flight at once?
  reopened,         \* history: has an application gone back to stage 1?
  changes,          \* history: how often an existing one opened or closed
  joined            \* history: staff who came after the beginning

vars == <<applications, seeded, logged, profileComplete, active, assignable,
          attempts, request, failures, overlapped, reopened, changes, joined>>

-----------------------------------------------------------------------------
(* Data *)

Row == [customerId : Customers, productId : Products, serial : Nat,
        staffId : Staff, stage : Stage, isRejected : BOOLEAN,
        locked : BOOLEAN]

Idle == [pc |-> "idle"]

Calls == {"product", "existing", "assignable", "load", "count", "exists",
          "create", "seed", "audit"}

(* ids, staffId, serial and made are what the request has read or written  *)
(* so far: staff to choose from, its choice, the number to use and the     *)
(* application it created.  `known' is how many there were at its last     *)
(* look at the number.                                                     *)
Busy == [pc : Calls, customerId : Customers, productId : Products,
         ids : SUBSET Staff, staffId : Staff \cup {None},
         attempt : 0 .. MaxAttempts, serial : Nat, known : Nat, made : Nat]

InFlight(r) == request[r] # Idle

Indices == DOMAIN applications

OfProduct(p) == {i \in Indices : applications[i].productId = p}

(* What makes an existing application the one to resume.                   *)
resumable_anyStage(i, c, p) ==
  /\ applications[i].customerId = c
  /\ applications[i].productId = p
  /\ applications[i].isRejected

resumable(i, c, p) ==
  /\ applications[i].customerId = c
  /\ applications[i].productId = p
  /\ applications[i].stage = FIRST_STAGE
  /\ ~applications[i].isRejected

isOpen(row) == ~row.locked /\ ~row.isRejected

(* Applications a member of staff still has to work on.                    *)
openLoad(s) ==
  Cardinality({i \in Indices : /\ applications[i].staffId = s
                               /\ isOpen(applications[i])})

-----------------------------------------------------------------------------
(* startOrResume *)

Init ==
  /\ applications = << >>
  /\ seeded = {} /\ logged = {}
  /\ profileComplete \in SUBSET Customers
  /\ active \in SUBSET Products
  /\ assignable \in SUBSET Staff
  /\ attempts \in 1 .. MaxAttempts
  /\ request = [r \in Requests |-> Idle]
  /\ failures = 0
  /\ overlapped = FALSE
  /\ reopened = FALSE
  /\ changes = 0
  /\ joined = {}

At(r, call) == InFlight(r) /\ request[r].pc = call

Goto(r, call) == request' = [request EXCEPT ![r] = [@ EXCEPT !.pc = call]]

Leave(r) == request' = [request EXCEPT ![r] = Idle]

UnchangedAround ==
  UNCHANGED <<profileComplete, active, assignable, attempts, reopened, changes,
              joined>>

UnchangedRest ==
  /\ UNCHANGED <<seeded, logged, failures, overlapped>>
  /\ UnchangedAround

(* isProfileComplete answered yes.                                         *)
startOrResume(r, c, p) ==
  /\ ~InFlight(r)
  /\ Len(applications) + Cardinality({q \in Requests : InFlight(q)})
       < MaxApplications
  /\ c \in profileComplete
  /\ request' = [request EXCEPT ![r] =
        [pc |-> "product", customerId |-> c, productId |-> p, ids |-> {},
         staffId |-> None, attempt |-> 0, serial |-> 0, known |-> 0,
         made |-> 0]]
  /\ overlapped' = (overlapped \/ \E q \in Requests : InFlight(q))
  /\ UNCHANGED <<applications, seeded, logged, failures>>
  /\ UnchangedAround

findProduct(r) ==
  /\ At(r, "product")
  /\ IF request[r].productId \in active THEN Goto(r, "existing") ELSE Leave(r)
  /\ UNCHANGED applications /\ UnchangedRest

(* findOne: an application that is still in stage 1 is the answer.         *)
findExisting(r) ==
  /\ At(r, "existing")
  /\ IF \E i \in Indices :
          resumable(i, request[r].customerId, request[r].productId)
     THEN Leave(r) ELSE Goto(r, "assignable")
  /\ UNCHANGED applications /\ UnchangedRest

listAssignable(r) ==
  /\ At(r, "assignable")
  /\ IF assignable = {} THEN Leave(r)
     ELSE request' = [request EXCEPT
            ![r] = [@ EXCEPT !.ids = assignable, !.pc = "load"]]
  /\ UNCHANGED applications /\ UnchangedRest

pickAssignee_mostLoaded(r) ==
  /\ At(r, "load")
  /\ \E s \in request[r].ids :
       /\ \A t \in request[r].ids : openLoad(s) >= openLoad(t)
       /\ request' = [request EXCEPT
            ![r] = [@ EXCEPT !.staffId = s, !.pc = "count"]]
  /\ UNCHANGED applications /\ UnchangedRest

(* The aggregate, and the first of the sorted ids: one of the least loaded.*)
pickAssignee(r) ==
  /\ At(r, "load")
  /\ \E s \in request[r].ids :
       /\ \A t \in request[r].ids : openLoad(s) <= openLoad(t)
       /\ request' = [request EXCEPT
            ![r] = [@ EXCEPT !.staffId = s, !.pc = "count"]]
  /\ UNCHANGED applications /\ UnchangedRest

nextSerial(p, attempt) == Cardinality(OfProduct(p)) + 1 + attempt

countDocuments(r) ==
  LET b == request[r] IN
  /\ At(r, "count")
  /\ request' = [request EXCEPT ![r] =
        [@ EXCEPT !.serial = nextSerial(b.productId, b.attempt),
                  !.pc = "exists"]]
  /\ UNCHANGED applications /\ UnchangedRest

taken(p, serial) == \E i \in OfProduct(p) : applications[i].serial = serial

candidateExists_unchecked(r) ==
  /\ At(r, "exists")
  /\ request' = [request EXCEPT ![r] =
        [@ EXCEPT !.pc = "create", !.known = Len(applications)]]
  /\ UNCHANGED applications /\ UnchangedRest

(* A number that is free is used, one that is taken means another attempt, *)
(* and after the last one the clock gives a number nobody looks at.        *)
candidateExists(r) ==
  LET b == request[r] IN
  /\ At(r, "exists")
  /\ \/ /\ ~taken(b.productId, b.serial)
        /\ request' = [request EXCEPT ![r] =
             [@ EXCEPT !.pc = "create", !.known = Len(applications)]]
     \/ /\ taken(b.productId, b.serial)
        /\ b.attempt + 1 < attempts
        /\ request' = [request EXCEPT ![r] =
             [@ EXCEPT !.pc = "count", !.attempt = b.attempt + 1]]
     \/ /\ taken(b.productId, b.serial)
        /\ b.attempt + 1 = attempts
        /\ \E s \in 1 .. MaxSerial :
             request' = [request EXCEPT ![r] =
               [@ EXCEPT !.pc = "create", !.attempt = attempts, !.serial = s,
                         !.known = Len(applications)]]
  /\ UNCHANGED applications /\ UnchangedRest

create_noSeed(r) ==
  LET b == request[r] IN
  /\ At(r, "create")
  /\ IF taken(b.productId, b.serial) THEN Leave(r) /\ UNCHANGED applications
     ELSE /\ applications' = Append(applications,
               [customerId |-> b.customerId, productId |-> b.productId,
                serial |-> b.serial, staffId |-> b.staffId,
                stage |-> FIRST_STAGE, isRejected |-> FALSE,
                locked |-> FALSE])
          /\ request' = [request EXCEPT ![r] =
               [@ EXCEPT !.pc = "audit", !.made = Len(applications) + 1]]
  /\ UnchangedRest

(* The insert; the unique index refuses a number that was taken meanwhile. *)
create(r) ==
  LET b == request[r] IN
  /\ At(r, "create")
  /\ IF taken(b.productId, b.serial) THEN Leave(r) /\ UNCHANGED applications
     ELSE /\ applications' = Append(applications,
               [customerId |-> b.customerId, productId |-> b.productId,
                serial |-> b.serial, staffId |-> b.staffId,
                stage |-> FIRST_STAGE, isRejected |-> FALSE,
                locked |-> FALSE])
          /\ request' = [request EXCEPT ![r] =
               [@ EXCEPT !.pc = "seed", !.made = Len(applications) + 1]]
  /\ UnchangedRest

seedChecklist(r) ==
  /\ At(r, "seed")
  /\ seeded' = seeded \cup {request[r].made}
  /\ Goto(r, "audit")
  /\ UNCHANGED <<applications, logged, failures, overlapped>>
  /\ UnchangedAround

(* audit.record and the answer.                                            *)
record(r) ==
  /\ At(r, "audit")
  /\ logged' = logged \cup {request[r].made}
  /\ Leave(r)
  /\ UNCHANGED <<applications, seeded, failures, overlapped>>
  /\ UnchangedAround

(* A call rejects or the process stops; a crash is this for every request. *)
fail(r) ==
  /\ InFlight(r)
  /\ failures < MaxFailures
  /\ failures' = failures + 1
  /\ Leave(r)
  /\ UNCHANGED <<applications, seeded, logged, overlapped>>
  /\ UnchangedAround

-----------------------------------------------------------------------------
(* What else changes *)

UnchangedRequests ==
  UNCHANGED <<seeded, logged, attempts, request, failures, overlapped>>

(* createProfile of the customers service.                                 *)
createProfile(c) ==
  /\ profileComplete' = profileComplete \cup {c}
  /\ UNCHANGED <<applications, active, assignable, reopened, changes, joined>>
  /\ UnchangedRequests

(* An administrator activates or deactivates a product.                    *)
updateProduct(p) ==
  /\ active' = IF p \in active THEN active \ {p} ELSE active \cup {p}
  /\ UNCHANGED <<applications, profileComplete, assignable, reopened, changes,
                 joined>>
  /\ UnchangedRequests

createStaff(s) ==
  /\ s \notin assignable
  /\ assignable' = assignable \cup {s}
  /\ joined' = joined \cup {s}
  /\ UNCHANGED <<applications, profileComplete, active, reopened, changes>>
  /\ UnchangedRequests

Change(i, row) ==
  LET was == applications[i] IN
  /\ applications' = [applications EXCEPT ![i] = row]
  /\ reopened' =
       (reopened \/ (row.stage = FIRST_STAGE /\ was.stage # FIRST_STAGE))
  /\ \/ isOpen(row) = isOpen(was) /\ UNCHANGED changes
     \/ /\ isOpen(row) # isOpen(was)
        /\ changes < MaxChanges
        /\ changes' = changes + 1
  /\ UNCHANGED <<profileComplete, active, assignable, joined>>
  /\ UnchangedRequests

advance(i) ==
  LET row == applications[i] IN
  /\ isOpen(row)
  /\ Change(i, [row EXCEPT !.stage = nextStage(@),
                           !.locked = row.stage + 1 = FINAL_STAGE])

revert_fromFirst(i) ==
  Change(i, [applications[i] EXCEPT !.stage = @ - 1, !.locked = FALSE])

revert(i) ==
  /\ applications[i].stage > FIRST_STAGE
  /\ Change(i, [applications[i] EXCEPT !.stage = @ - 1, !.locked = FALSE])

reject(i) ==
  /\ ~applications[i].isRejected
  /\ Change(i, [applications[i] EXCEPT !.isRejected = TRUE])

Next ==
  \/ \E r \in Requests :
       \/ \E c \in Customers, p \in Products : startOrResume(r, c, p)
       \/ findProduct(r) \/ findExisting(r) \/ listAssignable(r)
       \/ pickAssignee(r) \/ countDocuments(r) \/ candidateExists(r)
       \/ create(r) \/ seedChecklist(r) \/ record(r) \/ fail(r)
  \/ \E c \in Customers : createProfile(c)
  \/ \E p \in Products : updateProduct(p)
  \/ \E s \in Staff : createStaff(s)
  \/ \E i \in Indices : advance(i) \/ revert(i) \/ reject(i)

Spec == Init /\ [][Next]_vars

-----------------------------------------------------------------------------
(* Properties *)

(* The type invariant.                                                     *)
TypeOK ==
  /\ applications \in Seq(Row)
  /\ seeded \subseteq Indices /\ logged \subseteq Indices
  /\ profileComplete \subseteq Customers
  /\ active \subseteq Products
  /\ assignable \subseteq Staff
  /\ attempts \in 1 .. MaxAttempts
  /\ request \in [Requests -> {Idle} \cup Busy]
  /\ failures \in Nat
  /\ overlapped \in BOOLEAN
  /\ reopened \in BOOLEAN
  /\ changes \in Nat
  /\ joined \subseteq Staff

(* As long as requests do not overlap and no application is taken back to  *)
(* stage 1, a customer has one application in stage 1 per product: a       *)
(* second request resumes it.                                              *)
OpenOnceIfCalm ==
  ~overlapped /\ ~reopened =>
    \A i, j \in Indices :
      /\ resumable(i, applications[i].customerId, applications[i].productId)
      /\ resumable(j, applications[i].customerId, applications[i].productId)
      => i = j

(* A request whose number is refused by the index lost it to an            *)
(* application created after it had looked, or had run out of attempts.    *)
RefusedOnlyAfterRace ==
  \A r \in Requests :
    At(r, "create") /\ taken(request[r].productId, request[r].serial) =>
      \/ Len(applications) > request[r].known
      \/ request[r].attempt = attempts

(* Whatever becomes of the applications, a member of staff is ahead of a   *)
(* colleague who was there from the beginning by one open application at   *)
(* most, and by one more for every one that closed or opened again; where  *)
(* requests overlap, by one for each that can choose by an old count.      *)
LoadsStayClose ==
  \A s \in assignable, t \in assignable \ joined :
    openLoad(s) - openLoad(t) <=
      (IF overlapped THEN Cardinality(Requests) ELSE 1) + changes

(* An application without checklist rows, or whose creation was not        *)
(* audited, is in the hands of the request that made it or was lost with   *)
(* it; and it is seeded before it is audited.                              *)
CreatedIsSeededAndLogged ==
  LET lacks(done, calls) ==
        {i \in Indices \ done :
           \A r \in Requests : InFlight(r) /\ request[r].made = i
                                 => request[r].pc \notin calls}
  IN /\ logged \subseteq seeded
     /\ Cardinality(lacks(seeded, {"seed"}) \cup
                    lacks(logged, {"seed", "audit"})) <= failures

=============================================================================
