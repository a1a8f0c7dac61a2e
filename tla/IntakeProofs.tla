---------------------------- MODULE IntakeProofs ----------------------------
(***************************************************************************)
(* Theorems about Intake, for any number of customers, products, staff and *)
(* requests in flight.                                                     *)
(*                                                                         *)
(* Good(r) is what request r may rely on between two of its calls: what it *)
(* read and what may have become of it since.  When requests overlap, or   *)
(* an application goes back to stage 1, the part that says there still is  *)
(* nothing to resume is dropped: that is the race of startOrResume.  The   *)
(* properties of the rows follow, because create inserts what Good         *)
(* describes.  Close counts the requests that have chosen an assignee with *)
(* the applications he has, so that their inserts change nothing.          *)
(***************************************************************************)
EXTENDS Intake, SequenceTheorems, FiniteSetTheorems, TLAPS

NothingReopened == ~overlapped /\ ~reopened

(* The open applications of s, the requests that have chosen s, and how    *)
(* far s may be ahead of a colleague.                                      *)
Of(s) == {i \in Indices : /\ applications[i].staffId = s
                          /\ isOpen(applications[i])}

Choosing == {"count", "exists", "create"}

Chosen(s) == {r \in Requests : /\ request[r].pc \in Choosing
                               /\ request[r].staffId = s}

Choosers == IF overlapped THEN Cardinality(Requests) ELSE 1

HasStaff(r) ==
  request[r].pc \in Choosing => request[r].staffId \in Staff

HasMade(r) ==
  /\ request[r].pc \in {"seed", "audit"} => request[r].made \in Indices
  /\ request[r].pc = "audit" => request[r].made \in seeded

(* Found nothing to resume: there still is nothing.                        *)
NoTwin(r) ==
  request[r].pc \in {"assignable", "load", "count", "exists", "create"} =>
    \A i \in Indices :
      ~resumable(i, request[r].customerId, request[r].productId)

(* The number was free among the applications there were.                  *)
LookedFree(r) ==
  request[r].pc = "create" =>
    /\ request[r].known <= Len(applications)
    /\ request[r].attempt # attempts =>
         \A i \in Indices :
           /\ i <= request[r].known
           /\ applications[i].productId = request[r].productId
           => applications[i].serial # request[r].serial

(* Whoever was there from the beginning is among the staff it listed.      *)
KnowsStaff(r) ==
  request[r].pc = "load" => assignable \ joined \subseteq request[r].ids

Good(r) ==
  /\ HasStaff(r) /\ HasMade(r) /\ LookedFree(r) /\ KnowsStaff(r)
  /\ NothingReopened => NoTwin(r)

Single ==
  ~overlapped =>
    \A q, r \in Requests : InFlight(q) /\ InFlight(r) => q = r

Rows ==
  \A i \in Indices : ~applications[i].locked =>
    applications[i].stage < FINAL_STAGE

(* The applications that s has and those that are on their way to s.       *)
Close ==
  \A s \in Staff, t \in assignable \ joined :
    Cardinality(Of(s)) + Cardinality(Chosen(s)) - Cardinality(Of(t))
      <= Choosers + changes

(* Applications whose creation is not audited and never will be.           *)
Lost ==
  {i \in Indices \ logged :
     \A r \in Requests : request[r].pc \in {"seed", "audit"}
                           => request[r].made # i}

Accounted == logged \subseteq seeded /\ Cardinality(Lost) <= failures

IInv ==
  /\ TypeOK /\ Single /\ Rows /\ Accounted
  /\ \A r \in Requests : Good(r)
  /\ OpenOnceIfCalm /\ Close

-----------------------------------------------------------------------------
(* Rows, loads and requests *)

LEMMA RowFacts ==
  ASSUME TypeOK
  PROVE  /\ Len(applications) \in Nat
         /\ Indices = 1 .. Len(applications)
         /\ \A i \in Indices : applications[i] \in Row
         /\ IsFiniteSet(Indices)
<1>1. applications \in Seq(Row)
  BY DEF TypeOK
<1>2. /\ Len(applications) \in Nat
      /\ Indices = 1 .. Len(applications)
      /\ \A i \in Indices : applications[i] \in Row
  BY <1>1 DEF Indices
<1>3. IsFiniteSet(1 .. Len(applications))
  BY <1>2, FS_Interval
<1> QED
  BY <1>2, <1>3

LEMMA BusyFacts ==
  ASSUME TypeOK, NEW r \in Requests
  PROVE  /\ InFlight(r) => request[r] \in Busy /\ request[r].pc \in Calls
         /\ ~InFlight(r) => request[r] = Idle /\ request[r].pc = "idle"
         /\ request[r].pc \in Calls => InFlight(r)
<1>1. request[r] \in {Idle} \cup Busy
  BY DEF TypeOK
<1>2. \A b \in Busy : b.pc \in Calls
  BY DEF Busy
<1>3. Idle.pc = "idle" /\ "idle" \notin Calls
  BY DEF Idle, Calls
<1> QED
  BY <1>1, <1>2, <1>3 DEF InFlight

LEMMA LoadFacts ==
  ASSUME TypeOK, NEW s
  PROVE  IsFiniteSet(Of(s)) /\ Cardinality(Of(s)) \in Nat
<1>1. Of(s) \in SUBSET Indices
  BY DEF Of
<1>2. IsFiniteSet(Indices)
  BY RowFacts
<1>3. IsFiniteSet(Of(s))
  BY <1>1, <1>2, FS_Subset
<1> QED
  BY <1>3, FS_CardinalityType

(* No more than one request has chosen, unless requests overlap.           *)
FewChoose ==
  \A s : /\ IsFiniteSet(Chosen(s)) /\ Cardinality(Chosen(s)) \in Nat
         /\ Choosers \in Nat /\ Cardinality(Chosen(s)) <= Choosers

LEMMA ChosenFacts ==
  TypeOK /\ Single => FewChoose
<1> SUFFICES ASSUME TypeOK, Single, NEW s
             PROVE  /\ IsFiniteSet(Chosen(s)) /\ Cardinality(Chosen(s)) \in Nat
                    /\ Choosers \in Nat /\ Cardinality(Chosen(s)) <= Choosers
  BY DEF FewChoose
<1>1. Chosen(s) \in SUBSET Requests
  BY DEF Chosen
<1>2. /\ Cardinality(Requests) \in Nat
      /\ IsFiniteSet(Chosen(s)) /\ Cardinality(Chosen(s)) \in Nat
      /\ Cardinality(Chosen(s)) <= Cardinality(Requests)
  BY <1>1, RequestsAssumption, FS_Subset, FS_CardinalityType
<1>3. ASSUME ~overlapped PROVE Cardinality(Chosen(s)) <= 1
  <2>1. \A q, r \in Chosen(s) : q = r
    BY <1>3, BusyFacts DEF Single, Chosen, Choosing, Calls
  <2>2. CASE Chosen(s) = {}
    BY <2>2, FS_EmptySet
  <2>3. CASE Chosen(s) # {}
    <3>1. PICK r : Chosen(s) = {r}
      BY <2>1, <2>3
    <3> QED
      <4>1. Cardinality({r}) = 1
        BY FS_Singleton
      <4> QED
        BY <3>1, <4>1
  <2> QED
    BY <2>2, <2>3
<1> QED
  BY <1>2, <1>3 DEF Choosers

LEMMA LostFinite == TypeOK => IsFiniteSet(Lost) /\ Cardinality(Lost) \in Nat
<1> SUFFICES ASSUME TypeOK PROVE IsFiniteSet(Lost) /\ Cardinality(Lost) \in Nat
  OBVIOUS
<1>1. Lost \in SUBSET Indices
  BY DEF Lost
<1>2. IsFiniteSet(Indices)
  BY RowFacts
<1>3. IsFiniteSet(Lost)
  BY <1>1, <1>2, FS_Subset
<1>4. Cardinality(Lost) \in Nat
  BY <1>3, FS_CardinalityType
<1> QED
  BY <1>3, <1>4

(* A request that is not in flight, or has just begun, relies on nothing.  *)
LEMMA IdleIsGood ==
  ASSUME NEW r, request[r].pc \in {"idle", "product", "existing"}
  PROVE  Good(r)
BY DEF Good, HasStaff, HasMade, NoTwin, LookedFree, KnowsStaff,
       Choosing

-----------------------------------------------------------------------------
(* The invariant is inductive *)

LEMMA InitEstablishes == Init => IInv
<1> SUFFICES ASSUME Init PROVE IInv
  OBVIOUS
<1>1. /\ applications = << >> /\ Indices = {} /\ failures = 0
      /\ \A r \in Requests : request[r] = Idle /\ request[r].pc = "idle"
  BY DEF Init, Indices, Idle
<1>2. TypeOK
  <2>1. applications \in Seq(Row)
    BY <1>1
  <2>2. request \in [Requests -> {Idle} \cup Busy]
    BY DEF Init
  <2>3. failures \in Nat /\ seeded \subseteq Indices /\ logged \subseteq Indices
    BY <1>1 DEF Init
  <2> QED
    BY <2>1, <2>2, <2>3 DEF Init, TypeOK
<1>3. Single /\ Rows /\ OpenOnceIfCalm
  BY <1>1 DEF Single, Rows, OpenOnceIfCalm, InFlight
<1>4. Accounted
  <2>1. Lost = {}
    BY <1>1 DEF Lost
  <2>2. Cardinality(Lost) = 0
    BY <2>1, FS_EmptySet
  <2> QED
    BY <1>1, <2>2 DEF Accounted, Init
<1>5. \A r \in Requests : Good(r)
  BY <1>1, IdleIsGood
<1>6. Close
  <2>1. ASSUME NEW s
        PROVE  Cardinality(Of(s)) = 0 /\ Cardinality(Chosen(s)) = 0
    <3>1. Of(s) = {} /\ Chosen(s) = {}
      BY <1>1 DEF Of, Chosen, Choosing
    <3> QED
      BY <3>1, FS_EmptySet
  <2> QED
    BY <2>1 DEF Close, Choosers, Init
<1> QED
  BY <1>2, <1>3, <1>4, <1>5, <1>6 DEF IInv

(* A step that leaves the rows as they are: what holds of the rows holds,  *)
(* and of the requests that stay where they are.                           *)
LEMMA RowsStay ==
  ASSUME IInv, NEW R \in SUBSET Requests,
         UNCHANGED <<applications, attempts>>,
         seeded \subseteq seeded',
         overlapped => overlapped', reopened => reopened',
         assignable' \ joined' \subseteq assignable \ joined,
         \A q \in R : request'[q] = request[q]
  PROVE  Rows' /\ OpenOnceIfCalm' /\ \A q \in R : Good(q)'
<1>1. /\ Indices' = Indices
      /\ NothingReopened' => NothingReopened
  BY DEF Indices, NothingReopened
<1>2. Rows'
  BY <1>1 DEF IInv, Rows
<1>3. OpenOnceIfCalm'
  BY <1>1 DEF IInv, OpenOnceIfCalm, resumable
<1>4. ASSUME NEW q \in R PROVE Good(q)'
  <2>1. request'[q] = request[q] /\ Good(q)
    BY <1>4 DEF IInv
  <2>2. HasStaff(q)' /\ HasMade(q)' /\ LookedFree(q)' /\ KnowsStaff(q)'
    BY <1>1, <2>1 DEF Good, HasStaff, HasMade, LookedFree, KnowsStaff
  <2>3. NothingReopened' => NoTwin(q)'
    BY <1>1, <2>1 DEF Good, NoTwin, resumable
  <2> QED
    BY <2>2, <2>3 DEF Good
<1> QED
  BY <1>2, <1>3, <1>4

(* It keeps the loads close as well, if no request makes a choice.         *)
LEMMA NobodyChooses ==
  ASSUME IInv, UNCHANGED <<applications, changes>>,
         overlapped => overlapped',
         Requests # {} \/ overlapped' = overlapped,
         assignable' \ joined' \subseteq assignable \ joined,
         \A q \in Requests : request'[q].pc \in Choosing =>
           /\ request[q].pc \in Choosing
           /\ request'[q].staffId = request[q].staffId
  PROVE  Close'
<1>1. ASSUME NEW s \in Staff, NEW t \in assignable' \ joined'
      PROVE  Cardinality(Of(s))' + Cardinality(Chosen(s))'
               - Cardinality(Of(t))' <= Choosers' + changes'
  <2>1. Of(s)' = Of(s) /\ Of(t)' = Of(t)
    BY DEF Of, Indices
  <2>2. Chosen(s)' \in SUBSET Chosen(s)
    BY DEF Chosen
  <2>3. /\ Cardinality(Chosen(s)') \in Nat
        /\ Cardinality(Chosen(s)') <= Cardinality(Chosen(s))
        /\ Cardinality(Chosen(s)) \in Nat
    BY <2>2, ChosenFacts, FS_Subset, FS_CardinalityType DEF FewChoose, IInv
  <2>4. Cardinality(Of(s)) \in Nat /\ Cardinality(Of(t)) \in Nat
    BY LoadFacts DEF IInv
  <2>5. Choosers \in Nat /\ Choosers' \in Nat /\ Choosers <= Choosers'
    <3>1. Cardinality(Requests) \in Nat
      BY RequestsAssumption, FS_CardinalityType
    <3>2. Requests # {} => Cardinality(Requests) >= 1
      BY <3>1, RequestsAssumption, FS_EmptySet
    <3> QED
      BY <3>1, <3>2 DEF Choosers, IInv, TypeOK
  <2>6. changes \in Nat /\ changes' = changes
    BY DEF IInv, TypeOK
  <2>7. Cardinality(Of(s)) + Cardinality(Chosen(s)) - Cardinality(Of(t))
          <= Choosers + changes
    BY DEF IInv, Close
  <2> QED
    BY <2>1, <2>3, <2>4, <2>5, <2>6, <2>7
<1> QED
  BY <1>1 DEF Close

(* A call of one request that writes nothing.                              *)
LEMMA QuietStep ==
  ASSUME IInv, NEW r \in Requests, NEW next \in {Idle} \cup Busy,
         InFlight(r), request[r].pc \notin {"seed", "audit"},
         next.pc \notin {"seed", "audit"},
         request' = [request EXCEPT ![r] = next],
         UNCHANGED applications, UnchangedRest, Good(r)', Close'
  PROVE  IInv'
<1>1. TypeOK
  BY DEF IInv
<1>2. /\ request' \in [Requests -> {Idle} \cup Busy] /\ request'[r] = next
      /\ \A q \in Requests : q # r => request'[q] = request[q]
  BY <1>1 DEF TypeOK
<1>3. TypeOK' /\ Indices' = Indices
  BY <1>1, <1>2 DEF TypeOK, UnchangedRest, UnchangedAround, Indices
<1>4. Single'
  BY <1>2 DEF IInv, Single, InFlight, UnchangedRest
<1>5. Accounted'
  <2>1. Lost' = Lost
    BY <1>2, <1>3 DEF Lost, UnchangedRest
  <2> QED
    BY <2>1 DEF IInv, Accounted, UnchangedRest
<1>6. /\ Rows' /\ OpenOnceIfCalm'
      /\ \A q \in Requests \ {r} : Good(q)'
  BY <1>2, RowsStay DEF UnchangedRest, UnchangedAround
<1> QED
  BY <1>3, <1>4, <1>5, <1>6 DEF IInv

(* Such a call that is not the choice of an assignee.                      *)
LEMMA NoChoice ==
  ASSUME IInv, NEW r \in Requests, NEW next \in {Idle} \cup Busy,
         request' = [request EXCEPT ![r] = next],
         UNCHANGED applications, UnchangedRest,
         next.pc \in Choosing => /\ request[r].pc \in Choosing
                                 /\ next.staffId = request[r].staffId
  PROVE  Close'
<1>1. /\ request'[r] = next
      /\ \A q \in Requests : q # r => request'[q] = request[q]
  BY DEF IInv, TypeOK
<1> QED
  BY <1>1, NobodyChooses DEF UnchangedRest, UnchangedAround

LEMMA StartStep ==
  ASSUME IInv, NEW r \in Requests, NEW c \in Customers, NEW p \in Products,
         startOrResume(r, c, p)
  PROVE  IInv'
<1> DEFINE next == [pc |-> "product", customerId |-> c, productId |-> p,
                    ids |-> {}, staffId |-> None, attempt |-> 0, serial |-> 0,
                    known |-> 0, made |-> 0]
<1>1. TypeOK /\ next \in Busy /\ next.pc = "product"
  BY BoundsAssumption DEF IInv, Busy, Calls
<1>2. /\ ~InFlight(r) /\ request' = [request EXCEPT ![r] = next]
      /\ overlapped' = (overlapped \/ \E q \in Requests : InFlight(q))
      /\ UNCHANGED <<applications, seeded, logged, profileComplete, active,
                     assignable, attempts, failures, reopened, changes, joined>>
  BY DEF startOrResume, UnchangedAround
<1> HIDE DEF next
<1>3. /\ request' \in [Requests -> {Idle} \cup Busy] /\ request'[r] = next
      /\ \A q \in Requests : q # r => request'[q] = request[q]
  BY <1>1, <1>2 DEF TypeOK
<1>4. TypeOK' /\ Indices' = Indices
  BY <1>1, <1>2, <1>3 DEF TypeOK, Indices
<1>5. Single'
  BY <1>2, <1>3 DEF IInv, Single, InFlight
<1>6. Accounted'
  <2>1. request[r].pc = "idle"
    BY <1>1, <1>2, BusyFacts
  <2>2. Lost' = Lost
    BY <1>1, <1>2, <1>3, <1>4, <2>1 DEF Lost
  <2> QED
    BY <1>2, <2>2 DEF IInv, Accounted
<1>7. /\ Rows' /\ OpenOnceIfCalm'
      /\ \A q \in Requests \ {r} : Good(q)'
  BY <1>2, <1>3, RowsStay
<1>8. Good(r)'
  BY <1>1, <1>3 DEF Good, HasStaff, HasMade, NoTwin, LookedFree, KnowsStaff,
                    Choosing
<1>9. Close'
  BY <1>1, <1>2, <1>3, NobodyChooses DEF Choosing
<1> QED
  BY <1>4, <1>5, <1>6, <1>7, <1>8, <1>9 DEF IInv

(* The checks that let a request go on or send it away.                    *)
LEMMA CheckStep ==
  ASSUME IInv, NEW r \in Requests, findProduct(r) \/ findExisting(r)
  PROVE  IInv'
<1> DEFINE b == request[r]
           at(call) == [b EXCEPT !.pc = call]
<1>1. /\ TypeOK /\ InFlight(r) /\ b.pc \in {"product", "existing"}
      /\ UNCHANGED applications /\ UnchangedRest
  BY DEF IInv, findProduct, findExisting, At
<1>2. b \in Busy
  BY <1>1, BusyFacts
<1>3. ASSUME NEW call \in {"existing", "assignable"}
      PROVE  /\ at(call) \in Busy /\ at(call).pc = call
             /\ at(call).customerId = b.customerId
             /\ at(call).productId = b.productId
  BY <1>2 DEF Busy, Calls
<1>4. Idle.pc = "idle"
  BY DEF Idle
<1>5. \A next \in {Idle} \cup Busy :
        request' = [request EXCEPT ![r] = next] => request'[r] = next
  BY <1>1 DEF TypeOK
<1>6. CASE request' = [request EXCEPT ![r] = Idle]
  <2>0. Close'
    BY <1>1, <1>4, <1>6, NoChoice DEF Choosing
  <2>1. Good(r)'
    BY <1>4, <1>5, <1>6
       DEF Good, HasStaff, HasMade, NoTwin, LookedFree, KnowsStaff,
           Choosing
  <2> QED
    BY <1>1, <1>4, <1>6, <2>0, <2>1, QuietStep
<1>7. CASE findProduct(r) /\ request' = [request EXCEPT ![r] = at("existing")]
  <2>1. at("existing") \in Busy /\ at("existing").pc = "existing"
    BY <1>3
  <2> HIDE DEF at
  <2>2. Good(r)'
    BY <1>5, <1>7, <2>1
       DEF Good, HasStaff, HasMade, NoTwin, LookedFree, KnowsStaff,
           Choosing
  <2>3. Close'
    BY <1>1, <1>7, <2>1, NoChoice DEF Choosing
  <2> QED
    BY <1>1, <1>7, <2>1, <2>2, <2>3, QuietStep
<1>8. CASE /\ findExisting(r)
           /\ request' = [request EXCEPT ![r] = at("assignable")]
           /\ \A i \in Indices : ~resumable(i, b.customerId, b.productId)
  <2>1. /\ at("assignable") \in Busy /\ at("assignable").pc = "assignable"
        /\ at("assignable").customerId = b.customerId
        /\ at("assignable").productId = b.productId
    BY <1>3
  <2> HIDE DEF at
  <2>2. request'[r] = at("assignable")
    BY <1>5, <1>8, <2>1
  <2>3. HasStaff(r)' /\ HasMade(r)' /\ LookedFree(r)' /\ KnowsStaff(r)'
    BY <2>1, <2>2 DEF HasStaff, HasMade, LookedFree, KnowsStaff, Choosing
  <2>4. NoTwin(r)'
    BY <1>1, <1>8, <2>1, <2>2 DEF NoTwin, resumable, Indices
  <2>5. Close'
    BY <1>1, <1>8, <2>1, NoChoice DEF Choosing
  <2> QED
    BY <1>1, <1>8, <2>1, <2>3, <2>4, <2>5, QuietStep DEF Good
<1> QED
  BY <1>6, <1>7, <1>8 DEF findProduct, findExisting, Goto, Leave

LEMMA ListStep ==
  ASSUME IInv, NEW r \in Requests, listAssignable(r)
  PROVE  IInv'
<1> DEFINE b == request[r]
           next == [b EXCEPT !.ids = assignable, !.pc = "load"]
<1>1. /\ TypeOK /\ InFlight(r) /\ b.pc = "assignable"
      /\ UNCHANGED applications /\ UnchangedRest
  BY DEF IInv, listAssignable, At
<1>2. b \in Busy /\ Idle.pc = "idle"
  BY <1>1, BusyFacts DEF Idle
<1>3. /\ next \in Busy /\ next.pc = "load" /\ next.ids = assignable
      /\ next.customerId = b.customerId /\ next.productId = b.productId
  BY <1>1, <1>2 DEF Busy, Calls, TypeOK
<1>4. \/ request' = [request EXCEPT ![r] = Idle]
      \/ request' = [request EXCEPT ![r] = next]
  BY DEF listAssignable, Leave
<1> HIDE DEF next
<1>5. CASE request' = [request EXCEPT ![r] = Idle]
  <2>1. request'[r] = Idle
    BY <1>1, <1>5 DEF TypeOK
  <2>2. Good(r)'
    BY <1>2, <2>1
       DEF Good, HasStaff, HasMade, NoTwin, LookedFree, KnowsStaff,
           Choosing
  <2>3. Close'
    BY <1>1, <1>2, <1>5, NoChoice DEF Choosing
  <2> QED
    BY <1>1, <1>2, <1>5, <2>2, <2>3, QuietStep
<1>6. CASE request' = [request EXCEPT ![r] = next]
  <2>1. request'[r] = next
    BY <1>1, <1>6 DEF TypeOK
  <2>2. HasStaff(r)' /\ HasMade(r)' /\ LookedFree(r)' /\ KnowsStaff(r)'
    BY <1>1, <1>3, <2>1
       DEF HasStaff, HasMade, LookedFree, KnowsStaff, Choosing, UnchangedRest,
           UnchangedAround
  <2>3. NothingReopened' => NoTwin(r)'
    BY <1>1, <1>3, <2>1
       DEF IInv, Good, NothingReopened, NoTwin, resumable, Indices,
           UnchangedRest, UnchangedAround
  <2>4. Close'
    BY <1>1, <1>3, <1>6, NoChoice DEF Choosing
  <2> QED
    BY <1>1, <1>3, <1>6, <2>2, <2>3, <2>4, QuietStep DEF Good
<1> QED
  BY <1>4, <1>5, <1>6

LEMMA PickStep ==
  ASSUME IInv, NEW r \in Requests, pickAssignee(r)
  PROVE  IInv'
<1> DEFINE b == request[r]
<1>1. /\ TypeOK /\ InFlight(r) /\ b.pc = "load"
      /\ UNCHANGED applications /\ UnchangedRest
  BY DEF IInv, pickAssignee, At
<1>2. b \in Busy
  BY <1>1, BusyFacts
<1>3. PICK s \in b.ids :
        /\ \A t \in b.ids : openLoad(s) <= openLoad(t)
        /\ request' = [request EXCEPT
             ![r] = [b EXCEPT !.staffId = s, !.pc = "count"]]
  BY DEF pickAssignee
<1> DEFINE next == [b EXCEPT !.staffId = s, !.pc = "count"]
<1>4. /\ s \in Staff /\ next \in Busy /\ next.pc = "count"
      /\ next.staffId = s
      /\ next.customerId = b.customerId /\ next.productId = b.productId
  BY <1>2 DEF Busy, Calls
<1>5. request' = [request EXCEPT ![r] = next]
  BY <1>3
<1> HIDE DEF next
<1>6. request'[r] = next
  BY <1>1, <1>5 DEF TypeOK
<1>7. HasStaff(r)' /\ HasMade(r)' /\ LookedFree(r)' /\ KnowsStaff(r)'
  BY <1>1, <1>4, <1>6 DEF HasStaff, HasMade, LookedFree, KnowsStaff
<1>8. NothingReopened' => NoTwin(r)'
  BY <1>1, <1>4, <1>6
     DEF IInv, Good, NothingReopened, NoTwin, resumable, Indices,
         UnchangedRest, UnchangedAround
<1>9. Close'
  <2>1. /\ Indices' = Indices /\ \A x : Of(x)' = Of(x)
        /\ UNCHANGED <<assignable, joined, overlapped, changes>>
    BY <1>1 DEF Of, Indices, UnchangedRest, UnchangedAround
  <2>2. TypeOK' /\ Single'
    <3>1. /\ request' \in [Requests -> {Idle} \cup Busy]
          /\ \A q \in Requests : q # r => request'[q] = request[q]
      BY <1>1, <1>4, <1>5 DEF TypeOK
    <3> QED
      BY <1>1, <2>1, <3>1
         DEF IInv, TypeOK, Single, InFlight, UnchangedRest, UnchangedAround
  <2>3. /\ Choosers' = Choosers /\ Choosers \in Nat /\ changes \in Nat
        /\ \A x : /\ Cardinality(Of(x)) \in Nat
                  /\ Cardinality(Chosen(x)) \in Nat
    BY <2>1, LoadFacts, ChosenFacts DEF FewChoose, IInv, TypeOK, Choosers
  <2>4. ASSUME NEW u \in Staff, NEW t \in assignable \ joined
        PROVE  Cardinality(Of(u)) + Cardinality(Chosen(u)')
                 - Cardinality(Of(t)) <= Choosers + changes
    <3>1. CASE u = s
      <4>1. t \in b.ids
        BY <1>1 DEF IInv, Good, KnowsStaff
      <4>2. Cardinality(Of(s)) <= Cardinality(Of(t))
        BY <1>3, <4>1 DEF openLoad, Of
      <4>3. FewChoose'
        BY <2>2, ChosenFacts, PTL
      <4> QED
        BY <2>3, <3>1, <4>2, <4>3 DEF FewChoose
    <3>2. CASE u # s
      <4>1. Chosen(u)' = Chosen(u)
        BY <1>1, <1>4, <1>5, <3>2 DEF Chosen, Choosing, TypeOK
      <4> QED
        BY <4>1 DEF IInv, Close
    <3> QED
      BY <3>1, <3>2
  <2> QED
    BY <2>1, <2>3, <2>4 DEF Close
<1> QED
  BY <1>1, <1>4, <1>5, <1>7, <1>8, <1>9, QuietStep DEF Good

(* A request goes on to the next call with the assignee it has.            *)
LEMMA CarriesOn ==
  ASSUME IInv, NEW r \in Requests, NEW next \in Busy,
         UNCHANGED applications, UnchangedRest,
         request' = [request EXCEPT ![r] = next],
         request[r].pc \in {"count", "exists"}, next.pc \in Choosing,
         next.staffId = request[r].staffId,
         next.customerId = request[r].customerId,
         next.productId = request[r].productId
  PROVE  /\ HasStaff(r)' /\ HasMade(r)' /\ KnowsStaff(r)' /\ Close'
         /\ NothingReopened' => NoTwin(r)'
<1>1. request'[r] = next
  BY DEF IInv, TypeOK
<1>2. HasStaff(r)' /\ HasMade(r)' /\ KnowsStaff(r)'
  BY <1>1 DEF IInv, Good, HasStaff, HasMade, KnowsStaff, Choosing
<1>3. NothingReopened' => NoTwin(r)'
  BY <1>1
     DEF IInv, Good, NothingReopened, NoTwin, resumable, Indices, Choosing,
         UnchangedRest, UnchangedAround
<1>4. Close'
  BY NoChoice DEF Choosing
<1> QED
  BY <1>2, <1>3, <1>4

LEMMA CountStep ==
  ASSUME IInv, NEW r \in Requests, countDocuments(r)
  PROVE  IInv'
<1> DEFINE b == request[r]
           serial == nextSerial(b.productId, b.attempt)
           next == [b EXCEPT !.serial = serial, !.pc = "exists"]
<1>1. /\ TypeOK /\ InFlight(r) /\ b.pc = "count"
      /\ UNCHANGED applications /\ UnchangedRest
      /\ request' = [request EXCEPT ![r] = next]
  BY DEF IInv, countDocuments, At
<1>2. b \in Busy
  BY <1>1, BusyFacts
<1>3. serial \in Nat
  <2>1. OfProduct(b.productId) \in SUBSET Indices
    BY DEF OfProduct
  <2>2. IsFiniteSet(Indices)
    BY <1>1, RowFacts
  <2>3. IsFiniteSet(OfProduct(b.productId))
    BY <2>1, <2>2, FS_Subset
  <2>4. Cardinality(OfProduct(b.productId)) \in Nat
    BY <2>3, FS_CardinalityType
  <2>5. b.attempt \in Nat
    BY <1>2, BoundsAssumption DEF Busy
  <2> QED
    BY <2>4, <2>5 DEF nextSerial
<1> HIDE DEF serial
<1>4. /\ next \in Busy /\ next.pc = "exists" /\ next.staffId = b.staffId
      /\ next.customerId = b.customerId /\ next.productId = b.productId
  BY <1>2, <1>3 DEF Busy, Calls
<1> HIDE DEF next
<1>5. request'[r] = next
  BY <1>1 DEF TypeOK
<1>6. LookedFree(r)'
  BY <1>4, <1>5 DEF LookedFree
<1>7. Good(r)' /\ Close'
  BY <1>1, <1>4, <1>6, CarriesOn DEF Good, Choosing
<1> QED
  BY <1>1, <1>4, <1>7, QuietStep

LEMMA ExistsStep ==
  ASSUME IInv, NEW r \in Requests, candidateExists(r)
  PROVE  IInv'
<1> DEFINE b == request[r]
           free == [b EXCEPT !.pc = "create", !.known = Len(applications)]
           again == [b EXCEPT !.pc = "count", !.attempt = b.attempt + 1]
           drawn(s) == [b EXCEPT !.pc = "create", !.attempt = attempts,
                          !.serial = s, !.known = Len(applications)]
<1>1. /\ TypeOK /\ InFlight(r) /\ b.pc = "exists"
      /\ UNCHANGED applications /\ UnchangedRest
  BY DEF IInv, candidateExists, At
<1>2. b \in Busy
  BY <1>1, BusyFacts
<1>3. attempts \in 1 .. MaxAttempts /\ Len(applications) \in Nat
  BY <1>1, RowFacts DEF TypeOK
<1>4. /\ free \in Busy /\ free.pc = "create" /\ free.staffId = b.staffId
      /\ free.customerId = b.customerId /\ free.productId = b.productId
      /\ free.known = Len(applications) /\ free.serial = b.serial
  BY <1>2, <1>3 DEF Busy, Calls
<1>5. ASSUME b.attempt + 1 < attempts
      PROVE  /\ again \in Busy /\ again.pc = "count"
             /\ again.staffId = b.staffId
             /\ again.customerId = b.customerId
             /\ again.productId = b.productId
  <2>1. b.attempt \in Nat /\ b.attempt + 1 \in 0 .. MaxAttempts
    BY <1>2, <1>3, <1>5, BoundsAssumption DEF Busy
  <2> QED
    BY <1>2, <2>1 DEF Busy, Calls
<1>6. ASSUME NEW s \in 1 .. MaxSerial
      PROVE  /\ drawn(s) \in Busy /\ drawn(s).pc = "create"
             /\ drawn(s).staffId = b.staffId
             /\ drawn(s).customerId = b.customerId
             /\ drawn(s).productId = b.productId
             /\ drawn(s).known = Len(applications)
             /\ drawn(s).attempt = attempts
  <2>1. s \in Nat /\ attempts \in 0 .. MaxAttempts
    BY <1>3, BoundsAssumption
  <2> QED
    BY <1>2, <1>3, <2>1 DEF Busy, Calls
<1>7. \/ /\ ~taken(b.productId, b.serial)
         /\ request' = [request EXCEPT ![r] = free]
      \/ b.attempt + 1 < attempts /\ request' = [request EXCEPT ![r] = again]
      \/ \E s \in 1 .. MaxSerial : request' = [request EXCEPT ![r] = drawn(s)]
  BY DEF candidateExists
<1>8. Len(applications') = Len(applications) /\ Indices' = Indices
      /\ attempts' = attempts
  BY <1>1 DEF UnchangedRest, UnchangedAround, Indices
<1> HIDE DEF free, again, drawn
<1>9. CASE /\ ~taken(b.productId, b.serial)
           /\ request' = [request EXCEPT ![r] = free]
  <2>1. request'[r] = free
    BY <1>1, <1>9 DEF TypeOK
  <2>2. LookedFree(r)'
    BY <1>1, <1>3, <1>4, <1>8, <1>9, <2>1 DEF LookedFree, taken, OfProduct
  <2>3. Good(r)' /\ Close'
    BY <1>1, <1>4, <1>9, <2>2, CarriesOn DEF Good, Choosing
  <2> QED
    BY <1>1, <1>4, <1>9, <2>3, QuietStep
<1>10. CASE /\ b.attempt + 1 < attempts
            /\ request' = [request EXCEPT ![r] = again]
  <2>1. request'[r] = again
    BY <1>1, <1>10 DEF TypeOK
  <2>2. LookedFree(r)'
    BY <1>5, <1>10, <2>1 DEF LookedFree
  <2>3. Good(r)' /\ Close'
    BY <1>1, <1>5, <1>10, <2>2, CarriesOn DEF Good, Choosing
  <2> QED
    BY <1>1, <1>5, <1>10, <2>3, QuietStep
<1>11. ASSUME NEW s \in 1 .. MaxSerial,
              request' = [request EXCEPT ![r] = drawn(s)]
       PROVE  IInv'
  <2>1. request'[r] = drawn(s)
    BY <1>1, <1>11 DEF TypeOK
  <2>2. LookedFree(r)'
    BY <1>3, <1>6, <1>8, <2>1 DEF LookedFree
  <2>3. Good(r)' /\ Close'
    BY <1>1, <1>6, <1>11, <2>2, CarriesOn DEF Good, Choosing
  <2> QED
    BY <1>1, <1>6, <1>11, <2>3, QuietStep
<1> QED
  BY <1>7, <1>9, <1>10, <1>11

(* The insert of request r: the rows there were stay.                      *)
Inserted(r) ==
  LET b == request[r] IN
  [customerId |-> b.customerId, productId |-> b.productId,
   serial |-> b.serial, staffId |-> b.staffId, stage |-> FIRST_STAGE,
   isRejected |-> FALSE, locked |-> FALSE]

LEMMA InsertFacts ==
  ASSUME IInv, NEW r \in Requests, request[r].pc = "create",
         applications' = Append(applications, Inserted(r)),
         NEW n, n = Len(applications) + 1
  PROVE  /\ n \in Nat /\ n \notin Indices
         /\ applications' \in Seq(Row) /\ Len(applications') = n
         /\ Indices' = Indices \cup {n}
         /\ \A i \in Indices : i < n /\ applications'[i] = applications[i]
         /\ applications'[n] = Inserted(r)
         /\ \A s : Cardinality(Of(s))' = Cardinality(Of(s)) +
                      (IF s = request[r].staffId THEN 1 ELSE 0)
<1> DEFINE b == request[r]
<1>1. TypeOK /\ b \in Busy /\ b.staffId \in Staff
  BY BusyFacts DEF IInv, Calls, Good, HasStaff, Choosing
<1>2. Inserted(r) \in Row /\ Inserted(r).staffId = b.staffId
  BY <1>1, FinalStageAssumption DEF Inserted, Row, Busy, Stage, FIRST_STAGE
<1>3. applications \in Seq(Row)
  BY <1>1 DEF TypeOK
<1>4. /\ applications' \in Seq(Row)
      /\ Len(applications') = Len(applications) + 1
      /\ applications'[Len(applications) + 1] = Inserted(r)
      /\ \A i \in 1 .. Len(applications) : applications'[i] = applications[i]
  BY <1>2, <1>3, AppendProperties
<1>5. Len(applications) \in Nat /\ Indices = 1 .. Len(applications)
  BY <1>1, RowFacts
<1>6. Indices' = 1 .. Len(applications')
  BY <1>4 DEF Indices
<1>7. /\ n \in Nat /\ n \notin Indices
      /\ Len(applications') = n
      /\ Indices' = Indices \cup {n}
      /\ \A i \in Indices : i < n /\ applications'[i] = applications[i]
      /\ applications'[n] = Inserted(r)
  BY <1>4, <1>5, <1>6
<1>8. ASSUME NEW s
      PROVE  Cardinality(Of(s))' = Cardinality(Of(s)) +
                                     (IF s = b.staffId THEN 1 ELSE 0)
  <2>0. isOpen(Inserted(r)) /\ Cardinality(Of(s)) \in Nat
    BY <1>1, LoadFacts DEF isOpen, Inserted
  <2>1. CASE s = b.staffId
    <3>1. Of(s)' = Of(s) \cup {n}
      BY <1>2, <1>7, <2>0, <2>1 DEF Of, isOpen
    <3>2. n \notin Of(s)
      BY <1>7 DEF Of
    <3>3. IsFiniteSet(Of(s))
      BY <1>1, LoadFacts
    <3>4. Cardinality(Of(s) \cup {n}) = Cardinality(Of(s)) + 1
      BY <3>2, <3>3, FS_AddElement
    <3> QED
      BY <2>1, <3>1, <3>4
  <2>2. CASE s # b.staffId
    <3>1. Of(s)' = Of(s)
      BY <1>2, <1>7, <2>2 DEF Of, isOpen
    <3> QED
      BY <2>0, <2>2, <3>1
  <2> QED
    BY <2>1, <2>2
<1> QED
  BY <1>4, <1>7, <1>8

LEMMA CreateStep ==
  ASSUME IInv, NEW r \in Requests, create(r)
  PROVE  IInv'
<1> DEFINE b == request[r]
           n == Len(applications) + 1
           next == [b EXCEPT !.pc = "seed", !.made = n]
<1>1. /\ TypeOK /\ InFlight(r) /\ b.pc = "create" /\ UnchangedRest
  BY DEF IInv, create, At
<1>2. b \in Busy /\ Idle.pc = "idle"
  BY <1>1, BusyFacts DEF Idle
<1>3. CASE UNCHANGED applications /\ Leave(r)
  <2>1. request' = [request EXCEPT ![r] = Idle]
    BY <1>3 DEF Leave
  <2>2. request'[r] = Idle
    BY <1>1, <2>1 DEF TypeOK
  <2>3. Good(r)'
    BY <1>2, <2>2
       DEF Good, HasStaff, HasMade, NoTwin, LookedFree, KnowsStaff,
           Choosing
  <2>4. Close'
    BY <1>1, <1>2, <1>3, <2>1, NoChoice DEF Choosing
  <2> QED
    BY <1>1, <1>2, <1>3, <2>1, <2>3, <2>4, QuietStep
<1>4. CASE /\ ~taken(b.productId, b.serial)
           /\ applications' = Append(applications, Inserted(r))
           /\ request' = [request EXCEPT ![r] = next]
  <2>1. /\ n \in Nat /\ n \notin Indices
        /\ applications' \in Seq(Row) /\ Len(applications') = n
        /\ Indices' = Indices \cup {n}
        /\ \A i \in Indices : i < n /\ applications'[i] = applications[i]
        /\ applications'[n] = Inserted(r)
        /\ \A s : Cardinality(Of(s))' = Cardinality(Of(s)) +
                                           (IF s = b.staffId THEN 1 ELSE 0)
    BY <1>1, <1>4, InsertFacts
  <2>2. next \in Busy /\ next.pc = "seed" /\ next.made = n
    BY <1>2, <2>1 DEF Busy, Calls
  <2>3. /\ Inserted(r).customerId = b.customerId
        /\ Inserted(r).productId = b.productId
        /\ Inserted(r).stage = FIRST_STAGE
        /\ ~Inserted(r).isRejected /\ ~Inserted(r).locked
    BY DEF Inserted
  <2> HIDE DEF next, n
  <2>4. /\ request' \in [Requests -> {Idle} \cup Busy] /\ request'[r] = next
        /\ \A q \in Requests : q # r => request'[q] = request[q]
    BY <1>1, <1>4, <2>2 DEF TypeOK
  <2>5. TypeOK'
    BY <1>1, <2>1, <2>4 DEF TypeOK, UnchangedRest, UnchangedAround
  <2>6. Single'
    BY <1>1, <2>4 DEF IInv, Single, InFlight, UnchangedRest
  <2>7. Rows'
    BY <1>1, <2>1, <2>3, FinalStageAssumption
       DEF IInv, Rows, FIRST_STAGE
  <2>8. Accounted'
    <3>1. Lost' = Lost
      <4>1. Lost' \subseteq Lost
        BY <1>1, <2>1, <2>2, <2>4 DEF Lost, UnchangedRest
      <4>2. Lost \subseteq Lost'
        BY <1>1, <2>1, <2>2, <2>4 DEF Lost, UnchangedRest
      <4> QED
        BY <4>1, <4>2
    <3> QED
      BY <1>1, <3>1 DEF IInv, Accounted, UnchangedRest
  <2>9. ASSUME NEW q \in Requests PROVE Good(q)'
    <3>1. CASE q = r
      <4>1. HasMade(r)'
        BY <2>1, <2>2, <2>4 DEF HasMade
      <4> QED
        BY <2>2, <2>4, <3>1, <4>1
           DEF Good, HasStaff, NoTwin, LookedFree, KnowsStaff, Choosing
    <3>2. CASE q # r
      <4>1. request'[q] = request[q] /\ Good(q)
        BY <2>4, <3>2 DEF IInv
      <4>2. HasStaff(q)' /\ HasMade(q)'
        BY <1>1, <2>1, <4>1 DEF Good, HasStaff, HasMade, UnchangedRest
      <4>3. LookedFree(q)'
        <5> SUFFICES ASSUME request[q].pc = "create"
                     PROVE  /\ request[q].known <= n
                            /\ request[q].attempt # attempts =>
                                 \A i \in Indices' :
                                   /\ i <= request[q].known
                                   /\ applications'[i].productId
                                        = request[q].productId
                                   => applications'[i].serial
                                        # request[q].serial
          BY <1>1, <2>1, <4>1 DEF LookedFree, UnchangedRest, UnchangedAround
        <5>1. /\ request[q].known <= Len(applications)
              /\ request[q].attempt # attempts =>
                   \A i \in Indices :
                     /\ i <= request[q].known
                     /\ applications[i].productId = request[q].productId
                     => applications[i].serial # request[q].serial
          BY <4>1 DEF Good, LookedFree
        <5>2. request[q].known \in Nat /\ Len(applications) \in Nat
          BY <1>1, BusyFacts, RowFacts DEF Busy, Calls
        <5>3. request[q].known < n
          BY <5>1, <5>2 DEF n
        <5> QED
          BY <2>1, <5>1, <5>2, <5>3
      <4>4. overlapped' \/ request'[q].pc = "idle"
        BY <1>1, <3>2, <4>1, BusyFacts DEF IInv, Single, UnchangedRest
      <4>5. KnowsStaff(q)' /\ (NothingReopened' => NoTwin(q)')
        BY <1>1, <4>1, <4>4
           DEF Good, KnowsStaff, NothingReopened, NoTwin, UnchangedRest,
               UnchangedAround
      <4> QED
        BY <4>2, <4>3, <4>5 DEF Good
    <3> QED
      BY <3>1, <3>2
  <2>10. OpenOnceIfCalm'
    <3> SUFFICES ASSUME ~overlapped, ~reopened,
                        NEW i \in Indices', NEW j \in Indices',
                        applications'[i].customerId
                          = applications'[j].customerId,
                        applications'[i].productId = applications'[j].productId,
                        applications'[i].stage = FIRST_STAGE,
                        applications'[j].stage = FIRST_STAGE,
                        ~applications'[i].isRejected,
                        ~applications'[j].isRejected
                 PROVE  i = j
      BY <1>1 DEF OpenOnceIfCalm, resumable, UnchangedRest, UnchangedAround
    <3>1. \A k \in Indices : ~resumable(k, b.customerId, b.productId)
      BY <1>1 DEF IInv, Good, NothingReopened, NoTwin
    <3>2. CASE i \in Indices /\ j \in Indices
      BY <2>1, <3>2 DEF IInv, OpenOnceIfCalm, resumable
    <3>3. CASE i = n /\ j \in Indices
      BY <2>1, <2>3, <3>1, <3>3 DEF resumable
    <3>4. CASE i \in Indices /\ j = n
      BY <2>1, <2>3, <3>1, <3>4 DEF resumable
    <3> QED
      BY <2>1, <3>2, <3>3, <3>4
  <2>11. Close'
    <3> SUFFICES ASSUME NEW s \in Staff, NEW t \in assignable \ joined
                 PROVE  Cardinality(Of(s))' + Cardinality(Chosen(s)')
                          - Cardinality(Of(t))' <= Choosers + changes
      BY <1>1 DEF Close, Choosers, UnchangedRest, UnchangedAround
    <3>1. /\ Cardinality(Of(s)) \in Nat /\ Cardinality(Of(t)) \in Nat
          /\ IsFiniteSet(Chosen(s)) /\ Cardinality(Chosen(s)) \in Nat
          /\ Choosers \in Nat /\ changes \in Nat
          /\ Cardinality(Of(s)) + Cardinality(Chosen(s))
               - Cardinality(Of(t)) <= Choosers + changes
      BY <1>1, LoadFacts, ChosenFacts DEF FewChoose, IInv, Close, TypeOK
    <3>2. Chosen(s)' = Chosen(s) \ {r}
      BY <2>2, <2>4 DEF Chosen, Choosing
    <3>3. /\ Cardinality(Chosen(s)') \in Nat
          /\ Cardinality(Chosen(s)') = Cardinality(Chosen(s)) -
               (IF s = b.staffId THEN 1 ELSE 0)
      <4>1. r \in Chosen(s) <=> s = b.staffId
        BY <1>1 DEF Chosen, Choosing
      <4>2. Cardinality(Chosen(s) \ {r}) =
              IF r \in Chosen(s) THEN Cardinality(Chosen(s)) - 1
              ELSE Cardinality(Chosen(s))
        BY <3>1, FS_RemoveElement
      <4>3. IsFiniteSet(Chosen(s) \ {r})
        BY <3>1, FS_RemoveElement
      <4> QED
        BY <3>1, <3>2, <4>1, <4>2, <4>3, FS_CardinalityType
    <3> QED
      BY <2>1, <3>1, <3>3
  <2> QED
    BY <2>5, <2>6, <2>7, <2>8, <2>9, <2>10, <2>11 DEF IInv
<1> QED
  BY <1>3, <1>4 DEF create, Inserted

LEMMA SeedStep ==
  ASSUME IInv, NEW r \in Requests, seedChecklist(r)
  PROVE  IInv'
<1> DEFINE b == request[r]
           next == [b EXCEPT !.pc = "audit"]
<1>1. /\ TypeOK /\ InFlight(r) /\ b.pc = "seed"
      /\ seeded' = seeded \cup {b.made}
      /\ request' = [request EXCEPT ![r] = next]
      /\ UNCHANGED <<applications, logged, profileComplete, active,
                     assignable, attempts, failures, overlapped, reopened,
                     changes, joined>>
  BY DEF IInv, seedChecklist, At, Goto, UnchangedAround
<1>2. b \in Busy /\ b.made \in Indices
  BY <1>1, BusyFacts DEF IInv, Good, HasMade
<1>3. next \in Busy /\ next.pc = "audit" /\ next.made = b.made
  BY <1>2 DEF Busy, Calls
<1> HIDE DEF next
<1>4. /\ request' \in [Requests -> {Idle} \cup Busy] /\ request'[r] = next
      /\ \A q \in Requests : q # r => request'[q] = request[q]
  BY <1>1, <1>3 DEF TypeOK
<1>5. TypeOK' /\ Indices' = Indices
  BY <1>1, <1>2, <1>4 DEF TypeOK, Indices
<1>6. Single'
  BY <1>1, <1>4 DEF IInv, Single, InFlight
<1>7. Accounted'
  <2>1. Lost' = Lost
    BY <1>1, <1>3, <1>4, <1>5 DEF Lost
  <2> QED
    BY <1>1, <2>1 DEF IInv, Accounted
<1>8. /\ Rows' /\ OpenOnceIfCalm'
      /\ \A q \in Requests \ {r} : Good(q)'
  BY <1>1, <1>4, RowsStay
<1>9. Good(r)'
  BY <1>1, <1>2, <1>3, <1>4, <1>5
     DEF Good, HasStaff, HasMade, NoTwin, LookedFree, KnowsStaff,
         Choosing
<1>10. Close'
  BY <1>1, <1>3, <1>4, NobodyChooses DEF Choosing
<1> QED
  BY <1>5, <1>6, <1>7, <1>8, <1>9, <1>10 DEF IInv

(* A request ends: audited, or lost.                                       *)
LEMMA EndStep ==
  ASSUME IInv, NEW r \in Requests, record(r) \/ fail(r)
  PROVE  IInv'
<1> DEFINE b == request[r]
<1>1. /\ TypeOK /\ InFlight(r)
      /\ request' = [request EXCEPT ![r] = Idle]
      /\ UNCHANGED <<applications, seeded, profileComplete, active,
                     assignable, attempts, overlapped, reopened, changes,
                     joined>>
      /\ \/ /\ b.pc = "audit" /\ logged' = logged \cup {b.made}
            /\ failures' = failures
         \/ logged' = logged /\ failures' = failures + 1
  BY DEF IInv, record, fail, At, Leave, UnchangedAround
<1>2. b \in Busy /\ Idle.pc = "idle" /\ failures \in Nat
  BY <1>1, BusyFacts DEF Idle, TypeOK
<1>3. b.pc = "audit" => b.made \in Indices /\ b.made \in seeded
  BY DEF IInv, Good, HasMade
<1>4. /\ request' \in [Requests -> {Idle} \cup Busy] /\ request'[r] = Idle
      /\ \A q \in Requests : q # r => request'[q] = request[q]
  BY <1>1 DEF TypeOK
<1>5. TypeOK' /\ Indices' = Indices
  BY <1>1, <1>2, <1>3, <1>4 DEF TypeOK, Indices
<1>6. Single'
  BY <1>1, <1>4 DEF IInv, Single, InFlight
<1>7. Accounted'
  <2>1. logged' \subseteq seeded'
    BY <1>1, <1>3 DEF IInv, Accounted
  <2>2. /\ IsFiniteSet(Lost) /\ Cardinality(Lost) \in Nat
        /\ IsFiniteSet(Lost') /\ Cardinality(Lost') \in Nat
    <3>1. IsFiniteSet(Lost) /\ Cardinality(Lost) \in Nat
      BY <1>1, LostFinite
    <3>2. (IsFiniteSet(Lost) /\ Cardinality(Lost) \in Nat)'
      BY <1>5, LostFinite, PTL
    <3> QED
      BY <3>1, <3>2
  <2>3. Cardinality(Lost) <= failures
    BY DEF IInv, Accounted
  <2>4. CASE b.pc = "audit" /\ logged' = logged \cup {b.made}
             /\ failures' = failures
    <3>1. Lost' \in SUBSET Lost
      BY <1>2, <1>4, <1>5, <2>4 DEF Lost
    <3>2. Cardinality(Lost') <= Cardinality(Lost)
      BY <2>2, <3>1, FS_Subset
    <3> QED
      BY <2>1, <2>2, <2>3, <2>4, <3>2, <1>2 DEF Accounted
  <2>5. CASE logged' = logged /\ failures' = failures + 1
    <3>1. Lost' \in SUBSET (Lost \cup {b.made})
      BY <1>2, <1>4, <1>5, <2>5 DEF Lost
    <3>2. /\ IsFiniteSet(Lost \cup {b.made})
          /\ Cardinality(Lost \cup {b.made}) =
               IF b.made \in Lost THEN Cardinality(Lost)
               ELSE Cardinality(Lost) + 1
      BY <2>2, FS_AddElement
    <3>3. Cardinality(Lost') <= Cardinality(Lost \cup {b.made})
      BY <3>1, <3>2, FS_Subset
    <3>4. Cardinality(Lost') <= failures'
      BY <1>2, <2>2, <2>3, <2>5, <3>2, <3>3
    <3> QED
      BY <2>1, <3>4 DEF Accounted
  <2> QED
    BY <1>1, <2>4, <2>5
<1>8. /\ Rows' /\ OpenOnceIfCalm'
      /\ \A q \in Requests \ {r} : Good(q)'
  BY <1>1, <1>4, RowsStay
<1>9. Good(r)'
  BY <1>2, <1>4 DEF Good, HasStaff, HasMade, NoTwin, LookedFree, KnowsStaff,
                    Choosing
<1>10. Close'
  BY <1>1, <1>2, <1>4, NobodyChooses DEF Choosing
<1> QED
  BY <1>5, <1>6, <1>7, <1>8, <1>9, <1>10 DEF IInv

(* Profiles, products and staff.                                           *)
LEMMA AroundStep ==
  ASSUME IInv,
         \/ \E c \in Customers : createProfile(c)
         \/ \E p \in Products : updateProduct(p)
         \/ \E s \in Staff : createStaff(s)
  PROVE  IInv'
<1>1. /\ TypeOK /\ UNCHANGED applications /\ UnchangedRequests
      /\ profileComplete' \subseteq Customers /\ active' \subseteq Products
      /\ assignable' \subseteq Staff
      /\ joined' \subseteq Staff /\ UNCHANGED <<reopened, changes>>
      /\ assignable' \ joined' \subseteq assignable \ joined
  BY DEF IInv, TypeOK, createProfile, updateProduct, createStaff
<1>2. TypeOK' /\ Single'
  BY <1>1 DEF IInv, TypeOK, Indices, Single, InFlight, UnchangedRequests
<1>3. Accounted'
  <2>1. Lost' = Lost
    BY <1>1 DEF Lost, Indices, UnchangedRequests
  <2> QED
    BY <1>1, <2>1 DEF IInv, Accounted, UnchangedRequests
<1>4. Rows' /\ OpenOnceIfCalm' /\ \A q \in Requests : Good(q)'
  <2>1. \A q \in Requests : request'[q] = request[q]
    BY <1>1 DEF UnchangedRequests
  <2> QED
    BY <1>1, <2>1, RowsStay DEF UnchangedRequests
<1>5. Close'
  BY <1>1, NobodyChooses DEF UnchangedRequests
<1> QED
  BY <1>2, <1>3, <1>4, <1>5 DEF IInv

(* One application changes: who and what it is for stays, and a rejection  *)
(* is not taken back.                                                      *)
LEMMA ChangeStep ==
  ASSUME IInv, NEW i \in Indices, NEW row \in Row, Change(i, row),
         row.customerId = applications[i].customerId,
         row.productId = applications[i].productId,
         row.serial = applications[i].serial,
         row.staffId = applications[i].staffId,
         ~row.locked => row.stage < FINAL_STAGE,
         applications[i].isRejected => row.isRejected
  PROVE  IInv'
<1>1. /\ TypeOK /\ applications' = [applications EXCEPT ![i] = row]
      /\ reopened' = (reopened \/ (/\ row.stage = FIRST_STAGE
                                  /\ applications[i].stage # FIRST_STAGE))
      /\ changes' = IF isOpen(row) = isOpen(applications[i]) THEN changes
                    ELSE changes + 1
      /\ UNCHANGED <<profileComplete, active, assignable, joined>>
      /\ UnchangedRequests
  BY DEF IInv, Change
<1>2. /\ applications' \in Seq(Row) /\ Len(applications') = Len(applications)
      /\ Indices' = Indices
      /\ \A j \in Indices :
           applications'[j] = IF j = i THEN row ELSE applications[j]
  <2>1. applications \in Seq(Row) /\ i \in 1 .. Len(applications)
        /\ Indices = 1 .. Len(applications)
    BY <1>1, RowFacts DEF TypeOK
  <2>2. /\ applications' \in Seq(Row)
        /\ Len(applications') = Len(applications)
        /\ \A j \in 1 .. Len(applications) :
             applications'[j] = IF j = i THEN row ELSE applications[j]
    BY <1>1, <2>1, ExceptSeq
  <2>3. Indices' = 1 .. Len(applications')
    BY <2>2 DEF Indices
  <2> QED
    BY <2>1, <2>2, <2>3
<1>3. NothingReopened' =>
        /\ NothingReopened
        /\ row.stage = FIRST_STAGE => applications[i].stage = FIRST_STAGE
  BY <1>1 DEF NothingReopened, UnchangedRequests
<1>4. TypeOK' /\ Single'
  <2>1. changes' \in Nat /\ reopened' \in BOOLEAN
    BY <1>1 DEF TypeOK
  <2> QED
    BY <1>1, <1>2, <2>1
       DEF IInv, TypeOK, Single, InFlight, UnchangedRequests
<1>5. Rows'
  BY <1>2 DEF IInv, Rows
<1>6. Accounted'
  <2>1. Lost' = Lost
    BY <1>1, <1>2 DEF Lost, UnchangedRequests
  <2> QED
    BY <1>1, <2>1 DEF IInv, Accounted, UnchangedRequests
<1>7. ASSUME NothingReopened', NEW j \in Indices, NEW c, NEW p,
             resumable(j, c, p)'
      PROVE  resumable(j, c, p)
  BY <1>2, <1>3, <1>7 DEF resumable
<1>8. \A s : /\ Cardinality(Of(s))' \in Nat
            /\ Cardinality(Of(s))' <=
                 Cardinality(Of(s)) + (changes' - changes)
            /\ Cardinality(Of(s)) <=
                 Cardinality(Of(s))' + (changes' - changes)
  <2> TAKE s
  <2>1. /\ IsFiniteSet(Of(s)) /\ Cardinality(Of(s)) \in Nat
        /\ changes \in Nat
    BY <1>1, LoadFacts DEF TypeOK
  <2>2. CASE isOpen(row) = isOpen(applications[i])
    <3>1. Of(s)' = Of(s)
      BY <1>2, <2>2 DEF Of
    <3> QED
      BY <1>1, <2>1, <2>2, <3>1
  <2>3. CASE isOpen(row) # isOpen(applications[i])
    <3>1. \/ Of(s)' = Of(s)
          \/ Of(s)' = Of(s) \cup {i}
          \/ Of(s)' = Of(s) \ {i}
      <4>1. Of(s)' \subseteq Of(s) \cup {i} /\ Of(s) \ {i} \subseteq Of(s)'
        BY <1>2 DEF Of
      <4> QED
        BY <4>1
    <3>2. \E n \in Nat : /\ n = Cardinality(Of(s) \cup {i})
                         /\ n <= Cardinality(Of(s)) + 1
                         /\ Cardinality(Of(s)) <= n
      BY <2>1, FS_AddElement
    <3>3. \E n \in Nat : /\ n = Cardinality(Of(s) \ {i})
                         /\ n <= Cardinality(Of(s))
                         /\ Cardinality(Of(s)) <= n + 1
      <4>1. /\ IsFiniteSet(Of(s) \ {i})
            /\ Cardinality(Of(s) \ {i}) =
                 IF i \in Of(s) THEN Cardinality(Of(s)) - 1
                 ELSE Cardinality(Of(s))
        BY <2>1, FS_RemoveElement
      <4>2. Cardinality(Of(s) \ {i}) \in Nat
        BY <4>1, FS_CardinalityType
      <4> QED
        BY <2>1, <4>1, <4>2
    <3>4. \E n \in Nat : /\ n = Cardinality(Of(s)')
                         /\ n <= Cardinality(Of(s)) + 1
                         /\ Cardinality(Of(s)) <= n + 1
      BY <2>1, <3>1, <3>2, <3>3
    <3>5. changes' - changes = 1
      BY <1>1, <2>1, <2>3
    <3> QED
      BY <3>4, <3>5
  <2> QED
    BY <2>2, <2>3
<1>9. \A j \in Indices : /\ applications'[j].customerId
                              = applications[j].customerId
                         /\ applications'[j].productId
                              = applications[j].productId
                         /\ applications'[j].serial = applications[j].serial
  BY <1>2
<1>10. OpenOnceIfCalm'
  <2> SUFFICES ASSUME NothingReopened', NEW j \in Indices, NEW k \in Indices,
                      NEW c, c = applications[j].customerId,
                      NEW p, p = applications[j].productId,
                      resumable(j, c, p)', resumable(k, c, p)'
               PROVE  j = k
    BY <1>2, <1>9 DEF OpenOnceIfCalm, NothingReopened, resumable
  <2> QED
    BY <1>3, <1>7 DEF IInv, OpenOnceIfCalm, NothingReopened
<1>11. Close'
  <2> SUFFICES ASSUME NEW s \in Staff, NEW t \in assignable \ joined
               PROVE  Cardinality(Of(s))' + Cardinality(Chosen(s))
                        - Cardinality(Of(t))' <= Choosers + changes'
    BY <1>1 DEF Close, Chosen, Choosers, UnchangedRequests
  <2>1. /\ Cardinality(Of(s)) \in Nat /\ Cardinality(Of(t)) \in Nat
        /\ Cardinality(Chosen(s)) \in Nat
        /\ Choosers \in Nat /\ changes \in Nat
        /\ Cardinality(Of(s)) + Cardinality(Chosen(s))
             - Cardinality(Of(t)) <= Choosers + changes
    BY <1>1, LoadFacts, ChosenFacts DEF FewChoose, IInv, Close, TypeOK
  <2>2. CASE applications[i].staffId = s /\ s # t
    <3>1. Of(t)' = Of(t)
      BY <1>2, <2>2 DEF Of
    <3>2. /\ Cardinality(Of(s)') \in Nat /\ changes' \in Nat
          /\ Cardinality(Of(s)') <= Cardinality(Of(s)) + (changes' - changes)
      BY <1>1, <1>8, <2>1
    <3> QED
      BY <2>1, <3>1, <3>2
  <2>3. CASE applications[i].staffId # s
    <3>1. Of(s)' = Of(s)
      BY <1>2, <2>3 DEF Of
    <3>2. /\ Cardinality(Of(t)') \in Nat /\ changes' \in Nat
          /\ Cardinality(Of(t)) <= Cardinality(Of(t)') + (changes' - changes)
      BY <1>1, <1>8, <2>1
    <3> QED
      BY <2>1, <3>1, <3>2
  <2>4. CASE s = t
    <3>1. changes' >= changes /\ Cardinality(Of(s))' \in Nat
      BY <1>1, <1>8, <2>1
    <3>2. changes' \in Nat
      BY <1>1, <2>1
    <3> QED
      BY <2>1, <2>4, <3>1, <3>2
  <2> QED
    BY <2>2, <2>3, <2>4
<1>12. ASSUME NEW q \in Requests PROVE Good(q)'
  <2>1. request'[q] = request[q] /\ Good(q)
    BY <1>1 DEF IInv, UnchangedRequests
  <2>2. HasStaff(q)' /\ HasMade(q)'
    BY <1>1, <1>2, <2>1 DEF Good, HasStaff, HasMade, UnchangedRequests
  <2>3. LookedFree(q)'
    BY <1>1, <1>2, <1>9, <2>1 DEF Good, LookedFree, UnchangedRequests
  <2>4. ASSUME NothingReopened' PROVE NoTwin(q)'
    <3> SUFFICES ASSUME request[q].pc \in
                          {"assignable", "load", "count", "exists", "create"},
                        NEW j \in Indices,
                        NEW c, c = request[q].customerId,
                        NEW p, p = request[q].productId,
                        resumable(j, c, p)'
                 PROVE  FALSE
      BY <1>2, <2>1 DEF NoTwin, resumable
    <3> QED
      BY <1>3, <1>7, <2>1, <2>4 DEF Good, NoTwin
  <2>5. KnowsStaff(q)'
    BY <1>1, <2>1 DEF Good, KnowsStaff
  <2> QED
    BY <2>2, <2>3, <2>4, <2>5 DEF Good
<1> QED
  BY <1>4, <1>5, <1>6, <1>10, <1>11, <1>12 DEF IInv

LEMMA LifeStep ==
  ASSUME IInv, NEW i \in Indices, advance(i) \/ revert(i) \/ reject(i)
  PROVE  IInv'
<1> DEFINE row == applications[i]
<1>1. row \in Row /\ (~row.locked => row.stage < FINAL_STAGE)
  BY RowFacts DEF IInv, Rows
<1>2. row.stage \in 1 .. FINAL_STAGE /\ FINAL_STAGE \in Nat
      /\ row.isRejected \in BOOLEAN /\ row.locked \in BOOLEAN
  BY <1>1, FinalStageAssumption DEF Row, Stage, FIRST_STAGE
<1>3. CASE advance(i)
  <2> DEFINE final == row.stage + 1 = FINAL_STAGE
             next == [row EXCEPT !.stage = row.stage + 1, !.locked = final]
  <2>1. /\ ~row.isRejected /\ ~row.locked
        /\ Change(i, next)
    BY <1>3 DEF advance, isOpen, nextStage
  <2>2. /\ next \in Row /\ next.stage = row.stage + 1 /\ next.locked = final
        /\ next.customerId = row.customerId /\ next.productId = row.productId
        /\ next.serial = row.serial /\ next.staffId = row.staffId
        /\ next.isRejected = row.isRejected
    <3>1. row.stage + 1 \in Stage /\ final \in BOOLEAN
      BY <1>1, <1>2, <2>1 DEF Stage, FIRST_STAGE
    <3> HIDE DEF final
    <3> QED
      BY <1>1, <3>1 DEF Row
  <2>3. ~final => next.stage < FINAL_STAGE
    BY <1>1, <1>2, <2>1, <2>2 DEF FIRST_STAGE
  <2> HIDE DEF next
  <2> QED
    BY <2>1, <2>2, <2>3, ChangeStep
<1>4. CASE revert(i)
  <2> DEFINE next == [row EXCEPT !.stage = row.stage - 1, !.locked = FALSE]
  <2>1. row.stage > FIRST_STAGE /\ Change(i, next)
    BY <1>4 DEF revert
  <2>2. /\ next \in Row /\ next.stage = row.stage - 1 /\ ~next.locked
        /\ next.customerId = row.customerId /\ next.productId = row.productId
        /\ next.serial = row.serial /\ next.staffId = row.staffId
        /\ next.isRejected = row.isRejected
    <3>1. row.stage - 1 \in Stage
      BY <1>2, <2>1 DEF Stage, FIRST_STAGE
    <3> QED
      BY <1>1, <3>1 DEF Row
  <2>3. next.stage < FINAL_STAGE
    BY <1>2, <2>1, <2>2
  <2> HIDE DEF next
  <2> QED
    BY <2>1, <2>2, <2>3, ChangeStep
<1>5. CASE reject(i)
  <2> DEFINE next == [row EXCEPT !.isRejected = TRUE]
  <2>1. Change(i, next)
    BY <1>5 DEF reject
  <2>2. /\ next \in Row /\ next.stage = row.stage /\ next.isRejected
        /\ next.customerId = row.customerId /\ next.productId = row.productId
        /\ next.serial = row.serial /\ next.staffId = row.staffId
        /\ next.locked = row.locked
    BY <1>1 DEF Row
  <2> HIDE DEF next
  <2> QED
    BY <1>1, <2>1, <2>2, ChangeStep
<1> QED
  BY <1>3, <1>4, <1>5

LEMMA NextPreserves == IInv /\ [Next]_vars => IInv'
<1> SUFFICES ASSUME IInv, [Next]_vars PROVE IInv'
  OBVIOUS
<1>1. ASSUME NEW r \in Requests, NEW c \in Customers, NEW p \in Products,
             startOrResume(r, c, p)
      PROVE  IInv'
  BY <1>1, StartStep
<1>2. ASSUME NEW r \in Requests,
             \/ findProduct(r) \/ findExisting(r) \/ listAssignable(r)
             \/ pickAssignee(r) \/ countDocuments(r) \/ candidateExists(r)
      PROVE  IInv'
  BY <1>2, CheckStep, ListStep, PickStep, CountStep, ExistsStep
<1>3. ASSUME NEW r \in Requests,
             create(r) \/ seedChecklist(r) \/ record(r) \/ fail(r)
      PROVE  IInv'
  BY <1>3, CreateStep, SeedStep, EndStep
<1>4. CASE \/ \E c \in Customers : createProfile(c)
           \/ \E p \in Products : updateProduct(p)
           \/ \E s \in Staff : createStaff(s)
  BY <1>4, AroundStep
<1>5. ASSUME NEW i \in Indices, advance(i) \/ revert(i) \/ reject(i)
      PROVE  IInv'
  BY <1>5, LifeStep
<1>6. CASE UNCHANGED vars
  <2>1. /\ UNCHANGED <<applications, attempts, seeded, logged, overlapped>>
        /\ UNCHANGED <<reopened, changes, joined, assignable, request>>
        /\ UNCHANGED <<profileComplete, active>>
        /\ failures' = failures
    BY <1>6 DEF vars
  <2>2. TypeOK' /\ Single'
    BY <2>1 DEF IInv, TypeOK, Indices, Single, InFlight
  <2>3. Lost' = Lost
    BY <2>1 DEF Lost, Indices
  <2>4. Accounted'
    BY <2>1, <2>3 DEF IInv, Accounted
  <2>5. Rows' /\ OpenOnceIfCalm' /\ \A q \in Requests : Good(q)'
    BY <2>1, RowsStay
  <2>6. Close'
    BY <2>1, NobodyChooses
  <2> QED
    BY <2>2, <2>4, <2>5, <2>6 DEF IInv
<1> QED
  BY <1>1, <1>2, <1>3, <1>4, <1>5, <1>6 DEF Next

LEMMA Invariance == Spec => []IInv
BY InitEstablishes, NextPreserves, PTL DEF Spec

-----------------------------------------------------------------------------
(* The properties *)

(* Rows, requests and the history stay within their types: the stage of an *)
(* open application leaves room for the next one, and a request has a      *)
(* member of staff when it creates the row.                                *)
THEOREM TypeCorrect == Spec => []TypeOK
<1>1. IInv => TypeOK
  BY DEF IInv
<1> QED
  BY <1>1, Invariance, PTL

(* Without overlapping requests, and without a return to stage 1, the      *)
(* findOne of startOrResume is enough: a customer has one open application *)
(* in stage 1 per product.                                                 *)
THEOREM ResumedNotDuplicated == Spec => []OpenOnceIfCalm
<1>1. IInv => OpenOnceIfCalm
  BY DEF IInv
<1> QED
  BY <1>1, Invariance, PTL

(* The unique index refuses a number only if an application was created    *)
(* after newApplicationId had looked, or the number came from the clock.   *)
THEOREM NumbersRefusedAfterRaces == Spec => []RefusedOnlyAfterRace
<1>1. IInv => RefusedOnlyAfterRace
  <2> SUFFICES ASSUME IInv, NEW r \in Requests, request[r].pc = "create",
                      taken(request[r].productId, request[r].serial),
                      request[r].attempt # attempts
               PROVE  Len(applications) > request[r].known
    BY DEF RefusedOnlyAfterRace, At
  <2>1. TypeOK /\ LookedFree(r) /\ request[r].known \in Nat
    BY BusyFacts DEF IInv, Good, Busy, Calls
  <2>2. PICK i \in Indices : /\ applications[i].productId = request[r].productId
                             /\ applications[i].serial = request[r].serial
    BY DEF taken, OfProduct
  <2>3. ~(i <= request[r].known)
    BY <2>1, <2>2 DEF LookedFree
  <2>4. i \in 1 .. Len(applications) /\ Len(applications) \in Nat
    BY <2>1, RowFacts
  <2> QED
    BY <2>1, <2>3, <2>4
<1> QED
  BY <1>1, Invariance, PTL

(* pickAssignee keeps the open applications of the staff together, however *)
(* requests overlap and whatever becomes of the applications: what a       *)
(* choice by an old count adds is bounded by the requests in flight.       *)
THEOREM StaffStayTogether == Spec => []LoadsStayClose
<1>1. IInv => LoadsStayClose
  <2> SUFFICES ASSUME IInv, NEW s \in assignable,
                      NEW t \in assignable \ joined
               PROVE  openLoad(s) - openLoad(t) <= Choosers + changes
    BY DEF LoadsStayClose, Choosers
  <2>1. TypeOK /\ Single /\ s \in Staff /\ changes \in Nat
    BY DEF IInv, TypeOK
  <2>2. /\ Cardinality(Of(s)) \in Nat /\ Cardinality(Of(t)) \in Nat
        /\ Cardinality(Chosen(s)) \in Nat /\ Choosers \in Nat
    BY <2>1, LoadFacts, ChosenFacts DEF FewChoose
  <2>3. Cardinality(Of(s)) + Cardinality(Chosen(s)) - Cardinality(Of(t))
          <= Choosers + changes
    BY <2>1 DEF IInv, Close
  <2>4. openLoad(s) = Cardinality(Of(s)) /\ openLoad(t) = Cardinality(Of(t))
    BY DEF openLoad, Of
  <2> QED
    BY <2>1, <2>2, <2>3, <2>4
<1> QED
  BY <1>1, Invariance, PTL

(* An application without checklist rows, or without its audit entry, is   *)
(* in the hands of the request that made it, or that request was lost: one *)
(* application per failure at the most.                                    *)
THEOREM NothingHalfMadeUnnoticed == Spec => []CreatedIsSeededAndLogged
<1>1. IInv => CreatedIsSeededAndLogged
  <2> SUFFICES ASSUME IInv PROVE CreatedIsSeededAndLogged
    OBVIOUS
  <2> DEFINE lacks(done, calls) ==
               {i \in Indices \ done :
                  \A r \in Requests : InFlight(r) /\ request[r].made = i
                                        => request[r].pc \notin calls}
             lack == lacks(seeded, {"seed"})
                       \cup lacks(logged, {"seed", "audit"})
  <2>1. TypeOK /\ logged \subseteq seeded /\ Cardinality(Lost) <= failures
        /\ failures \in Nat
    BY DEF IInv, Accounted, TypeOK
  <2>2. \A r \in Requests : request[r].pc \in {"seed", "audit"} => InFlight(r)
    BY <2>1, BusyFacts DEF Calls
  <2>3. \A r \in Requests :
          request[r].pc = "audit" => request[r].made \in seeded
    BY DEF IInv, Good, HasMade
  <2>4. lack \in SUBSET Lost
    BY <2>1, <2>2, <2>3 DEF Lost
  <2>5. IsFiniteSet(Lost) /\ Cardinality(Lost) \in Nat
    BY <2>1, LostFinite
  <2>6. IsFiniteSet(lack) /\ Cardinality(lack) <= Cardinality(Lost)
    BY <2>4, <2>5, FS_Subset
  <2>7. Cardinality(lack) \in Nat
    BY <2>6, FS_CardinalityType
  <2>8. Cardinality(lack) <= failures
    BY <2>1, <2>5, <2>6, <2>7
  <2> QED
    BY <2>1, <2>8 DEF CreatedIsSeededAndLogged
<1> QED
  BY <1>1, Invariance, PTL
=============================================================================
