------------------------------- MODULE Access -------------------------------
(***************************************************************************)
(* Who may do what: the role access matrix (src/common/constants/roles.ts) *)
(* and the scoping of the reads of applications and of their threads.      *)
(*                                                                         *)
(* The matrix is one table, the services decide by code of their own: here *)
(* are both, so that the rows about processing applications and about      *)
(* reading them can be compared.  The other rows are not compared: the     *)
(* routes of documents look at the caller's role only, and the rest is     *)
(* about parts that no module here models.                                 *)
(***************************************************************************)
EXTENDS Applications

-----------------------------------------------------------------------------
(* The matrix *)

Scopes(customer, partner, staff, admin) ==
  [CUSTOMER |-> customer, PARTNER |-> partner,
   STAFF |-> staff, ADMIN |-> admin]

ACCESS_MATRIX ==
  [ownApplicationTracking |-> Scopes("OWN", "NONE", "NONE", "NONE"),
   submitKycDocuments |-> Scopes("OWN", "NONE", "NONE", "NONE"),
   leadManagement |-> Scopes("NONE", "OWN", "NONE", "ALL"),
   commissionAndEarnings |-> Scopes("NONE", "OWN", "NONE", "ALL"),
   customerRecords |-> Scopes("OWN", "OWN_LEADS", "ASSIGNED", "ALL"),
   advanceApplicationStage |-> Scopes("NONE", "NONE", "ASSIGNED", "ALL"),
   staffManagement |-> Scopes("NONE", "NONE", "NONE", "ALL"),
   partnerManagement |-> Scopes("NONE", "NONE", "NONE", "ALL"),
   servicesCatalogue |-> Scopes("OWN", "OWN", "OWN", "ALL"),
   gstDashboard |-> Scopes("NONE", "NONE", "NONE", "ALL"),
   reportsAndExports |-> Scopes("NONE", "OWN", "NONE", "ALL")]

scopeFor(module, r) == ACCESS_MATRIX[module][r]

(* The parties of an application.  No operation sets the partner, so that  *)
(* no partner is a party of any.                                           *)
parties(a) ==
  [customerId |-> customerId[a], staffId |-> staffId[a], partnerId |-> None]

(* What a scope means for the user and an application with these parties.  *)
InScope(scope, app, u) ==
  CASE scope = "NONE" -> FALSE
    [] scope = "OWN" -> app.customerId = u
    [] scope = "OWN_LEADS" -> app.partnerId = u
    [] scope = "ASSIGNED" -> app.staffId = u
    [] scope = "ALL" -> TRUE

Granted(module, a, u) == InScope(scopeFor(module, role(u)), parties(a), u)

-----------------------------------------------------------------------------
(* The scoping in the services *)

(* listForCaller: the query that selects the caller's applications.        *)
scopeQuery(u) ==
  {a \in Apps : CASE role(u) = "CUSTOMER" -> parties(a).customerId = u
                  [] role(u) = "PARTNER" -> parties(a).partnerId = u
                  [] role(u) = "STAFF" -> parties(a).staffId = u
                  [] role(u) = "ADMIN" -> TRUE}

(* getForCaller: the check on one application that was found.              *)
callerCanSee(app, u) ==
  \/ role(u) = "CUSTOMER" /\ app.customerId = u
  \/ role(u) = "PARTNER" /\ app.partnerId = u
  \/ role(u) = "STAFF" /\ app.staffId = u
  \/ role(u) = "ADMIN"

canAccess_anyStaff(app, u) ==
  \/ role(u) = "CUSTOMER" /\ app.customerId = u
  \/ role(u) = "PARTNER" /\ app.partnerId = u
  \/ role(u) \in {"STAFF", "ADMIN"}

(* The same check in the messaging service.                                *)
canAccess(app, u) ==
  \/ role(u) = "CUSTOMER" /\ app.customerId = u
  \/ role(u) = "STAFF" /\ app.staffId = u
  \/ role(u) = "PARTNER" /\ app.partnerId = u
  \/ role(u) = "ADMIN"

(* Whose live streams an event about the application is for.               *)
audienceFor(app) ==
  {app.customerId, app.staffId} \cup ({app.partnerId} \ {None})

(* The applications whose events the live stream of a user carries.        *)
streamFor(u) == {a \in Apps : u \in audienceFor(parties(a))}

-----------------------------------------------------------------------------
(* Checks and matrix *)

(* What the services show of applications and threads, to anyone but       *)
(* partners, is what the matrix grants of customer records; the live       *)
(* stream, to customers and staff.                                         *)
ShownAsGranted ==
  \A u \in Users \ Partners :
    LET may == {a \in Apps : Granted("customerRecords", a, u)} IN
    /\ scopeQuery(u) = may
    /\ {a \in Apps : callerCanSee(parties(a), u)} = may
    /\ {a \in Apps : canAccess(parties(a), u)} = may
    /\ u \notin Admins => streamFor(u) = may

(* Two checks that do not know each other, the guard of the route and the  *)
(* one in the service, together let through what the matrix grants:        *)
(* whoever has an application advanced, reverted or rejected is granted    *)
(* that row of it.  And the services show what it grants.                  *)
ScopesAgree ==
  /\ \A h \in Handlers :
       InFlight(h) /\ handler[h].op # "submit" =>
         Granted("advanceApplicationStage", handler[h].app, handler[h].actor)
  /\ ShownAsGranted
=============================================================================
