------------------------------ MODULE Accounts ------------------------------
(***************************************************************************)
(* The accounts of staff, administrators and partners: how they sign in,   *)
(* and what the account of a request is worth when it arrives              *)
(* (src/auth/auth.service.ts, src/staff/staff.service.ts and               *)
(* src/partners/partners.service.ts).  A token names an account and the    *)
(* role it had; both are looked up again for each request.                 *)
(***************************************************************************)
EXTENDS Integers, Sequences, FiniteSets

CONSTANTS
  Emails,           \* e-mail addresses of staff and administrators
  PartnerCodes,
  Handlers,         \* requests that can be in flight at the same time
  None,             \* an absent account or field
  MaxRequests,      \* bound: requests before clients stop
  MaxChanges        \* bound: changes of accounts made in the database

ASSUME AccountsAssumption ==
  /\ Emails \cap PartnerCodes = {}
  /\ MaxRequests \in Nat /\ MaxChanges \in Nat

VARIABLES
  staff,            \* the account of each e-mail address, or None
  partners,         \* the status of each partner code, or None
  tokens,           \* access tokens clients hold: account and role
  handler,          \* the requests in flight
  requests,         \* bound: requests made
  changes           \* bound: changes made in the database

accountVars == <<staff, partners, tokens, handler, requests, changes>>

-----------------------------------------------------------------------------
StaffRoles == {"STAFF", "ADMIN"}

StaffAccount == [role : StaffRoles, active : BOOLEAN]

PartnerStatus == {"ACTIVE", "INACTIVE"}

ASSUME NoneAssumption == None \notin StaffAccount \cup PartnerStatus

Token == [sub : Emails \cup PartnerCodes, role : StaffRoles \cup {"PARTNER"}]

Idle == [pc |-> "idle"]

Login == [pc : {"issueTokens"}, token : Token]

Admitted == [pc : {"admitted"}, actor : Emails]

Onboarding == [pc : {"insertPartner"}, code : PartnerCodes]

InFlight(h) == handler[h] # Idle

Begin(h, b) ==
  /\ ~InFlight(h)
  /\ requests < MaxRequests
  /\ requests' = requests + 1
  /\ handler' = [handler EXCEPT ![h] = b]

Become(h, b) == handler' = [handler EXCEPT ![h] = b]

Leave(h) == Become(h, Idle)

At(h, pc) == InFlight(h) /\ handler[h].pc = pc

-----------------------------------------------------------------------------
(* Signing in *)

(* The account is there and active, and the password is right.             *)
staffLogin(h, e) ==
  /\ staff[e] # None
  /\ staff[e].active
  /\ Begin(h, [pc |-> "issueTokens",
               token |-> [sub |-> e, role |-> staff[e].role]])
  /\ UNCHANGED <<staff, partners, tokens, changes>>

partnerLogin_noneFound(h, c) ==
  /\ partners[c] # "INACTIVE"
  /\ Begin(h, [pc |-> "issueTokens", token |-> [sub |-> c, role |-> "PARTNER"]])
  /\ UNCHANGED <<staff, partners, tokens, changes>>

partnerLogin(h, c) ==
  /\ partners[c] = "ACTIVE"
  /\ Begin(h, [pc |-> "issueTokens", token |-> [sub |-> c, role |-> "PARTNER"]])
  /\ UNCHANGED <<staff, partners, tokens, changes>>

(* Whatever happened to the account meanwhile.                             *)
issueTokens(h) ==
  /\ At(h, "issueTokens")
  /\ tokens' = tokens \cup {handler[h].token}
  /\ Leave(h)
  /\ UNCHANGED <<staff, partners, requests, changes>>

-----------------------------------------------------------------------------
(* What a token is worth *)

resolveSubject_trustsToken(t) ==
  IF t.role = "PARTNER"
  THEN IF partners[t.sub] = "ACTIVE" THEN t ELSE None
  ELSE IF staff[t.sub] # None /\ staff[t.sub].active THEN t ELSE None

(* The user of a request with token t, or None: the role is the one of the *)
(* account now.                                                            *)
resolveSubject(t) ==
  IF t.role = "PARTNER"
  THEN IF partners[t.sub] = "ACTIVE" THEN t ELSE None
  ELSE IF staff[t.sub] # None /\ staff[t.sub].active
       THEN [sub |-> t.sub, role |-> staff[t.sub].role] ELSE None

(* The users that RolesGuard lets through a route for these roles.         *)
Allowed(roles) ==
  {u \in {resolveSubject(t) : t \in tokens} \ {None} : u.role \in roles}

-----------------------------------------------------------------------------
(* Managing accounts: administrators only *)

Admins == {u.sub : u \in Allowed({"ADMIN"})}

(* The account was looked up and lets the request through; what it asks    *)
(* for is its next call.                                                   *)
admit(h, actor) ==
  /\ actor \in Admins
  /\ Begin(h, [pc |-> "admitted", actor |-> actor])
  /\ UNCHANGED <<staff, partners, tokens, changes>>

(* The unique index on the address refuses a second account.               *)
createStaff(h, e) ==
  /\ At(h, "admitted")
  /\ staff' = IF staff[e] = None
              THEN [staff EXCEPT ![e] = [role |-> "STAFF", active |-> TRUE]]
              ELSE staff
  /\ Leave(h)
  /\ UNCHANGED <<partners, tokens, requests, changes>>

(* The code that was drawn is free, or it was the fifth that is not.       *)
onboard(h, c, fifth) ==
  /\ At(h, "admitted")
  /\ partners[c] = None \/ fifth
  /\ Become(h, [pc |-> "insertPartner", code |-> c])
  /\ UNCHANGED <<staff, partners, tokens, requests, changes>>

(* The unique index refuses a code that is taken.                          *)
insertPartner(h) ==
  LET c == handler[h].code IN
  /\ At(h, "insertPartner")
  /\ partners' = IF partners[c] = None
                 THEN [partners EXCEPT ![c] = "ACTIVE"] ELSE partners
  /\ Leave(h)
  /\ UNCHANGED <<staff, tokens, requests, changes>>

(* No operation of the program deactivates an account or changes its role; *)
(* it is done in the database.                                             *)
changeStaff(e, account) ==
  /\ staff[e] \notin {None, account}
  /\ changes < MaxChanges
  /\ changes' = changes + 1
  /\ staff' = [staff EXCEPT ![e] = account]
  /\ UNCHANGED <<partners, tokens, handler, requests>>

changePartner(c, status) ==
  /\ partners[c] \notin {None, status}
  /\ changes < MaxChanges
  /\ changes' = changes + 1
  /\ partners' = [partners EXCEPT ![c] = status]
  /\ UNCHANGED <<staff, tokens, handler, requests>>

AccountsInit ==
  /\ staff = [e \in Emails |-> None]
  /\ partners = [c \in PartnerCodes |-> None]
  /\ tokens = {}
  /\ handler = [h \in Handlers |-> Idle]
  /\ requests = 0
  /\ changes = 0

AccountsNext ==
  \/ \E h \in Handlers :
       \/ \E e \in Emails : staffLogin(h, e)
       \/ \E c \in PartnerCodes :
            partnerLogin(h, c) \/ \E fifth \in BOOLEAN : onboard(h, c, fifth)
       \/ issueTokens(h)
       \/ \E e \in Emails : admit(h, e) \/ createStaff(h, e)
       \/ insertPartner(h)
  \/ \E e \in Emails, account \in StaffAccount : changeStaff(e, account)
  \/ \E c \in PartnerCodes, status \in PartnerStatus : changePartner(c, status)
=============================================================================
