--------------------------- MODULE RegistryProofs ---------------------------
(***************************************************************************)
(* Theorems about Registry, for any accounts, catalogue, updates and list  *)
(* of products of the seed.                                                *)
(*                                                                         *)
(* Three invariants, each on top of the first: the types, with what a      *)
(* request carries (AInv); for each product, what the audit trail says of  *)
(* it and what the update that is under way still owes (Trail); and what   *)
(* the seed has done when it has come to a step (Done), where what others  *)
(* could undo is claimed only while nobody else writes.                    *)
(***************************************************************************)
EXTENDS Registry, SequenceTheorems, FiniteSetTheorems, TLAPS

(* A token, or one that is about to be issued, is for an account there is. *)
Holds(t) ==
  IF t.role = "PARTNER" THEN t.sub \in PartnerCodes /\ partners[t.sub] # None
  ELSE t.sub \in Emails /\ staff[t.sub] # None

AccountsOK ==
  /\ staff \in [Emails -> StaffAccount \cup {None}]
  /\ partners \in [PartnerCodes -> PartnerStatus \cup {None}]
  /\ tokens \subseteq Token
  /\ \A t \in tokens : Holds(t)

HandlerState ==
  {Idle} \cup Login \cup Admitted \cup Onboarding \cup Creating \cup Updating

Carries(h) ==
  /\ handler[h].pc = "issueTokens" => Holds(handler[h].token)
  /\ handler[h].pc = "insert" => handler[h].product.active = TRUE
  /\ handler[h].pc \in {"save", "record"} => handler[h].id \in Ids

HandlersOK ==
  /\ handler \in [Handlers -> HandlerState]
  /\ \A h \in Handlers : Carries(h)

RowsOK ==
  /\ products \in Seq(Product)
  /\ audit \in Seq(AuditRow)
  /\ \A n \in DOMAIN audit : audit[n].targetId \in Ids
  /\ content \in [Kinds -> Nat]

Outcomes == {"none", "done", "error"}

Run == [at : Nat, creating : BOOLEAN, left : SUBSET Nat, outcome : Outcomes]

SeedOK ==
  /\ seed \in Run
  /\ seed.at \in 0 .. Len(Steps) + 1
  /\ seed.left \subseteq Ids

AInv == AccountsOK /\ HandlersOK /\ RowsOK /\ SeedOK

(* Nothing is taken away.                                                  *)
Grows ==
  /\ \A e \in Emails : staff[e] # None => staff'[e] # None
  /\ \A c \in PartnerCodes : partners[c] # None => partners'[c] # None
  /\ Ids \subseteq Ids'

-----------------------------------------------------------------------------
(* The audit trail of product i *)

Of(i, action) ==
  {n \in DOMAIN audit : audit[n].targetId = i /\ audit[n].action = action}

Down(i) ==
  Cardinality(Of(i, "ProductDeactivated")) -
  Cardinality(Of(i, "ProductActivated"))

(* Of a product that updates did not overlap on.                           *)
Owed(i) ==
  \/ /\ \A h \in Updates(i) : handler[h].pc = "save" /\
          handler[h].seen.active = products[i].active
     /\ Down(i) = IF products[i].active THEN 0 ELSE 1
  \/ \E h \in Updates(i) :
       /\ handler[h].pc = "record"
       /\ handler[h].dto.active = products[i].active
       /\ Down(i) = IF products[i].active THEN 1 ELSE 0

Explained(i) ==
  /\ \A g, h \in Updates(i) : g = h
  /\ i \notin cleared => products[i].active \in BOOLEAN /\ Owed(i)

Trail == \A i \in Ids \ disturbed : Explained(i)

-----------------------------------------------------------------------------
(* What the seed has done *)

L == Len(SeedNames)

Listed(k) ==
  \E i \in Ids : /\ products[i].name = SeedNames[k]
                 /\ products[i].code = seedCode[SeedNames[k]]

(* By anyone: an account is never taken away.                              *)
AccountsThere ==
  /\ seed.at > 1 => staff[AdminEmail] # None
  /\ seed.at > 2 => staff[OfficerEmail] # None
  /\ seed.at > L + 4 => partners[DemoPartner] # None

(* By the seed, if nobody else writes.                                     *)
Undisturbed ==
  /\ seed.creating /\ seed.at \in {1, 2} => staff[seedEmail] = None
  /\ seed.creating /\ seed.at = L + 4 => partners[DemoPartner] = None
  /\ \A k \in 1 .. L : seed.at > k + 2 => Listed(k)
  /\ \A i \in seed.left : products[i].code = None
  /\ seed.at > L + 3 \/ (seed.at = L + 3 /\ seed.creating) =>
       \A i \in Ids \ seed.left : products[i].code # None
  /\ seed.at > L + 5 => content["faq"] > 0
  /\ seed.at > L + 6 => content["lender"] > 0
  /\ seed.outcome = "error" => Clash

Done ==
  /\ seed.outcome = "done" => seed.at = L + 7
  /\ seed.outcome = "error" => seed.at = 0
  /\ Running => seed.outcome = "none"
  /\ seed.left # {} => seed.at = L + 3
  /\ AccountsThere
  /\ quiet => Undisturbed

-----------------------------------------------------------------------------
(* Data *)

(* The steps of the seed, by number.                                       *)
LEMMA StepsFacts ==
  /\ L \in Nat /\ Len(Steps) = L + 6
  /\ DOMAIN Steps = 1 .. L + 6
  /\ Steps[1] = "admin" /\ Steps[2] = "officer"
  /\ \A k \in 1 .. L : Steps[k + 2] = "product"
  /\ Steps[L + 3] = "legacy" /\ Steps[L + 4] = "partner"
  /\ Steps[L + 5] = "faq" /\ Steps[L + 6] = "lender"
<1> DEFINE S == {"admin", "officer", "product", "legacy", "partner", "faq",
                 "lender"}
           a == <<"admin", "officer">>
           b == [i \in DOMAIN SeedNames |-> "product"]
           c == <<"legacy", "partner", "faq", "lender">>
<1>1. L \in Nat /\ DOMAIN SeedNames = 1 .. L
  BY RegistryAssumption DEF L
<1>2. a \in Seq(S) /\ Len(a) = 2 /\ a[1] = "admin" /\ a[2] = "officer"
  OBVIOUS
<1>3. c \in Seq(S) /\ Len(c) = 4 /\ c[1] = "legacy" /\ c[2] = "partner"
      /\ c[3] = "faq" /\ c[4] = "lender"
  OBVIOUS
<1>4. b \in Seq(S) /\ Len(b) = L /\ \A k \in 1 .. L : b[k] = "product"
  BY <1>1
<1> HIDE DEF a, b, c, S
<1>5. /\ a \o b \in Seq(S) /\ Len(a \o b) = L + 2
      /\ (a \o b)[1] = "admin" /\ (a \o b)[2] = "officer"
      /\ \A k \in 1 .. L : (a \o b)[k + 2] = "product"
  <2>1. /\ a \o b \in Seq(S) /\ Len(a \o b) = Len(a) + Len(b)
        /\ \A i \in 1 .. Len(a) + Len(b) :
             (a \o b)[i] = IF i <= Len(a) THEN a[i] ELSE b[i - Len(a)]
    BY <1>2, <1>4, ConcatProperties
  <2> QED
    BY <1>1, <1>2, <1>4, <2>1
<1> DEFINE ab == a \o b
<1> HIDE DEF ab
<1>6. /\ ab \in Seq(S) /\ Len(ab) = L + 2
      /\ ab[1] = "admin" /\ ab[2] = "officer"
      /\ \A k \in 1 .. L : ab[k + 2] = "product"
  BY <1>5 DEF ab
<1>7. /\ ab \o c \in Seq(S) /\ Len(ab \o c) = Len(ab) + Len(c)
      /\ \A i \in 1 .. Len(ab) + Len(c) :
           (ab \o c)[i] = IF i <= Len(ab) THEN ab[i] ELSE c[i - Len(ab)]
  BY <1>3, <1>6, ConcatProperties
<1>8. Steps = ab \o c
  BY DEF Steps, ab, a, b, c
<1>9. DOMAIN Steps = 1 .. Len(Steps) /\ Len(Steps) = L + 6
  BY <1>1, <1>3, <1>6, <1>7, <1>8
<1>10. \A k \in 1 .. L : Steps[k + 2] = "product"
  BY <1>1, <1>3, <1>6, <1>7, <1>8
<1>11. Steps[1] = "admin" /\ Steps[2] = "officer"
  BY <1>1, <1>3, <1>6, <1>7, <1>8
<1>12. Steps[L + 3] = "legacy" /\ Steps[L + 4] = "partner"
       /\ Steps[L + 5] = "faq" /\ Steps[L + 6] = "lender"
  <2>1. \A n \in 1 .. 4 : Steps[L + 2 + n] = c[n]
    BY <1>1, <1>3, <1>6, <1>7, <1>8
  <2>2. /\ Steps[L + 2 + 1] = c[1] /\ Steps[L + 2 + 2] = c[2]
        /\ Steps[L + 2 + 3] = c[3] /\ Steps[L + 2 + 4] = c[4]
    BY <2>1
  <2>3. /\ L + 2 + 1 = L + 3 /\ L + 2 + 2 = L + 4
        /\ L + 2 + 3 = L + 5 /\ L + 2 + 4 = L + 6
    BY <1>1
  <2> QED
    BY <1>3, <2>2, <2>3
<1> QED
  BY <1>1, <1>9, <1>10, <1>11, <1>12

(* Which step the seed is at, by name.                                     *)
LEMMA StepNumbers ==
  ASSUME SeedOK
  PROVE  /\ Running <=> seed.at \in 1 .. L + 6
         /\ Step("admin") <=> seed.at = 1
         /\ Step("officer") <=> seed.at = 2
         /\ Step("product") <=> seed.at \in 3 .. L + 2
         /\ Step("legacy") <=> seed.at = L + 3
         /\ Step("partner") <=> seed.at = L + 4
         /\ Step("faq") <=> seed.at = L + 5
         /\ Step("lender") <=> seed.at = L + 6
<1> DEFINE at == seed.at
<1>1. at \in 0 .. L + 7 /\ L \in Nat
  BY StepsFacts DEF SeedOK
<1>2. Running <=> at \in 1 .. L + 6
  BY StepsFacts DEF Running
<1>3. \A k \in 3 .. L + 2 : Steps[k] = "product"
  <2> TAKE k \in 3 .. L + 2
  <2>1. k - 2 \in 1 .. L /\ (k - 2) + 2 = k
    BY <1>1
  <2> QED
    BY <2>1, StepsFacts
<1>4. \/ at \in {0, L + 7} \/ at = 1 \/ at = 2 \/ at \in 3 .. L + 2
      \/ at = L + 3 \/ at = L + 4 \/ at = L + 5 \/ at = L + 6
  BY <1>1
<1>5. ASSUME NEW name PROVE Step(name) <=> Running /\ Steps[at] = name
  BY DEF Step
<1> HIDE DEF at
<1>6. at = 1 => Steps[at] = "admin"
  BY StepsFacts
<1>7. at = 2 => Steps[at] = "officer"
  BY StepsFacts
<1>8. at \in 3 .. L + 2 => Steps[at] = "product"
  BY <1>3
<1>9. /\ at = L + 3 => Steps[at] = "legacy"
      /\ at = L + 4 => Steps[at] = "partner"
      /\ at = L + 5 => Steps[at] = "faq"
      /\ at = L + 6 => Steps[at] = "lender"
  BY StepsFacts
<1> QED
  BY <1>1, <1>2, <1>4, <1>5, <1>6, <1>7, <1>8, <1>9 DEF at

LEMMA RowFacts ==
  ASSUME RowsOK
  PROVE  /\ Len(products) \in Nat /\ Ids = 1 .. Len(products)
         /\ \A i \in Ids : products[i] \in Product
         /\ 0 \notin Ids
BY DEF RowsOK, Ids

LEMMA RowEdited ==
  ASSUME RowsOK, NEW i \in Ids, NEW row \in Product,
         products' = [products EXCEPT ![i] = row]
  PROVE  /\ products' \in Seq(Product) /\ Ids' = Ids
         /\ \A j \in Ids : products'[j] = IF j = i THEN row ELSE products[j]
<1>1. products \in Seq(Product) /\ i \in 1 .. Len(products)
      /\ Ids = 1 .. Len(products)
  BY RowFacts DEF RowsOK
<1>2. /\ products' \in Seq(Product) /\ Len(products') = Len(products)
      /\ \A j \in 1 .. Len(products) :
           products'[j] = IF j = i THEN row ELSE products[j]
  BY <1>1, ExceptSeq
<1>3. Ids' = 1 .. Len(products')
  BY <1>2 DEF Ids
<1> QED
  BY <1>1, <1>2, <1>3

LEMMA RowAdded ==
  ASSUME RowsOK, NEW row \in Product, products' = Append(products, row),
         NEW n, n = Len(products) + 1
  PROVE  /\ products' \in Seq(Product) /\ Ids' = Ids \cup {n} /\ n \notin Ids
         /\ products'[n] = row
         /\ \A j \in Ids : products'[j] = products[j]
<1>1. products \in Seq(Product) /\ Ids = 1 .. Len(products)
      /\ Len(products) \in Nat
  BY RowFacts DEF RowsOK
<1>2. /\ products' \in Seq(Product) /\ Len(products') = Len(products) + 1
      /\ products'[Len(products) + 1] = row
      /\ \A j \in 1 .. Len(products) : products'[j] = products[j]
  BY <1>1, AppendProperties
<1>3. Ids' = 1 .. Len(products')
  BY <1>2 DEF Ids
<1> QED
  BY <1>1, <1>2, <1>3

LEMMA HandlerFacts ==
  ASSUME HandlersOK, NEW h \in Handlers
  PROVE  /\ handler[h].pc = "idle" <=> ~InFlight(h)
         /\ ~InFlight(h) => handler[h] = Idle
         /\ handler[h].pc = "issueTokens" => handler[h] \in Login
         /\ handler[h].pc = "admitted" => handler[h] \in Admitted
         /\ handler[h].pc = "insertPartner" => handler[h] \in Onboarding
         /\ handler[h].pc = "insert" => handler[h] \in Creating
         /\ handler[h].pc \in {"save", "record"} => handler[h] \in Updating
<1>1. handler[h] \in HandlerState
  BY DEF HandlersOK
<1>2. /\ Idle.pc = "idle"
      /\ \A b \in Login : b.pc = "issueTokens"
      /\ \A b \in Admitted : b.pc = "admitted"
      /\ \A b \in Onboarding : b.pc = "insertPartner"
      /\ \A b \in Creating : b.pc = "insert"
      /\ \A b \in Updating : b.pc \in {"save", "record"}
  BY DEF Idle, Login, Admitted, Onboarding, Creating, Updating
<1> QED
  BY <1>1, <1>2 DEF HandlerState, InFlight

-----------------------------------------------------------------------------
(* Types *)

LEMMA HoldsOn ==
  ASSUME Grows, NEW t, Holds(t)
  PROVE  Holds(t)'
BY DEF Grows, Holds

LEMMA HandlersStay ==
  ASSUME HandlersOK, Grows, UNCHANGED handler
  PROVE  HandlersOK'
<1>1. ASSUME NEW h \in Handlers PROVE Carries(h)'
  <2>1. handler[h].pc = "issueTokens" => Holds(handler[h].token)
    BY DEF HandlersOK, Carries
  <2>2. ASSUME NEW t, t = handler[h].token, Holds(t) PROVE Holds(t)'
    BY <2>2, HoldsOn
  <2>3. handler'[h].pc = "issueTokens" => Holds(handler[h].token)'
    BY <2>1, <2>2 DEF Holds
  <2>4. /\ handler[h].pc = "insert" => handler[h].product.active = TRUE
        /\ handler[h].pc \in {"save", "record"} => handler[h].id \in Ids'
    BY DEF HandlersOK, Carries, Grows
  <2> QED
    BY <2>3, <2>4 DEF Carries
<1> QED
  BY <1>1 DEF HandlersOK

LEMMA HandlerMoves ==
  ASSUME HandlersOK, Grows, NEW h \in Handlers, NEW next \in HandlerState,
         handler' = [handler EXCEPT ![h] = next],
         next.pc = "issueTokens" => \E t : t = next.token /\ Holds(t)',
         next.pc = "insert" => next.product.active = TRUE,
         next.pc \in {"save", "record"} => next.id \in Ids'
  PROVE  /\ HandlersOK' /\ handler'[h] = next
         /\ \A g \in Handlers : g # h => handler'[g] = handler[g]
<1>1. /\ handler' \in [Handlers -> HandlerState] /\ handler'[h] = next
      /\ \A g \in Handlers : g # h => handler'[g] = handler[g]
  BY DEF HandlersOK
<1>2. ASSUME NEW g \in Handlers PROVE Carries(g)'
  <2>1. CASE g = h
    BY <1>1, <2>1 DEF Carries, Holds
  <2>2. CASE g # h
    <3>1. handler'[g] = handler[g] /\ Carries(g)
      BY <1>1, <2>2 DEF HandlersOK
    <3>2. ASSUME NEW t, t = handler[g].token, Holds(t) PROVE Holds(t)'
      BY <3>2, HoldsOn
    <3>3. handler'[g].pc = "issueTokens" => Holds(handler[g].token)'
      BY <3>1, <3>2 DEF Carries, Holds
    <3> QED
      BY <3>1, <3>3 DEF Carries, Grows
  <2> QED
    BY <2>1, <2>2
<1> QED
  BY <1>1, <1>2 DEF HandlersOK

LEMMA AdminFacts ==
  ASSUME AccountsOK, NEW actor \in Admins
  PROVE  actor \in Emails /\ staff[actor] = [role |-> "ADMIN", active |-> TRUE]
<1>1. PICK u \in Allowed({"ADMIN"}) : u.sub = actor
  BY DEF Admins
<1>2. u # None /\ u.role = "ADMIN" /\ \E t \in tokens : u = resolveSubject(t)
  BY DEF Allowed
<1>3. PICK t \in tokens : u = resolveSubject(t)
  BY <1>2
<1>4. CASE t.role = "PARTNER"
  BY <1>2, <1>3, <1>4 DEF resolveSubject
<1>5. CASE t.role # "PARTNER"
  <2>1. /\ staff[t.sub] # None /\ staff[t.sub].active
        /\ u = [sub |-> t.sub, role |-> staff[t.sub].role]
    BY <1>2, <1>3, <1>5 DEF resolveSubject
  <2>2. t.sub \in Emails /\ staff[t.sub] \in StaffAccount
    BY <1>5, <2>1 DEF AccountsOK, Holds
  <2>3. actor = t.sub /\ staff[t.sub].role = "ADMIN"
    BY <1>1, <1>2, <2>1
  <2> QED
    BY <2>1, <2>2, <2>3 DEF StaffAccount
<1> QED
  BY <1>4, <1>5

(* The accounts when staff or partners are written.                        *)
LEMMA AccountsWritten ==
  ASSUME AccountsOK, Grows, tokens' = tokens,
         staff' \in [Emails -> StaffAccount \cup {None}],
         partners' \in [PartnerCodes -> PartnerStatus \cup {None}]
  PROVE  AccountsOK'
<1>1. \A t \in tokens : Holds(t)'
  BY HoldsOn DEF AccountsOK
<1> QED
  BY <1>1 DEF AccountsOK, Holds

LEMMA AccountsStep ==
  ASSUME AInv, AccountsNext, UNCHANGED <<products, content, audit, seed>>
  PROVE  /\ AInv' /\ Grows
         /\ \A h \in Handlers :
              \/ handler'[h].pc \notin {"insert", "save", "record"}
              \/ handler'[h] = handler[h]
         /\ \A h \in Handlers : handler[h].pc \in {"save", "record"} =>
              handler'[h] = handler[h]
         /\ \A h \in Handlers :
              handler[h].pc = "idle" /\ handler'[h].pc = "admitted" =>
                staff[handler'[h].actor] = [role |-> "ADMIN", active |-> TRUE]
<1>1. RowsOK' /\ SeedOK' /\ Ids' = Ids
  BY DEF AInv, RowsOK, SeedOK, Ids
<1>2. ASSUME NEW h \in Handlers, NEW token \in Token, Holds(token),
             Begin(h, [pc |-> "issueTokens", token |-> token]),
             UNCHANGED <<staff, partners, tokens>>
      PROVE  /\ AccountsOK' /\ HandlersOK' /\ Grows
             /\ \A g \in Handlers : g # h => handler'[g] = handler[g]
             /\ handler[h].pc = "idle" /\ handler'[h].pc = "issueTokens"
  <2> DEFINE next == [pc |-> "issueTokens", token |-> token]
  <2>1. next \in HandlerState /\ next.pc = "issueTokens" /\ next.token = token
    BY DEF HandlerState, Login
  <2>2. ~InFlight(h) /\ handler' = [handler EXCEPT ![h] = next]
    BY <1>2 DEF Begin
  <2>3. Grows /\ Holds(token)'
    BY <1>1, <1>2 DEF Grows, Holds
  <2>4. AccountsOK'
    BY <1>2, <2>3, AccountsWritten DEF AInv, AccountsOK
  <2> HIDE DEF next
  <2>5. /\ HandlersOK' /\ handler'[h] = next
        /\ \A g \in Handlers : g # h => handler'[g] = handler[g]
    BY <2>1, <2>2, <2>3, HandlerMoves DEF AInv
  <2> QED
    BY <2>1, <2>2, <2>3, <2>4, <2>5, HandlerFacts DEF AInv
<1>3. ASSUME NEW h \in Handlers, NEW e \in Emails, staffLogin(h, e)
      PROVE  /\ AccountsOK' /\ HandlersOK' /\ Grows
             /\ \A g \in Handlers : g # h => handler'[g] = handler[g]
             /\ handler[h].pc = "idle" /\ handler'[h].pc = "issueTokens"
  <2> DEFINE token == [sub |-> e, role |-> staff[e].role]
  <2>1. staff[e] \in StaffAccount
    BY <1>3 DEF staffLogin, AInv, AccountsOK
  <2>2. token \in Token /\ Holds(token)
    BY <1>3, <2>1 DEF staffLogin, Token, StaffAccount, StaffRoles, Holds
  <2> QED
    BY <1>2, <1>3, <2>2 DEF staffLogin
<1>4. ASSUME NEW h \in Handlers, NEW c \in PartnerCodes, partnerLogin(h, c)
      PROVE  /\ AccountsOK' /\ HandlersOK' /\ Grows
             /\ \A g \in Handlers : g # h => handler'[g] = handler[g]
             /\ handler[h].pc = "idle" /\ handler'[h].pc = "issueTokens"
  <2> DEFINE token == [sub |-> c, role |-> "PARTNER"]
  <2>1. token \in Token /\ Holds(token)
    BY <1>4, NoneAssumption DEF partnerLogin, Token, Holds, PartnerStatus
  <2> QED
    BY <1>2, <1>4, <2>1 DEF partnerLogin
<1>5. ASSUME NEW h \in Handlers, NEW c \in PartnerCodes, NEW fifth \in BOOLEAN,
             onboard(h, c, fifth)
      PROVE  /\ AccountsOK' /\ HandlersOK' /\ Grows
             /\ \A g \in Handlers : g # h => handler'[g] = handler[g]
             /\ handler[h].pc = "admitted" /\ handler'[h].pc = "insertPartner"
  <2> DEFINE next == [pc |-> "insertPartner", code |-> c]
  <2>1. next \in HandlerState /\ next.pc = "insertPartner"
    BY DEF HandlerState, Onboarding
  <2>2. /\ handler[h].pc = "admitted" /\ handler' = [handler EXCEPT ![h] = next]
        /\ UNCHANGED <<staff, partners, tokens>>
    BY <1>5 DEF onboard, At, Become
  <2>3. Grows
    BY <1>1, <2>2 DEF Grows
  <2>4. AccountsOK'
    BY <2>2, <2>3, AccountsWritten DEF AInv, AccountsOK
  <2> HIDE DEF next
  <2>5. /\ HandlersOK' /\ handler'[h] = next
        /\ \A g \in Handlers : g # h => handler'[g] = handler[g]
    BY <2>1, <2>2, <2>3, HandlerMoves DEF AInv
  <2> QED
    BY <2>1, <2>2, <2>3, <2>4, <2>5
<1>8. ASSUME NEW h \in Handlers, NEW e \in Emails, admit(h, e)
      PROVE  /\ AccountsOK' /\ HandlersOK' /\ Grows
             /\ \A g \in Handlers : g # h => handler'[g] = handler[g]
             /\ handler[h].pc = "idle" /\ handler'[h].pc = "admitted"
             /\ staff[handler'[h].actor] = [role |-> "ADMIN", active |-> TRUE]
  <2> DEFINE next == [pc |-> "admitted", actor |-> e]
  <2>1. next \in HandlerState /\ next.pc = "admitted" /\ next.actor = e
    BY DEF HandlerState, Admitted
  <2>2. /\ ~InFlight(h) /\ handler' = [handler EXCEPT ![h] = next]
        /\ UNCHANGED <<staff, partners, tokens>> /\ e \in Admins
    BY <1>8 DEF admit, Begin
  <2>3. Grows
    BY <1>1, <2>2 DEF Grows
  <2>4. AccountsOK'
    BY <2>2, <2>3, AccountsWritten DEF AInv, AccountsOK
  <2> HIDE DEF next
  <2>5. /\ HandlersOK' /\ handler'[h] = next
        /\ \A g \in Handlers : g # h => handler'[g] = handler[g]
    BY <2>1, <2>2, <2>3, HandlerMoves DEF AInv
  <2> QED
    BY <2>1, <2>2, <2>3, <2>4, <2>5, HandlerFacts, AdminFacts DEF AInv
<1>9. ASSUME NEW h \in Handlers, NEW e \in Emails, createStaff(h, e)
      PROVE  /\ AccountsOK' /\ HandlersOK' /\ Grows
             /\ \A g \in Handlers : g # h => handler'[g] = handler[g]
             /\ handler[h].pc = "admitted" /\ handler'[h].pc = "idle"
  <2> DEFINE account == [role |-> "STAFF", active |-> TRUE]
  <2>1. /\ handler' = [handler EXCEPT ![h] = Idle]
        /\ handler[h].pc = "admitted"
        /\ staff' = IF staff[e] = None THEN [staff EXCEPT ![e] = account]
                    ELSE staff
        /\ UNCHANGED <<partners, tokens>>
        /\ Idle \in HandlerState /\ Idle.pc = "idle"
    BY <1>9 DEF createStaff, At, Leave, Become, HandlerState, Idle
  <2>2. account \in StaffAccount
    BY DEF StaffAccount, StaffRoles
  <2>3. /\ staff' \in [Emails -> StaffAccount \cup {None}]
        /\ \A d \in Emails : staff[d] # None => staff'[d] # None
    BY <2>1, <2>2, NoneAssumption DEF AInv, AccountsOK
  <2>4. Grows
    BY <1>1, <2>1, <2>3 DEF Grows
  <2>5. AccountsOK'
    BY <2>1, <2>3, <2>4, AccountsWritten DEF AInv, AccountsOK
  <2>6. /\ HandlersOK' /\ handler'[h] = Idle
        /\ \A g \in Handlers : g # h => handler'[g] = handler[g]
    BY <2>1, <2>4, HandlerMoves DEF AInv
  <2> QED
    BY <2>1, <2>4, <2>5, <2>6
<1>6. ASSUME NEW h \in Handlers, issueTokens(h) \/ insertPartner(h)
      PROVE  /\ AccountsOK' /\ HandlersOK' /\ Grows
             /\ \A g \in Handlers : g # h => handler'[g] = handler[g]
             /\ handler[h].pc \in {"issueTokens", "insertPartner"}
             /\ handler'[h].pc = "idle"
  <2>1. /\ handler' = [handler EXCEPT ![h] = Idle]
        /\ handler[h].pc \in {"issueTokens", "insertPartner"}
        /\ Idle \in HandlerState /\ Idle.pc = "idle"
    BY <1>6 DEF issueTokens, insertPartner, At, Leave, Become, HandlerState,
       Idle
  <2>2. Grows /\ AccountsOK'
    <3>1. CASE issueTokens(h)
      <4>1. /\ UNCHANGED <<staff, partners>>
            /\ tokens' = tokens \cup {handler[h].token}
            /\ handler[h].pc = "issueTokens"
        BY <3>1 DEF issueTokens, At
      <4>2. PICK token : token = handler[h].token
        OBVIOUS
      <4>3. token \in Token /\ Holds(token)
        BY <4>1, <4>2, HandlerFacts DEF AInv, HandlersOK, Carries, Login
      <4>4. Grows
        BY <1>1, <4>1 DEF Grows
      <4>5. \A t \in tokens' : Holds(t)'
        BY <4>1, <4>2, <4>3 DEF AInv, AccountsOK, Holds
      <4> QED
        BY <4>1, <4>2, <4>3, <4>4, <4>5 DEF AInv, AccountsOK
    <3>2. CASE insertPartner(h)
      <4> DEFINE c == handler[h].code
      <4>1. /\ handler[h].pc = "insertPartner"
            /\ partners' = IF partners[c] = None
                           THEN [partners EXCEPT ![c] = "ACTIVE"] ELSE partners
            /\ UNCHANGED <<staff, tokens>>
        BY <3>2 DEF insertPartner, At
      <4>2. c \in PartnerCodes
        BY <4>1, HandlerFacts DEF AInv, Onboarding
      <4>3. partners' \in [PartnerCodes -> PartnerStatus \cup {None}]
        BY <4>1 DEF AInv, AccountsOK, PartnerStatus
      <4>4. Grows
        BY <1>1, <4>1, NoneAssumption DEF Grows, AInv, AccountsOK,
          PartnerStatus
      <4> QED
        BY <4>1, <4>3, <4>4, AccountsWritten DEF AInv, AccountsOK
    <3> QED
      BY <1>6, <3>1, <3>2
  <2>3. /\ HandlersOK' /\ handler'[h] = Idle
        /\ \A g \in Handlers : g # h => handler'[g] = handler[g]
    BY <2>1, <2>2, HandlerMoves DEF AInv
  <2> QED
    BY <2>1, <2>2, <2>3
<1>7. CASE \/ \E e \in Emails, account \in StaffAccount :
                changeStaff(e, account)
           \/ \E c \in PartnerCodes, status \in PartnerStatus :
                changePartner(c, status)
  <2>1. /\ tokens' = tokens /\ handler' = handler
        /\ staff' \in [Emails -> StaffAccount \cup {None}]
        /\ partners' \in [PartnerCodes -> PartnerStatus \cup {None}]
        /\ \A e \in Emails : staff[e] # None => staff'[e] # None
        /\ \A c \in PartnerCodes : partners[c] # None => partners'[c] # None
    <3>1. ASSUME NEW e \in Emails, NEW account \in StaffAccount,
                 staff' = [staff EXCEPT ![e] = account]
          PROVE  /\ staff' \in [Emails -> StaffAccount \cup {None}]
                 /\ \A d \in Emails : staff[d] # None => staff'[d] # None
      BY <3>1, NoneAssumption DEF AInv, AccountsOK
    <3>2. CASE \E e \in Emails, account \in StaffAccount :
                 changeStaff(e, account)
      <4>2. PICK e \in Emails, account \in StaffAccount :
              staff' = [staff EXCEPT ![e] = account]
        BY <3>2 DEF changeStaff
      <4>3. UNCHANGED <<partners, tokens, handler>>
        BY <3>2 DEF changeStaff
      <4> QED
        BY <3>1, <4>2, <4>3 DEF AInv, AccountsOK
    <3>3. CASE \E c \in PartnerCodes, status \in PartnerStatus :
                 changePartner(c, status)
      <4>1. PICK c \in PartnerCodes, status \in PartnerStatus :
              partners' = [partners EXCEPT ![c] = status]
        BY <3>3 DEF changePartner
      <4>2. UNCHANGED <<staff, tokens, handler>>
        BY <3>3 DEF changePartner
      <4> QED
        BY <4>1, <4>2, NoneAssumption DEF AInv, AccountsOK
    <3> QED
      BY <1>7, <3>2, <3>3
  <2>2. Grows
    BY <1>1, <2>1 DEF Grows
  <2>3. AccountsOK' /\ HandlersOK'
    BY <2>1, <2>2, AccountsWritten, HandlersStay DEF AInv
  <2> QED
    BY <1>1, <2>1, <2>2, <2>3 DEF AInv
<1> QED
  BY <1>1, <1>3, <1>4, <1>5, <1>6, <1>7, <1>8, <1>9 DEF AccountsNext, AInv

LEMMA MergedFacts ==
  ASSUME NEW cur \in Product, NEW old \in Product, NEW dto \in Dto
  PROVE  /\ merged(cur, old, assigned(old, dto)) \in Product
         /\ merged(cur, old, assigned(old, dto)).active =
              IF dto.active = old.active THEN cur.active ELSE dto.active
<1> DEFINE new == assigned(old, dto)
<1>1. /\ new.name \in Names /\ new.code \in Codes \cup {None}
      /\ new.active = dto.active /\ dto.active \in BOOLEAN \cup {None}
  BY DEF assigned, Field, Product, Dto
<1>2. /\ Delta(cur.name, old.name, new.name) \in Names
      /\ Delta(cur.code, old.code, new.code) \in Codes \cup {None}
      /\ Delta(cur.active, old.active, new.active) \in BOOLEAN \cup {None}
  BY <1>1 DEF Delta, Product
<1>3. merged(cur, old, new).active = Delta(cur.active, old.active, dto.active)
  BY <1>1 DEF merged
<1> QED
  BY <1>2, <1>3 DEF merged, Product, Delta

(* What the steps of the catalogue do to the requests and the rows; the    *)
(* rest of their effect is in their definitions.                           *)
LEMMA CatalogueKeeps ==
  ASSUME AInv, UNCHANGED <<staff, partners, tokens, seed>>,
         HandlersOK', RowsOK', Ids \subseteq Ids'
  PROVE  AInv' /\ Grows
<1>1. Grows
  BY DEF Grows
<1>2. AccountsOK'
  BY <1>1, AccountsWritten DEF AInv, AccountsOK
<1>3. SeedOK'
  BY DEF AInv, SeedOK
<1> QED
  BY <1>1, <1>2, <1>3 DEF AInv

LEMMA CreateTypes ==
  ASSUME AInv, NEW h \in Handlers, NEW name \in Names,
         NEW given \in Codes \cup {None}, create(h, name, given)
  PROVE  /\ AInv' /\ Grows
         /\ handler[h].pc = "admitted" /\ handler'[h].pc \in {"insert", "idle"}
         /\ \A g \in Handlers : g # h => handler'[g] = handler[g]
<1> DEFINE code == Field(given, derived[name])
           p == [name |-> name, code |-> code, active |-> TRUE]
           inserts ==
             [pc |-> "insert", actor |-> handler[h].actor, product |-> p]
<1>1. /\ handler[h].pc = "admitted"
      /\ UNCHANGED <<staff, partners, tokens, seed, products, audit, content>>
  BY DEF create, At, registryVars
<1>2. /\ inserts \in HandlerState /\ inserts.pc = "insert"
      /\ inserts.product.active = TRUE
  <2>1. code \in Codes
    BY RegistryAssumption DEF Field
  <2>2. handler[h].actor \in Emails
    BY <1>1, HandlerFacts DEF AInv, Admitted
  <2> QED
    BY <2>1, <2>2 DEF HandlerState, Creating, Product
<1>3. PICK next \in {inserts, Idle} : handler' = [handler EXCEPT ![h] = next]
  BY DEF create, Leave, Become
<1> HIDE DEF inserts
<1>4. /\ next \in HandlerState /\ next.pc \in {"insert", "idle"}
      /\ next.pc = "insert" => next.product.active = TRUE
  BY <1>2, <1>3 DEF HandlerState, Idle
<1>5. RowsOK' /\ Ids' = Ids /\ Grows
  BY <1>1 DEF AInv, RowsOK, Ids, Grows
<1>6. /\ HandlersOK' /\ handler'[h] = next
      /\ \A g \in Handlers : g # h => handler'[g] = handler[g]
  BY <1>3, <1>4, <1>5, HandlerMoves DEF AInv
<1> QED
  BY <1>1, <1>4, <1>5, <1>6, CatalogueKeeps

LEMMA InsertTypes ==
  ASSUME AInv, NEW h \in Handlers, insert(h)
  PROVE  /\ AInv' /\ Grows /\ handler[h].product \in Product
         /\ handler[h].product.active = TRUE
         /\ handler[h].pc = "insert" /\ handler'[h].pc = "idle"
         /\ \A g \in Handlers : g # h => handler'[g] = handler[g]
<1> DEFINE p == handler[h].product
<1>1. /\ handler[h].pc = "insert"
      /\ products' = IF free(p.code, 0) THEN Append(products, p) ELSE products
      /\ handler' = [handler EXCEPT ![h] = Idle]
      /\ UNCHANGED <<staff, partners, tokens, seed, audit, content>>
  BY DEF insert, At, Leave, Become
<1>2. p \in Product /\ p.active = TRUE
  BY <1>1, HandlerFacts DEF AInv, HandlersOK, Carries, Creating
<1>3. products' \in Seq(Product) /\ Ids \subseteq Ids'
  <2>1. CASE products' = Append(products, p)
    BY <1>2, <2>1, RowAdded DEF AInv
  <2>2. CASE products' = products
    BY <2>2 DEF AInv, RowsOK, Ids
  <2> QED
    BY <1>1, <2>1, <2>2
<1>4. RowsOK' /\ Grows
  BY <1>1, <1>3 DEF AInv, RowsOK, Grows
<1>5. Idle \in HandlerState /\ Idle.pc = "idle"
  BY DEF HandlerState, Idle
<1>6. /\ HandlersOK' /\ handler'[h] = Idle
      /\ \A g \in Handlers : g # h => handler'[g] = handler[g]
  BY <1>1, <1>4, <1>5, HandlerMoves DEF AInv
<1> QED
  BY <1>1, <1>2, <1>3, <1>4, <1>5, <1>6, CatalogueKeeps

LEMMA UpdateTypes ==
  ASSUME AInv, NEW h \in Handlers, NEW i \in Ids, NEW dto \in Dtos,
         update(h, i, dto)
  PROVE  /\ AInv' /\ Grows
         /\ handler[h].pc = "admitted"
         /\ handler'[h] = [pc |-> "save", id |-> i, dto |-> dto,
                           seen |-> products[i], actor |-> handler[h].actor]
         /\ \A g \in Handlers : g # h => handler'[g] = handler[g]
<1> DEFINE next == [pc |-> "save", id |-> i, dto |-> dto, seen |-> products[i],
                    actor |-> handler[h].actor]
<1>1. /\ handler[h].pc = "admitted" /\ handler' = [handler EXCEPT ![h] = next]
      /\ UNCHANGED <<staff, partners, tokens, seed, products, audit, content>>
  BY DEF update, At, Become
<1>2. next \in HandlerState /\ next.pc = "save" /\ next.id \in Ids
  <2>1. products[i] \in Product /\ i \in Nat
    BY RowFacts DEF AInv
  <2>2. dto \in Dto
    BY DtosAssumption
  <2>3. handler[h].actor \in Emails
    BY <1>1, HandlerFacts DEF AInv, Admitted
  <2> QED
    BY <2>1, <2>2, <2>3 DEF HandlerState, Updating
<1>3. RowsOK' /\ Ids' = Ids /\ Grows
  BY <1>1 DEF AInv, RowsOK, Ids, Grows
<1>4. /\ HandlersOK' /\ handler'[h] = next
      /\ \A g \in Handlers : g # h => handler'[g] = handler[g]
  <2> HIDE DEF next
  <2> QED
    BY <1>1, <1>2, <1>3, HandlerMoves DEF AInv
<1> QED
  BY <1>1, <1>3, <1>4, CatalogueKeeps

(* stored is whether the update was not refused.                           *)
LEMMA SaveTypes ==
  ASSUME AInv, NEW h \in Handlers, save(h)
  PROVE  /\ AInv' /\ Grows /\ Ids' = Ids
         /\ handler[h].pc = "save" /\ handler[h].id \in Ids
         /\ handler[h] \in Updating
         /\ \A g \in Handlers : g # h => handler'[g] = handler[g]
         /\ \E stored \in BOOLEAN :
              /\ \A j \in Ids : j # handler[h].id \/ ~stored =>
                   products'[j] = products[j]
              /\ stored => products'[handler[h].id].active =
                   IF handler[h].dto.active = handler[h].seen.active
                   THEN products[handler[h].id].active
                   ELSE handler[h].dto.active
              /\ cleared' = cleared \cup {i \in {handler[h].id} :
                              stored /\ handler[h].dto.active = None}
              /\ IF stored /\ Toggles(handler[h])
                 THEN handler'[h] = [handler[h] EXCEPT !.pc = "record"]
                 ELSE handler'[h] = Idle
<1> DEFINE b == handler[h]
           new == merged(products[b.id], b.seen, assigned(b.seen, b.dto))
           stored == assigned(b.seen, b.dto).code # None /\ free(new.code, b.id)
           next == IF stored /\ Toggles(b) THEN [b EXCEPT !.pc = "record"]
                   ELSE Idle
<1>1. /\ handler[h].pc = "save"
      /\ products' = IF stored THEN [products EXCEPT ![b.id] = new]
                     ELSE products
      /\ UNCHANGED <<staff, partners, tokens, seed, audit, content>>
      /\ cleared' = cleared \cup {i \in {b.id} : stored /\ b.dto.active = None}
  BY DEF save, At
<1>2. b \in Updating /\ b.id \in Ids
  BY <1>1, HandlerFacts DEF AInv, HandlersOK, Carries
<1>3. handler' = [handler EXCEPT ![h] = next]
  BY <1>2 DEF save, Leave, Become, AInv, HandlersOK
<1>4. new \in Product /\ new.active = IF b.dto.active = b.seen.active
                                      THEN products[b.id].active
                                      ELSE b.dto.active
  <2>1. products[b.id] \in Product
    BY <1>2, RowFacts DEF AInv
  <2>2. b.seen \in Product /\ b.dto \in Dto
    BY <1>2 DEF Updating
  <2> QED
    BY <2>1, <2>2, MergedFacts
<1>5. PICK bit \in BOOLEAN : bit = stored
  OBVIOUS
<1> HIDE DEF new, stored
<1>6. /\ products' \in Seq(Product) /\ Ids' = Ids
      /\ \A j \in Ids : j # b.id \/ ~bit => products'[j] = products[j]
      /\ bit => products'[b.id] = new
  <2>1. CASE stored
    <3>1. /\ products' \in Seq(Product) /\ Ids' = Ids
          /\ \A j \in Ids :
               products'[j] = IF j = b.id THEN new ELSE products[j]
      BY <1>1, <1>2, <1>4, <2>1, RowEdited DEF AInv
    <3> QED
      BY <1>2, <1>5, <2>1, <3>1
  <2>2. CASE ~stored
    BY <1>1, <1>5, <2>2 DEF AInv, RowsOK, Ids
  <2> QED
    BY <2>1, <2>2
<1>7. RowsOK' /\ Grows
  BY <1>1, <1>6 DEF AInv, RowsOK, Grows
<1>8. /\ next \in HandlerState /\ next.pc \in {"record", "idle"}
      /\ next.pc = "record" => next.id = b.id
  BY <1>2 DEF HandlerState, Idle, Updating
<1>9. /\ HandlersOK' /\ handler'[h] = next
      /\ \A g \in Handlers : g # h => handler'[g] = handler[g]
  <2> HIDE DEF next
  <2> QED
    BY <1>2, <1>3, <1>6, <1>7, <1>8, HandlerMoves DEF AInv
<1>10. AInv'
  BY <1>1, <1>6, <1>7, <1>9, CatalogueKeeps
<1>11. cleared' = cleared \cup {i \in {b.id} : bit /\ b.dto.active = None}
  BY <1>1, <1>5
<1> QED
  BY <1>1, <1>2, <1>4, <1>5, <1>6, <1>7, <1>9, <1>10, <1>11

LEMMA RecordTypes ==
  ASSUME AInv, NEW h \in Handlers, record(h)
  PROVE  /\ AInv' /\ Grows /\ Ids' = Ids
         /\ handler[h].pc = "record" /\ handler[h] \in Updating
         /\ handler[h].id \in Ids
         /\ handler'[h] = Idle
         /\ \A g \in Handlers : g # h => handler'[g] = handler[g]
         /\ audit \in Seq(AuditRow)
         /\ audit' = Append(audit, auditRow(handler[h]))
         /\ auditRow(handler[h]) \in AuditRow
<1> DEFINE b == handler[h]
<1>1. /\ b.pc = "record" /\ audit' = Append(audit, auditRow(b))
      /\ handler' = [handler EXCEPT ![h] = Idle]
      /\ UNCHANGED <<staff, partners, tokens, products, content, seed>>
  BY DEF record, At, Leave, Become
<1>2. b \in Updating /\ b.id \in Ids
  BY <1>1, HandlerFacts DEF AInv, HandlersOK, Carries
<1>3. auditRow(b) \in AuditRow /\ auditRow(b).targetId = b.id
  BY <1>2 DEF auditRow, AuditRow, Updating
<1>4. Ids' = Ids /\ Grows
  BY <1>1 DEF Ids, Grows
<1>5. audit \in Seq(AuditRow)
  BY DEF AInv, RowsOK
<1>6. RowsOK'
  <2>1. /\ audit' \in Seq(AuditRow) /\ Len(audit') = Len(audit) + 1
        /\ audit'[Len(audit) + 1] = auditRow(b)
        /\ \A n \in 1 .. Len(audit) : audit'[n] = audit[n]
    BY <1>1, <1>3, <1>5, AppendProperties
  <2>2. \A n \in DOMAIN audit' : audit'[n].targetId \in Ids
    BY <1>2, <1>3, <1>5, <2>1 DEF AInv, RowsOK
  <2> QED
    BY <1>1, <1>4, <2>1, <2>2 DEF AInv, RowsOK
<1>7. Idle \in HandlerState /\ Idle.pc = "idle"
  BY DEF HandlerState, Idle
<1>8. /\ HandlersOK' /\ handler'[h] = Idle
      /\ \A g \in Handlers : g # h => handler'[g] = handler[g]
  BY <1>1, <1>4, <1>7, HandlerMoves DEF AInv
<1> QED
  BY <1>1, <1>2, <1>3, <1>4, <1>5, <1>6, <1>8, CatalogueKeeps

(* The requests that one call answers, and those that it refuses.          *)
Brief(h, kind) ==
  createContent(h, kind) \/ removeContent(h, kind) \/ notFound(h)

LEMMA BriefTypes ==
  ASSUME AInv, NEW h \in Handlers, NEW kind \in Kinds, Brief(h, kind)
  PROVE  /\ AInv' /\ Grows
         /\ handler[h].pc = "admitted" /\ handler'[h].pc = "idle"
         /\ \A g \in Handlers : g # h => handler'[g] = handler[g]
<1>1. /\ UNCHANGED <<staff, partners, tokens, seed, products, audit>>
      /\ handler' = [handler EXCEPT ![h] = Idle] /\ handler[h].pc = "admitted"
  BY DEF Brief, createContent, removeContent, notFound, At, Leave, Become,
     registryVars
<1>2. content' \in [Kinds -> Nat]
  <2>1. content \in [Kinds -> Nat] /\ content[kind] \in Nat
    BY DEF AInv, RowsOK
  <2>2. /\ content[kind] + 1 \in Nat
        /\ content[kind] > 0 => content[kind] - 1 \in Nat
    BY <2>1
  <2> QED
    BY <2>1, <2>2
    DEF Brief, createContent, removeContent, notFound, registryVars
<1>3. RowsOK' /\ Ids' = Ids /\ Grows
  BY <1>1, <1>2 DEF AInv, RowsOK, Ids, Grows
<1>4. Idle \in HandlerState /\ Idle.pc = "idle"
  BY DEF HandlerState, Idle
<1>5. /\ HandlersOK' /\ handler'[h] = Idle
      /\ \A g \in Handlers : g # h => handler'[g] = handler[g]
  BY <1>1, <1>3, <1>4, HandlerMoves DEF AInv
<1> QED
  BY <1>1, <1>3, <1>4, <1>5, CatalogueKeeps

LEMMA StopTypes ==
  ASSUME AInv, stop
  PROVE  AInv' /\ Grows /\ \A h \in Handlers : handler'[h].pc = "idle"
<1>1. /\ handler' = [h \in Handlers |-> Idle]
      /\ UNCHANGED <<staff, partners, tokens, seed, content, products, audit>>
  BY DEF stop
<1>2. Idle \in HandlerState /\ Idle.pc = "idle"
  BY DEF HandlerState, Idle
<1>3. HandlersOK'
  BY <1>1, <1>2 DEF HandlersOK, Carries
<1>4. RowsOK' /\ Ids' = Ids
  BY <1>1 DEF AInv, RowsOK, Ids
<1> QED
  BY <1>1, <1>2, <1>3, <1>4, CatalogueKeeps

(* No row becomes visible or hidden, and a new one is visible.             *)
ActiveStays ==
  /\ \A i \in Ids : products'[i].active = products[i].active
  /\ \A i \in Ids' \ Ids : products'[i].active = TRUE

LEMMA SeedMoves ==
  ASSUME SeedOK
  PROVE  /\ Advance /\ Running =>
              /\ SeedOK' /\ seed'.at = seed.at + 1 /\ ~seed'.creating
              /\ seed'.left = {}
              /\ seed'.outcome = IF seed.at = L + 6 THEN "done" ELSE "none"
         /\ Die => /\ SeedOK' /\ seed'.at = 0 /\ ~seed'.creating
                   /\ seed'.left = {} /\ seed'.outcome = "error"
         /\ seed' = [seed EXCEPT !.creating = TRUE] =>
              /\ SeedOK' \/ ~(Ids \subseteq Ids')
              /\ seed'.at = seed.at /\ seed'.creating
              /\ seed'.left = seed.left /\ seed'.outcome = seed.outcome
<1>1. /\ L \in Nat /\ Len(Steps) = L + 6 /\ (Running <=> seed.at \in 1 .. L + 6)
      /\ seed \in Run /\ seed.at \in 0 .. L + 7 /\ seed.left \subseteq Ids
  BY StepsFacts, StepNumbers DEF SeedOK
<1>2. Len(Steps)' = Len(Steps)
  BY DEF Steps
<1>3. ASSUME Advance, Running
      PROVE  /\ SeedOK' /\ seed'.at = seed.at + 1 /\ ~seed'.creating
             /\ seed'.left = {}
             /\ seed'.outcome = IF seed.at = L + 6 THEN "done" ELSE "none"
  BY <1>1, <1>2, <1>3 DEF Advance, SeedOK, Run, Outcomes
<1>4. ASSUME Die
      PROVE  /\ SeedOK' /\ seed'.at = 0 /\ ~seed'.creating
             /\ seed'.left = {} /\ seed'.outcome = "error"
  <2>1. seed' = [at |-> 0, creating |-> FALSE, left |-> {},
                 outcome |-> "error"]
    BY <1>4 DEF Die, NotRunning
  <2> QED
    BY <1>1, <1>2, <2>1 DEF SeedOK, Run, Outcomes
<1>5. ASSUME seed' = [seed EXCEPT !.creating = TRUE]
      PROVE  /\ SeedOK' \/ ~(Ids \subseteq Ids')
             /\ seed'.at = seed.at /\ seed'.creating
             /\ seed'.left = seed.left /\ seed'.outcome = seed.outcome
  BY <1>1, <1>2, <1>5 DEF SeedOK, Run
<1> QED
  BY <1>3, <1>4, <1>5

LEMMA SeedKeeps ==
  ASSUME AInv, UNCHANGED <<tokens, handler, audit>>,
         staff' \in [Emails -> StaffAccount \cup {None}],
         partners' \in [PartnerCodes -> PartnerStatus \cup {None}],
         \A e \in Emails : staff[e] # None => staff'[e] # None,
         \A c \in PartnerCodes : partners[c] # None => partners'[c] # None,
         products' \in Seq(Product), Ids \subseteq Ids',
         content' \in [Kinds -> Nat], SeedOK'
  PROVE  AInv' /\ Grows
<1>1. Grows
  BY DEF Grows
<1>2. AccountsOK' /\ HandlersOK'
  BY <1>1, AccountsWritten, HandlersStay DEF AInv
<1>3. RowsOK'
  BY DEF AInv, RowsOK
<1> QED
  BY <1>1, <1>2, <1>3 DEF AInv

LEMMA SeedStaffTypes ==
  ASSUME AInv, seedStaff
  PROVE  AInv' /\ Grows /\ UNCHANGED <<products, handler, audit>>
         /\ seedEmail \in Emails
<1>1. Running /\ (Step("admin") \/ Step("officer")) /\ seedEmail \in Emails
  BY RegistryAssumption DEF seedStaff, Step, seedEmail
<1>2. /\ UNCHANGED <<products, handler, audit, partners, tokens, content>>
      /\ Advance \/ Die \/ seed' = [seed EXCEPT !.creating = TRUE]
      /\ \/ staff' = staff
         \/ \E account \in StaffAccount :
              staff' = [staff EXCEPT ![seedEmail] = account]
  <2>1. \A role \in StaffRoles :
          [role |-> role, active |-> TRUE] \in StaffAccount
    BY DEF StaffAccount
  <2>2. (IF Step("admin") THEN "ADMIN" ELSE "STAFF") \in StaffRoles
    BY DEF StaffRoles
  <2> QED
    BY <2>1, <2>2 DEF seedStaff, seedExists, accountVars
<1>3. Ids' = Ids
  BY <1>2 DEF Ids
<1>4. SeedOK'
  BY <1>1, <1>2, <1>3, SeedMoves DEF AInv
<1>5. /\ staff' \in [Emails -> StaffAccount \cup {None}]
      /\ \A e \in Emails : staff[e] # None => staff'[e] # None
  BY <1>1, <1>2, NoneAssumption DEF AInv, AccountsOK
<1> QED
  BY <1>1, <1>2, <1>3, <1>4, <1>5, SeedKeeps DEF AInv, AccountsOK, RowsOK

LEMMA SeedPartnerTypes ==
  ASSUME AInv, seedPartner
  PROVE  AInv' /\ Grows /\ UNCHANGED <<products, handler, audit>>
<1>1. Running
  BY DEF seedPartner, Step
<1>2. /\ UNCHANGED <<products, handler, audit, staff, tokens, content>>
      /\ Advance \/ Die \/ seed' = [seed EXCEPT !.creating = TRUE]
      /\ \/ partners' = partners
         \/ partners' = [partners EXCEPT ![DemoPartner] = "ACTIVE"]
  BY DEF seedPartner, seedExists, accountVars
<1>3. Ids' = Ids
  BY <1>2 DEF Ids
<1>4. SeedOK'
  BY <1>1, <1>2, <1>3, SeedMoves DEF AInv
<1>5. /\ partners' \in [PartnerCodes -> PartnerStatus \cup {None}]
      /\ \A c \in PartnerCodes : partners[c] # None => partners'[c] # None
  BY <1>2, NoneAssumption DEF AInv, AccountsOK, PartnerStatus
<1> QED
  BY <1>2, <1>3, <1>4, <1>5, SeedKeeps DEF AInv, AccountsOK, RowsOK

LEMMA SeedContentTypes ==
  ASSUME AInv, seedFaq \/ seedLender
  PROVE  AInv' /\ Grows /\ UNCHANGED <<products, handler, audit>>
<1>1. Running
  BY DEF seedFaq, seedLender, Step
<1>2. /\ UNCHANGED <<products, handler, audit, staff, partners, tokens>>
      /\ Advance \/ seed' = [seed EXCEPT !.creating = TRUE]
      /\ \/ content' = content
         \/ content' = [content EXCEPT !["faq"] = 1]
         \/ content' = [content EXCEPT !["lender"] = content["lender"] + 1]
  BY DEF seedFaq, seedLender, seedExists, accountVars, AInv, RowsOK, Kinds
<1>3. Ids' = Ids
  BY <1>2 DEF Ids
<1>4. SeedOK'
  BY <1>1, <1>2, <1>3, SeedMoves DEF AInv
<1>5. content' \in [Kinds -> Nat]
  BY <1>2 DEF AInv, RowsOK, Kinds
<1> QED
  BY <1>2, <1>3, <1>4, <1>5, SeedKeeps DEF AInv, AccountsOK, RowsOK

(* The three outcomes of the upsert of a product of the list.              *)
LEMMA SeedProductEffect ==
  ASSUME AInv, seedProduct, NEW k, k = seed.at - 2
  PROVE  /\ k \in 1 .. L /\ seedName = SeedNames[k] /\ SeedNames[k] \in Names
         /\ seedCode[SeedNames[k]] \in Codes
         /\ Running /\ seed.at \in 3 .. L + 2
         /\ UNCHANGED <<accountVars, content, audit>>
         /\ \/ /\ Advance
               /\ products' = Append(products,
                    [name |-> SeedNames[k], code |-> seedCode[SeedNames[k]],
                     active |-> TRUE])
            \/ /\ Advance
               /\ \E i \in Ids :
                    /\ products[i].name = SeedNames[k]
                    /\ products' = [products EXCEPT ![i] =
                         [products[i] EXCEPT !.code = seedCode[SeedNames[k]]]]
            \/ Die /\ UNCHANGED products /\ Clash
<1>1. seed.at \in 3 .. L + 2 /\ L \in Nat /\ Running
  BY StepNumbers, StepsFacts DEF AInv, seedProduct, Step
<1>2. k \in 1 .. L /\ seedName = SeedNames[k]
  BY <1>1 DEF seedName
<1>3. SeedNames[k] \in Names /\ k \in DOMAIN SeedNames
  BY <1>2, RegistryAssumption DEF L
<1>4. seedCode[SeedNames[k]] \in Codes
  BY <1>3, RegistryAssumption
<1> DEFINE found == {i \in Ids : products[i].name = seedName}
           code == seedCode[seedName]
<1>5. \/ found = {} /\ Advance /\ products' = Append(products,
             [name |-> seedName, code |-> code, active |-> TRUE])
      \/ Advance /\ \E i \in found : products' = [products EXCEPT ![i] =
             [products[i] EXCEPT !.code = code]]
      \/ /\ Die /\ UNCHANGED products
         /\ \E i \in found \cup {0} : (found = {} <=> i = 0) /\ ~free(code, i)
  BY DEF seedProduct, seeded, AInv, RowsOK
<1>6. ASSUME NEW i \in found \cup {0}, found = {} <=> i = 0, ~free(code, i)
      PROVE  Clash
  <2>1. PICK j \in Ids : products[j].code = code /\ j # i
    BY <1>6 DEF free
  <2>2. CASE products[j].name # SeedNames[k]
    BY <1>2, <1>3, <2>1, <2>2 DEF Clash
  <2>3. CASE products[j].name = SeedNames[k]
    <3>1. j \in found
      BY <1>2, <2>3
    <3>2. i \in Ids \ {j} /\ products[i].name = SeedNames[k]
      BY <1>2, <1>6, <2>1, <3>1
    <3> QED
      BY <1>2, <1>3, <2>1, <3>2 DEF Clash
  <2> QED
    BY <2>2, <2>3
<1>7. UNCHANGED <<accountVars, content, audit>>
  BY DEF seedProduct
<1> QED
  BY <1>1, <1>2, <1>3, <1>4, <1>5, <1>6, <1>7

LEMMA SeedProductTypes ==
  ASSUME AInv, seedProduct
  PROVE  AInv' /\ Grows /\ UNCHANGED <<handler, audit>> /\ ActiveStays
<1> DEFINE k == seed.at - 2
           code == seedCode[SeedNames[k]]
           row == [name |-> SeedNames[k], code |-> code, active |-> TRUE]
<1>1. /\ SeedNames[k] \in Names /\ code \in Codes /\ Running
      /\ UNCHANGED <<staff, partners, tokens, handler, content, audit>>
      /\ \/ Advance /\ products' = Append(products, row)
         \/ Advance /\ \E i \in Ids : products' = [products EXCEPT ![i] =
                         [products[i] EXCEPT !.code = code]]
         \/ Die /\ UNCHANGED products
  BY SeedProductEffect DEF accountVars
<1> HIDE DEF k, code
<1>2. products' \in Seq(Product) /\ Ids \subseteq Ids' /\ ActiveStays
  <2>1. CASE products' = Append(products, row)
    <3>1. row \in Product /\ row.active = TRUE
      BY <1>1 DEF Product
    <3> DEFINE n == Len(products) + 1
    <3> HIDE DEF row, n
    <3>2. /\ products' \in Seq(Product) /\ Ids' = Ids \cup {n}
          /\ products'[n] = row
          /\ \A j \in Ids : products'[j] = products[j]
      BY <2>1, <3>1, RowAdded DEF AInv, n
    <3> QED
      BY <3>1, <3>2 DEF ActiveStays
  <2>2. ASSUME NEW i \in Ids,
               products' = [products EXCEPT ![i] =
                              [products[i] EXCEPT !.code = code]]
        PROVE  products' \in Seq(Product) /\ Ids \subseteq Ids' /\ ActiveStays
    <3> DEFINE new == [products[i] EXCEPT !.code = code]
    <3>1. new \in Product /\ new.active = products[i].active
      BY <1>1, RowFacts DEF AInv, Product
    <3> HIDE DEF new
    <3>2. /\ products' \in Seq(Product) /\ Ids' = Ids
          /\ \A j \in Ids : products'[j] = IF j = i THEN new ELSE products[j]
      BY <2>2, <3>1, RowEdited DEF AInv, new
    <3> QED
      BY <3>1, <3>2 DEF ActiveStays
  <2>3. CASE UNCHANGED products
    BY <2>3 DEF AInv, RowsOK, Ids, ActiveStays
  <2> QED
    BY <1>1, <2>1, <2>2, <2>3
<1>3. SeedOK'
  BY <1>1, SeedMoves DEF AInv
<1> QED
  BY <1>1, <1>2, <1>3, SeedKeeps DEF AInv, AccountsOK, RowsOK

LEMMA SeedLegacyTypes ==
  ASSUME AInv, seedLegacy
  PROVE  AInv' /\ Grows /\ UNCHANGED <<handler, audit>> /\ ActiveStays
<1>1. /\ Running /\ seed \in Run /\ seed.left \subseteq Ids
      /\ UNCHANGED <<staff, partners, tokens, handler, content, audit>>
  BY DEF seedLegacy, Step, accountVars, AInv, SeedOK
<1>2. CASE UNCHANGED products /\ (Advance \/ Die)
  <2>1. Ids' = Ids /\ ActiveStays
    BY <1>2 DEF Ids, ActiveStays
  <2>2. SeedOK'
    BY <1>1, <1>2, SeedMoves DEF AInv
  <2> QED
    BY <1>1, <1>2, <2>1, <2>2, SeedKeeps DEF AInv, AccountsOK, RowsOK
<1>3. CASE UNCHANGED products /\
           seed' = [seed EXCEPT !.creating = TRUE,
                      !.left = {i \in Ids : products[i].code = None}]
  <2>1. Ids' = Ids /\ ActiveStays
    BY <1>3 DEF Ids, ActiveStays
  <2>2. SeedOK'
    <3> DEFINE left == {i \in Ids : products[i].code = None}
    <3>1. left \subseteq Ids /\ Ids \subseteq Nat /\ Len(Steps)' = Len(Steps)
      BY RowFacts DEF AInv, Steps
    <3> HIDE DEF left
    <3> QED
      BY <1>1, <1>3, <2>1, <3>1 DEF AInv, SeedOK, Run, left
  <2> QED
    BY <1>1, <1>3, <2>1, <2>2, SeedKeeps DEF AInv, AccountsOK, RowsOK
<1>4. ASSUME NEW i \in seed.left, NEW code \in Codes,
             products' = [products EXCEPT ![i].code = code],
             seed' = [seed EXCEPT !.left = @ \ {i}]
      PROVE  AInv' /\ Grows /\ UNCHANGED <<handler, audit>> /\ ActiveStays
  <2> DEFINE new == [products[i] EXCEPT !.code = code]
  <2>1. i \in Ids /\ new \in Product /\ new.active = products[i].active
    BY <1>1, RowFacts DEF AInv, Product
  <2>2. products' = [products EXCEPT ![i] = new]
    BY <1>4
  <2> HIDE DEF new
  <2>3. /\ products' \in Seq(Product) /\ Ids' = Ids
        /\ \A j \in Ids : products'[j] = IF j = i THEN new ELSE products[j]
    BY <2>1, <2>2, RowEdited DEF AInv
  <2>4. ActiveStays
    BY <2>1, <2>3 DEF ActiveStays
  <2>5. SeedOK'
    BY <1>1, <1>4, <2>3 DEF AInv, SeedOK, Run, Steps
  <2> QED
    BY <1>1, <2>3, <2>4, <2>5, SeedKeeps DEF AInv, AccountsOK, RowsOK
<1>5. \A i \in seed.left : derived[products[i].name] \in Codes
  BY <1>1, RowFacts, RegistryAssumption DEF AInv, Product
<1> QED
  BY <1>2, <1>3, <1>4, <1>5 DEF seedLegacy

LEMMA SeedEdgeTypes ==
  ASSUME AInv, startSeed \/ killSeed
  PROVE  AInv' /\ Grows /\ UNCHANGED <<products, handler, audit>>
<1>1. UNCHANGED <<staff, partners, tokens, handler, products, content, audit>>
  BY DEF startSeed, killSeed, accountVars
<1>2. Ids' = Ids
  BY <1>1 DEF Ids
<1>3. SeedOK'
  <2>1. \E n \in {0, 1} : seed' = [at |-> n, creating |-> FALSE, left |-> {},
                                   outcome |-> "none"]
    BY DEF startSeed, killSeed, NotRunning
  <2>2. Len(Steps)' = L + 6 /\ L \in Nat
    BY StepsFacts DEF Steps
  <2> QED
    BY <2>1, <2>2 DEF SeedOK, Run, Outcomes
<1> QED
  BY <1>1, <1>2, <1>3, SeedKeeps DEF AInv, AccountsOK, RowsOK

LEMMA SeedTypes ==
  ASSUME AInv, Seed
  PROVE  /\ AInv' /\ Grows /\ UNCHANGED <<handler, audit>> /\ ActiveStays
         /\ UNCHANGED <<disturbed, cleared>>
<1>1. ASSUME UNCHANGED products PROVE ActiveStays
  BY <1>1 DEF ActiveStays, Ids
<1>2. UNCHANGED <<disturbed, cleared>>
  BY DEF Seed, startSeed, seedStaff, seedExists, seedProduct, seedLegacy,
         seedPartner, seedFaq, seedLender, killSeed
<1> QED
  BY <1>1, <1>2, SeedStaffTypes, SeedPartnerTypes, SeedContentTypes,
     SeedProductTypes, SeedLegacyTypes, SeedEdgeTypes DEF Seed

LEMMA InitTypes == Init => AInv
<1> SUFFICES ASSUME Init PROVE AInv
  OBVIOUS
<1>1. AccountsOK
  BY DEF Init, AccountsInit, AccountsOK
<1>2. HandlersOK
  BY DEF Init, AccountsInit, HandlersOK, HandlerState, Carries, Idle
<1>3. RowsOK
  <2>1. ASSUME NEW n \in Names
        PROVE  <<[name |-> n, code |-> None, active |-> TRUE]>> \in Seq(Product)
    <3>1. [name |-> n, code |-> None, active |-> TRUE] \in Product
      BY DEF Product
    <3> QED
      BY <3>1
  <2>2. << >> \in Seq(Product) /\ << >> \in Seq(AuditRow)
    OBVIOUS
  <2>3. products \in Seq(Product)
    BY <2>1, <2>2 DEF Init
  <2>4. audit = << >> /\ content \in [Kinds -> Nat]
    BY DEF Init
  <2> QED
    BY <2>2, <2>3, <2>4 DEF RowsOK
<1>4. SeedOK
  BY StepsFacts DEF Init, SeedOK, NotRunning, Run, Outcomes
<1> QED
  BY <1>1, <1>2, <1>3, <1>4 DEF AInv

LEMMA CatalogueTypes ==
  ASSUME AInv, NEW h \in Handlers, Catalogue(h)
  PROVE  AInv' /\ Grows
<1>1. ASSUME NEW kind \in Kinds, Brief(h, kind) PROVE AInv' /\ Grows
  BY <1>1, BriefTypes
<1>2. "faq" \in Kinds
  BY DEF Kinds
<1> QED
  BY <1>1, <1>2, CreateTypes, InsertTypes, UpdateTypes, SaveTypes, RecordTypes
  DEF Catalogue, Brief

LEMMA NextTypes ==
  ASSUME AInv, [Next]_allVars
  PROVE  AInv' /\ Grows
<1>1. CASE AccountsNext /\ UNCHANGED <<products, content, audit, seed>>
  BY <1>1, AccountsStep
<1>2. CASE \E h \in Handlers : Catalogue(h)
  BY <1>2, CatalogueTypes
<1>4. CASE stop
  BY <1>4, StopTypes
<1>5. CASE Seed
  BY <1>5, SeedTypes
<1>6. CASE UNCHANGED allVars
  <2>1. UNCHANGED <<staff, partners, tokens, handler, products, content, audit,
                    seed>>
    BY <1>6 DEF allVars, accountVars, registryVars
  <2>2. RowsOK' /\ Ids' = Ids /\ Grows
    BY <2>1 DEF AInv, RowsOK, Ids, Grows
  <2>3. HandlersOK'
    BY <2>1, <2>2, HandlersStay DEF AInv
  <2> QED
    BY <2>1, <2>2, <2>3, CatalogueKeeps
<1> QED
  BY <1>1, <1>2, <1>4, <1>5, <1>6 DEF Next, refuse

LEMMA AlwaysTyped == Spec => []AInv
<1>1. AInv /\ [Next]_allVars => AInv'
  BY NextTypes
<1> QED
  BY InitTypes, <1>1, PTL DEF Spec

(* Accounts, rows, requests in flight and the seed's run keep their shape  *)
(* (Accounts.tla, Registry.tla), whatever the administrators, the seed and *)
(* the people at the database do and in whatever order; and a token is     *)
(* held only for an account that was made and is still there.              *)
THEOREM TypeCorrect == Spec => []TypeOK
<1>1. AInv => TypeOK
  <2> SUFFICES ASSUME AInv PROVE TypeOK
    OBVIOUS
  <2>1. \A t \in tokens : IF t.role = "PARTNER" THEN partners[t.sub] # None
                          ELSE staff[t.sub] # None
    BY DEF AInv, AccountsOK, Holds
  <2> QED
    BY <2>1 DEF AInv, AccountsOK, HandlersOK, HandlerState, RowsOK, SeedOK,
               TypeOK
<1> QED
  BY AlwaysTyped, <1>1, PTL

-----------------------------------------------------------------------------
(* Authority *)

(* The requests that carry the address of an administrator.                *)
LEMMA WithActor ==
  ASSUME HandlersOK, NEW h \in Handlers, "actor" \in DOMAIN handler[h]
  PROVE  handler[h].pc \in {"admitted", "insert", "save", "record"}
BY DEF HandlersOK, HandlerState, Idle, Login, Admitted, Onboarding, Creating,
       Updating

LEMMA AuthorityStep ==
  ASSUME AInv, [Next]_allVars, NEW h \in Handlers, ~InFlight(h), InFlight(h)',
         "actor" \in DOMAIN handler'[h]
  PROVE  staff[handler'[h].actor] = [role |-> "ADMIN", active |-> TRUE]
<1>1. AInv' /\ handler[h].pc = "idle" /\ handler'[h] # handler[h]
  BY NextTypes, HandlerFacts DEF InFlight, AInv
<1>2. handler'[h].pc \in {"admitted", "insert", "save", "record"}
  BY <1>1, WithActor DEF AInv, HandlersOK, HandlerState, Idle, Login, Admitted,
     Onboarding, Creating, Updating
<1>3. CASE AccountsNext /\ UNCHANGED <<products, content, audit, seed>>
  BY <1>1, <1>2, <1>3, AccountsStep
<1>4. ASSUME NEW g \in Handlers, Catalogue(g) PROVE FALSE
  <2>1. ASSUME handler[g].pc \in {"admitted", "insert", "save", "record"},
               \A f \in Handlers : f # g => handler'[f] = handler[f]
        PROVE  FALSE
    BY <1>1, <2>1
  <2>2. ASSUME insert(g) \/ save(g) \/ record(g) PROVE FALSE
    BY <2>1, <2>2, InsertTypes, SaveTypes, RecordTypes
  <2>3. ASSUME NEW name \in Names, NEW given \in Codes \cup {None},
               create(g, name, given)
        PROVE  FALSE
    BY <2>1, <2>3, CreateTypes
  <2>4. ASSUME NEW i \in Ids, NEW dto \in Dtos, update(g, i, dto) PROVE FALSE
    BY <2>1, <2>4, UpdateTypes
  <2>5. ASSUME NEW kind \in Kinds, Brief(g, kind) PROVE FALSE
    BY <2>1, <2>5, BriefTypes
  <2>6. "faq" \in Kinds
    BY DEF Kinds
  <2> QED
    BY <1>4, <2>2, <2>3, <2>4, <2>5, <2>6 DEF Catalogue, Brief
<1>6. CASE stop
  BY <1>2, <1>6, StopTypes
<1>7. CASE Seed
  BY <1>1, <1>7, SeedTypes
<1>8. CASE UNCHANGED allVars
  BY <1>1, <1>8 DEF allVars, accountVars
<1> QED
  BY <1>3, <1>4, <1>6, <1>7, <1>8 DEF Next, refuse

(* A request that changes the catalogue is let through for someone who is, *)
(* at that moment, an active administrator (resolveSubject and RolesGuard, *)
(* auth.service.ts and common/guards): no token, however old and whatever  *)
(* role it names, gives more than the account is worth when it is used.    *)
THEOREM NoStaleAuthority == Spec => AuthorityIsCurrent
<1>1. AInv /\ [Next]_allVars =>
        \A h \in Handlers :
          ~InFlight(h) /\ InFlight(h)' /\ "actor" \in DOMAIN handler'[h] =>
            staff[handler'[h].actor] = [role |-> "ADMIN", active |-> TRUE]
  BY AuthorityStep
<1> QED
  BY AlwaysTyped, <1>1, PTL DEF Spec, AuthorityIsCurrent

-----------------------------------------------------------------------------
(* The audit trail *)

Editing == {"save", "record"}

LEMMA UpdatesFacts ==
  ASSUME HandlersOK, NEW i
  PROVE  Updates(i) =
           {h \in Handlers : handler[h].pc \in Editing /\ handler[h].id = i}
BY HandlerFacts DEF Updates, Editing, InFlight, Idle

LEMMA UpdatesNext ==
  ASSUME HandlersOK', NEW i
  PROVE  Updates(i)' =
           {h \in Handlers : handler'[h].pc \in Editing /\ handler'[h].id = i}
<1>1. \A h \in Handlers : handler'[h].pc \in Editing => InFlight(h)'
  BY DEF HandlersOK, InFlight, Editing, Idle
<1> QED
  BY <1>1 DEF Updates, Editing

LEMMA OtherUpdates ==
  ASSUME HandlersOK, HandlersOK', NEW i, NEW h \in Handlers,
         \A g \in Handlers : g # h => handler'[g] = handler[g],
         handler[h].pc \notin Editing \/ handler[h].id # i,
         handler'[h].pc \notin Editing \/ handler'[h].id # i
  PROVE  Updates(i)' = Updates(i)
<1>1. \A g \in Handlers :
        handler'[g].pc \in Editing /\ handler'[g].id = i
          <=> handler[g].pc \in Editing /\ handler[g].id = i
  OBVIOUS
<1> QED
  BY <1>1, UpdatesFacts, UpdatesNext

LEMMA OfFacts ==
  ASSUME audit \in Seq(AuditRow), NEW i, NEW action
  PROVE  IsFiniteSet(Of(i, action)) /\ Cardinality(Of(i, action)) \in Nat
<1>1. Of(i, action) \subseteq 1 .. Len(audit) /\ Len(audit) \in Nat
  BY DEF Of
<1>2. IsFiniteSet(1 .. Len(audit))
  BY <1>1, FS_Interval
<1>3. IsFiniteSet(Of(i, action))
  BY <1>1, <1>2, FS_Subset
<1>4. Cardinality(Of(i, action)) \in Nat
  BY <1>3, FS_CardinalityType
<1> QED
  BY <1>3, <1>4

(* One more row adds one to the count that it is for.                      *)
LEMMA OneMoreRow ==
  ASSUME audit \in Seq(AuditRow), NEW row \in AuditRow,
         audit' = Append(audit, row), NEW i, NEW action
  PROVE  Cardinality(Of(i, action)') = Cardinality(Of(i, action)) +
           IF row.targetId = i /\ row.action = action THEN 1 ELSE 0
<1> DEFINE n == Len(audit) + 1
           match == row.targetId = i /\ row.action = action
<1>1. /\ Len(audit) \in Nat /\ DOMAIN audit = 1 .. Len(audit)
      /\ audit' \in Seq(AuditRow) /\ DOMAIN audit' = 1 .. n /\ audit'[n] = row
      /\ \A m \in 1 .. Len(audit) : audit'[m] = audit[m]
  BY AppendProperties
<1>2. Of(i, action)' = Of(i, action) \cup {m \in {n} : match}
      /\ n \notin Of(i, action)
  <2>1. 1 .. n = (1 .. Len(audit)) \cup {n} /\ n \notin 1 .. Len(audit)
    BY <1>1
  <2>2. Of(i, action)' =
          {m \in 1 .. n : audit'[m].targetId = i /\ audit'[m].action = action}
    BY <1>1 DEF Of
  <2>3. Of(i, action) = {m \in 1 .. Len(audit) :
                           audit[m].targetId = i /\ audit[m].action = action}
    BY <1>1 DEF Of
  <2> QED
    BY <1>1, <2>1, <2>2, <2>3
<1>3. IsFiniteSet(Of(i, action)) /\ Cardinality(Of(i, action)) \in Nat
  BY OfFacts
<1> HIDE DEF n, match
<1>4. CASE match
  <2>1. Of(i, action)' = Of(i, action) \cup {n}
    BY <1>2, <1>4
  <2>2. Cardinality(Of(i, action) \cup {n}) = Cardinality(Of(i, action)) + 1
    BY <1>2, <1>3, FS_AddElement
  <2> QED
    BY <1>4, <2>1, <2>2 DEF match
<1>5. CASE ~match
  <2>1. Of(i, action)' = Of(i, action)
    BY <1>2, <1>5
  <2>2. Cardinality(Of(i, action)') = Cardinality(Of(i, action)) + 0
    BY <1>3, <2>1
  <2> QED
    BY <1>5, <2>2 DEF match
<1> QED
  BY <1>4, <1>5

(* What a step that touches neither an update nor the trail leaves         *)
(* explained.                                                              *)
LEMMA TrailStays ==
  ASSUME AInv, AInv', Trail, UNCHANGED audit, Ids \subseteq Ids', ActiveStays,
         disturbed \subseteq disturbed', cleared \subseteq cleared',
         \A h \in Handlers :
           \/ handler'[h] = handler[h]
           \/ handler[h].pc \notin Editing /\ handler'[h].pc \notin Editing
  PROVE  Trail'
<1> SUFFICES ASSUME NEW i \in Ids' \ disturbed' PROVE Explained(i)'
  BY DEF Trail
<1>1. Updates(i)' = Updates(i)
  BY UpdatesFacts DEF AInv, HandlersOK, Updates, Editing, InFlight
<1>2. Down(i)' = Down(i)
  BY DEF Down, Of
<1>3. \A h \in Updates(i) : handler'[h] = handler[h]
  BY UpdatesFacts DEF AInv
<1>4. CASE i \in Ids
  <2>1. Explained(i) /\ products'[i].active = products[i].active
    BY <1>4 DEF Trail, ActiveStays
  <2> QED
    BY <1>1, <1>2, <1>3, <2>1 DEF Explained, Owed
<1>5. CASE i \notin Ids
  <2>1. ASSUME NEW h \in Updates(i) PROVE FALSE
    <3>1. h \in Handlers /\ handler[h].pc \in Editing /\ handler[h].id = i
      BY UpdatesFacts DEF AInv
    <3>2. handler[h].id \in Ids
      BY <3>1 DEF AInv, HandlersOK, Carries, Editing
    <3> QED
      BY <1>5, <3>1, <3>2
  <2>2. Of(i, "ProductDeactivated") = {} /\ Of(i, "ProductActivated") = {}
    BY <1>5 DEF AInv, RowsOK, Of
  <2>3. Cardinality({}) = 0
    BY FS_EmptySet
  <2>4. Down(i) = 0
    BY <2>2, <2>3 DEF Down
  <2>5. products'[i].active = TRUE
    BY <1>5 DEF ActiveStays
  <2> QED
    BY <1>1, <1>2, <2>1, <2>4, <2>5 DEF Explained, Owed
<1> QED
  BY <1>4, <1>5

(* An update that begins: another one on the same product disturbs it.     *)
LEMMA TrailUpdate ==
  ASSUME AInv, Trail, NEW h \in Handlers, NEW i0 \in Ids, NEW dto \in Dtos,
         update(h, i0, dto)
  PROVE  Trail'
<1>1. /\ AInv' /\ handler[h].pc = "admitted"
      /\ handler'[h].pc = "save" /\ handler'[h].id = i0
      /\ handler'[h].seen = products[i0]
      /\ \A g \in Handlers : g # h => handler'[g] = handler[g]
  <2>1. /\ AInv' /\ handler[h].pc = "admitted"
        /\ handler'[h] = [pc |-> "save", id |-> i0, dto |-> dto,
                          seen |-> products[i0], actor |-> handler[h].actor]
        /\ \A g \in Handlers : g # h => handler'[g] = handler[g]
    BY UpdateTypes
  <2> QED
    BY <2>1
<1>2. /\ UNCHANGED <<products, audit, cleared>>
      /\ disturbed' = disturbed \cup {j \in {i0} : Updates(i0) # {}}
  BY DEF update
<1> SUFFICES ASSUME NEW i \in Ids' \ disturbed' PROVE Explained(i)'
  BY DEF Trail
<1>3. Explained(i) /\ Down(i)' = Down(i)
  BY <1>2 DEF Trail, Ids, Down, Of
<1>4. CASE i # i0
  <2>1. Updates(i)' = Updates(i)
    BY <1>1, <1>4, OtherUpdates DEF AInv, Editing
  <2>2. \A g \in Updates(i) : handler'[g] = handler[g]
    BY <1>1, UpdatesFacts DEF AInv, Editing
  <2> QED
    BY <1>2, <1>3, <2>1, <2>2 DEF Explained, Owed
<1>5. CASE i = i0
  <2>1. Updates(i) = {}
    BY <1>2, <1>5
  <2>2. \A g \in Updates(i)' : g = h
    BY <1>1, <2>1, UpdatesFacts, UpdatesNext DEF AInv
  <2> QED
    BY <1>1, <1>2, <1>3, <1>5, <2>1, <2>2 DEF Explained, Owed
<1> QED
  BY <1>4, <1>5

LEMMA TrailSave ==
  ASSUME AInv, Trail, NEW h \in Handlers, save(h)
  PROVE  Trail'
<1> DEFINE b == handler[h]
           i0 == b.id
<1>1. PICK stored \in BOOLEAN :
        /\ \A j \in Ids : j # i0 \/ ~stored => products'[j] = products[j]
        /\ stored => products'[i0].active = IF b.dto.active = b.seen.active
                                           THEN products[i0].active
                                           ELSE b.dto.active
        /\ cleared' = cleared \cup {i \in {i0} : stored /\ b.dto.active = None}
        /\ IF stored /\ Toggles(b) THEN handler'[h] = [b EXCEPT !.pc = "record"]
           ELSE handler'[h] = Idle
  BY SaveTypes
<1>2. /\ AInv' /\ Ids' = Ids /\ b.pc = "save" /\ i0 \in Ids /\ b \in Updating
      /\ \A g \in Handlers : g # h => handler'[g] = handler[g]
  BY SaveTypes
<1>3. UNCHANGED <<audit, disturbed>>
  BY DEF save
<1>4. IF stored /\ Toggles(b)
      THEN handler'[h].pc = "record" /\ handler'[h].id = i0
           /\ handler'[h].dto = b.dto
      ELSE handler'[h].pc = "idle"
  BY <1>1, <1>2 DEF Updating, Idle
<1> SUFFICES ASSUME NEW i \in Ids' \ disturbed' PROVE Explained(i)'
  BY DEF Trail
<1>5. Explained(i) /\ Down(i)' = Down(i)
  BY <1>2, <1>3 DEF Trail, Down, Of
<1> HIDE DEF b, i0
<1>6. CASE i # i0
  <2>1. Updates(i)' = Updates(i)
    BY <1>2, <1>4, <1>6, OtherUpdates DEF AInv, Editing, b, i0
  <2>2. \A g \in Updates(i) : handler'[g] = handler[g]
    BY <1>2, <1>6, UpdatesFacts DEF AInv, b, i0
  <2>3. products'[i] = products[i] /\ (i \notin cleared' => i \notin cleared)
    BY <1>1, <1>2, <1>6
  <2> QED
    BY <1>5, <2>1, <2>2, <2>3 DEF Explained, Owed
<1>7. CASE i = i0
  <2>1. h \in Updates(i)
    BY <1>2, <1>7, UpdatesFacts DEF AInv, Editing, b, i0
  <2>2. Updates(i) = {h}
    BY <1>5, <2>1 DEF Explained
  <2>3. Updates(i)' = {g \in {h} : stored /\ Toggles(b)}
    BY <1>2, <1>4, <1>7, <2>2, UpdatesFacts, UpdatesNext
    DEF AInv, Editing, b, i0
  <2>4. \A f, g \in Updates(i)' : f = g
    BY <2>3
  <2>5. ASSUME i \notin cleared'
        PROVE  products'[i].active \in BOOLEAN /\ Owed(i)'
    <3>1. /\ products[i].active \in BOOLEAN
          /\ b.seen.active = products[i].active
          /\ Down(i) = IF products[i].active THEN 0 ELSE 1
      BY <1>1, <1>2, <1>5, <2>2, <2>5 DEF Explained, Owed, b
    <3>2. CASE ~stored
      BY <1>1, <1>2, <1>5, <1>7, <2>3, <3>1, <3>2 DEF Owed
    <3>3. CASE stored
      <4>1. b.dto.active \in BOOLEAN /\ b.dto.active # None
        BY <1>1, <1>2, <1>7, <2>5, <3>3 DEF Updating, Dto
      <4>2. products'[i].active = b.dto.active
        BY <1>1, <1>7, <3>1, <3>3
      <4>3. Toggles(b) <=> b.dto.active # products[i].active
        BY <3>1, <4>1, RegistryAssumption DEF Toggles, wasActive, Field
      <4>4. CASE Toggles(b)
        <5>1. h \in Updates(i)' /\ handler'[h].pc = "record"
              /\ handler'[h].dto.active = products'[i].active
          BY <1>4, <2>3, <3>3, <4>2, <4>4
        <5>2. Down(i)' = IF products'[i].active THEN 1 ELSE 0
          BY <1>5, <3>1, <4>1, <4>2, <4>3, <4>4
        <5> QED
          BY <4>1, <4>2, <5>1, <5>2 DEF Owed
      <4>5. CASE ~Toggles(b)
        BY <1>5, <2>3, <3>1, <4>1, <4>2, <4>3, <4>5 DEF Owed
      <4> QED
        BY <4>4, <4>5
    <3> QED
      BY <3>2, <3>3
  <2> QED
    BY <2>4, <2>5 DEF Explained
<1> QED
  BY <1>6, <1>7

LEMMA TrailRecord ==
  ASSUME AInv, Trail, NEW h \in Handlers, record(h)
  PROVE  Trail'
<1> DEFINE b == handler[h]
           i0 == b.id
           row == auditRow(b)
<1>1. /\ AInv' /\ Ids' = Ids /\ b.pc = "record" /\ b \in Updating
      /\ i0 \in Ids /\ handler'[h].pc = "idle"
      /\ \A g \in Handlers : g # h => handler'[g] = handler[g]
      /\ audit \in Seq(AuditRow) /\ audit' = Append(audit, row)
      /\ row \in AuditRow
  BY RecordTypes DEF Idle
<1>2. UNCHANGED <<products, disturbed, cleared>>
  BY DEF record
<1>3. /\ row.targetId = i0
      /\ row.action = IF b.dto.active THEN "ProductActivated"
                      ELSE "ProductDeactivated"
  BY DEF auditRow
<1> SUFFICES ASSUME NEW i \in Ids' \ disturbed' PROVE Explained(i)'
  BY DEF Trail
<1>4. Explained(i)
  BY <1>1, <1>2 DEF Trail
<1> HIDE DEF b, i0, row
<1>5. \A action \in {"ProductActivated", "ProductDeactivated"} :
        /\ Cardinality(Of(i, action)) \in Nat
        /\ Cardinality(Of(i, action)') = Cardinality(Of(i, action)) +
             IF row.targetId = i /\ row.action = action THEN 1 ELSE 0
  BY <1>1, OfFacts, OneMoreRow
<1>6. /\ Of(i, "ProductActivated")' = {n \in DOMAIN audit' :
            audit'[n].targetId = i /\ audit'[n].action = "ProductActivated"}
      /\ Of(i, "ProductDeactivated")' = {n \in DOMAIN audit' :
            audit'[n].targetId = i /\ audit'[n].action = "ProductDeactivated"}
  BY DEF Of
<1>7. Down(i)' = Down(i) +
        IF i # i0 THEN 0 ELSE IF b.dto.active THEN 0 - 1 ELSE 1
  BY <1>3, <1>5 DEF Down
<1>8. CASE i # i0
  <2>1. Updates(i)' = Updates(i)
    BY <1>1, <1>8, OtherUpdates DEF AInv, Editing, b, i0
  <2>2. \A g \in Updates(i) : handler'[g] = handler[g]
    BY <1>1, <1>8, UpdatesFacts DEF AInv, b, i0
  <2>3. Down(i)' = Down(i)
    BY <1>5, <1>7, <1>8 DEF Down
  <2> QED
    BY <1>2, <1>4, <2>1, <2>2, <2>3 DEF Explained, Owed
<1>9. CASE i = i0
  <2>1. h \in Updates(i)
    BY <1>1, <1>9, UpdatesFacts DEF AInv, Editing, b, i0
  <2>2. Updates(i) = {h}
    BY <1>4, <2>1 DEF Explained
  <2>3. Updates(i)' = {}
    BY <1>1, <1>9, <2>2, UpdatesFacts, UpdatesNext
    DEF AInv, Editing, b, i0
  <2>4. ASSUME i \notin cleared
        PROVE  products[i].active \in BOOLEAN
               /\ Down(i)' = IF products[i].active THEN 0 ELSE 1
    <3>1. /\ products[i].active \in BOOLEAN /\ b.dto.active = products[i].active
          /\ Down(i) = IF products[i].active THEN 1 ELSE 0
      BY <1>1, <1>4, <2>2, <2>4 DEF Explained, Owed, b
    <3> QED
      BY <1>7, <1>9, <3>1
  <2> QED
    BY <1>2, <2>3, <2>4 DEF Explained, Owed
<1> QED
  BY <1>8, <1>9

LEMMA TrailStop ==
  ASSUME AInv, Trail, stop
  PROVE  Trail'
<1>1. AInv' /\ \A h \in Handlers : handler'[h].pc = "idle"
  BY StopTypes
<1>2. /\ UNCHANGED <<products, audit, cleared>>
      /\ disturbed' = disturbed \cup
           {i \in Ids : \E h \in Updates(i) : handler[h].pc = "record"}
  BY DEF stop
<1> SUFFICES ASSUME NEW i \in Ids' \ disturbed' PROVE Explained(i)'
  BY DEF Trail
<1>3. Explained(i) /\ Down(i)' = Down(i)
  BY <1>2 DEF Trail, Ids, Down, Of
<1>4. \A h \in Updates(i) : handler[h].pc # "record"
  BY <1>2 DEF Ids
<1>5. Updates(i)' = {}
  BY <1>1, UpdatesNext DEF AInv, Editing
<1> QED
  BY <1>2, <1>3, <1>4, <1>5 DEF Explained, Owed

(* A row is added visible: the product of the form, or nothing.            *)
LEMMA TrailInsert ==
  ASSUME AInv, Trail, NEW h \in Handlers, insert(h)
  PROVE  Trail'
<1> DEFINE p == handler[h].product
           n == Len(products) + 1
<1>1. /\ AInv' /\ p \in Product /\ p.active = TRUE
      /\ handler[h].pc = "insert" /\ handler'[h].pc = "idle"
      /\ \A g \in Handlers : g # h => handler'[g] = handler[g]
  BY InsertTypes
<1>2. /\ products' = IF free(p.code, 0) THEN Append(products, p) ELSE products
      /\ UNCHANGED <<audit, disturbed, cleared>>
  BY DEF insert
<1> HIDE DEF p, n
<1>3. Ids \subseteq Ids' /\ ActiveStays
  <2>1. CASE products' = Append(products, p)
    <3>1. Ids' = Ids \cup {n} /\ products'[n] = p
          /\ \A j \in Ids : products'[j] = products[j]
      BY <1>1, <2>1, RowAdded DEF AInv, n
    <3> QED
      BY <1>1, <3>1 DEF ActiveStays
  <2>2. CASE products' = products
    BY <2>2 DEF ActiveStays, Ids
  <2> QED
    BY <1>2, <2>1, <2>2
<1>4. \A g \in Handlers :
        \/ handler'[g] = handler[g]
        \/ handler[g].pc \notin Editing /\ handler'[g].pc \notin Editing
  BY <1>1 DEF Editing
<1> QED
  BY <1>1, <1>2, <1>3, <1>4, TrailStays

LEMMA TrailStep ==
  ASSUME AInv, Trail, [Next]_allVars
  PROVE  Trail'
<1>1. AInv' /\ Grows
  BY NextTypes
<1>2. ASSUME UNCHANGED <<products, audit, disturbed, cleared>>,
             \A h \in Handlers :
               \/ handler'[h] = handler[h]
               \/ handler[h].pc \notin Editing /\ handler'[h].pc \notin Editing
      PROVE  Trail'
  <2>1. ActiveStays /\ Ids \subseteq Ids'
    BY <1>2 DEF ActiveStays, Ids
  <2> QED
    BY <1>1, <1>2, <2>1, TrailStays
<1>3. CASE AccountsNext /\ UNCHANGED <<products, content, audit, seed, runs,
                                      disturbed, cleared>>
  <2>1. \A h \in Handlers :
          /\ handler'[h].pc \notin Editing \/ handler'[h] = handler[h]
          /\ handler[h].pc \in Editing => handler'[h] = handler[h]
    BY <1>3, AccountsStep DEF Editing
  <2> QED
    BY <1>2, <1>3, <2>1
<1>4. ASSUME NEW h \in Handlers, Catalogue(h) PROVE Trail'
  <2>1. ASSUME UNCHANGED <<products, audit, disturbed, cleared>>,
               handler[h].pc = "admitted",
               handler'[h].pc \in {"insert", "idle"},
               \A g \in Handlers : g # h => handler'[g] = handler[g]
        PROVE  Trail'
    <3>1. \A g \in Handlers :
            \/ handler'[g] = handler[g]
            \/ handler[g].pc \notin Editing /\ handler'[g].pc \notin Editing
      BY <2>1 DEF Editing
    <3> QED
      BY <1>2, <2>1, <3>1
  <2>2. ASSUME NEW name \in Names, NEW given \in Codes \cup {None},
               create(h, name, given)
        PROVE  Trail'
    <3>1. UNCHANGED <<products, audit, disturbed, cleared>>
      BY <2>2 DEF create, registryVars
    <3> QED
      BY <2>1, <2>2, <3>1, CreateTypes
  <2>3. ASSUME NEW kind \in Kinds, Brief(h, kind) PROVE Trail'
    <3>1. UNCHANGED <<products, audit, disturbed, cleared>>
      BY <2>3 DEF Brief, createContent, removeContent, notFound, registryVars
    <3> QED
      BY <2>1, <2>3, <3>1, BriefTypes
  <2>4. "faq" \in Kinds
    BY DEF Kinds
  <2> QED
    BY <1>4, <2>2, <2>3, <2>4, TrailUpdate, TrailInsert, TrailSave, TrailRecord
    DEF Catalogue, Brief
<1>6. CASE stop
  BY <1>6, TrailStop
<1>7. CASE Seed
  <2>1. /\ UNCHANGED <<handler, audit, disturbed, cleared>> /\ ActiveStays
        /\ Ids \subseteq Ids'
    BY <1>7, SeedTypes DEF Grows
  <2> QED
    BY <1>1, <2>1, TrailStays
<1>8. CASE UNCHANGED allVars
  BY <1>2, <1>8 DEF allVars, accountVars, registryVars
<1> QED
  BY <1>3, <1>4, <1>6, <1>7, <1>8 DEF Next, refuse

LEMMA TrailInit == Init => Trail
<1> SUFFICES ASSUME Init, NEW i \in Ids PROVE Explained(i)
  BY DEF Trail
<1>1. products[i].active = TRUE
  BY DEF Init, Ids
<1>2. Updates(i) = {}
  BY DEF Init, AccountsInit, Updates, InFlight
<1>3. Of(i, "ProductDeactivated") = {} /\ Of(i, "ProductActivated") = {}
  BY DEF Init, Of
<1>4. Cardinality({}) = 0
  BY FS_EmptySet
<1>5. Down(i) = 0
  BY <1>3, <1>4 DEF Down
<1> QED
  BY <1>1, <1>2, <1>5 DEF Explained, Owed

(* What customers see of the catalogue is what the audit trail says        *)
(* (catalogue.service.ts, update and its "ProductActivated" and            *)
(* "ProductDeactivated" rows): a product with no update under way is       *)
(* hidden if and only if its deactivations are one more than its           *)
(* activations, unless two updates of it overlapped, one was lost between  *)
(* its row and its audit row, or one unset the flag.                       *)
THEOREM CatalogueIsExplained == Spec => []ActivityAudited
<1>1. AInv /\ Trail => ActivityAudited
  <2> SUFFICES ASSUME AInv, Trail, NEW i \in Ids \ (disturbed \cup cleared),
                      Updates(i) = {}
               PROVE  Down(i) = IF i \in listActive THEN 0 ELSE 1
    BY DEF ActivityAudited, Times, Down, Of
  <2>1. products[i].active \in BOOLEAN /\ Owed(i)
    BY DEF Trail, Explained
  <2> QED
    BY <2>1 DEF Owed, listActive
<1>2. AInv /\ Trail /\ [Next]_allVars => Trail'
  BY TrailStep
<1> QED
  BY AlwaysTyped, TrailInit, <1>1, <1>2, PTL DEF Spec

-----------------------------------------------------------------------------
(* What the seed leaves *)

LEMMA RunningNext == Running' <=> seed'.at \in 1 .. L + 6
<1>1. DOMAIN Steps = 1 .. L + 6
  BY StepsFacts
<1> QED
  BY <1>1 DEF Running, Steps

(* What a step of anyone else leaves.                                      *)
LEMMA DoneStays ==
  ASSUME Done, Grows, UNCHANGED seed,
         quiet' => quiet /\ UNCHANGED <<staff, partners, products, content>>
  PROVE  Done'
<1>1. Running' = Running
  BY DEF Running, Steps
<1>2. AccountsThere'
  BY RegistryAssumption DEF Done, AccountsThere, Grows, L
<1>3. quiet' => Undisturbed'
  <2> SUFFICES ASSUME quiet' PROVE Undisturbed'
    OBVIOUS
  <2>1. Undisturbed /\ UNCHANGED <<staff, partners, products, content, seed>>
    BY DEF Done
  <2>2. Ids' = Ids /\ seedEmail' = seedEmail
    BY <2>1 DEF Ids, seedEmail, Steps
  <2>3. Clash' = Clash
    BY <2>1 DEF Clash, Ids
  <2>4. \A k \in 1 .. L : Listed(k)' = Listed(k)
    BY <2>1 DEF Listed, Ids
  <2>5. L' = L
    BY DEF L
  <2> QED
    BY <2>1, <2>2, <2>3, <2>4, <2>5 DEF Undisturbed
<1> QED
  BY <1>1, <1>2, <1>3 DEF Done, L

(* The seed gives up, or is stopped.                                       *)
LEMMA DoneEnds ==
  ASSUME seed'.at = 0, ~seed'.creating, seed'.left = {},
         seed'.outcome \in {"none", "error"},
         seed'.outcome = "error" /\ quiet' => Clash'
  PROVE  Done'
<1>1. ~Running' /\ L \in Nat /\ L' = L
  BY RunningNext, StepsFacts DEF L
<1>2. AccountsThere'
  BY <1>1 DEF AccountsThere
<1>3. quiet' => Undisturbed'
  BY <1>1 DEF Undisturbed
<1> QED
  BY <1>1, <1>2, <1>3 DEF Done

(* A step of the seed that is not its end.                                 *)
LEMMA DoneAdvances ==
  ASSUME AInv, Done, Running, Advance, AccountsThere',
         quiet' =>
           /\ \A k \in 1 .. L : seed.at + 1 > k + 2 => Listed(k)'
           /\ seed.at + 1 > L + 3 => \A i \in Ids' : products'[i].code # None
           /\ seed.at + 1 > L + 5 => content'["faq"] > 0
           /\ seed.at + 1 > L + 6 => content'["lender"] > 0
  PROVE  Done'
<1>1. /\ seed'.at = seed.at + 1 /\ ~seed'.creating /\ seed'.left = {}
      /\ seed'.outcome = IF seed.at = L + 6 THEN "done" ELSE "none"
  BY SeedMoves DEF AInv
<1>2. /\ L \in Nat /\ L' = L /\ seed.at \in 1 .. L + 6
      /\ (Running' <=> seed'.at \in 1 .. L + 6)
  BY StepsFacts, StepNumbers, RunningNext DEF AInv, L
<1>3. quiet' => Undisturbed'
  BY <1>1, <1>2 DEF Undisturbed
<1> QED
  BY <1>1, <1>2, <1>3 DEF Done

(* A step that found nothing and goes on to create.                        *)
LEMMA DoneCreates ==
  ASSUME AInv, Done, Running, seed' = [seed EXCEPT !.creating = TRUE],
         UNCHANGED <<staff, partners, products, content, quiet>>,
         seed.at # L + 3,
         seed.at \in {1, 2} => staff[seedEmail] = None,
         seed.at = L + 4 => partners[DemoPartner] = None
  PROVE  Done'
<1>1. /\ seed'.at = seed.at /\ seed'.creating
      /\ seed'.left = seed.left /\ seed'.outcome = seed.outcome
  BY SeedMoves DEF AInv
<1>2. /\ L \in Nat /\ L' = L /\ Running' /\ Ids' = Ids
      /\ seedEmail' = seedEmail
  BY <1>1, StepsFacts DEF Running, Steps, L, Ids, seedEmail
<1>3. AccountsThere'
  BY <1>1, <1>2 DEF Done, AccountsThere
<1>4. quiet' => Undisturbed'
  <2> SUFFICES ASSUME quiet' PROVE Undisturbed'
    OBVIOUS
  <2>1. Undisturbed /\ seed.outcome = "none"
    BY DEF Done
  <2>2. \A k \in 1 .. L : Listed(k)' = Listed(k)
    BY <1>2 DEF Listed
  <2> QED
    BY <1>1, <1>2, <2>1, <2>2 DEF Undisturbed
<1> QED
  BY <1>1, <1>2, <1>3, <1>4 DEF Done

LEMMA DoneStaff ==
  ASSUME AInv, Done, seedStaff
  PROVE  Done'
<1>1. /\ Running /\ seed.at \in {1, 2} /\ L \in Nat /\ L' = L
      /\ (Step("admin") <=> seed.at = 1) /\ (Step("officer") <=> seed.at = 2)
  BY StepNumbers, StepsFacts DEF AInv, seedStaff, Step, L
<1>2. seedEmail = IF seed.at = 1 THEN AdminEmail ELSE OfficerEmail
  BY <1>1 DEF Step, seedEmail
<1>3. UNCHANGED <<partners, products, content, quiet>> /\ Grows
  BY SeedStaffTypes DEF seedStaff, seedExists, accountVars
<1>4. ASSUME Advance, staff'[seedEmail] # None PROVE Done'
  <2>1. seed'.at = seed.at + 1
    BY <1>1, <1>4, SeedMoves DEF AInv
  <2>2. seed'.at > 2 => staff'[AdminEmail] # None
    BY <1>1, <1>3, <2>1, RegistryAssumption DEF Done, AccountsThere, Grows
  <2>3. AccountsThere'
    BY <1>1, <1>2, <1>4, <2>1, <2>2 DEF AccountsThere
  <2> QED
    BY <1>1, <1>4, <2>3, DoneAdvances
<1>5. CASE ~seed.creating /\ staff[seedEmail] # None /\ Advance
           /\ UNCHANGED staff
  BY <1>4, <1>5
<1>6. CASE /\ ~seed.creating /\ staff[seedEmail] = None /\ UNCHANGED staff
           /\ seed' = [seed EXCEPT !.creating = TRUE]
  BY <1>1, <1>3, <1>6, DoneCreates
<1>7. CASE seed.creating /\ staff[seedEmail] # None /\ Die
  <2>1. ~quiet
    BY <1>1, <1>7 DEF Done, Undisturbed
  <2>2. /\ seed'.at = 0 /\ ~seed'.creating /\ seed'.left = {}
        /\ seed'.outcome = "error"
    BY <1>7, SeedMoves DEF AInv
  <2> QED
    BY <1>3, <2>1, <2>2, DoneEnds
<1>8. ASSUME Advance, NEW account \in StaffAccount,
             staff' = [staff EXCEPT ![seedEmail] = account]
      PROVE  Done'
  <2>1. staff'[seedEmail] = account
    BY <1>8, SeedStaffTypes DEF AInv, AccountsOK
  <2> QED
    BY <1>4, <1>8, <2>1, NoneAssumption
<1>9. \A role \in StaffRoles : [role |-> role, active |-> TRUE] \in StaffAccount
  BY DEF StaffAccount
<1>10. (IF Step("admin") THEN "ADMIN" ELSE "STAFF") \in StaffRoles
  BY DEF StaffRoles
<1> QED
  BY <1>5, <1>6, <1>7, <1>8, <1>9, <1>10 DEF seedStaff, seedExists, accountVars

(* Rows that keep what the seed has listed.                                *)
LEMMA ListedStays ==
  ASSUME RowsOK, NEW k \in 1 .. L, Listed(k), Ids \subseteq Ids',
         \A i \in Ids :
           /\ products[i].name = SeedNames[k]
           /\ products[i].code = seedCode[SeedNames[k]]
           => /\ products'[i].name = products[i].name
              /\ products'[i].code = products[i].code
  PROVE  Listed(k)'
BY DEF Listed

LEMMA DoneProduct ==
  ASSUME AInv, Done, seedProduct
  PROVE  Done'
<1>0. PICK n : n = seed.at - 2
  OBVIOUS
<1> DEFINE row == [name |-> SeedNames[n], code |-> seedCode[SeedNames[n]],
                   active |-> TRUE]
<1>1. /\ n \in 1 .. L /\ SeedNames[n] \in Names
      /\ seedCode[SeedNames[n]] \in Codes
      /\ Running /\ seed.at \in 3 .. L + 2
      /\ UNCHANGED <<staff, partners, content>>
      /\ \/ Advance /\ products' = Append(products, row)
         \/ /\ Advance
            /\ \E i \in Ids :
                 /\ products[i].name = SeedNames[n]
                 /\ products' = [products EXCEPT ![i] =
                      [products[i] EXCEPT !.code = seedCode[SeedNames[n]]]]
         \/ Die /\ UNCHANGED products /\ Clash
  BY <1>0, SeedProductEffect DEF accountVars
<1>2. quiet' = quiet /\ Grows /\ L \in Nat /\ L' = L
  BY SeedProductTypes, StepsFacts DEF seedProduct, L
<1>3. seed.at + 1 = n + 3
  BY <1>0, <1>1
<1>4. ASSUME Advance, quiet' => \A k \in 1 .. L : k <= n => Listed(k)'
      PROVE  Done'
  <2>1. seed'.at = seed.at + 1
    BY <1>1, <1>4, SeedMoves DEF AInv
  <2>2. AccountsThere'
    BY <1>1, <1>2, <2>1 DEF Done, AccountsThere
  <2>3. /\ \A k \in 1 .. L : seed.at + 1 > k + 2 => k <= n
        /\ ~(seed.at + 1 > L + 3) /\ ~(seed.at + 1 > L + 5)
        /\ ~(seed.at + 1 > L + 6)
    BY <1>1, <1>2, <1>3
  <2> QED
    BY <1>1, <1>4, <2>2, <2>3, DoneAdvances
<1>5. quiet => \A k \in 1 .. L : k < n => Listed(k)
  BY <1>1, <1>3 DEF Done, Undisturbed, AInv, SeedOK, Run
<1>6. CASE Advance /\ products' = Append(products, row)
  <2>1. row \in Product
    BY <1>1 DEF Product
  <2> DEFINE id == Len(products) + 1
  <2> HIDE DEF id
  <2>2. /\ Ids' = Ids \cup {id} /\ products'[id] = row
        /\ \A j \in Ids : products'[j] = products[j]
    BY <1>6, <2>1, RowAdded DEF AInv, id
  <2>3. Listed(n)'
    BY <2>2 DEF Listed
  <2>4. ASSUME quiet, NEW k \in 1 .. L, k < n PROVE Listed(k)'
    BY <1>5, <2>2, <2>4, ListedStays DEF AInv
  <2>5. \A k \in 1 .. L : k <= n => k < n \/ k = n
    BY <1>1
  <2> QED
    BY <1>2, <1>4, <1>6, <2>3, <2>4, <2>5
<1>7. ASSUME Advance, NEW i \in Ids, products[i].name = SeedNames[n],
             products' = [products EXCEPT ![i] =
                           [products[i] EXCEPT !.code = seedCode[SeedNames[n]]]]
      PROVE  Done'
  <2> DEFINE new == [products[i] EXCEPT !.code = seedCode[SeedNames[n]]]
  <2>1. /\ new \in Product /\ new.name = SeedNames[n]
        /\ new.code = seedCode[SeedNames[n]]
    BY <1>1, <1>7, RowFacts DEF AInv, Product
  <2> HIDE DEF new
  <2>2. /\ Ids' = Ids
        /\ \A j \in Ids : products'[j] = IF j = i THEN new ELSE products[j]
    BY <1>7, <2>1, RowEdited DEF AInv, new
  <2>3. Listed(n)'
    BY <2>1, <2>2 DEF Listed
  <2>4. ASSUME quiet, NEW k \in 1 .. L, k < n PROVE Listed(k)'
    <3>1. Listed(k)
      BY <1>5, <2>4
    <3>2. \A j \in Ids : products[j].name = SeedNames[k]
              /\ products[j].code = seedCode[SeedNames[k]]
            => /\ products'[j].name = products[j].name
               /\ products'[j].code = products[j].code
      BY <1>7, <2>1, <2>2
    <3> QED
      BY <2>2, <3>1, <3>2, ListedStays DEF AInv
  <2>5. \A k \in 1 .. L : k <= n => k < n \/ k = n
    BY <1>1
  <2> QED
    BY <1>2, <1>4, <1>7, <2>3, <2>4, <2>5
<1>8. CASE Die /\ UNCHANGED products /\ Clash
  <2>1. Clash'
    BY <1>8 DEF Clash, Ids
  <2>2. /\ seed'.at = 0 /\ ~seed'.creating /\ seed'.left = {}
        /\ seed'.outcome = "error"
    BY <1>8, SeedMoves DEF AInv
  <2> QED
    BY <2>1, <2>2, DoneEnds
<1> QED
  BY <1>1, <1>6, <1>7, <1>8

(* A step of the seed within its search for products without a code.       *)
LEMMA DoneLegacyStep ==
  ASSUME AInv, Done, seed.at = L + 3, UNCHANGED <<staff, partners, content>>,
         quiet' = quiet, seed'.at = seed.at, seed'.outcome = seed.outcome,
         Ids' = Ids,
         quiet => /\ \A k \in 1 .. L : Listed(k)'
                  /\ \A i \in seed'.left : products'[i].code = None
                  /\ seed'.creating => \A i \in Ids \ seed'.left :
                                         products'[i].code # None
  PROVE  Done'
<1>1. L \in Nat /\ L' = L /\ Running /\ Running'
  BY StepsFacts, StepNumbers, RunningNext DEF AInv, L
<1>2. AccountsThere'
  BY <1>1 DEF Done, AccountsThere
<1>3. quiet' => Undisturbed'
  BY <1>1 DEF Done, Undisturbed
<1> QED
  BY <1>1, <1>2, <1>3 DEF Done

LEMMA DoneLegacy ==
  ASSUME AInv, Done, seedLegacy
  PROVE  Done'
<1>1. /\ seed.at = L + 3 /\ Running /\ L \in Nat /\ L' = L
      /\ seed \in Run /\ seed.left \subseteq Ids
  BY StepNumbers, StepsFacts DEF AInv, SeedOK, seedLegacy, Step, L
<1>2. UNCHANGED <<staff, partners, content, quiet>>
  BY DEF seedLegacy, accountVars
<1>3. quiet => /\ \A k \in 1 .. L : Listed(k)
               /\ \A i \in seed.left : products[i].code = None
               /\ seed.creating =>
                    \A i \in Ids \ seed.left : products[i].code # None
  BY <1>1 DEF Done, Undisturbed
<1>4. CASE /\ UNCHANGED products
           /\ seed' = [seed EXCEPT !.creating = TRUE,
                         !.left = {i \in Ids : products[i].code = None}]
  <2>1. /\ seed'.at = seed.at /\ seed'.outcome = seed.outcome /\ Ids' = Ids
        /\ seed'.left = {i \in Ids : products[i].code = None}
    BY <1>1, <1>4 DEF Run, Ids
  <2>2. \A k \in 1 .. L : Listed(k)' = Listed(k)
    BY <1>4, <2>1 DEF Listed
  <2> QED
    BY <1>1, <1>2, <1>3, <1>4, <2>1, <2>2, DoneLegacyStep
<1>5. CASE seed.creating /\ seed.left = {} /\ Advance /\ UNCHANGED products
  <2>1. seed'.at = seed.at + 1 /\ Ids' = Ids
    BY <1>1, <1>5, SeedMoves DEF AInv, Ids
  <2>2. AccountsThere'
    BY <1>1, <1>2, <2>1 DEF Done, AccountsThere
  <2>3. \A k \in 1 .. L : Listed(k)' = Listed(k)
    BY <1>5, <2>1 DEF Listed
  <2> QED
    BY <1>1, <1>2, <1>3, <1>5, <2>1, <2>2, <2>3, DoneAdvances
<1>6. ASSUME NEW i \in seed.left, NEW code \in Codes,
             code = derived[products[i].name], free(code, i),
             products' = [products EXCEPT ![i].code = code],
             seed' = [seed EXCEPT !.left = @ \ {i}]
      PROVE  Done'
  <2> DEFINE new == [products[i] EXCEPT !.code = code]
  <2>1. i \in Ids /\ new \in Product /\ new.code # None
    BY <1>1, RowFacts, RegistryAssumption DEF AInv, Product
  <2>2. products' = [products EXCEPT ![i] = new]
    BY <1>6
  <2> HIDE DEF new
  <2>3. /\ Ids' = Ids
        /\ \A j \in Ids : products'[j] = IF j = i THEN new ELSE products[j]
    BY <2>1, <2>2, RowEdited DEF AInv
  <2>4. /\ seed'.at = seed.at /\ seed'.outcome = seed.outcome
        /\ seed'.creating = seed.creating /\ seed'.left = seed.left \ {i}
    BY <1>1, <1>6 DEF Run
  <2>5. ASSUME quiet, NEW k \in 1 .. L PROVE Listed(k)'
    <3>1. Listed(k) /\ products[i].code = None
      BY <1>3, <2>5
    <3>2. seedCode[SeedNames[k]] # None
      <4>1. SeedNames[k] \in Names
        BY RegistryAssumption DEF L
      <4> QED
        BY <4>1, RegistryAssumption
    <3> QED
      BY <2>3, <3>1, <3>2, ListedStays DEF AInv
  <2>6. quiet => \A j \in seed'.left : products'[j].code = None
    BY <1>1, <1>3, <2>3, <2>4
  <2>7. quiet /\ seed'.creating =>
          \A j \in Ids \ seed'.left : products'[j].code # None
    BY <1>3, <2>1, <2>3, <2>4
  <2> QED
    BY <1>1, <1>2, <2>3, <2>4, <2>5, <2>6, <2>7, DoneLegacyStep
<1>7. ASSUME NEW i \in seed.left, ~free(derived[products[i].name], i), Die,
             UNCHANGED products
      PROVE  Done'
  <2>1. quiet => Clash'
    <3> SUFFICES ASSUME quiet PROVE Clash'
      OBVIOUS
    <3>1. i \in Ids /\ products[i].code = None
      BY <1>1, <1>3
    <3>2. PICK j \in Ids : products[j].code = derived[products[i].name] /\ j # i
      BY <1>7 DEF free
    <3>3. Ids' = Ids
      BY <1>7 DEF Ids
    <3> QED
      BY <1>7, <3>1, <3>2, <3>3 DEF Clash
  <2>2. /\ seed'.at = 0 /\ ~seed'.creating /\ seed'.left = {}
        /\ seed'.outcome = "error"
    BY <1>7, SeedMoves DEF AInv
  <2> QED
    BY <1>2, <2>1, <2>2, DoneEnds
<1>8. \A i \in seed.left : derived[products[i].name] \in Codes
  BY <1>1, RowFacts, RegistryAssumption DEF AInv, Product
<1> QED
  BY <1>4, <1>5, <1>6, <1>7, <1>8 DEF seedLegacy

LEMMA DonePartner ==
  ASSUME AInv, Done, seedPartner
  PROVE  Done'
<1>1. /\ seed.at = L + 4 /\ Running /\ L \in Nat /\ L' = L
  BY StepNumbers, StepsFacts DEF AInv, seedPartner, Step, L
<1>2. UNCHANGED <<staff, products, content, quiet>> /\ Ids' = Ids
  BY DEF seedPartner, seedExists, accountVars, Ids
<1>3. ASSUME Advance, partners'[DemoPartner] # None PROVE Done'
  <2>1. seed'.at = seed.at + 1
    BY <1>1, <1>3, SeedMoves DEF AInv
  <2>2. AccountsThere'
    BY <1>1, <1>2, <1>3, <2>1 DEF Done, AccountsThere
  <2>3. \A k \in 1 .. L : Listed(k)' = Listed(k)
    BY <1>2 DEF Listed
  <2>4. quiet => /\ \A k \in 1 .. L : Listed(k)
                 /\ \A i \in Ids : products[i].code # None
    BY <1>1 DEF Done, Undisturbed
  <2> QED
    BY <1>1, <1>2, <1>3, <2>2, <2>3, <2>4, DoneAdvances
<1>4. CASE partners[DemoPartner] # None /\ Advance /\ UNCHANGED partners
  BY <1>3, <1>4
<1>5. CASE /\ seed' = [seed EXCEPT !.creating = TRUE]
           /\ UNCHANGED partners /\ partners[DemoPartner] = None
  BY <1>1, <1>2, <1>5, DoneCreates
<1>6. CASE Advance /\ partners' = [partners EXCEPT ![DemoPartner] = "ACTIVE"]
  <2>1. partners'[DemoPartner] # None
    BY <1>6, RegistryAssumption, NoneAssumption
       DEF AInv, AccountsOK, PartnerStatus
  <2> QED
    BY <1>3, <1>6, <2>1
<1>7. CASE seed.creating /\ partners[DemoPartner] # None /\ Die
  <2>1. ~quiet
    BY <1>1, <1>7 DEF Done, Undisturbed
  <2>2. /\ seed'.at = 0 /\ ~seed'.creating /\ seed'.left = {}
        /\ seed'.outcome = "error"
    BY <1>7, SeedMoves DEF AInv
  <2> QED
    BY <1>2, <2>1, <2>2, DoneEnds
<1> QED
  BY <1>4, <1>5, <1>6, <1>7 DEF seedPartner, seedExists, accountVars

LEMMA DoneContent ==
  ASSUME AInv, Done, seedFaq \/ seedLender
  PROVE  Done'
<1>1. /\ seed.at \in {L + 5, L + 6} /\ Running /\ L \in Nat /\ L' = L
      /\ (Step("faq") <=> seed.at = L + 5)
      /\ (Step("lender") <=> seed.at = L + 6)
  BY StepNumbers, StepsFacts DEF AInv, seedFaq, seedLender, Step, L
<1>2. UNCHANGED <<staff, partners, products, quiet>> /\ Ids' = Ids
  BY DEF seedFaq, seedLender, seedExists, accountVars, Ids
<1>3. content \in [Kinds -> Nat]
  BY DEF AInv, RowsOK
<1>4. ASSUME Advance, content'["faq"] > 0 \/ (seed.at = L + 6 /\
                        content'["faq"] = content["faq"]),
             seed.at = L + 6 => content'["lender"] > 0
      PROVE  Done'
  <2>1. seed'.at = seed.at + 1
    BY <1>1, <1>4, SeedMoves DEF AInv
  <2>2. AccountsThere'
    BY <1>1, <1>2, <2>1 DEF Done, AccountsThere
  <2>3. \A k \in 1 .. L : Listed(k)' = Listed(k)
    BY <1>2 DEF Listed
  <2>4. quiet => /\ \A k \in 1 .. L : Listed(k)
                 /\ \A i \in Ids : products[i].code # None
                 /\ seed.at = L + 6 => content["faq"] > 0
    BY <1>1 DEF Done, Undisturbed
  <2> QED
    BY <1>1, <1>2, <1>4, <2>2, <2>3, <2>4, DoneAdvances
<1>5. CASE seedFaq
  <2>1. seed.at = L + 5 /\ Advance
    BY <1>1, <1>5 DEF seedFaq
  <2>2. content'["faq"] > 0
    BY <1>3, <1>5 DEF seedFaq, Kinds
  <2> QED
    BY <1>1, <1>4, <2>1, <2>2
<1>6. CASE seedLender
  <2>1. seed.at = L + 6
    BY <1>1, <1>6 DEF seedLender
  <2>2. CASE content["lender"] > 0 /\ Advance /\ UNCHANGED content
    BY <1>4, <2>1, <2>2
  <2>3. CASE seed' = [seed EXCEPT !.creating = TRUE] /\ UNCHANGED content
    BY <1>1, <1>2, <2>1, <2>3, DoneCreates
  <2>4. CASE Advance /\ content' = [content EXCEPT !["lender"] = @ + 1]
    <3>1. content'["lender"] > 0 /\ content'["faq"] = content["faq"]
      BY <1>3, <2>4 DEF Kinds
    <3> QED
      BY <1>4, <2>1, <2>4, <3>1
  <2> QED
    BY <1>6, <2>2, <2>3, <2>4 DEF seedLender, seedExists
<1> QED
  BY <1>5, <1>6

LEMMA DoneEdge ==
  ASSUME AInv, Done, startSeed \/ killSeed
  PROVE  Done'
<1>1. CASE killSeed
  <2>1. /\ seed'.at = 0 /\ ~seed'.creating /\ seed'.left = {}
        /\ seed'.outcome = "none"
    BY <1>1 DEF killSeed, NotRunning
  <2> QED
    BY <2>1, DoneEnds
<1>2. CASE startSeed
  <2>1. /\ seed'.at = 1 /\ ~seed'.creating /\ seed'.left = {}
        /\ seed'.outcome = "none"
    BY <1>2 DEF startSeed, NotRunning
  <2>2. L \in Nat /\ L' = L
    BY StepsFacts DEF L
  <2>3. AccountsThere' /\ Undisturbed'
    BY <2>1, <2>2 DEF AccountsThere, Undisturbed
  <2> QED
    BY <2>1, <2>2, <2>3 DEF Done
<1> QED
  BY <1>1, <1>2

LEMMA DoneStep ==
  ASSUME AInv, Done, [Next]_allVars
  PROVE  Done'
<1>1. Grows
  BY NextTypes
<1>2. CASE /\ AccountsNext
           /\ quiet' = (quiet /\ UNCHANGED <<staff, partners>>)
           /\ UNCHANGED <<products, content, audit, seed, runs, disturbed,
                          cleared>>
  BY <1>1, <1>2, DoneStays
<1>3. ASSUME NEW h \in Handlers, Catalogue(h) PROVE Done'
  <2>1. ASSUME NEW name \in Names, NEW given \in Codes \cup {None},
               create(h, name, given)
        PROVE  UNCHANGED <<seed, quiet, staff, partners, products, content>>
    BY <2>1 DEF create, registryVars
  <2>2. ASSUME NEW i \in Ids, NEW dto \in Dtos, update(h, i, dto)
        PROVE  UNCHANGED <<seed, quiet, staff, partners, products, content>>
    BY <2>2 DEF update
  <2>3. ASSUME \/ insert(h) \/ save(h)
               \/ \E kind \in Kinds :
                    createContent(h, kind) \/ removeContent(h, kind)
        PROVE  UNCHANGED seed /\ ~quiet'
    BY <2>3 DEF insert, save, createContent, removeContent
  <2>4. ASSUME record(h) \/ notFound(h)
        PROVE  UNCHANGED <<seed, quiet, staff, partners, products, content>>
    BY <2>4 DEF record, notFound, registryVars
  <2>5. /\ UNCHANGED seed
        /\ quiet' => quiet /\ UNCHANGED <<staff, partners, products, content>>
    BY <1>3, <2>1, <2>2, <2>3, <2>4 DEF Catalogue
  <2> QED
    BY <1>1, <2>5, DoneStays
<1>5. CASE stop
  <2>1. UNCHANGED <<seed, quiet, staff, partners, products, content>>
    BY <1>5 DEF stop
  <2> QED
    BY <1>1, <2>1, DoneStays
<1>6. CASE Seed
  BY <1>6, DoneStaff, DoneProduct, DoneLegacy, DonePartner, DoneContent,
     DoneEdge DEF Seed
<1>7. CASE UNCHANGED allVars
  <2>1. UNCHANGED <<seed, quiet, staff, partners, products, content>>
    BY <1>7 DEF allVars, accountVars, registryVars
  <2> QED
    BY <1>1, <2>1, DoneStays
<1> QED
  BY <1>2, <1>3, <1>5, <1>6, <1>7 DEF Next, refuse

LEMMA DoneInit == Init => Done
<1> SUFFICES ASSUME Init PROVE Done
  OBVIOUS
<1>1. /\ seed.at = 0 /\ seed.outcome = "none" /\ seed.left = {} /\ ~quiet
      /\ L \in Nat
  BY StepsFacts DEF Init, NotRunning
<1>2. AccountsThere
  BY <1>1 DEF AccountsThere
<1> QED
  BY <1>1, <1>2 DEF Done

(* scripts/seed.ts can be run again: however earlier runs ended and        *)
(* whatever the API did beside it, a run that comes to its end leaves an   *)
(* administrator, an officer and the partner; if nobody else wrote, also   *)
(* the content, every product of its list under its code, and no product   *)
(* without one.  It fails alone only where another product has the code.   *)
THEOREM SeedRunsAgain == Spec => []SeedConverges
<1>1. AInv /\ Done => SeedConverges
  <2> SUFFICES ASSUME AInv, Done PROVE SeedConverges
    OBVIOUS
  <2>1. L \in Nat /\ DOMAIN SeedNames = 1 .. L
    BY StepsFacts, RegistryAssumption DEF L
  <2>2. ASSUME seed.outcome = "done"
        PROVE  /\ staff[AdminEmail] # None /\ staff[OfficerEmail] # None
               /\ partners[DemoPartner] # None
    BY <2>1, <2>2 DEF Done, AccountsThere
  <2>3. ASSUME seed.outcome = "done", quiet
        PROVE  /\ \A kind \in Kinds : content[kind] > 0
               /\ \A k \in DOMAIN SeedNames : Listed(k)
               /\ \A i \in Ids : products[i].code # None
    <3>1. seed.at = L + 7 /\ seed.left = {} /\ Undisturbed
      BY <2>1, <2>3 DEF Done
    <3> QED
      BY <2>1, <3>1 DEF Undisturbed, Kinds
  <2>4. seed.outcome = "error" /\ quiet => Clash
    BY DEF Done, Undisturbed
  <2> QED
    BY <2>2, <2>3, <2>4 DEF SeedConverges, Listed
<1>2. AInv /\ Done /\ [Next]_allVars => Done'
  BY DoneStep
<1> QED
  BY AlwaysTyped, DoneInit, <1>1, <1>2, PTL DEF Spec
=============================================================================
