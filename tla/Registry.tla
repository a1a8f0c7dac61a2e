------------------------------ MODULE Registry ------------------------------
(***************************************************************************)
(* What administrators keep in order: the catalogue of products            *)
(* (src/catalogue/catalogue.service.ts), the lenders and questions beside  *)
(* it, and the accounts of Accounts; and the seed script                   *)
(* (scripts/seed.ts) that fills an empty database and may be run again at  *)
(* any time, next to the API.                                              *)
(***************************************************************************)
EXTENDS Accounts

CONSTANTS
  Names,            \* names of products
  SeedNames,        \* those of the products the seed puts in, in its order
  Codes,            \* product codes
  seedCode,         \* the code the seed gives the product of a name
  derived,          \* deriveProductCode: the code a name abbreviates to
  Dtos,             \* bound: the updates that administrators send
  AdminEmail, OfficerEmail, DemoPartner,
  MaxRuns           \* bound: runs of the seed

ASSUME RegistryAssumption ==
  /\ SeedNames \in Seq(Names)
  /\ seedCode \in [Names -> Codes] /\ derived \in [Names -> Codes]
  /\ AdminEmail \in Emails /\ OfficerEmail \in Emails
  /\ DemoPartner \in PartnerCodes
  /\ None \notin Names \cup Codes \cup BOOLEAN
  /\ MaxRuns \in Nat

VARIABLES
  products,         \* the rows of the catalogue, in the order of insertion
  content,          \* how many rows there are of the seed's FAQ and lender
  audit,            \* audit rows of activations
  seed,             \* the run of the seed script
  runs,             \* bound: runs of the seed started
  disturbed,        \* history: products two updates met on, or one was lost
  cleared,          \* history: products whose `active' an update unset
  quiet             \* history: has nobody else written since the run began?

registryVars ==
  <<products, content, audit, seed, runs, disturbed, cleared, quiet>>

allVars == <<accountVars, registryVars>>

-----------------------------------------------------------------------------
(* Data *)

(* No code: from before there were any.  No active: unset by an update.    *)
Product ==
  [name : Names, code : Codes \cup {None}, active : BOOLEAN \cup {None}]

Kinds == {"faq", "lender"}

Ids == DOMAIN products

(* UpdateProductDto: each field may be absent.                             *)
Dto == [name : Names \cup {None}, code : Codes \cup {None},
        active : BOOLEAN \cup {None}]

ASSUME DtosAssumption == Dtos \subseteq Dto

Field(new, old) == IF new = None THEN old ELSE new

(* Object.assign copies what the instance of the DTO has: the fields that  *)
(* were sent, and `active' in any case.  UpdateProductDto declares it, for *)
(* the target of the build (ES2023) that defines it, as undefined when it  *)
(* was not sent.                                                           *)
assigned(p, dto) ==
  [name |-> Field(dto.name, p.name), code |-> Field(dto.code, p.code),
   active |-> dto.active]

Delta(cur, old, new) == IF new = old THEN cur ELSE new

(* Mongoose sends the fields that differ from what was loaded, and unsets  *)
(* those that were assigned undefined.                                     *)
merged(cur, old, new) ==
  [name |-> Delta(cur.name, old.name, new.name),
   code |-> Delta(cur.code, old.code, new.code),
   active |-> Delta(cur.active, old.active, new.active)]

(* The unique index on code.                                               *)
free(code, id) == \A j \in Ids : products[j].code = code => j = id

Creating == [pc : {"insert"}, product : Product, actor : Emails]

Updating == [pc : {"save", "record"}, id : Nat, dto : Dto, seen : Product,
             actor : Emails]

AuditRow == [action : {"ProductActivated", "ProductDeactivated"},
             targetId : Nat, actor : Emails]

(* What customers see, and may apply for.                                  *)
listActive == {i \in Ids : products[i].active = TRUE}

-----------------------------------------------------------------------------
(* The catalogue: administrators only *)

(* The code is the given or the derived one; exists refuses one that some  *)
(* product has.                                                            *)
create(h, name, given) ==
  LET code == Field(given, derived[name]) IN
  /\ At(h, "admitted")
  /\ IF \A i \in Ids : products[i].code # code
     THEN Become(h, [pc |-> "insert", actor |-> handler[h].actor,
                     product |-> [name |-> name, code |-> code,
                                  active |-> TRUE]])
     ELSE Leave(h)
  /\ UNCHANGED <<staff, partners, tokens, requests, changes, registryVars>>

(* NotFoundException: there is no row of the id it names.                  *)
notFound(h) ==
  /\ At(h, "admitted")
  /\ Leave(h)
  /\ UNCHANGED <<staff, partners, tokens, requests, changes, registryVars>>

insert(h) ==
  LET p == handler[h].product IN
  /\ At(h, "insert")
  /\ products' = IF free(p.code, 0) THEN Append(products, p) ELSE products
  /\ quiet' = FALSE
  /\ Leave(h)
  /\ UNCHANGED <<staff, partners, tokens, requests, changes, content, audit,
                 seed, runs, disturbed, cleared>>

Updates(i) ==
  {h \in Handlers : /\ InFlight(h)
                    /\ handler[h].pc \in {"save", "record"}
                    /\ handler[h].id = i}

(* findById found the product.                                             *)
update(h, i, dto) ==
  /\ At(h, "admitted")
  /\ Become(h, [pc |-> "save", id |-> i, dto |-> dto, seen |-> products[i],
                actor |-> handler[h].actor])
  /\ disturbed' = disturbed \cup {j \in {i} : Updates(i) # {}}
  /\ UNCHANGED <<staff, partners, tokens, requests, changes, products, content,
                 audit, seed, runs, cleared, quiet>>

(* The default of the schema stands in when the row has no value.          *)
wasActive(b) == Field(b.seen.active, TRUE)

Toggles(b) == b.dto.active \notin {None, wasActive(b)}

(* A code is required and the index may refuse it; an activation goes on   *)
(* to its audit row.                                                       *)
save(h) ==
  LET b == handler[h]
      new == merged(products[b.id], b.seen, assigned(b.seen, b.dto))
      stored == assigned(b.seen, b.dto).code # None /\ free(new.code, b.id)
  IN
  /\ At(h, "save")
  /\ products' = IF stored THEN [products EXCEPT ![b.id] = new] ELSE products
  /\ IF stored /\ Toggles(b)
     THEN handler' = [handler EXCEPT ![h].pc = "record"]
     ELSE Leave(h)
  /\ cleared' = cleared \cup {i \in {b.id} : stored /\ b.dto.active = None}
  /\ quiet' = FALSE
  /\ UNCHANGED <<staff, partners, tokens, requests, changes, content, audit,
                 seed, runs, disturbed>>

auditRow(b) ==
  [action |-> IF b.dto.active THEN "ProductActivated" ELSE "ProductDeactivated",
   targetId |-> b.id, actor |-> b.actor]

record(h) ==
  /\ At(h, "record")
  /\ audit' = Append(audit, auditRow(handler[h]))
  /\ Leave(h)
  /\ UNCHANGED <<staff, partners, tokens, requests, changes, products, content,
                 seed, runs, disturbed, cleared, quiet>>

(* createLender, create of a FAQ; the ones of the seed's name and question.*)
createContent(h, kind) ==
  /\ At(h, "admitted")
  /\ content' = [content EXCEPT ![kind] = @ + 1]
  /\ quiet' = FALSE
  /\ Leave(h)
  /\ UNCHANGED <<staff, partners, tokens, requests, changes, products, audit,
                 seed, runs, disturbed, cleared>>

removeContent(h, kind) ==
  /\ At(h, "admitted")
  /\ content[kind] > 0
  /\ content' = [content EXCEPT ![kind] = @ - 1]
  /\ quiet' = FALSE
  /\ Leave(h)
  /\ UNCHANGED <<staff, partners, tokens, requests, changes, products, audit,
                 seed, runs, disturbed, cleared>>

(* The API stops: requests in flight are gone.                             *)
stop ==
  /\ \E h \in Handlers : InFlight(h)
  /\ handler' = [h \in Handlers |-> Idle]
  /\ disturbed' = disturbed \cup
                    {i \in Ids : \E h \in Updates(i) : handler[h].pc = "record"}
  /\ UNCHANGED <<staff, partners, tokens, requests, changes, products, content,
                 audit, seed, runs, cleared, quiet>>

-----------------------------------------------------------------------------
(* The seed script, one database call at a time.  An error ends it.        *)

Steps ==
  <<"admin", "officer">> \o [i \in DOMAIN SeedNames |-> "product"]
    \o <<"legacy", "partner", "faq", "lender">>

NotRunning == [at |-> 0, creating |-> FALSE, left |-> {}, outcome |-> "none"]

Running == seed.at \in DOMAIN Steps

Step(name) == Running /\ Steps[seed.at] = name

startSeed ==
  /\ ~Running
  /\ runs < MaxRuns
  /\ runs' = runs + 1
  /\ seed' = [NotRunning EXCEPT !.at = 1]
  /\ quiet' = TRUE
  /\ UNCHANGED <<accountVars, products, content, audit, disturbed, cleared>>

Advance ==
  seed' = [at |-> seed.at + 1, creating |-> FALSE, left |-> {},
           outcome |-> IF seed.at = Len(Steps) THEN "done" ELSE "none"]

Die == seed' = [NotRunning EXCEPT !.outcome = "error"]

seedEmail == IF Steps[seed.at] = "admin" THEN AdminEmail ELSE OfficerEmail

(* exists, for what is created only if it is missing.                      *)
seedExists(there) ==
  /\ ~seed.creating
  /\ IF there THEN Advance ELSE seed' = [seed EXCEPT !.creating = TRUE]
  /\ UNCHANGED <<accountVars, products, content, audit, runs, disturbed,
                 cleared,
                 quiet>>

seedStaff ==
  /\ Step("admin") \/ Step("officer")
  /\ \/ seedExists(staff[seedEmail] # None)
     \/ /\ seed.creating
        /\ IF staff[seedEmail] # None
           THEN Die /\ UNCHANGED staff
           ELSE /\ Advance
                /\ staff' = [staff EXCEPT ![seedEmail] =
                     [role |-> IF Step("admin") THEN "ADMIN" ELSE "STAFF",
                      active |-> TRUE]]
        /\ UNCHANGED <<partners, tokens, handler, requests, changes, products,
                       content, audit, runs, disturbed, cleared, quiet>>

seedName == SeedNames[seed.at - 2]

seeded_reactivates(p) == [p EXCEPT !.code = seedCode[seedName], !.active = TRUE]

seeded_keepsCode(p) == p

(* $set overwrites the code; $setOnInsert leaves the rest of a row alone.  *)
seeded(p) == [p EXCEPT !.code = seedCode[seedName]]

seedProduct ==
  LET found == {i \in Ids : products[i].name = seedName}
      code == seedCode[seedName]
  IN
  /\ Step("product")
  /\ \/ /\ found = {}
        /\ free(code, 0)
        /\ products' = Append(products,
             [name |-> seedName, code |-> code, active |-> TRUE])
        /\ Advance
     \/ /\ \E i \in found :
             /\ free(code, i)
             /\ products' = [products EXCEPT ![i] = seeded(@)]
        /\ Advance
     \/ /\ \E i \in found \cup {0} : (found = {} <=> i = 0) /\ ~free(code, i)
        /\ Die
        /\ UNCHANGED products
  /\ UNCHANGED <<accountVars, content, audit, runs, disturbed, cleared, quiet>>

(* Products from before there were codes: all are found, then each is      *)
(* given the derived code.                                                 *)
seedLegacy ==
  /\ Step("legacy")
  /\ \/ /\ ~seed.creating
        /\ seed' = [seed EXCEPT !.creating = TRUE,
                       !.left = {i \in Ids : products[i].code = None}]
        /\ UNCHANGED products
     \/ /\ seed.creating
        /\ seed.left = {}
        /\ Advance
        /\ UNCHANGED products
     \/ \E i \in seed.left :
          LET code == derived[products[i].name] IN
          \/ /\ free(code, i)
             /\ products' = [products EXCEPT ![i].code = code]
             /\ seed' = [seed EXCEPT !.left = @ \ {i}]
          \/ ~free(code, i) /\ Die /\ UNCHANGED products
  /\ UNCHANGED <<accountVars, content, audit, runs, disturbed, cleared, quiet>>

seedPartner ==
  /\ Step("partner")
  /\ \/ seedExists(partners[DemoPartner] # None)
     \/ /\ seed.creating
        /\ IF partners[DemoPartner] # None
           THEN Die /\ UNCHANGED partners
           ELSE /\ Advance
                /\ partners' = [partners EXCEPT ![DemoPartner] = "ACTIVE"]
        /\ UNCHANGED <<staff, tokens, handler, requests, changes, products,
                       content, audit, runs, disturbed, cleared, quiet>>

(* An upsert, in one call.  One question stands for the five of the list:  *)
(* each has its own upsert, which looks at its own row only.               *)
seedFaq ==
  /\ Step("faq")
  /\ content' = IF content["faq"] = 0 THEN [content EXCEPT !["faq"] = 1]
                ELSE content
  /\ Advance
  /\ UNCHANGED <<accountVars, products, audit, runs, disturbed, cleared,
                 quiet>>

(* Lenders have no unique index.                                           *)
seedLender ==
  /\ Step("lender")
  /\ \/ seedExists(content["lender"] > 0)
     \/ /\ seed.creating
        /\ content' = [content EXCEPT !["lender"] = @ + 1]
        /\ Advance
        /\ UNCHANGED <<accountVars, products, audit, runs, disturbed, cleared,
                       quiet>>

(* The script is stopped, or loses the database.                           *)
killSeed ==
  /\ Running
  /\ seed' = NotRunning
  /\ UNCHANGED <<accountVars, products, content, audit, runs, disturbed,
                 cleared,
                 quiet>>

-----------------------------------------------------------------------------
(* An empty database, or one with a product from before there were codes.  *)
Init ==
  /\ AccountsInit
  /\ products \in {<< >>} \cup {<<[name |-> n, code |-> None, active |-> TRUE]>> :
                                n \in Names}
  /\ content = [kind \in Kinds |-> 0]
  /\ audit = << >>
  /\ seed = NotRunning
  /\ runs = 0
  /\ disturbed = {}
  /\ cleared = {}
  /\ quiet = FALSE

Catalogue(h) ==
  \/ \E name \in Names, given \in Codes \cup {None} : create(h, name, given)
  \/ \E i \in Ids, dto \in Dtos : update(h, i, dto)
  \/ \E kind \in Kinds : createContent(h, kind) \/ removeContent(h, kind)
  \/ notFound(h)
  \/ insert(h)
  \/ save(h)
  \/ record(h)

Seed ==
  \/ startSeed
  \/ seedStaff
  \/ seedProduct
  \/ seedLegacy
  \/ seedPartner
  \/ seedFaq
  \/ seedLender
  \/ killSeed

(* A request the checks refuse, and a client that does nothing.            *)
refuse == UNCHANGED allVars

Next ==
  \/ /\ AccountsNext
     /\ quiet' = (quiet /\ UNCHANGED <<staff, partners>>)
     /\ UNCHANGED <<products, content, audit, seed, runs, disturbed, cleared>>
  \/ \E h \in Handlers : Catalogue(h)
  \/ stop
  \/ Seed
  \/ refuse

Spec == Init /\ [][Next]_allVars
-----------------------------------------------------------------------------
(* Properties *)

(* The type invariant: accounts, rows, requests and the seed's run keep    *)
(* their shape, and a token is held only for an account that was made.     *)
TypeOK ==
  /\ staff \in [Emails -> StaffAccount \cup {None}]
  /\ partners \in [PartnerCodes -> PartnerStatus \cup {None}]
  /\ tokens \subseteq Token
  /\ handler \in [Handlers -> {Idle} \cup Login \cup Admitted \cup Onboarding
                                \cup Creating \cup Updating]
  /\ products \in Seq(Product)
  /\ audit \in Seq(AuditRow)
  /\ content \in [Kinds -> Nat]
  /\ seed.at \in 0 .. Len(Steps) + 1
  /\ seed.left \subseteq Ids
  /\ \A t \in tokens : IF t.role = "PARTNER" THEN partners[t.sub] # None
                       ELSE staff[t.sub] # None

Times(Test(_), seq) == Cardinality({i \in DOMAIN seq : Test(seq[i])})

(* Customers see exactly the products whose activations balance in the     *)
(* audit trail: whoever activated them, and however often the seed was run *)
(* over them.  Not for a product that two updates overlapped on, whose     *)
(* update is not over or was lost before its audit row, or whose `active'  *)
(* an update has unset.                                                    *)
ActivityAudited ==
  \A i \in Ids \ (disturbed \cup cleared) : Updates(i) = {} =>
    LET Of(action) == Times(LAMBDA r : r.targetId = i /\ r.action = action,
                            audit)
        down == Of("ProductDeactivated") - Of("ProductActivated")
    IN down = IF i \in listActive THEN 0 ELSE 1

(* What the schema says of `active' (product.schema.ts:21: deactivating    *)
(* hides a product) and the audit trail of it (constants/index.ts:96): a   *)
(* product that customers do not see was deactivated by someone.  It does  *)
(* not hold: see assigned.                                                 *)
HiddenWasDeactivated ==
  \A i \in Ids \ (listActive \cup disturbed) : Updates(i) = {} =>
    \E n \in DOMAIN audit :
      audit[n].targetId = i /\ audit[n].action = "ProductDeactivated"

(* A product has the code that the seed is to give another one.            *)
Clash ==
  \E i \in Ids :
    \/ \E k \in DOMAIN SeedNames :
         /\ products[i].code = seedCode[SeedNames[k]]
         /\ \/ products[i].name # SeedNames[k]
            \/ \E j \in Ids \ {i} : products[j].name = SeedNames[k]
    \/ \E j \in Ids \ {i} :
         products[j].code = None /\ products[i].code = derived[products[j].name]

(* However earlier runs ended, a run that comes to its end leaves what the *)
(* API needs: an account of each kind to sign in with, a partner and the   *)
(* content; and, where nobody wrote meanwhile, every product of the list   *)
(* under its code and no product without one.  It gives up on a product    *)
(* only if another one has its code.                                       *)
SeedConverges ==
  /\ seed.outcome = "done" =>
       /\ staff[AdminEmail] # None
       /\ staff[OfficerEmail] # None
       /\ partners[DemoPartner] # None
       /\ quiet => /\ \A kind \in Kinds : content[kind] > 0
                   /\ \A k \in DOMAIN SeedNames : \E i \in Ids :
                        /\ products[i].name = SeedNames[k]
                        /\ products[i].code = seedCode[SeedNames[k]]
                   /\ \A i \in Ids : products[i].code # None
  /\ seed.outcome = "error" /\ quiet => Clash

(* Whoever changes the catalogue is an active administrator when the       *)
(* request comes in, whatever the token says and however old it is.        *)
AuthorityIsCurrent ==
  [][\A h \in Handlers :
       ~InFlight(h) /\ InFlight(h)' /\ "actor" \in DOMAIN handler'[h] =>
         staff[handler'[h].actor] = [role |-> "ADMIN", active |-> TRUE]]_allVars
=============================================================================
