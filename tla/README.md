# Verification of the fast-finance backend

TLA+ models of the NestJS/MongoDB API under `src/`, checked with TLC and proved
about with TLAPS. This file says what the parts of the system are, which module
models which part, what each run and each theorem shows, and what is left out.

## 1. The system

One Node process serves customers (mobile), partners, staff and administrators.
All state is in MongoDB, except files (a directory) and the event stream (an RxJS
subject in the process). Requests run concurrently and interleave at every
`await`; no operation uses a transaction, and most of them load a Mongoose
document, change it in memory and save the fields that changed.

| Component | State it keeps | Operations | Talks to | What makes it correct |
|---|---|---|---|---|
| Stage rules (`common/constants/stage.ts`) | – | `nextStage`, `buildStageTracker` | used by everything about applications | the last stage has no next one |
| Application lifecycle (`applications/`) | `applications` | `startOrResume`, `submit`, `advanceStage`, `revertStage`, `reject`, `listForCaller`, `detail` | documents, messaging, audit, events, staff, catalogue, customers | each change is one of the operations, decided on a stage the application had; the row follows the changes; every change is logged and announced once |
| Roles (`common/constants/roles.ts`, `common/guards/`) | – | `scopeFor`, `canActivate`; scoping in each service | used by every route | the table and the checks in the services agree |
| Document checklist (`documents/`) | `documents` | `seedChecklist`, `upload`, `submitManualBank`, `review`, three reads | storage, audit; gates `submit` | a verdict belongs to what is stored; the gate opens only for a complete checklist; screens and gate ask for the same |
| Messaging (`messaging/`) | `chat_messages` | `thread`, `postSystem`, `postUser`, `markRead`, `unreadCount` | applications, events | a closed application stays closed; an unread badge counts what was not shown |
| Events (`events/`) | RxJS subject | `publish`, `streamFor` | live streams, notifications | reaches the parties of the application |
| Notifications (`notifications/`) | `notifications` | `fromEvent`, `create`, `welcome`, `markRead`, `markAllRead`, `remove` | subscribed to the events | every customer-visible change becomes one notification |
| Audit (`audit/`) | `audit_logs` | `record` | called by applications, documents, catalogue | append-only, explains the state |
| Sign-in (`auth/`) | `otp_requests`, `customers` | `requestOtp`, `verifyOtp` | notifications | one live code; a code is used once |
| Staff and partner accounts (`auth/`, `staff/`, `partners/`) | `staff`, `partners` | `staffLogin`, `partnerLogin`, `resolveSubject`, staff `create`, `onboard` | guard of every request | authority is what the account has now, not what the token says |
| Sessions (`auth/`) | `refresh_tokens` | `issueTokens`, `refresh`, `logout` | – | rotation: one successor per token |
| Catalogue (`catalogue/`) | `products` | `create`, `update`, `listActive` | audit; read by `startOrResume` | customers see what was activated, and the audit trail says who did it |
| Customer profile, file storage (`customers/`, `storage/`) | `customers`, a directory | `createProfile`, `updateOwnProfile`, `save` | gates `startOrResume` | a complete profile is whole; every file belongs to somebody |
| Content and support (`content/`, `support/`) | lenders, FAQs, banners, gallery, support details | one database call each | – | – |
| Seed (`scripts/seed.ts`) | the collections above | one script, run by hand next to the API | all of them | can be repeated after it was killed anywhere |
| Commission, GST, EMI, reports | – | computations in floating point; the rest is not built | – | rounding |
| Bootstrap and plumbing | – | wiring, configuration, error format, masking | – | – |

What is hard to test is listed, with source lines, under `hazards` in
`PROJECT.json`. The recurring pattern is *load, check, await, save*: the decision
is taken on a copy of the row that other requests change meanwhile, and Mongoose
sends only the fields whose value differs from that copy.

## 2. Modules

| Module | Models | State and actions |
|---|---|---|
| `Stages` | `stage.ts`: first stage, last stage, next stage | operators only |
| `Applications` | the four operations that change an application, with the guard in front of their routes, `postSystem`, `audit.record`, `events.publish` | `applications` (rows), `handler` (requests in flight: next call, arguments, loaded copy `seen`), `thread`, `audit`, `events`, `complete` (the checklist, reduced to "is it complete") |
| `Lifecycle` | what a client may rely on, however requests overlap: a change happens at once, decided on the application as it was then or earlier, and is reported by a message, an audit row and two events, each at most once and in any order | the same rows and logs, and `changes`; one action per operation, one per kind of report; no handlers |
| `ApplicationsRefinement` | mapping of the former to the latter | – |
| `Access` | over `Applications`: the role matrix, and the scoping in `list`, `detail`, `thread` and the live stream | operators only |
| `Delivery` | over `Access` and `Applications`: the chat thread and the notification centre, which react to the steps of `Applications` | `chat` (system and user messages with their read marks), `caller` (chat requests in flight), `fanOut` (inserts of notifications nobody awaits), `notifications` |
| `Documents` | the checklist, its reviews, the file store as uploads use it, and the three places that compute what is missing | `documents`, `files`, `handler`, `audit`, `toSeed` (rows the bulk write of a new application has still to insert) |
| `Intake` | how an application comes into being: `startOrResume`, `pickAssignee`, `newApplicationId` | `applications` (rows in order of creation), `request` (requests in flight), `seeded`, `logged`; products, profiles and staff as sets; the later life of an application as one step per operation |
| `SignIn` | `requestOtp`, `verifyOtp` with the account and the welcome of a new customer | `otpRequests`, `customers`, `welcomes`, `request` |
| `Sessions` | refresh tokens: the insert every login shares, `refresh`, `logout` | `tokens`, `request` (refreshes in flight); outside the program `held`, the token each device has |
| `Profiles` | `createProfile` and `updateOwnProfile` over the file store | `customers` (rows: which request each field came from), `files`, `request` (what is still being written, whether the row is, what was answered) |
| `Accounts` | accounts of staff, administrators and partners, their logins, `resolveSubject` | `staff`, `partners`, `tokens` (access tokens clients hold), `handler` |
| `Registry` | over `Accounts`: the catalogue with its audit rows, lenders and FAQs, and the seed script | `products`, `content`, `audit`, `seed` (the step the run is at) |
| `ApplicationsProofs`, `DeliveryProofs`, `DocumentsProofs`, `IntakeProofs`, `SignInProofs`, `SessionsProofs`, `ProfilesProofs`, `RegistryProofs` | theorems, see section 4 | – |
| `MC*` | constants for TLC, symmetry | – |

`Delivery` is the composition of the parts that react to a change of an application:
a step of `Applications` that appends to `thread` also stores the row in `chat`, one that
publishes an event starts an insert in `fanOut`. `Applications` keeps its
own `thread` and `events`, so that its behaviours are those of `Delivery` with the rest
hidden (`DeliveryImplementsApplications`).

**Granularity.** An action is the code between two awaits together with the
effect of the database call it ends in. A request therefore appears as: one
action that loads the document and makes the checks (a request that fails one
ends there and changes nothing), then one action per call: gate, save, system
message, its event, audit row, change event. `handler[h].pc` names the call that
comes next. The guard of a route and the check in the service are conjuncts of their own,
as far apart as in the code: `canActivate` knows the role and not the application,
`notAssigned` refuses nobody but staff. In `Applications` the lookup of the account is part
of the first action, since the account cannot change there; in `Accounts` and `Registry`,
where it can, it is an action (`admit`), and the request's next call another.

In `Intake` an operation of the later life is one step, because only what it leaves
behind matters to a new application: stage, rejection and lock.

**Saving.** `merged(cur, old, new)` is what `document.save()` does: field by field
the stored value stays unless the handler changed it from what it loaded. This is
the definition the interesting interleavings turn on.

**Failure.** `fail` ends a request at any point (a call rejects), `crash` ends all
of them (the process stops; `stop` in the modules where more than handlers is lost).
What was written stays. In `Documents` a crash is
`fail` for every request in flight, as it is in the other modules. A call that was applied
although it rejects is a `fail` one step later; in `Profiles`, where the last call is what a
request is about, the row that is written and the answer are two steps, and `updateFails`
comes before the first or between them.

**Data.** A text of a profile may come as null: the checks of the request take it for
absent, the update does not (`cleared`). Texts, labels and ids are model values.
`submittedAt`, `verifiedAt` are kept as "is it set"; `rejectedAt` is set with, and only
with, `rejectionReason` and is left out, as `submissionMethod` is for bank details.
`partnerId` is never set by the program, and `customerId` and `staffId` of an application
are never written again, so they are constants. File keys are random UUIDs: a key that was
not used before.

In `Profiles` the request a value came from stands for the value, and a file is the pair
of its request and field; in `Registry` a name abbreviates to a code by the constant
`derived`, so that two names with one code can be chosen.

**History variables** (`writes`, `failures`, `shown`, `unseen`, `posting`, `lost`,
`verdicts`, `overlapped`, `reopened`, `changes`, `joined`, `origin`, `sessions`, `wrong`,
`applied`, `disturbed`, `cleared`, `quiet`) record what happened for the properties; no
guard reads them, except the bounds.

## 3. Runs

| Run | Question | Instance |
|---|---|---|
| `concurrent` | What survives every interleaving of two requests on one application, one of them possibly lost: types, the lock, the audit trail, the rejection, the row against the changes that were saved? Do guard, service and matrix agree on who may do and see what? And do the calls amount to changes that happen at once and reports that are made at most once (`Lifecycle`)? | 3 stages, 2 handlers, 3 saves, 1 loss; a customer, a partner, two members of staff, an administrator |
| `progress` | Does every stored change reach thread, audit trail, stream and the customer's notifications, and do the notifications say what the thread says? | 2 stages, 2 handlers, 2 saves, 1 lost notification, no chat; fairness below |
| `delivery` | What do unread badges count, and what still lands in a thread after the rejection, when people read and write while the application changes? | 2 stages, 1 handler, 1 save, 2 chat requests of a customer, a member of staff and a partner, 1 post, 1 notification read or deleted, 1 lost handler, 1 lost notification |
| `documents` | The same questions for the checklist, what a document guarantees when no two requests met on it, and do gate, list and detail screen ask for the same documents? | one uploaded document and the bank statement, 2 requests at a time, 2 verdicts, 2 files, 1 loss |
| `intake` | Duplicates, numbers, how far the loads of the staff drift apart, and a lost seeding when two requests to start an application overlap | 2 customers, 1 product, 2 staff, 2 requests, 3 applications, 2 of them closing or opening, 1 loss; one or two tries for a number |
| `profiles` | What does a complete profile consist of, and whose is every stored file, when profile requests overlap, carry unusable files or texts sent as null, or fail in the middle of four writes or after the row was written? | 1 customer, 3 requests, 2 at a time; each file empty, too large, of a type not accepted, or good; the process may stop at any time |
| `sign_in` | What do codes, their counters, accounts and welcomes guarantee when requests for a number overlap, and what only when they do not? | 2 numbers, 2 codes sent, 2 requests, 2 wrong tries, 1 loss |
| `sessions` | Whose sessions survive, and what do the chains of replaced tokens look like, when devices refresh, log out, overlap and lose an answer? | 2 subjects, 3 devices, 2 refreshes at a time, 5 tokens, 1 loss |
| `registry` | Does the audit trail account for what customers see, does the seed converge after it was killed and run again next to the API, and may only an account that is an active administrator now write? | 2 e-mail addresses, 1 partner code, 2 handlers, 3 requests, 1 change of an account in the database, 2 names that abbreviate to one code, 2 runs of the seed |

Three runs show that the code does not do what a comment of the repository says;
`PROJECT.json` quotes the comment for each.

| Run | What TLC shows |
|---|---|
| `gate_bypassed` | `advanceStage` leaves stage 1 without the document check |
| `texts_cleared` | an edit that sends a text as null clears it, and the profile still counts as complete |
| `product_unlisted` | a product whose name is updated disappears from the customers' list, and nobody deactivated it. The build targets ES2023, so a field that `UpdateProductDto` declares is an own property of every instance, with the value `undefined` when the request does not send it; `Object.assign` copies it, and saving unsets `active` in the row. `listActive` and `startOrResume` look for `active: true`. The audit row is written only when a request sends `active` |

Other divergences met on the way, which no run is kept for:

* The repository's README says `stage change = one transaction: update + system message +
  audit + **one** event`, and `events.service.ts` that the transaction publishes `ONE event`.
  There is no transaction, as a comment in `applyStageChange` concedes, and a change publishes
  two events: `message.created`, from `postSystem`, and its own. `Lifecycle` says what holds
  instead: two events at most, and none without its change.
* Two overlapping operations may store a stage two away from the stored one, because each
  decides on its own copy. `RowFollowsChanges` and `Lifecycle` say what remains: each move is
  one stage from a stage the application had.
* The matrix of `roles.ts` grants `submitKycDocuments` to the owner. The routes of the
  documents look at the role only, so that row has no check in the services to be compared
  with, and `ScopesAgree` is about the other rows: processing, and reading applications and
  threads.
* The matrix grants partners the applications they referred; nothing in the program refers
  one yet, and `ScopesAgree` says nothing of what partners are shown.
* Two overlapping requests to start an application both find none and both create one:
  `OpenOnceIfCalm` is about requests that do not overlap.
* Staff may verify a document that nobody sent, and the gate counts it; `GateBackedBySomeone`
  says what the gate then rests on.
* `reject` does not look at the lock, so a disbursed application can be rejected, which the
  schema calls read-only.
* `catalogue.service.ts:20` gives `MLAP` as the code of `Mortgage Loan (LAP)`;
  `deriveProductCode` removes the parentheses with what is in them and yields `ML`.

**Bounds and why they are enough.** Three stages give a first, a middle and a final one, so
every guard on the stage has both outcomes and a skip or a step back is visible; where only
the order of the calls matters two are enough. Two requests are what an overlap needs. Three
saves let an overlapping request meet a change and its correction; two give a notification
an older one to be confused with. `MaxWrites`, `MaxReviews`, `Keys`, `MaxFailures`,
`MaxApplications`, `MaxSerial`, `MaxTokens`, `MaxCodes`, `MaxPosts`, `MaxTaps`, `MaxLost`,
`MaxRequests`, `MaxChanges`, `MaxRuns` and `MaxInFlight` bound the histories and appear only
in guards of what starts or is lost. One loss shows every point at which a request can be
lost. Two uploads of a document are needed for a verdict on a replaced file. In `profiles`
the third request begins when one of the first two has ended, so that a field is replaced
while a stale request still runs; that a request leaves other customers alone is only
proved, since there is one customer. Two chat requests are a reader overtaken by a writer,
or two readers. Two applications are what a duplicate, a number used twice or a wrong order
of numbers needs, three an uneven assignment; `Intake` chooses the number of tries for a
number (five in the program) initially, so that one run reaches the second try and the
fallback to the clock. In `sessions` one subject has two devices and another has one, so
that a revocation that reaches too far, or too few, is visible; five tokens are a login and
a chain of refreshes beside another login. In `registry` the second run of the seed finds
what the first, killed anywhere, left; the two names with one code make the unique index
bite. What the bounds cut off is what the theorems are for.

**Symmetry.** The `MC` modules permute what no definition tells apart: requests, file keys,
codes, numbers, the devices of one subject, customers, products, and in `Intake` also the
staff, of whom `pickAssignee` takes any one with the least load. No run with symmetry
checks liveness.

**Fairness.** `DeliveryFairSpec` assumes weak fairness of each handler's next call, and of
the inserts of notifications: a started database call settles and the event loop runs the
continuation. Nothing obliges a client to send a request, so `Arrive` has no fairness, and
`EveryChangeTold` excepts what was lost: nothing in the program resumes a lost request.

**Deadlock** is checked in all runs: the checklist, the catalogue and the accounts can
always change, and a request that is refused is a step that changes nothing.

**Mutants.** An operator `name_variant` before a definition `name` is a plausible
wrong form of it. No action uses one; substituting it makes TLC report the property
that `PROJECT.json` pairs with it, which shows that the property depends on the code.

## 4. Theorems

Proved by TLAPS for every number of stages, requests, rows, people and documents and for
all bounds. Every property of a passing run is stated by a theorem, but for the liveness
property `EveryChangeTold`. The proofs use what the modules assume of their constants:

* the parties are disjoint sets, and each application has a customer and a member of staff
  (`PartiesAssumption`, `PartnersAssumption`); devices have a subject (`ClientsAssumption`);
* there are at least two stages (`FinalStageAssumption`), and bounds are natural numbers;
* the handlers of `Applications`, the chat requests and the requests of `Intake`
  (`RequestsAssumption`) are finitely many, and so are the kinds of document, an enum
  (`TypesAssumption`);
* `None`, which stands for an absent value, is none of the values it is told apart from.

Each proof module holds the theorems of one component. The safety properties are seldom
inductive, since a save may come from an arbitrarily old copy of its row: each proof adds
what requests know between two of their calls.

* **`ApplicationsProofs`**
  * For every interleaving and with losses, as all of them: `TypeCorrect`, `DisbursedIsLocked`,
    `RejectionCarriesReason`, `RejectionNeverUndone`. The invariant `IInv` adds what every copy
    in flight satisfies (`Snapshots`: the guards held for it, and it is rejected exactly if it
    has a reason). Then a save that stores the last stage also stores
    the lock, and `merged` never clears a rejection, because no edit does.
  * `ChangesTellRow`: every copy, however old, shows a stage the application had, and is locked
    at the last one (`Copies`); so each save is a move by one stage from a stage it had, a
    correction, or a rejection (`ChangeKinds`), and for each of the three the row after it
    follows from the list of changes that is longer by its line.
  * `ServiceKeepsPromise`: `changes` is mapped to the saves. A save maps to the change; each
    call after it maps to a report, which is outstanding because the handler that makes it is
    counted among those that owe it: for each report, those made and those owed are no more
    than those due. The checks, the gate, failures and crashes are stutters, since a report
    that is never made violates nothing.
  * `AuditIsAccountedFor`, for every interleaving and with losses: the inductive form
    (`Ledger`) is `AuditAccounts` for every audit row there could be, not only for those
    there are. A save raises what was saved and what is carried, a record moves a row from
    a handler's hands to the trail, and a loss drops at most the one row of each lost
    handler, which `failures` pays for.
  * About `Access`: `ChecksMatchMatrix`. Whoever is in flight got past the guard of the route
    and past the check in the service, of which neither implies the other; together they let
    through what the matrix grants, and the reads select by its scopes, for customers, staff
    and administrators.
* **`DeliveryProofs`**, for every interleaving, with calls, notifications and the process
  lost: `DeliveryImplementsApplications` (every step is one of `Applications` or leaves it
  alone, so the invariants above hold of the composition), `DeliveryTypeCorrect`, and
  * `BadgeIsAccountedFor`: the badge needs what is between the three calls of a reader
    (`Marks`): what is about to be shown is already marked, what is about to be marked and
    was not found has been put down as overtaken;
  * `ClosedThreadStaysClosed`: a rejection is stored before the thread says so and is never
    undone (`RejectionSaved`), so that no post starts afterwards; then a post that lands
    moves from those in flight to those in the thread, and the sum stays;
  * `InboxTellsWhatThreadSays`: two accounts, one behind the other. The stream of events
    lacks of the thread what handlers have still to publish or took with them
    (`StreamFollows`), and the inbox lacks of the stream what is being inserted or was lost
    (`InboxFollows`); every step changes both sides of one of them by the same amount, or
    pays with `failures` or `lost`. The property is their sum.
* **`DocumentsProofs`**
  * For every interleaving and with losses: `TypeCorrect`, `FilesExist`,
    `PendingMeansUntouched`, `SubmissionIsTheCustomers`. The invariant adds `InHand`: an
    upload in flight holds a stored file, a review found a row, and a row the review found
    sent has not become pending again. The last is what makes a save that does not send the
    status harmless. `GateIsBacked` needs it for every row, not only those the gate looks at
    (`Backed`); `VerdictsAreAudited` counts row by row, as the audit of applications does;
    `OnlyRejectionReopens` follows from the invariant in one step. `ScreensAskAsTheGate`: that
    the three computations agree rests on the types, a row being missing or of one of four
    states, and on counting: the kinds of document less those that are in are those that are
    not.
  * For the documents on which no two requests overlapped, while others may:
    `NotesTellRejections`, `UploadsStartOver`, `VerdictsAreCurrent`. `CInv` adds that two
    requests on a document make it an overlapped one (`Alone`) and that a review which met
    nobody holds the stored row until it saves (`Fresh`); its save then stores what it
    decided. Without the restriction two reviewers can leave a verified document with the
    other's rejection note.
* **`IntakeProofs`**: `TypeCorrect`, `ResumedNotDuplicated`, `NumbersRefusedAfterRaces`,
  `StaffStayTogether`, `NothingHalfMadeUnnoticed`. `Good(r)` is what a request may rely on
  from one call to the next: there still is nothing to resume, the number was free among the
  applications there were. The first holds only while requests do not overlap and nothing
  returns to stage 1. `StaffStayTogether` assumes neither: `Close` counts with the
  applications of a member of staff the requests that have chosen him, so that their inserts
  change nothing, and a choice is compared with everyone who was there from the beginning;
  what it lacks of the present loads are the requests that chose meanwhile, of which there
  are as many as requests, and the applications that closed or opened since.
* **`SignInProofs`**: `TypeCorrect` includes that no counter of wrong tries passes the limit,
  because a request that will count found one below it. For numbers whose requests never met,
  `AtMostOneLiveCode`, `NoWrongCodeIsLost` and `CodesWorkOnce` rest on there being one request
  at a time (`OneAtATime`) whose copy is what is stored (`Current`). `OneWelcomeEach` holds in
  every interleaving: of two first sign-ins the unique index lets one come to the welcome
  (`Welcoming`).
* **`SessionsProofs`**: `TypeCorrect` and `ChainsLeadForward`, for every interleaving and with
  losses; the invariant adds that a refresh about to save names a token that was issued,
  later, for the one it presented, and no step makes a revoked token live again.
  `UndisturbedSessionsSurvive`, `NoTokenGoesAstray` and `ChainsDoNotBranch`, for subjects whose
  devices were not disturbed: tokens stay with their subject (`Owned`), no token is in two
  hands (`Distinct`), so that a request presents the token its device still holds, and only
  its own save revokes it (`Undisturbed`).
* **`ProfilesProofs`**, for every interleaving, with failed writes and restarts:
  `TypeCorrect`, `CompleteProfilesAreWhole`, `NothingIsHalfDone`, `EveryFileIsAccountedFor`. A
  request without an error has stored each file that is no longer
  pending (`Written`) and sends all scans or none (`Shapes`); a row names the file of the last
  request that sent one (`LastWriter`), which is why each other file was replaced or belongs
  to a request that did not succeed.
* **`RegistryProofs`**, for any accounts, catalogue, updates and seed list: `TypeCorrect`,
  `NoStaleAuthority` (a step of one request, from the types alone: the account is read when
  the request is let through, and in the same step), `CatalogueIsExplained` (`Trail`: what the
  audit trail says of a product and what the update under way still owes),
  `SeedRunsAgain` (`Done`: what the run has achieved at each of its steps; what the API could
  undo is claimed only while nobody else writes).

Only model-checked: `EveryChangeTold`, which is liveness under fairness (TLAPS has no
`ENABLED`), and the three disagreements of section 3.

## 5. Not modelled, and what would come next

Left out:

* Commission, GST and EMI are formulas in floating point with rounding at the end; TLC and
  the provers compute with integers, and a fixed-point version would be another algorithm
  than the code's. `calculateFor`, the dashboards and the exports are not built.
* What is computed from a stored row each time it is shown and kept nowhere: the tracker, the
  status bucket, the fields of a list item, the counts of the overview.
* Reports, `reassign` of the overview, partner and staff lists: every one throws "not built".
* The connections and heartbeats of the live streams: they keep nothing; what a stream
  selects is `streamFor` in `Access`.
* Banners, gallery, support details and updates: one database call each, and nothing
  relates two of them.
* Serving files, input validation and formatting, masking, HTTP, configuration, wiring.

Next, in this order:

1. `Applications` and `Documents` together, `complete` replaced by `pendingMandatory`: what
   the gate guarantees when reviews run between the check and the save.
2. The hazards without a property (`PROJECT.json`), where the code promises anything there.
