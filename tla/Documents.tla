----------------------------- MODULE Documents ------------------------------
(***************************************************************************)
(* The document checklist of an application: what the customer uploads or  *)
(* enters, what staff verify or reject, and the check that gates the       *)
(* submission (src/documents/documents.service.ts).                        *)
(*                                                                         *)
(* As in Applications, an action is the code between two awaits with the   *)
(* effect of the call it ends in.  The upload and the bank endpoint update *)
(* a row in one database call; a review loads the row and saves the fields *)
(* that differ from what it loaded.                                        *)
(***************************************************************************)
EXTENDS Integers, Sequences, FiniteSets

CONSTANTS
  Apps,             \* application ids
  DocumentType,     \* the checklist; every type of it is mandatory
  BankStatement,    \* the one type that is entered and not uploaded
  Keys,             \* bound: keys of the file store, fresh for each upload
  Accounts,         \* bank details a customer can enter
  Staff, Notes,     \* reviewers, and the notes of their rejections
  Handlers,         \* uploads and reviews that can be in flight at a time
  None,             \* an absent row or field
  MaxReviews,       \* bound: verdicts on the documents of one application
  MaxFailures       \* bound: handlers lost to a failed call or a crash

ASSUME TypesAssumption ==
  BankStatement \in DocumentType /\ IsFiniteSet(DocumentType)

ASSUME NoneAssumption ==
  None \notin Keys \cup Accounts \cup Staff \cup Notes

ASSUME BoundsAssumption == MaxReviews \in Nat /\ MaxFailures \in Nat

VARIABLES
  documents,        \* documents[a][t]: the row of a checklist item, or None
  toSeed,           \* items the seeding of a new application has still to do
  files,            \* keys the file store holds
  handler,          \* the requests in flight
  audit,            \* audit rows of each application
  verdicts,         \* history: each review saved, with what it looked at
  overlapped,       \* history: documents that two requests met on
  failures          \* history: handlers lost

vars == <<documents, toSeed, files, handler, audit, verdicts, overlapped,
          failures>>

-----------------------------------------------------------------------------
(* Data *)

MANDATORY_DOCUMENTS == DocumentType

DocumentStatus == {"PENDING", "SUBMITTED", "VERIFIED", "REJECTED"}

(* submissionMethod is written with, and only with, manualBankDetails.     *)
Row == [status : DocumentStatus, fileRef : Keys \cup {None},
        manualBankDetails : Accounts \cup {None},
        rejectionNote : Notes \cup {None}, verifiedBy : Staff \cup {None},
        verifiedAt : BOOLEAN]

ASSUME NoRowAssumption == None \notin Row

(* A row that holds nothing but its status.                                *)
NewRow == [status |-> "PENDING", fileRef |-> None, manualBankDetails |-> None,
           rejectionNote |-> None, verifiedBy |-> None, verifiedAt |-> FALSE]

(* What findOneAndUpdate with upsert applies its update to.                *)
upserted(row) == IF row = None THEN NewRow ELSE row

Decision == {"verify", "reject"}

Submission == [fileRef : Keys \cup {None},
               manualBankDetails : Accounts \cup {None}]

submission(row) ==
  [fileRef |-> row.fileRef, manualBankDetails |-> row.manualBankDetails]

Idle == [pc |-> "idle"]

Uploading == [pc : {"store"}, app : Apps, type : DocumentType \ {BankStatement},
              key : Keys]

(* A rejection carries a note and a verification none.                     *)
Reviewing ==
  {b \in [pc : {"save", "record"}, app : Apps, type : DocumentType,
          decision : Decision, note : Notes \cup {None}, actor : Staff,
          seen : Row] :
     b.decision = "reject" <=> b.note # None}

AuditRow ==
  {r \in [action : {"DocumentVerified", "DocumentRejected"}, actor : Staff,
          reason : Notes \cup {None}] :
     r.action = "DocumentRejected" <=> r.reason # None}

Verdict == [type : DocumentType, row : AuditRow, of : Submission]

-----------------------------------------------------------------------------
(* Reading *)

accepted_notPending(row) == row # None /\ row.status # "PENDING"

accepted(row) == row # None /\ row.status \in {"SUBMITTED", "VERIFIED"}

(* The gate of the submission. *)
pendingMandatory(a) ==
  {t \in MANDATORY_DOCUMENTS : ~accepted(documents[a][t])}

(* The prompt of the list: counts down by the rows it finds. *)
pendingCountByApplication(a) ==
  LET rows == {t \in MANDATORY_DOCUMENTS : documents[a][t] # None} IN
  Cardinality(MANDATORY_DOCUMENTS) -
    Cardinality({t \in rows :
                   documents[a][t].status \in {"SUBMITTED", "VERIFIED"}})

(* The checklist, and with it the detail screen: a missing row is pending. *)
checklistView(a) ==
  [t \in MANDATORY_DOCUMENTS |->
     LET r == upserted(documents[a][t])
     IN [status |-> r.status, file |-> r.fileRef,
         rejectionNote |-> r.rejectionNote, verifiedAt |-> r.verifiedAt]]

pendingDocuments_onlyPending(a) ==
  {t \in MANDATORY_DOCUMENTS : checklistView(a)[t].status = "PENDING"}

(* What the detail screen asks for. *)
pendingDocuments(a) ==
  {t \in MANDATORY_DOCUMENTS :
     checklistView(a)[t].status \in {"PENDING", "REJECTED"}}

-----------------------------------------------------------------------------
(* Changing a row *)

uploaded_keepsVerdict(row, key) ==
  [row EXCEPT !.fileRef = key,
              !.status = IF @ = "VERIFIED" THEN @ ELSE "SUBMITTED",
              !.rejectionNote = None]

uploaded_pending(row, key) ==
  [row EXCEPT !.fileRef = key, !.status = "PENDING", !.rejectionNote = None,
              !.verifiedBy = None, !.verifiedAt = FALSE]

(* A new file clears the verdict on the old one.                           *)
uploaded(row, key) ==
  [row EXCEPT !.fileRef = key, !.status = "SUBMITTED", !.rejectionNote = None,
              !.verifiedBy = None, !.verifiedAt = FALSE]

(* New bank details clear the note and leave the reviewer of the old ones. *)
entered(row, account) ==
  [row EXCEPT !.manualBankDetails = account, !.status = "SUBMITTED",
              !.rejectionNote = None]

(* The row in the hands of a review when it is saved; b.note is absent     *)
(* when it verifies.                                                       *)
reviewed(b) ==
  [b.seen EXCEPT
     !.status = IF b.decision = "verify" THEN "VERIFIED" ELSE "REJECTED",
     !.verifiedBy = b.actor, !.verifiedAt = TRUE, !.rejectionNote = b.note]

delta(cur, old, new) == IF new = old THEN cur ELSE new

(* Mongoose sends the fields that differ from the loaded row; a new date   *)
(* differs from any other.  A review sets neither file nor bank details.   *)
merged(cur, old, new) ==
  [cur EXCEPT
     !.status = delta(@, old.status, new.status),
     !.verifiedBy = delta(@, old.verifiedBy, new.verifiedBy),
     !.verifiedAt = new.verifiedAt,
     !.rejectionNote = delta(@, old.rejectionNote, new.rejectionNote)]

auditRow(b) ==
  [action |-> IF b.decision = "verify" THEN "DocumentVerified"
                                       ELSE "DocumentRejected",
   actor |-> b.actor, reason |-> b.note]

-----------------------------------------------------------------------------
(* Operations *)

Init ==
  /\ documents = [a \in Apps |-> [t \in DocumentType |-> None]]
  /\ toSeed = [a \in Apps |-> MANDATORY_DOCUMENTS]
  /\ files = {}
  /\ handler = [h \in Handlers |-> Idle]
  /\ audit = [a \in Apps |-> << >>]
  /\ verdicts = [a \in Apps |-> << >>]
  /\ overlapped = {}
  /\ failures = 0

InFlight(h) == handler[h] # Idle

(* A request on document <<a, t>> starts: does it meet another one?        *)
Meet(a, t) ==
  overlapped' = overlapped \cup
    {d \in {<<a, t>>} : \E h \in Handlers :
        InFlight(h) /\ <<handler[h].app, handler[h].type>> = d}

Leave(h) == handler' = [handler EXCEPT ![h] = Idle]

(* One upsert of the bulk write that follows the creation of application   *)
(* a: $setOnInsert leaves a row that exists as it is.  The customer may    *)
(* upload before it ends, and a crash may end it early.                    *)
seedChecklist(a, t) ==
  /\ t \in toSeed[a]
  /\ documents' = [documents EXCEPT ![a][t] = upserted(@)]
  /\ toSeed' = [toSeed EXCEPT ![a] = @ \ {t}]
  /\ UNCHANGED <<files, handler, audit, verdicts, overlapped, failures>>

(* storage.save wrote the file under a fresh key.                          *)
upload(h, a, t, key) ==
  /\ ~InFlight(h)
  /\ t # BankStatement
  /\ Meet(a, t)
  /\ key \notin files
  /\ files' = files \cup {key}
  /\ handler' = [handler EXCEPT ![h] =
                   [pc |-> "store", app |-> a, type |-> t, key |-> key]]
  /\ UNCHANGED <<documents, toSeed, audit, verdicts, failures>>

store(h) ==
  LET b == handler[h] IN
  /\ InFlight(h) /\ b.pc = "store"
  /\ documents' = [documents EXCEPT ![b.app][b.type] =
                     uploaded(upserted(@), b.key)]
  /\ Leave(h)
  /\ UNCHANGED <<toSeed, files, audit, verdicts, overlapped, failures>>

submitManualBank(a, account, reEntered) ==
  /\ account = reEntered
  /\ Meet(a, BankStatement)
  /\ documents' = [documents EXCEPT ![a][BankStatement] =
                     entered(upserted(@), account)]
  /\ UNCHANGED <<toSeed, files, handler, audit, verdicts, failures>>

review_noteOptional(h, a, t, decision, note, u) ==
  /\ ~InFlight(h)
  /\ Meet(a, t)
  /\ Len(verdicts[a]) < MaxReviews
  /\ documents[a][t] # None
  /\ handler' = [handler EXCEPT ![h] =
        [pc |-> "save", app |-> a, type |-> t, decision |-> decision,
         note |-> IF decision = "reject" THEN note ELSE None,
         actor |-> u, seen |-> documents[a][t]]]
  /\ UNCHANGED <<documents, toSeed, files, audit, verdicts, failures>>

(* findById returned the row, whatever its status, and a rejection came    *)
(* with a note.                                                            *)
review(h, a, t, decision, note, u) ==
  /\ ~InFlight(h)
  /\ Meet(a, t)
  /\ Len(verdicts[a]) < MaxReviews
  /\ documents[a][t] # None
  /\ decision = "reject" => note # None
  /\ handler' = [handler EXCEPT ![h] =
        [pc |-> "save", app |-> a, type |-> t, decision |-> decision,
         note |-> IF decision = "reject" THEN note ELSE None,
         actor |-> u, seen |-> documents[a][t]]]
  /\ UNCHANGED <<documents, toSeed, files, audit, verdicts, failures>>

save_skipsAudit(h) ==
  LET b == handler[h] IN
  /\ InFlight(h) /\ b.pc = "save"
  /\ documents' = [documents EXCEPT ![b.app][b.type] =
                     merged(@, b.seen, reviewed(b))]
  /\ verdicts' = [verdicts EXCEPT ![b.app] = Append(@,
        [type |-> b.type, row |-> auditRow(b), of |-> submission(b.seen)])]
  /\ Leave(h)
  /\ UNCHANGED <<toSeed, files, audit, overlapped, failures>>

save(h) ==
  LET b == handler[h] IN
  /\ InFlight(h) /\ b.pc = "save"
  /\ documents' = [documents EXCEPT ![b.app][b.type] =
                     merged(@, b.seen, reviewed(b))]
  /\ verdicts' = [verdicts EXCEPT ![b.app] = Append(@,
        [type |-> b.type, row |-> auditRow(b), of |-> submission(b.seen)])]
  /\ handler' = [handler EXCEPT ![h].pc = "record"]
  /\ UNCHANGED <<toSeed, files, audit, overlapped, failures>>

record(h) ==
  LET b == handler[h] IN
  /\ InFlight(h) /\ b.pc = "record"
  /\ audit' = [audit EXCEPT ![b.app] = Append(@, auditRow(b))]
  /\ Leave(h)
  /\ UNCHANGED <<documents, toSeed, files, verdicts, overlapped, failures>>

(* A call of the handler rejects, or the process stops: what was done      *)
(* before stays done.  A crash is this for every handler in flight.        *)
fail(h) ==
  /\ InFlight(h)
  /\ failures < MaxFailures
  /\ failures' = failures + 1
  /\ Leave(h)
  /\ UNCHANGED <<documents, toSeed, files, audit, verdicts, overlapped>>

Next ==
  \/ \E a \in Apps, t \in DocumentType :
       \/ seedChecklist(a, t)
       \/ \E h \in Handlers, key \in Keys : upload(h, a, t, key)
       \/ \E h \in Handlers, decision \in Decision,
             note \in Notes \cup {None}, u \in Staff :
               review(h, a, t, decision, note, u)
  \/ \E a \in Apps, account, reEntered \in Accounts :
       submitManualBank(a, account, reEntered)
  \/ \E h \in Handlers : store(h) \/ save(h) \/ record(h) \/ fail(h)

Spec == Init /\ [][Next]_vars
-----------------------------------------------------------------------------
(* Properties of every interleaving *)

(* The type invariant: rows, requests in flight and logs keep their shape; *)
(* in particular no rejection is under way or audited without its note.    *)
TypeOK ==
  /\ documents \in [Apps -> [DocumentType -> Row \cup {None}]]
  /\ toSeed \in [Apps -> SUBSET MANDATORY_DOCUMENTS]
  /\ files \subseteq Keys
  /\ handler \in [Handlers -> {Idle} \cup Uploading \cup Reviewing]
  /\ audit \in [Apps -> Seq(AuditRow)]
  /\ verdicts \in [Apps -> Seq(Verdict)]
  /\ overlapped \subseteq Apps \X DocumentType
  /\ failures \in Nat

(* A row that names a file names one the store holds: the customer's link  *)
(* works, even when the process stops between the two writes.              *)
NoDanglingFile ==
  \A a \in Apps, t \in DocumentType :
    documents[a][t] # None /\ documents[a][t].fileRef # None
      => documents[a][t].fileRef \in files

(* A document shown as pending was never touched: the checklist is seeded  *)
(* after the application exists, and never over something the customer has *)
(* sent meanwhile.                                                         *)
PendingIsUntouched ==
  \A a \in Apps, t \in DocumentType :
    documents[a][t] # None /\ documents[a][t].status = "PENDING"
      => documents[a][t] = NewRow

Times(Test(_), seq) == Cardinality({i \in DOMAIN seq : Test(seq[i])})

(* The audit trail holds each stored verdict once, except those a request  *)
(* in flight has still to record and those lost with a request.            *)
ReviewsReachAudit ==
  \A a \in Apps : \A i \in DOMAIN verdicts[a] \cup DOMAIN audit[a] :
    LET row == IF i \in DOMAIN audit[a] THEN audit[a][i]
               ELSE verdicts[a][i].row
        inHand == {h \in Handlers : /\ InFlight(h)
                                    /\ handler[h].pc = "record"
                                    /\ handler[h].app = a
                                    /\ auditRow(handler[h]) = row}
        missing == Times(LAMBDA v : v.row = row, verdicts[a])
                     - Times(LAMBDA x : x = row, audit[a])
    IN missing - Cardinality(inHand) \in 0 .. failures

(* What the customer sent is replaced by what the customer sends, never by *)
(* the save of a review that loaded the row before.                        *)
ReviewKeepsSubmission ==
  [][\A h \in Handlers : (verdicts' # verdicts /\ handler'[h] # handler[h]) =>
       submission(documents'[handler[h].app][handler[h].type])
         = submission(documents[handler[h].app][handler[h].type])]_vars

(* Three computations of what is missing agree at every moment, rows that  *)
(* were never seeded and rejected ones included: the gate looks for what   *)
(* is in, the list counts down from the number of types, and the detail    *)
(* screen picks what is out.  So the screens prompt for something exactly  *)
(* as long as the gate refuses.                                            *)
PromptsAgree ==
  \A a \in Apps :
    /\ pendingDocuments(a) = pendingMandatory(a)
    /\ pendingCountByApplication(a) = Cardinality(pendingMandatory(a))

(* When the gate is open, or the list prompts for nothing, each document   *)
(* was sent by the customer or taken as verified by a member of staff who  *)
(* answers for it, however uploads and reviews overlapped.  (Staff may     *)
(* verify a document nobody sent: a submission alone is not implied.)      *)
GateBackedBySomeone ==
  \A a \in Apps :
    pendingMandatory(a) = {} \/ pendingCountByApplication(a) = 0 =>
      \A t \in MANDATORY_DOCUMENTS :
        \/ submission(documents[a][t]) # submission(NewRow)
        \/ \E i \in DOMAIN verdicts[a] :
             /\ verdicts[a][i].type = t
             /\ verdicts[a][i].row.action = "DocumentVerified"

(* A document that satisfies the gate stops doing so only when a member of *)
(* staff rejects it; seeding and resubmitting never reopen the checklist.  *)
GateReopenedByRejection ==
  [][\A a \in Apps : ~(pendingMandatory(a)' \subseteq pendingMandatory(a)) =>
       \E h \in Handlers : /\ InFlight(h)
                           /\ handler[h].pc = "save"
                           /\ handler[h].app = a
                           /\ handler[h].decision = "reject"
                           /\ handler'[h] # handler[h]]_vars

-----------------------------------------------------------------------------
(* Properties of a document on which no two requests overlapped *)

Calm(a, t) == <<a, t>> \notin overlapped /\ documents[a][t] # None

NoteMatches(a, t) ==
  LET item == checklistView(a)[t]
  IN item.rejectionNote # None <=> item.status = "REJECTED"

(* The customer sees a note exactly beside a rejected document.            *)
NoteTellsRejection ==
  \A a \in Apps, t \in DocumentType : Calm(a, t) => NoteMatches(a, t)

(* A verdict shown is the last one that staff gave on the document, with   *)
(* its reviewer and its note, and staff looked at what is stored.          *)
VerdictIsOfStoredSubmission ==
  \A a \in Apps, t \in DocumentType :
    Calm(a, t) /\ documents[a][t].status \in {"VERIFIED", "REJECTED"} =>
      LET row == documents[a][t]
          Verdicts == {i \in DOMAIN verdicts[a] : verdicts[a][i].type = t}
      IN \E i \in Verdicts :
           /\ \A j \in Verdicts : j <= i
           /\ verdicts[a][i].of = submission(row)
           /\ verdicts[a][i].row =
                [action |-> IF row.status = "VERIFIED" THEN "DocumentVerified"
                                                       ELSE "DocumentRejected",
                 actor |-> row.verifiedBy, reason |-> row.rejectionNote]

(* An uploaded file awaits its first verdict without traces of an old one. *)
(* (New bank details keep the reviewer and the date of the old ones.)      *)
UploadStartsOver ==
  \A a \in Apps, t \in DocumentType \ {BankStatement} :
    Calm(a, t) /\ documents[a][t].status = "SUBMITTED" =>
      /\ documents[a][t].verifiedBy = None
      /\ ~documents[a][t].verifiedAt
      /\ documents[a][t].rejectionNote = None

=============================================================================
