-------------------------- MODULE DocumentsProofs ---------------------------
(***************************************************************************)
(* Theorems about Documents, for every checklist, every set of requests in *)
(* flight and every bound: first of every interleaving (IInv), then of the *)
(* documents on which no two requests met (CInv), and of the verdicts and  *)
(* what is recorded of them (VInv).                                        *)
(***************************************************************************)
EXTENDS Documents, SequenceTheorems, FiniteSetTheorems, TLAPS

(* Three facts about requests in flight make the properties inductive: an  *)
(* upload holds a file that is stored, a review found a row, and a row     *)
(* that a review found sent has not become pending again.                  *)
InHand ==
  \A h \in Handlers : InFlight(h) =>
    LET b == handler[h]
        row == documents[b.app][b.type]
    IN /\ b.pc = "store" => b.key \in files
       /\ b.pc = "save" => /\ row # None
                           /\ b.seen.status # "PENDING"
                                => row.status # "PENDING"

(* The inductive invariant of every interleaving.                          *)
IInv == TypeOK /\ InHand /\ NoDanglingFile /\ PendingIsUntouched

-----------------------------------------------------------------------------
(* The operators *)

LEMMA NewRowFacts ==
  /\ NewRow \in Row
  /\ NewRow # None
  /\ NewRow.status = "PENDING"
  /\ NewRow.fileRef = None
<1>1. /\ NewRow \in Row
      /\ NewRow.status = "PENDING"
      /\ NewRow.fileRef = None
  BY DEF NewRow, Row, DocumentStatus
<1>2. QED
  BY <1>1, NoRowAssumption

(* An upsert finds a row or makes a new one, and a row is not "no row".    *)
LEMMA UpsertedFacts ==
  ASSUME NEW row \in Row \cup {None}
  PROVE  /\ upserted(row) \in Row
         /\ row # None => upserted(row) = row
         /\ row = None => upserted(row) = NewRow
BY NewRowFacts DEF upserted

LEMMA RowIsNotNone == ASSUME NEW row \in Row PROVE row # None
BY NoRowAssumption

(* What the customer sends leaves a row of status submitted.               *)
LEMMA SentFacts ==
  ASSUME NEW row \in Row
  PROVE  /\ \A key \in Keys :
              /\ uploaded(row, key) \in Row
              /\ uploaded(row, key).status = "SUBMITTED"
              /\ uploaded(row, key).fileRef = key
         /\ \A account \in Accounts :
              /\ entered(row, account) \in Row
              /\ entered(row, account).status = "SUBMITTED"
              /\ entered(row, account).fileRef = row.fileRef
BY DEF Row, uploaded, entered, DocumentStatus

LEMMA ReviewedFacts ==
  ASSUME NEW b \in Reviewing
  PROVE  /\ reviewed(b) \in Row
         /\ reviewed(b).status \in {"VERIFIED", "REJECTED"}
         /\ reviewed(b).verifiedAt = TRUE
         /\ reviewed(b).rejectionNote # None <=>
              reviewed(b).status = "REJECTED"
         /\ auditRow(b) \in AuditRow
         /\ submission(b.seen) \in Submission
<1>1. /\ b.seen \in Row
      /\ b.note \in Notes \cup {None}
      /\ b.actor \in Staff
      /\ b.decision \in Decision
      /\ b.decision = "reject" <=> b.note # None
  BY DEF Reviewing
<1>2. /\ reviewed(b) \in Row
      /\ reviewed(b).status =
           IF b.decision = "verify" THEN "VERIFIED" ELSE "REJECTED"
      /\ reviewed(b).verifiedAt = TRUE
      /\ reviewed(b).rejectionNote = b.note
  BY <1>1 DEF Row, reviewed, DocumentStatus
<1>3. auditRow(b) \in AuditRow
  BY <1>1 DEF auditRow, AuditRow, Decision
<1>4. submission(b.seen) \in Submission
  BY <1>1 DEF Row, submission, Submission
<1>5. QED
  BY <1>1, <1>2, <1>3, <1>4 DEF Decision

(* A save changes what the review changed, and never the submission.       *)
LEMMA MergedFacts ==
  ASSUME NEW cur \in Row, NEW old \in Row, NEW new \in Row
  PROVE  /\ merged(cur, old, new) \in Row
         /\ merged(cur, old, new).fileRef = cur.fileRef
         /\ submission(merged(cur, old, new)) = submission(cur)
         /\ merged(cur, old, new).status =
              IF new.status = old.status THEN cur.status ELSE new.status
BY DEF Row, merged, delta, submission

-----------------------------------------------------------------------------
(* The invariant holds initially *)

LEMMA InitIInv == Init => IInv
<1> SUFFICES ASSUME Init PROVE IInv
  OBVIOUS
<1>1. TypeOK
  BY DEF Init, TypeOK
<1>2. InHand
  BY DEF Init, InHand, InFlight
<1>3. NoDanglingFile /\ PendingIsUntouched
  BY DEF Init, NoDanglingFile, PendingIsUntouched
<1>4. QED
  BY <1>1, <1>2, <1>3 DEF IInv

-----------------------------------------------------------------------------
(* Every step keeps it.  A step that changes documents changes one row to  *)
(* a row; what the rest of the proof needs of it is stated once.           *)

(* Row <<a, t>> becomes `row', the other rows stay.                        *)
Becomes(a, t, row) ==
  documents' = [documents EXCEPT ![a][t] = row]

LEMMA BecomesFacts ==
  ASSUME TypeOK, NEW a \in Apps, NEW t \in DocumentType, NEW row \in Row,
         Becomes(a, t, row)
  PROVE  /\ documents' \in [Apps -> [DocumentType -> Row \cup {None}]]
         /\ documents'[a][t] = row
         /\ \A x \in Apps, y \in DocumentType :
              <<x, y>> # <<a, t>> => documents'[x][y] = documents[x][y]
BY DEF TypeOK, Becomes

(* Rows that keep their file, or name a stored one, and do not go back to  *)
(* pending keep the two properties of rows and those of reviews in flight. *)
LEMMA RowsKept ==
  ASSUME IInv, NEW a \in Apps, NEW t \in DocumentType, NEW row \in Row,
         Becomes(a, t, row), files' = files,
         row.fileRef \in files \cup {None},
         row.status = "PENDING" => row = NewRow,
         documents[a][t] # None /\ documents[a][t].status # "PENDING"
           => row.status # "PENDING"
  PROVE  /\ NoDanglingFile'
         /\ PendingIsUntouched'
         /\ \A x \in Apps, y \in DocumentType : documents[x][y] # None =>
              /\ documents'[x][y] # None
              /\ documents[x][y].status # "PENDING"
                   => documents'[x][y].status # "PENDING"
<1>1. /\ documents'[a][t] = row
      /\ \A x \in Apps, y \in DocumentType :
           <<x, y>> # <<a, t>> => documents'[x][y] = documents[x][y]
  BY BecomesFacts DEF IInv
<1>2. row # None
  BY RowIsNotNone
<1>3. NoDanglingFile'
  BY <1>1 DEF IInv, NoDanglingFile
<1>4. PendingIsUntouched'
  BY <1>1 DEF IInv, PendingIsUntouched
<1>5. QED
  BY <1>1, <1>2, <1>3, <1>4

LEMMA SeedIInv ==
  ASSUME IInv, NEW a \in Apps, NEW t \in DocumentType, seedChecklist(a, t)
  PROVE  IInv'
<1> DEFINE row == upserted(documents[a][t])
<1>1. documents[a][t] \in Row \cup {None}
  BY DEF IInv, TypeOK
<1>2. /\ row \in Row
      /\ documents[a][t] # None => row = documents[a][t]
      /\ documents[a][t] = None => row = NewRow
  BY <1>1, UpsertedFacts
<1>3. Becomes(a, t, row) /\ files' = files /\ handler' = handler
  BY DEF seedChecklist, Becomes
<1>4. /\ row.fileRef \in files \cup {None}
      /\ row.status = "PENDING" => row = NewRow
  BY <1>2, NewRowFacts DEF IInv, NoDanglingFile, PendingIsUntouched
<1> HIDE DEF row
<1>5. TypeOK'
  <2>1. documents' \in [Apps -> [DocumentType -> Row \cup {None}]]
    BY <1>2, <1>3, BecomesFacts DEF IInv
  <2>2. QED
    BY <2>1 DEF IInv, TypeOK, seedChecklist
<1>6. /\ NoDanglingFile' /\ PendingIsUntouched'
      /\ \A x \in Apps, y \in DocumentType : documents[x][y] # None =>
           /\ documents'[x][y] # None
           /\ documents[x][y].status # "PENDING"
                => documents'[x][y].status # "PENDING"
  BY <1>2, <1>3, <1>4, RowsKept
<1>7. InHand'
  BY <1>3, <1>6 DEF IInv, TypeOK, InHand, InFlight, Uploading, Reviewing
<1>8. QED
  BY <1>5, <1>6, <1>7 DEF IInv

LEMMA UploadIInv ==
  ASSUME IInv, NEW h \in Handlers, NEW a \in Apps, NEW t \in DocumentType,
         NEW key \in Keys, upload(h, a, t, key)
  PROVE  IInv'
<1> DEFINE b == [pc |-> "store", app |-> a, type |-> t, key |-> key]
<1>1. /\ b \in Uploading
      /\ handler' = [handler EXCEPT ![h] = b]
      /\ files' = files \cup {key}
      /\ documents' = documents
  BY DEF upload, Uploading
<1>2. TypeOK'
  BY <1>1 DEF IInv, TypeOK, upload, Meet
<1>3. InHand'
  BY <1>1 DEF IInv, TypeOK, InHand, InFlight
<1>4. NoDanglingFile' /\ PendingIsUntouched'
  BY <1>1 DEF IInv, NoDanglingFile, PendingIsUntouched
<1>5. QED
  BY <1>2, <1>3, <1>4 DEF IInv

(* What leaves its row is what remains in hand.                            *)
LEMMA InHandKept ==
  ASSUME IInv,
         \A h \in Handlers : handler'[h] = handler[h] \/ ~InFlight(h)'
                               \/ handler'[h].pc = "record",
         files' = files,
         \A x \in Apps, y \in DocumentType : documents[x][y] # None =>
           /\ documents'[x][y] # None
           /\ documents[x][y].status # "PENDING"
                => documents'[x][y].status # "PENDING"
  PROVE  InHand'
BY DEF IInv, TypeOK, InHand, InFlight, Uploading, Reviewing

LEMMA StoreIInv ==
  ASSUME IInv, NEW h \in Handlers, store(h)
  PROVE  IInv'
<1> DEFINE b == handler[h]
           row == uploaded(upserted(documents[b.app][b.type]), b.key)
<1>1. b \in Uploading
  BY DEF IInv, TypeOK, store, InFlight, Reviewing
<1>2. b.app \in Apps /\ b.type \in DocumentType /\ b.key \in Keys
  BY <1>1 DEF Uploading
<1>3. documents[b.app][b.type] \in Row \cup {None}
  BY <1>2 DEF IInv, TypeOK
<1>4. row \in Row /\ row.status = "SUBMITTED" /\ row.fileRef = b.key
  BY <1>2, <1>3, UpsertedFacts, SentFacts
<1>5. b.key \in files
  BY DEF IInv, InHand, store
<1>6. /\ Becomes(b.app, b.type, row)
      /\ files' = files
      /\ handler' = [handler EXCEPT ![h] = Idle]
  BY DEF store, Becomes, Leave
<1> HIDE DEF row
<1>7. TypeOK'
  <2>1. documents' \in [Apps -> [DocumentType -> Row \cup {None}]]
    BY <1>2, <1>4, <1>6, BecomesFacts DEF IInv
  <2>2. QED
    BY <1>6, <2>1 DEF IInv, TypeOK, store
<1>8. /\ NoDanglingFile' /\ PendingIsUntouched'
      /\ \A x \in Apps, y \in DocumentType : documents[x][y] # None =>
           /\ documents'[x][y] # None
           /\ documents[x][y].status # "PENDING"
                => documents'[x][y].status # "PENDING"
  BY <1>2, <1>4, <1>5, <1>6, RowsKept
<1>9. InHand'
  BY <1>6, <1>8, InHandKept DEF IInv, TypeOK, InFlight
<1>10. QED
  BY <1>7, <1>8, <1>9 DEF IInv

LEMMA BankIInv ==
  ASSUME IInv, NEW a \in Apps, NEW account \in Accounts,
         NEW reEntered \in Accounts, submitManualBank(a, account, reEntered)
  PROVE  IInv'
<1> DEFINE t == BankStatement
           row == entered(upserted(documents[a][t]), account)
<1>1. t \in DocumentType
  BY TypesAssumption
<1>2. documents[a][t] \in Row \cup {None}
  BY <1>1 DEF IInv, TypeOK
<1>3. /\ row \in Row
      /\ row.status = "SUBMITTED"
      /\ row.fileRef = upserted(documents[a][t]).fileRef
  BY <1>2, UpsertedFacts, SentFacts
<1>4. row.fileRef \in files \cup {None}
  BY <1>1, <1>2, <1>3, UpsertedFacts, NewRowFacts DEF IInv, NoDanglingFile
<1>5. Becomes(a, t, row) /\ files' = files /\ handler' = handler
  BY DEF submitManualBank, Becomes
<1> HIDE DEF row
<1>6. TypeOK'
  <2>1. documents' \in [Apps -> [DocumentType -> Row \cup {None}]]
    BY <1>1, <1>3, <1>5, BecomesFacts DEF IInv
  <2>2. QED
    BY <1>1, <2>1 DEF IInv, TypeOK, submitManualBank, Meet
<1>7. /\ NoDanglingFile' /\ PendingIsUntouched'
      /\ \A x \in Apps, y \in DocumentType : documents[x][y] # None =>
           /\ documents'[x][y] # None
           /\ documents[x][y].status # "PENDING"
                => documents'[x][y].status # "PENDING"
  BY <1>1, <1>3, <1>4, <1>5, RowsKept
<1>8. InHand'
  BY <1>5, <1>7, InHandKept
<1>9. QED
  BY <1>6, <1>7, <1>8 DEF IInv

LEMMA ReviewIInv ==
  ASSUME IInv, NEW h \in Handlers, NEW a \in Apps, NEW t \in DocumentType,
         NEW decision \in Decision, NEW note \in Notes \cup {None},
         NEW u \in Staff, review(h, a, t, decision, note, u)
  PROVE  IInv'
<1> DEFINE b == [pc |-> "save", app |-> a, type |-> t, decision |-> decision,
                 note |-> IF decision = "reject" THEN note ELSE None,
                 actor |-> u, seen |-> documents[a][t]]
<1>1. documents[a][t] \in Row
  BY DEF IInv, TypeOK, review
<1>2. b \in Reviewing
  BY <1>1 DEF review, Reviewing
<1>3. /\ handler' = [handler EXCEPT ![h] = b]
      /\ files' = files
      /\ documents' = documents
  BY DEF review
<1>4. TypeOK'
  BY <1>2, <1>3 DEF IInv, TypeOK, review, Meet
<1>5. InHand'
  <2>1. b.pc = "save" /\ b.seen = documents[b.app][b.type] /\ b.seen # None
    BY <1>1, RowIsNotNone
  <2> HIDE DEF b
  <2>2. QED
    BY <1>3, <2>1 DEF IInv, TypeOK, InHand, InFlight
<1>6. NoDanglingFile' /\ PendingIsUntouched'
  BY <1>3 DEF IInv, NoDanglingFile, PendingIsUntouched
<1>7. QED
  BY <1>4, <1>5, <1>6 DEF IInv

(* What a save does to the row of its document.                            *)
LEMMA SaveFacts ==
  ASSUME IInv, NEW h \in Handlers, save(h)
  PROVE  LET b == handler[h]
             cur == documents[b.app][b.type]
             row == merged(cur, b.seen, reviewed(b))
         IN /\ b \in Reviewing /\ b.app \in Apps /\ b.type \in DocumentType
            /\ cur \in Row
            /\ Becomes(b.app, b.type, row)
            /\ row \in Row
            /\ row.fileRef = cur.fileRef
            /\ submission(row) = submission(cur)
            /\ row.status # "PENDING"
<1> DEFINE b == handler[h]
           cur == documents[b.app][b.type]
           row == merged(cur, b.seen, reviewed(b))
<1>1. b \in Reviewing
  BY DEF IInv, TypeOK, save, InFlight, Uploading
<1>2. b.app \in Apps /\ b.type \in DocumentType /\ b.seen \in Row
  BY <1>1 DEF Reviewing
<1>3. cur \in Row
  BY <1>2 DEF IInv, TypeOK, InHand, save
<1>4. reviewed(b) \in Row /\ reviewed(b).status \in {"VERIFIED", "REJECTED"}
  BY <1>1, ReviewedFacts
<1>5. /\ row \in Row
      /\ row.fileRef = cur.fileRef
      /\ submission(row) = submission(cur)
      /\ row.status = IF reviewed(b).status = b.seen.status
                      THEN cur.status ELSE reviewed(b).status
  BY <1>2, <1>3, <1>4, MergedFacts
<1>6. b.seen.status # "PENDING" => cur.status # "PENDING"
  BY DEF IInv, InHand, save
<1>7. row.status # "PENDING"
  BY <1>4, <1>5, <1>6
<1>8. Becomes(b.app, b.type, row)
  BY DEF save, Becomes
<1>9. QED
  BY <1>1, <1>2, <1>3, <1>5, <1>7, <1>8

LEMMA SaveIInv ==
  ASSUME IInv, NEW h \in Handlers, save(h)
  PROVE  IInv'
<1> DEFINE b == handler[h]
           cur == documents[b.app][b.type]
           row == merged(cur, b.seen, reviewed(b))
<1>1. /\ b \in Reviewing /\ b.app \in Apps /\ b.type \in DocumentType
      /\ cur \in Row
      /\ Becomes(b.app, b.type, row)
      /\ row \in Row
      /\ row.fileRef = cur.fileRef
      /\ row.status # "PENDING"
  BY SaveFacts
<1>2. /\ files' = files
      /\ handler' = [handler EXCEPT ![h].pc = "record"]
  BY DEF save
<1>3. row.fileRef \in files \cup {None}
  BY <1>1, RowIsNotNone DEF IInv, NoDanglingFile
<1> HIDE DEF row
<1>4. TypeOK'
  <2>1. documents' \in [Apps -> [DocumentType -> Row \cup {None}]]
    BY <1>1, BecomesFacts DEF IInv
  <2>2. handler' \in [Handlers -> {Idle} \cup Uploading \cup Reviewing]
    <3>1. [b EXCEPT !.pc = "record"] \in Reviewing
      BY <1>1 DEF Reviewing
    <3>2. QED
      BY <1>2, <3>1 DEF IInv, TypeOK
  <2>3. verdicts' \in [Apps -> Seq(Verdict)]
    <3> DEFINE v == [type |-> b.type, row |-> auditRow(b),
                     of |-> submission(b.seen)]
    <3>1. v \in Verdict
      BY <1>1, ReviewedFacts DEF Verdict
    <3>2. verdicts' = [verdicts EXCEPT ![b.app] = Append(@, v)]
      BY DEF save
    <3> HIDE DEF v
    <3>3. QED
      BY <1>1, <3>1, <3>2 DEF IInv, TypeOK
  <2>4. QED
    BY <2>1, <2>2, <2>3 DEF IInv, TypeOK, save
<1>5. /\ NoDanglingFile' /\ PendingIsUntouched'
      /\ \A x \in Apps, y \in DocumentType : documents[x][y] # None =>
           /\ documents'[x][y] # None
           /\ documents[x][y].status # "PENDING"
                => documents'[x][y].status # "PENDING"
  BY <1>1, <1>2, <1>3, RowsKept
<1>6. InHand'
  <2>1. handler'[h].pc = "record"
    BY <1>1, <1>2 DEF IInv, TypeOK, Reviewing
  <2>2. \A k \in Handlers : k # h => handler'[k] = handler[k]
    BY <1>2 DEF IInv, TypeOK
  <2>3. QED
    BY <1>2, <1>5, <2>1, <2>2, InHandKept
<1>7. QED
  BY <1>4, <1>5, <1>6 DEF IInv

(* A request that ends changes no row.                                     *)
LEMMA EndIInv ==
  ASSUME IInv, NEW h \in Handlers, record(h) \/ fail(h)
  PROVE  IInv'
<1>1. /\ handler' = [handler EXCEPT ![h] = Idle]
      /\ documents' = documents
      /\ files' = files
  BY DEF record, fail, Leave
<1>2. TypeOK'
  <2>1. CASE record(h)
    <3> DEFINE b == handler[h]
    <3>1. b \in Reviewing
      BY <2>1 DEF IInv, TypeOK, record, InFlight, Uploading
    <3>2. auditRow(b) \in AuditRow /\ b.app \in Apps
      BY <3>1, ReviewedFacts DEF Reviewing
    <3>3. audit' = [audit EXCEPT ![b.app] = Append(@, auditRow(b))]
      BY <2>1 DEF record
    <3>4. audit' \in [Apps -> Seq(AuditRow)]
      BY <3>2, <3>3 DEF IInv, TypeOK
    <3>5. QED
      BY <1>1, <2>1, <3>4 DEF IInv, TypeOK, record
  <2>2. CASE fail(h)
    BY <1>1, <2>2 DEF IInv, TypeOK, fail
  <2>3. QED
    BY <2>1, <2>2
<1>3. InHand'
  BY <1>1, InHandKept DEF IInv, TypeOK, InFlight
<1>4. NoDanglingFile' /\ PendingIsUntouched'
  BY <1>1 DEF IInv, NoDanglingFile, PendingIsUntouched
<1>5. QED
  BY <1>2, <1>3, <1>4 DEF IInv

LEMMA NextIInv == IInv /\ [Next]_vars => IInv'
<1> SUFFICES ASSUME IInv, [Next]_vars PROVE IInv'
  OBVIOUS
<1>1. CASE UNCHANGED vars
  BY <1>1 DEF vars, IInv, TypeOK, InHand, InFlight, NoDanglingFile,
    PendingIsUntouched
<1>2. ASSUME NEW a \in Apps, NEW t \in DocumentType, seedChecklist(a, t)
      PROVE  IInv'
  BY <1>2, SeedIInv
<1>3. ASSUME NEW a \in Apps, NEW t \in DocumentType, NEW h \in Handlers,
             NEW key \in Keys, upload(h, a, t, key)
      PROVE  IInv'
  BY <1>3, UploadIInv
<1>4. ASSUME NEW a \in Apps, NEW t \in DocumentType, NEW h \in Handlers,
             NEW decision \in Decision, NEW note \in Notes \cup {None},
             NEW u \in Staff, review(h, a, t, decision, note, u)
      PROVE  IInv'
  BY <1>4, ReviewIInv
<1>5. ASSUME NEW a \in Apps, NEW account \in Accounts,
             NEW reEntered \in Accounts,
             submitManualBank(a, account, reEntered)
      PROVE  IInv'
  BY <1>5, BankIInv
<1>6. ASSUME NEW h \in Handlers, store(h) \/ save(h) \/ record(h) \/ fail(h)
      PROVE  IInv'
  BY <1>6, StoreIInv, SaveIInv, EndIInv
<1>7. QED
  BY <1>1, <1>2, <1>3, <1>4, <1>5, <1>6 DEF Next

-----------------------------------------------------------------------------
(* Theorems *)

LEMMA Invariance == Spec => []IInv
<1>1. QED
  BY InitIInv, NextIInv, PTL DEF Spec

(* Rows, requests in flight and logs keep their types, and no rejection is *)
(* under way or audited without a note (review demands one).               *)
THEOREM TypeCorrect == Spec => []TypeOK
<1>1. IInv => TypeOK
  BY DEF IInv
<1>2. QED
  BY <1>1, Invariance, PTL

(* In every interleaving of uploads, reviews and losses, a row names only  *)
(* files the store holds (upload writes the file before the row).          *)
THEOREM FilesExist == Spec => []NoDanglingFile
<1>1. IInv => NoDanglingFile
  BY DEF IInv
<1>2. QED
  BY <1>1, Invariance, PTL

(* A row shown as pending has never been touched: neither the seeding nor  *)
(* a review that loaded an older row takes a document back to pending.     *)
THEOREM PendingMeansUntouched == Spec => []PendingIsUntouched
<1>1. IInv => PendingIsUntouched
  BY DEF IInv
<1>2. QED
  BY <1>1, Invariance, PTL

(* The save of a review leaves the submission as it is stored, whatever    *)
(* the review had loaded.                                                  *)
THEOREM SubmissionIsTheCustomers == Spec => ReviewKeepsSubmission
<1> DEFINE A == \A h \in Handlers :
                  (verdicts' # verdicts /\ handler'[h] # handler[h]) =>
                    submission(documents'[handler[h].app][handler[h].type])
                      = submission(documents[handler[h].app][handler[h].type])
<1>1. IInv /\ [Next]_vars => [A]_vars
  <2> SUFFICES ASSUME IInv, Next, verdicts' # verdicts, NEW h \in Handlers,
                      handler'[h] # handler[h]
               PROVE  submission(documents'[handler[h].app][handler[h].type])
                        = submission(documents[handler[h].app][handler[h].type])
    BY DEF vars
  <2>1. PICK k \in Handlers : save(k)
    BY DEF Next, seedChecklist, upload, review, submitManualBank, store,
      record, fail
  <2>2. k = h
    BY <2>1 DEF save, IInv, TypeOK
  <2> DEFINE b == handler[h]
             cur == documents[b.app][b.type]
             row == merged(cur, b.seen, reviewed(b))
  <2>3. /\ b.app \in Apps /\ b.type \in DocumentType
        /\ Becomes(b.app, b.type, row)
        /\ row \in Row
        /\ submission(row) = submission(cur)
    BY <2>1, <2>2, SaveFacts
  <2>4. documents'[b.app][b.type] = row
    BY <2>3, BecomesFacts DEF IInv
  <2>5. QED
    BY <2>3, <2>4
<1>2. QED
  BY <1>1, Invariance, PTL DEF Spec, ReviewKeepsSubmission

-----------------------------------------------------------------------------
(* What is guaranteed on a document on which no two requests overlapped,   *)
(* while others may.                                                       *)

On(h, a, t) == InFlight(h) /\ handler[h].app = a /\ handler[h].type = t

(* Two requests on one document make it one of the overlapped ones.        *)
Alone ==
  \A a \in Apps, t \in DocumentType : \A h, k \in Handlers :
    On(h, a, t) /\ On(k, a, t) /\ h # k => <<a, t>> \in overlapped

(* A review that met no other request holds the stored row until it saves. *)
Fresh ==
  \A a \in Apps, t \in DocumentType : \A h \in Handlers :
    On(h, a, t) /\ handler[h].pc = "save" /\ <<a, t>> \notin overlapped
      => handler[h].seen = documents[a][t]

(* The two properties, of one row. *)
Tidy(row, t) ==
  /\ row.rejectionNote # None <=> row.status = "REJECTED"
  /\ t # BankStatement /\ row.status = "SUBMITTED" =>
       row.verifiedBy = None /\ ~row.verifiedAt /\ row.rejectionNote = None

CalmRows ==
  \A a \in Apps, t \in DocumentType : Calm(a, t) => Tidy(documents[a][t], t)

CInv == IInv /\ Alone /\ Fresh /\ CalmRows

-----------------------------------------------------------------------------
(* The operators *)

(* Counting down by what is in leaves what is out.                         *)
LEMMA CountFacts ==
  ASSUME NEW a \in Apps
  PROVE  pendingCountByApplication(a) = Cardinality(pendingMandatory(a))
<1> DEFINE all == MANDATORY_DOCUMENTS
           out == pendingMandatory(a)
           sent == {t \in all : accepted(documents[a][t])}
<1>1. IsFiniteSet(all) /\ out \subseteq all /\ sent = all \ out
  BY TypesAssumption DEF MANDATORY_DOCUMENTS, pendingMandatory
<1>2. {t \in {u \in all : documents[a][u] # None} :
         documents[a][t].status \in {"SUBMITTED", "VERIFIED"}} = sent
  BY DEF accepted
<1>3. pendingCountByApplication(a) = Cardinality(all) - Cardinality(sent)
  BY <1>2 DEF pendingCountByApplication
<1> HIDE DEF all, out, sent
<1>4. Cardinality(all \ out) = Cardinality(all) - Cardinality(all \cap out)
  BY <1>1, FS_Difference
<1>5. all \cap out = out
  BY <1>1
<1>6. Cardinality(all) \in Nat /\ Cardinality(out) \in Nat
  BY <1>1, FS_Subset, FS_CardinalityType
<1>7. QED
  BY <1>1, <1>3, <1>4, <1>5, <1>6 DEF all, out

LEMMA CalmGivesProperties == CInv => NoteTellsRejection /\ UploadStartsOver
<1> SUFFICES ASSUME CInv PROVE NoteTellsRejection /\ UploadStartsOver
  OBVIOUS
<1>1. ASSUME NEW a \in Apps, NEW t \in DocumentType, Calm(a, t)
      PROVE  NoteMatches(a, t)
  <2> DEFINE row == documents[a][t]
  <2>1. upserted(row) = row
    BY <1>1 DEF Calm, upserted
  <2>2. /\ checklistView(a)[t].status = row.status
        /\ checklistView(a)[t].rejectionNote = row.rejectionNote
    BY <2>1 DEF checklistView, MANDATORY_DOCUMENTS
  <2>3. Tidy(row, t)
    BY <1>1 DEF CInv, CalmRows
  <2>4. QED
    BY <2>2, <2>3 DEF NoteMatches, Tidy
<1>2. NoteTellsRejection
  BY <1>1 DEF NoteTellsRejection
<1>3. UploadStartsOver
  BY DEF CInv, CalmRows, Tidy, UploadStartsOver
<1>4. QED
  BY <1>2, <1>3

LEMMA TidyNewRow == ASSUME NEW t \in DocumentType PROVE Tidy(NewRow, t)
BY DEF Tidy, NewRow

LEMMA TidyUploaded ==
  ASSUME NEW row \in Row, NEW key \in Keys, NEW t \in DocumentType
  PROVE  Tidy(uploaded(row, key), t)
BY DEF Tidy, uploaded, Row

LEMMA TidyEntered ==
  ASSUME NEW row \in Row, NEW account \in Accounts
  PROVE  Tidy(entered(row, account), BankStatement)
BY DEF Tidy, entered, Row

(* A save from a row that is still stored stores what the review decided.  *)
LEMMA TidyMerged ==
  ASSUME NEW b \in Reviewing, NEW t \in DocumentType
  PROVE  Tidy(merged(b.seen, b.seen, reviewed(b)), t)
<1>1. b.seen \in Row
  BY DEF Reviewing
<1>2. /\ reviewed(b) \in Row
      /\ reviewed(b).status \in {"VERIFIED", "REJECTED"}
      /\ reviewed(b).rejectionNote # None <=> reviewed(b).status = "REJECTED"
  BY ReviewedFacts
<1>3. LET row == merged(b.seen, b.seen, reviewed(b))
      IN /\ row.status = reviewed(b).status
         /\ row.rejectionNote = reviewed(b).rejectionNote
  BY <1>1, <1>2 DEF Row, merged, delta
<1>4. QED
  BY <1>2, <1>3 DEF Tidy

-----------------------------------------------------------------------------
(* Kinds of steps *)

(* Meet only ever adds a document, and adds it when a request is on it.    *)
LEMMA MeetFacts ==
  ASSUME NEW a \in Apps, NEW t \in DocumentType, Meet(a, t)
  PROVE  /\ overlapped \subseteq overlapped'
         /\ \A h \in Handlers : On(h, a, t) => <<a, t>> \in overlapped'
BY DEF Meet, On

(* A row that becomes tidy, unless it is an overlapped one.                *)
LEMMA CalmRowsKept ==
  ASSUME CInv, NEW a \in Apps, NEW t \in DocumentType, NEW row \in Row,
         Becomes(a, t, row), overlapped \subseteq overlapped',
         <<a, t>> \notin overlapped' => Tidy(row, t)
  PROVE  CalmRows'
<1>1. /\ documents'[a][t] = row
      /\ \A x \in Apps, y \in DocumentType :
           <<x, y>> # <<a, t>> => documents'[x][y] = documents[x][y]
  BY BecomesFacts DEF CInv, IInv
<1>2. QED
  BY <1>1 DEF CInv, CalmRows, Calm

(* A step in which requests only go on, or end.                            *)
LEMMA AloneKept ==
  ASSUME CInv, overlapped \subseteq overlapped',
         \A k \in Handlers : InFlight(k)' =>
           /\ InFlight(k)
           /\ handler'[k].app = handler[k].app
           /\ handler'[k].type = handler[k].type
  PROVE  Alone'
BY DEF CInv, Alone, On

(* A request starts on a document.                                         *)
LEMMA StartCInv ==
  ASSUME CInv, NEW h \in Handlers, NEW a \in Apps, NEW t \in DocumentType,
         NEW b \in Uploading \cup Reviewing, b.app = a, b.type = t,
         Meet(a, t), handler' = [handler EXCEPT ![h] = b],
         documents' = documents,
         b.pc = "save" => b.seen = documents[a][t]
  PROVE  Alone' /\ Fresh' /\ CalmRows'
<1>1. /\ handler'[h] = b
      /\ \A k \in Handlers : k # h => handler'[k] = handler[k]
  BY DEF CInv, IInv, TypeOK
<1>2. /\ overlapped \subseteq overlapped'
      /\ \A k \in Handlers : On(k, a, t) => <<a, t>> \in overlapped'
  BY MeetFacts
<1>3. Alone'
  <2> SUFFICES ASSUME NEW x \in Apps, NEW y \in DocumentType,
                      NEW j \in Handlers, NEW k \in Handlers, j # k,
                      On(j, x, y)', On(k, x, y)'
               PROVE  <<x, y>> \in overlapped'
    BY DEF Alone
  <2>1. CASE j # h /\ k # h
    <3>1. On(j, x, y) /\ On(k, x, y)
      BY <1>1, <2>1 DEF On, InFlight
    <3>2. QED
      BY <1>2, <3>1 DEF CInv, Alone
  <2>2. CASE j = h
    <3>1. x = a /\ y = t /\ On(k, x, y)
      BY <1>1, <2>2 DEF On, InFlight
    <3>2. QED
      BY <1>2, <3>1
  <2>3. CASE k = h
    <3>1. x = a /\ y = t /\ On(j, x, y)
      BY <1>1, <2>3 DEF On, InFlight
    <3>2. QED
      BY <1>2, <3>1
  <2>4. QED
    BY <2>1, <2>2, <2>3
<1>4. Fresh'
  <2> SUFFICES ASSUME NEW x \in Apps, NEW y \in DocumentType,
                      NEW k \in Handlers, On(k, x, y)',
                      handler'[k].pc = "save", <<x, y>> \notin overlapped'
               PROVE  handler'[k].seen = documents[x][y]
    BY DEF Fresh
  <2>1. CASE k = h
    BY <1>1, <2>1 DEF On
  <2>2. CASE k # h
    <3>1. On(k, x, y) /\ handler'[k] = handler[k]
      BY <1>1, <2>2 DEF On, InFlight
    <3>2. QED
      BY <1>2, <3>1 DEF CInv, Fresh
  <2>3. QED
    BY <2>1, <2>2
<1>5. CalmRows'
  BY <1>2 DEF CInv, CalmRows, Calm
<1>6. QED
  BY <1>3, <1>4, <1>5

-----------------------------------------------------------------------------
(* The invariant is inductive *)

LEMMA InitCInv == Init => CInv
<1> SUFFICES ASSUME Init PROVE CInv
  OBVIOUS
<1>1. Alone /\ Fresh
  BY DEF Init, Alone, Fresh, On, InFlight
<1>2. CalmRows
  BY DEF Init, CalmRows, Calm
<1>3. QED
  BY <1>1, <1>2, InitIInv DEF CInv

LEMMA SeedCInv ==
  ASSUME CInv, NEW a \in Apps, NEW t \in DocumentType, seedChecklist(a, t)
  PROVE  CInv'
<1> DEFINE row == upserted(documents[a][t])
<1>1. documents[a][t] \in Row \cup {None}
  BY DEF CInv, IInv, TypeOK
<1>2. /\ row \in Row
      /\ documents[a][t] # None => row = documents[a][t]
      /\ documents[a][t] = None => row = NewRow
  BY <1>1, UpsertedFacts
<1>3. /\ Becomes(a, t, row)
      /\ handler' = handler
      /\ overlapped' = overlapped
  BY DEF seedChecklist, Becomes
<1>4. <<a, t>> \notin overlapped' => Tidy(row, t)
  BY <1>2, <1>3, TidyNewRow DEF CInv, CalmRows, Calm
<1> HIDE DEF row
<1>5. CalmRows'
  BY <1>2, <1>3, <1>4, CalmRowsKept
<1>6. Alone'
  BY <1>3, AloneKept DEF InFlight
<1>7. Fresh'
  <2>1. \A x \in Apps, y \in DocumentType :
          documents[x][y] # None => documents'[x][y] = documents[x][y]
    BY <1>2, <1>3, BecomesFacts DEF CInv, IInv
  <2>2. \A k \in Handlers, x \in Apps, y \in DocumentType :
          On(k, x, y) /\ handler[k].pc = "save" => documents[x][y] # None
    BY DEF CInv, IInv, InHand, On
  <2>3. QED
    BY <1>3, <2>1, <2>2 DEF CInv, Fresh, On, InFlight
<1>8. IInv'
  BY SeedIInv DEF CInv
<1>9. QED
  BY <1>5, <1>6, <1>7, <1>8 DEF CInv

LEMMA UploadCInv ==
  ASSUME CInv, NEW h \in Handlers, NEW a \in Apps, NEW t \in DocumentType,
         NEW key \in Keys, upload(h, a, t, key)
  PROVE  CInv'
<1> DEFINE b == [pc |-> "store", app |-> a, type |-> t, key |-> key]
<1>1. /\ b \in Uploading
      /\ handler' = [handler EXCEPT ![h] = b]
      /\ documents' = documents
      /\ Meet(a, t)
  BY DEF upload, Uploading
<1>2. b.app = a /\ b.type = t /\ b.pc # "save"
  OBVIOUS
<1> HIDE DEF b
<1>3. Alone' /\ Fresh' /\ CalmRows'
  BY <1>1, <1>2, StartCInv
<1>4. IInv'
  BY UploadIInv DEF CInv
<1>5. QED
  BY <1>3, <1>4 DEF CInv

LEMMA ReviewCInv ==
  ASSUME CInv, NEW h \in Handlers, NEW a \in Apps, NEW t \in DocumentType,
         NEW decision \in Decision, NEW note \in Notes \cup {None},
         NEW u \in Staff, review(h, a, t, decision, note, u)
  PROVE  CInv'
<1> DEFINE b == [pc |-> "save", app |-> a, type |-> t, decision |-> decision,
                 note |-> IF decision = "reject" THEN note ELSE None,
                 actor |-> u, seen |-> documents[a][t]]
<1>1. documents[a][t] \in Row
  BY DEF CInv, IInv, TypeOK, review
<1>2. b \in Reviewing
  BY <1>1 DEF review, Reviewing
<1>3. /\ handler' = [handler EXCEPT ![h] = b]
      /\ documents' = documents
      /\ Meet(a, t)
  BY DEF review
<1>4. b.app = a /\ b.type = t /\ b.seen = documents[a][t]
  OBVIOUS
<1> HIDE DEF b
<1>5. Alone' /\ Fresh' /\ CalmRows'
  BY <1>2, <1>3, <1>4, StartCInv
<1>6. IInv'
  BY ReviewIInv DEF CInv
<1>7. QED
  BY <1>5, <1>6 DEF CInv

LEMMA BankCInv ==
  ASSUME CInv, NEW a \in Apps, NEW account \in Accounts,
         NEW reEntered \in Accounts, submitManualBank(a, account, reEntered)
  PROVE  CInv'
<1> DEFINE t == BankStatement
           row == entered(upserted(documents[a][t]), account)
<1>1. t \in DocumentType
  BY TypesAssumption
<1>2. documents[a][t] \in Row \cup {None}
  BY <1>1 DEF CInv, IInv, TypeOK
<1>3. row \in Row /\ Tidy(row, t)
  BY <1>2, UpsertedFacts, SentFacts, TidyEntered
<1>4. Becomes(a, t, row) /\ handler' = handler /\ Meet(a, t)
  BY DEF submitManualBank, Becomes
<1> HIDE DEF row
<1>5. /\ overlapped \subseteq overlapped'
      /\ \A k \in Handlers : On(k, a, t) => <<a, t>> \in overlapped'
  BY <1>1, <1>4, MeetFacts
<1>6. CalmRows'
  BY <1>1, <1>3, <1>4, <1>5, CalmRowsKept
<1>7. Alone'
  BY <1>4, <1>5, AloneKept DEF InFlight
<1>8. Fresh'
  <2>1. \A x \in Apps, y \in DocumentType :
          <<x, y>> # <<a, t>> => documents'[x][y] = documents[x][y]
    BY <1>1, <1>3, <1>4, BecomesFacts DEF CInv, IInv
  <2>2. QED
    BY <1>4, <1>5, <2>1 DEF CInv, Fresh, On, InFlight
<1>9. IInv'
  BY BankIInv DEF CInv
<1>10. QED
  BY <1>6, <1>7, <1>8, <1>9 DEF CInv

(* A request writes the row of its document and goes on or ends.           *)
LEMMA WriteKeepsFresh ==
  ASSUME CInv, NEW h \in Handlers, NEW a \in Apps, NEW t \in DocumentType,
         NEW row \in Row, On(h, a, t), Becomes(a, t, row),
         overlapped' = overlapped,
         \A k \in Handlers : k # h => handler'[k] = handler[k],
         InFlight(h)' => handler'[h].pc # "save"
  PROVE  Fresh'
<1> SUFFICES ASSUME NEW x \in Apps, NEW y \in DocumentType,
                    NEW k \in Handlers, On(k, x, y)',
                    handler'[k].pc = "save", <<x, y>> \notin overlapped
             PROVE  handler'[k].seen = documents'[x][y]
  BY DEF Fresh
<1>1. k # h
  BY DEF On
<1>2. handler'[k] = handler[k] /\ On(k, x, y)
  BY <1>1 DEF On, InFlight
<1>3. <<x, y>> # <<a, t>>
  BY <1>1, <1>2 DEF CInv, Alone
<1>4. documents'[x][y] = documents[x][y]
  BY <1>3, BecomesFacts DEF CInv, IInv
<1>5. QED
  BY <1>2, <1>4 DEF CInv, Fresh

LEMMA StoreCInv ==
  ASSUME CInv, NEW h \in Handlers, store(h)
  PROVE  CInv'
<1> DEFINE b == handler[h]
           row == uploaded(upserted(documents[b.app][b.type]), b.key)
<1>1. b \in Uploading
  BY DEF CInv, IInv, TypeOK, store, InFlight, Reviewing
<1>2. b.app \in Apps /\ b.type \in DocumentType /\ b.key \in Keys
  BY <1>1 DEF Uploading
<1>3. documents[b.app][b.type] \in Row \cup {None}
  BY <1>2 DEF CInv, IInv, TypeOK
<1>4. row \in Row /\ Tidy(row, b.type)
  BY <1>2, <1>3, UpsertedFacts, SentFacts, TidyUploaded
<1>5. /\ Becomes(b.app, b.type, row)
      /\ handler' = [handler EXCEPT ![h] = Idle]
      /\ overlapped' = overlapped
      /\ On(h, b.app, b.type)
  BY DEF store, Becomes, Leave, On
<1>6. /\ handler'[h] = Idle
      /\ \A k \in Handlers : k # h => handler'[k] = handler[k]
  BY <1>5 DEF CInv, IInv, TypeOK
<1> HIDE DEF row
<1>7. CalmRows'
  BY <1>2, <1>4, <1>5, CalmRowsKept
<1>8. Alone'
  BY <1>5, <1>6, AloneKept DEF InFlight
<1>9. Fresh'
  BY <1>2, <1>4, <1>5, <1>6, WriteKeepsFresh DEF InFlight
<1>10. IInv'
  BY StoreIInv DEF CInv
<1>11. QED
  BY <1>7, <1>8, <1>9, <1>10 DEF CInv

LEMMA SaveCInv ==
  ASSUME CInv, NEW h \in Handlers, save(h)
  PROVE  CInv'
<1> DEFINE b == handler[h]
           cur == documents[b.app][b.type]
           row == merged(cur, b.seen, reviewed(b))
<1>1. /\ b \in Reviewing /\ b.app \in Apps /\ b.type \in DocumentType
      /\ Becomes(b.app, b.type, row)
      /\ row \in Row
  BY SaveFacts DEF CInv
<1>2. /\ handler' = [handler EXCEPT ![h].pc = "record"]
      /\ overlapped' = overlapped
      /\ On(h, b.app, b.type)
      /\ b.pc = "save"
  BY DEF save, On
<1>3. <<b.app, b.type>> \notin overlapped => b.seen = cur
  BY <1>1, <1>2 DEF CInv, Fresh
<1>4. <<b.app, b.type>> \notin overlapped => Tidy(row, b.type)
  BY <1>1, <1>3, TidyMerged
<1>5. /\ handler'[h] = [b EXCEPT !.pc = "record"]
      /\ \A k \in Handlers : k # h => handler'[k] = handler[k]
  BY <1>2 DEF CInv, IInv, TypeOK
<1>6. /\ handler'[h].app = b.app
      /\ handler'[h].type = b.type
      /\ handler'[h].pc = "record"
  BY <1>1, <1>5 DEF Reviewing
<1> HIDE DEF row
<1>7. CalmRows'
  BY <1>1, <1>2, <1>4, CalmRowsKept
<1>8. Alone'
  BY <1>2, <1>5, <1>6, AloneKept DEF InFlight, On
<1>9. Fresh'
  BY <1>1, <1>2, <1>5, <1>6, WriteKeepsFresh
<1>10. IInv'
  BY SaveIInv DEF CInv
<1>11. QED
  BY <1>7, <1>8, <1>9, <1>10 DEF CInv

LEMMA EndCInv ==
  ASSUME CInv, NEW h \in Handlers, record(h) \/ fail(h)
  PROVE  CInv'
<1>1. /\ handler' = [handler EXCEPT ![h] = Idle]
      /\ documents' = documents
      /\ overlapped' = overlapped
  BY DEF record, fail, Leave
<1>2. /\ handler'[h] = Idle
      /\ \A k \in Handlers : k # h => handler'[k] = handler[k]
  BY <1>1 DEF CInv, IInv, TypeOK
<1>3. Alone'
  BY <1>1, <1>2, AloneKept DEF InFlight
<1>4. Fresh' /\ CalmRows'
  BY <1>1, <1>2 DEF CInv, Fresh, CalmRows, Calm, On, InFlight
<1>5. IInv'
  BY EndIInv DEF CInv
<1>6. QED
  BY <1>3, <1>4, <1>5 DEF CInv

LEMMA NextCInv == CInv /\ [Next]_vars => CInv'
<1> SUFFICES ASSUME CInv, [Next]_vars PROVE CInv'
  OBVIOUS
<1>1. CASE UNCHANGED vars
  <2>1. IInv'
    BY <1>1, NextIInv DEF CInv
  <2>2. QED
    BY <1>1, <2>1 DEF vars, CInv, Alone, Fresh, CalmRows, Calm, On, InFlight
<1>2. ASSUME NEW a \in Apps, NEW t \in DocumentType, seedChecklist(a, t)
      PROVE  CInv'
  BY <1>2, SeedCInv
<1>3. ASSUME NEW a \in Apps, NEW t \in DocumentType, NEW h \in Handlers,
             NEW key \in Keys, upload(h, a, t, key)
      PROVE  CInv'
  BY <1>3, UploadCInv
<1>4. ASSUME NEW a \in Apps, NEW t \in DocumentType, NEW h \in Handlers,
             NEW decision \in Decision, NEW note \in Notes \cup {None},
             NEW u \in Staff, review(h, a, t, decision, note, u)
      PROVE  CInv'
  BY <1>4, ReviewCInv
<1>5. ASSUME NEW a \in Apps, NEW account \in Accounts,
             NEW reEntered \in Accounts,
             submitManualBank(a, account, reEntered)
      PROVE  CInv'
  BY <1>5, BankCInv
<1>6. ASSUME NEW h \in Handlers, store(h) \/ save(h) \/ record(h) \/ fail(h)
      PROVE  CInv'
  BY <1>6, StoreCInv, SaveCInv, EndCInv
<1>7. QED
  BY <1>1, <1>2, <1>3, <1>4, <1>5, <1>6 DEF Next

-----------------------------------------------------------------------------
(* Verdicts and the audit trail *)

(* What GateBackedBySomeone says, of every row.                            *)
VerifiedBySomeone(a, t) ==
  \E i \in DOMAIN verdicts[a] :
    /\ verdicts[a][i].type = t
    /\ verdicts[a][i].row.action = "DocumentVerified"

Backed ==
  \A a \in Apps, t \in DocumentType : accepted(documents[a][t]) =>
    submission(documents[a][t]) # submission(NewRow) \/ VerifiedBySomeone(a, t)

(* What VerdictIsOfStoredSubmission says, of one row.                      *)
LastVerdictIs(a, t, row) ==
  \E i \in DOMAIN verdicts[a] :
    /\ verdicts[a][i].type = t
    /\ \A j \in DOMAIN verdicts[a] : verdicts[a][j].type = t => j <= i
    /\ verdicts[a][i].of = submission(row)
    /\ verdicts[a][i].row =
         [action |-> IF row.status = "VERIFIED" THEN "DocumentVerified"
                                                ELSE "DocumentRejected",
          actor |-> row.verifiedBy, reason |-> row.rejectionNote]

Judged ==
  \A a \in Apps, t \in DocumentType :
    Calm(a, t) /\ documents[a][t].status \in {"VERIFIED", "REJECTED"} =>
      LastVerdictIs(a, t, documents[a][t])

(* The account of ReviewsReachAudit, for every audit row there could be.   *)
Given(a, r) == {i \in DOMAIN verdicts[a] : verdicts[a][i].row = r}

Logged(a, r) == {i \in DOMAIN audit[a] : audit[a][i] = r}

Recording(a, r) ==
  {h \in Handlers : /\ InFlight(h)
                    /\ handler[h].pc = "record"
                    /\ handler[h].app = a
                    /\ auditRow(handler[h]) = r}

Busy == {h \in Handlers : InFlight(h)}

Balanced(a, r) ==
  Cardinality(Given(a, r)) - Cardinality(Logged(a, r))
    - Cardinality(Recording(a, r)) \in 0 .. failures

Accounted == IsFiniteSet(Busy) /\ \A a \in Apps, r \in AuditRow : Balanced(a, r)

VInv == CInv /\ Backed /\ Judged /\ Accounted

LEMMA VInvGivesProperties ==
  VInv => /\ GateBackedBySomeone /\ VerdictIsOfStoredSubmission
          /\ ReviewsReachAudit
<1> SUFFICES ASSUME VInv
             PROVE  /\ GateBackedBySomeone /\ VerdictIsOfStoredSubmission
                    /\ ReviewsReachAudit
  OBVIOUS
<1>1. GateBackedBySomeone
  <2> SUFFICES ASSUME NEW a \in Apps, NEW t \in MANDATORY_DOCUMENTS,
                      pendingMandatory(a) = {} \/ pendingCountByApplication(a) = 0
               PROVE  \/ submission(documents[a][t]) # submission(NewRow)
                      \/ VerifiedBySomeone(a, t)
    BY DEF GateBackedBySomeone, VerifiedBySomeone
  <2> DEFINE Sent == {u \in MANDATORY_DOCUMENTS : accepted(documents[a][u])}
  <2>1. pendingMandatory(a) = {} => t \in Sent
    BY DEF pendingMandatory
  <2>2. pendingCountByApplication(a) = 0 => t \in Sent
    <3>1. pendingCountByApplication(a) = Cardinality(pendingMandatory(a))
      BY CountFacts
    <3>2. IsFiniteSet(pendingMandatory(a))
      BY TypesAssumption, FS_Subset
      DEF pendingMandatory, MANDATORY_DOCUMENTS
    <3>3. pendingCountByApplication(a) = 0 => pendingMandatory(a) = {}
      BY <3>1, <3>2, FS_EmptySet
    <3> QED
      BY <2>1, <3>3
  <2> QED
    BY <2>1, <2>2 DEF VInv, Backed, MANDATORY_DOCUMENTS
<1>2. VerdictIsOfStoredSubmission
  BY DEF VInv, Judged, LastVerdictIs, VerdictIsOfStoredSubmission
<1>3. ReviewsReachAudit
  <2> SUFFICES ASSUME NEW a \in Apps,
                      NEW i \in DOMAIN verdicts[a] \cup DOMAIN audit[a]
               PROVE  LET row == IF i \in DOMAIN audit[a] THEN audit[a][i]
                                 ELSE verdicts[a][i].row
                      IN Balanced(a, row)
    BY DEF ReviewsReachAudit, Balanced, Given, Logged, Recording, Times
  <2>1. audit[a] \in Seq(AuditRow) /\ verdicts[a] \in Seq(Verdict)
    BY DEF VInv, CInv, IInv, TypeOK
  <2>2. CASE i \in DOMAIN audit[a]
    BY <2>1, <2>2, ElementOfSeq DEF VInv, Accounted
  <2>3. CASE i \notin DOMAIN audit[a]
    <3>1. verdicts[a][i] \in Verdict
      BY <2>1, <2>3, ElementOfSeq
    <3> QED
      BY <2>3, <3>1 DEF VInv, Accounted, Verdict
  <2> QED
    BY <2>2, <2>3
<1> QED
  BY <1>1, <1>2, <1>3

(* One element more in a log.                                              *)
LEMMA AppendFacts ==
  ASSUME NEW S, NEW s \in Seq(S), NEW x \in S
  PROVE  LET n == Len(s) + 1 IN
         /\ DOMAIN Append(s, x) = DOMAIN s \cup {n}
         /\ n \notin DOMAIN s /\ n \in Nat
         /\ \A i \in DOMAIN s : i \in Nat /\ i <= n
         /\ Append(s, x)[n] = x
         /\ \A i \in DOMAIN s : Append(s, x)[i] = s[i]
<1>1. DOMAIN s = 1 .. Len(s) /\ Len(s) \in Nat
  BY LenProperties
<1>2. /\ Append(s, x) \in Seq(S) /\ Len(Append(s, x)) = Len(s) + 1
      /\ \A i \in 1 .. Len(s) : Append(s, x)[i] = s[i]
      /\ Append(s, x)[Len(s) + 1] = x
  BY AppendProperties
<1>3. DOMAIN Append(s, x) = 1 .. Len(s) + 1
  BY <1>2, LenProperties
<1> QED
  BY <1>1, <1>2, <1>3

LEMMA AppendCounts ==
  ASSUME NEW S, NEW s \in Seq(S), NEW x \in S, NEW K
  PROVE  LET P == {i \in DOMAIN s : s[i] \in K}
             Q == {i \in DOMAIN Append(s, x) : Append(s, x)[i] \in K}
         IN /\ Cardinality(P) \in Nat
            /\ Cardinality(Q) = Cardinality(P) + IF x \in K THEN 1 ELSE 0
<1> DEFINE P == {i \in DOMAIN s : s[i] \in K}
           Q == {i \in DOMAIN Append(s, x) : Append(s, x)[i] \in K}
           n == Len(s) + 1
<1>1. IsFiniteSet(P)
  <2>1. DOMAIN s = 1 .. Len(s) /\ Len(s) \in Nat
    BY LenProperties
  <2>2. IsFiniteSet(1 .. Len(s))
    BY <2>1, FS_Interval
  <2> QED
    BY <2>1, <2>2, FS_Subset
<1>2. /\ DOMAIN Append(s, x) = DOMAIN s \cup {n} /\ n \notin DOMAIN s
      /\ Append(s, x)[n] = x
      /\ \A i \in DOMAIN s : Append(s, x)[i] = s[i]
  BY AppendFacts
<1> HIDE DEF n
<1>3. Q = IF x \in K THEN P \cup {n} ELSE P
  BY <1>2
<1>4. n \notin P
  BY <1>2
<1> HIDE DEF P, Q
<1>5. /\ Cardinality(P) \in Nat
      /\ Cardinality(Q) = Cardinality(P) + IF x \in K THEN 1 ELSE 0
  <2>1. Cardinality(P) \in Nat
    BY <1>1, FS_CardinalityType
  <2>2. Cardinality(P \cup {n}) = Cardinality(P) + 1
    BY <1>1, <1>4, FS_AddElement
  <2> QED
    BY <1>3, <2>1, <2>2
<1> QED
  BY <1>5 DEF P, Q

(* What a save adds to the verdicts.                                       *)
LEMMA SaveVerdict ==
  ASSUME IInv, NEW h \in Handlers, save(h)
  PROVE  LET b == handler[h]
             v == [type |-> b.type, row |-> auditRow(b), of |-> submission(b.seen)]
             n == Len(verdicts[b.app]) + 1
         IN /\ v \in Verdict
            /\ verdicts'[b.app] = Append(verdicts[b.app], v)
            /\ DOMAIN verdicts'[b.app] = DOMAIN verdicts[b.app] \cup {n}
            /\ n \in Nat /\ verdicts'[b.app][n] = v
            /\ n \notin DOMAIN verdicts[b.app]
            /\ \A i \in DOMAIN verdicts[b.app] :
                 i <= n /\ verdicts'[b.app][i] = verdicts[b.app][i]
            /\ \A x \in Apps : x # b.app => verdicts'[x] = verdicts[x]
<1> DEFINE b == handler[h]
           v == [type |-> b.type, row |-> auditRow(b), of |-> submission(b.seen)]
<1>1. b \in Reviewing /\ b.app \in Apps /\ b.type \in DocumentType
  BY SaveFacts
<1>2. v \in Verdict
  BY <1>1, ReviewedFacts DEF Verdict
<1>3. verdicts \in [Apps -> Seq(Verdict)]
  BY DEF IInv, TypeOK
<1>4. verdicts' = [verdicts EXCEPT ![b.app] = Append(@, v)]
  BY DEF save
<1> HIDE DEF v, b
<1>5. /\ verdicts'[b.app] = Append(verdicts[b.app], v)
      /\ \A x \in Apps : x # b.app => verdicts'[x] = verdicts[x]
      /\ verdicts[b.app] \in Seq(Verdict)
  BY <1>1, <1>3, <1>4
<1>6. /\ DOMAIN verdicts'[b.app] =
           DOMAIN verdicts[b.app] \cup {Len(verdicts[b.app]) + 1}
      /\ Len(verdicts[b.app]) + 1 \in Nat
      /\ verdicts'[b.app][Len(verdicts[b.app]) + 1] = v
      /\ Len(verdicts[b.app]) + 1 \notin DOMAIN verdicts[b.app]
      /\ \A i \in DOMAIN verdicts[b.app] :
           /\ i <= Len(verdicts[b.app]) + 1
           /\ verdicts'[b.app][i] = verdicts[b.app][i]
  BY <1>2, <1>5, AppendFacts
<1> QED
  BY <1>2, <1>5, <1>6 DEF v, b

(* A row that changes is backed if it was, or if this step backs it.       *)
LEMMA BackedKept ==
  ASSUME IInv, Backed, NEW a \in Apps, NEW t \in DocumentType, NEW row \in Row,
         Becomes(a, t, row),
         \A x \in Apps : \A i \in DOMAIN verdicts[x] :
           i \in DOMAIN verdicts'[x] /\ verdicts'[x][i] = verdicts[x][i],
         row.status \in {"SUBMITTED", "VERIFIED"} =>
           submission(row) # submission(NewRow) \/ VerifiedBySomeone(a, t)'
  PROVE  Backed'
<1>1. /\ documents'[a][t] = row
      /\ \A x \in Apps, y \in DocumentType :
           <<x, y>> # <<a, t>> => documents'[x][y] = documents[x][y]
  BY BecomesFacts DEF IInv
<1>2. \A x \in Apps, y \in DocumentType :
        VerifiedBySomeone(x, y) => VerifiedBySomeone(x, y)'
  BY DEF VerifiedBySomeone
<1> SUFFICES ASSUME NEW x \in Apps, NEW y \in DocumentType,
                    accepted(documents'[x][y])
             PROVE  \/ submission(documents'[x][y]) # submission(NewRow)
                    \/ VerifiedBySomeone(x, y)'
  BY DEF Backed, accepted
<1>3. CASE <<x, y>> = <<a, t>>
  BY <1>1, <1>3 DEF accepted
<1>4. CASE <<x, y>> # <<a, t>>
  BY <1>1, <1>2, <1>4 DEF Backed
<1> QED
  BY <1>3, <1>4

LEMMA SubmissionFacts ==
  ASSUME NEW row \in Row
  PROVE  /\ \A key \in Keys :
              submission(uploaded(row, key)) # submission(NewRow)
         /\ \A account \in Accounts :
              submission(entered(row, account)) # submission(NewRow)
<1>1. \A key \in Keys : /\ uploaded(row, key).fileRef = key
                        /\ key # None
  BY NoneAssumption DEF Row, uploaded
<1>2. \A account \in Accounts :
        /\ entered(row, account).manualBankDetails = account
        /\ account # None
  BY NoneAssumption DEF Row, entered
<1> QED
  BY <1>1, <1>2 DEF submission, NewRow

LEMMA BackedStep ==
  ASSUME IInv, Backed, [Next]_vars
  PROVE  Backed'
<1>1. ASSUME UNCHANGED <<documents, verdicts>>
      PROVE  Backed'
  BY <1>1 DEF Backed, VerifiedBySomeone
<1>2. ASSUME NEW a \in Apps, NEW t \in DocumentType, seedChecklist(a, t)
      PROVE  Backed'
  <2> DEFINE row == upserted(documents[a][t])
  <2>1. documents[a][t] \in Row \cup {None}
    BY DEF IInv, TypeOK
  <2>2. /\ row \in Row
        /\ documents[a][t] # None => row = documents[a][t]
        /\ documents[a][t] = None => row = NewRow
    BY <2>1, UpsertedFacts
  <2>3. Becomes(a, t, row) /\ verdicts' = verdicts
    BY <1>2 DEF seedChecklist, Becomes
  <2> HIDE DEF row
  <2>4. row.status \in {"SUBMITTED", "VERIFIED"} =>
          submission(row) # submission(NewRow) \/ VerifiedBySomeone(a, t)
    BY <2>2, NewRowFacts DEF Backed, accepted
  <2> QED
    BY <2>2, <2>3, <2>4, BackedKept DEF VerifiedBySomeone
<1>3. ASSUME NEW h \in Handlers, store(h)
      PROVE  Backed'
  <2> DEFINE b == handler[h]
             row == uploaded(upserted(documents[b.app][b.type]), b.key)
  <2>1. b.app \in Apps /\ b.type \in DocumentType /\ b.key \in Keys
    BY <1>3 DEF IInv, TypeOK, store, InFlight, Reviewing, Uploading
  <2>2. upserted(documents[b.app][b.type]) \in Row
    BY <2>1, UpsertedFacts DEF IInv, TypeOK
  <2>3. row \in Row /\ submission(row) # submission(NewRow)
    BY <2>1, <2>2, SentFacts, SubmissionFacts
  <2>4. Becomes(b.app, b.type, row) /\ verdicts' = verdicts
    BY <1>3 DEF store, Becomes
  <2> HIDE DEF row
  <2> QED
    BY <2>1, <2>3, <2>4, BackedKept
<1>4. ASSUME NEW a \in Apps, NEW account \in Accounts,
             NEW reEntered \in Accounts, submitManualBank(a, account, reEntered)
      PROVE  Backed'
  <2> DEFINE row == entered(upserted(documents[a][BankStatement]), account)
  <2>1. upserted(documents[a][BankStatement]) \in Row
    BY TypesAssumption, UpsertedFacts DEF IInv, TypeOK
  <2>2. row \in Row /\ submission(row) # submission(NewRow)
    BY <2>1, SentFacts, SubmissionFacts
  <2>3. Becomes(a, BankStatement, row) /\ verdicts' = verdicts
    BY <1>4 DEF submitManualBank, Becomes
  <2> HIDE DEF row
  <2> QED
    BY <2>2, <2>3, TypesAssumption, BackedKept
<1>5. ASSUME NEW h \in Handlers, save(h)
      PROVE  Backed'
  <2>1. PICK a \in Apps, t \in DocumentType, b \in Reviewing :
          handler[h] = b /\ b.app = a /\ b.type = t
    BY <1>5, SaveFacts
  <2>2. PICK cur \in Row, row \in Row :
          /\ cur = documents[a][t]
          /\ row = merged(cur, b.seen, reviewed(b))
          /\ Becomes(a, t, row)
          /\ submission(row) = submission(cur)
    BY <1>5, <2>1, SaveFacts
  <2>3. PICK n :
          /\ n \in DOMAIN verdicts'[a]
          /\ verdicts'[a][n].type = t /\ verdicts'[a][n].row = auditRow(b)
          /\ \A i \in DOMAIN verdicts[a] :
               i \in DOMAIN verdicts'[a] /\ verdicts'[a][i] = verdicts[a][i]
    <3> DEFINE v == [type |-> t, row |-> auditRow(b), of |-> submission(b.seen)]
               n == Len(verdicts[a]) + 1
    <3>1. /\ DOMAIN verdicts'[a] = DOMAIN verdicts[a] \cup {n}
          /\ verdicts'[a][n] = v
          /\ \A i \in DOMAIN verdicts[a] : verdicts'[a][i] = verdicts[a][i]
      BY <1>5, <2>1, SaveVerdict
    <3>2. v.type = t /\ v.row = auditRow(b)
      OBVIOUS
    <3> HIDE DEF v, n
    <3>3. n \in DOMAIN verdicts'[a]
      BY <3>1
    <3> QED
      BY <3>1, <3>2, <3>3
  <2>4. \A x \in Apps : \A i \in DOMAIN verdicts[x] :
          i \in DOMAIN verdicts'[x] /\ verdicts'[x][i] = verdicts[x][i]
    <3>1. \A x \in Apps : x # a => verdicts'[x] = verdicts[x]
      BY <1>5, <2>1, SaveVerdict
    <3> QED
      BY <2>3, <3>1
  <2>5. /\ b.seen \in Row /\ reviewed(b) \in Row
        /\ reviewed(b).status \in {"VERIFIED", "REJECTED"}
        /\ reviewed(b).status = "VERIFIED" => b.decision = "verify"
    <3>1. b.seen \in Row
      BY DEF Reviewing
    <3>2. reviewed(b).status = "VERIFIED" => b.decision = "verify"
      BY <3>1 DEF reviewed, Row
    <3> QED
      BY <3>1, <3>2, ReviewedFacts
  <2>6. row.status \in {cur.status, reviewed(b).status}
    BY <2>2, <2>5, MergedFacts
  <2>7. b.decision = "verify" => VerifiedBySomeone(a, t)'
    BY <2>3 DEF VerifiedBySomeone, auditRow
  <2>8. cur.status \in {"SUBMITTED", "VERIFIED"} =>
          submission(cur) # submission(NewRow) \/ VerifiedBySomeone(a, t)'
    <3>1. VerifiedBySomeone(a, t) => VerifiedBySomeone(a, t)'
      BY <2>4 DEF VerifiedBySomeone
    <3> QED
      BY <2>2, <3>1, RowIsNotNone DEF Backed, accepted
  <2>9. row.status \in {"SUBMITTED", "VERIFIED"} =>
          submission(row) # submission(NewRow) \/ VerifiedBySomeone(a, t)'
    BY <2>2, <2>5, <2>6, <2>7, <2>8
  <2> QED
    BY <2>2, <2>4, <2>9, BackedKept
<1> QED
  BY <1>1, <1>2, <1>3, <1>4, <1>5
  DEF Next, vars, upload, review, record, fail

LEMMA JudgedStep ==
  ASSUME CInv, Judged, [Next]_vars
  PROVE  Judged'
<1>1. ASSUME UNCHANGED <<documents, verdicts>>, overlapped \subseteq overlapped'
      PROVE  Judged'
  BY <1>1 DEF Judged, LastVerdictIs, Calm
<1>2. ASSUME NEW a \in Apps, NEW t \in DocumentType, NEW row \in Row,
             Becomes(a, t, row), verdicts' = verdicts,
             overlapped \subseteq overlapped',
             row = documents[a][t] \/ row.status \notin {"VERIFIED", "REJECTED"}
      PROVE  Judged'
  <2>1. /\ documents'[a][t] = row
        /\ \A x \in Apps, y \in DocumentType :
             <<x, y>> # <<a, t>> => documents'[x][y] = documents[x][y]
    BY <1>2, BecomesFacts DEF CInv, IInv
  <2> SUFFICES ASSUME NEW x \in Apps, NEW y \in DocumentType, Calm(x, y)',
                      documents'[x][y].status \in {"VERIFIED", "REJECTED"}
               PROVE  LastVerdictIs(x, y, documents[x][y])'
    BY DEF Judged
  <2>2. documents'[x][y] = documents[x][y] /\ Calm(x, y)
    BY <1>2, <2>1 DEF Calm
  <2> QED
    BY <1>2, <2>2 DEF Judged, LastVerdictIs
<1>3. ASSUME NEW a \in Apps, NEW t \in DocumentType, seedChecklist(a, t)
      PROVE  Judged'
  <2>1. /\ upserted(documents[a][t]) \in Row
        /\ \/ upserted(documents[a][t]) = documents[a][t]
           \/ upserted(documents[a][t]).status = "PENDING"
    BY UpsertedFacts, NewRowFacts DEF CInv, IInv, TypeOK
  <2> QED
    BY <1>2, <1>3, <2>1 DEF seedChecklist, Becomes
<1>4. ASSUME NEW h \in Handlers, store(h)
      PROVE  Judged'
  <2> DEFINE b == handler[h]
             row == uploaded(upserted(documents[b.app][b.type]), b.key)
  <2>1. b.app \in Apps /\ b.type \in DocumentType /\ b.key \in Keys
    BY <1>4 DEF CInv, IInv, TypeOK, store, InFlight, Reviewing, Uploading
  <2>2. upserted(documents[b.app][b.type]) \in Row
    BY <2>1, UpsertedFacts DEF CInv, IInv, TypeOK
  <2>3. row \in Row /\ row.status = "SUBMITTED"
    BY <2>1, <2>2, SentFacts
  <2>4. Becomes(b.app, b.type, row) /\ UNCHANGED <<verdicts, overlapped>>
    BY <1>4 DEF store, Becomes
  <2> HIDE DEF row, b
  <2> QED
    BY <1>2, <2>1, <2>3, <2>4
<1>5. ASSUME NEW a \in Apps, NEW account \in Accounts,
             NEW reEntered \in Accounts, submitManualBank(a, account, reEntered)
      PROVE  Judged'
  <2> DEFINE row == entered(upserted(documents[a][BankStatement]), account)
  <2>1. upserted(documents[a][BankStatement]) \in Row
    BY TypesAssumption, UpsertedFacts DEF CInv, IInv, TypeOK
  <2>2. row \in Row /\ row.status = "SUBMITTED"
    BY <2>1, SentFacts
  <2>3. /\ Becomes(a, BankStatement, row) /\ verdicts' = verdicts
        /\ overlapped \subseteq overlapped'
    BY <1>5 DEF submitManualBank, Becomes, Meet
  <2> HIDE DEF row
  <2> QED
    BY <1>2, <2>2, <2>3, TypesAssumption
<1>6. ASSUME NEW h \in Handlers, save(h)
      PROVE  Judged'
  <2>1. PICK a \in Apps, t \in DocumentType, b \in Reviewing :
          /\ handler[h] = b /\ b.app = a /\ b.type = t /\ b.pc = "save"
          /\ On(h, a, t) /\ overlapped' = overlapped
    BY <1>6, SaveFacts DEF CInv, save, On
  <2>2. PICK row \in Row :
          /\ row = merged(documents[a][t], b.seen, reviewed(b))
          /\ Becomes(a, t, row)
          /\ submission(row) = submission(documents[a][t])
    BY <1>6, <2>1, SaveFacts DEF CInv
  <2>3. /\ documents'[a][t] = row
        /\ \A x \in Apps, y \in DocumentType :
             <<x, y>> # <<a, t>> => documents'[x][y] = documents[x][y]
    BY <2>2, BecomesFacts DEF CInv, IInv
  <2>4. PICK n \in Nat, v \in Verdict :
          /\ v = [type |-> t, row |-> auditRow(b), of |-> submission(b.seen)]
          /\ DOMAIN verdicts'[a] = DOMAIN verdicts[a] \cup {n}
          /\ verdicts'[a][n] = v
          /\ n \notin DOMAIN verdicts[a]
          /\ \A i \in DOMAIN verdicts[a] :
               i <= n /\ verdicts'[a][i] = verdicts[a][i]
    BY <1>6, <2>1, SaveVerdict DEF CInv
  <2>5. \A x \in Apps : x # a => verdicts'[x] = verdicts[x]
    BY <1>6, <2>1, SaveVerdict DEF CInv
  <2> SUFFICES ASSUME NEW x \in Apps, NEW y \in DocumentType, Calm(x, y)',
                      documents'[x][y].status \in {"VERIFIED", "REJECTED"}
               PROVE  LastVerdictIs(x, y, documents[x][y])'
    BY DEF Judged
  <2>6. CASE <<x, y>> = <<a, t>>
    <3>1. b.seen = documents[a][t] /\ b.seen \in Row
      BY <2>1, <2>6 DEF CInv, Fresh, Calm, Reviewing
    <3>2. /\ row.status = reviewed(b).status
          /\ row.verifiedBy = reviewed(b).verifiedBy
          /\ row.rejectionNote = reviewed(b).rejectionNote
      BY <2>2, <3>1 DEF merged, delta, Row
    <3>3. /\ reviewed(b).verifiedBy = b.actor
          /\ reviewed(b).rejectionNote = b.note
          /\ reviewed(b).status =
               IF b.decision = "verify" THEN "VERIFIED" ELSE "REJECTED"
      BY <3>1 DEF reviewed, Row
    <3>4. /\ v.type = t /\ v.of = submission(row)
          /\ v.row = [action |-> IF row.status = "VERIFIED"
                                 THEN "DocumentVerified" ELSE "DocumentRejected",
                      actor |-> row.verifiedBy, reason |-> row.rejectionNote]
      <4>1. v.type = t /\ v.of = submission(b.seen) /\ v.row = auditRow(b)
        BY <2>4
      <4> QED
        BY <2>2, <3>1, <3>2, <3>3, <4>1 DEF auditRow
    <3>5. \A j \in DOMAIN verdicts'[a] : j <= n
      BY <2>4
    <3> QED
      BY <2>3, <2>4, <2>6, <3>4, <3>5 DEF LastVerdictIs
  <2>7. CASE <<x, y>> # <<a, t>>
    <3>1. documents'[x][y] = documents[x][y] /\ Calm(x, y)
      BY <2>1, <2>3, <2>7 DEF Calm
    <3>2. LastVerdictIs(x, y, documents[x][y])
      BY <3>1 DEF Judged
    <3>3. CASE x # a
      BY <2>5, <3>1, <3>2, <3>3 DEF LastVerdictIs
    <3>4. CASE x = a
      <4>1. v.type # y
        BY <2>4, <2>7, <3>4
      <4>2. /\ \A i \in DOMAIN verdicts[x] :
                 i \in DOMAIN verdicts'[x] /\ verdicts'[x][i] = verdicts[x][i]
            /\ \A j \in DOMAIN verdicts'[x] :
                 verdicts'[x][j].type = y => j \in DOMAIN verdicts[x]
        BY <2>4, <3>4, <4>1
      <4> QED
        BY <3>1, <3>2, <4>2 DEF LastVerdictIs
    <3> QED
      BY <3>3, <3>4
  <2> QED
    BY <2>6, <2>7
<1> QED
  BY <1>1, <1>3, <1>4, <1>5, <1>6 DEF Next, vars, upload, review, record,
    fail, Meet

-----------------------------------------------------------------------------
(* The audit rows that are owed *)

LEMMA RecordingFinite ==
  ASSUME IsFiniteSet(Busy)
  PROVE  \A a, r : /\ IsFiniteSet(Recording(a, r))
                   /\ Cardinality(Recording(a, r)) \in Nat
<1> TAKE a, r
<1>1. Recording(a, r) \subseteq Busy
  BY DEF Recording, Busy
<1>2. IsFiniteSet(Recording(a, r))
  BY <1>1, FS_Subset
<1> QED
  BY <1>2, FS_CardinalityType

LEMMA BusyFinite ==
  ASSUME IsFiniteSet(Busy), NEW h \in Handlers,
         \A k \in Handlers : k # h => handler'[k] = handler[k]
  PROVE  IsFiniteSet(Busy')
<1>1. Busy' \subseteq Busy \cup {h}
  BY DEF Busy, InFlight
<1>2. IsFiniteSet(Busy \cup {h})
  BY FS_AddElement
<1> QED
  BY <1>1, <1>2, FS_Subset

LEMMA AccountedStep ==
  ASSUME IInv, Accounted, [Next]_vars
  PROVE  Accounted'
<1>1. /\ failures \in Nat
      /\ \A a, r : /\ IsFiniteSet(Recording(a, r))
                   /\ Cardinality(Recording(a, r)) \in Nat
      /\ handler \in [Handlers -> {Idle} \cup Uploading \cup Reviewing]
      /\ audit \in [Apps -> Seq(AuditRow)]
  BY RecordingFinite DEF IInv, TypeOK, Accounted
<1>2. \A a \in Apps : \A r : /\ Cardinality(Given(a, r)) \in Nat
                              /\ Cardinality(Logged(a, r)) \in Nat
  <2> TAKE a \in Apps
  <2> TAKE r
  <2>1. /\ DOMAIN verdicts[a] = 1 .. Len(verdicts[a]) /\ Len(verdicts[a]) \in Nat
        /\ DOMAIN audit[a] = 1 .. Len(audit[a]) /\ Len(audit[a]) \in Nat
    BY LenProperties DEF IInv, TypeOK
  <2>2. IsFiniteSet(DOMAIN verdicts[a]) /\ IsFiniteSet(DOMAIN audit[a])
    <3>1. \A n \in Nat : IsFiniteSet(1 .. n)
      BY FS_Interval
    <3> QED
      BY <2>1, <3>1
  <2>3. /\ Given(a, r) \subseteq DOMAIN verdicts[a]
        /\ Logged(a, r) \subseteq DOMAIN audit[a]
    BY DEF Given, Logged
  <2> QED
    BY <2>2, <2>3, FS_Subset, FS_CardinalityType
(* A step that writes no log, and in which nothing comes to be recorded.   *)
<1>3. ASSUME UNCHANGED <<verdicts, audit, failures>>, IsFiniteSet(Busy'),
             \A a \in Apps, r \in AuditRow : Recording(a, r)' = Recording(a, r)
      PROVE  Accounted'
  BY <1>3 DEF Accounted, Balanced, Given, Logged
<1>4. CASE UNCHANGED <<verdicts, audit, failures, handler>>
  BY <1>3, <1>4 DEF Accounted, Busy, Recording, InFlight
<1>5. ASSUME NEW h \in Handlers, UNCHANGED <<verdicts, audit, failures>>,
             ~(InFlight(h) /\ handler[h].pc = "record"),
             NEW b \in {Idle} \cup Uploading \cup Reviewing,
             handler' = [handler EXCEPT ![h] = b], b.pc # "record"
      PROVE  Accounted'
  <2>1. handler'[h] = b /\ \A k \in Handlers : k # h => handler'[k] = handler[k]
    BY <1>1, <1>5
  <2>2. \A a \in Apps, r \in AuditRow : Recording(a, r)' = Recording(a, r)
    BY <1>5, <2>1 DEF Recording, InFlight
  <2> QED
    BY <1>3, <1>5, <2>1, <2>2, BusyFinite DEF Accounted
<1>6. ASSUME NEW h \in Handlers, NEW a \in Apps, NEW t \in DocumentType,
             \/ \E key \in Keys : upload(h, a, t, key)
             \/ \E decision \in Decision, note \in Notes \cup {None}, u \in Staff :
                  review(h, a, t, decision, note, u)
      PROVE  Accounted'
  <2>1. CASE \E key \in Keys : upload(h, a, t, key)
    <3>1. PICK key \in Keys : upload(h, a, t, key)
      BY <2>1
    <3> DEFINE b == [pc |-> "store", app |-> a, type |-> t, key |-> key]
    <3>2. b \in Uploading /\ b.pc # "record"
      BY <3>1 DEF upload, Uploading
    <3>3. /\ handler' = [handler EXCEPT ![h] = b] /\ ~InFlight(h)
          /\ UNCHANGED <<verdicts, audit, failures>>
      BY <3>1 DEF upload
    <3> HIDE DEF b
    <3> QED
      BY <1>5, <3>2, <3>3
  <2>2. CASE \E decision \in Decision, note \in Notes \cup {None}, u \in Staff :
               review(h, a, t, decision, note, u)
    <3>1. PICK decision \in Decision, note \in Notes \cup {None}, u \in Staff :
            review(h, a, t, decision, note, u)
      BY <2>2
    <3> DEFINE b == [pc |-> "save", app |-> a, type |-> t, decision |-> decision,
                     note |-> IF decision = "reject" THEN note ELSE None,
                     actor |-> u, seen |-> documents[a][t]]
    <3>2. documents[a][t] \in Row
      BY <3>1 DEF IInv, TypeOK, review
    <3>3. b \in Reviewing /\ b.pc # "record"
      BY <3>1, <3>2 DEF review, Reviewing
    <3>4. /\ handler' = [handler EXCEPT ![h] = b] /\ ~InFlight(h)
          /\ UNCHANGED <<verdicts, audit, failures>>
      BY <3>1 DEF review
    <3> HIDE DEF b
    <3> QED
      BY <1>5, <3>3, <3>4
  <2> QED
    BY <1>6, <2>1, <2>2
<1>7. ASSUME NEW h \in Handlers, store(h)
      PROVE  Accounted'
  <2>1. /\ handler' = [handler EXCEPT ![h] = Idle] /\ handler[h].pc = "store"
        /\ UNCHANGED <<verdicts, audit, failures>>
    BY <1>7 DEF store, Leave
  <2>2. Idle.pc # "record"
    BY DEF Idle
  <2> QED
    BY <1>5, <2>1, <2>2
<1>8. ASSUME NEW h \in Handlers, save(h)
      PROVE  Accounted'
  <2>1. PICK c \in Apps, b \in Reviewing :
          handler[h] = b /\ b.app = c /\ b.pc = "save"
    BY <1>8, SaveFacts DEF save
  <2> DEFINE q == auditRow(b)
             next == [b EXCEPT !.pc = "record"]
  <2>2. q \in AuditRow
    BY ReviewedFacts
  <2>3. /\ handler'[h] = next
        /\ \A k \in Handlers : k # h => handler'[k] = handler[k]
    BY <1>1, <1>8, <2>1 DEF save
  <2>4. /\ next.pc = "record" /\ next.app = c /\ auditRow(next) = q
        /\ next # Idle
    BY <2>1 DEF Reviewing, auditRow, Idle
  <2> HIDE DEF next, q
  <2>5. \A a \in Apps, r \in AuditRow :
          /\ a = c /\ r = q => Recording(a, r)' = Recording(a, r) \cup {h}
          /\ ~(a = c /\ r = q) => Recording(a, r)' = Recording(a, r)
          /\ h \notin Recording(a, r)
    BY <2>1, <2>3, <2>4 DEF Recording, InFlight
  <2>6. \A a \in Apps, r \in AuditRow :
          Cardinality(Recording(a, r)') =
            Cardinality(Recording(a, r)) + IF a = c /\ r = q THEN 1 ELSE 0
    <3> TAKE a \in Apps, r \in AuditRow
    <3>1. IsFiniteSet(Recording(a, r)) /\ Cardinality(Recording(a, r)) \in Nat
      BY <1>1
    <3>2. CASE a = c /\ r = q
      <4>1. Recording(a, r)' = Recording(a, r) \cup {h}
        BY <2>5, <3>2
      <4>2. Cardinality(Recording(a, r) \cup {h}) =
              Cardinality(Recording(a, r)) + 1
        BY <2>5, <3>1, <3>2, FS_AddElement
      <4> QED
        BY <3>2, <4>1, <4>2
    <3>3. CASE ~(a = c /\ r = q)
      BY <2>5, <3>1, <3>3
    <3> QED
      BY <3>2, <3>3
  <2>7. \A r \in AuditRow :
          Cardinality(Given(c, r)') =
            Cardinality(Given(c, r)) + IF r = q THEN 1 ELSE 0
    <3> TAKE r \in AuditRow
    <3> DEFINE K == {x \in Verdict : x.row = r}
               v == [type |-> b.type, row |-> auditRow(b), of |-> submission(b.seen)]
    <3>1. v \in Verdict /\ verdicts'[c] = Append(verdicts[c], v)
      BY <1>8, <2>1, SaveVerdict
    <3>2. v.row = q
      BY DEF q
    <3> HIDE DEF v
    <3>3. verdicts[c] \in Seq(Verdict)
      BY DEF IInv, TypeOK
    <3>4. Append(verdicts[c], v) \in Seq(Verdict)
      BY <3>1, <3>3, AppendProperties
    <3>5. \A s \in Seq(Verdict) : \A i \in DOMAIN s : s[i] \in K <=> s[i].row = r
      BY ElementOfSeq
    <3>6. v \in K <=> r = q
      BY <3>1, <3>2
    <3> HIDE DEF K
    <3>7. /\ Given(c, r) = {i \in DOMAIN verdicts[c] : verdicts[c][i] \in K}
          /\ Given(c, r)' = {i \in DOMAIN Append(verdicts[c], v) :
                               Append(verdicts[c], v)[i] \in K}
      BY <3>1, <3>3, <3>4, <3>5 DEF Given
    <3> QED
      BY <3>1, <3>3, <3>6, <3>7, AppendCounts
  <2>8. \A a \in Apps : a # c => verdicts'[a] = verdicts[a]
    BY <1>8, <2>1, SaveVerdict
  <2>9. UNCHANGED <<audit, failures>>
    BY <1>8 DEF save
  <2>10. \A a \in Apps, r \in AuditRow : Balanced(a, r)'
    <3> TAKE a \in Apps, r \in AuditRow
    <3>1. Balanced(a, r)
      BY DEF Accounted
    <3>2. CASE a = c
      <4>1. Cardinality(Recording(a, r)') =
              Cardinality(Recording(a, r)) + IF r = q THEN 1 ELSE 0
        BY <2>6, <3>2
      <4>2. Logged(a, r)' = Logged(a, r)
        BY <2>9 DEF Logged
      <4> QED
        BY <1>1, <1>2, <2>7, <2>9, <3>1, <3>2, <4>1, <4>2 DEF Balanced
    <3>3. CASE a # c
      BY <2>5, <2>8, <2>9, <3>1, <3>3 DEF Balanced, Logged, Given
    <3> QED
      BY <3>2, <3>3
  <2> QED
    BY <2>3, <2>10, BusyFinite DEF Accounted
<1>9. ASSUME NEW h \in Handlers, record(h)
      PROVE  Accounted'
  <2>1. PICK c \in Apps, b \in Reviewing :
          handler[h] = b /\ b.app = c /\ b.pc = "record" /\ InFlight(h)
    BY <1>1, <1>9 DEF record, InFlight, Uploading, Reviewing
  <2> DEFINE q == auditRow(b)
  <2>2. q \in AuditRow
    BY ReviewedFacts
  <2>3. /\ handler'[h] = Idle
        /\ \A k \in Handlers : k # h => handler'[k] = handler[k]
    BY <1>1, <1>9 DEF record, Leave
  <2>4. /\ audit'[c] = Append(audit[c], q)
        /\ \A a \in Apps : a # c => audit'[a] = audit[a]
        /\ UNCHANGED <<verdicts, failures>>
    BY <1>1, <1>9, <2>1 DEF record
  <2> HIDE DEF q
  <2>5. \A a \in Apps, r \in AuditRow :
          /\ a = c /\ r = q => /\ Recording(a, r)' = Recording(a, r) \ {h}
                               /\ h \in Recording(a, r)
          /\ ~(a = c /\ r = q) => Recording(a, r)' = Recording(a, r)
    BY <2>1, <2>3 DEF Recording, InFlight, q
  <2>6. \A a \in Apps, r \in AuditRow :
          Cardinality(Recording(a, r)') =
            Cardinality(Recording(a, r)) - IF a = c /\ r = q THEN 1 ELSE 0
    <3> TAKE a \in Apps, r \in AuditRow
    <3>1. IsFiniteSet(Recording(a, r)) /\ Cardinality(Recording(a, r)) \in Nat
      BY <1>1
    <3>2. CASE a = c /\ r = q
      <4>1. Recording(a, r)' = Recording(a, r) \ {h}
        BY <2>5, <3>2
      <4>2. Cardinality(Recording(a, r) \ {h}) = Cardinality(Recording(a, r)) - 1
        BY <2>5, <3>1, <3>2, FS_RemoveElement
      <4> QED
        BY <3>2, <4>1, <4>2
    <3>3. CASE ~(a = c /\ r = q)
      BY <2>5, <3>1, <3>3
    <3> QED
      BY <3>2, <3>3
  <2>7. \A r \in AuditRow :
          Cardinality(Logged(c, r)') =
            Cardinality(Logged(c, r)) + IF r = q THEN 1 ELSE 0
    <3> TAKE r \in AuditRow
    <3>1. audit[c] \in Seq(AuditRow)
      BY <1>1
    <3>2. /\ Logged(c, r) = {i \in DOMAIN audit[c] : audit[c][i] \in {r}}
          /\ Logged(c, r)' = {i \in DOMAIN Append(audit[c], q) :
                                Append(audit[c], q)[i] \in {r}}
      BY <2>4 DEF Logged
    <3>3. q \in {r} <=> r = q
      OBVIOUS
    <3> DEFINE K == {r}
    <3> HIDE DEF K
    <3>4. /\ Logged(c, r) = {i \in DOMAIN audit[c] : audit[c][i] \in K}
          /\ Logged(c, r)' = {i \in DOMAIN Append(audit[c], q) :
                                Append(audit[c], q)[i] \in K}
          /\ q \in K <=> r = q
      BY <3>2, <3>3 DEF K
    <3>5. Cardinality({i \in DOMAIN Append(audit[c], q) :
                         Append(audit[c], q)[i] \in K}) =
            Cardinality({i \in DOMAIN audit[c] : audit[c][i] \in K})
              + IF q \in K THEN 1 ELSE 0
      BY <2>2, <3>1, AppendCounts
    <3> QED
      BY <3>4, <3>5
  <2>8. \A a \in Apps, r \in AuditRow : Balanced(a, r)'
    <3> TAKE a \in Apps, r \in AuditRow
    <3>1. Balanced(a, r)
      BY DEF Accounted
    <3>2. CASE a = c
      <4>1. Cardinality(Recording(a, r)') =
              Cardinality(Recording(a, r)) - IF r = q THEN 1 ELSE 0
        BY <2>6, <3>2
      <4>2. Given(a, r)' = Given(a, r)
        BY <2>4 DEF Given
      <4> QED
        BY <1>1, <1>2, <2>4, <2>7, <3>1, <3>2, <4>1, <4>2 DEF Balanced
    <3>3. CASE a # c
      BY <2>4, <2>5, <3>1, <3>3 DEF Balanced, Logged, Given
    <3> QED
      BY <3>2, <3>3
  <2> QED
    BY <2>3, <2>8, BusyFinite DEF Accounted
(* A lost request may have owed a row, which is then lost too.             *)
<1>10. ASSUME NEW h \in Handlers, fail(h)
       PROVE  Accounted'
  <2>1. /\ handler'[h] = Idle
        /\ \A k \in Handlers : k # h => handler'[k] = handler[k]
        /\ UNCHANGED <<verdicts, audit>> /\ failures' = failures + 1
    BY <1>1, <1>10 DEF fail, Leave
  <2>2. \A a \in Apps, r \in AuditRow : Recording(a, r)' = Recording(a, r) \ {h}
    BY <2>1 DEF Recording, InFlight
  <2>3. \A a \in Apps, r \in AuditRow :
          Cardinality(Recording(a, r) \ {h}) =
            Cardinality(Recording(a, r)) - IF h \in Recording(a, r) THEN 1 ELSE 0
    <3> TAKE a \in Apps, r \in AuditRow
    <3>1. IsFiniteSet(Recording(a, r)) /\ Cardinality(Recording(a, r)) \in Nat
      BY <1>1
    <3>2. h \in Recording(a, r) =>
            Cardinality(Recording(a, r) \ {h}) = Cardinality(Recording(a, r)) - 1
      BY <3>1, FS_RemoveElement
    <3>3. h \notin Recording(a, r) => Recording(a, r) \ {h} = Recording(a, r)
      OBVIOUS
    <3> QED
      BY <3>1, <3>2, <3>3
  <2>4. \A a \in Apps, r \in AuditRow : Balanced(a, r)'
    <3> TAKE a \in Apps, r \in AuditRow
    <3>1. Balanced(a, r)
      BY DEF Accounted
    <3> QED
      <4>1. /\ Given(a, r)' = Given(a, r) /\ Logged(a, r)' = Logged(a, r)
            /\ Cardinality(Recording(a, r)') =
                 Cardinality(Recording(a, r))
                   - IF h \in Recording(a, r) THEN 1 ELSE 0
        BY <2>1, <2>2, <2>3 DEF Given, Logged
      <4> QED
        BY <1>1, <1>2, <2>1, <3>1, <4>1 DEF Balanced
  <2> QED
    BY <2>1, <2>4, BusyFinite DEF Accounted
<1> QED
  BY <1>4, <1>6, <1>7, <1>8, <1>9, <1>10
  DEF Next, vars, seedChecklist, submitManualBank

LEMMA InitVInv == Init => VInv
<1> SUFFICES ASSUME Init PROVE VInv
  OBVIOUS
<1>1. CInv
  BY InitCInv
<1>2. Backed /\ Judged
  BY DEF Init, Backed, accepted, Judged, Calm
<1>3. Busy = {} /\ \A a \in Apps, r \in AuditRow :
        Given(a, r) = {} /\ Logged(a, r) = {} /\ Recording(a, r) = {}
  BY DEF Init, Busy, InFlight, Given, Logged, Recording
<1>4. Accounted
  <2>1. /\ IsFiniteSet(Busy) /\ failures = 0
        /\ \A a \in Apps, r \in AuditRow :
             /\ Cardinality(Given(a, r)) = 0 /\ Cardinality(Logged(a, r)) = 0
             /\ Cardinality(Recording(a, r)) = 0
    BY <1>3, FS_EmptySet DEF Init
  <2> QED
    BY <2>1 DEF Accounted, Balanced
<1> QED
  BY <1>1, <1>2, <1>4 DEF VInv

-----------------------------------------------------------------------------
(* Theorems *)

LEMMA CalmInvariance == Spec => []CInv
<1>1. QED
  BY InitCInv, NextCInv, PTL DEF Spec

(* On a document that no two requests met on, the customer sees a note     *)
(* exactly beside a rejection: what upload, submitManualBank and review    *)
(* unset and set fits together.                                            *)
THEOREM NotesTellRejections == Spec => []NoteTellsRejection
<1>1. CInv => NoteTellsRejection
  BY CalmGivesProperties
<1>2. QED
  BY <1>1, CalmInvariance, PTL

(* On such a document, a file awaits its verdict without traces of the     *)
(* verdict on the file before it.                                          *)
THEOREM UploadsStartOver == Spec => []UploadStartsOver
<1>1. CInv => UploadStartsOver
  BY CalmGivesProperties
<1>2. QED
  BY <1>1, CalmInvariance, PTL

LEMMA VerdictInvariance == Spec => []VInv
<1>1. VInv /\ [Next]_vars => VInv'
  BY NextCInv, BackedStep, JudgedStep, AccountedStep DEF VInv, CInv
<1> QED
  BY <1>1, InitVInv, PTL DEF Spec

(* The gate (pendingMandatory), the prompt of the list                     *)
(* (pendingCountByApplication) and the detail screen (checklistView and    *)
(* the filter of applications.service.ts:469-475) ask for the same         *)
(* documents, for every checklist and whatever rows exist.                 *)
THEOREM ScreensAskAsTheGate == Spec => []PromptsAgree
<1>1. TypeOK => PromptsAgree
  <2> SUFFICES ASSUME TypeOK, NEW a \in Apps
               PROVE  pendingDocuments(a) = pendingMandatory(a)
    BY CountFacts DEF PromptsAgree
  <2>1. ASSUME NEW t \in MANDATORY_DOCUMENTS
        PROVE  checklistView(a)[t].status \in {"PENDING", "REJECTED"} <=>
                 ~accepted(documents[a][t])
    <3>1. checklistView(a)[t].status = upserted(documents[a][t]).status
      BY DEF checklistView
    <3>2. documents[a][t] \in Row \cup {None}
      BY <2>1 DEF TypeOK, MANDATORY_DOCUMENTS
    <3>3. CASE documents[a][t] = None
      BY <3>1, <3>3, NewRowFacts DEF upserted, accepted
    <3>4. CASE documents[a][t] # None
      <4>1. documents[a][t].status \in DocumentStatus
        BY <3>2, <3>4 DEF Row
      <4>2. QED
        BY <3>1, <3>4, <4>1 DEF upserted, accepted, DocumentStatus
    <3>5. QED
      BY <3>3, <3>4
  <2>2. QED
    BY <2>1 DEF pendingDocuments, pendingMandatory
<1>2. QED
  BY <1>1, TypeCorrect, PTL

(* However uploads and reviews overlap, whatever opens the gate or quiets  *)
(* the list, pendingMandatory or its count, was sent by the customer or    *)
(* verified by someone.                                                    *)
THEOREM GateIsBacked == Spec => []GateBackedBySomeone
  BY VerdictInvariance, VInvGivesProperties, PTL

(* On a document that no two requests met on, the verdict shown is the     *)
(* last one review gave, and it was given on what is stored.               *)
THEOREM VerdictsAreCurrent == Spec => []VerdictIsOfStoredSubmission
  BY VerdictInvariance, VInvGivesProperties, PTL

(* review saves first and records after: what the audit trail is short of  *)
(* is in flight or lost with a request, row by row, and it never has one   *)
(* too many.                                                               *)
THEOREM VerdictsAreAudited == Spec => []ReviewsReachAudit
  BY VerdictInvariance, VInvGivesProperties, PTL

(* The save of a rejection, and no other step, takes from the checklist    *)
(* what satisfied it.                                                      *)
THEOREM OnlyRejectionReopens == Spec => GateReopenedByRejection
<1> DEFINE Rejects(a) ==
             \E h \in Handlers : /\ InFlight(h)
                                 /\ handler[h].pc = "save"
                                 /\ handler[h].app = a
                                 /\ handler[h].decision = "reject"
                                 /\ handler'[h] # handler[h]
           A == \A a \in Apps :
                  ~(pendingMandatory(a)' \subseteq pendingMandatory(a))
                    => Rejects(a)
<1>1. IInv /\ [Next]_vars => [A]_vars
  <2> SUFFICES ASSUME IInv, Next, NEW a \in Apps,
                      ~(pendingMandatory(a)' \subseteq pendingMandatory(a))
               PROVE  Rejects(a)
    BY DEF vars
  <2>1. PICK t \in DocumentType :
          accepted(documents[a][t]) /\ ~accepted(documents'[a][t])
    BY DEF pendingMandatory, MANDATORY_DOCUMENTS, accepted
  <2>2. ASSUME NEW x \in Apps, NEW y \in DocumentType, NEW row \in Row,
               Becomes(x, y, row),
               row = documents[x][y] \/ row.status = "SUBMITTED"
        PROVE  FALSE
    <3>1. /\ documents'[x][y] = row
          /\ <<a, t>> # <<x, y>> => documents'[a][t] = documents[a][t]
      BY <2>2, BecomesFacts DEF IInv
    <3>2. row # None
      BY RowIsNotNone
    <3> QED
      BY <2>1, <2>2, <3>1, <3>2 DEF accepted
  <2>3. ASSUME NEW x \in Apps, NEW y \in DocumentType, seedChecklist(x, y)
        PROVE  FALSE
    <3> DEFINE row == upserted(documents[x][y])
    <3>1. documents[x][y] \in Row \cup {None}
      BY DEF IInv, TypeOK
    <3>2. /\ row \in Row /\ Becomes(x, y, row)
          /\ documents[x][y] # None => row = documents[x][y]
      BY <2>3, <3>1, UpsertedFacts DEF seedChecklist, Becomes
    <3> HIDE DEF row
    <3>3. documents[x][y] = None
      BY <2>2, <3>2
    <3>4. <<a, t>> # <<x, y>>
      BY <2>1, <3>3 DEF accepted
    <3> QED
      BY <2>1, <3>2, <3>4, BecomesFacts DEF IInv
  <2>4. ASSUME NEW h \in Handlers, store(h)
        PROVE  FALSE
    <3> DEFINE b == handler[h]
               row == uploaded(upserted(documents[b.app][b.type]), b.key)
    <3>1. b.app \in Apps /\ b.type \in DocumentType /\ b.key \in Keys
      BY <2>4 DEF IInv, TypeOK, store, InFlight, Reviewing, Uploading
    <3>2. upserted(documents[b.app][b.type]) \in Row
      BY <3>1, UpsertedFacts DEF IInv, TypeOK
    <3>3. row \in Row /\ row.status = "SUBMITTED" /\ Becomes(b.app, b.type, row)
      BY <2>4, <3>1, <3>2, SentFacts DEF store, Becomes
    <3> HIDE DEF row, b
    <3> QED
      BY <2>2, <3>1, <3>3
  <2>5. ASSUME NEW x \in Apps, NEW account \in Accounts,
               NEW reEntered \in Accounts, submitManualBank(x, account, reEntered)
        PROVE  FALSE
    <3> DEFINE row == entered(upserted(documents[x][BankStatement]), account)
    <3>1. upserted(documents[x][BankStatement]) \in Row
      BY TypesAssumption, UpsertedFacts DEF IInv, TypeOK
    <3>2. row \in Row /\ row.status = "SUBMITTED" /\ Becomes(x, BankStatement, row)
      BY <2>5, <3>1, SentFacts DEF submitManualBank, Becomes
    <3> HIDE DEF row
    <3> QED
      BY <2>2, <3>2, TypesAssumption
  <2>6. PICK h \in Handlers : save(h)
    BY <2>1, <2>3, <2>4, <2>5 DEF Next, upload, review, record, fail
  <2>7. PICK x \in Apps, y \in DocumentType, b \in Reviewing :
          handler[h] = b /\ b.app = x /\ b.type = y
    BY <2>6, SaveFacts
  <2>8. PICK cur \in Row, row \in Row :
          /\ cur = documents[x][y]
          /\ row = merged(cur, b.seen, reviewed(b))
          /\ Becomes(x, y, row) /\ row.status # "PENDING"
    BY <2>6, <2>7, SaveFacts
  <2>9. /\ documents'[x][y] = row
        /\ <<a, t>> # <<x, y>> => documents'[a][t] = documents[a][t]
    BY <2>8, BecomesFacts DEF IInv
  <2>10. x = a /\ y = t
    BY <2>1, <2>9
  <2>11. row.status \in {cur.status, reviewed(b).status}
    <3>1. b.seen \in Row /\ reviewed(b) \in Row
      BY ReviewedFacts DEF Reviewing
    <3> QED
      BY <2>8, <3>1, MergedFacts
  <2>12. reviewed(b).status =
           IF b.decision = "verify" THEN "VERIFIED" ELSE "REJECTED"
    BY DEF reviewed, Reviewing, Row
  <2>13. b.decision = "reject"
    <3>1. cur.status \in {"SUBMITTED", "VERIFIED"}
      BY <2>1, <2>8, <2>10 DEF accepted
    <3>2. row.status \notin {"SUBMITTED", "VERIFIED"}
      BY <2>1, <2>9, <2>10, RowIsNotNone DEF accepted
    <3>3. b.decision \in {"verify", "reject"}
      BY DEF Reviewing, Decision
    <3> QED
      BY <2>11, <2>12, <3>1, <3>2, <3>3
  <2>14. handler'[h].pc = "record" /\ handler[h].pc = "save" /\ InFlight(h)
    BY <2>6, <2>7 DEF save, IInv, TypeOK, Reviewing
  <2> QED
    BY <2>7, <2>10, <2>13, <2>14
<1>2. QED
  BY <1>1, Invariance, PTL DEF Spec, GateReopenedByRejection
=============================================================================
