---------------------------- MODULE ProfilesProofs ----------------------------
(***************************************************************************)
(* Theorems about Profiles, for any number of customers, requests in       *)
(* flight and text fields.                                                 *)
(*                                                                         *)
(* A request that is saving without an error has stored every file that is *)
(* no longer pending (Written), so the row it writes names stored files    *)
(* only (Stored); it sends all three scans or none (Shapes), which keeps   *)
(* the scans of a row together, and a text of a complete row is there or   *)
(* cleared by a later request (Whole).  A row names requests of its own    *)
(* customer that stored every file (Names).  A row names, of each file,    *)
(* the one that the last request with such a file sent (LastWriter): the   *)
(* account of the files in the store.                                      *)
(***************************************************************************)
EXTENDS Profiles, SequenceTheorems, TLAPS

Shapes ==
  \A r \in Requests :
    /\ request[r].op = "create" =>
         /\ request[r].sent = FileField
         /\ request[r].text = TextField /\ request[r].cleared = {}
    /\ request[r].op = "edit" => request[r].sent \subseteq {"photo"}

Written ==
  \A r \in Requests : r \in Saving /\ request[r].answer = "none" =>
    \A f \in request[r].sent \ request[r].pending : <<r, f>> \in files

Stored ==
  \A u \in Customers, f \in FileField :
    customers[u].ref[f] # None => customers[u].ref[f] \in files

Whole ==
  \A u \in Customers : customers[u].profileCompletedAt =>
    /\ \A f \in FileField : customers[u].ref[f] # None
    /\ \A t \in TextField : customers[u].text[t] # None \/ ClearedBy(u, t)
    /\ \E r \in Requests : \A f \in Kyc : customers[u].ref[f] = <<r, f>>

(* The row is written, or was.                                             *)
Past(r) == request[r].pc \in {"stored", "over"}

Names ==
  \A r \in Requests, u \in Customers : Named(r, customers[u]) =>
    /\ Past(r) /\ u = request[r].user
    /\ \A f \in request[r].sent : <<r, f>> \in files

Sends(r, f) == f \in request[r].sent

(* Where a stored file, and an entry of the history, come from.            *)
Origins ==
  /\ \A key \in files : Sends(key[1], key[2]) /\ request[key[1]].pc # "new"
  /\ \A u \in Customers : \A n \in DOMAIN applied[u] :
       Past(applied[u][n])
  /\ \A r \in Requests :
       request[r].answer = "success" \/ request[r].pc = "stored" =>
       LET u == request[r].user
       IN \E n \in DOMAIN applied[u] : applied[u][n] = r

LastWriter ==
  \A u \in Customers, f \in FileField :
    (\E n \in DOMAIN applied[u] : Sends(applied[u][n], f)) =>
      \E n \in DOMAIN applied[u] :
        /\ Sends(applied[u][n], f)
        /\ customers[u].ref[f] = <<applied[u][n], f>>
        /\ \A m \in DOMAIN applied[u] : Sends(applied[u][m], f) => m <= n

IInv ==
  /\ TypeOK /\ Shapes /\ Written /\ Stored /\ Whole
  /\ Names /\ Origins /\ LastWriter

-----------------------------------------------------------------------------
(* Rows and requests *)

LEMMA KeyFacts ==
  /\ \A r \in Requests : r # None
  /\ \A r \in Requests, f \in FileField : <<r, f>> \in Key /\ <<r, f>> # None
  /\ \A key \in Key : key[1] \in Requests /\ key[2] \in FileField
                      /\ key = <<key[1], key[2]>>
BY ProfilesAssumption DEF Key

LEMMA UpdatedFacts ==
  ASSUME NEW row \in Row, NEW r \in Requests, request[r] \in Request
  PROVE  /\ updated(row, r) \in Row
         /\ \A t \in TextField : updated(row, r).text[t] =
              IF t \in request[r].cleared THEN None
              ELSE IF t \in request[r].text THEN r ELSE row.text[t]
         /\ \A f \in FileField : updated(row, r).ref[f] =
              IF Sends(r, f) THEN <<r, f>> ELSE row.ref[f]
         /\ updated(row, r).profileCompletedAt =
              (row.profileCompletedAt \/ request[r].op = "create")
<1>1. /\ row.text \in [TextField -> Requests \cup {None}]
      /\ row.ref \in [FileField -> Key \cup {None}]
      /\ row.profileCompletedAt \in BOOLEAN
  BY DEF Row
<1> DEFINE text == retyped(row, r)
           ref == [f \in FileField |->
                     IF f \in request[r].sent THEN <<r, f>> ELSE row.ref[f]]
<1>2. /\ text \in [TextField -> Requests \cup {None}]
      /\ \A t \in TextField : text[t] =
           IF t \in request[r].cleared THEN None
           ELSE IF t \in request[r].text THEN r ELSE row.text[t]
  BY <1>1 DEF retyped
<1>3. ref \in [FileField -> Key \cup {None}]
  BY <1>1, KeyFacts
<1>4. updated(row, r) = [text |-> text, ref |-> ref,
        profileCompletedAt |->
          row.profileCompletedAt \/ request[r].op = "create"]
  BY DEF updated
<1> HIDE DEF text
<1> QED
  BY <1>1, <1>2, <1>3, <1>4 DEF Row, Sends

(* What becomes of requests: the customer stays, a request that has        *)
(* started sends what it started with, and one past its row stays so.      *)
Goes(r) ==
  /\ request'[r].user = request[r].user
  /\ request[r].pc # "new" =>
       /\ request'[r].op = request[r].op /\ request'[r].text = request[r].text
       /\ request'[r].cleared = request[r].cleared
       /\ request'[r].sent = request[r].sent
       /\ request'[r].pc # "new"
  /\ Past(r) => request'[r].pc \in {"stored", "over"}

LEMMA StartFacts ==
  ASSUME TypeOK, NEW r \in Requests, NEW sent \in SUBSET FileField,
         NEW content \in [sent -> Content], NEW text \in SUBSET TextField,
         NEW cleared \in SUBSET TextField, NEW op \in {"create", "edit"},
         Start(r, op, text, cleared, sent, content)
  PROVE  /\ request' \in [Requests -> Request]
         /\ \A q \in Requests : q # r => request'[q] = request[q]
         /\ request[r].pc = "new" /\ request[r].pending = {}
         /\ request'[r].user = request[r].user
         /\ request'[r].op = op /\ request'[r].text = text
         /\ request'[r].cleared = cleared /\ request'[r].sent = sent
         /\ request'[r].pending \subseteq sent
         /\ request'[r].pending # {} => request'[r].pc = "saving"
         /\ request'[r].answer \in {"none", "error"}
         /\ request'[r].answer = "none" => request'[r].pending = sent
         /\ request'[r].pc \in {"saving", "over"}
         /\ UNCHANGED <<customers, files, applied>>
<1> DEFINE good == {f \in sent : acceptable(content[f])}
           pc == IF good = {} /\ sent # {} THEN "over" ELSE "saving"
           answer == IF good = sent THEN "none" ELSE "error"
           next == [request[r] EXCEPT !.pc = pc, !.op = op, !.text = text,
                      !.cleared = cleared, !.sent = sent, !.pending = good,
                      !.answer = answer]
<1>1. request[r] \in Request
  BY DEF TypeOK
<1>2. /\ next \in Request
      /\ next.user = request[r].user /\ next.op = op /\ next.text = text
      /\ next.cleared = cleared /\ next.sent = sent /\ next.pending = good
      /\ next.answer = answer /\ next.pc = pc
  <2>1. /\ good \in SUBSET FileField /\ pc \in {"over", "saving"}
        /\ answer \in Answer
    BY DEF Answer
  <2> HIDE DEF good, pc, answer
  <2> QED
    BY <1>1, <2>1 DEF Request
<1>3. request' = [request EXCEPT ![r] = next]
  BY DEF Start
<1> HIDE DEF next
<1>4. /\ request' \in [Requests -> Request] /\ request'[r] = next
      /\ \A q \in Requests : q # r => request'[q] = request[q]
  BY <1>2, <1>3 DEF TypeOK
<1>5. request[r].pc = "new" /\ UNCHANGED <<customers, files, applied>>
  BY DEF Start
<1>6. request[r].pending = {}
  BY <1>5 DEF TypeOK, Saving
<1> QED
  BY <1>2, <1>4, <1>5, <1>6

LEMMA SettleFacts ==
  ASSUME TypeOK, NEW r \in Requests, NEW f \in request[r].pending,
         NEW answer \in Answer, Settle(r, f, answer)
  PROVE  /\ request' \in [Requests -> Request]
         /\ \A q \in Requests : q # r => request'[q] = request[q]
         /\ request[r].pc = "saving" /\ Sends(r, f) /\ f \in FileField
         /\ request'[r].user = request[r].user
         /\ request'[r].op = request[r].op /\ request'[r].text = request[r].text
         /\ request'[r].cleared = request[r].cleared
         /\ request'[r].sent = request[r].sent
         /\ request'[r].pending = request[r].pending \ {f}
         /\ request'[r].pending # {} => request'[r].pc = "saving"
         /\ request'[r].answer = answer
         /\ request'[r].pc \in {"saving", "over"}
<1> DEFINE left == request[r].pending \ {f}
           pc == IF left = {} /\ answer = "error" THEN "over" ELSE request[r].pc
           next == [request[r] EXCEPT !.pending = left, !.answer = answer,
                      !.pc = pc]
<1>1. request[r] \in Request
  BY DEF TypeOK
<1>2. /\ next \in Request
      /\ next.user = request[r].user /\ next.op = request[r].op
      /\ next.text = request[r].text /\ next.cleared = request[r].cleared
      /\ next.sent = request[r].sent /\ next.pending = left
      /\ next.answer = answer /\ next.pc = pc
  BY <1>1 DEF Request
<1>3. request' = [request EXCEPT ![r] = next]
  BY DEF Settle
<1> HIDE DEF next
<1>4. /\ request' \in [Requests -> Request] /\ request'[r] = next
      /\ \A q \in Requests : q # r => request'[q] = request[q]
  BY <1>2, <1>3 DEF TypeOK
<1>5. request[r].pc = "saving" /\ Sends(r, f)
  BY DEF TypeOK, Saving, Sends
<1>6. f \in FileField
  BY <1>1 DEF Request
<1> QED
  BY <1>2, <1>4, <1>5, <1>6

(* The row is written, or the call answers: what becomes of the request.   *)
LEMMA CallFacts ==
  ASSUME TypeOK, NEW r \in Requests, update(r) \/ answered(r) \/ updateFails(r)
  PROVE  /\ request' \in [Requests -> Request]
         /\ \A q \in Requests : q # r => request'[q] = request[q]
         /\ request[r].pc \in {"saving", "stored"} /\ request[r].pending = {}
         /\ request'[r].user = request[r].user
         /\ request'[r].op = request[r].op /\ request'[r].text = request[r].text
         /\ request'[r].cleared = request[r].cleared
         /\ request'[r].sent = request[r].sent
         /\ request'[r].pending = {}
         /\ request'[r].pc \in {"stored", "over"}
         /\ update(r) => /\ request'[r].pc = "stored"
                         /\ request[r].pc = "saving"
                         /\ request[r].answer = "none"
                         /\ request'[r].answer = "none"
         /\ ~update(r) => /\ request'[r].pc = "over"
                          /\ request'[r].answer = "success" =>
                               request[r].pc = "stored"
                          /\ UNCHANGED <<customers, files, applied>>
<1>1. request[r] \in Request
  BY DEF TypeOK
<1>2. ASSUME NEW pc \in {"stored", "over"}, NEW answer \in Answer,
             request' = [request EXCEPT ![r].pc = pc, ![r].answer = answer]
      PROVE  /\ request' \in [Requests -> Request]
             /\ \A q \in Requests : q # r => request'[q] = request[q]
             /\ request'[r].user = request[r].user
             /\ request'[r].op = request[r].op
             /\ request'[r].text = request[r].text
             /\ request'[r].cleared = request[r].cleared
             /\ request'[r].sent = request[r].sent
             /\ request'[r].pending = request[r].pending
             /\ request'[r].pc = pc
             /\ request'[r].answer = answer
  <2> DEFINE next == [request[r] EXCEPT !.pc = pc, !.answer = answer]
  <2>1. /\ next \in Request
        /\ next.user = request[r].user /\ next.op = request[r].op
        /\ next.text = request[r].text /\ next.cleared = request[r].cleared
        /\ next.sent = request[r].sent
        /\ next.pending = request[r].pending /\ next.answer = answer
        /\ next.pc = pc
    BY <1>1 DEF Request
  <2>2. request' = [request EXCEPT ![r] = next]
    BY <1>1, <1>2 DEF TypeOK
  <2> HIDE DEF next
  <2>3. /\ request' \in [Requests -> Request] /\ request'[r] = next
        /\ \A q \in Requests : q # r => request'[q] = request[q]
    BY <2>1, <2>2 DEF TypeOK
  <2> QED
    BY <2>1, <2>3
<1>3. /\ request[r].pc \in {"saving", "stored"} /\ request[r].pending = {}
      /\ update(r) => request[r].pc = "saving" /\ request[r].answer = "none"
  BY DEF update, answered, updateFails, TypeOK, Saving
<1>4. CASE update(r)
  <2>1. request' = [request EXCEPT ![r].pc = "stored"]
    BY <1>4 DEF update, Apply
  <2>2. request' =
          [request EXCEPT ![r].pc = "stored", ![r].answer = request[r].answer]
    BY <1>1, <2>1 DEF TypeOK, Request
  <2>3. request[r].answer \in Answer
    BY <1>1 DEF Request
  <2> QED
    BY <1>2, <1>3, <1>4, <2>2, <2>3
<1>5. CASE answered(r) /\ ~update(r)
  <2>1. request' = [request EXCEPT ![r].pc = "over", ![r].answer = "success"]
        /\ UNCHANGED <<customers, files, applied>> /\ request[r].pc = "stored"
    BY <1>5 DEF answered, End
  <2> QED
    BY <1>2, <1>3, <1>5, <2>1 DEF Answer
<1>6. CASE updateFails(r) /\ ~update(r)
  <2>1. request' = [request EXCEPT ![r].pc = "over", ![r].answer = "error"]
        /\ UNCHANGED <<customers, files, applied>>
    BY <1>6 DEF updateFails, End
  <2> QED
    BY <1>2, <1>3, <1>6, <2>1 DEF Answer
<1> QED
  BY <1>4, <1>5, <1>6

LEMMA StopFacts ==
  ASSUME TypeOK, stop
  PROVE  /\ request' \in [Requests -> Request]
         /\ files \subseteq files' /\ UNCHANGED <<customers, applied>>
         /\ \A key \in files' \ files :
              /\ key \in Key /\ request[key[1]].pc = "saving"
              /\ Sends(key[1], key[2])
         /\ \A r \in Requests :
              /\ request'[r].user = request[r].user
              /\ request'[r].op = request[r].op
              /\ request'[r].text = request[r].text
              /\ request'[r].cleared = request[r].cleared
              /\ request'[r].sent = request[r].sent
              /\ request'[r].answer = request[r].answer
              /\ request'[r].pc \in {request[r].pc, "over"}
              /\ request'[r].pc \notin {"saving", "stored"}
              /\ request[r].pc = "new" => request'[r].pc = "new"
              /\ request'[r].pending = {}
<1> DEFINE underWay == UNION {{r} \X request[r].pending : r \in Saving}
           ended(r) == [request[r] EXCEPT !.pc = "over", !.pending = {}]
<1>1. PICK done \in SUBSET underWay : files' = files \cup done
  BY DEF stop
<1>2. \A key \in underWay :
        /\ key \in Key /\ request[key[1]].pc = "saving" /\ Sends(key[1], key[2])
  <2> SUFFICES ASSUME NEW r \in Saving, NEW f \in request[r].pending
               PROVE  /\ <<r, f>> \in Key /\ request[r].pc = "saving"
                      /\ Sends(r, f)
    OBVIOUS
  <2>1. r \in Requests /\ request[r].pc = "saving"
    BY DEF Saving
  <2>2. f \in request[r].sent /\ f \in FileField
    BY <2>1 DEF TypeOK, Request
  <2> QED
    BY <2>1, <2>2 DEF Key, Sends
<1>3. \A r \in Requests :
        /\ ended(r) \in Request
        /\ ended(r).user = request[r].user /\ ended(r).op = request[r].op
        /\ ended(r).text = request[r].text
        /\ ended(r).cleared = request[r].cleared
        /\ ended(r).sent = request[r].sent
        /\ ended(r).answer = request[r].answer
        /\ ended(r).pending = {} /\ ended(r).pc = "over"
  BY DEF TypeOK, Request
<1>4. \A r \in Requests :
        request'[r] = IF r \in InFlight THEN ended(r) ELSE request[r]
  BY DEF stop
<1>5. request' \in [Requests -> Request]
  <2>1. \A r \in Requests : request'[r] \in Request
    BY <1>3, <1>4 DEF TypeOK
  <2>2. request' = [r \in Requests |-> request'[r]]
    BY DEF stop
  <2> QED
    BY <2>1, <2>2
<1>6. \A r \in Requests : r \notin Saving => request[r].pending = {}
  BY DEF TypeOK
<1> HIDE DEF ended
<1>7. \A r \in Requests :
        /\ r \in Saving <=> request[r].pc = "saving"
        /\ r \in InFlight <=> request[r].pc \in {"saving", "stored"}
  BY DEF Saving, InFlight
<1>8. \A r \in Requests :
        /\ request'[r].user = request[r].user
        /\ request'[r].op = request[r].op
        /\ request'[r].text = request[r].text
        /\ request'[r].cleared = request[r].cleared
        /\ request'[r].sent = request[r].sent
        /\ request'[r].answer = request[r].answer
        /\ request'[r].pc \in {request[r].pc, "over"}
        /\ request'[r].pc \notin {"saving", "stored"}
        /\ request[r].pc = "new" => request'[r].pc = "new"
        /\ request'[r].pending = {}
  BY <1>3, <1>4, <1>6, <1>7
<1>9. UNCHANGED <<customers, applied>>
  BY DEF stop
<1> QED
  BY <1>1, <1>2, <1>5, <1>8, <1>9

-----------------------------------------------------------------------------
(* The invariant is inductive *)

LEMMA InitEstablishes == Init => IInv
<1> SUFFICES ASSUME Init PROVE IInv
  OBVIOUS
<1>1. /\ customers = [u \in Customers |-> NewRow] /\ files = {}
      /\ applied = [u \in Customers |-> << >>]
      /\ request \in [Requests -> Request]
      /\ \A r \in Requests :
           /\ request[r].pc = "new" /\ request[r].op = "edit"
           /\ request[r].sent = {} /\ request[r].pending = {}
           /\ request[r].answer = "none"
  <2> DEFINE New == {[pc |-> "new", op |-> "edit", user |-> u, text |-> {},
                      cleared |-> {}, sent |-> {}, pending |-> {},
                      answer |-> "none"] :
                       u \in Customers}
  <2>1. request \in [Requests -> New]
    BY DEF Init
  <2>2. \A q \in New : /\ q \in Request /\ q.pc = "new" /\ q.op = "edit"
                       /\ q.sent = {} /\ q.pending = {} /\ q.answer = "none"
    BY DEF Request, Answer
  <2> HIDE DEF New
  <2>3. \A r \in Requests : request[r] \in New
    BY <2>1
  <2>4. request \in [Requests -> Request]
    BY <2>1, <2>2
  <2> QED
    BY <2>2, <2>3, <2>4 DEF Init
<1>2. /\ NewRow \in Row /\ ~NewRow.profileCompletedAt
      /\ \A f \in FileField : NewRow.ref[f] = None
      /\ \A t \in TextField : NewRow.text[t] = None
  BY DEF NewRow, Row
<1>3. TypeOK
  BY <1>1, <1>2 DEF TypeOK
<1>4. /\ Saving = {}
      /\ \A r \in Requests, u \in Customers : ~Named(r, customers[u])
  <2>1. Saving = {}
    BY <1>1 DEF Saving
  <2>2. \A r \in Requests : ~Named(r, NewRow)
    <3> TAKE r \in Requests
    <3>1. r # None /\ \A f \in FileField : <<r, f>> # None
      BY KeyFacts
    <3>2. \A t \in TextField : NewRow.text[t] # r
      BY <1>2, <3>1
    <3>3. \A f \in FileField : NewRow.ref[f] # <<r, f>>
      BY <1>2, <3>1
    <3> QED
      BY <3>2, <3>3 DEF Named
  <2>3. \A u \in Customers : customers[u] = NewRow
    BY <1>1
  <2> QED
    BY <2>1, <2>2, <2>3
<1>5. Shapes /\ Written /\ Stored /\ Whole /\ Names
  BY <1>1, <1>2, <1>4 DEF Shapes, Written, Stored, Whole, Names
<1>6. Origins /\ LastWriter
  BY <1>1 DEF Origins, LastWriter
<1> QED
  BY <1>3, <1>5, <1>6 DEF IInv

(* A step that writes no row: what rows name, and who wrote them.          *)
LEMMA RowsStay ==
  ASSUME IInv, UNCHANGED <<customers, applied>>, files \subseteq files',
         \A q \in Requests :
           /\ Goes(q)
           /\ request'[q].answer = "success" \/ request'[q].pc = "stored" =>
                request[q].answer = "success" \/ request[q].pc = "stored",
         \A key \in files' \ files :
           Sends(key[1], key[2])' /\ request'[key[1]].pc # "new"
  PROVE  Stored' /\ Whole' /\ Names' /\ Origins' /\ LastWriter'
<1>1. \A u \in Customers : \A n \in DOMAIN applied[u] :
        /\ applied[u][n] \in Requests
        /\ request'[applied[u][n]].text = request[applied[u][n]].text
        /\ request'[applied[u][n]].cleared = request[applied[u][n]].cleared
        /\ request'[applied[u][n]].sent = request[applied[u][n]].sent
        /\ request'[applied[u][n]].pc \in {"stored", "over"}
  <2> TAKE u \in Customers
  <2> TAKE n \in DOMAIN applied[u]
  <2>1. applied[u][n] \in Requests
    BY ElementOfSeq DEF IInv, TypeOK
  <2>2. Past(applied[u][n])
    BY DEF IInv, Origins
  <2> QED
    BY <2>1, <2>2 DEF Goes, Past
<1>2. Stored'
  BY DEF IInv, Stored
<1>3. Whole'
  <2>1. \A u \in Customers, t \in TextField :
          ClearedBy(u, t) => ClearedBy(u, t)'
    BY <1>1 DEF ClearedBy
  <2> QED
    BY <2>1 DEF IInv, Whole
<1>4. Names'
  <2> SUFFICES ASSUME NEW r \in Requests, NEW u \in Customers,
                      Named(r, customers[u])
               PROVE  /\ request'[r].pc \in {"stored", "over"}
                      /\ u = request'[r].user
                      /\ \A f \in request'[r].sent : <<r, f>> \in files'
    BY DEF Names, Named, Past
  <2>1. /\ Past(r) /\ u = request[r].user
        /\ \A f \in request[r].sent : <<r, f>> \in files
    BY DEF IInv, Names
  <2> QED
    BY <2>1 DEF Goes, Past
<1>5. Origins'
  <2>1. \A key \in files : Sends(key[1], key[2])' /\ request'[key[1]].pc # "new"
    <3> TAKE key \in files
    <3>1. key[1] \in Requests
      BY KeyFacts DEF IInv, TypeOK
    <3> QED
      BY <3>1 DEF IInv, Origins, Goes, Sends
  <2>2. \A u \in Customers : \A n \in DOMAIN applied'[u] :
          request'[applied'[u][n]].pc \in {"stored", "over"}
    BY <1>1
  <2>3. \A r \in Requests :
          request'[r].answer = "success" \/ request'[r].pc = "stored" =>
            \E n \in DOMAIN applied'[request'[r].user] :
              applied'[request'[r].user][n] = r
    BY DEF IInv, Origins, Goes
  <2> QED
    BY <2>1, <2>2, <2>3 DEF Origins, Past
<1>6. LastWriter'
  BY <1>1 DEF IInv, LastWriter, Sends
<1> QED
  BY <1>2, <1>3, <1>4, <1>5, <1>6

LEMMA StartStep ==
  ASSUME IInv, NEW r \in Requests, NEW sent \in SUBSET FileField,
         NEW content \in [sent -> Content],
         \/ createProfile(r, sent, content)
         \/ \E text, cleared \in SUBSET TextField :
              updateOwnProfile(r, text, cleared, sent, content)
  PROVE  IInv'
<1>1. PICK op \in {"create", "edit"}, text, cleared \in SUBSET TextField :
        /\ Start(r, op, text, cleared, sent, content)
        /\ op = "create" =>
             sent = FileField /\ text = TextField /\ cleared = {}
        /\ op = "edit" => sent \subseteq {"photo"}
  BY DEF createProfile, updateOwnProfile
<1>2. TypeOK
  BY DEF IInv
<1>3. /\ request' \in [Requests -> Request]
      /\ \A q \in Requests : q # r => request'[q] = request[q]
      /\ request[r].pc = "new" /\ request[r].pending = {}
      /\ request'[r].user = request[r].user
      /\ request'[r].op = op /\ request'[r].text = text
      /\ request'[r].cleared = cleared /\ request'[r].sent = sent
      /\ request'[r].pending \subseteq sent
      /\ request'[r].pending # {} => request'[r].pc = "saving"
      /\ request'[r].answer \in {"none", "error"}
      /\ request'[r].answer = "none" => request'[r].pending = sent
      /\ request'[r].pc \in {"saving", "over"}
      /\ UNCHANGED <<customers, files, applied>>
  <2>1. Start(r, op, text, cleared, sent, content)
    BY <1>1
  <2> QED
    BY <1>2, <2>1, StartFacts
<1>4. TypeOK'
  BY <1>2, <1>3 DEF TypeOK, Saving
<1>5. Shapes'
  BY <1>1, <1>3 DEF IInv, Shapes
<1>6. Written'
  BY <1>3 DEF IInv, Written, Saving
<1>7. Stored' /\ Whole' /\ Names' /\ Origins' /\ LastWriter'
  <2>1. \A q \in Requests : Goes(q)
    BY <1>3 DEF Goes, Past
  <2>2. request'[r].answer # "success" /\ request'[r].pc # "stored"
    BY <1>3
  <2> QED
    BY <1>3, <2>1, <2>2, RowsStay
<1> QED
  BY <1>4, <1>5, <1>6, <1>7 DEF IInv

LEMMA SettleStep ==
  ASSUME IInv, NEW r \in Requests, NEW f \in FileField,
         written(r, f) \/ writeFails(r, f)
  PROVE  IInv'
<1> DEFINE answer == IF written(r, f) THEN request[r].answer ELSE "error"
<1>1. /\ f \in request[r].pending /\ answer \in Answer /\ Settle(r, f, answer)
      /\ UNCHANGED <<customers, applied>> /\ files \subseteq files'
      /\ files' \subseteq files \cup {<<r, f>>}
      /\ answer = "success" => request[r].answer = "success"
      /\ answer = "none" => request[r].answer = "none" /\ <<r, f>> \in files'
  BY DEF written, writeFails, IInv, TypeOK, Request, Answer
<1> HIDE DEF answer
<1>2. TypeOK
  BY DEF IInv
<1>3. /\ request' \in [Requests -> Request]
      /\ \A q \in Requests : q # r => request'[q] = request[q]
      /\ request[r].pc = "saving" /\ Sends(r, f)
      /\ request'[r].user = request[r].user
      /\ request'[r].op = request[r].op /\ request'[r].text = request[r].text
      /\ request'[r].cleared = request[r].cleared
      /\ request'[r].sent = request[r].sent
      /\ request'[r].pending = request[r].pending \ {f}
      /\ request'[r].pending # {} => request'[r].pc = "saving"
      /\ request'[r].answer = answer
      /\ request'[r].pc \in {"saving", "over"}
  BY <1>1, <1>2, SettleFacts
<1>4. TypeOK'
  <2>1. files' \subseteq Key
    BY <1>1, <1>2, KeyFacts DEF TypeOK
  <2> QED
    BY <1>1, <1>2, <1>3, <2>1 DEF TypeOK, Saving
<1>5. Shapes'
  BY <1>3 DEF IInv, Shapes
<1>6. Written'
  <2> SUFFICES ASSUME NEW q \in Requests, request'[q].pc = "saving",
                      request'[q].answer = "none",
                      NEW g \in request'[q].sent \ request'[q].pending
               PROVE  <<q, g>> \in files'
    BY DEF Written, Saving
  <2>1. CASE q = r /\ g = f
    BY <1>1, <1>3, <2>1
  <2>2. CASE ~(q = r /\ g = f)
    <3>1. /\ request[q].pc = "saving" /\ request[q].answer = "none"
          /\ g \in request[q].sent \ request[q].pending
      BY <1>1, <1>3, <2>2
    <3> QED
      BY <1>1, <3>1 DEF IInv, Written, Saving
  <2> QED
    BY <2>1, <2>2
<1>7. Stored' /\ Whole' /\ Names' /\ Origins' /\ LastWriter'
  <2>1. \A key \in files' \ files :
          Sends(key[1], key[2])' /\ request'[key[1]].pc # "new"
    BY <1>1, <1>3 DEF Sends
  <2>2. \A q \in Requests :
          /\ Goes(q)
          /\ request'[q].answer = "success" \/ request'[q].pc = "stored" =>
               request[q].answer = "success" \/ request[q].pc = "stored"
    BY <1>1, <1>3 DEF Goes, Past
  <2> QED
    BY <1>1, <2>1, <2>2, RowsStay
<1> QED
  BY <1>4, <1>5, <1>6, <1>7 DEF IInv

LEMMA AnswerStep ==
  ASSUME IInv, NEW r \in Requests, answered(r) \/ updateFails(r), ~update(r)
  PROVE  IInv'
<1>1. TypeOK
  BY DEF IInv
<1>2. /\ request' \in [Requests -> Request]
      /\ \A q \in Requests : q # r => request'[q] = request[q]
      /\ request[r].pc \in {"saving", "stored"} /\ request[r].pending = {}
      /\ request'[r].user = request[r].user
      /\ request'[r].op = request[r].op /\ request'[r].text = request[r].text
      /\ request'[r].cleared = request[r].cleared
      /\ request'[r].sent = request[r].sent
      /\ request'[r].pending = {}
      /\ request'[r].pc = "over"
      /\ request'[r].answer = "success" => request[r].pc = "stored"
      /\ UNCHANGED <<customers, files, applied>>
  BY <1>1, CallFacts
<1>3. TypeOK'
  BY <1>1, <1>2 DEF TypeOK, Saving
<1>4. Shapes' /\ Written'
  BY <1>1, <1>2 DEF IInv, Shapes, Written, Saving
<1>5. Stored' /\ Whole' /\ Names' /\ Origins' /\ LastWriter'
  <2>1. \A q \in Requests :
          /\ Goes(q)
          /\ request'[q].answer = "success" \/ request'[q].pc = "stored" =>
               request[q].answer = "success" \/ request[q].pc = "stored"
    BY <1>2 DEF Goes, Past
  <2> QED
    BY <1>1, <1>2, <2>1, RowsStay
<1> QED
  BY <1>3, <1>4, <1>5 DEF IInv

LEMMA StopStep ==
  ASSUME IInv, stop
  PROVE  IInv'
<1>1. TypeOK
  BY DEF IInv
<1>2. /\ request' \in [Requests -> Request]
      /\ files \subseteq files' /\ UNCHANGED <<customers, applied>>
      /\ \A key \in files' \ files :
           /\ key \in Key /\ request[key[1]].pc = "saving"
           /\ Sends(key[1], key[2])
      /\ \A r \in Requests :
           /\ request'[r].user = request[r].user
           /\ request'[r].op = request[r].op
           /\ request'[r].text = request[r].text
           /\ request'[r].cleared = request[r].cleared
           /\ request'[r].sent = request[r].sent
           /\ request'[r].answer = request[r].answer
           /\ request'[r].pc \in {request[r].pc, "over"}
           /\ request'[r].pc \notin {"saving", "stored"}
           /\ request[r].pc = "new" => request'[r].pc = "new"
           /\ request'[r].pending = {}
  BY <1>1, StopFacts
<1>3. TypeOK'
  BY <1>1, <1>2 DEF TypeOK
<1>4. Shapes' /\ Written'
  BY <1>2 DEF IInv, Shapes, Written, Saving
<1>5. Stored' /\ Whole' /\ Names' /\ Origins' /\ LastWriter'
  <2>1. \A key \in files' \ files :
          Sends(key[1], key[2])' /\ request'[key[1]].pc # "new"
    BY <1>2, KeyFacts DEF Sends
  <2>2. \A q \in Requests :
          /\ Goes(q)
          /\ request'[q].answer = "success" \/ request'[q].pc = "stored" =>
               request[q].answer = "success" \/ request[q].pc = "stored"
    BY <1>2 DEF Goes, Past
  <2> QED
    BY <1>2, <2>1, <2>2, RowsStay
<1> QED
  BY <1>3, <1>4, <1>5 DEF IInv

(* The row of the request's customer, and its history, after the write.    *)
LEMMA UpdateWrites ==
  ASSUME TypeOK, NEW r \in Requests, update(r), NEW u \in Customers
  PROVE  /\ files' = files
         /\ customers' \in [Customers -> Row]
         /\ applied' \in [Customers -> Seq(Requests)]
         /\ u # request[r].user =>
              customers'[u] = customers[u] /\ applied'[u] = applied[u]
         /\ u = request[r].user =>
              /\ customers'[u] = updated(customers[u], r)
              /\ Len(applied'[u]) = Len(applied[u]) + 1
              /\ applied'[u][Len(applied[u]) + 1] = r
              /\ \A n \in 1 .. Len(applied[u]) : applied'[u][n] = applied[u][n]
<1>1. request[r] \in Request /\ request[r].user \in Customers
  BY DEF TypeOK, Request
<1> DEFINE v == request[r].user
<1>2. updated(customers[v], r) \in Row
  BY <1>1, UpdatedFacts DEF TypeOK
<1>3. customers' = [customers EXCEPT ![v] = updated(customers[v], r)]
  BY <1>1 DEF update, Apply, TypeOK
<1>4. applied' = [applied EXCEPT ![v] = Append(applied[v], r)]
  BY <1>1 DEF update, Apply, TypeOK
<1>5. applied[v] \in Seq(Requests)
  BY <1>1 DEF TypeOK
<1>6. /\ Append(applied[v], r) \in Seq(Requests)
      /\ Len(Append(applied[v], r)) = Len(applied[v]) + 1
      /\ Append(applied[v], r)[Len(applied[v]) + 1] = r
      /\ \A n \in 1 .. Len(applied[v]) :
           Append(applied[v], r)[n] = applied[v][n]
  BY <1>5, AppendProperties
<1>7. files' = files
  BY DEF update, Apply
<1> HIDE DEF v
<1>8. customers' \in [Customers -> Row]
  BY <1>2, <1>3 DEF TypeOK
<1>9. applied' \in [Customers -> Seq(Requests)]
  BY <1>4, <1>6 DEF TypeOK
<1>10. v = request[r].user
  BY DEF v
<1>11. CASE u = v
  BY <1>3, <1>4, <1>6, <1>7, <1>8, <1>9, <1>10, <1>11 DEF TypeOK
<1>12. CASE u # v
  BY <1>3, <1>4, <1>7, <1>8, <1>9, <1>10, <1>12 DEF TypeOK
<1> QED
  BY <1>11, <1>12

LEMMA UpdateStep ==
  ASSUME IInv, NEW r \in Requests, update(r)
  PROVE  IInv'
<1>1. TypeOK /\ request[r] \in Request
  BY DEF IInv, TypeOK
<1>2. PICK v \in Customers : v = request[r].user
  BY <1>1 DEF Request
<1>3. /\ request' \in [Requests -> Request]
      /\ \A q \in Requests : q # r => request'[q] = request[q]
      /\ request[r].pc = "saving" /\ request[r].answer = "none"
      /\ request[r].pending = {}
      /\ request'[r].user = v
      /\ request'[r].op = request[r].op /\ request'[r].text = request[r].text
      /\ request'[r].cleared = request[r].cleared
      /\ request'[r].sent = request[r].sent
      /\ request'[r].pending = {}
      /\ request'[r].pc = "stored"
      /\ request'[r].answer = "none"
  BY <1>1, <1>2, CallFacts
<1>4. /\ files' = files
      /\ customers' \in [Customers -> Row]
      /\ applied' \in [Customers -> Seq(Requests)]
      /\ \A u \in Customers :
           /\ u # v => customers'[u] = customers[u] /\ applied'[u] = applied[u]
           /\ u = v =>
                /\ customers'[u] = updated(customers[u], r)
                /\ Len(applied'[u]) = Len(applied[u]) + 1
                /\ applied'[u][Len(applied[u]) + 1] = r
                /\ \A n \in 1 .. Len(applied[u]) :
                     applied'[u][n] = applied[u][n]
  BY <1>1, <1>2, UpdateWrites
<1>5. /\ customers[v] \in Row
      /\ \A t \in TextField : customers'[v].text[t] =
           IF t \in request[r].cleared THEN None
           ELSE IF t \in request[r].text THEN r ELSE customers[v].text[t]
      /\ \A f \in FileField : customers'[v].ref[f] =
           IF Sends(r, f) THEN <<r, f>> ELSE customers[v].ref[f]
      /\ customers'[v].profileCompletedAt =
           (customers[v].profileCompletedAt \/ request[r].op = "create")
  <2>1. customers[v] \in Row
    BY <1>1, <1>2 DEF TypeOK
  <2> QED
    BY <1>1, <1>2, <1>4, <2>1, UpdatedFacts
<1>6. /\ request[r].op \in {"create", "edit"}
      /\ request[r].op = "create" =>
           /\ \A f \in FileField : Sends(r, f)
           /\ request[r].text = TextField /\ request[r].cleared = {}
      /\ request[r].op = "edit" => request[r].sent \subseteq {"photo"}
  BY <1>1 DEF Request, IInv, Shapes, Sends
<1>7. TypeOK'
  <2>1. \A q \in Requests : /\ request'[q].pending \subseteq request'[q].sent
                            /\ request'[q].pending # {} => q \in Saving'
    BY <1>1, <1>3 DEF TypeOK, Saving
  <2>2. files' \subseteq Key
    BY <1>1, <1>4 DEF TypeOK
  <2> QED
    BY <1>3, <1>4, <2>1, <2>2 DEF TypeOK
<1>8. Shapes'
  BY <1>3 DEF IInv, Shapes
<1>9. Written'
  BY <1>3, <1>4 DEF IInv, Written, Saving
<1>10. Stored'
  <2> SUFFICES ASSUME NEW u \in Customers, NEW f \in FileField,
                      customers'[u].ref[f] # None
               PROVE  customers'[u].ref[f] \in files
    BY <1>4 DEF Stored
  <2>1. CASE u = v /\ Sends(r, f)
    <3>1. <<r, f>> \in files
      BY <1>3, <2>1 DEF IInv, Written, Saving, Sends
    <3> QED
      BY <1>5, <2>1, <3>1
  <2>2. CASE ~(u = v /\ Sends(r, f))
    <3>1. customers'[u].ref[f] = customers[u].ref[f]
      BY <1>4, <1>5, <2>2
    <3> QED
      BY <3>1 DEF IInv, Stored
  <2> QED
    BY <2>1, <2>2
<1>20. \A u \in Customers :
         /\ DOMAIN applied[u] = 1 .. Len(applied[u]) /\ Len(applied[u]) \in Nat
         /\ DOMAIN applied'[u] = 1 .. Len(applied'[u])
         /\ \A n \in DOMAIN applied[u] :
              /\ applied[u][n] \in Requests
              /\ n \in DOMAIN applied'[u] /\ applied'[u][n] = applied[u][n]
         /\ \A n \in DOMAIN applied'[u] :
              /\ applied'[u][n] \in Requests
              /\ n \notin DOMAIN applied[u] =>
                   u = v /\ n = Len(applied[u]) + 1 /\ applied'[u][n] = r
  <2> TAKE u \in Customers
  <2>1. /\ DOMAIN applied[u] = 1 .. Len(applied[u]) /\ Len(applied[u]) \in Nat
        /\ DOMAIN applied'[u] = 1 .. Len(applied'[u])
    BY <1>1, <1>4 DEF TypeOK
  <2>2. /\ \A n \in DOMAIN applied[u] : applied[u][n] \in Requests
        /\ \A n \in DOMAIN applied'[u] : applied'[u][n] \in Requests
    <3>1. applied[u] \in Seq(Requests) /\ applied'[u] \in Seq(Requests)
      BY <1>1, <1>4 DEF TypeOK
    <3> QED
      BY <2>1, <3>1
  <2>3. CASE u = v
    BY <1>4, <2>1, <2>2, <2>3
  <2>4. CASE u # v
    BY <1>4, <2>1, <2>2, <2>4
  <2> QED
    BY <2>3, <2>4
<1>11. Whole'
  <2> DEFINE whole(u) ==
        /\ \A f \in FileField : customers[u].ref[f] # None
        /\ \A t \in TextField : customers[u].text[t] # None \/ ClearedBy(u, t)
        /\ \E q \in Requests : \A f \in Kyc : customers[u].ref[f] = <<q, f>>
  <2>1. \A u \in Customers : customers[u].profileCompletedAt => whole(u)
    BY DEF IInv, Whole
  <2>2. \A q \in Requests : /\ request'[q].text = request[q].text
                            /\ request'[q].cleared = request[q].cleared
    BY <1>3
  <2>3. \A u \in Customers, t \in TextField :
          ClearedBy(u, t) /\ (u = v => t \notin request[r].text) =>
            ClearedBy(u, t)'
    <3> SUFFICES ASSUME NEW u \in Customers, NEW t \in TextField,
                        NEW n \in DOMAIN applied[u],
                        t \in request[applied[u][n]].cleared,
                        \A m \in DOMAIN applied[u] :
                          m > n => t \notin request[applied[u][m]].text,
                        u = v => t \notin request[r].text
                 PROVE  ClearedBy(u, t)'
      BY DEF ClearedBy
    <3>1. /\ n \in DOMAIN applied'[u]
          /\ t \in request'[applied'[u][n]].cleared
      BY <1>20, <2>2
    <3>2. \A m \in DOMAIN applied'[u] :
            m > n => t \notin request'[applied'[u][m]].text
      BY <1>20, <2>2
    <3> QED
      BY <3>1, <3>2 DEF ClearedBy
  <2>4. \A t \in request[r].cleared : ClearedBy(v, t)'
    <3> TAKE t \in request[r].cleared
    <3> DEFINE last == Len(applied[v]) + 1
    <3>1. /\ last \in DOMAIN applied'[v]
          /\ t \in request'[applied'[v][last]].cleared
      BY <1>2, <1>4, <1>20, <2>2
    <3>2. \A m \in DOMAIN applied'[v] : ~(m > last)
      BY <1>2, <1>4, <1>20
    <3> QED
      BY <3>1, <3>2 DEF ClearedBy
  <2>5. customers'[v].profileCompletedAt => whole(v)'
    <3>1. CASE request[r].op = "create"
      <4>1. \A f \in FileField : customers'[v].ref[f] = <<r, f>>
        BY <1>5, <1>6, <3>1
      <4>2. \A t \in TextField : customers'[v].text[t] = r
        BY <1>5, <1>6, <3>1
      <4>3. /\ \A f \in FileField : customers'[v].ref[f] # None
            /\ \A t \in TextField : customers'[v].text[t] # None
        BY <4>1, <4>2, KeyFacts
      <4>4. \A f \in Kyc : customers'[v].ref[f] = <<r, f>>
        BY <4>1 DEF FileField
      <4> QED
        BY <4>3, <4>4
    <3>2. CASE request[r].op = "edit" /\ customers[v].profileCompletedAt
      <4>1. \A f \in Kyc : customers'[v].ref[f] = customers[v].ref[f]
        BY <1>5, <1>6, <3>2 DEF Kyc, FileField, Sends
      <4>2. \A f \in FileField : customers'[v].ref[f] # None
        <5> TAKE f \in FileField
        <5>1. customers[v].ref[f] # None
          BY <1>2, <2>1, <3>2
        <5>2. <<r, f>> # None
          BY KeyFacts
        <5> QED
          BY <1>5, <5>1, <5>2
      <4>3. \A t \in TextField :
              customers'[v].text[t] # None \/ ClearedBy(v, t)'
        <5> TAKE t \in TextField
        <5>1. CASE t \in request[r].cleared
          BY <2>4, <5>1
        <5>2. CASE t \in request[r].text /\ t \notin request[r].cleared
          BY <1>5, <5>2, KeyFacts
        <5>3. CASE t \notin request[r].text \cup request[r].cleared
          <6>1. customers'[v].text[t] = customers[v].text[t]
            BY <1>5, <5>3
          <6>2. customers[v].text[t] # None \/ ClearedBy(v, t)
            BY <1>2, <2>1, <3>2
          <6>3. ClearedBy(v, t) => ClearedBy(v, t)'
            BY <1>2, <2>3, <5>3
          <6> QED
            BY <6>1, <6>2, <6>3
        <5> QED
          BY <5>1, <5>2, <5>3
      <4>4. PICK q \in Requests : \A f \in Kyc : customers[v].ref[f] = <<q, f>>
        BY <1>2, <2>1, <3>2
      <4> QED
        BY <4>1, <4>2, <4>3, <4>4
    <3>3. CASE request[r].op = "edit" /\ ~customers[v].profileCompletedAt
      BY <1>5, <3>3
    <3> QED
      BY <1>6, <3>1, <3>2, <3>3
  <2>6. \A u \in Customers : customers'[u].profileCompletedAt => whole(u)'
    <3> TAKE u \in Customers
    <3>1. CASE u = v
      BY <2>5, <3>1
    <3>2. CASE u # v
      <4>1. customers'[u] = customers[u]
        BY <1>4, <3>2
      <4>2. \A t \in TextField : ClearedBy(u, t) => ClearedBy(u, t)'
        BY <2>3, <3>2
      <4> QED
        BY <2>1, <4>1, <4>2
    <3> QED
      BY <3>1, <3>2
  <2> QED
    BY <2>6 DEF Whole
<1>12. Names'
  <2> SUFFICES ASSUME NEW q \in Requests, NEW u \in Customers,
                      Named(q, customers'[u])
               PROVE  /\ request'[q].pc \in {"stored", "over"}
                      /\ u = request'[q].user
                      /\ \A f \in request'[q].sent : <<q, f>> \in files
    BY <1>4 DEF Names, Named, Past
  <2>1. CASE q = r /\ u = v
    BY <1>3, <2>1 DEF IInv, Written, Saving
  <2>2. CASE ~(q = r /\ u = v)
    <3>1. Named(q, customers[u])
      <4>1. CASE u = v
        <5>1. q # r
          BY <2>2, <4>1
        <5>2. ASSUME NEW t \in TextField, customers'[v].text[t] = q
              PROVE  customers[v].text[t] = q
          BY <1>5, <5>1, <5>2, KeyFacts
        <5>3. ASSUME NEW f \in FileField, customers'[v].ref[f] = <<q, f>>
              PROVE  customers[v].ref[f] = <<q, f>>
          <6>1. <<r, f>> # <<q, f>>
            BY <5>1
          <6> QED
            BY <1>5, <5>3, <6>1
        <5> QED
          BY <4>1, <5>2, <5>3 DEF Named
      <4>2. CASE u # v
        BY <1>4, <4>2
      <4> QED
        BY <4>1, <4>2
    <3>2. /\ Past(q) /\ u = request[q].user
          /\ \A f \in request[q].sent : <<q, f>> \in files
      BY <3>1 DEF IInv, Names
    <3> QED
      BY <1>3, <3>2 DEF Past
  <2> QED
    BY <2>1, <2>2
<1>14. Origins'
  <2>1. \A key \in files : Sends(key[1], key[2])' /\ request'[key[1]].pc # "new"
    <3> TAKE key \in files
    <3>1. key[1] \in Requests
      BY <1>1, KeyFacts DEF TypeOK
    <3> QED
      BY <1>3, <3>1 DEF IInv, Origins, Sends
  <2>2. \A u \in Customers : \A n \in DOMAIN applied'[u] :
          request'[applied'[u][n]].pc \in {"stored", "over"}
    BY <1>3, <1>20 DEF IInv, Origins, Past
  <2>3. \A q \in Requests :
          request'[q].answer = "success" \/ request'[q].pc = "stored" =>
          \E n \in DOMAIN applied'[request'[q].user] :
            applied'[request'[q].user][n] = q
    <3> SUFFICES ASSUME NEW q \in Requests,
                        \/ request'[q].answer = "success"
                        \/ request'[q].pc = "stored"
                 PROVE  \E n \in DOMAIN applied'[request'[q].user] :
                          applied'[request'[q].user][n] = q
      OBVIOUS
    <3>1. CASE q = r
      <4>1. Len(applied[v]) + 1 \in DOMAIN applied'[v]
        BY <1>2, <1>4, <1>20
      <4> QED
        BY <1>2, <1>3, <1>4, <3>1, <4>1
    <3>2. CASE q # r
      <4>1. request'[q].user = request[q].user /\ request[q].user \in Customers
            /\ \/ request[q].answer = "success"
               \/ request[q].pc = "stored"
        BY <1>1, <1>3, <3>2 DEF TypeOK, Request
      <4>2. PICK n \in DOMAIN applied[request[q].user] :
              applied[request[q].user][n] = q
        BY <4>1 DEF IInv, Origins
      <4> QED
        BY <1>20, <4>1, <4>2
    <3> QED
      BY <3>1, <3>2
  <2> QED
    BY <1>4, <2>1, <2>2, <2>3 DEF Origins, Past
<1>15. LastWriter'
  <2> SUFFICES ASSUME NEW u \in Customers, NEW f \in FileField,
                      NEW k \in DOMAIN applied'[u],
                      f \in request'[applied'[u][k]].sent
               PROVE  \E n \in DOMAIN applied'[u] :
                        /\ f \in request'[applied'[u][n]].sent
                        /\ customers'[u].ref[f] = <<applied'[u][n], f>>
                        /\ \A m \in DOMAIN applied'[u] :
                             f \in request'[applied'[u][m]].sent => m <= n
    BY DEF LastWriter, Sends
  <2>1. \A q \in Requests : request'[q].sent = request[q].sent
    BY <1>3
  <2>2. CASE u = v /\ Sends(r, f)
    <3> DEFINE last == Len(applied[u]) + 1
    <3>1. last \in DOMAIN applied'[u] /\ applied'[u][last] = r
      BY <1>4, <1>20, <2>2
    <3>2. customers'[u].ref[f] = <<r, f>>
      BY <1>5, <2>2
    <3>3. \A m \in DOMAIN applied'[u] : m <= last
      BY <1>20
    <3>4. f \in request'[applied'[u][last]].sent
      BY <2>1, <2>2, <3>1 DEF Sends
    <3> QED
      BY <3>1, <3>2, <3>3, <3>4
  <2>3. CASE ~(u = v /\ Sends(r, f))
    <3>1. customers'[u].ref[f] = customers[u].ref[f]
      BY <1>4, <1>5, <2>3
    <3>2. \A m \in DOMAIN applied'[u] : f \in request'[applied'[u][m]].sent =>
            m \in DOMAIN applied[u] /\ f \in request[applied[u][m]].sent
      BY <1>20, <2>1, <2>3 DEF Sends
    <3>3. \E m \in DOMAIN applied[u] : Sends(applied[u][m], f)
      BY <3>2 DEF Sends
    <3>4. PICK n \in DOMAIN applied[u] :
            /\ Sends(applied[u][n], f)
            /\ customers[u].ref[f] = <<applied[u][n], f>>
            /\ \A m \in DOMAIN applied[u] : Sends(applied[u][m], f) => m <= n
      BY <3>3 DEF IInv, LastWriter
    <3>5. n \in DOMAIN applied'[u] /\ applied'[u][n] = applied[u][n]
      BY <1>20
    <3>6. f \in request'[applied'[u][n]].sent
      BY <1>20, <2>1, <3>4, <3>5 DEF Sends
    <3> QED
      BY <3>1, <3>2, <3>4, <3>5, <3>6 DEF Sends
  <2> QED
    BY <2>2, <2>3
<1> QED
  BY <1>7, <1>8, <1>9, <1>10, <1>11, <1>12, <1>14, <1>15 DEF IInv

LEMMA NextPreserves == IInv /\ [Next]_vars => IInv'
<1> SUFFICES ASSUME IInv, [Next]_vars PROVE IInv'
  OBVIOUS
<1>1. ASSUME NEW r \in Requests, NEW sent \in SUBSET FileField,
             NEW content \in [sent -> Content],
             \/ createProfile(r, sent, content)
             \/ \E text, cleared \in SUBSET TextField :
                  updateOwnProfile(r, text, cleared, sent, content)
      PROVE  IInv'
  BY <1>1, StartStep
<1>2. ASSUME NEW r \in Requests, NEW f \in FileField,
             written(r, f) \/ writeFails(r, f)
      PROVE  IInv'
  BY <1>2, SettleStep
<1>3. ASSUME NEW r \in Requests, update(r) \/ answered(r) \/ updateFails(r)
      PROVE  IInv'
  BY <1>3, UpdateStep, AnswerStep
<1>4. CASE stop
  BY <1>4, StopStep
<1>5. CASE UNCHANGED vars
  <2>1. /\ customers' = customers /\ files' = files /\ request' = request
        /\ applied' = applied
    BY <1>5 DEF vars
  <2>2. TypeOK' /\ Shapes' /\ Written' /\ Stored' /\ Whole'
    BY <2>1
    DEF IInv, TypeOK, Saving, Shapes, Written, Stored, Whole, ClearedBy
  <2>3. Names' /\ Origins' /\ LastWriter'
    BY <2>1 DEF IInv, Names, Named, Past, Origins, LastWriter, Sends
  <2> QED
    BY <2>2, <2>3 DEF IInv
<1> QED
  BY <1>1, <1>2, <1>3, <1>4, <1>5 DEF Next, refuse

LEMMA Invariance == Spec => []IInv
BY InitEstablishes, NextPreserves, PTL DEF Spec

-----------------------------------------------------------------------------
(* The properties *)

(* Rows, keys and requests stay within the schema, and no request is over  *)
(* while a write it started is under way.                                  *)
THEOREM TypeCorrect == Spec => []TypeOK
<1>1. IInv => TypeOK
  BY DEF IInv
<1> QED
  BY <1>1, Invariance, PTL

(* A profile that isProfileComplete accepts has every file, all in the     *)
(* store, the scans of one request, and every text that no request has     *)
(* cleared since: createProfile writes its row after the last of its       *)
(* files, and in one update.                                               *)
THEOREM CompleteProfilesAreWhole == Spec => []CompleteProfileIsWhole
<1>1. IInv => CompleteProfileIsWhole
  <2> SUFFICES ASSUME IInv, NEW u \in Customers, isProfileComplete(u)
               PROVE
                 LET row == customers[u]
                 IN /\ getOwnProfile(u).link = FileField
                    /\ \A f \in FileField : row.ref[f] \in files
                    /\ \A t \in TextField :
                         row.text[t] # None \/ ClearedBy(u, t)
                    /\ \E r \in Requests : \A f \in Kyc : row.ref[f] = <<r, f>>
    BY DEF CompleteProfileIsWhole
  <2>1. /\ \A f \in FileField : customers[u].ref[f] # None
        /\ \A t \in TextField : customers[u].text[t] # None \/ ClearedBy(u, t)
        /\ \E r \in Requests : \A f \in Kyc : customers[u].ref[f] = <<r, f>>
    BY DEF IInv, Whole, isProfileComplete
  <2>2. getOwnProfile(u).link = FileField
    BY <2>1 DEF getOwnProfile
  <2>3. \A f \in FileField : customers[u].ref[f] \in files
    BY <2>1 DEF IInv, Stored
  <2> QED
    BY <2>1, <2>2, <2>3
<1> QED
  BY <1>1, Invariance, PTL

(* A row names a request only when it is of its own customer and has       *)
(* stored every file it came with, whichever of the writes fail, in what   *)
(* order they settle, and whatever the request answers.                    *)
THEOREM NothingIsHalfDone == Spec => []NothingHalfDone
<1>1. IInv => NothingHalfDone
  BY DEF IInv, Names, NothingHalfDone
<1> QED
  BY <1>1, Invariance, PTL

(* Every file of the store is named by its customer's row, or was replaced *)
(* by a request that wrote the row later, or is left by one that never     *)
(* wrote the row and has not answered success: the writes of the files and *)
(* the update of the row are steps of their own.                           *)
THEOREM EveryFileIsAccountedFor == Spec => []FilesAccounted
<1>1. IInv => FilesAccounted
  <2> SUFFICES ASSUME IInv, NEW key \in files
               PROVE
                 LET r == key[1]
                     f == key[2]
                     u == request[r].user
                     writers == applied[u]
                     mine == {n \in DOMAIN writers : writers[n] = r}
                     later == {n \in DOMAIN writers :
                                 /\ f \in request[writers[n]].sent
                                 /\ \E m \in mine : m < n}
                 IN \/ customers[u].ref[f] = key
                    \/ later # {}
                    \/ mine = {} /\ request[r].answer # "success"
    BY DEF FilesAccounted
  <2> DEFINE r == key[1]
             f == key[2]
             u == request[r].user
             mine == {n \in DOMAIN applied[u] : applied[u][n] = r}
  <2>1. /\ r \in Requests /\ f \in FileField /\ key = <<r, f>>
        /\ u \in Customers /\ applied[u] \in Seq(Requests)
        /\ Sends(r, f)
    <3>1. key \in Key
      BY DEF IInv, TypeOK
    <3>2. r \in Requests /\ f \in FileField /\ key = <<r, f>>
      BY <3>1, KeyFacts
    <3> QED
      BY <3>2 DEF IInv, TypeOK, Request, Origins
  <2>2. request[r].answer = "success" => mine # {}
    <3> SUFFICES ASSUME request[r].answer = "success" PROVE mine # {}
      OBVIOUS
    <3>1. PICK m \in DOMAIN applied[u] : applied[u][m] = r
      BY <2>1 DEF IInv, Origins
    <3> QED
      BY <3>1
  <2> HIDE DEF r, f, u
  <2>3. ASSUME mine # {}, customers[u].ref[f] # key
        PROVE  \E n \in DOMAIN applied[u] :
                 f \in request[applied[u][n]].sent /\ \E m \in mine : m < n
    <3>1. PICK m \in DOMAIN applied[u] : applied[u][m] = r
      BY <2>3
    <3>2. Sends(applied[u][m], f)
      BY <2>1, <3>1
    <3>3. PICK n \in DOMAIN applied[u] :
            /\ Sends(applied[u][n], f)
            /\ customers[u].ref[f] = <<applied[u][n], f>>
            /\ \A k \in DOMAIN applied[u] : Sends(applied[u][k], f) => k <= n
      BY <2>1, <3>2 DEF IInv, LastWriter
    <3>4. n # m /\ m <= n
      BY <2>1, <2>3, <3>1, <3>2, <3>3
    <3>5. m \in mine /\ m < n
      BY <2>1, <3>1, <3>4
    <3> QED
      BY <3>3, <3>5 DEF Sends
  <2> QED
    BY <2>2, <2>3 DEF r, f, u
<1> QED
  BY <1>1, Invariance, PTL
=============================================================================
