------------------------------ MODULE Profiles ------------------------------
(***************************************************************************)
(* The customer's profile over the file store: creating it, with a photo   *)
(* and three KYC scans, and editing it (src/customers/customers.service.ts *)
(* and save of src/storage/storage.service.ts).                            *)
(*                                                                         *)
(* createProfile stores its four files at once and waits for all of them;  *)
(* Promise.all rejects with the first that fails, while the others go on   *)
(* to the end.  The row is then written by one database call, which may    *)
(* have been applied although it rejects.  Which request a value came from *)
(* stands for the value.                                                   *)
(***************************************************************************)
EXTENDS Naturals, Sequences, FiniteSets

CONSTANTS
  Customers,
  Requests,         \* bound: the requests there are, each sent once
  TextField,        \* the fields that are text: name, email, city, ...
  None,             \* an absent field
  MaxInFlight       \* bound: requests in flight at the same time

VARIABLES
  customers,        \* the row of each customer
  files,            \* keys the file store holds
  request,          \* what each request is doing
  applied           \* history: the requests that wrote each row, in order

vars == <<customers, files, request, applied>>

-----------------------------------------------------------------------------
(* Data *)

Kyc == {"aadhaarFront", "aadhaarBack", "panCard"}

FileField == Kyc \cup {"photo"}

(* randomUUID: a key is never drawn twice.                                 *)
Key == Requests \X FileField

ASSUME ProfilesAssumption ==
  None \notin Requests \cup Key /\ MaxInFlight \in Nat

Row == [text : [TextField -> Requests \cup {None}],
        ref : [FileField -> Key \cup {None}],
        profileCompletedAt : BOOLEAN]

NewRow == [text |-> [t \in TextField |-> None],
           ref |-> [f \in FileField |-> None], profileCompletedAt |-> FALSE]

(* What a request has answered: nothing yet, or nothing ever when the      *)
(* process stopped.                                                        *)
Answer == {"none", "success", "error"}

(* text came with a value and cleared as null; pending are the writes of   *)
(* the file store that have not settled; at "stored" the row is written    *)
(* and the request waits to hear of it.                                    *)
Request ==
  [pc : {"new", "saving", "stored", "over"}, op : {"create", "edit"},
   user : Customers, text : SUBSET TextField, cleared : SUBSET TextField,
   sent : SUBSET FileField, pending : SUBSET FileField, answer : Answer]

(* What arrives for a file.                                                *)
Content == {"empty", "tooLarge", "unsupported", "ok"}

-----------------------------------------------------------------------------
Init ==
  /\ customers = [u \in Customers |-> NewRow]
  /\ files = {}
  /\ request \in [Requests -> {[pc |-> "new", op |-> "edit", user |-> u,
                                text |-> {}, cleared |-> {}, sent |-> {},
                                pending |-> {}, answer |-> "none"] :
                                  u \in Customers}]
  /\ applied = [u \in Customers |-> << >>]

Saving == {r \in Requests : request[r].pc = "saving"}

InFlight == {r \in Requests : request[r].pc \in {"saving", "stored"}}

(* The checks of storage.save, made before it awaits anything.             *)
acceptable(content) == content \notin {"empty", "tooLarge", "unsupported"}

Start(r, op, text, cleared, sent, content) ==
  LET good == {f \in sent : acceptable(content[f])}
  IN /\ request[r].pc = "new"
     /\ Cardinality(InFlight) < MaxInFlight
     /\ request' = [request EXCEPT ![r] =
          [@ EXCEPT !.pc = IF good = {} /\ sent # {} THEN "over" ELSE "saving",
                    !.op = op, !.text = text, !.cleared = cleared,
                    !.sent = sent, !.pending = good,
                    !.answer = IF good = sent THEN "none" ELSE "error"]]
     /\ UNCHANGED <<customers, files, applied>>

(* All four files came; the saves start, those with an unusable file fail  *)
(* at once and the request with them.                                      *)
createProfile(r, sent, content) ==
  sent = FileField /\ Start(r, "create", TextField, {}, sent, content)

(* Some of the text fields, the photo or not, and not nothing.  A text may *)
(* be null, which the checks of the request take for absent and the update *)
(* does not; but JSON carries no file, and a form carries no null.         *)
updateOwnProfile(r, text, cleared, sent, content) ==
  /\ sent \subseteq {"photo"}
  /\ text \cap cleared = {}
  /\ cleared # {} => sent = {}
  /\ text # {} \/ cleared # {} \/ sent # {}
  /\ Start(r, "edit", text, cleared, sent, content)

(* The outcome of one write: it settles, and a request that was answered   *)
(* with an error ends with its last write.                                 *)
Settle(r, f, answer) ==
  LET left == request[r].pending \ {f}
  IN request' = [request EXCEPT ![r] =
        [@ EXCEPT !.pending = left, !.answer = answer,
                  !.pc = IF left = {} /\ answer = "error" THEN "over"
                         ELSE request[r].pc]]

written(r, f) ==
  /\ f \in request[r].pending
  /\ files' = files \cup {<<r, f>>}
  /\ Settle(r, f, request[r].answer)
  /\ UNCHANGED <<customers, applied>>

writeFails_swallowed(r, f) ==
  /\ f \in request[r].pending
  /\ Settle(r, f, request[r].answer)
  /\ UNCHANGED <<customers, files, applied>>

writeFails(r, f) ==
  /\ f \in request[r].pending
  /\ Settle(r, f, "error")
  /\ UNCHANGED <<customers, files, applied>>

(* The one update of the row: what becomes of its texts.                   *)
retyped(row, r) ==
  [t \in TextField |-> IF t \in request[r].cleared THEN None
                       ELSE IF t \in request[r].text THEN r
                       ELSE row.text[t]]

updated_keepsOld(row, r) ==
  LET q == request[r]
  IN [text |-> retyped(row, r),
      ref |-> [f \in FileField |->
                 IF f \in q.sent /\ row.ref[f] = None
                 THEN <<r, f>> ELSE row.ref[f]],
      profileCompletedAt |-> row.profileCompletedAt \/ q.op = "create"]

updated_keepsScans(row, r) ==
  LET q == request[r]
  IN [text |-> retyped(row, r),
      ref |-> [f \in FileField |->
                 IF f \in q.sent /\ (f # "panCard" \/ row.ref[f] = None)
                 THEN <<r, f>> ELSE row.ref[f]],
      profileCompletedAt |-> row.profileCompletedAt \/ q.op = "create"]

updated(row, r) ==
  LET q == request[r]
  IN [text |-> retyped(row, r),
      ref |-> [f \in FileField |->
                 IF f \in q.sent THEN <<r, f>> ELSE row.ref[f]],
      profileCompletedAt |-> row.profileCompletedAt \/ q.op = "create"]

Apply(r) ==
  LET u == request[r].user IN
  /\ customers' = [customers EXCEPT ![u] = updated(@, r)]
  /\ applied' = [applied EXCEPT ![u] = Append(@, r)]
  /\ request' = [request EXCEPT ![r].pc = "stored"]
  /\ UNCHANGED files

update_notAwaited(r) ==
  /\ request[r].pc = "saving" /\ request[r].answer = "none"
  /\ Apply(r)

(* findByIdAndUpdate, once every file is stored.                           *)
update(r) ==
  /\ request[r].pc = "saving" /\ request[r].answer = "none"
  /\ request[r].pending = {}
  /\ Apply(r)

End(r, answer) ==
  /\ request' = [request EXCEPT ![r].pc = "over", ![r].answer = answer]
  /\ UNCHANGED <<customers, files, applied>>

answered(r) == request[r].pc = "stored" /\ End(r, "success")

(* The call rejects, before the row was written or after.                  *)
updateFails(r) ==
  /\ \/ request[r].pc = "stored"
     \/ /\ request[r].pc = "saving" /\ request[r].answer = "none"
        /\ request[r].pending = {}
  /\ End(r, "error")

(* The process stops: some of the writes under way are on the disk.        *)
stop ==
  LET underWay == UNION {{r} \X request[r].pending : r \in Saving}
  IN /\ InFlight # {}
     /\ \E done \in SUBSET underWay : files' = files \cup done
     /\ request' = [r \in Requests |->
                      IF r \in InFlight
                      THEN [request[r] EXCEPT !.pc = "over", !.pending = {}]
                      ELSE request[r]]
     /\ UNCHANGED <<customers, applied>>

(* A request that fails a check before it calls anything: files missing,   *)
(* or nothing to update.                                                   *)
refuse ==
  UNCHANGED vars

Next ==
  \/ \E r \in Requests :
       \/ \E sent \in SUBSET FileField : \E content \in [sent -> Content] :
            \/ createProfile(r, sent, content)
            \/ \E text, cleared \in SUBSET TextField :
                 updateOwnProfile(r, text, cleared, sent, content)
       \/ \E f \in FileField : written(r, f) \/ writeFails(r, f)
       \/ update(r)
       \/ answered(r)
       \/ updateFails(r)
  \/ stop
  \/ refuse

Spec == Init /\ [][Next]_vars
-----------------------------------------------------------------------------
(* isProfileComplete, asked before an application is started.              *)
isProfileComplete(u) == customers[u].profileCompletedAt

(* The profile screen: links to what is there.                             *)
getOwnProfile(u) ==
  [link |-> {f \in FileField : customers[u].ref[f] # None},
   profileComplete |-> isProfileComplete(u)]

-----------------------------------------------------------------------------
(* Properties *)

(* The type invariant: rows, keys and requests stay within the schema, and *)
(* a request is not over while a write it started is under way.            *)
TypeOK ==
  /\ customers \in [Customers -> Row]
  /\ files \subseteq Key
  /\ request \in [Requests -> Request]
  /\ applied \in [Customers -> Seq(Requests)]
  /\ \A r \in Requests : /\ request[r].pending \subseteq request[r].sent
                         /\ request[r].pending # {} => r \in Saving

(* The text was sent as null by a request that wrote the row, and by none  *)
(* that wrote it later sent again.                                         *)
ClearedBy(u, t) ==
  \E n \in DOMAIN applied[u] :
    /\ t \in request[applied[u][n]].cleared
    /\ \A m \in DOMAIN applied[u] :
         m > n => t \notin request[applied[u][m]].text

(* A profile that opens the way to an application is whole: every file, in *)
(* the store, and the three scans sent together, never a front of one card *)
(* with the back of another, whatever overlapped; and every text, but for  *)
(* those that a request has cleared since.                                 *)
CompleteProfileIsWhole ==
  \A u \in Customers : isProfileComplete(u) =>
    LET row == customers[u]
    IN /\ getOwnProfile(u).link = FileField
       /\ \A f \in FileField : row.ref[f] \in files
       /\ \A t \in TextField : row.text[t] # None \/ ClearedBy(u, t)
       /\ \E r \in Requests : \A f \in Kyc : row.ref[f] = <<r, f>>

(* What the comment of isProfileComplete says: the mandatory fields are    *)
(* all present.  An edit that sends a text as null undoes it.              *)
CompleteHasEveryText ==
  \A u \in Customers, t \in TextField :
    isProfileComplete(u) => customers[u].text[t] # None

(* The row r appears in.                                                   *)
Named(r, row) ==
  \/ \E t \in TextField : row.text[t] = r
  \/ \E f \in FileField : row.ref[f] = <<r, f>>

(* A request changes its customer's row and no other, and none unless each *)
(* of its files was stored: when one fails, the others that still go on    *)
(* are for nothing.  (An answer with an error alone promises less: the     *)
(* last call may have changed the row before it rejected.)                 *)
NothingHalfDone ==
  \A r \in Requests, u \in Customers : Named(r, customers[u]) =>
    /\ u = request[r].user
    /\ \A f \in request[r].sent : <<r, f>> \in files

(* A stored file that no row names was replaced by a later one, or belongs *)
(* to a request that never wrote the row: it is under way, failed, or died *)
(* with the process.                                                       *)
FilesAccounted ==
  \A key \in files :
    LET r == key[1]
        f == key[2]
        u == request[r].user
        writers == applied[u]
        mine == {n \in DOMAIN writers : writers[n] = r}
        later == {n \in DOMAIN writers : /\ f \in request[writers[n]].sent
                                         /\ \E m \in mine : m < n}
    IN \/ customers[u].ref[f] = key
       \/ later # {}
       \/ mine = {} /\ request[r].answer # "success"
=============================================================================
