------------------------------ MODULE Sessions ------------------------------
(***************************************************************************)
(* Refresh tokens: issue, rotation, the answer to a token that was already *)
(* replaced, and logout (src/auth/auth.service.ts).                        *)
(*                                                                         *)
(* refresh is three database calls: find the presented token, insert the   *)
(* next one, save the old one as replaced.  Only the insert hides inside   *)
(* issueTokens, which every kind of login shares.  Clients are outside the *)
(* program: a client keeps the last token it was given, drops it when told *)
(* that its session is over, and may have several requests in flight.      *)
(***************************************************************************)
EXTENDS Naturals, Sequences, FiniteSets

CONSTANTS
  Clients,          \* devices
  Subjects,         \* customers, partners and staff
  subjectOf,        \* subjectOf[c]: who uses the device
  Handlers,         \* refresh requests that can be in flight at a time
  MaxTokens,        \* bound: tokens issued
  MaxFailures       \* bound: requests or answers lost

ASSUME ClientsAssumption == subjectOf \in [Clients -> Subjects]

ASSUME BoundsAssumption == MaxTokens \in Nat /\ MaxFailures \in Nat

VARIABLES
  tokens,           \* refresh_tokens, in the order of issue
  request,          \* the refresh requests in flight
  held,             \* the token each client has, 0 for none
  origin,           \* history: the token presented for each one, 0 at login
  disturbed,        \* history: subjects whose requests overlapped on a
                    \*   client or were lost, or whose token expired while
                    \*   it was being refreshed
  failures          \* history: requests or answers lost

vars == <<tokens, request, held, origin, disturbed, failures>>

-----------------------------------------------------------------------------
(* Data *)

Indices == DOMAIN tokens

(* replacedBy stands for the hash of the next token, 0 for absent.         *)
RefreshToken == [subjectId : Subjects, revoked : BOOLEAN, replacedBy : Nat,
                 expired : BOOLEAN]

Idle == [pc |-> "idle"]

Busy == [pc : {"issueTokens", "save", "revokeAll"}, client : Clients,
         token : Nat, next : Nat]

InFlight(h) == request[h] # Idle

At(h, call) == InFlight(h) /\ request[h].pc = call

RequestsOf(c) == {h \in Handlers : InFlight(h) /\ request[h].client = c}

SubjectOfRequest(h) == subjectOf[request[h].client]

NewToken(s) ==
  [subjectId |-> s, revoked |-> FALSE, replacedBy |-> 0, expired |-> FALSE]

-----------------------------------------------------------------------------
(* Steps *)

Init ==
  /\ tokens = << >>
  /\ request = [h \in Handlers |-> Idle]
  /\ held = [c \in Clients |-> 0]
  /\ origin = << >>
  /\ disturbed = {}
  /\ failures = 0

Answer(h) == request' = [request EXCEPT ![h] = Idle]

Lose(s) ==
  /\ failures < MaxFailures
  /\ failures' = failures + 1
  /\ disturbed' = disturbed \cup {s}

(* Room for the tokens that requests in flight may still issue.            *)
Room == Len(tokens) + Cardinality({h \in Handlers : InFlight(h)}) < MaxTokens

(* The insert at the end of a login.                                       *)
login(c) ==
  /\ held[c] = 0
  /\ RequestsOf(c) = {}
  /\ Room
  /\ tokens' = Append(tokens, NewToken(subjectOf[c]))
  /\ origin' = Append(origin, 0)
  /\ \/ /\ held' = [held EXCEPT ![c] = Len(tokens')]
        /\ UNCHANGED <<disturbed, failures>>
     \/ Lose(subjectOf[c]) /\ UNCHANGED held
  /\ UNCHANGED request

(* refresh: findOne and the checks on the record.                          *)
refresh(h, c) ==
  LET t == held[c]
      Goto(call) ==
        /\ request' = [request EXCEPT ![h] =
              [pc |-> call, client |-> c, token |-> t, next |-> 0]]
        /\ UNCHANGED held
  IN
  /\ ~InFlight(h)
  /\ t # 0
  /\ \/ /\ tokens[t].expired
        /\ held' = [held EXCEPT ![c] = 0]
        /\ UNCHANGED request
     \/ ~tokens[t].expired /\ tokens[t].revoked /\ Goto("revokeAll")
     \/ ~tokens[t].expired /\ ~tokens[t].revoked /\ Room
          /\ Goto("issueTokens")
  /\ disturbed' = IF RequestsOf(c) # {} THEN disturbed \cup {subjectOf[c]}
                  ELSE disturbed
  /\ UNCHANGED <<tokens, origin, failures>>

(* A token that is not stored is refused, and nothing changes.             *)
refuse(c) == held[c] = 0 /\ UNCHANGED vars

issueTokens_notAwaited(h) ==
  /\ At(h, "issueTokens")
  /\ request' = [request EXCEPT
        ![h] = [@ EXCEPT !.next = Len(tokens) + 1, !.pc = "save"]]
  /\ UNCHANGED <<tokens, origin, held, disturbed, failures>>

(* The insert of the next token.                                           *)
issueTokens(h) ==
  /\ At(h, "issueTokens")
  /\ tokens' = Append(tokens, NewToken(SubjectOfRequest(h)))
  /\ origin' = Append(origin, request[h].token)
  /\ request' = [request EXCEPT
        ![h] = [@ EXCEPT !.next = Len(tokens'), !.pc = "save"]]
  /\ UNCHANGED <<held, disturbed, failures>>

replaced_unnamed(t, next) == [tokens[t] EXCEPT !.revoked = TRUE]

replaced(t, next) == [tokens[t] EXCEPT !.revoked = TRUE, !.replacedBy = next]

(* The save of the presented token and the answer.  A token that expired   *)
(* in the meantime may have been removed by the index on expiresAt: then   *)
(* the save rejects.                                                       *)
save(h) ==
  LET t == request[h].token IN
  /\ At(h, "save")
  /\ \/ /\ tokens' = [tokens EXCEPT ![t] = replaced(t, request[h].next)]
        /\ \/ /\ held' = [held EXCEPT ![request[h].client] = request[h].next]
              /\ UNCHANGED <<disturbed, failures>>
           \/ Lose(SubjectOfRequest(h)) /\ UNCHANGED held
     \/ /\ tokens[t].expired
        /\ disturbed' = disturbed \cup {SubjectOfRequest(h)}
        /\ UNCHANGED <<tokens, held, failures>>
  /\ Answer(h)
  /\ UNCHANGED origin

inChain_all(t, s) == TRUE

inChain(t, s) == tokens[t].subjectId = s

(* updateMany: the presented token was already replaced or given up.       *)
revokeAll(h) ==
  LET s == SubjectOfRequest(h) IN
  /\ At(h, "revokeAll")
  /\ tokens' = [t \in Indices |->
        IF inChain(t, s) THEN [tokens[t] EXCEPT !.revoked = TRUE]
        ELSE tokens[t]]
  /\ \/ /\ held' = [held EXCEPT ![request[h].client] = 0]
        /\ UNCHANGED <<disturbed, failures>>
     \/ Lose(s) /\ UNCHANGED held
  /\ Answer(h)
  /\ UNCHANGED origin

logout_unsaved(c) ==
  /\ held[c] # 0
  /\ held' = [held EXCEPT ![c] = 0]
  /\ UNCHANGED <<tokens, request, origin, disturbed, failures>>

(* updateOne.                                                              *)
logout(c) ==
  /\ held[c] # 0
  /\ tokens' = [tokens EXCEPT ![held[c]].revoked = TRUE]
  /\ \/ /\ held' = [held EXCEPT ![c] = 0]
        /\ disturbed' = IF RequestsOf(c) # {}
                        THEN disturbed \cup {subjectOf[c]} ELSE disturbed
        /\ UNCHANGED failures
     \/ Lose(subjectOf[c]) /\ UNCHANGED held
  /\ UNCHANGED <<request, origin>>

(* Tokens live equally long, so they expire in the order of issue.         *)
expire(t) ==
  /\ ~tokens[t].expired
  /\ \A u \in 1 .. t - 1 : tokens[u].expired
  /\ tokens' = [tokens EXCEPT ![t].expired = TRUE]
  /\ UNCHANGED <<request, held, origin, disturbed, failures>>

(* A call rejects or the process stops.                                    *)
fail(h) ==
  /\ InFlight(h)
  /\ Lose(SubjectOfRequest(h))
  /\ Answer(h)
  /\ UNCHANGED <<tokens, held, origin>>

Next ==
  \/ \E c \in Clients : login(c) \/ logout(c) \/ refuse(c)
  \/ \E h \in Handlers, c \in Clients : refresh(h, c)
  \/ \E h \in Handlers :
       issueTokens(h) \/ save(h) \/ revokeAll(h) \/ fail(h)
  \/ \E t \in Indices : expire(t)

Spec == Init /\ [][Next]_vars

-----------------------------------------------------------------------------
(* Properties *)

(* The type invariant.                                                     *)
TypeOK ==
  /\ tokens \in Seq(RefreshToken)
  /\ request \in [Handlers -> {Idle} \cup Busy]
  /\ \A h \in Handlers : InFlight(h) =>
       request[h].token \in Indices /\ request[h].next \in {0} \cup Indices
  /\ held \in [Clients -> {0} \cup Indices]
  /\ origin \in Seq({0} \cup Indices) /\ Len(origin) = Len(tokens)
  /\ disturbed \subseteq Subjects
  /\ failures \in 0 .. MaxFailures

(* A token that names its successor is revoked, and the successor was      *)
(* issued for it later: in every interleaving the replacedByHash of the    *)
(* tokens lead from a token to newer ones.                                 *)
ReplacementsFollowIssue ==
  \A t \in Indices :
    tokens[t].replacedBy # 0 =>
      /\ tokens[t].revoked
      /\ tokens[t].replacedBy \in Indices
      /\ tokens[t].replacedBy > t
      /\ origin[tokens[t].replacedBy] = t

(* The sessions of a subject whose requests neither overlap on a client    *)
(* nor get lost last until the client ends them or they expire: rotation   *)
(* on one device, or of somebody else, never ends them.                    *)
SessionsSurvive ==
  \A c \in Clients :
    held[c] # 0 /\ subjectOf[c] \notin disturbed => ~tokens[held[c]].revoked

(* Such a subject has no live tokens but the ones that its clients hold or *)
(* are about to be given.                                                  *)
NoStrayTokens ==
  \A t \in Indices :
    ~tokens[t].revoked /\ ~tokens[t].expired
      /\ tokens[t].subjectId \notin disturbed
      => \/ \E c \in Clients : held[c] = t
         \/ \E h \in Handlers : At(h, "save") /\ request[h].next = t

(* Its tokens form lines: each one that replaced another is named by it,   *)
(* as soon as the request that issued it is answered.                      *)
RotationIsALine ==
  \A t \in Indices :
    origin[t] # 0 /\ tokens[t].subjectId \notin disturbed =>
      \/ tokens[origin[t]].replacedBy = t
      \/ \E h \in Handlers : At(h, "save") /\ request[h].next = t
=============================================================================
