--------------------------- MODULE SessionsProofs ---------------------------
(***************************************************************************)
(* Theorems about Sessions, for any number of clients, subjects, requests, *)
(* tokens and losses: the records keep their types, and whatever requests  *)
(* overlap or get lost, the chain of replaced tokens leads to newer ones.  *)
(*                                                                         *)
(* A request that is about to save names a token that was issued for the   *)
(* one it presented (InHand).  Nothing else writes replacedBy, and no step *)
(* makes a revoked token live again.                                       *)
(* What is guaranteed to undisturbed subjects rests on UInv, further down. *)
(***************************************************************************)
EXTENDS Sessions, SequenceTheorems, TLAPS

(* What a request that has issued its token knows.                         *)
InHand ==
  \A h \in Handlers : At(h, "save") =>
    /\ request[h].next \in Indices
    /\ request[h].next > request[h].token
    /\ origin[request[h].next] = request[h].token

IInv == TypeOK /\ InHand /\ ReplacementsFollowIssue

LEMMA NewTokenType ==
  ASSUME NEW s \in Subjects
  PROVE  NewToken(s) \in RefreshToken
  BY DEF NewToken, RefreshToken

LEMMA RequestType ==
  ASSUME TypeOK, NEW h \in Handlers, InFlight(h)
  PROVE  /\ request[h] \in Busy
         /\ request[h].token \in Indices
         /\ request[h].next \in {0} \cup Indices
         /\ SubjectOfRequest(h) \in Subjects
  BY ClientsAssumption DEF TypeOK, InFlight, Busy, SubjectOfRequest

LEMMA InitEstablishes == Init => IInv
<1> SUFFICES ASSUME Init PROVE IInv
  OBVIOUS
<1>1. TypeOK
  BY BoundsAssumption DEF Init, TypeOK, InFlight, Indices
<1>2. InHand /\ ReplacementsFollowIssue
  BY DEF Init, InHand, At, InFlight, ReplacementsFollowIssue, Indices
<1> QED
  BY <1>1, <1>2 DEF IInv

(* A step that changes no row and no origin, and starts no save.           *)
LEMMA RowsUntouched ==
  ASSUME IInv, TypeOK', UNCHANGED <<tokens, origin>>,
         \A h \in Handlers : At(h, "save")' => request'[h] = request[h]
  PROVE  IInv'
<1>1. InHand'
  BY DEF IInv, InHand, At, InFlight, Indices
<1>2. ReplacementsFollowIssue'
  BY DEF IInv, ReplacementsFollowIssue, Indices
<1> QED
  BY <1>1, <1>2 DEF IInv

(* What a step does that only revokes tokens, or lets them expire.         *)
RevokesOnly ==
  /\ Indices' = Indices
  /\ \A t \in Indices : /\ tokens'[t].replacedBy = tokens[t].replacedBy
                        /\ tokens[t].revoked => tokens'[t].revoked
  /\ UNCHANGED origin

LEMMA RowsRevoked ==
  ASSUME IInv, TypeOK', RevokesOnly,
         \A h \in Handlers : At(h, "save")' => request'[h] = request[h]
  PROVE  IInv'
<1>1. InHand'
  BY DEF IInv, InHand, At, InFlight, RevokesOnly
<1>2. ReplacementsFollowIssue'
  <2> SUFFICES ASSUME NEW t \in Indices, tokens'[t].replacedBy # 0
               PROVE  /\ tokens'[t].revoked
                      /\ tokens'[t].replacedBy \in Indices
                      /\ tokens'[t].replacedBy > t
                      /\ origin'[tokens'[t].replacedBy] = t
    BY DEF RevokesOnly, ReplacementsFollowIssue
  <2>1. tokens'[t].replacedBy = tokens[t].replacedBy
           /\ (tokens[t].revoked => tokens'[t].revoked)
    BY DEF RevokesOnly
  <2> QED
    BY <2>1 DEF IInv, ReplacementsFollowIssue, RevokesOnly
<1> QED
  BY <1>1, <1>2 DEF IInv

(* A step that appends a token which starts, or goes on with, a chain.     *)
LEMMA RowAppended ==
  ASSUME IInv, TypeOK', NEW s \in Subjects, NEW o \in {0} \cup Indices,
         tokens' = Append(tokens, NewToken(s)), origin' = Append(origin, o)
  PROVE  /\ ReplacementsFollowIssue'
         /\ Indices' = Indices \cup {Len(tokens) + 1}
         /\ \A t \in Indices : tokens'[t] = tokens[t] /\ origin'[t] = origin[t]
         /\ origin'[Len(tokens) + 1] = o
<1>1. /\ tokens \in Seq(RefreshToken) /\ origin \in Seq({0} \cup Indices)
      /\ Len(origin) = Len(tokens)
  BY DEF IInv, TypeOK
<1>2. NewToken(s) \in RefreshToken
  BY NewTokenType
<1>3. Indices' = Indices \cup {Len(tokens) + 1}
  BY <1>1, <1>2 DEF Indices
<1>4. \A t \in Indices : tokens'[t] = tokens[t] /\ origin'[t] = origin[t]
  BY <1>1, <1>2 DEF Indices
<1>5. /\ tokens'[Len(tokens) + 1] = NewToken(s)
      /\ origin'[Len(tokens) + 1] = o
  BY <1>1, <1>2
<1>6. ReplacementsFollowIssue'
  <2> SUFFICES ASSUME NEW t \in Indices', tokens'[t].replacedBy # 0
               PROVE  /\ tokens'[t].revoked
                      /\ tokens'[t].replacedBy \in Indices'
                      /\ tokens'[t].replacedBy > t
                      /\ origin'[tokens'[t].replacedBy] = t
    BY DEF ReplacementsFollowIssue
  <2>1. t \in Indices
    BY <1>3, <1>5 DEF NewToken
  <2>2. tokens'[t] = tokens[t]
    BY <1>4, <2>1
  <2>3. /\ tokens[t].revoked
        /\ tokens[t].replacedBy \in Indices
        /\ tokens[t].replacedBy > t
        /\ origin[tokens[t].replacedBy] = t
    BY <2>1, <2>2 DEF IInv, ReplacementsFollowIssue
  <2>4. origin'[tokens[t].replacedBy] = origin[tokens[t].replacedBy]
    BY <1>4, <2>3
  <2>5. tokens[t].replacedBy \in Indices'
    BY <1>3, <2>3
  <2> QED
    BY <2>2, <2>3, <2>4, <2>5
<1> QED
  BY <1>3, <1>4, <1>5, <1>6

-----------------------------------------------------------------------------
(* The type invariant is preserved *)

LEMMA RowsAsFunction ==
  ASSUME TypeOK
  PROVE  tokens \in [Indices -> RefreshToken]
  BY LenProperties DEF TypeOK, Indices

(* Rows that are written back in place are again a sequence of rows.       *)
LEMMA RowsInPlace ==
  ASSUME TypeOK, tokens' \in [Indices -> RefreshToken]
  PROVE  /\ tokens' \in Seq(RefreshToken)
         /\ Indices' = Indices
         /\ Len(tokens') = Len(tokens)
<1>1. tokens \in Seq(RefreshToken) /\ Indices = 1 .. Len(tokens)
         /\ Len(tokens) \in Nat
  BY DEF TypeOK, Indices
<1>2. tokens' \in Seq(RefreshToken)
  BY <1>1, SeqDef
<1>3. Indices' = Indices
  BY DEF Indices
<1>4. Len(tokens') = Len(tokens)
  BY <1>1, <1>2, <1>3 DEF Indices
<1> QED
  BY <1>2, <1>3, <1>4

LEMMA TypeStep ==
  ASSUME TypeOK, [Next]_vars
  PROVE  TypeOK'
<1>1. CASE UNCHANGED vars
  BY <1>1 DEF vars, TypeOK, InFlight, Indices
<1>2. CASE \E c \in Clients : refuse(c)
  BY <1>2 DEF refuse, vars, TypeOK, InFlight, Indices
<1>3. ASSUME NEW c \in Clients, login(c)
      PROVE  TypeOK'
  <2>1. NewToken(subjectOf[c]) \in RefreshToken
    BY NewTokenType, ClientsAssumption
  <2>2. /\ tokens' \in Seq(RefreshToken)
        /\ Len(tokens') = Len(tokens) + 1
        /\ Indices' = Indices \cup {Len(tokens')}
    BY <1>3, <2>1 DEF login, TypeOK, Indices
  <2>3. /\ origin' \in Seq({0} \cup Indices')
        /\ Len(origin') = Len(origin) + 1
    BY <1>3, <2>2 DEF login, TypeOK
  <2>4. held' \in [Clients -> {0} \cup Indices']
    BY <1>3, <2>2 DEF login, TypeOK
  <2>5. disturbed' \subseteq Subjects /\ failures' \in 0 .. MaxFailures
    BY <1>3, ClientsAssumption, BoundsAssumption DEF login, TypeOK, Lose
  <2> QED
    BY <1>3, <2>2, <2>3, <2>4, <2>5 DEF login, TypeOK, InFlight
<1>4. ASSUME NEW c \in Clients, logout(c)
      PROVE  TypeOK'
  <2>1. tokens' \in Seq(RefreshToken) /\ Indices' = Indices
           /\ Len(tokens') = Len(tokens)
    <3>1. tokens' \in [Indices -> RefreshToken]
      BY <1>4, RowsAsFunction DEF logout, RefreshToken
    <3> QED
      BY <3>1, RowsInPlace
  <2>2. disturbed' \subseteq Subjects /\ failures' \in 0 .. MaxFailures
    BY <1>4, ClientsAssumption, BoundsAssumption DEF logout, TypeOK, Lose
  <2>3. held' \in [Clients -> {0} \cup Indices]
    BY <1>4 DEF logout, TypeOK
  <2> QED
    BY <1>4, <2>1, <2>2, <2>3 DEF logout, TypeOK, InFlight
<1>5. ASSUME NEW h \in Handlers, NEW c \in Clients, refresh(h, c)
      PROVE  TypeOK'
  <2>1. held[c] \in Indices
    BY <1>5 DEF refresh, TypeOK
  <2>2. request' \in [Handlers -> {Idle} \cup Busy]
    BY <1>5, <2>1 DEF refresh, TypeOK, Busy, Indices
  <2>3. \A g \in Handlers : request'[g] # Idle =>
          request'[g].token \in Indices /\ request'[g].next \in {0} \cup Indices
    BY <1>5, <2>1 DEF refresh, TypeOK, InFlight
  <2>4. held' \in [Clients -> {0} \cup Indices] /\ disturbed' \subseteq Subjects
    BY <1>5, ClientsAssumption DEF refresh, TypeOK
  <2> QED
    BY <1>5, <2>2, <2>3, <2>4 DEF refresh, TypeOK, InFlight, Indices
<1>6. ASSUME NEW h \in Handlers, issueTokens(h)
      PROVE  TypeOK'
  <2>0. /\ request[h] \in Busy /\ request[h].token \in Indices
        /\ SubjectOfRequest(h) \in Subjects
    BY <1>6, RequestType DEF issueTokens, At
  <2>1. NewToken(SubjectOfRequest(h)) \in RefreshToken
    BY NewTokenType, <2>0
  <2>2. /\ tokens' \in Seq(RefreshToken)
        /\ Len(tokens') = Len(tokens) + 1
        /\ Indices' = Indices \cup {Len(tokens')}
    BY <1>6, <2>1 DEF issueTokens, TypeOK, Indices
  <2>3. /\ origin' \in Seq({0} \cup Indices')
        /\ Len(origin') = Len(origin) + 1
    BY <1>6, <2>0, <2>2 DEF issueTokens, TypeOK
  <2>4. request' \in [Handlers -> {Idle} \cup Busy]
    <3>1. Len(tokens') \in Nat
      BY <2>2
    <3>2. [request[h] EXCEPT !.next = Len(tokens'), !.pc = "save"] \in Busy
      BY <2>0, <3>1 DEF Busy
    <3> QED
      BY <1>6, <3>2 DEF issueTokens, TypeOK
  <2>5. \A g \in Handlers : request'[g] # Idle =>
          request'[g].token \in Indices' /\ request'[g].next \in {0} \cup Indices'
    BY <1>6, <2>0, <2>2 DEF issueTokens, TypeOK, InFlight, Busy
  <2> QED
    BY <1>6, <2>2, <2>3, <2>4, <2>5 DEF issueTokens, TypeOK, InFlight
<1>7. ASSUME NEW h \in Handlers, save(h)
      PROVE  TypeOK'
  <2>1. /\ request[h] \in Busy /\ request[h].token \in Indices
        /\ request[h].next \in {0} \cup Indices
        /\ SubjectOfRequest(h) \in Subjects
    BY <1>7, RequestType DEF save, At
  <2>2. tokens' \in Seq(RefreshToken) /\ Indices' = Indices
           /\ Len(tokens') = Len(tokens)
    <3>1. /\ tokens \in [Indices -> RefreshToken]
          /\ replaced(request[h].token, request[h].next) \in RefreshToken
      BY <2>1, RowsAsFunction DEF RefreshToken, replaced, Busy
    <3>2. tokens' \in [Indices -> RefreshToken]
      BY <1>7, <2>1, <3>1 DEF save
    <3> QED
      BY <3>2, RowsInPlace
  <2>3. held' \in [Clients -> {0} \cup Indices]
    BY <1>7, <2>1 DEF save, TypeOK
  <2>4. disturbed' \subseteq Subjects /\ failures' \in 0 .. MaxFailures
    BY <1>7, <2>1, BoundsAssumption DEF save, TypeOK, Lose
  <2> QED
    BY <1>7, <2>2, <2>3, <2>4 DEF save, Answer, TypeOK, InFlight
<1>8. ASSUME NEW h \in Handlers, revokeAll(h)
      PROVE  TypeOK'
  <2>1. request[h] \in Busy /\ SubjectOfRequest(h) \in Subjects
    BY <1>8, RequestType DEF revokeAll, At
  <2>2. tokens' \in Seq(RefreshToken) /\ Indices' = Indices
           /\ Len(tokens') = Len(tokens)
    <3>1. tokens' \in [Indices -> RefreshToken]
      BY <1>8, RowsAsFunction DEF revokeAll, RefreshToken
    <3> QED
      BY <3>1, RowsInPlace
  <2>3. held' \in [Clients -> {0} \cup Indices]
    BY <1>8 DEF revokeAll, TypeOK
  <2>4. disturbed' \subseteq Subjects /\ failures' \in 0 .. MaxFailures
    BY <1>8, <2>1, BoundsAssumption DEF revokeAll, TypeOK, Lose
  <2> QED
    BY <1>8, <2>2, <2>3, <2>4 DEF revokeAll, Answer, TypeOK, InFlight
<1>9. ASSUME NEW h \in Handlers, fail(h)
      PROVE  TypeOK'
  <2>1. SubjectOfRequest(h) \in Subjects
    BY <1>9, RequestType DEF fail
  <2> QED
    BY <1>9, <2>1, BoundsAssumption
    DEF fail, Lose, Answer, TypeOK, InFlight, Indices
<1>10. ASSUME NEW t \in Indices, expire(t)
       PROVE  TypeOK'
  <2>1. tokens' \in Seq(RefreshToken) /\ Indices' = Indices
           /\ Len(tokens') = Len(tokens)
    <3>1. tokens' \in [Indices -> RefreshToken]
      BY <1>10, RowsAsFunction DEF expire, RefreshToken
    <3> QED
      BY <3>1, RowsInPlace
  <2> QED
    BY <1>10, <2>1 DEF expire, TypeOK, InFlight
<1> QED
  BY <1>1, <1>2, <1>3, <1>4, <1>5, <1>6, <1>7, <1>8, <1>9, <1>10 DEF Next

-----------------------------------------------------------------------------
(* The invariant is preserved *)

(* A step that is not the insert of refresh starts no save.                *)
LEMMA NoSaveStarts ==
  ASSUME NEW h \in Handlers, TypeOK,
         \/ request' = [request EXCEPT ![h] = Idle]
         \/ \E b \in Busy : b.pc # "save" /\ request' = [request EXCEPT ![h] = b]
         \/ UNCHANGED request
  PROVE  \A g \in Handlers : At(g, "save")' => request'[g] = request[g]
  BY DEF At, InFlight, TypeOK, Idle

LEMMA Login ==
  ASSUME IInv, TypeOK', NEW c \in Clients, login(c)
  PROVE  IInv'
<1>1. /\ tokens' = Append(tokens, NewToken(subjectOf[c]))
      /\ origin' = Append(origin, 0) /\ UNCHANGED request
      /\ subjectOf[c] \in Subjects
  BY ClientsAssumption DEF login
<1>2. /\ ReplacementsFollowIssue'
      /\ Indices' = Indices \cup {Len(tokens) + 1}
      /\ \A t \in Indices : origin'[t] = origin[t]
  BY <1>1, RowAppended
<1>3. InHand'
  BY <1>1, <1>2 DEF IInv, InHand, At, InFlight
<1> QED
  BY <1>2, <1>3 DEF IInv

LEMMA Issue ==
  ASSUME IInv, TypeOK', NEW h \in Handlers, issueTokens(h)
  PROVE  IInv'
<1>1. /\ request[h].token \in Indices /\ SubjectOfRequest(h) \in Subjects
      /\ request[h] \in Busy
  BY RequestType DEF IInv, issueTokens, At
<1>2. /\ tokens' = Append(tokens, NewToken(SubjectOfRequest(h)))
      /\ origin' = Append(origin, request[h].token)
  BY DEF issueTokens
<1>3. /\ ReplacementsFollowIssue'
      /\ Indices' = Indices \cup {Len(tokens) + 1}
      /\ \A t \in Indices : origin'[t] = origin[t]
      /\ origin'[Len(tokens) + 1] = request[h].token
  BY <1>1, <1>2, RowAppended
<1>4. Indices = 1 .. Len(tokens) /\ Len(tokens') = Len(tokens) + 1
         /\ Len(tokens) \in Nat
  BY <1>1, <1>2, NewTokenType DEF IInv, TypeOK, Indices
<1>5. /\ request'[h].next = Len(tokens) + 1
      /\ request'[h].token = request[h].token
  BY <1>1, <1>4 DEF issueTokens, IInv, TypeOK, Busy
<1>6. \A g \in Handlers : g # h => request'[g] = request[g]
  BY DEF issueTokens, IInv, TypeOK
<1>7. InHand'
  <2> SUFFICES ASSUME NEW g \in Handlers, At(g, "save")'
               PROVE  /\ request'[g].next \in Indices'
                      /\ request'[g].next > request'[g].token
                      /\ origin'[request'[g].next] = request'[g].token
    BY DEF InHand
  <2>1. CASE g = h
    BY <2>1, <1>1, <1>3, <1>4, <1>5
  <2>2. CASE g # h
    BY <2>2, <1>3, <1>6 DEF IInv, InHand, At, InFlight
  <2> QED
    BY <2>1, <2>2
<1> QED
  BY <1>3, <1>7 DEF IInv

LEMMA Save ==
  ASSUME IInv, TypeOK', NEW h \in Handlers, save(h)
  PROVE  IInv'
<1>1. /\ request[h].token \in Indices /\ request[h].next \in Indices
      /\ request[h].next > request[h].token
      /\ origin[request[h].next] = request[h].token
      /\ request' = [request EXCEPT ![h] = Idle] /\ UNCHANGED origin
  BY RequestType DEF IInv, InHand, save, Answer, At
<1>2. \A g \in Handlers : At(g, "save")' => request'[g] = request[g]
  BY <1>1, NoSaveStarts DEF IInv
<1>3. CASE UNCHANGED tokens
  BY <1>1, <1>2, <1>3, RowsUntouched
<1>4. CASE tokens' = [tokens EXCEPT
                        ![request[h].token] = replaced(request[h].token,
                                                       request[h].next)]
  <2>1. Indices' = Indices
    BY <1>4 DEF Indices
  <2>2. tokens \in [Indices -> RefreshToken]
    BY RowsAsFunction DEF IInv
  <2>3. \A t \in Indices :
          IF t = request[h].token
          THEN tokens'[t].revoked /\ tokens'[t].replacedBy = request[h].next
          ELSE tokens'[t] = tokens[t]
    BY <1>1, <1>4, <2>2 DEF replaced, RefreshToken
  <2>4. InHand'
    BY <1>1, <1>2, <2>1 DEF IInv, InHand, At, InFlight
  <2>5. ReplacementsFollowIssue'
    BY <1>1, <2>1, <2>3 DEF IInv, ReplacementsFollowIssue
  <2> QED
    BY <2>4, <2>5 DEF IInv
<1> QED
  BY <1>3, <1>4 DEF save

LEMMA RevokeAll ==
  ASSUME IInv, TypeOK', NEW h \in Handlers, revokeAll(h)
  PROVE  IInv'
<1>1. tokens \in [Indices -> RefreshToken]
  BY RowsAsFunction DEF IInv
<1>2. RevokesOnly
  BY <1>1 DEF revokeAll, RevokesOnly, Indices, RefreshToken
<1>3. \A g \in Handlers : At(g, "save")' => request'[g] = request[g]
  BY NoSaveStarts DEF IInv, revokeAll, Answer
<1> QED
  BY <1>2, <1>3, RowsRevoked

LEMMA Logout ==
  ASSUME IInv, TypeOK', NEW c \in Clients, logout(c)
  PROVE  IInv'
<1>1. tokens \in [Indices -> RefreshToken]
  BY RowsAsFunction DEF IInv
<1>2. RevokesOnly
  BY <1>1 DEF logout, RevokesOnly, Indices, RefreshToken
<1>3. \A g \in Handlers : At(g, "save")' => request'[g] = request[g]
  BY DEF logout
<1> QED
  BY <1>2, <1>3, RowsRevoked

LEMMA Expire ==
  ASSUME IInv, TypeOK', NEW t \in Indices, expire(t)
  PROVE  IInv'
<1>1. tokens \in [Indices -> RefreshToken]
  BY RowsAsFunction DEF IInv
<1>2. RevokesOnly
  BY <1>1 DEF expire, RevokesOnly, Indices, RefreshToken
<1>3. \A g \in Handlers : At(g, "save")' => request'[g] = request[g]
  BY DEF expire
<1> QED
  BY <1>2, <1>3, RowsRevoked

LEMMA Refresh ==
  ASSUME IInv, TypeOK', NEW h \in Handlers, NEW c \in Clients, refresh(h, c)
  PROVE  IInv'
<1>1. \A g \in Handlers : At(g, "save")' => request'[g] = request[g]
  BY DEF refresh, IInv, TypeOK, At, InFlight
<1> QED
  BY <1>1, RowsUntouched DEF refresh

LEMMA NextPreserves == IInv /\ [Next]_vars => IInv'
<1> SUFFICES ASSUME IInv, [Next]_vars
             PROVE  IInv'
  OBVIOUS
<1>0. TypeOK'
  BY TypeStep DEF IInv
<1>1. CASE UNCHANGED vars
  BY <1>0, <1>1, RowsUntouched DEF vars, At, InFlight
<1>2. CASE \E c \in Clients : refuse(c)
  BY <1>0, <1>2, RowsUntouched DEF refuse, vars, At, InFlight
<1>3. ASSUME NEW c \in Clients, login(c) \/ logout(c)
      PROVE  IInv'
  BY <1>0, <1>3, Login, Logout
<1>4. ASSUME NEW h \in Handlers, NEW c \in Clients, refresh(h, c)
      PROVE  IInv'
  BY <1>0, <1>4, Refresh
<1>5. ASSUME NEW h \in Handlers, issueTokens(h) \/ save(h) \/ revokeAll(h)
      PROVE  IInv'
  BY <1>0, <1>5, Issue, Save, RevokeAll
<1>6. ASSUME NEW h \in Handlers, fail(h)
      PROVE  IInv'
  <2>1. \A g \in Handlers : At(g, "save")' => request'[g] = request[g]
    BY <1>6, NoSaveStarts DEF IInv, fail, Answer
  <2> QED
    BY <1>0, <1>6, <2>1, RowsUntouched DEF fail
<1>7. ASSUME NEW t \in Indices, expire(t)
      PROVE  IInv'
  BY <1>0, <1>7, Expire
<1> QED
  BY <1>1, <1>2, <1>3, <1>4, <1>5, <1>6, <1>7 DEF Next

LEMMA Invariance == Spec => []IInv
<1>1. Init => IInv
  BY InitEstablishes
<1>2. IInv /\ [Next]_vars => IInv'
  BY NextPreserves
<1> QED
  BY <1>1, <1>2, PTL DEF Spec

-----------------------------------------------------------------------------
(* Subjects whose requests neither overlap on a client nor get lost.  The  *)
(* clients of a subject and the requests in flight name its own tokens     *)
(* only (Owned), and no token is in two hands (Distinct).  So a request of *)
(* such a subject presents the live token that its client holds            *)
(* (Undisturbed), and only its own save revokes that token.                *)

Owned ==
  /\ \A c \in Clients :
       held[c] # 0 => tokens[held[c]].subjectId = subjectOf[c]
  /\ \A h \in Handlers : InFlight(h) =>
       tokens[request[h].token].subjectId = SubjectOfRequest(h)
  /\ \A h \in Handlers : At(h, "save") =>
       tokens[request[h].next].subjectId = SubjectOfRequest(h)
  /\ \A t \in Indices : origin[t] # 0 =>
       tokens[origin[t]].subjectId = tokens[t].subjectId

Distinct ==
  /\ \A c, d \in Clients : held[c] # 0 /\ held[c] = held[d] => c = d
  /\ \A h \in Handlers : At(h, "save") =>
       /\ \A c \in Clients : held[c] # request[h].next
       /\ \A g \in Handlers : At(g, "save") /\ request[g].next = request[h].next
                                => g = h

Calm(h) == InFlight(h) /\ SubjectOfRequest(h) \notin disturbed

Undisturbed ==
  \A h \in Handlers : Calm(h) =>
    /\ request[h].token = held[request[h].client]
    /\ request[h].pc # "revokeAll"
    /\ At(h, "save") => ~tokens[request[h].next].revoked
    /\ \A g \in Handlers : InFlight(g) /\ request[g].client = request[h].client
                             => g = h

UInv == /\ IInv
        /\ Owned /\ Distinct /\ Undisturbed
        /\ SessionsSurvive /\ NoStrayTokens /\ RotationIsALine

LEMMA InitUInv == Init => UInv
<1> SUFFICES ASSUME Init PROVE UInv
  OBVIOUS
<1>1. \A h \in Handlers : ~InFlight(h)
  BY DEF Init, InFlight
<1>2. Indices = {} /\ \A c \in Clients : held[c] = 0
  BY DEF Init, Indices
<1> QED
  BY <1>1, <1>2, InitEstablishes DEF UInv, Owned, Distinct, Undisturbed, Calm,
     At, SessionsSurvive, NoStrayTokens, RotationIsALine

(* What every step that is not an insert does to the rows.                 *)
LEMMA RowFacts ==
  ASSUME TypeOK
  PROVE  /\ tokens \in [Indices -> RefreshToken]
         /\ origin \in [Indices -> {0} \cup Indices]
         /\ Indices = 1 .. Len(tokens) /\ Len(tokens) \in Nat
         /\ held \in [Clients -> {0} \cup Indices]
         /\ 0 \notin Indices
<1>1. tokens \in Seq(RefreshToken) /\ origin \in Seq({0} \cup Indices)
        /\ Len(origin) = Len(tokens)
  BY DEF TypeOK
<1>2. Indices = 1 .. Len(tokens) /\ Len(tokens) \in Nat
  BY <1>1 DEF Indices
<1>3. origin \in [1 .. Len(origin) -> {0} \cup Indices]
  BY <1>1
<1> QED
  BY <1>1, <1>2, <1>3, RowsAsFunction DEF TypeOK

(* A step that issues nothing, starts no request and gives a client only   *)
(* tokens of its own subject.                                              *)
LEMMA OwnedKept ==
  ASSUME IInv, Owned, Indices' = Indices, UNCHANGED origin,
         \A u \in Indices : tokens'[u].subjectId = tokens[u].subjectId,
         \A c \in Clients : held'[c] # held[c] /\ held'[c] # 0 =>
            held'[c] \in Indices /\ tokens[held'[c]].subjectId = subjectOf[c],
         \A g \in Handlers : InFlight(g)' =>
            InFlight(g) /\ request'[g] = request[g]
  PROVE  Owned'
<1>1. \A c \in Clients : held[c] # 0 => held[c] \in Indices
  BY DEF IInv, TypeOK
<1>2. \A g \in Handlers : InFlight(g) => request[g].token \in Indices
  BY RequestType DEF IInv
<1>3. \A g \in Handlers : At(g, "save") => request[g].next \in Indices
  BY DEF IInv, InHand
<1>4. \A u \in Indices : origin[u] # 0 => origin[u] \in Indices
  BY RowFacts DEF IInv
<1>5. \A c \in Clients :
        held'[c] # 0 => tokens'[held'[c]].subjectId = subjectOf[c]
  BY <1>1 DEF Owned
<1>6. \A g \in Handlers : InFlight(g)' =>
        tokens'[request'[g].token].subjectId = SubjectOfRequest(g)'
  BY <1>2 DEF Owned, SubjectOfRequest
<1>7. \A g \in Handlers : At(g, "save")' =>
        tokens'[request'[g].next].subjectId = SubjectOfRequest(g)'
  BY <1>3 DEF Owned, SubjectOfRequest, At
<1>8. \A u \in Indices' :
        origin'[u] # 0 => tokens'[origin'[u]].subjectId = tokens'[u].subjectId
  BY <1>4 DEF Owned
<1> QED
  BY <1>5, <1>6, <1>7, <1>8 DEF Owned

LEMMA DistinctKept ==
  ASSUME IInv, Distinct,
         \A c \in Clients : held'[c] \in {0, held[c]},
         \A g \in Handlers : InFlight(g)' =>
            InFlight(g) /\ request'[g] = request[g]
  PROVE  Distinct'
<1>1. \A g \in Handlers : At(g, "save") => request[g].next # 0
  BY RowFacts DEF IInv, InHand
<1>2. \A g \in Handlers : At(g, "save")' =>
        At(g, "save") /\ request'[g] = request[g]
  BY DEF At
<1>3. \A c \in Clients : held'[c] # 0 => held'[c] = held[c]
  OBVIOUS
<1> QED
  BY <1>1, <1>2, <1>3 DEF Distinct

LEMMA SaveUInv ==
  ASSUME UInv, IInv', NEW h \in Handlers, save(h)
  PROVE  UInv'
<1> DEFINE t == request[h].token
           n == request[h].next
           c == request[h].client
<1> USE DEF UInv
<1>1. /\ t \in Indices /\ n \in Indices /\ c \in Clients /\ t < n
      /\ origin[n] = t /\ At(h, "save")
      /\ request[h].pc = "save"
      /\ request' = [request EXCEPT ![h] = Idle]
      /\ UNCHANGED origin
  BY RequestType DEF IInv, InHand, save, Answer, At, Busy
<1>2. /\ \A g \in Handlers : InFlight(g)' <=> InFlight(g) /\ g # h
      /\ \A g \in Handlers : g # h => request'[g] = request[g]
  BY <1>1 DEF InFlight, IInv, TypeOK, Idle
<1>3. /\ tokens \in [Indices -> RefreshToken]
      /\ held \in [Clients -> {0} \cup Indices] /\ 0 \notin Indices
  BY RowFacts DEF IInv
<1>4. CASE /\ UNCHANGED <<tokens, held, failures>>
           /\ tokens[t].expired
           /\ disturbed' = disturbed \cup {SubjectOfRequest(h)}
  <2>1. Indices' = Indices
    BY <1>4 DEF Indices
  <2>2. Owned' /\ Distinct'
    BY <1>1, <1>2, <1>4, <2>1 DEF Owned, Distinct, At, SubjectOfRequest
  <2>3. Undisturbed' /\ SessionsSurvive'
    BY <1>1, <1>2, <1>4, <2>1 DEF Undisturbed, SessionsSurvive, Calm, At,
      SubjectOfRequest
  <2>4. NoStrayTokens' /\ RotationIsALine'
    BY <1>1, <1>2, <1>4, <2>1 DEF NoStrayTokens, RotationIsALine, Owned, At,
      SubjectOfRequest
  <2> QED
    BY <2>2, <2>3, <2>4
<1>5. CASE /\ tokens' = [tokens EXCEPT ![t] = replaced(t, n)]
           /\ \/ /\ held' = [held EXCEPT ![c] = n]
                 /\ UNCHANGED <<disturbed, failures>>
              \/ Lose(SubjectOfRequest(h)) /\ UNCHANGED held
  <2>1. Indices' = Indices
    BY <1>5 DEF Indices
  <2>2. \A u \in Indices :
          IF u = t
          THEN /\ tokens'[u].revoked /\ tokens'[u].replacedBy = n
               /\ tokens'[u].subjectId = tokens[u].subjectId
               /\ tokens'[u].expired = tokens[u].expired
          ELSE tokens'[u] = tokens[u]
    BY <1>1, <1>3, <1>5 DEF replaced, RefreshToken
  <2>3. /\ disturbed \subseteq disturbed'
        /\ \A d \in Clients : d # c => held'[d] = held[d]
        /\ \/ held'[c] = n
           \/ held'[c] = held[c] /\ SubjectOfRequest(h) \in disturbed'
    BY <1>1, <1>3, <1>5 DEF Lose
  <2>4. Owned'
    <3>1. \A u \in Indices : tokens'[u].subjectId = tokens[u].subjectId
      BY <2>2
    <3>2. tokens[n].subjectId = subjectOf[c]
      BY <1>1 DEF Owned, SubjectOfRequest
    <3> QED
      BY <1>1, <1>2, <2>1, <2>3, <3>1, <3>2, OwnedKept
  <2>5. Distinct'
    BY <1>1, <1>2, <1>3, <2>1, <2>3 DEF Distinct, At
  <2>6. Undisturbed'
    <3> SUFFICES ASSUME NEW g \in Handlers, Calm(g)'
                 PROVE  /\ request'[g].token = held'[request'[g].client]
                        /\ request'[g].pc # "revokeAll"
                        /\ At(g, "save")' => ~tokens'[request'[g].next].revoked
                        /\ \A k \in Handlers :
                             InFlight(k)' /\ request'[k].client = request'[g].client
                               => k = g
      BY DEF Undisturbed
    <3>1. Calm(g) /\ g # h /\ request'[g] = request[g]
      BY <1>2, <2>3 DEF Calm, SubjectOfRequest
    <3>2. request[g].client \in Clients /\ request[g].client # c
      BY <1>1, <3>1, RequestType DEF Undisturbed, Calm, IInv, Busy, At
    <3>3. At(g, "save") => request[g].next \in Indices /\ request[g].next # t
      <4>1. CASE SubjectOfRequest(h) = SubjectOfRequest(g)
        BY <1>1, <3>1, <4>1
        DEF IInv, InHand, Undisturbed, Distinct, Calm, At
      <4>2. CASE SubjectOfRequest(h) # SubjectOfRequest(g)
        BY <1>1, <3>1, <4>2 DEF IInv, InHand, Owned, Calm, At
      <4> QED
        BY <4>1, <4>2
    <3> QED
      BY <1>2, <2>2, <2>3, <3>1, <3>2, <3>3 DEF Undisturbed, At
  <2>7. SessionsSurvive'
    BY <1>1, <1>2, <1>3, <2>1, <2>2, <2>3, RequestType DEF SessionsSurvive,
      Undisturbed, Owned, Distinct, Calm, At, SubjectOfRequest, IInv
  <2>8. NoStrayTokens'
    BY <1>1, <1>2, <1>3, <2>1, <2>2, <2>3, RequestType DEF NoStrayTokens,
      Undisturbed, Owned, Distinct, Calm, At, SubjectOfRequest, IInv
  <2>9. RotationIsALine'
    <3> SUFFICES ASSUME NEW u \in Indices, origin[u] # 0,
                        tokens[u].subjectId \notin disturbed'
                 PROVE  \/ tokens'[origin[u]].replacedBy = u
                        \/ \E g \in Handlers :
                             At(g, "save")' /\ request'[g].next = u
      BY <1>1, <2>1, <2>2 DEF RotationIsALine
    <3>1. origin[u] \in Indices
      BY RowFacts DEF IInv
    <3>2. \/ tokens[origin[u]].replacedBy = u
          \/ \E g \in Handlers : At(g, "save") /\ request[g].next = u
      BY <2>3 DEF RotationIsALine
    <3>3. CASE origin[u] # t
      BY <1>1, <1>2, <2>2, <3>1, <3>2, <3>3 DEF At
    <3>4. CASE origin[u] = t
      <4>1. Calm(h)
        BY <1>1, <2>3, <3>4 DEF Owned, Calm, At
      <4>2. ~tokens[t].revoked
        BY <1>1, <4>1, <1>3 DEF Undisturbed, SessionsSurvive, Calm,
           SubjectOfRequest
      <4>3. tokens[t].replacedBy # u
        BY <1>1, <1>3, <4>2 DEF IInv, ReplacementsFollowIssue
      <4>4. PICK g \in Handlers : At(g, "save") /\ request[g].next = u
        BY <3>2, <3>4, <4>3
      <4>5. request[g].token = t /\ request[g].client \in Clients
        BY <3>4, <4>4, RequestType DEF IInv, InHand, At, Busy
      <4>6. Calm(g)
        BY <1>1, <2>3, <4>4, <4>5 DEF Owned, At, Calm
      <4>7. held[c] = held[request[g].client] /\ held[c] # 0
        BY <1>1, <1>3, <4>1, <4>5, <4>6 DEF Undisturbed
      <4>8. g = h
        BY <1>1, <4>1, <4>5, <4>4, <4>7 DEF Undisturbed, Distinct, At
      <4> QED
        BY <1>1, <2>2, <3>4, <4>4, <4>8
    <3> QED
      BY <3>3, <3>4
  <2> QED
    BY <2>4, <2>5, <2>6, <2>7, <2>8, <2>9
<1> QED
  BY <1>4, <1>5 DEF save

(* A step that changes no row, no client and no request but that it may    *)
(* end one whose subject it marks.                                         *)
LEMMA FailUInv ==
  ASSUME UInv, IInv', NEW h \in Handlers, fail(h)
  PROVE  UInv'
<1> USE DEF UInv
<1>1. /\ request' = [request EXCEPT ![h] = Idle]
      /\ UNCHANGED <<tokens, held, origin>>
      /\ disturbed' = disturbed \cup {SubjectOfRequest(h)}
  BY DEF fail, Answer, Lose
<1>2. /\ \A g \in Handlers : InFlight(g)' <=> InFlight(g) /\ g # h
      /\ \A g \in Handlers : g # h => request'[g] = request[g]
  BY <1>1 DEF InFlight, IInv, TypeOK, Idle
<1>3. Indices' = Indices
  BY <1>1 DEF Indices
<1>4. Owned' /\ Distinct'
  BY <1>1, <1>2, <1>3, OwnedKept DEF Distinct, At
<1>5. Undisturbed' /\ SessionsSurvive'
  BY <1>1, <1>2, <1>3
  DEF Undisturbed, SessionsSurvive, Calm, At, SubjectOfRequest
<1>6. NoStrayTokens' /\ RotationIsALine'
  BY <1>1, <1>2, <1>3
  DEF NoStrayTokens, RotationIsALine, Owned, At, SubjectOfRequest
<1> QED
  BY <1>4, <1>5, <1>6

LEMMA LoginUInv ==
  ASSUME UInv, IInv', NEW c \in Clients, login(c)
  PROVE  UInv'
<1> DEFINE n == Len(tokens) + 1
<1> USE DEF UInv
<1>1. /\ Indices' = Indices \cup {n} /\ n \notin Indices /\ n # 0
      /\ \A t \in Indices : tokens'[t] = tokens[t] /\ origin'[t] = origin[t]
      /\ tokens'[n] = NewToken(subjectOf[c]) /\ origin'[n] = 0
  <2>1. subjectOf[c] \in Subjects
    BY ClientsAssumption
  <2>2. tokens \in Seq(RefreshToken) /\ NewToken(subjectOf[c]) \in RefreshToken
    BY <2>1, NewTokenType DEF IInv, TypeOK
  <2>3. tokens'[n] = NewToken(subjectOf[c])
    BY <2>2 DEF login
  <2> QED
    BY <2>1, <2>3, RowAppended, RowFacts DEF login, IInv
<1>2. /\ UNCHANGED request /\ held[c] = 0 /\ RequestsOf(c) = {}
      /\ disturbed \subseteq disturbed'
      /\ \/ held' = [held EXCEPT ![c] = n]
         \/ held' = held /\ subjectOf[c] \in disturbed'
  <2>1. Len(tokens') = n
    BY ClientsAssumption, NewTokenType DEF login, IInv, TypeOK
  <2> QED
    BY <2>1 DEF login, Lose
<1>3. /\ held \in [Clients -> {0} \cup Indices] /\ 0 \notin Indices
      /\ \A d \in Clients : d # c => held'[d] = held[d]
      /\ \/ held'[c] = n
         \/ held'[c] = 0 /\ subjectOf[c] \in disturbed'
  BY <1>2, RowFacts DEF IInv
<1>4. \A g \in Handlers : InFlight(g) =>
        /\ request[g].token \in Indices
        /\ request[g].client \in Clients /\ request[g].client # c
        /\ At(g, "save") => request[g].next \in Indices
  BY <1>2, RequestType DEF IInv, InHand, Busy, RequestsOf
<1>5. \A g \in Handlers : InFlight(g)' = InFlight(g)
  BY <1>2 DEF InFlight
<1>6. \A u \in Indices : origin[u] # 0 => origin[u] \in Indices
  BY RowFacts DEF IInv
<1>7. Owned'
  BY <1>1, <1>2, <1>3, <1>4, <1>5, <1>6
  DEF Owned, At, SubjectOfRequest, NewToken
<1>8. Distinct'
  BY <1>1, <1>2, <1>3, <1>4, <1>5 DEF Distinct, At
<1>9. Undisturbed' /\ SessionsSurvive'
  BY <1>1, <1>2, <1>3, <1>4, <1>5
  DEF Undisturbed, SessionsSurvive, Calm, At, SubjectOfRequest, NewToken
<1>10. NoStrayTokens'
  BY <1>1, <1>2, <1>3, <1>4, <1>5 DEF NoStrayTokens, At, NewToken
<1>11. RotationIsALine'
  BY <1>1, <1>2, <1>5, <1>6 DEF RotationIsALine, At
<1> QED
  BY <1>7, <1>8, <1>9, <1>10, <1>11

LEMMA IssueUInv ==
  ASSUME UInv, IInv', NEW h \in Handlers, issueTokens(h)
  PROVE  UInv'
<1> DEFINE n == Len(tokens) + 1
<1> USE DEF UInv
<1>0. /\ request[h] \in Busy /\ request[h].token \in Indices
      /\ SubjectOfRequest(h) \in Subjects
      /\ At(h, "issueTokens")
  BY RequestType DEF IInv, issueTokens, At
<1>1. /\ Indices' = Indices \cup {n} /\ n \notin Indices /\ n # 0
      /\ \A t \in Indices : tokens'[t] = tokens[t] /\ origin'[t] = origin[t]
      /\ tokens'[n] = NewToken(SubjectOfRequest(h))
      /\ origin'[n] = request[h].token
      /\ Len(tokens') = n
  <2>1. /\ tokens \in Seq(RefreshToken)
        /\ NewToken(SubjectOfRequest(h)) \in RefreshToken
    BY <1>0, NewTokenType DEF IInv, TypeOK
  <2>2. tokens'[n] = NewToken(SubjectOfRequest(h)) /\ Len(tokens') = n
    BY <2>1 DEF issueTokens
  <2> QED
    BY <1>0, <2>2, RowAppended, RowFacts DEF issueTokens, IInv
<1>2. /\ request'[h].next = n /\ request'[h].pc = "save"
      /\ request'[h].token = request[h].token
      /\ request'[h].client = request[h].client
      /\ \A g \in Handlers : g # h => request'[g] = request[g]
      /\ \A g \in Handlers : InFlight(g)' <=> InFlight(g)
      /\ UNCHANGED <<held, disturbed>>
  BY <1>0, <1>1, RequestType
  DEF issueTokens, IInv, TypeOK, Busy, Idle, InFlight, At
<1>3. /\ held \in [Clients -> {0} \cup Indices] /\ 0 \notin Indices
  BY RowFacts DEF IInv
<1>4. \A g \in Handlers : InFlight(g) =>
        /\ request[g].token \in Indices
        /\ request[g].client \in Clients
        /\ At(g, "save") => request[g].next \in Indices
  BY RequestType DEF IInv, InHand, Busy
<1>5. \A g \in Handlers : InFlight(g)' =>
        /\ SubjectOfRequest(g)' = SubjectOfRequest(g)
        /\ request'[g].token = request[g].token
        /\ request'[g].client = request[g].client
        /\ At(g, "save")' => IF g = h THEN request'[g].next = n
                             ELSE At(g, "save") /\ request'[g] = request[g]
  BY <1>2 DEF SubjectOfRequest, At
<1>6. \A u \in Indices : origin[u] # 0 => origin[u] \in Indices
  BY RowFacts DEF IInv
<1>7. Owned'
  <2>1. \A c \in Clients :
          held'[c] # 0 => tokens'[held'[c]].subjectId = subjectOf[c]
    BY <1>1, <1>2, <1>3 DEF Owned
  <2>2. \A g \in Handlers : InFlight(g)' =>
          tokens'[request'[g].token].subjectId = SubjectOfRequest(g)'
    BY <1>1, <1>2, <1>4, <1>5 DEF Owned
  <2>3. \A g \in Handlers : At(g, "save")' =>
          tokens'[request'[g].next].subjectId = SubjectOfRequest(g)'
    BY <1>1, <1>2, <1>4, <1>5 DEF Owned, At, NewToken
  <2>4. \A u \in Indices' :
          origin'[u] # 0 => tokens'[origin'[u]].subjectId = tokens'[u].subjectId
    BY <1>0, <1>1, <1>6 DEF Owned, At, NewToken
  <2> QED
    BY <2>1, <2>2, <2>3, <2>4 DEF Owned
<1>8. Distinct'
  BY <1>1, <1>2, <1>3, <1>4, <1>5 DEF Distinct, At
<1>9. Undisturbed'
  BY <1>0, <1>1, <1>2, <1>4, <1>5 DEF Undisturbed, Calm, At, NewToken
<1>10. SessionsSurvive'
  BY <1>1, <1>2, <1>3 DEF SessionsSurvive
<1>11. NoStrayTokens'
  BY <1>0, <1>1, <1>2, <1>5 DEF NoStrayTokens, At
<1>12. RotationIsALine'
  BY <1>0, <1>1, <1>2, <1>5, <1>6 DEF RotationIsALine, At
<1> QED
  BY <1>7, <1>8, <1>9, <1>10, <1>11, <1>12

LEMMA RevokeAllUInv ==
  ASSUME UInv, IInv', NEW h \in Handlers, revokeAll(h)
  PROVE  UInv'
<1> DEFINE s == SubjectOfRequest(h)
           c == request[h].client
<1> USE DEF UInv
<1>1. /\ request' = [request EXCEPT ![h] = Idle] /\ UNCHANGED origin
      /\ c \in Clients /\ At(h, "revokeAll")
  BY RequestType DEF revokeAll, Answer, IInv, Busy, At
<1>2. /\ \A g \in Handlers : InFlight(g)' <=> InFlight(g) /\ g # h
      /\ \A g \in Handlers : g # h => request'[g] = request[g]
  BY <1>1 DEF InFlight, IInv, TypeOK, Idle
<1>3. s \in disturbed
  BY <1>1 DEF Undisturbed, Calm, At
<1>4. /\ Indices' = Indices
      /\ \A t \in Indices :
           /\ tokens'[t].subjectId = tokens[t].subjectId
           /\ tokens'[t].expired = tokens[t].expired
           /\ tokens'[t].replacedBy = tokens[t].replacedBy
           /\ tokens[t].revoked => tokens'[t].revoked
           /\ tokens[t].subjectId # s => tokens'[t] = tokens[t]
  BY RowFacts DEF revokeAll, inChain, IInv, RefreshToken, Indices
<1>5. /\ disturbed \subseteq disturbed'
      /\ held \in [Clients -> {0} \cup Indices] /\ 0 \notin Indices
      /\ \A d \in Clients : d # c => held'[d] = held[d]
      /\ held'[c] \in {0, held[c]}
  BY <1>1, RowFacts DEF revokeAll, Lose, IInv
<1>6. Owned' /\ Distinct'
  <2>1. Owned'
    BY <1>1, <1>2, <1>4, <1>5, OwnedKept
  <2>2. Distinct'
    BY <1>2, <1>5, DistinctKept
  <2> QED
    BY <2>1, <2>2
<1>7. \A g \in Handlers : At(g, "save") => request[g].next \in Indices
  BY DEF IInv, InHand
<1>8. Undisturbed'
  <2> SUFFICES ASSUME NEW g \in Handlers, Calm(g)'
               PROVE  /\ request'[g].token = held'[request'[g].client]
                      /\ request'[g].pc # "revokeAll"
                      /\ At(g, "save")' => ~tokens'[request'[g].next].revoked
                      /\ \A k \in Handlers :
                           InFlight(k)' /\ request'[k].client = request'[g].client
                             => k = g
    BY DEF Undisturbed
  <2>1. Calm(g) /\ g # h /\ request'[g] = request[g]
    BY <1>2, <1>5 DEF Calm, SubjectOfRequest
  <2>2. SubjectOfRequest(g) # s /\ request[g].client # c
    BY <1>3, <2>1 DEF Calm, SubjectOfRequest
  <2>3. request[g].client \in Clients
    BY <2>1, RequestType DEF Calm, IInv, Busy
  <2>4. At(g, "save") => tokens'[request[g].next] = tokens[request[g].next]
    BY <1>4, <1>7, <2>2 DEF Owned
  <2> QED
    BY <1>2, <1>5, <2>1, <2>2, <2>3, <2>4 DEF Undisturbed, At
<1>9. SessionsSurvive'
  BY <1>1, <1>3, <1>4, <1>5
  DEF SessionsSurvive, Owned, SubjectOfRequest
<1>10. NoStrayTokens'
  BY <1>1, <1>2, <1>3, <1>4, <1>5
  DEF NoStrayTokens, Owned, At, SubjectOfRequest
<1>11. RotationIsALine'
  <2>1. \A u \in Indices : origin[u] # 0 => origin[u] \in Indices
    BY RowFacts DEF IInv
  <2> QED
    BY <1>1, <1>2, <1>4, <1>5, <2>1 DEF RotationIsALine, At
<1> QED
  BY <1>6, <1>8, <1>9, <1>10, <1>11

LEMMA LogoutUInv ==
  ASSUME UInv, IInv', NEW c \in Clients, logout(c)
  PROVE  UInv'
<1> USE DEF UInv
<1>1. /\ held \in [Clients -> {0} \cup Indices] /\ 0 \notin Indices
      /\ held[c] \in Indices /\ UNCHANGED <<request, origin>>
  BY RowFacts DEF logout, IInv
<1>2. /\ Indices' = Indices
      /\ tokens'[held[c]].revoked
      /\ \A t \in Indices :
           /\ tokens'[t].subjectId = tokens[t].subjectId
           /\ tokens'[t].expired = tokens[t].expired
           /\ tokens'[t].replacedBy = tokens[t].replacedBy
           /\ tokens[t].revoked => tokens'[t].revoked
           /\ t # held[c] => tokens'[t] = tokens[t]
  BY <1>1, RowFacts DEF logout, IInv, RefreshToken, Indices
<1>3. /\ disturbed \subseteq disturbed'
      /\ \A d \in Clients : d # c => held'[d] = held[d]
      /\ held'[c] \in {0, held[c]}
      /\ held'[c] = 0 \/ subjectOf[c] \in disturbed'
      /\ RequestsOf(c) # {} => subjectOf[c] \in disturbed'
  BY <1>1 DEF logout, Lose
<1>4. \A g \in Handlers : InFlight(g)' <=> InFlight(g)
  BY <1>1 DEF InFlight
<1>5. \A g \in Handlers : InFlight(g) =>
        /\ request[g].client \in Clients
        /\ At(g, "save") => request[g].next \in Indices
  BY RequestType DEF IInv, InHand, Busy
<1>6. Owned' /\ Distinct'
  <2>1. Owned'
    BY <1>1, <1>2, <1>3, <1>4, OwnedKept
  <2>2. Distinct'
    BY <1>1, <1>3, <1>4, DistinctKept
  <2> QED
    BY <2>1, <2>2
<1>7. Undisturbed'
  BY <1>1, <1>2, <1>3, <1>4, <1>5
  DEF Undisturbed, Distinct, Calm, At, SubjectOfRequest, RequestsOf
<1>8. SessionsSurvive'
  BY <1>1, <1>2, <1>3 DEF SessionsSurvive, Distinct
<1>9. NoStrayTokens'
  BY <1>1, <1>2, <1>3, <1>4 DEF NoStrayTokens, At
<1>10. RotationIsALine'
  <2>1. \A u \in Indices : origin[u] # 0 => origin[u] \in Indices
    BY RowFacts DEF IInv
  <2> QED
    BY <1>1, <1>2, <1>3, <1>4, <2>1 DEF RotationIsALine, At
<1> QED
  BY <1>6, <1>7, <1>8, <1>9, <1>10

LEMMA ExpireUInv ==
  ASSUME UInv, IInv', NEW t \in Indices, expire(t)
  PROVE  UInv'
<1> USE DEF UInv
<1>1. /\ UNCHANGED <<request, held, origin, disturbed>>
      /\ held \in [Clients -> {0} \cup Indices] /\ 0 \notin Indices
  BY RowFacts DEF expire, IInv
<1>2. /\ Indices' = Indices
      /\ \A u \in Indices :
           /\ tokens'[u].subjectId = tokens[u].subjectId
           /\ tokens'[u].replacedBy = tokens[u].replacedBy
           /\ tokens'[u].revoked = tokens[u].revoked
           /\ tokens[u].expired => tokens'[u].expired
  BY RowFacts DEF expire, IInv, RefreshToken, Indices
<1>3. \A g \in Handlers : InFlight(g)' <=> InFlight(g)
  BY <1>1 DEF InFlight
<1>4. \A g \in Handlers : At(g, "save") => request[g].next \in Indices
  BY DEF IInv, InHand
<1>5. Owned' /\ Distinct'
  BY <1>1, <1>2, <1>3, OwnedKept DEF Distinct, At
<1>6. Undisturbed' /\ SessionsSurvive'
  BY <1>1, <1>2, <1>3, <1>4
  DEF Undisturbed, SessionsSurvive, Calm, At, SubjectOfRequest
<1>7. NoStrayTokens'
  BY <1>1, <1>2, <1>3 DEF NoStrayTokens, At
<1>8. RotationIsALine'
  <2>1. \A u \in Indices : origin[u] # 0 => origin[u] \in Indices
    BY RowFacts DEF IInv
  <2> QED
    BY <1>1, <1>2, <1>3, <2>1 DEF RotationIsALine, At
<1> QED
  BY <1>5, <1>6, <1>7, <1>8

(* The presented token of an undisturbed client is live, so its request    *)
(* never turns to revokeAll.                                               *)
LEMMA RefreshUInv ==
  ASSUME UInv, IInv', NEW h \in Handlers, NEW c \in Clients, refresh(h, c)
  PROVE  UInv'
<1> USE DEF UInv
<1>1. /\ UNCHANGED <<tokens, origin>> /\ ~InFlight(h)
      /\ held \in [Clients -> {0} \cup Indices] /\ 0 \notin Indices
      /\ held[c] \in Indices /\ held[c] # 0
      /\ disturbed \subseteq disturbed'
      /\ RequestsOf(c) # {} => subjectOf[c] \in disturbed'
  BY RowFacts DEF refresh, IInv
<1>2. Indices' = Indices
  BY <1>1 DEF Indices
<1>3. \A u \in Indices : origin[u] # 0 => origin[u] \in Indices
  BY RowFacts DEF IInv
<1>4. CASE /\ tokens[held[c]].expired
           /\ held' = [held EXCEPT ![c] = 0] /\ UNCHANGED request
  <2>1. \A g \in Handlers : InFlight(g)' <=> InFlight(g)
    BY <1>4 DEF InFlight
  <2>2. \A d \in Clients : held'[d] = IF d = c THEN 0 ELSE held[d]
    BY <1>1, <1>4
  <2>3. Owned' /\ Distinct'
    <3>1. Owned'
      BY <1>1, <1>2, <1>4, <2>1, <2>2, OwnedKept
    <3>2. Distinct'
      BY <1>1, <1>4, <2>1, <2>2, DistinctKept
    <3> QED
      BY <3>1, <3>2
  <2>4. Undisturbed' /\ SessionsSurvive'
    BY <1>1, <1>2, <1>4, <2>1, <2>2, RequestType
    DEF Undisturbed, SessionsSurvive, Calm, At, SubjectOfRequest, RequestsOf
  <2>5. NoStrayTokens' /\ RotationIsALine'
    BY <1>1, <1>2, <1>3, <1>4, <2>1, <2>2 DEF NoStrayTokens, RotationIsALine,
      At
  <2> QED
    BY <2>3, <2>4, <2>5
<1>5. ASSUME NEW call \in {"issueTokens", "revokeAll"},
             call = "revokeAll" => tokens[held[c]].revoked,
             request' = [request EXCEPT ![h] =
               [pc |-> call, client |-> c, token |-> held[c], next |-> 0]],
             UNCHANGED held
      PROVE  UInv'
  <2>1. /\ request'[h].pc = call /\ request'[h].client = c
        /\ request'[h].token = held[c]
        /\ \A g \in Handlers : g # h => request'[g] = request[g]
        /\ \A g \in Handlers : InFlight(g)' <=> InFlight(g) \/ g = h
    BY <1>5 DEF IInv, TypeOK, InFlight, Idle
  <2>2. \A g \in Handlers : At(g, "save")' <=> At(g, "save")
    BY <1>1, <1>5, <2>1 DEF At
  <2>3. \A g \in Handlers : At(g, "save") => g # h /\ request'[g] = request[g]
    BY <1>1, <2>1 DEF At
  <2>4. Owned'
    <3>1. \A g \in Handlers : InFlight(g)' =>
            tokens'[request'[g].token].subjectId = SubjectOfRequest(g)'
      BY <1>1, <2>1 DEF Owned, SubjectOfRequest
    <3>2. \A g \in Handlers : At(g, "save")' =>
            tokens'[request'[g].next].subjectId = SubjectOfRequest(g)'
      BY <1>1, <2>2, <2>3 DEF Owned, SubjectOfRequest
    <3> QED
      BY <1>1, <1>2, <1>5, <3>1, <3>2 DEF Owned
  <2>5. Distinct'
    BY <1>1, <1>5, <2>2, <2>3 DEF Distinct
  <2>6. Undisturbed'
    <3> SUFFICES ASSUME NEW g \in Handlers, Calm(g)'
                 PROVE  /\ request'[g].token = held'[request'[g].client]
                        /\ request'[g].pc # "revokeAll"
                        /\ At(g, "save")' => ~tokens'[request'[g].next].revoked
                        /\ \A k \in Handlers :
                             InFlight(k)' /\ request'[k].client = request'[g].client
                               => k = g
      BY DEF Undisturbed
    <3>1. CASE g = h
      BY <1>1, <1>5, <2>1, <2>2, <2>3, <3>1
      DEF Calm, SubjectOfRequest, RequestsOf, SessionsSurvive
    <3>2. CASE g # h
      BY <1>1, <1>5, <2>1, <2>2, <2>3, <3>2
      DEF Undisturbed, Calm, SubjectOfRequest, RequestsOf
    <3> QED
      BY <3>1, <3>2
  <2>7. SessionsSurvive' /\ NoStrayTokens' /\ RotationIsALine'
    BY <1>1, <1>2, <1>3, <1>5, <2>2, <2>3
    DEF SessionsSurvive, NoStrayTokens, RotationIsALine
  <2> QED
    BY <2>4, <2>5, <2>6, <2>7
<1> QED
  BY <1>4, <1>5 DEF refresh

LEMMA NextUInv == UInv /\ [Next]_vars => UInv'
<1> SUFFICES ASSUME UInv, [Next]_vars
             PROVE  UInv'
  OBVIOUS
<1>0. IInv'
  BY NextPreserves DEF UInv
<1>1. CASE UNCHANGED vars
  BY <1>0, <1>1
  DEF vars, UInv, Owned, Distinct, Undisturbed, Calm, At, InFlight,
      SubjectOfRequest, SessionsSurvive, NoStrayTokens, RotationIsALine, Indices
<1>2. ASSUME NEW c \in Clients, login(c) \/ logout(c) \/ refuse(c)
      PROVE  UInv'
  BY <1>0, <1>1, <1>2, LoginUInv, LogoutUInv DEF refuse
<1>3. ASSUME NEW h \in Handlers, NEW c \in Clients, refresh(h, c)
      PROVE  UInv'
  BY <1>0, <1>3, RefreshUInv
<1>4. ASSUME NEW h \in Handlers,
             issueTokens(h) \/ save(h) \/ revokeAll(h) \/ fail(h)
      PROVE  UInv'
  BY <1>0, <1>4, IssueUInv, SaveUInv, RevokeAllUInv, FailUInv
<1>5. ASSUME NEW t \in Indices, expire(t)
      PROVE  UInv'
  BY <1>0, <1>5, ExpireUInv
<1> QED
  BY <1>1, <1>2, <1>3, <1>4, <1>5 DEF Next

LEMMA UndisturbedInvariance == Spec => []UInv
<1>1. Init => UInv
  BY InitUInv
<1>2. UInv /\ [Next]_vars => UInv'
  BY NextUInv
<1> QED
  BY <1>1, <1>2, PTL DEF Spec

-----------------------------------------------------------------------------
(* Theorems *)

(* Records and requests keep their types: a request in flight presents a   *)
(* token that was issued, and clients hold only such tokens.               *)
THEOREM TypeCorrect == Spec => []TypeOK
<1>1. IInv => TypeOK
  BY DEF IInv
<1> QED
  BY <1>1, Invariance, PTL

(* In every interleaving and with losses, a token that names a successor   *)
(* is revoked and names a newer token that was issued for it.              *)
THEOREM ChainsLeadForward == Spec => []ReplacementsFollowIssue
<1>1. IInv => ReplacementsFollowIssue
  BY DEF IInv
<1> QED
  BY <1>1, Invariance, PTL

(* Whatever other subjects and devices do, the session of a client whose   *)
(* subject was not disturbed is not revoked: rotation on one device, or a  *)
(* revokeAll of somebody else, never ends it.                              *)
THEOREM UndisturbedSessionsSurvive == Spec => []SessionsSurvive
<1>1. UInv => SessionsSurvive
  BY DEF UInv
<1> QED
  BY <1>1, UndisturbedInvariance, PTL

(* Nor does such a subject have a live token that none of its clients      *)
(* holds or is about to be given.                                          *)
THEOREM NoTokenGoesAstray == Spec => []NoStrayTokens
<1>1. UInv => NoStrayTokens
  BY DEF UInv
<1> QED
  BY <1>1, UndisturbedInvariance, PTL

(* And every token of it that replaced another is the one that the other   *)
(* names: its chains do not branch.                                        *)
THEOREM ChainsDoNotBranch == Spec => []RotationIsALine
<1>1. UInv => RotationIsALine
  BY DEF UInv
<1> QED
  BY <1>1, UndisturbedInvariance, PTL
=============================================================================
