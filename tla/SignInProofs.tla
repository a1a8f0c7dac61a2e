----------------------------- MODULE SignInProofs -----------------------------
(***************************************************************************)
(* Theorems about SignIn, for any number of mobile numbers, codes,         *)
(* requests, attempts and losses.                                          *)
(*                                                                         *)
(* A request works on a code of its own number, with a counter below the   *)
(* limit (InHand); that is what keeps the counters within the limit when   *)
(* requests overlap.  As long as two requests for a number never met       *)
(* there is one at a time (OneAtATime), and what it loaded is still what   *)
(* is stored (Current): then codes are used once and counted exactly.  The *)
(* unique index alone makes a welcome single (Welcoming).                  *)
(***************************************************************************)
EXTENDS SignIn, SequenceTheorems, FiniteSetTheorems, TLAPS

InHand ==
  \A h \in Handlers : InFlight(h) /\ request[h].pc # "create" =>
    /\ request[h].otp \in Indices
    /\ otpRequests[request[h].otp].mobile = request[h].mobile
    /\ request[h].pc = "count" => request[h].attempts < MaxAttempts

OneAtATime ==
  \A g, h \in Handlers :
    /\ InFlight(g) /\ InFlight(h) /\ request[g].mobile = request[h].mobile
    /\ Calm(request[h].mobile)
    => g = h

(* What a request for a calm number can rely on between its calls.         *)
Current ==
  \A h \in Handlers : InFlight(h) /\ Calm(request[h].mobile) =>
    LET i == request[h].otp IN
    /\ request[h].pc = "create" => Live(request[h].mobile) = {}
    /\ request[h].pc \in {"count", "consume"} => ~otpRequests[i].consumed
    /\ request[h].pc = "count" =>
         request[h].attempts = otpRequests[i].attempts
    /\ request[h].pc \in {"customer", "register", "welcome", "issueTokens"} =>
         otpRequests[i].consumed /\ sessions[i] = 0

Welcoming ==
  \A h \in Handlers : At(h, "welcome") =>
    /\ request[h].mobile \in customers
    /\ welcomes[request[h].mobile] = 0
    /\ \A g \in Handlers :
         At(g, "welcome") /\ request[g].mobile = request[h].mobile
                             => g = h

(* Customers that were never welcomed and will not be.                     *)
Missing ==
  {m \in customers :
     welcomes[m] = 0 /\ ~\E h \in BusyWith(m) : At(h, "welcome")}

IInv ==
  /\ TypeOK /\ InHand
  /\ OneAtATime /\ Current
  /\ OneLiveCodeIfCalm /\ WrongCodesCounted /\ CodeUsedOnce
  /\ Welcoming /\ IsFiniteSet(Missing) /\ WelcomedOnce

-----------------------------------------------------------------------------
(* Rows and requests *)

LEMMA RequestShape ==
  ASSUME TypeOK, NEW h \in Handlers, InFlight(h)
  PROVE  /\ request[h].mobile \in Mobiles
         /\ request[h].pc = "create" <=> request[h] \in Requesting
         /\ request[h].pc # "create" <=> request[h] \in Verifying
  BY DEF TypeOK, InFlight, Requesting, Verifying

LEMMA RowFacts ==
  ASSUME TypeOK
  PROVE  /\ otpRequests \in [Indices -> OtpRequest]
         /\ Indices = 1 .. Len(otpRequests) /\ Len(otpRequests) \in Nat
         /\ \A i \in Indices : /\ otpRequests[i].mobile \in Mobiles
                               /\ otpRequests[i].attempts \in Nat
                               /\ otpRequests[i].consumed \in BOOLEAN
<1>1. otpRequests \in Seq(OtpRequest)
  BY DEF TypeOK
<1>2. /\ otpRequests \in [1 .. Len(otpRequests) -> OtpRequest]
      /\ DOMAIN otpRequests = 1 .. Len(otpRequests)
      /\ Len(otpRequests) \in Nat
  BY <1>1, LenProperties
<1> QED
  BY <1>2 DEF Indices, OtpRequest

(* Rows that are written back in place are again a sequence of rows.       *)
LEMMA RowsInPlace ==
  ASSUME TypeOK, otpRequests' \in [Indices -> OtpRequest]
  PROVE  otpRequests' \in Seq(OtpRequest) /\ Indices' = Indices
<1>1. Indices = 1 .. Len(otpRequests) /\ Len(otpRequests) \in Nat
  BY RowFacts
<1> QED
  BY <1>1, SeqDef DEF Indices

(* A step that rewrites rows in place, keeps numbers and codes and leaves  *)
(* the counters within the limit.                                          *)
InPlace ==
  /\ otpRequests' \in [Indices -> OtpRequest]
  /\ \A i \in Indices : /\ otpRequests'[i].mobile = otpRequests[i].mobile
                        /\ otpRequests'[i].attempts <= MaxAttempts

LEMMA UntouchedInPlace ==
  ASSUME TypeOK, UNCHANGED otpRequests
  PROVE  InPlace
  BY RowFacts DEF InPlace, TypeOK

LEMMA InPlaceKeeps ==
  ASSUME TypeOK, InHand, InPlace,
         request' \in [Handlers -> {Idle} \cup Requesting \cup Verifying],
         \A h \in Handlers : InFlight(h)' /\ request'[h].pc # "create" =>
           /\ request'[h].otp \in Indices
           /\ otpRequests[request'[h].otp].mobile = request'[h].mobile
           /\ request'[h].pc = "count" => request'[h].attempts < MaxAttempts,
         customers' \subseteq Mobiles,
         welcomes' \in [Mobiles -> Nat],
         sessions' \in [Indices -> Nat], wrong' \in [Indices -> Nat],
         overlapped' \subseteq Mobiles,
         failures' \in 0 .. MaxFailures
  PROVE  TypeOK' /\ InHand'
<1>1. otpRequests' \in Seq(OtpRequest) /\ Indices' = Indices
  BY RowsInPlace DEF InPlace
<1>2. TypeOK'
  BY <1>1 DEF TypeOK, InPlace
<1>3. InHand'
  BY <1>1 DEF InHand, InPlace
<1> QED
  BY <1>2, <1>3

(* A request that leaves, or goes on to another call with what it has.     *)
LEMMA RequestMoves ==
  ASSUME TypeOK, InHand, NEW h \in Handlers, InFlight(h),
         \/ Answer(h)
         \/ /\ request[h].pc # "create"
            /\ \E call \in {"customer", "register", "welcome", "issueTokens"} :
                 Goto(h, call)
  PROVE  /\ request' \in [Handlers -> {Idle} \cup Requesting \cup Verifying]
         /\ \A g \in Handlers : InFlight(g)' /\ request'[g].pc # "create" =>
              /\ request'[g].otp \in Indices
              /\ otpRequests[request'[g].otp].mobile = request'[g].mobile
              /\ request'[g].pc = "count" => request'[g].attempts < MaxAttempts
<1>1. CASE Answer(h)
  BY <1>1 DEF Answer, TypeOK, InHand, InFlight, Idle
<1>2. ASSUME NEW call \in {"customer", "register", "welcome", "issueTokens"},
             Goto(h, call), request[h].pc # "create"
      PROVE  /\ request' \in [Handlers -> {Idle} \cup Requesting \cup Verifying]
             /\ \A g \in Handlers : InFlight(g)' /\ request'[g].pc # "create" =>
                  /\ request'[g].otp \in Indices
                  /\ otpRequests[request'[g].otp].mobile = request'[g].mobile
                  /\ request'[g].pc = "count" =>
                       request'[g].attempts < MaxAttempts
  <2>1. request[h] \in Verifying
    BY <1>2, RequestShape
  <2>2. [request[h] EXCEPT !.pc = call] \in Verifying
    BY <2>1 DEF Verifying
  <2>3. /\ request'[h] = [request[h] EXCEPT !.pc = call]
        /\ \A g \in Handlers : g # h => request'[g] = request[g]
        /\ request' \in [Handlers -> {Idle} \cup Requesting \cup Verifying]
    BY <1>2, <2>2 DEF Goto, TypeOK
  <2>4. /\ request'[h].otp = request[h].otp
        /\ request'[h].mobile = request[h].mobile
        /\ request'[h].pc = call
    BY <2>1, <2>3 DEF Verifying
  <2> QED
    BY <1>2, <2>3, <2>4 DEF InHand, InFlight
<1> QED
  BY <1>1, <1>2

LEMMA RequestsStay ==
  ASSUME TypeOK, InHand, UNCHANGED request
  PROVE  /\ request' \in [Handlers -> {Idle} \cup Requesting \cup Verifying]
         /\ \A g \in Handlers : InFlight(g)' /\ request'[g].pc # "create" =>
              /\ request'[g].otp \in Indices
              /\ otpRequests[request'[g].otp].mobile = request'[g].mobile
              /\ request'[g].pc = "count" => request'[g].attempts < MaxAttempts
  BY DEF TypeOK, InHand, InFlight

-----------------------------------------------------------------------------
(* Types, and what requests have in hand *)

LEMMA InitEstablishes == Init => IInv
<1> SUFFICES ASSUME Init PROVE IInv
  OBVIOUS
<1>1. /\ Indices = {} /\ \A m \in Mobiles : Live(m) = {}
      /\ \A h \in Handlers : ~InFlight(h)
  BY DEF Init, Indices, InFlight, Live
<1>2. TypeOK
  BY <1>1, BoundsAssumption DEF Init, TypeOK
<1>3. /\ InHand /\ OneAtATime /\ Current /\ Welcoming
      /\ OneLiveCodeIfCalm /\ WrongCodesCounted /\ CodeUsedOnce
  BY <1>1 DEF InHand, OneAtATime, Current, Welcoming, At, OneLiveCodeIfCalm,
     WrongCodesCounted, CodeUsedOnce
<1>4. Missing = {}
  BY DEF Init, Missing
<1>5. IsFiniteSet(Missing) /\ WelcomedOnce
  BY <1>4, FS_EmptySet, BoundsAssumption DEF Init, WelcomedOnce, Missing
<1> QED
  BY <1>2, <1>3, <1>5 DEF IInv

LEMMA CreateTypes ==
  ASSUME TypeOK, InHand, NEW h \in Handlers, create(h)
  PROVE  /\ TypeOK' /\ InHand'
         /\ Indices' = Indices \cup {Len(otpRequests) + 1}
         /\ Len(otpRequests) + 1 \notin Indices
         /\ \A i \in Indices : /\ otpRequests'[i] = otpRequests[i]
                               /\ sessions'[i] = sessions[i]
                               /\ wrong'[i] = wrong[i]
         /\ otpRequests'[Len(otpRequests) + 1].mobile = request[h].mobile
         /\ otpRequests'[Len(otpRequests) + 1].attempts = 0
         /\ sessions'[Len(otpRequests) + 1] = 0
         /\ wrong'[Len(otpRequests) + 1] = 0
<1> DEFINE n == Len(otpRequests) + 1
<1>1. PICK code \in Codes :
        otpRequests' = Append(otpRequests,
          [mobile |-> request[h].mobile, code |-> code, attempts |-> 0,
           consumed |-> FALSE, expired |-> FALSE])
  BY DEF create
<1> DEFINE row == [mobile |-> request[h].mobile, code |-> code, attempts |-> 0,
                   consumed |-> FALSE, expired |-> FALSE]
<1>2. row \in OtpRequest
  BY RequestShape DEF create, At, OtpRequest
<1>3. otpRequests \in Seq(OtpRequest) /\ Indices = 1 .. Len(otpRequests)
         /\ Len(otpRequests) \in Nat
  BY RowFacts DEF TypeOK
<1>4. /\ otpRequests' \in Seq(OtpRequest) /\ Len(otpRequests') = n
      /\ otpRequests'[n] = row
      /\ \A i \in Indices : otpRequests'[i] = otpRequests[i]
  BY <1>1, <1>2, <1>3
<1>5. Indices' = Indices \cup {n} /\ n \notin Indices
  BY <1>3, <1>4 DEF Indices
<1>6. /\ sessions \in Seq(Nat) /\ wrong \in Seq(Nat)
      /\ Len(sessions) = Len(otpRequests) /\ Len(wrong) = Len(otpRequests)
  <2>1. \A f \in [1 .. Len(otpRequests) -> Nat] :
          f \in Seq(Nat) /\ Len(f) = Len(otpRequests)
    <3> TAKE f \in [1 .. Len(otpRequests) -> Nat]
    <3>1. f \in Seq(Nat)
      BY <1>3, SeqDef
    <3> QED
      BY <1>3, <3>1
  <2> QED
    BY <1>3, <2>1 DEF TypeOK
<1>7. /\ sessions' \in [Indices' -> Nat] /\ wrong' \in [Indices' -> Nat]
      /\ sessions'[n] = 0 /\ wrong'[n] = 0
      /\ \A i \in Indices : sessions'[i] = sessions[i] /\ wrong'[i] = wrong[i]
  <2>1. sessions' = Append(sessions, 0) /\ wrong' = Append(wrong, 0)
    BY DEF create
  <2>2. /\ sessions' \in Seq(Nat) /\ Len(sessions') = n
        /\ wrong' \in Seq(Nat) /\ Len(wrong') = n
        /\ sessions'[n] = 0 /\ wrong'[n] = 0
        /\ \A i \in 1 .. Len(otpRequests) :
             sessions'[i] = sessions[i] /\ wrong'[i] = wrong[i]
    BY <1>3, <1>6, <2>1
  <2>3. Indices' = 1 .. n
    BY <1>4 DEF Indices
  <2> QED
    BY <1>3, <2>2, <2>3
<1>8. /\ request' \in [Handlers -> {Idle} \cup Requesting \cup Verifying]
      /\ \A g \in Handlers : InFlight(g)' /\ request'[g].pc # "create" =>
           /\ request'[g].otp \in Indices
           /\ otpRequests[request'[g].otp].mobile = request'[g].mobile
           /\ request'[g].pc = "count" => request'[g].attempts < MaxAttempts
  BY RequestMoves DEF create, At
<1>9. TypeOK'
  <2>1. \A i \in Indices' : otpRequests'[i].attempts <= MaxAttempts
    <3>1. otpRequests'[n].attempts = 0
      BY <1>4
    <3>2. \A i \in Indices : otpRequests'[i].attempts <= MaxAttempts
      BY <1>4 DEF TypeOK
    <3> HIDE DEF n
    <3> QED
      BY <1>5, <3>1, <3>2, BoundsAssumption
  <2> QED
    BY <1>4, <1>7, <1>8, <2>1 DEF TypeOK, create
<1>10. InHand'
  BY <1>4, <1>5, <1>8 DEF InHand
<1> QED
  BY <1>4, <1>5, <1>7, <1>9, <1>10

LEMMA TypeStep ==
  ASSUME TypeOK, InHand, [Next]_vars
  PROVE  TypeOK' /\ InHand'
<1>1. CASE UNCHANGED vars
  BY <1>1 DEF vars, TypeOK, InHand, InFlight, Indices
<1>2. CASE \E m \in Mobiles : refuse(m)
  BY <1>2 DEF refuse, vars, TypeOK, InHand, InFlight, Indices
<1>3. ASSUME NEW h \in Handlers, NEW m \in Mobiles, requestOtp(h, m)
      PROVE  TypeOK' /\ InHand'
  <2>1. InPlace
    BY <1>3, RowFacts DEF requestOtp, retired, InPlace, OtpRequest, TypeOK
  <2>2. /\ request' \in [Handlers -> {Idle} \cup Requesting \cup Verifying]
        /\ \A g \in Handlers : InFlight(g)' /\ request'[g].pc # "create" =>
             /\ request'[g].otp \in Indices
             /\ otpRequests[request'[g].otp].mobile = request'[g].mobile
             /\ request'[g].pc = "count" => request'[g].attempts < MaxAttempts
    BY <1>3 DEF requestOtp, TypeOK, Requesting, InHand, InFlight
  <2>3. overlapped' \subseteq Mobiles
    BY <1>3 DEF requestOtp, NoteOverlap, TypeOK
  <2> QED
    BY <1>3, <2>1, <2>2, <2>3, InPlaceKeeps DEF requestOtp, TypeOK
<1>4. ASSUME NEW h \in Handlers, NEW m \in Mobiles, NEW code \in Codes,
             verifyOtp(h, m, code)
      PROVE  TypeOK' /\ InHand'
  <2>1. PICK i \in Found(m) :
          /\ Usable(i)
          /\ request' = [request EXCEPT ![h] =
                [pc |-> IF otpRequests[i].code = code THEN "consume" ELSE "count",
                 mobile |-> m, otp |-> i,
                 attempts |-> otpRequests[i].attempts]]
    BY <1>4 DEF verifyOtp
  <2>2. /\ i \in Indices /\ i \in Nat /\ otpRequests[i].mobile = m
        /\ otpRequests[i].attempts \in Nat /\ otpRequests[i].attempts < MaxAttempts
    BY <2>1, RowFacts DEF Found, Live, Usable
  <2>3. /\ request' \in [Handlers -> {Idle} \cup Requesting \cup Verifying]
        /\ \A g \in Handlers : InFlight(g)' /\ request'[g].pc # "create" =>
             /\ request'[g].otp \in Indices
             /\ otpRequests[request'[g].otp].mobile = request'[g].mobile
             /\ request'[g].pc = "count" => request'[g].attempts < MaxAttempts
    BY <2>1, <2>2 DEF TypeOK, Verifying, InHand, InFlight
  <2>4. overlapped' \subseteq Mobiles
    BY <1>4 DEF verifyOtp, NoteOverlap, TypeOK
  <2>5. InPlace
    BY <1>4, UntouchedInPlace DEF verifyOtp
  <2> QED
    BY <1>4, <2>3, <2>4, <2>5, InPlaceKeeps DEF verifyOtp, TypeOK
<1>5. ASSUME NEW h \in Handlers, saveAttempts(h)
      PROVE  TypeOK' /\ InHand'
  <2>1. /\ request[h].otp \in Indices /\ request[h].attempts \in Nat
        /\ request[h].attempts < MaxAttempts /\ InFlight(h)
    BY <1>5, RequestShape DEF saveAttempts, At, InHand, Verifying
  <2>2. InPlace
    <3>1. CASE UNCHANGED otpRequests
      BY <3>1, UntouchedInPlace
    <3>2. CASE otpRequests' = [otpRequests EXCEPT
                                 ![request[h].otp].attempts = count(h)]
      <4>1. count(h) \in Nat /\ count(h) <= MaxAttempts
        BY <2>1, BoundsAssumption DEF count
      <4>2. otpRequests \in [Indices -> OtpRequest]
        BY RowFacts
      <4>3. [otpRequests[request[h].otp] EXCEPT !.attempts = count(h)]
              \in OtpRequest
        BY <2>1, <4>1, <4>2 DEF OtpRequest
      <4>4. \A i \in Indices :
              otpRequests'[i] = IF i = request[h].otp
                THEN [otpRequests[i] EXCEPT !.attempts = count(h)]
                ELSE otpRequests[i]
        BY <3>2, <4>2
      <4>5. otpRequests' \in [Indices -> OtpRequest]
        BY <3>2, <4>2, <4>3
      <4> QED
        BY <4>1, <4>2, <4>4, <4>5 DEF InPlace, OtpRequest, TypeOK
    <3> QED
      BY <1>5, <3>1, <3>2 DEF saveAttempts
  <2>3. wrong' \in [Indices -> Nat]
    BY <1>5, <2>1 DEF saveAttempts, TypeOK
  <2> QED
    BY <1>5, <2>1, <2>2, <2>3, RequestMoves, InPlaceKeeps DEF saveAttempts,
      TypeOK
<1>6. ASSUME NEW h \in Handlers, saveConsumed(h)
      PROVE  TypeOK' /\ InHand'
  <2>1. /\ request[h].otp \in Indices /\ InFlight(h) /\ request[h].pc # "create"
    BY <1>6 DEF saveConsumed, At, InHand
  <2>2. InPlace
    <3>1. CASE UNCHANGED otpRequests
      BY <3>1, UntouchedInPlace
    <3>2. CASE otpRequests' = [otpRequests EXCEPT
                                 ![request[h].otp].consumed = TRUE]
      BY <2>1, <3>2, RowFacts DEF InPlace, OtpRequest, TypeOK
    <3> QED
      BY <1>6, <3>1, <3>2 DEF saveConsumed
  <2>3. Answer(h) \/ Goto(h, "customer")
    BY <1>6 DEF saveConsumed
  <2> QED
    BY <1>6, <2>1, <2>2, <2>3, RequestMoves, InPlaceKeeps DEF saveConsumed,
      TypeOK
<1>7. ASSUME NEW h \in Handlers,
             findCustomer(h) \/ register(h) \/ welcome(h) \/ issueTokens(h)
      PROVE  TypeOK' /\ InHand'
  <2>1. /\ InFlight(h) /\ request[h].pc # "create" /\ request[h].mobile \in Mobiles
        /\ request[h].otp \in Indices
    BY <1>7, RequestShape
    DEF findCustomer, register, welcome, issueTokens, At, InHand
  <2>2. \/ Answer(h)
        \/ \E call \in {"customer", "register", "welcome", "issueTokens"} :
             Goto(h, call)
    BY <1>7 DEF findCustomer, register, welcome, issueTokens
  <2>3. /\ customers' \subseteq Mobiles /\ welcomes' \in [Mobiles -> Nat]
        /\ sessions' \in [Indices -> Nat]
    <3>1. CASE findCustomer(h) \/ register(h)
      BY <2>1, <3>1 DEF findCustomer, register, TypeOK
    <3>2. CASE welcome(h)
      BY <2>1, <3>2 DEF welcome, TypeOK
    <3>3. CASE issueTokens(h)
      BY <2>1, <3>3 DEF issueTokens, TypeOK
    <3> QED
      BY <1>7, <3>1, <3>2, <3>3
  <2>4. UNCHANGED <<otpRequests, wrong, overlapped, failures>>
    BY <1>7 DEF findCustomer, register, welcome, issueTokens
  <2> QED
    BY <2>1, <2>2, <2>3, <2>4, RequestMoves, InPlaceKeeps, UntouchedInPlace
    DEF TypeOK
<1>8. ASSUME NEW h \in Handlers, create(h)
      PROVE  TypeOK' /\ InHand'
  BY <1>8, CreateTypes
<1>9. ASSUME NEW h \in Handlers, fail(h)
      PROVE  TypeOK' /\ InHand'
  <2>1. failures' \in 0 .. MaxFailures
    BY <1>9, BoundsAssumption DEF fail, TypeOK
  <2> QED
    BY <1>9, <2>1, RequestMoves, InPlaceKeeps, UntouchedInPlace DEF fail,
      TypeOK
<1>10. ASSUME NEW i \in Indices, expire(i)
       PROVE  TypeOK' /\ InHand'
  <2>1. InPlace
    BY <1>10, RowFacts DEF expire, InPlace, OtpRequest, TypeOK
  <2> QED
    BY <1>10, <2>1, RequestsStay, InPlaceKeeps DEF expire, TypeOK
<1> QED
  BY <1>1, <1>2, <1>3, <1>4, <1>5, <1>6, <1>7, <1>8, <1>9, <1>10 DEF Next

-----------------------------------------------------------------------------
(* Numbers whose requests never met *)

CInv ==
  /\ TypeOK /\ InHand
  /\ OneAtATime /\ Current
  /\ OneLiveCodeIfCalm /\ WrongCodesCounted /\ CodeUsedOnce

(* A step of request h alone, which does not start it.                     *)
LEMMA OthersStay ==
  ASSUME CInv, NEW h \in Handlers, InFlight(h), UNCHANGED overlapped,
         \A g \in Handlers : g # h => request'[g] = request[g],
         InFlight(h)' => request'[h].mobile = request[h].mobile
  PROVE  /\ OneAtATime'
         /\ \A m : Calm(m)' <=> Calm(m)
         /\ \A g \in Handlers : /\ InFlight(g)' => InFlight(g)
                                /\ g # h /\ InFlight(g) => InFlight(g)'
         /\ \A g \in Handlers :
              g # h /\ InFlight(g) /\ Calm(request[g].mobile) =>
                request[g].mobile # request[h].mobile
<1>1. \A m : Calm(m)' <=> Calm(m)
  BY DEF Calm
<1>2. \A g \in Handlers : /\ InFlight(g)' => InFlight(g)
                          /\ g # h /\ InFlight(g) => InFlight(g)'
  BY DEF InFlight
<1>3. OneAtATime'
  BY <1>1, <1>2 DEF CInv, OneAtATime
<1>4. \A g \in Handlers :
        g # h /\ InFlight(g) /\ Calm(request[g].mobile) =>
          request[g].mobile # request[h].mobile
  BY DEF CInv, OneAtATime
<1> QED
  BY <1>1, <1>2, <1>3, <1>4

(* The arrival of a request on number m.                                   *)
LEMMA Arrives ==
  ASSUME CInv, NEW h \in Handlers, NEW m \in Mobiles, ~InFlight(h),
         NoteOverlap(m), InFlight(h)', request'[h].mobile = m,
         \A g \in Handlers : g # h => request'[g] = request[g]
  PROVE  /\ OneAtATime'
         /\ \A k : Calm(k)' => Calm(k)
         /\ \A g \in Handlers : InFlight(g)' <=> InFlight(g) \/ g = h
         /\ \A g \in Handlers :
              InFlight(g) /\ Calm(request[g].mobile)' => request[g].mobile # m
<1>1. \A k : Calm(k)' => Calm(k)
  BY DEF Calm, NoteOverlap
<1>2. \A g \in Handlers : InFlight(g)' <=> InFlight(g) \/ g = h
  BY DEF InFlight
<1>3. \A g \in Handlers :
        InFlight(g) /\ Calm(request[g].mobile)' => request[g].mobile # m
  BY DEF Calm, NoteOverlap, BusyWith
<1>4. OneAtATime'
  BY <1>1, <1>2, <1>3 DEF CInv, OneAtATime
<1> QED
  BY <1>1, <1>2, <1>3, <1>4

LEMMA RequestOtpCalm ==
  ASSUME CInv, TypeOK', InHand', NEW h \in Handlers, NEW m \in Mobiles,
         requestOtp(h, m)
  PROVE  CInv'
<1>1. /\ request'[h].mobile = m /\ request'[h].pc = "create" /\ InFlight(h)'
      /\ \A g \in Handlers : g # h => request'[g] = request[g]
      /\ ~InFlight(h) /\ NoteOverlap(m) /\ UNCHANGED <<sessions, wrong>>
  BY DEF requestOtp, CInv, TypeOK, InFlight, Idle
<1>2. /\ OneAtATime'
      /\ \A k : Calm(k)' => Calm(k)
      /\ \A g \in Handlers : InFlight(g)' <=> InFlight(g) \/ g = h
      /\ \A g \in Handlers :
           InFlight(g) /\ Calm(request[g].mobile)' => request[g].mobile # m
  BY <1>1, Arrives
<1>3. /\ Indices' = Indices
      /\ \A i \in Indices :
           /\ otpRequests'[i].mobile = otpRequests[i].mobile
           /\ otpRequests'[i].attempts = otpRequests[i].attempts
           /\ otpRequests'[i].expired = otpRequests[i].expired
           /\ otpRequests[i].consumed => otpRequests'[i].consumed
           /\ otpRequests[i].mobile = m => otpRequests'[i].consumed
           /\ otpRequests[i].mobile # m => otpRequests'[i] = otpRequests[i]
  BY RowFacts DEF requestOtp, retired, Live, CInv, Indices, OtpRequest
<1>4. \A k \in Mobiles : Live(k)' = IF k = m THEN {} ELSE Live(k)
  BY <1>3 DEF Live
<1>5. \A g \in Handlers : InFlight(g) => request[g].mobile \in Mobiles
  BY RequestShape DEF CInv
<1>6. Current'
  <2> SUFFICES ASSUME NEW g \in Handlers, InFlight(g)', Calm(request[g].mobile)',
                      g # h
               PROVE  LET i == request'[g].otp IN
                 /\ request'[g].pc = "create" => Live(request[g].mobile)' = {}
                 /\ request'[g].pc \in {"count", "consume"} =>
                      ~otpRequests'[i].consumed
                 /\ request'[g].pc = "count" =>
                      request'[g].attempts = otpRequests'[i].attempts
                 /\ request'[g].pc \in {"customer", "register", "welcome",
                                        "issueTokens"} =>
                      otpRequests'[i].consumed /\ sessions'[i] = 0
    BY <1>1, <1>4 DEF Current
  <2>1. InFlight(g) /\ Calm(request[g].mobile) /\ request[g].mobile # m
    <3>1. request'[g] = request[g] /\ InFlight(g)
      BY <1>1, <1>2
    <3>2. Calm(request[g].mobile) /\ request[g].mobile # m
      BY <1>2, <3>1 DEF Calm
    <3> QED
      BY <3>1, <3>2
  <2>2. request[g].pc # "create" =>
          otpRequests'[request[g].otp] = otpRequests[request[g].otp]
    BY <1>3, <2>1 DEF CInv, InHand
  <2> QED
    BY <1>1, <1>4, <1>5, <2>1, <2>2 DEF CInv, Current
<1>7. OneLiveCodeIfCalm'
  BY <1>2, <1>4 DEF CInv, OneLiveCodeIfCalm
<1>8. WrongCodesCounted' /\ CodeUsedOnce'
  <2>1. \A i \in Indices : sessions[i] \in Nat
    BY DEF CInv, TypeOK
  <2> QED
    BY <1>1, <1>2, <1>3, <2>1 DEF CInv, WrongCodesCounted, CodeUsedOnce
<1> QED
  BY <1>2, <1>6, <1>7, <1>8 DEF CInv

LEMMA VerifyOtpCalm ==
  ASSUME CInv, TypeOK', InHand', NEW h \in Handlers, NEW m \in Mobiles,
         NEW code \in Codes, verifyOtp(h, m, code)
  PROVE  CInv'
<1>1. PICK i \in Found(m) :
        request' = [request EXCEPT ![h] =
          [pc |-> IF otpRequests[i].code = code THEN "consume" ELSE "count",
           mobile |-> m, otp |-> i, attempts |-> otpRequests[i].attempts]]
  BY DEF verifyOtp
<1>2. /\ request'[h].mobile = m /\ request'[h].pc \in {"count", "consume"}
      /\ request'[h].otp = i /\ request'[h].attempts = otpRequests[i].attempts
      /\ InFlight(h)' /\ ~InFlight(h) /\ NoteOverlap(m)
      /\ \A g \in Handlers : g # h => request'[g] = request[g]
      /\ UNCHANGED <<otpRequests, sessions, wrong>>
  BY <1>1 DEF verifyOtp, CInv, TypeOK, InFlight, Idle
<1>3. /\ OneAtATime'
      /\ \A k : Calm(k)' => Calm(k)
      /\ \A g \in Handlers : InFlight(g)' <=> InFlight(g) \/ g = h
      /\ \A g \in Handlers :
           InFlight(g) /\ Calm(request[g].mobile)' => request[g].mobile # m
  BY <1>2, Arrives
<1>4. Indices' = Indices /\ \A k : Live(k)' = Live(k)
  BY <1>2 DEF Indices, Live
<1>5. ~otpRequests[i].consumed
  BY <1>1 DEF Found, Live
<1>6. Current'
  BY <1>2, <1>3, <1>4, <1>5 DEF CInv, Current
<1>7. OneLiveCodeIfCalm' /\ WrongCodesCounted' /\ CodeUsedOnce'
  BY <1>2, <1>3, <1>4
  DEF CInv, OneLiveCodeIfCalm, WrongCodesCounted, CodeUsedOnce
<1> QED
  BY <1>3, <1>6, <1>7 DEF CInv

LEMMA CreateCalm ==
  ASSUME CInv, NEW h \in Handlers, create(h)
  PROVE  CInv'
<1> DEFINE n == Len(otpRequests) + 1
           m == request[h].mobile
<1>1. /\ request' = [request EXCEPT ![h] = Idle] /\ At(h, "create")
      /\ ~InFlight(h)' /\ InFlight(h) /\ m \in Mobiles
      /\ \A g \in Handlers : g # h => request'[g] = request[g]
      /\ UNCHANGED overlapped
  BY RequestShape DEF create, Answer, CInv, TypeOK, InFlight, At
<1>2. /\ OneAtATime'
      /\ \A k : Calm(k)' <=> Calm(k)
      /\ \A g \in Handlers : /\ InFlight(g)' => InFlight(g)
                             /\ g # h /\ InFlight(g) => InFlight(g)'
      /\ \A g \in Handlers :
           g # h /\ InFlight(g) /\ Calm(request[g].mobile) =>
             request[g].mobile # m
  BY <1>1, OthersStay
<1>3. /\ TypeOK' /\ InHand'
      /\ Indices' = Indices \cup {n}
      /\ n \notin Indices
      /\ \A i \in Indices : /\ otpRequests'[i] = otpRequests[i]
                            /\ sessions'[i] = sessions[i]
                            /\ wrong'[i] = wrong[i]
      /\ otpRequests'[n].mobile = m
      /\ otpRequests'[n].attempts = 0
      /\ sessions'[n] = 0 /\ wrong'[n] = 0
  BY CreateTypes DEF CInv
<1> HIDE DEF n
<1>4. \A k \in Mobiles : /\ Live(k) \subseteq Indices
                         /\ Live(k)' \subseteq Live(k) \cup {n}
                         /\ k # m => Live(k)' = Live(k)
  BY <1>3 DEF Live
<1>5. Current'
  <2> SUFFICES ASSUME NEW g \in Handlers, InFlight(g)', Calm(request[g].mobile),
                      g # h
               PROVE  LET i == request[g].otp IN
                 /\ request[g].pc = "create" => Live(request[g].mobile)' = {}
                 /\ request[g].pc \in {"count", "consume"} =>
                      ~otpRequests'[i].consumed
                 /\ request[g].pc = "count" =>
                      request[g].attempts = otpRequests'[i].attempts
                 /\ request[g].pc \in {"customer", "register", "welcome",
                                       "issueTokens"} =>
                      otpRequests'[i].consumed /\ sessions'[i] = 0
    BY <1>1, <1>2 DEF Current
  <2>1. InFlight(g) /\ request[g].mobile # m /\ request[g].mobile \in Mobiles
    BY <1>2, RequestShape DEF CInv
  <2>2. request[g].pc # "create" =>
          /\ otpRequests'[request[g].otp] = otpRequests[request[g].otp]
          /\ sessions'[request[g].otp] = sessions[request[g].otp]
    BY <1>3, <2>1 DEF CInv, InHand
  <2>3. Live(request[g].mobile)' = Live(request[g].mobile)
    <3>1. request'[g] = request[g]
      BY <1>1
    <3> QED
      BY <1>3, <2>1, <3>1 DEF Live
  <2> QED
    BY <2>1, <2>2, <2>3 DEF CInv, Current
<1>6. OneLiveCodeIfCalm'
  <2>1. Calm(m) => Live(m) = {}
    BY <1>1 DEF CInv, Current, At
  <2> QED
    BY <1>1, <1>2, <1>4, <2>1 DEF CInv, OneLiveCodeIfCalm
<1>7. WrongCodesCounted' /\ CodeUsedOnce'
  BY <1>2, <1>3 DEF CInv, WrongCodesCounted, CodeUsedOnce
<1> QED
  BY <1>2, <1>3, <1>5, <1>6, <1>7 DEF CInv

(* A call of request h after which it goes on or leaves: of the rows at    *)
(* most that of its code changes, and that row keeps its number.           *)
LEMMA CallCalm ==
  ASSUME CInv, TypeOK', InHand', NEW h \in Handlers, InFlight(h),
         request[h].pc # "create",
         UNCHANGED overlapped,
         \A g \in Handlers : g # h => request'[g] = request[g],
         InFlight(h)' => /\ request'[h].mobile = request[h].mobile
                         /\ request'[h].otp = request[h].otp
                         /\ request'[h].pc \in
                              {"customer", "register", "welcome", "issueTokens"},
         Indices' = Indices,
         \A i \in Indices : i # request[h].otp =>
           /\ otpRequests'[i] = otpRequests[i]
           /\ sessions'[i] = sessions[i] /\ wrong'[i] = wrong[i],
         LET i == request[h].otp IN
           /\ otpRequests'[i].mobile = otpRequests[i].mobile
           /\ otpRequests[i].consumed => otpRequests'[i].consumed
           /\ Calm(request[h].mobile) /\ InFlight(h)' =>
                otpRequests'[i].consumed /\ sessions'[i] = 0
           /\ Calm(request[h].mobile) =>
                /\ ~otpRequests'[i].expired =>
                     otpRequests'[i].attempts = wrong'[i]
                /\ sessions'[i] <= IF otpRequests'[i].consumed THEN 1 ELSE 0
  PROVE  CInv'
<1> DEFINE o == request[h].otp
           m == request[h].mobile
<1>1. /\ OneAtATime'
      /\ \A k : Calm(k)' <=> Calm(k)
      /\ \A g \in Handlers : /\ InFlight(g)' => InFlight(g)
                             /\ g # h /\ InFlight(g) => InFlight(g)'
      /\ \A g \in Handlers :
           g # h /\ InFlight(g) /\ Calm(request[g].mobile) =>
             request[g].mobile # m
  BY OthersStay
<1>2. o \in Indices /\ otpRequests[o].mobile = m
  BY DEF CInv, InHand
<1>3. \A k : /\ Live(k)' \subseteq Live(k)
             /\ k # m => Live(k)' = Live(k)
  BY <1>2 DEF Live
<1>4. Current'
  <2> SUFFICES ASSUME NEW g \in Handlers, InFlight(g)', Calm(request[g].mobile),
                      g # h
               PROVE  LET i == request[g].otp IN
                 /\ request[g].pc = "create" => Live(request[g].mobile)' = {}
                 /\ request[g].pc \in {"count", "consume"} =>
                      ~otpRequests'[i].consumed
                 /\ request[g].pc = "count" =>
                      request[g].attempts = otpRequests'[i].attempts
                 /\ request[g].pc \in {"customer", "register", "welcome",
                                       "issueTokens"} =>
                      otpRequests'[i].consumed /\ sessions'[i] = 0
    BY <1>1 DEF Current
  <2>1. InFlight(g) /\ request[g].mobile # m
    BY <1>1
  <2>2. request[g].pc # "create" =>
          /\ otpRequests'[request[g].otp] = otpRequests[request[g].otp]
          /\ sessions'[request[g].otp] = sessions[request[g].otp]
    BY <1>2, <2>1 DEF CInv, InHand
  <2> QED
    BY <1>3, <2>1, <2>2 DEF CInv, Current
<1>5. OneLiveCodeIfCalm'
  BY <1>1, <1>3 DEF CInv, OneLiveCodeIfCalm
<1>6. WrongCodesCounted' /\ CodeUsedOnce'
  BY <1>1, <1>2 DEF CInv, WrongCodesCounted, CodeUsedOnce
<1> QED
  BY <1>1, <1>4, <1>5, <1>6 DEF CInv

LEMMA OneMoves ==
  ASSUME TypeOK, InHand, NEW h \in Handlers, InFlight(h), request[h].pc # "create",
         \/ Answer(h)
         \/ \E call \in {"customer", "register", "welcome", "issueTokens"} :
              Goto(h, call)
  PROVE  /\ \A g \in Handlers : g # h => request'[g] = request[g]
         /\ InFlight(h)' =>
              /\ request'[h].mobile = request[h].mobile
              /\ request'[h].otp = request[h].otp
              /\ request'[h].pc \in
                   {"customer", "register", "welcome", "issueTokens"}
         /\ Answer(h) => ~InFlight(h)'
<1>1. /\ request[h] \in Verifying
      /\ request \in [Handlers -> {Idle} \cup Requesting \cup Verifying]
  BY RequestShape DEF TypeOK
<1>2. CASE Answer(h)
  BY <1>1, <1>2 DEF Answer, InFlight
<1>3. ASSUME NEW call \in {"customer", "register", "welcome", "issueTokens"},
             Goto(h, call)
      PROVE  /\ \A g \in Handlers : g # h => request'[g] = request[g]
             /\ request'[h].mobile = request[h].mobile
             /\ request'[h].otp = request[h].otp
             /\ request'[h].pc = call
             /\ ~Answer(h)
  <2>1. /\ \A g \in Handlers : g # h => request'[g] = request[g]
        /\ request'[h] = [request[h] EXCEPT !.pc = call]
    BY <1>1, <1>3 DEF Goto
  <2>2. /\ request'[h].mobile = request[h].mobile
        /\ request'[h].otp = request[h].otp
        /\ request'[h].pc = call
    BY <1>1, <2>1 DEF Verifying
  <2>3. Answer(h) => request'[h].pc = "idle"
    BY <1>1 DEF Answer, Idle
  <2> QED
    BY <2>1, <2>2, <2>3
<1> QED
  BY <1>2, <1>3

LEMMA CallsCalm ==
  ASSUME CInv, TypeOK', InHand', NEW h \in Handlers,
         \/ saveAttempts(h) \/ saveConsumed(h) \/ findCustomer(h)
         \/ register(h) \/ welcome(h) \/ issueTokens(h)
         \/ fail(h) /\ ~At(h, "create")
  PROVE  CInv'
<1> DEFINE o == request[h].otp
           m == request[h].mobile
<1>1. /\ InFlight(h) /\ request[h].pc # "create" /\ UNCHANGED overlapped
      /\ \/ Answer(h)
         \/ \E call \in {"customer", "register", "welcome", "issueTokens"} :
              Goto(h, call)
  BY DEF saveAttempts, saveConsumed, findCustomer, register, welcome,
     issueTokens, fail, At
<1>2. /\ \A g \in Handlers : g # h => request'[g] = request[g]
      /\ InFlight(h)' =>
           /\ request'[h].mobile = m
           /\ request'[h].otp = o
           /\ request'[h].pc \in
                {"customer", "register", "welcome", "issueTokens"}
      /\ Answer(h) => ~InFlight(h)'
  BY <1>1, OneMoves DEF CInv
<1>3. /\ o \in Indices /\ otpRequests \in [Indices -> OtpRequest]
      /\ otpRequests[o].mobile = m /\ otpRequests[o].consumed \in BOOLEAN
      /\ sessions \in [Indices -> Nat] /\ wrong \in [Indices -> Nat]
  BY <1>1, RowFacts DEF CInv, InHand, TypeOK
<1>4. Calm(m) =>
        /\ ~otpRequests[o].expired => otpRequests[o].attempts = wrong[o]
        /\ sessions[o] <= IF otpRequests[o].consumed THEN 1 ELSE 0
        /\ request[h].pc \in {"count", "consume"} => ~otpRequests[o].consumed
        /\ request[h].pc = "count" =>
             request[h].attempts = otpRequests[o].attempts
        /\ request[h].pc \in {"customer", "register", "welcome", "issueTokens"} =>
             otpRequests[o].consumed /\ sessions[o] = 0
  BY <1>1, <1>3 DEF CInv, Current, WrongCodesCounted, CodeUsedOnce
<1>5. CASE \/ UNCHANGED <<otpRequests, sessions, wrong>>
           /\ \/ Answer(h)
              \/ request[h].pc \in
                   {"customer", "register", "welcome", "issueTokens"}
  <2>1. Indices' = Indices
    BY <1>5 DEF Indices
  <2> HIDE DEF o, m
  <2>2. Calm(m) /\ InFlight(h)' => otpRequests'[o].consumed /\ sessions'[o] = 0
    BY <1>2, <1>4, <1>5
  <2> USE DEF o, m
  <2> QED
    BY <1>1, <1>2, <1>4, <1>5, <2>1, <2>2, CallCalm
<1>6. CASE saveAttempts(h)
  <2>1. PICK row \in OtpRequest :
          /\ otpRequests' = [otpRequests EXCEPT ![o] = row]
          /\ row.mobile = m
          /\ otpRequests[o].consumed => row.consumed
          /\ row.consumed = otpRequests[o].consumed
          /\ Calm(m) /\ ~row.expired => row.attempts = wrong[o] + 1
    <3>1. CASE UNCHANGED otpRequests /\ Removed(h)
      BY <1>3, <3>1 DEF Removed
    <3>2. CASE otpRequests' = [otpRequests EXCEPT ![o].attempts = count(h)]
      <4> DEFINE row == [otpRequests[o] EXCEPT !.attempts = count(h)]
      <4>1. request[h].attempts \in Nat /\ request[h].pc = "count"
        BY <1>1, <1>6, RequestShape DEF saveAttempts, At, CInv, Verifying
      <4>2. otpRequests[o] \in OtpRequest /\ count(h) = request[h].attempts + 1
        BY <1>3 DEF count
      <4>3. /\ row \in OtpRequest /\ row.mobile = m
            /\ row.consumed = otpRequests[o].consumed
            /\ row.expired = otpRequests[o].expired
            /\ row.attempts = request[h].attempts + 1
        BY <1>3, <4>1, <4>2 DEF OtpRequest
      <4>4. Calm(m) /\ ~row.expired => row.attempts = wrong[o] + 1
        BY <1>4, <4>1, <4>3
      <4>5. otpRequests' = [otpRequests EXCEPT ![o] = row]
        BY <1>3, <3>2
      <4> QED
        BY <4>3, <4>4, <4>5
    <3> QED
      BY <1>6, <3>1, <3>2 DEF saveAttempts
  <2>2. /\ wrong'[o] = wrong[o] + 1 /\ UNCHANGED sessions /\ ~InFlight(h)'
        /\ \A i \in Indices : i # o => wrong'[i] = wrong[i]
    BY <1>2, <1>3, <1>6 DEF saveAttempts
  <2>3. /\ Indices' = Indices /\ otpRequests'[o] = row
        /\ \A i \in Indices : i # o => otpRequests'[i] = otpRequests[i]
    BY <1>3, <2>1 DEF Indices
  <2> QED
    BY <1>1, <1>2, <1>3, <1>4, <2>1, <2>2, <2>3, CallCalm
<1>7. CASE /\ saveConsumed(h) /\ Goto(h, "customer")
           /\ otpRequests' = [otpRequests EXCEPT ![o].consumed = TRUE]
  <2>1. /\ Indices' = Indices
        /\ otpRequests'[o].mobile = otpRequests[o].mobile
        /\ otpRequests'[o].consumed
        /\ otpRequests'[o].attempts = otpRequests[o].attempts
        /\ otpRequests'[o].expired = otpRequests[o].expired
        /\ \A i \in Indices : i # o => otpRequests'[i] = otpRequests[i]
    BY <1>3, <1>7 DEF Indices, OtpRequest
  <2>2. UNCHANGED <<sessions, wrong>> /\ request[h].pc = "consume"
    BY <1>7 DEF saveConsumed, At
  <2>3. Calm(m) => sessions[o] = 0
    BY <1>3, <1>4, <2>2
  <2> QED
    BY <1>1, <1>2, <1>3, <1>4, <2>1, <2>2, <2>3, CallCalm
<1>8. CASE issueTokens(h)
  <2>1. /\ Indices' = Indices /\ UNCHANGED <<otpRequests, wrong>>
        /\ sessions'[o] = sessions[o] + 1 /\ ~InFlight(h)'
        /\ \A i \in Indices : i # o => sessions'[i] = sessions[i]
        /\ request[h].pc = "issueTokens"
    BY <1>2, <1>3, <1>8 DEF issueTokens, Indices, At
  <2>2. Calm(m) => sessions'[o] = 1 /\ otpRequests'[o].consumed
    BY <1>4, <2>1
  <2> QED
    BY <1>1, <1>2, <1>3, <1>4, <2>1, <2>2, CallCalm
<1> QED
  BY <1>1, <1>5, <1>6, <1>7, <1>8
  DEF saveConsumed, findCustomer, register, welcome, fail, At

LEMMA CalmStep ==
  ASSUME CInv, [Next]_vars
  PROVE  CInv'
<1>1. TypeOK' /\ InHand'
  BY TypeStep DEF CInv
<1>2. CASE UNCHANGED vars
  <2>1. /\ UNCHANGED <<otpRequests, request, sessions, wrong, overlapped>>
        /\ Indices' = Indices
    BY <1>2 DEF vars, Indices
  <2> QED
    BY <1>1, <2>1
    DEF CInv, OneAtATime, Current, OneLiveCodeIfCalm, WrongCodesCounted,
        CodeUsedOnce, Live, Calm, InFlight
<1>3. ASSUME NEW h \in Handlers, fail(h), At(h, "create")
      PROVE  CInv'
  <2>1. /\ InFlight(h) /\ ~InFlight(h)'
        /\ \A g \in Handlers : g # h => request'[g] = request[g]
        /\ UNCHANGED <<otpRequests, sessions, wrong, overlapped>>
    BY <1>3 DEF fail, Answer, CInv, TypeOK, InFlight
  <2>2. /\ Indices' = Indices /\ OneAtATime'
        /\ \A k : Calm(k)' <=> Calm(k)
        /\ \A g \in Handlers : InFlight(g)' => InFlight(g)
    BY <2>1, OthersStay DEF Indices
  <2> QED
    BY <1>1, <2>1, <2>2
    DEF CInv, Current, OneLiveCodeIfCalm, WrongCodesCounted, CodeUsedOnce, Live
<1>4. ASSUME NEW i \in Indices, expire(i)
      PROVE  CInv'
  <2>1. /\ Indices' = Indices
        /\ \A j \in Indices :
             /\ otpRequests'[j].mobile = otpRequests[j].mobile
             /\ otpRequests'[j].consumed = otpRequests[j].consumed
             /\ otpRequests'[j].attempts = otpRequests[j].attempts
             /\ otpRequests[j].expired => otpRequests'[j].expired
        /\ UNCHANGED <<request, sessions, wrong, overlapped>>
    BY <1>4, RowFacts DEF expire, Indices, CInv, OtpRequest
  <2>2. \A k : Live(k)' = Live(k)
    BY <2>1 DEF Live
  <2>3. /\ \A k : Calm(k)' <=> Calm(k)
        /\ \A g \in Handlers : InFlight(g)' <=> InFlight(g)
    BY <2>1 DEF Calm, InFlight
  <2>4. OneAtATime' /\ OneLiveCodeIfCalm' /\ WrongCodesCounted' /\ CodeUsedOnce'
    BY <2>1, <2>2, <2>3
    DEF CInv, OneAtATime, OneLiveCodeIfCalm, WrongCodesCounted, CodeUsedOnce
  <2>5. Current'
    <3> SUFFICES ASSUME NEW g \in Handlers, InFlight(g), Calm(request[g].mobile)
                 PROVE  LET j == request[g].otp IN
                   /\ request[g].pc = "create" => Live(request[g].mobile)' = {}
                   /\ request[g].pc \in {"count", "consume"} =>
                        ~otpRequests'[j].consumed
                   /\ request[g].pc = "count" =>
                        request[g].attempts = otpRequests'[j].attempts
                   /\ request[g].pc \in {"customer", "register", "welcome",
                                         "issueTokens"} =>
                        otpRequests'[j].consumed /\ sessions'[j] = 0
      BY <2>1, <2>3 DEF Current
    <3>1. request[g].pc # "create" => request[g].otp \in Indices
      BY DEF CInv, InHand
    <3>2. Live(request[g].mobile)' = Live(request[g].mobile)
      BY <2>1 DEF Live
    <3> QED
      BY <2>1, <3>1, <3>2 DEF CInv, Current
  <2> QED
    BY <1>1, <2>4, <2>5 DEF CInv
<1>5. CASE \E m \in Mobiles : refuse(m)
  BY <1>2, <1>5 DEF refuse
<1> QED
  BY <1>1, <1>2, <1>3, <1>4, <1>5, RequestOtpCalm, VerifyOtpCalm, CreateCalm,
     CallsCalm DEF Next

-----------------------------------------------------------------------------
(* Welcomes *)

WInv == Welcoming /\ IsFiniteSet(Missing) /\ WelcomedOnce

LEMMA WelcomedOnceMeans ==
  WelcomedOnce <=>
    /\ \A m \in Mobiles : welcomes[m] <= IF m \in customers THEN 1 ELSE 0
    /\ Cardinality(Missing) <= failures
  BY DEF WelcomedOnce, Missing

(* No one comes to the welcome and no one goes from it.                    *)
LEMMA WelcomesStay ==
  ASSUME TypeOK, WInv, UNCHANGED <<customers, welcomes>>,
         failures' \in Nat, failures <= failures',
         \A g \in Handlers :
           /\ At(g, "welcome")' <=> At(g, "welcome")
           /\ At(g, "welcome") => request'[g] = request[g]
  PROVE  WInv'
<1>1. Missing' = Missing
  BY DEF Missing, BusyWith, At
<1>2. Welcoming'
  BY DEF WInv, Welcoming
<1>3. Cardinality(Missing) \in Nat /\ failures \in Nat
  BY FS_CardinalityType, BoundsAssumption DEF WInv, TypeOK
<1>4. WelcomedOnce'
  <2>1. Cardinality(Missing') <= failures'
    BY <1>1, <1>3, WelcomedOnceMeans DEF WInv
  <2>2. \A m \in Mobiles : welcomes'[m] <= IF m \in customers' THEN 1 ELSE 0
    BY WelcomedOnceMeans DEF WInv
  <2> QED
    BY <2>1, <2>2 DEF WelcomedOnce, Missing
<1> QED
  BY <1>1, <1>2, <1>4 DEF WInv

LEMMA RegisterWelcomes ==
  ASSUME TypeOK, InHand, WInv, NEW h \in Handlers, register(h)
  PROVE  WInv'
<1> DEFINE m == request[h].mobile
<1>1. /\ At(h, "register") /\ m \in Mobiles /\ InFlight(h)
      /\ UNCHANGED <<welcomes, failures>> /\ failures \in Nat
  BY RequestShape, BoundsAssumption DEF register, At, TypeOK
<1>2. request[h].pc = "register" /\ request[h].pc # "create"
  BY <1>1 DEF At
<1>3. CASE Answer(h) /\ UNCHANGED customers
  <2>1. /\ \A g \in Handlers : g # h => request'[g] = request[g]
        /\ ~InFlight(h)'
    BY <1>1, <1>2, <1>3, OneMoves
  <2>2. \A g \in Handlers :
          /\ At(g, "welcome")' <=> At(g, "welcome")
          /\ At(g, "welcome") => request'[g] = request[g]
    BY <1>2, <2>1 DEF At, InFlight
  <2> QED
    BY <1>1, <1>3, <2>2, WelcomesStay
<1>4. CASE /\ m \notin customers /\ customers' = customers \cup {m}
           /\ Goto(h, "welcome")
  <2>1. /\ \A g \in Handlers : g # h => request'[g] = request[g]
        /\ At(h, "welcome")' /\ InFlight(h)' /\ request'[h].mobile = m
    <3>1. /\ request[h] \in Verifying
          /\ request \in [Handlers -> {Idle} \cup Requesting \cup Verifying]
      BY <1>1, <1>2, RequestShape DEF TypeOK
    <3>2. /\ \A g \in Handlers : g # h => request'[g] = request[g]
          /\ request'[h] = [request[h] EXCEPT !.pc = "welcome"]
      BY <1>4, <3>1 DEF Goto
    <3>3. request'[h].pc = "welcome" /\ request'[h].mobile = m
      BY <3>1, <3>2 DEF Verifying
    <3>4. request'[h] # Idle
      BY <3>3 DEF Idle
    <3> QED
      BY <3>2, <3>3, <3>4 DEF At, InFlight
  <2>2. welcomes[m] = 0
    BY <1>1, <1>4, WelcomedOnceMeans DEF WInv, TypeOK
  <2>3. \A g \in Handlers : At(g, "welcome") => request[g].mobile # m
    BY <1>4 DEF WInv, Welcoming
  <2>4. \A g \in Handlers : At(g, "welcome")' <=> At(g, "welcome") \/ g = h
    BY <2>1 DEF At, InFlight
  <2> HIDE DEF m
  <2>5. Welcoming'
    BY <1>1, <1>4, <2>1, <2>2, <2>3, <2>4 DEF WInv, Welcoming
  <2>6. Missing' = Missing
    <3>1. \A k \in customers : k # m =>
            ((\E g \in BusyWith(k) : At(g, "welcome"))' <=>
               (\E g \in BusyWith(k) : At(g, "welcome")))
      <4> SUFFICES ASSUME NEW k \in customers, k # m
                   PROVE  (\E g \in BusyWith(k) : At(g, "welcome"))' <=>
                            (\E g \in BusyWith(k) : At(g, "welcome"))
        OBVIOUS
      <4>1. \A g \in Handlers : InFlight(g)' <=> InFlight(g) \/ g = h
        BY <2>1 DEF InFlight
      <4>2. request[h].mobile = m
        BY DEF m
      <4> QED
        BY <2>1, <2>4, <4>1, <4>2 DEF BusyWith
    <3>2. m \notin Missing /\ m \notin Missing'
      BY <1>4, <2>1 DEF Missing, BusyWith
    <3>3. \A k \in customers : k # m => (k \in Missing <=> k \in Missing')
      BY <1>1, <1>4, <3>1 DEF Missing
    <3> QED
      BY <1>4, <3>2, <3>3 DEF Missing
  <2>7. WelcomedOnce'
    <3>1. \A k \in Mobiles : welcomes'[k] <= IF k \in customers' THEN 1 ELSE 0
      BY <1>1, <1>4, <2>2, WelcomedOnceMeans DEF WInv
    <3>2. Cardinality(Missing') <= failures'
      BY <1>1, <2>6, WelcomedOnceMeans DEF WInv
    <3> QED
      BY <3>1, <3>2 DEF WelcomedOnce, Missing
  <2> QED
    BY <2>5, <2>6, <2>7 DEF WInv
<1> QED
  BY <1>3, <1>4 DEF register, registered

LEMMA WelcomeWelcomes ==
  ASSUME TypeOK, InHand, WInv, NEW h \in Handlers, welcome(h)
  PROVE  WInv'
<1> DEFINE m == request[h].mobile
<1>1. /\ At(h, "welcome") /\ m \in Mobiles /\ InFlight(h)
      /\ UNCHANGED <<customers, failures>> /\ failures \in Nat
      /\ request[h].pc = "welcome"
  BY RequestShape, BoundsAssumption DEF welcome, At, TypeOK
<1>2. m \in customers /\ welcomes[m] = 0
  BY <1>1 DEF WInv, Welcoming
<1>3. /\ welcomes'[m] = 1
      /\ \A k \in Mobiles : k # m => welcomes'[k] = welcomes[k]
  BY <1>1, <1>2 DEF welcome, TypeOK
<1>4. /\ \A g \in Handlers : g # h => request'[g] = request[g]
      /\ request'[h].pc = "issueTokens" /\ request'[h].mobile = m
  <2>1. /\ request[h] \in Verifying
        /\ request \in [Handlers -> {Idle} \cup Requesting \cup Verifying]
    BY <1>1, RequestShape DEF TypeOK
  <2>2. /\ \A g \in Handlers : g # h => request'[g] = request[g]
        /\ request'[h] = [request[h] EXCEPT !.pc = "issueTokens"]
    BY <2>1 DEF Goto, welcome
  <2> QED
    BY <2>1, <2>2 DEF Verifying
<1>5. /\ \A g \in Handlers : At(g, "welcome")' <=> At(g, "welcome") /\ g # h
      /\ \A g \in Handlers : InFlight(g)' <=> InFlight(g)
  BY <1>1, <1>4 DEF At, InFlight, Idle
<1>6. \A g \in Handlers : At(g, "welcome") /\ g # h => request[g].mobile # m
  BY <1>1 DEF WInv, Welcoming
<1>7. \A g \in Handlers : At(g, "welcome") => request[g].mobile \in Mobiles
  BY RequestShape DEF At
<1> HIDE DEF m
<1>8. Welcoming'
  BY <1>1, <1>3, <1>4, <1>5, <1>6, <1>7 DEF WInv, Welcoming
<1>9. Missing' = Missing
  <2>1. \A k \in customers : k # m =>
          ((\E g \in BusyWith(k) : At(g, "welcome"))' <=>
             (\E g \in BusyWith(k) : At(g, "welcome")))
    <3> SUFFICES ASSUME NEW k \in customers, k # m
                 PROVE  (\E g \in BusyWith(k) : At(g, "welcome"))' <=>
                          (\E g \in BusyWith(k) : At(g, "welcome"))
      OBVIOUS
    <3>1. request[h].mobile = m
      BY DEF m
    <3> QED
      BY <1>4, <1>5, <3>1 DEF BusyWith
  <2>2. \E g \in BusyWith(m) : At(g, "welcome")
    BY <1>1 DEF BusyWith, m
  <2>3. \A k \in customers : k \in Mobiles
    BY DEF TypeOK
  <2> QED
    BY <1>1, <1>2, <1>3, <2>1, <2>2, <2>3 DEF Missing
<1>10. WelcomedOnce'
  <2>1. \A k \in Mobiles : welcomes'[k] <= IF k \in customers' THEN 1 ELSE 0
    BY <1>1, <1>2, <1>3, WelcomedOnceMeans DEF WInv
  <2>2. Cardinality(Missing') <= failures'
    BY <1>1, <1>9, WelcomedOnceMeans DEF WInv
  <2> QED
    BY <2>1, <2>2 DEF WelcomedOnce, Missing
<1> QED
  BY <1>8, <1>9, <1>10 DEF WInv

(* The request that is lost before its welcome leaves one customer more    *)
(* without one.                                                            *)
LEMMA FailWelcomes ==
  ASSUME TypeOK, InHand, WInv, NEW h \in Handlers, fail(h)
  PROVE  WInv'
<1> DEFINE m == request[h].mobile
<1>1. /\ InFlight(h) /\ ~InFlight(h)' /\ m \in Mobiles
      /\ \A g \in Handlers : g # h => request'[g] = request[g]
      /\ UNCHANGED <<customers, welcomes>>
      /\ failures' = failures + 1 /\ failures \in Nat
  BY RequestShape, BoundsAssumption DEF fail, Answer, TypeOK, InFlight
<1>2. CASE ~At(h, "welcome")
  <2>1. \A g \in Handlers :
          /\ At(g, "welcome")' <=> At(g, "welcome")
          /\ At(g, "welcome") => request'[g] = request[g]
    BY <1>1, <1>2 DEF At, InFlight
  <2> QED
    BY <1>1, <2>1, WelcomesStay
<1>3. CASE At(h, "welcome")
  <2>1. \A g \in Handlers : At(g, "welcome")' <=> At(g, "welcome") /\ g # h
    BY <1>1 DEF At, InFlight
  <2>2. Welcoming'
    BY <1>1, <2>1 DEF WInv, Welcoming
  <2>3. Missing' \subseteq Missing \cup {m}
    <3> SUFFICES ASSUME NEW k \in customers, welcomes[k] = 0, k # m,
                        NEW g \in BusyWith(k), At(g, "welcome")
                 PROVE  (\E f \in BusyWith(k) : At(f, "welcome"))'
      BY <1>1 DEF Missing
    <3>1. g \in Handlers /\ InFlight(g) /\ request[g].mobile = k /\ g # h
      BY DEF BusyWith
    <3>2. At(g, "welcome")' /\ InFlight(g)' /\ request'[g].mobile = k
      BY <1>1, <2>1, <3>1 DEF InFlight
    <3> QED
      BY <3>1, <3>2 DEF BusyWith
  <2>4. /\ IsFiniteSet(Missing \cup {m})
        /\ Cardinality(Missing \cup {m}) <= Cardinality(Missing) + 1
        /\ Cardinality(Missing) \in Nat
    <3>1. IsFiniteSet(Missing)
      BY DEF WInv
    <3>2. Cardinality(Missing) \in Nat
      BY <3>1, FS_CardinalityType
    <3> QED
      BY <3>1, <3>2, FS_AddElement
  <2>5. /\ IsFiniteSet(Missing')
        /\ Cardinality(Missing') <= Cardinality(Missing \cup {m})
        /\ Cardinality(Missing') \in Nat
        /\ Cardinality(Missing \cup {m}) \in Nat
    BY <2>3, <2>4, FS_Subset, FS_CardinalityType
  <2>6. Cardinality(Missing') <= failures'
    <3>1. Cardinality(Missing) <= failures
      BY WelcomedOnceMeans DEF WInv
    <3> QED
      BY <1>1, <2>4, <2>5, <3>1
  <2>7. WelcomedOnce'
    <3>1. \A k \in Mobiles : welcomes'[k] <= IF k \in customers' THEN 1 ELSE 0
      BY <1>1, WelcomedOnceMeans DEF WInv
    <3> QED
      BY <2>6, <3>1 DEF WelcomedOnce, Missing
  <2> QED
    BY <2>2, <2>5, <2>7 DEF WInv
<1> QED
  BY <1>2, <1>3

LEMMA WelcomeStep ==
  ASSUME TypeOK, InHand, WInv, [Next]_vars
  PROVE  WInv'
<1>1. failures \in Nat
  BY BoundsAssumption DEF TypeOK
<1>2. CASE UNCHANGED vars
  BY <1>1, <1>2, WelcomesStay DEF vars, At, InFlight
<1>3. ASSUME NEW h \in Handlers, NEW m \in Mobiles,
             requestOtp(h, m) \/ \E code \in Codes : verifyOtp(h, m, code)
      PROVE  WInv'
  <2>1. /\ ~InFlight(h) /\ UNCHANGED <<customers, welcomes, failures>>
        /\ \A g \in Handlers : g # h => request'[g] = request[g]
        /\ request'[h].pc # "welcome"
    BY <1>3 DEF requestOtp, verifyOtp, TypeOK
  <2>2. \A g \in Handlers :
          /\ At(g, "welcome")' <=> At(g, "welcome")
          /\ At(g, "welcome") => request'[g] = request[g]
    BY <2>1 DEF At, InFlight
  <2> QED
    BY <1>1, <2>1, <2>2, WelcomesStay
<1>4. ASSUME NEW h \in Handlers,
             \/ create(h) \/ saveAttempts(h) \/ saveConsumed(h)
             \/ findCustomer(h) \/ issueTokens(h)
      PROVE  WInv'
  <2>1. /\ UNCHANGED <<customers, welcomes, failures>>
        /\ ~At(h, "welcome") /\ ~At(h, "welcome")'
        /\ \A g \in Handlers : g # h => request'[g] = request[g]
    <3>1. CASE Answer(h) /\ InFlight(h)
      BY <1>4, <3>1 DEF create, saveAttempts, saveConsumed, findCustomer,
         issueTokens, Answer, At, InFlight, TypeOK
    <3>2. CASE saveConsumed(h) /\ Goto(h, "customer")
      BY <3>2 DEF saveConsumed, Goto, At, InFlight, TypeOK
    <3>3. CASE findCustomer(h)
      BY <3>3 DEF findCustomer, Goto, At, InFlight, TypeOK
    <3> QED
      BY <1>4, <3>1, <3>2, <3>3
      DEF create, saveAttempts, saveConsumed, issueTokens, At
  <2>2. \A g \in Handlers :
          /\ At(g, "welcome")' <=> At(g, "welcome")
          /\ At(g, "welcome") => request'[g] = request[g]
    BY <2>1 DEF At, InFlight
  <2> QED
    BY <1>1, <2>1, <2>2, WelcomesStay
<1>5. ASSUME NEW i \in Indices, expire(i)
      PROVE  WInv'
  BY <1>1, <1>5, WelcomesStay DEF expire, At, InFlight
<1>6. CASE \E m \in Mobiles : refuse(m)
  BY <1>2, <1>6 DEF refuse
<1> QED
  BY <1>2, <1>3, <1>4, <1>5, <1>6, RegisterWelcomes, WelcomeWelcomes,
     FailWelcomes DEF Next

-----------------------------------------------------------------------------
(* The theorems *)

LEMMA Invariance == Spec => []IInv
<1>1. IInv /\ [Next]_vars => IInv'
  BY TypeStep, CalmStep, WelcomeStep DEF IInv, CInv, WInv
<1> QED
  BY <1>1, InitEstablishes, PTL DEF Spec

(* The types, and no counter passes the limit however many requests        *)
(* compare codes at the same time.                                         *)
THEOREM TypeCorrect == Spec => []TypeOK
  BY Invariance, PTL DEF IInv

(* At most one code is live for a number whose requests never met:         *)
(* requestOtp retires the others before it inserts one.                    *)
THEOREM AtMostOneLiveCode == Spec => []OneLiveCodeIfCalm
  BY Invariance, PTL DEF IInv

(* Its counter is exact: verifyOtp answers no wrong code that it does not  *)
(* count.                                                                  *)
THEOREM NoWrongCodeIsLost == Spec => []WrongCodesCounted
  BY Invariance, PTL DEF IInv

(* Its codes start a session each at most, as verifyOtp uses a code up     *)
(* before it does anything else.                                           *)
THEOREM CodesWorkOnce == Spec => []CodeUsedOnce
  BY Invariance, PTL DEF IInv

(* Nobody is welcomed twice, by overlapping first sign-ins either, and as  *)
(* many customers miss their welcome as requests were lost, at most.       *)
THEOREM OneWelcomeEach == Spec => []WelcomedOnce
  BY Invariance, PTL DEF IInv
=============================================================================
