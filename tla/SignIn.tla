------------------------------- MODULE SignIn -------------------------------
(***************************************************************************)
(* How a customer signs in with a mobile number and a code: requestOtp and *)
(* verifyOtp (src/auth/auth.service.ts), down to the session that          *)
(* issueTokens starts.                                                     *)
(*                                                                         *)
(* requestOtp is two database calls, verifyOtp up to five.  A code that is *)
(* found is loaded, changed in memory and saved; everything read before a  *)
(* call may have changed when the call is made.                            *)
(***************************************************************************)
EXTENDS Naturals, Sequences, FiniteSets

CONSTANTS
  Mobiles,
  Codes,            \* codes that can be drawn or typed in
  Handlers,         \* requests that can be in flight at a time
  MaxAttempts,      \* wrong codes that are compared, 5 in the program
  MaxCodes,         \* bound: codes sent
  MaxFailures       \* bound: requests lost to a failed call or a crash

ASSUME BoundsAssumption ==
  MaxAttempts \in Nat /\ MaxCodes \in Nat /\ MaxFailures \in Nat

VARIABLES
  otpRequests,      \* otp_requests, in the order of creation
  customers,        \* mobile numbers that have an account
  welcomes,         \* welcome notifications of each customer
  request,          \* the requests in flight
  sessions,         \* history: sessions each code has started
  wrong,            \* history: wrong codes answered for each one
  overlapped,       \* history: numbers with two requests in flight at once
  failures          \* history: requests lost

vars == <<otpRequests, customers, welcomes, request, sessions, wrong,
          overlapped, failures>>

-----------------------------------------------------------------------------
(* Data *)

Indices == DOMAIN otpRequests

OtpRequest == [mobile : Mobiles, code : Codes, attempts : Nat,
               consumed : BOOLEAN, expired : BOOLEAN]

Idle == [pc |-> "idle"]

Requesting == [pc : {"create"}, mobile : Mobiles]

(* otp is the code that was loaded, attempts the counter it had then.      *)
Verifying == [pc : {"count", "consume", "customer", "register", "welcome",
                    "issueTokens"},
              mobile : Mobiles, otp : Nat, attempts : Nat]

InFlight(h) == request[h] # Idle

At(h, call) == InFlight(h) /\ request[h].pc = call

BusyWith(m) == {h \in Handlers : InFlight(h) /\ request[h].mobile = m}

Calm(m) == m \notin overlapped

Live(m) == {i \in Indices : otpRequests[i].mobile = m
                            /\ ~otpRequests[i].consumed}

-----------------------------------------------------------------------------
(* Steps *)

Init ==
  /\ otpRequests = << >>
  /\ customers = {}
  /\ welcomes = [m \in Mobiles |-> 0]
  /\ request = [h \in Handlers |-> Idle]
  /\ sessions = << >> /\ wrong = << >>
  /\ overlapped = {}
  /\ failures = 0

Goto(h, call) == request' = [request EXCEPT ![h] = [@ EXCEPT !.pc = call]]

Answer(h) == request' = [request EXCEPT ![h] = Idle]

NoteOverlap(m) ==
  overlapped' = IF BusyWith(m) # {} THEN overlapped \cup {m} ELSE overlapped

retired_none(m) == otpRequests

(* updateMany: the codes of the number that are still live are used up.    *)
retired(m) ==
  [i \in Indices |-> IF i \in Live(m)
                     THEN [otpRequests[i] EXCEPT !.consumed = TRUE]
                     ELSE otpRequests[i]]

requestOtp(h, m) ==
  /\ ~InFlight(h)
  /\ Len(otpRequests) + Cardinality({g \in Handlers : At(g, "create")})
       < MaxCodes
  /\ otpRequests' = retired(m)
  /\ request' = [request EXCEPT ![h] = [pc |-> "create", mobile |-> m]]
  /\ NoteOverlap(m)
  /\ UNCHANGED <<customers, welcomes, sessions, wrong, failures>>

(* The insert of a code drawn at random, or fixed in development.          *)
create(h) ==
  /\ At(h, "create")
  /\ \E code \in Codes :
       otpRequests' = Append(otpRequests,
         [mobile |-> request[h].mobile, code |-> code, attempts |-> 0,
          consumed |-> FALSE, expired |-> FALSE])
  /\ sessions' = Append(sessions, 0)
  /\ wrong' = Append(wrong, 0)
  /\ Answer(h)
  /\ UNCHANGED <<customers, welcomes, overlapped, failures>>

(* findOne, newest first: the last of the live codes, if there is one.     *)
Found(m) == {i \in Live(m) : \A j \in Live(m) : j <= i}

Usable_unlimited(i) == ~otpRequests[i].expired

Usable(i) ==
  ~otpRequests[i].expired /\ otpRequests[i].attempts < MaxAttempts

(* verifyOtp: the code that was found, the checks and the comparison with  *)
(* the code that was typed in.                                             *)
verifyOtp(h, m, code) ==
  /\ ~InFlight(h)
  /\ \E i \in Found(m) :
       /\ Usable(i)
       /\ request' = [request EXCEPT ![h] =
             [pc |-> IF otpRequests[i].code = code THEN "consume" ELSE "count",
              mobile |-> m, otp |-> i, attempts |-> otpRequests[i].attempts]]
  /\ NoteOverlap(m)
  /\ UNCHANGED <<otpRequests, customers, welcomes, sessions, wrong, failures>>

(* Otherwise the request is refused, and nothing changes.                  *)
refuse(m) == (\A i \in Found(m) : ~Usable(i)) /\ UNCHANGED vars

(* A code that expired may have been removed by the index on expiresAt,    *)
(* and the save of it rejects.                                             *)
Removed(h) == otpRequests[request[h].otp].expired

count_reset(h) == 0

(* The counter that a wrong code leaves behind.                            *)
count(h) == request[h].attempts + 1

saveAttempts(h) ==
  LET i == request[h].otp IN
  /\ At(h, "count")
  /\ \/ otpRequests' = [otpRequests EXCEPT ![i].attempts = count(h)]
     \/ Removed(h) /\ UNCHANGED otpRequests
  /\ wrong' = [wrong EXCEPT ![i] = @ + 1]
  /\ Answer(h)
  /\ UNCHANGED <<customers, welcomes, sessions, overlapped, failures>>

saveConsumed_notAwaited(h) ==
  /\ At(h, "consume")
  /\ Goto(h, "customer")
  /\ UNCHANGED <<otpRequests, customers, welcomes, sessions, wrong,
                 overlapped, failures>>

(* otp.consumed = true, before anything else is done for the customer.     *)
saveConsumed(h) ==
  /\ At(h, "consume")
  /\ \/ /\ otpRequests' = [otpRequests EXCEPT ![request[h].otp].consumed = TRUE]
        /\ Goto(h, "customer")
     \/ Removed(h) /\ Answer(h) /\ UNCHANGED otpRequests
  /\ UNCHANGED <<customers, welcomes, sessions, wrong, overlapped, failures>>

findCustomer(h) ==
  /\ At(h, "customer")
  /\ Goto(h, IF request[h].mobile \in customers THEN "issueTokens"
             ELSE "register")
  /\ UNCHANGED <<otpRequests, customers, welcomes, sessions, wrong,
                 overlapped, failures>>

registered_again(h) == FALSE

(* The unique index on mobile refuses a second account.                    *)
registered(h) == request[h].mobile \in customers

register(h) ==
  /\ At(h, "register")
  /\ IF registered(h) THEN Answer(h) /\ UNCHANGED customers
     ELSE /\ customers' = customers \cup {request[h].mobile}
          /\ Goto(h, "welcome")
  /\ UNCHANGED <<otpRequests, welcomes, sessions, wrong, overlapped, failures>>

welcome(h) ==
  /\ At(h, "welcome")
  /\ welcomes' = [welcomes EXCEPT ![request[h].mobile] = @ + 1]
  /\ Goto(h, "issueTokens")
  /\ UNCHANGED <<otpRequests, customers, sessions, wrong, overlapped, failures>>

issueTokens(h) ==
  /\ At(h, "issueTokens")
  /\ sessions' = [sessions EXCEPT ![request[h].otp] = @ + 1]
  /\ Answer(h)
  /\ UNCHANGED <<otpRequests, customers, welcomes, wrong, overlapped, failures>>

(* Codes live equally long, so they expire in the order of creation.       *)
expire(i) ==
  /\ ~otpRequests[i].expired
  /\ \A j \in 1 .. i - 1 : otpRequests[j].expired
  /\ otpRequests' = [otpRequests EXCEPT ![i].expired = TRUE]
  /\ UNCHANGED <<customers, welcomes, request, sessions, wrong, overlapped,
                 failures>>

(* A call rejects or the process stops.                                    *)
fail(h) ==
  /\ InFlight(h)
  /\ failures < MaxFailures
  /\ failures' = failures + 1
  /\ Answer(h)
  /\ UNCHANGED <<otpRequests, customers, welcomes, sessions, wrong,
                 overlapped>>

Next ==
  \/ \E h \in Handlers, m \in Mobiles :
       requestOtp(h, m) \/ \E code \in Codes : verifyOtp(h, m, code)
  \/ \E m \in Mobiles : refuse(m)
  \/ \E h \in Handlers :
       \/ create(h) \/ saveAttempts(h) \/ saveConsumed(h)
       \/ findCustomer(h) \/ register(h) \/ welcome(h)
       \/ issueTokens(h) \/ fail(h)
  \/ \E i \in Indices : expire(i)

Spec == Init /\ [][Next]_vars

-----------------------------------------------------------------------------
(* Properties *)

(* The type invariant; the counter of a code never passes the limit, not   *)
(* even when requests that compare with it overlap.                        *)
TypeOK ==
  /\ otpRequests \in Seq(OtpRequest)
  /\ \A i \in Indices : otpRequests[i].attempts <= MaxAttempts
  /\ customers \subseteq Mobiles
  /\ welcomes \in [Mobiles -> Nat]
  /\ request \in [Handlers -> {Idle} \cup Requesting \cup Verifying]
  /\ sessions \in [Indices -> Nat] /\ wrong \in [Indices -> Nat]
  /\ overlapped \subseteq Mobiles
  /\ failures \in 0 .. MaxFailures

(* A number whose requests do not overlap has at most one live code, the   *)
(* last one that was sent.                                                 *)
OneLiveCodeIfCalm ==
  \A m \in Mobiles : Calm(m) => \A i, j \in Live(m) : i = j

(* The counter of each of its codes is the number of wrong codes that were *)
(* answered: none is lost on the way, and a new code starts from zero.     *)
WrongCodesCounted ==
  \A i \in Indices :
    Calm(otpRequests[i].mobile) /\ ~otpRequests[i].expired =>
      otpRequests[i].attempts = wrong[i]

(* Each of its codes starts at most one session, and none does as long as  *)
(* it is live.                                                             *)
CodeUsedOnce ==
  \A i \in Indices :
    Calm(otpRequests[i].mobile) =>
      sessions[i] <= IF otpRequests[i].consumed THEN 1 ELSE 0

(* A customer is welcomed once: at once when the account is created, or    *)
(* never, if the request was lost in between.  Overlapping first sign-ins  *)
(* make no difference.                                                     *)
WelcomedOnce ==
  LET missing == {m \in customers :
        welcomes[m] = 0 /\ ~\E h \in BusyWith(m) : At(h, "welcome")}
  IN /\ \A m \in Mobiles : welcomes[m] <= IF m \in customers THEN 1 ELSE 0
     /\ Cardinality(missing) <= failures
=============================================================================
