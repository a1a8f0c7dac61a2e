------------------------------ MODULE Delivery ------------------------------
(***************************************************************************)
(* How a change of an application reaches people: the chat thread          *)
(* (src/messaging/messaging.service.ts) and the notification centre        *)
(* (src/notifications/notifications.service.ts), composed with the         *)
(* operations of Applications, which post system messages and publish the  *)
(* events the notifications are made of.                                   *)
(*                                                                         *)
(* Applications keeps its variables and its steps; this module adds what   *)
(* those steps set off and what people do with it, so that every behaviour *)
(* here is one of Applications when the added variables are hidden.        *)
(***************************************************************************)
EXTENDS Access

CONSTANTS
  Callers,          \* chat requests that can be in flight at the same time
  MaxPosts,         \* bound: messages people write in one thread
  MaxTaps,          \* bound: notifications read or deleted before people stop
  MaxLost           \* bound: notifications lost

ASSUME DeliveryAssumption ==
  /\ IsFiniteSet(Callers)
  /\ MaxPosts \in Nat /\ MaxTaps \in Nat
  /\ MaxLost \in Nat

VARIABLES
  chat,             \* chat_messages of each application, oldest first
  caller,           \* the chat requests in flight
  notifications,    \* the notifications collection, oldest first
  fanOut,           \* inserts of notifications in flight: <<application, n>>,
                    \*   n the place of the event in events
  shown,            \* history: messages of a thread shown to a side
  unseen,           \* history: messages a side may have missed
  posting,          \* history: posts in flight at the rejection's message
  lost              \* history: notifications lost

chatVars == <<chat, caller, shown, unseen, posting>>

inboxVars == <<notifications, fanOut, lost>>

deliveryVars == <<vars, chatVars, inboxVars>>

-----------------------------------------------------------------------------
(* Messages.  Staff and administrators write and read as one side.         *)

Side == {"CUSTOMER", "STAFF"}

senderOf(u) == IF role(u) = "CUSTOMER" THEN "CUSTOMER" ELSE "STAFF"

ChatMessage == [sender : Side \cup {"SYSTEM"}, body : Message \cup {None},
                readBy : SUBSET Side]

systemRow(message) == [sender |-> "SYSTEM", body |-> message, readBy |-> {}]

(* What people write is left out.                                          *)
userRow(u) ==
  [sender |-> senderOf(u), body |-> None, readBy |-> {senderOf(u)}]

newest(seq) == seq[Len(seq)]

(* unreadCount counts these rows for a side.                               *)
unread(a, side) ==
  {i \in DOMAIN chat[a] : /\ side \notin chat[a][i].readBy
                          /\ chat[a][i].sender # side}

Caller == [pc : {"find", "markRead", "answer", "create"},
           app : Apps, user : Users, at : Nat]

CallerAt(k, pc) == caller[k] # Idle /\ caller[k].pc = pc

Reading(k, a, side) ==
  /\ CallerAt(k, "markRead")
  /\ caller[k].app = a
  /\ senderOf(caller[k].user) = side

(* History: whoever reads thread a between its find and its markRead will  *)
(* have row i, which another side writes, marked as read and not found it. *)
overtaken(a, i, sender) ==
  {<<a, side, i>> :
   side \in {s \in Side : s # sender /\ \E k \in Callers : Reading(k, a, s)}}

-----------------------------------------------------------------------------
(* Notifications *)

NotificationType == {"StageUpdate", "ApplicationRejected"}

Notification == [userId : Customers, type : NotificationType,
                 applicationId : Apps, stage : Stage,
                 read : BOOLEAN, deleted : BOOLEAN]

fromEvent_stagesOnly(e) == e.customerId # None /\ e.type = "stage.changed"

fromEvent_everyEvent(e) == e.type # "document.updated"

(* The events fromEvent makes a notification of.                           *)
fromEvent(e) ==
  /\ e.customerId # None
  /\ e.type \in {"stage.changed", "application.rejected"}

notification(a, e) ==
  [userId |-> e.customerId,
   type |-> IF e.type = "stage.changed" THEN "StageUpdate"
            ELSE "ApplicationRejected",
   applicationId |-> a, stage |-> e.stage, read |-> FALSE, deleted |-> FALSE]

-----------------------------------------------------------------------------
DeliveryInit ==
  /\ Init
  /\ chat = [a \in Apps |-> << >>]
  /\ caller = [k \in Callers |-> Idle]
  /\ notifications = << >>
  /\ fanOut = {}
  /\ shown = [a \in Apps |-> [side \in Side |-> 0]]
  /\ unseen = {}
  /\ posting = [a \in Apps |-> 0]
  /\ lost = 0

UserRows(a) == {i \in DOMAIN chat[a] : chat[a][i].sender # "SYSTEM"}

(* The posts on their way into thread a.                                   *)
Posts(a) == {k \in Callers : CallerAt(k, "create") /\ caller[k].app = a}

IsRejection(row) ==
  row.sender = "SYSTEM" /\ row.body.about = "ApplicationRejected"

Rejections(a) == {i \in DOMAIN chat[a] : IsRejection(chat[a][i])}

Posted(a) == thread'[a] # thread[a]

Published(a) == events'[a] # events[a]

Service_fanOutOncePerApplication ==
  /\ \/ \E h \in Handlers : Arrive(h) \/ Continue(h) \/ fail(h)
     \/ \E a \in Apps : documentsChange(a)
  /\ chat' = [a \in Apps |->
                IF Posted(a)
                THEN Append(chat[a], systemRow(newest(thread'[a])))
                ELSE chat[a]]
  /\ fanOut' = {x \in fanOut : ~Published(x[1])} \cup
                 {<<a, Len(events'[a])>> :
                  a \in {b \in Apps :
                         Published(b) /\ fromEvent(newest(events'[b]))}}
  /\ UNCHANGED <<caller, shown, unseen, posting, notifications, lost>>

(* A step of the applications service: postSystem stores its message in    *)
(* the thread, and the notification service, subscribed to the stream,     *)
(* starts an insert within publish and nobody awaits it.                   *)
Service ==
  /\ \/ \E h \in Handlers : Arrive(h) \/ Continue(h) \/ fail(h)
     \/ \E a \in Apps : documentsChange(a)
  /\ chat' = [a \in Apps |->
                IF Posted(a)
                THEN Append(chat[a], systemRow(newest(thread'[a])))
                ELSE chat[a]]
  /\ unseen' = unseen \cup UNION {overtaken(a, Len(chat[a]) + 1, "SYSTEM") :
                                  a \in {b \in Apps : Posted(b)}}
  /\ posting' = [a \in Apps |->
                   IF Rejections(a) = {} /\ Rejections(a)' # {}
                   THEN Cardinality(Posts(a)) ELSE posting[a]]
  /\ fanOut' = fanOut \cup
                 {<<a, Len(events'[a])>> :
                  a \in {b \in Apps :
                         Published(b) /\ fromEvent(newest(events'[b]))}}
  /\ UNCHANGED <<caller, shown, notifications, lost>>

-----------------------------------------------------------------------------
(* The chat: GET and POST of /applications/:id/messages *)

Begin(k, a, u, pc) ==
  /\ caller[k] = Idle
  /\ caller' = [caller EXCEPT ![k] =
                  [pc |-> pc, app |-> a, user |-> u, at |-> 0]]
  /\ UNCHANGED <<vars, inboxVars, chat, shown, unseen, posting>>

(* thread: findById found the application, and the caller may see it.      *)
openThread(k, a, u) ==
  /\ canAccess(parties(a), u)
  /\ Begin(k, a, u, "find")

Proceed(k, pc, at) ==
  caller' = [caller EXCEPT ![k] = [@ EXCEPT !.pc = pc, !.at = at]]

Finish(k) == caller' = [caller EXCEPT ![k] = Idle]

findMessages(k) ==
  /\ CallerAt(k, "find")
  /\ Proceed(k, "markRead", Len(chat[caller[k].app]))
  /\ UNCHANGED <<vars, inboxVars, chat, shown, unseen, posting>>

(* updateMany adds the readers to each of the rows.                        *)
markedAsRead(rows, readers) ==
  [i \in DOMAIN rows |-> [rows[i] EXCEPT !.readBy = @ \cup readers]]

markThreadRead_otherSide(k) ==
  LET c == caller[k]
      side == IF senderOf(c.user) = "STAFF" THEN "CUSTOMER" ELSE "STAFF" IN
  /\ CallerAt(k, "markRead")
  /\ chat' = [chat EXCEPT ![c.app] = markedAsRead(@, {side})]
  /\ Proceed(k, "answer", c.at)
  /\ UNCHANGED <<vars, inboxVars, shown, unseen, posting>>

(* Every row that is unread now, found before or not; for a partner none.  *)
markThreadRead(k) ==
  LET c == caller[k]
      readers == IF role(c.user) = "PARTNER" THEN {} ELSE {senderOf(c.user)}
  IN
  /\ CallerAt(k, "markRead")
  /\ chat' = [chat EXCEPT ![c.app] = markedAsRead(@, readers)]
  /\ Proceed(k, "answer", c.at)
  /\ UNCHANGED <<vars, inboxVars, shown, unseen, posting>>

answerThread(k) ==
  LET c == caller[k]
      side == senderOf(c.user)
  IN
  /\ CallerAt(k, "answer")
  /\ shown' = IF role(c.user) = "PARTNER" \/ c.at < shown[c.app][side]
              THEN shown
              ELSE [shown EXCEPT ![c.app][side] = c.at]
  /\ unseen' = {m \in unseen : m[3] > shown'[m[1]][m[2]]}
  /\ Finish(k)
  /\ UNCHANGED <<vars, inboxVars, chat, posting>>

(* What was found and marked as read for a side, and is not yet shown.     *)
InHand ==
  LET Held(k, side) == {<<caller[k].app, side, i>> :
                        i \in shown[caller[k].app][side] + 1 .. caller[k].at}
  IN UNION {Held(k, senderOf(caller[k].user)) :
            k \in {c \in Callers : CallerAt(c, "answer")}}

postUser_afterClosing(k, a, u) ==
  /\ canAccess(parties(a), u)
  /\ Cardinality(UserRows(a)) + Cardinality(Posts(a)) < MaxPosts
  /\ Begin(k, a, u, "create")

(* postUser: the application is there, the caller's and not closed.        *)
postUser(k, a, u) ==
  /\ canAccess(parties(a), u)
  /\ ~closed(applications[a])
  /\ Cardinality(UserRows(a)) + Cardinality(Posts(a)) < MaxPosts
  /\ Begin(k, a, u, "create")

(* Then the message is published to the live streams, which keep nothing,  *)
(* without the customer's id, and the request is answered.                 *)
createMessage(k) ==
  LET c == caller[k] IN
  /\ CallerAt(k, "create")
  /\ chat' = [chat EXCEPT ![c.app] = Append(@, userRow(c.user))]
  /\ unseen' = unseen \cup
                 overtaken(c.app, Len(chat[c.app]) + 1, senderOf(c.user))
  /\ Finish(k)
  /\ UNCHANGED <<vars, inboxVars, shown, posting>>

(* A database call of the request rejects and has changed nothing.         *)
failCall(k) ==
  /\ \E pc \in {"find", "markRead", "create"} : CallerAt(k, pc)
  /\ Finish(k)
  /\ UNCHANGED <<vars, inboxVars, chat, shown, unseen, posting>>

-----------------------------------------------------------------------------
(* The notification centre *)

create(x) ==
  LET a == x[1]
      n == x[2]
  IN
  /\ x \in fanOut
  /\ notifications' = Append(notifications, notification(a, events[a][n]))
  /\ fanOut' = fanOut \ {x}
  /\ UNCHANGED <<vars, chatVars, lost>>

(* The insert rejects: the error is logged, and that is all.               *)
failFanOut(x) ==
  /\ x \in fanOut
  /\ lost < MaxLost
  /\ lost' = lost + 1
  /\ fanOut' = fanOut \ {x}
  /\ UNCHANGED <<vars, chatVars, notifications>>

Owned(u) == {i \in DOMAIN notifications : notifications[i].userId = u}

Tap ==
  /\ Cardinality({i \in DOMAIN notifications :
                    notifications[i].read \/ notifications[i].deleted})
       < MaxTaps
  /\ UNCHANGED <<vars, chatVars, fanOut, lost>>

(* updateOne with the id and the caller's id.                              *)
markRead(i, u) ==
  /\ i \in Owned(u)
  /\ notifications' = [notifications EXCEPT ![i].read = TRUE]
  /\ Tap

(* The deleted ones too.                                                   *)
markAllRead(u) ==
  /\ Owned(u) # {}
  /\ notifications' = [i \in DOMAIN notifications |->
                         [notifications[i] EXCEPT !.read = @ \/ i \in Owned(u)]]
  /\ Tap

remove(i, u) ==
  /\ i \in Owned(u)
  /\ notifications' = [notifications EXCEPT ![i].deleted = TRUE]
  /\ Tap

-----------------------------------------------------------------------------
(* The process stops and starts again: the requests in flight are gone,    *)
(* and the inserts nobody waits for with them.                             *)
stop ==
  /\ \/ crash
     \/ UNCHANGED vars /\ \A h \in Handlers : ~InFlight(h)
  /\ lost + Cardinality(fanOut) <= MaxLost
  /\ lost' = lost + Cardinality(fanOut)
  /\ fanOut' = {}
  /\ caller' = [k \in Callers |-> Idle]
  /\ unseen' = unseen \cup InHand
  /\ UNCHANGED <<chat, shown, posting, notifications>>

Chat(k) ==
  \/ \E a \in Apps, u \in Users : openThread(k, a, u) \/ postUser(k, a, u)
  \/ findMessages(k)
  \/ markThreadRead(k)
  \/ answerThread(k)
  \/ createMessage(k)
  \/ failCall(k)

Inbox ==
  \/ \E x \in fanOut : create(x) \/ failFanOut(x)
  \/ \E u \in Customers :
       \/ markAllRead(u)
       \/ \E i \in DOMAIN notifications : markRead(i, u) \/ remove(i, u)

DeliveryNext ==
  \/ Service
  \/ \E k \in Callers : Chat(k)
  \/ Inbox
  \/ stop

DeliverySpec == DeliveryInit /\ [][DeliveryNext]_deliveryVars

(* Once issued, the insert of a notification settles.                      *)
DeliveryFairSpec ==
  /\ DeliverySpec
  /\ \A h \in Handlers : WF_deliveryVars(Service /\ Continue(h))
  /\ WF_deliveryVars(\E x \in fanOut : create(x))

-----------------------------------------------------------------------------
(* Properties *)

(* The type invariant: threads, requests, notifications and inserts in     *)
(* flight stay within the schemas, and each insert names an event.         *)
DeliveryTypeOK ==
  /\ chat \in [Apps -> Seq(ChatMessage)]
  /\ caller \in [Callers -> {Idle} \cup Caller]
  /\ notifications \in Seq(Notification)
  /\ shown \in [Apps -> [Side -> Nat]]
  /\ unseen \subseteq Apps \X Side \X Nat
  /\ lost \in Nat
  /\ \A x \in fanOut : x[1] \in Apps /\ x[2] \in DOMAIN events[x[1]]

(* The unread badge of a side counts nothing that was shown to it, and it  *)
(* lacks what others wrote and was not shown only where a message slipped  *)
(* in between the find and the markRead of a thread that was being read,   *)
(* or an answer got lost.                                                  *)
BadgeCountsUnseen ==
  \A a \in Apps, side \in Side :
    LET fresh == {i \in DOMAIN chat[a] : /\ i > shown[a][side]
                                         /\ chat[a][i].sender # side}
    IN /\ unread(a, side) \subseteq fresh
       /\ \A i \in fresh \ unread(a, side) :
            <<a, side, i>> \in unseen \cup InHand

(* The rows of thread a after the message of its rejection.                *)
AfterRejection(a) ==
  {j \in DOMAIN chat[a] : \E i \in Rejections(a) : i < j}

(* A post that passed the check while the application was open may land    *)
(* after the message of the rejection: as many as were in flight then, and *)
(* no more, however often the application is moved on and back.            *)
LateMessagesWereInFlight ==
  \A a \in Apps :
    Rejections(a) # {} =>
      Cardinality(AfterRejection(a) \cap UserRows(a)) + Cardinality(Posts(a))
        <= posting[a]

(* The notification of a system message, if the customer gets one: none is *)
(* sent for a move back.                                                   *)
ToldBy(message, a) ==
  [type |-> IF message.about = "StageAdvanced" THEN "StageUpdate"
            ELSE "ApplicationRejected",
   applicationId |-> a, stage |-> message.stage]

Telling(n) ==
  [type |-> n.type, applicationId |-> n.applicationId, stage |-> n.stage]

(* Across the whole chain: for each text, the notifications of a customer  *)
(* lack what the thread says only as far as a handler has yet to publish   *)
(* it, an insert is in flight, or one of the two was lost; and there is no *)
(* notification of anything the thread does not say.                       *)
InboxFollowsThread ==
  \A a \in Apps, type \in NotificationType, stage \in Stage :
    LET text == [type |-> type, applicationId |-> a, stage |-> stage]
        said == Times(LAMBDA m : /\ m.about # "StageReverted"
                                 /\ ToldBy(m, a) = text, thread[a])
        told == Times(LAMBDA n : Telling(n) = text, notifications)
        unpublished == {h \in Handlers :
                          /\ InFlight(h)
                          /\ handler[h].app = a
                          /\ handler[h].op # "revert"
                          /\ handler[h].pc \in {"announce", "record", "publish"}
                          /\ ToldBy(systemMessage(handler[h]), a) = text}
        inserting == {x \in fanOut :
                        /\ x[1] = a
                        /\ Telling(notification(a, events[a][x[2]])) = text}
        late == Cardinality(unpublished) + Cardinality(inserting)
    IN /\ told + late <= said
       /\ said <= told + late + failures + lost

(* Unless a handler, a notification or the process is lost, each stored    *)
(* change reaches the thread, the audit trail and the live stream, and but *)
(* for a move back the notifications of the customer.                      *)
EveryChangeTold ==
  \A a \in Apps, n \in 1 .. MaxWrites :
    /\ Len(writes[a]) >= n ~>
         \/ Len(thread[a]) >= n /\ Len(audit[a]) >= n /\ Len(events[a]) >= 2 * n
         \/ failures + lost > 0
    /\ Times(LAMBDA r : r.action # "StageReverted", writes[a]) >= n ~>
         \/ Times(LAMBDA m : m.applicationId = a, notifications) >= n
         \/ failures + lost > 0
=============================================================================
