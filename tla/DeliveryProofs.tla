--------------------------- MODULE DeliveryProofs ---------------------------
(***************************************************************************)
(* Proofs about Delivery.  Its steps are steps of Applications or leave    *)
(* the variables of Applications alone, which carries every invariant of   *)
(* Applications over.  On them rest the type invariant, the account of     *)
(* read and unread messages, that of the messages after a rejection, and   *)
(* that of the notifications against the thread.                           *)
(***************************************************************************)
EXTENDS Delivery, ApplicationsProofs, SequenceTheorems

-----------------------------------------------------------------------------
(* A step of Applications, or none *)

LEMMA StepRefines == [DeliveryNext]_deliveryVars => [Next]_vars
<1> SUFFICES ASSUME [DeliveryNext]_deliveryVars PROVE [Next]_vars
  OBVIOUS
<1>1. CASE Service
  BY <1>1 DEF Service, Next
<1>2. CASE \E k \in Callers : Chat(k)
  BY <1>2 DEF Chat, openThread, postUser, Begin, findMessages, markThreadRead,
    answerThread, createMessage, failCall
<1>3. CASE Inbox
  BY <1>3 DEF Inbox, create, failFanOut, markAllRead, markRead, remove,
    Tap
<1>4. CASE stop
  BY <1>4 DEF stop, Next
<1>5. CASE UNCHANGED deliveryVars
  BY <1>5 DEF deliveryVars
<1>6. QED
  BY <1>1, <1>2, <1>3, <1>4, <1>5 DEF DeliveryNext

(* Hide the chat and the notifications, and a behaviour of Delivery is one *)
(* of Applications.                                                        *)
THEOREM DeliveryImplementsApplications == DeliverySpec => Spec
<1>1. DeliveryInit => Init
  BY DEF DeliveryInit
<1>2. QED
  BY <1>1, StepRefines, PTL DEF DeliverySpec, Spec

-----------------------------------------------------------------------------
(* What a step of the service adds to a thread and to the stream *)

(* One request at a time goes on, and it appends.                          *)
LEMMA LogsGrow ==
  ASSUME IInv, NEW h \in Handlers, Arrive(h) \/ Continue(h) \/ fail(h)
  PROVE  /\ \/ thread' = thread
            \/ \E a \in Apps, m \in Message :
                 thread' = [thread EXCEPT ![a] = Append(@, m)]
         /\ \/ events' = events
            \/ \E a \in Apps, e \in Event :
                 events' = [events EXCEPT ![a] = Append(@, e)]
<1> DEFINE b == handler[h]
<1>1. CASE postSystem(h)
  <2>1. InFlight(h)
    BY <1>1 DEF postSystem, At
  <2>2. b.app \in Apps /\ systemMessage(b) \in Message
    BY <2>1, BusyHandler, ReportType DEF IInv
  <2>3. QED
    BY <1>1, <2>2 DEF postSystem
<1>2. CASE announce(h)
  <2>1. InFlight(h)
    BY <1>2 DEF announce, At
  <2>2. b.app \in Apps /\ messageEvent(b) \in Event
    BY <2>1, BusyHandler, ReportType DEF IInv
  <2>3. QED
    BY <1>2, <2>2 DEF announce
<1>3. CASE publish(h)
  <2>1. InFlight(h)
    BY <1>3 DEF publish, At
  <2>2. b.app \in Apps /\ changeEvent(b) \in Event
    BY <2>1, BusyHandler, ReportType DEF IInv
  <2>3. QED
    BY <1>3, <2>2 DEF publish
<1>4. CASE \/ Arrive(h) \/ fail(h) \/ pendingMandatory(h) \/ save(h)
           \/ record(h)
  BY <1>4 DEF Arrive, submit, advanceStage, revertStage, reject, Load, fail,
    pendingMandatory, save, record
<1>5. QED
  BY <1>1, <1>2, <1>3, <1>4 DEF Continue

LEMMA ServiceLogs ==
  ASSUME IInv, Service
  PROVE  /\ \/ thread' = thread
            \/ \E a \in Apps, m \in Message :
                 thread' = [thread EXCEPT ![a] = Append(@, m)]
         /\ \/ events' = events
            \/ \E a \in Apps, e \in Event :
                 events' = [events EXCEPT ![a] = Append(@, e)]
BY LogsGrow DEF Service, documentsChange

LEMMA RowTypes ==
  /\ \A m \in Message : systemRow(m) \in ChatMessage
  /\ \A u \in Users : userRow(u) \in ChatMessage /\ senderOf(u) \in Side
BY DEF systemRow, userRow, senderOf, ChatMessage, Side

(* The thread a system message is posted in gets it as its newest row, and *)
(* whoever is reading that thread is put down as having missed it.         *)
LEMMA ServiceChat ==
  ASSUME IInv, Service, chat \in [Apps -> Seq(ChatMessage)]
  PROVE  /\ chat' \in [Apps -> Seq(ChatMessage)]
         /\ \A a \in Apps :
              \/ chat'[a] = chat[a]
              \/ /\ \E m \in Message :
                      chat'[a] = Append(chat[a], systemRow(m))
                 /\ overtaken(a, Len(chat[a]) + 1, "SYSTEM") \subseteq unseen'
<1>1. \A a \in Apps :
        chat'[a] = IF Posted(a)
                   THEN Append(chat[a], systemRow(newest(thread'[a])))
                   ELSE chat[a]
  BY DEF Service
<1>2. ASSUME NEW a \in Apps, Posted(a)
      PROVE  newest(thread'[a]) \in Message
  <2>1. PICK b \in Apps, m \in Message :
          thread' = [thread EXCEPT ![b] = Append(@, m)]
    BY <1>2, ServiceLogs DEF Posted
  <2>2. thread \in [Apps -> Seq(Message)]
    BY DEF IInv, TypeOK
  <2>3. a = b /\ thread'[a] = Append(thread[a], m)
    BY <1>2, <2>1, <2>2 DEF Posted
  <2>4. thread[a] \in Seq(Message)
    BY <2>2
  <2>5. QED
    BY <2>3, <2>4, AppendProperties DEF newest
<1>3. ASSUME NEW a \in Apps, Posted(a)
      PROVE  overtaken(a, Len(chat[a]) + 1, "SYSTEM") \subseteq unseen'
  BY <1>3 DEF Service
<1>4. \A a \in Apps :
        \/ chat'[a] = chat[a]
        \/ /\ \E m \in Message : chat'[a] = Append(chat[a], systemRow(m))
           /\ overtaken(a, Len(chat[a]) + 1, "SYSTEM") \subseteq unseen'
  BY <1>1, <1>2, <1>3
<1>5. ASSUME NEW a \in Apps PROVE chat'[a] \in Seq(ChatMessage)
  <2>1. chat[a] \in Seq(ChatMessage)
    OBVIOUS
  <2>2. \A m \in Message : Append(chat[a], systemRow(m)) \in Seq(ChatMessage)
    BY <2>1, RowTypes, AppendProperties
  <2>3. QED
    BY <1>4, <2>1, <2>2
<1>6. chat' = [a \in Apps |-> chat'[a]]
  BY DEF Service
<1>7. QED
  BY <1>4, <1>5, <1>6

(* Inserts in flight are finitely many, and each is of an event that       *)
(* fromEvent makes a notification of.                                      *)
Inserts ==
  /\ IsFiniteSet(fanOut)
  /\ \A x \in fanOut : fromEvent(events[x[1]][x[2]])

DeliveryTypes == DeliveryTypeOK /\ Inserts

LEMMA ServiceInserts ==
  ASSUME IInv, DeliveryTypes, Service
  PROVE  /\ Inserts'
         /\ \A x \in fanOut' : x[1] \in Apps /\ x[2] \in DOMAIN events'[x[1]]
<1> DEFINE new == {<<a, Len(events'[a])>> :
                   a \in {b \in Apps :
                          Published(b) /\ fromEvent(newest(events'[b]))}}
<1>1. fanOut' = fanOut \cup new
  BY DEF Service
<1>2. events \in [Apps -> Seq(Event)]
  BY DEF IInv, TypeOK
<1>3. CASE events' = events
  <2>1. new = {}
    BY <1>3 DEF Published
  <2>2. fanOut' = fanOut
    BY <1>1, <2>1
  <2>3. QED
    BY <1>3, <2>2 DEF DeliveryTypes, DeliveryTypeOK, Inserts
<1>4. ASSUME NEW b \in Apps, NEW e \in Event,
             events' = [events EXCEPT ![b] = Append(@, e)]
      PROVE  /\ Inserts'
             /\ \A x \in fanOut' :
                  x[1] \in Apps /\ x[2] \in DOMAIN events'[x[1]]
  <2>1. /\ events'[b] = Append(events[b], e)
        /\ \A a \in Apps : a # b => events'[a] = events[a]
        /\ events[b] \in Seq(Event)
    BY <1>2, <1>4
  <2>2. /\ Len(events'[b]) = Len(events[b]) + 1
        /\ DOMAIN events[b] = 1 .. Len(events[b])
        /\ DOMAIN events'[b] = 1 .. Len(events[b]) + 1
        /\ Len(events[b]) \in Nat
        /\ \A n \in DOMAIN events[b] : events'[b][n] = events[b][n]
    BY <2>1, AppendProperties, LenProperties
  <2>3. new \subseteq {<<b, Len(events'[b])>>}
    BY <2>1 DEF Published
  <2>4. IsFiniteSet(fanOut')
    <3>1. IsFiniteSet(fanOut) /\ IsFiniteSet({<<b, Len(events'[b])>>})
      BY FS_Singleton DEF DeliveryTypes, Inserts
    <3>2. IsFiniteSet(new)
      BY <2>3, <3>1, FS_Subset
    <3>3. QED
      BY <1>1, <3>1, <3>2, FS_Union
  <2>5. ASSUME NEW x \in fanOut
        PROVE  /\ x[1] \in Apps /\ x[2] \in DOMAIN events'[x[1]]
               /\ fromEvent(events'[x[1]][x[2]])
    <3>1. /\ x[1] \in Apps /\ x[2] \in DOMAIN events[x[1]]
          /\ fromEvent(events[x[1]][x[2]])
      BY DEF DeliveryTypes, DeliveryTypeOK, Inserts
    <3>2. CASE x[1] = b
      <4>1. events'[b][x[2]] = events[b][x[2]] /\ x[2] \in DOMAIN events'[b]
        BY <2>2, <3>1, <3>2
      <4>2. QED
        BY <3>1, <3>2, <4>1
    <3>3. CASE x[1] # b
      BY <2>1, <3>1, <3>3
    <3>4. QED
      BY <3>2, <3>3
  <2>6. ASSUME NEW x \in new
        PROVE  /\ x[1] \in Apps /\ x[2] \in DOMAIN events'[x[1]]
               /\ fromEvent(events'[x[1]][x[2]])
    <3>1. PICK a \in Apps : /\ x = <<a, Len(events'[a])>>
                            /\ Published(a) /\ fromEvent(newest(events'[a]))
      OBVIOUS
    <3>2. a = b
      BY <2>3, <3>1
    <3>3. QED
      BY <2>2, <3>1, <3>2 DEF newest
  <2>7. QED
    BY <1>1, <2>4, <2>5, <2>6 DEF Inserts
<1>5. QED
  BY <1>3, <1>4, ServiceLogs

-----------------------------------------------------------------------------
(* Types *)

LEMMA CallerType ==
  ASSUME DeliveryTypeOK, NEW k \in Callers, caller[k] # Idle
  PROVE  /\ caller[k] \in Caller
         /\ caller[k].app \in Apps
         /\ caller[k].user \in Users
         /\ caller[k].at \in Nat
         /\ senderOf(caller[k].user) \in Side
<1>1. caller[k] \in Caller
  BY DEF DeliveryTypeOK
<1>2. QED
  BY <1>1, RowTypes DEF Caller

(* Marking rows as read leaves them as they are but for the mark.          *)
LEMMA MarkedThread ==
  ASSUME NEW seq \in Seq(ChatMessage), NEW readers \in SUBSET Side
  PROVE  LET new == markedAsRead(seq, readers) IN
         /\ new \in Seq(ChatMessage)
         /\ DOMAIN new = DOMAIN seq
         /\ Len(new) = Len(seq)
         /\ \A i \in DOMAIN seq :
              /\ new[i].sender = seq[i].sender /\ new[i].body = seq[i].body
              /\ new[i].readBy = seq[i].readBy \cup readers
<1> DEFINE new == markedAsRead(seq, readers)
<1>1. /\ DOMAIN seq = 1 .. Len(seq) /\ Len(seq) \in Nat
      /\ \A i \in DOMAIN seq : seq[i] \in ChatMessage
  BY ElementOfSeq, LenProperties
<1>2. ASSUME NEW i \in DOMAIN seq
      PROVE  /\ new[i] \in ChatMessage
             /\ new[i].sender = seq[i].sender /\ new[i].body = seq[i].body
             /\ new[i].readBy = seq[i].readBy \cup readers
  BY <1>1 DEF ChatMessage, markedAsRead
<1>3. DOMAIN new = DOMAIN seq /\ new = [i \in DOMAIN seq |-> new[i]]
  BY DEF markedAsRead
<1> HIDE DEF new
<1>4. new \in Seq(ChatMessage) /\ Len(new) = Len(seq)
  <2>1. new \in [1 .. Len(seq) -> ChatMessage]
    BY <1>1, <1>2, <1>3
  <2>2. QED
    BY <1>1, <2>1
<1>5. QED
  BY <1>2, <1>3, <1>4 DEF new

LEMMA OvertakenType ==
  ASSUME NEW a \in Apps, NEW i \in Nat, NEW sender
  PROVE  overtaken(a, i, sender) \subseteq Apps \X Side \X Nat
BY DEF overtaken

LEMMA InHandType ==
  ASSUME DeliveryTypeOK
  PROVE  InHand \subseteq Apps \X Side \X Nat
<1> SUFFICES ASSUME NEW m \in InHand PROVE m \in Apps \X Side \X Nat
  OBVIOUS
<1>1. PICK k \in Callers :
        /\ CallerAt(k, "answer")
        /\ \E i \in shown[caller[k].app][senderOf(caller[k].user)] + 1
                    .. caller[k].at :
             m = <<caller[k].app, senderOf(caller[k].user), i>>
  BY DEF InHand
<1>2. /\ caller[k].app \in Apps /\ senderOf(caller[k].user) \in Side
      /\ caller[k].at \in Nat
  BY <1>1, CallerType DEF CallerAt
<1>3. shown[caller[k].app][senderOf(caller[k].user)] \in Nat
  BY <1>2 DEF DeliveryTypeOK
<1>4. QED
  BY <1>1, <1>2, <1>3

LEMMA InitTypes == DeliveryInit => DeliveryTypes
<1> SUFFICES ASSUME DeliveryInit PROVE DeliveryTypes
  OBVIOUS
<1>1. DeliveryTypeOK
  BY DEF DeliveryInit, DeliveryTypeOK
<1>2. Inserts
  BY FS_EmptySet DEF DeliveryInit, Inserts
<1>3. QED
  BY <1>1, <1>2 DEF DeliveryTypes

LEMMA ServiceTypes ==
  ASSUME IInv, DeliveryTypes, Service
  PROVE  DeliveryTypes'
<1>1. chat' \in [Apps -> Seq(ChatMessage)]
  BY ServiceChat DEF DeliveryTypes, DeliveryTypeOK
<1>2. unseen' \subseteq Apps \X Side \X Nat
  <2>1. \A a \in Apps : Len(chat[a]) \in Nat
    BY LenProperties DEF DeliveryTypes, DeliveryTypeOK
  <2>2. \A a \in Apps :
          overtaken(a, Len(chat[a]) + 1, "SYSTEM") \subseteq Apps \X Side \X Nat
    BY <2>1, OvertakenType
  <2>3. unseen' = unseen \cup
                    UNION {overtaken(a, Len(chat[a]) + 1, "SYSTEM") :
                           a \in {b \in Apps : Posted(b)}}
    BY DEF Service
  <2>4. QED
    BY <2>2, <2>3 DEF DeliveryTypes, DeliveryTypeOK
<1>3. UNCHANGED <<caller, shown, notifications, lost>>
  BY DEF Service
<1>4. QED
  BY <1>1, <1>2, <1>3, ServiceInserts DEF DeliveryTypes, DeliveryTypeOK

LEMMA ChatTypes ==
  ASSUME DeliveryTypes, NEW k \in Callers, Chat(k)
  PROVE  DeliveryTypes'
<1> DEFINE c == caller[k]
<1>1. DeliveryTypeOK
  BY DEF DeliveryTypes
<1>2. UNCHANGED <<vars, inboxVars>>
  BY DEF Chat, openThread, postUser, Begin, findMessages, markThreadRead,
    answerThread, createMessage, failCall
<1>3. Inserts' /\ UNCHANGED <<events, notifications, fanOut, lost>>
  BY <1>2 DEF DeliveryTypes, Inserts, vars, inboxVars
<1>4. ASSUME chat' \in [Apps -> Seq(ChatMessage)],
             caller' \in [Callers -> {Idle} \cup Caller],
             shown' \in [Apps -> [Side -> Nat]],
             unseen' \subseteq Apps \X Side \X Nat
      PROVE  DeliveryTypes'
  BY <1>1, <1>3, <1>4 DEF DeliveryTypes, DeliveryTypeOK
<1>5. ASSUME NEW a \in Apps, NEW u \in Users,
             openThread(k, a, u) \/ postUser(k, a, u)
      PROVE  DeliveryTypes'
  <2> DEFINE new(pc) == [pc |-> pc, app |-> a, user |-> u, at |-> 0]
  <2>1. caller' \in [Callers -> {Idle} \cup Caller]
    <3>1. PICK pc \in {"find", "create"} :
            caller' = [caller EXCEPT ![k] = new(pc)]
      BY <1>5 DEF openThread, postUser, Begin
    <3>2. new(pc) \in Caller
      BY DEF Caller
    <3>3. QED
      BY <1>1, <3>1, <3>2 DEF DeliveryTypeOK
  <2>2. UNCHANGED <<chat, shown, unseen>>
    BY <1>5 DEF openThread, postUser, Begin
  <2>3. QED
    BY <1>1, <1>4, <2>1, <2>2 DEF DeliveryTypeOK
<1>6. ASSUME Finish(k) PROVE caller' \in [Callers -> {Idle} \cup Caller]
  BY <1>1, <1>6 DEF Finish, DeliveryTypeOK
<1>7. ASSUME NEW pc \in {"find", "markRead", "answer", "create"},
             NEW at \in Nat, c # Idle, Proceed(k, pc, at)
      PROVE  caller' \in [Callers -> {Idle} \cup Caller]
  <2>1. [c EXCEPT !.pc = pc, !.at = at] \in Caller
    BY <1>1, <1>7, CallerType DEF Caller
  <2>2. QED
    BY <1>1, <1>7, <2>1 DEF Proceed, DeliveryTypeOK
<1>8. CASE findMessages(k)
  <2>1. c # Idle /\ Len(chat[c.app]) \in Nat
    BY <1>1, <1>8, CallerType, LenProperties
    DEF findMessages, CallerAt, DeliveryTypeOK
  <2>2. caller' \in [Callers -> {Idle} \cup Caller]
    BY <1>7, <1>8, <2>1 DEF findMessages
  <2>3. UNCHANGED <<chat, shown, unseen>>
    BY <1>8 DEF findMessages
  <2>4. QED
    BY <1>1, <1>4, <2>2, <2>3 DEF DeliveryTypeOK
<1>9. CASE markThreadRead(k)
  <2> DEFINE readers == IF role(c.user) = "PARTNER" THEN {}
                        ELSE {senderOf(c.user)}
  <2>1. /\ c # Idle /\ c.app \in Apps /\ c.at \in Nat
        /\ readers \in SUBSET Side
    BY <1>1, <1>9, CallerType DEF markThreadRead, CallerAt
  <2>3. chat[c.app] \in Seq(ChatMessage)
    BY <1>1, <2>1 DEF DeliveryTypeOK
  <2>4. markedAsRead(chat[c.app], readers) \in Seq(ChatMessage)
    BY <2>1, <2>3, MarkedThread
  <2>5. chat' \in [Apps -> Seq(ChatMessage)]
    BY <1>1, <1>9, <2>4 DEF markThreadRead, DeliveryTypeOK
  <2>6. caller' \in [Callers -> {Idle} \cup Caller]
    BY <1>7, <1>9, <2>1 DEF markThreadRead
  <2>7. UNCHANGED <<shown, unseen>>
    BY <1>9 DEF markThreadRead
  <2>8. QED
    BY <1>1, <1>4, <2>5, <2>6, <2>7 DEF DeliveryTypeOK
<1>10. CASE answerThread(k)
  <2>1. c # Idle /\ c.app \in Apps /\ c.at \in Nat /\ senderOf(c.user) \in Side
    BY <1>1, <1>10, CallerType DEF answerThread, CallerAt
  <2>2. shown' \in [Apps -> [Side -> Nat]]
    BY <1>1, <1>10, <2>1 DEF answerThread, DeliveryTypeOK
  <2>3. unseen' \subseteq unseen
    BY <1>10 DEF answerThread
  <2>4. UNCHANGED chat
    BY <1>10 DEF answerThread
  <2>5. QED
    BY <1>1, <1>4, <1>6, <1>10, <2>2, <2>3, <2>4
    DEF answerThread, DeliveryTypeOK
<1>11. CASE createMessage(k)
  <2>1. c # Idle /\ c.app \in Apps /\ c.user \in Users
    BY <1>1, <1>11, CallerType DEF createMessage, CallerAt
  <2>2. chat[c.app] \in Seq(ChatMessage) /\ userRow(c.user) \in ChatMessage
    BY <1>1, <2>1, RowTypes DEF DeliveryTypeOK
  <2>3. /\ Append(chat[c.app], userRow(c.user)) \in Seq(ChatMessage)
        /\ Len(chat[c.app]) \in Nat
    BY <2>2, AppendProperties, LenProperties
  <2>4. chat' \in [Apps -> Seq(ChatMessage)]
    BY <1>1, <1>11, <2>3 DEF createMessage, DeliveryTypeOK
  <2>5. unseen' \subseteq Apps \X Side \X Nat
    BY <1>1, <1>11, <2>1, <2>3, OvertakenType DEF createMessage, DeliveryTypeOK
  <2>6. QED
    BY <1>1, <1>4, <1>6, <1>11, <2>4, <2>5 DEF createMessage, DeliveryTypeOK
<1>12. CASE failCall(k)
  BY <1>1, <1>4, <1>6, <1>12 DEF failCall, DeliveryTypeOK
<1>13. QED
  BY <1>5, <1>8, <1>9, <1>10, <1>11, <1>12 DEF Chat

LEMMA InboxTypes ==
  ASSUME IInv, DeliveryTypes, Inbox
  PROVE  DeliveryTypes'
<1>1. DeliveryTypeOK
  BY DEF DeliveryTypes
<1>2. UNCHANGED <<vars, chatVars>>
  BY DEF Inbox, create, failFanOut, markAllRead, markRead, remove, Tap
<1>3. ASSUME notifications' \in Seq(Notification), lost' \in Nat,
             fanOut' \subseteq fanOut
      PROVE  DeliveryTypes'
  <2>1. Inserts'
    BY <1>2, <1>3, FS_Subset DEF DeliveryTypes, Inserts, vars
  <2>2. QED
    BY <1>1, <1>2, <1>3, <2>1
    DEF DeliveryTypes, DeliveryTypeOK, vars, chatVars
<1>4. /\ notifications \in Seq(Notification) /\ lost \in Nat
      /\ DOMAIN notifications = 1 .. Len(notifications)
      /\ Len(notifications) \in Nat
      /\ \A i \in DOMAIN notifications : notifications[i] \in Notification
  BY <1>1, LenProperties, ElementOfSeq DEF DeliveryTypeOK
<1>5. ASSUME NEW x \in fanOut, create(x)
      PROVE  DeliveryTypes'
  <2> DEFINE e == events[x[1]][x[2]]
  <2>1. x[1] \in Apps /\ x[2] \in DOMAIN events[x[1]] /\ fromEvent(e)
    BY DEF DeliveryTypes, DeliveryTypeOK, Inserts
  <2>2. e \in Event
    <3>1. events[x[1]] \in Seq(Event)
      BY <2>1 DEF IInv, TypeOK
    <3>2. QED
      BY <2>1, <3>1, LenProperties, ElementOfSeq
  <2>3. notification(x[1], e) \in Notification
    BY <2>1, <2>2
    DEF notification, fromEvent, Notification, NotificationType, Event
  <2>4. QED
    BY <1>3, <1>4, <1>5, <2>3, AppendProperties DEF create
<1>6. ASSUME NEW x \in fanOut, failFanOut(x)
      PROVE  DeliveryTypes'
  BY <1>3, <1>4, <1>6 DEF failFanOut
<1>7. ASSUME NEW u \in Customers, markAllRead(u)
      PROVE  DeliveryTypes'
  <2>1. notifications' \in [1 .. Len(notifications) -> Notification]
    BY <1>4, <1>7 DEF markAllRead, Notification
  <2>2. notifications' \in Seq(Notification)
    BY <1>4, <2>1
  <2>3. QED
    BY <1>3, <1>4, <1>7, <2>2 DEF markAllRead, Tap
<1>8. ASSUME NEW u \in Customers, NEW i \in DOMAIN notifications,
             markRead(i, u) \/ remove(i, u)
      PROVE  DeliveryTypes'
  <2>1. /\ [notifications[i] EXCEPT !.read = TRUE] \in Notification
        /\ [notifications[i] EXCEPT !.deleted = TRUE] \in Notification
    BY <1>4 DEF Notification
  <2>2. notifications' \in [1 .. Len(notifications) -> Notification]
    BY <1>4, <1>8, <2>1 DEF markRead, remove
  <2>3. notifications' \in Seq(Notification)
    BY <1>4, <2>2
  <2>4. QED
    BY <1>3, <1>4, <1>8, <2>3 DEF markRead, remove, Tap
<1>9. QED
  BY <1>5, <1>6, <1>7, <1>8 DEF Inbox

LEMMA StopTypes ==
  ASSUME DeliveryTypes, stop
  PROVE  DeliveryTypes'
<1>1. DeliveryTypeOK /\ IsFiniteSet(fanOut)
  BY DEF DeliveryTypes, Inserts
<1>2. fanOut' = {} /\ UNCHANGED <<chat, shown, notifications>>
  BY DEF stop
<1>3. lost' \in Nat
  BY <1>1, FS_CardinalityType DEF stop, DeliveryTypeOK
<1>4. caller' \in [Callers -> {Idle} \cup Caller]
  BY DEF stop
<1>5. unseen' \subseteq Apps \X Side \X Nat
  BY <1>1, InHandType DEF stop, DeliveryTypeOK
<1>6. Inserts'
  BY <1>2, FS_EmptySet DEF Inserts
<1>7. QED
  BY <1>1, <1>2, <1>3, <1>4, <1>5, <1>6 DEF DeliveryTypes, DeliveryTypeOK

LEMMA NextTypes ==
  IInv /\ DeliveryTypes /\ [DeliveryNext]_deliveryVars => DeliveryTypes'
<1>1. CASE UNCHANGED deliveryVars
  BY <1>1 DEF deliveryVars, vars, chatVars, inboxVars, DeliveryTypes,
    DeliveryTypeOK, Inserts
<1>2. QED
  BY <1>1, ServiceTypes, ChatTypes, InboxTypes, StopTypes DEF DeliveryNext

LEMMA DeliveryInvariance == DeliverySpec => [](IInv /\ DeliveryTypes)
<1>1. DeliveryInit => IInv /\ DeliveryTypes
  BY InitIInv, InitTypes DEF DeliveryInit
<1>2. IInv /\ DeliveryTypes /\ [DeliveryNext]_deliveryVars =>
        (IInv /\ DeliveryTypes)'
  BY NextIInv, NextTypes, StepRefines
<1>3. QED
  BY <1>1, <1>2, PTL DEF DeliverySpec

(* Threads, requests, notifications and inserts keep their types, and an   *)
(* insert in flight is of an event that was published.                     *)
THEOREM DeliveryTypeCorrect == DeliverySpec => []DeliveryTypeOK
BY DeliveryInvariance, PTL DEF DeliveryTypes

-----------------------------------------------------------------------------
(* Read and unread *)

(* The request k has row i of thread a marked as read for a side, and has  *)
(* still to answer with it.                                                *)
Held(k, a, side, i) ==
  /\ CallerAt(k, "answer")
  /\ caller[k].app = a
  /\ senderOf(caller[k].user) = side
  /\ i \in shown[a][side] + 1 .. caller[k].at

(* No partner opens a thread, and a request found rows that are there.     *)
RequestsFit ==
  \A k \in Callers : caller[k] # Idle =>
    /\ role(caller[k].user) # "PARTNER"
    /\ caller[k].at <= Len(chat[caller[k].app])

ShownFits ==
  \A a \in Apps, side \in Side : shown[a][side] <= Len(chat[a])

(* What was shown to a side is marked as read for it.                      *)
ShownIsRead ==
  \A a \in Apps, side \in Side : \A i \in DOMAIN chat[a] :
    i <= shown[a][side] /\ chat[a][i].sender # side =>
      side \in chat[a][i].readBy

(* What is marked and was not shown was overtaken, or is about to be shown. *)
ReadIsShown ==
  \A a \in Apps, side \in Side : \A i \in DOMAIN chat[a] :
    /\ i > shown[a][side]
    /\ chat[a][i].sender # side
    /\ side \in chat[a][i].readBy
    => <<a, side, i>> \in unseen \/ \E k \in Callers : Held(k, a, side, i)

(* An answer has only rows that are marked for the side it goes to.        *)
AnswersMarked ==
  \A k \in Callers : CallerAt(k, "answer") =>
    \A i \in DOMAIN chat[caller[k].app] :
      i <= caller[k].at =>
        senderOf(caller[k].user) \in chat[caller[k].app][i].readBy

(* A row that is about to be marked without having been found was put down. *)
LateNoted ==
  \A k \in Callers : CallerAt(k, "markRead") =>
    LET a == caller[k].app
        side == senderOf(caller[k].user)
    IN \A i \in DOMAIN chat[a] :
         i > caller[k].at /\ chat[a][i].sender # side =>
           i <= shown[a][side] \/ <<a, side, i>> \in unseen

Marks == /\ RequestsFit /\ ShownFits /\ ShownIsRead
         /\ ReadIsShown /\ AnswersMarked /\ LateNoted

LEMMA ThreadType ==
  ASSUME DeliveryTypeOK, NEW a \in Apps
  PROVE  /\ chat[a] \in Seq(ChatMessage)
         /\ DOMAIN chat[a] = 1 .. Len(chat[a])
         /\ Len(chat[a]) \in Nat
         /\ \A side \in Side : shown[a][side] \in Nat
BY LenProperties DEF DeliveryTypeOK

(* A thread that stays or gets one row at its end.                         *)
LEMMA GrownThread ==
  ASSUME DeliveryTypeOK, NEW a \in Apps, NEW row \in ChatMessage,
         chat'[a] = Append(chat[a], row)
  PROVE  /\ DOMAIN chat'[a] = 1 .. Len(chat[a]) + 1
         /\ Len(chat'[a]) = Len(chat[a]) + 1
         /\ \A i \in DOMAIN chat[a] : chat'[a][i] = chat[a][i]
         /\ chat'[a][Len(chat[a]) + 1] = row
<1>1. /\ chat[a] \in Seq(ChatMessage) /\ DOMAIN chat[a] = 1 .. Len(chat[a])
      /\ Len(chat[a]) \in Nat
  BY ThreadType
<1>2. QED
  BY <1>1, AppendProperties, LenProperties

(* Threads grow, and requests that have nothing marked may end.            *)
LEMMA GrowthMarks ==
  ASSUME DeliveryTypeOK, Marks, UNCHANGED shown, unseen \subseteq unseen',
         \A k \in Callers :
           /\ caller'[k] = caller[k] \/ caller'[k] = Idle
           /\ CallerAt(k, "answer") => caller'[k] = caller[k],
         \A a \in Apps :
           \/ chat'[a] = chat[a]
           \/ \E row \in ChatMessage :
                /\ chat'[a] = Append(chat[a], row)
                /\ row.readBy \subseteq {row.sender}
                /\ overtaken(a, Len(chat[a]) + 1, row.sender) \subseteq unseen'
  PROVE  Marks'
<1> DEFINE grown(a) ==
             /\ DOMAIN chat[a] \subseteq DOMAIN chat'[a]
             /\ Len(chat[a]) \in Nat /\ Len(chat[a]) <= Len(chat'[a])
             /\ \A i \in DOMAIN chat[a] :
                  /\ chat'[a][i] = chat[a][i]
                  /\ i \in Nat /\ i <= Len(chat[a])
             /\ \A i \in DOMAIN chat'[a] \ DOMAIN chat[a] :
                  /\ i = Len(chat[a]) + 1
                  /\ chat'[a][i].readBy \subseteq {chat'[a][i].sender}
                  /\ overtaken(a, i, chat'[a][i].sender) \subseteq unseen'
<1>1. ASSUME NEW a \in Apps PROVE grown(a)
  <2>1. DOMAIN chat[a] = 1 .. Len(chat[a]) /\ Len(chat[a]) \in Nat
    BY ThreadType
  <2>2. CASE chat'[a] = chat[a]
    BY <2>1, <2>2
  <2>3. ASSUME NEW row \in ChatMessage, chat'[a] = Append(chat[a], row),
               row.readBy \subseteq {row.sender},
               overtaken(a, Len(chat[a]) + 1, row.sender) \subseteq unseen'
        PROVE  grown(a)
    <3>1. /\ DOMAIN chat'[a] = 1 .. Len(chat[a]) + 1
          /\ Len(chat'[a]) = Len(chat[a]) + 1
          /\ \A i \in DOMAIN chat[a] : chat'[a][i] = chat[a][i]
          /\ chat'[a][Len(chat[a]) + 1] = row
      BY <2>3, GrownThread
    <3>2. \A i \in DOMAIN chat'[a] \ DOMAIN chat[a] : i = Len(chat[a]) + 1
      BY <2>1, <3>1
    <3>3. QED
      BY <2>1, <2>3, <3>1, <3>2
  <2>4. QED
    BY <2>2, <2>3
<1>2. \A k \in Callers : caller'[k] # Idle =>
        /\ caller'[k] = caller[k] /\ caller[k] # Idle
        /\ caller[k].app \in Apps /\ caller[k].at \in Nat
        /\ senderOf(caller[k].user) \in Side
  BY CallerType
<1>3. RequestsFit'
  <2> SUFFICES ASSUME NEW k \in Callers, caller'[k] # Idle
               PROVE  /\ role(caller[k].user) # "PARTNER"
                      /\ caller[k].at <= Len(chat'[caller[k].app])
    BY <1>2 DEF RequestsFit
  <2>1. /\ role(caller[k].user) # "PARTNER"
        /\ caller[k].at <= Len(chat[caller[k].app])
    BY <1>2 DEF Marks, RequestsFit
  <2>2. /\ Len(chat[caller[k].app]) <= Len(chat'[caller[k].app])
        /\ Len(chat[caller[k].app]) \in Nat
        /\ Len(chat'[caller[k].app]) \in Nat
    <3>1. caller[k].app \in Apps
      BY <1>2
    <3>2. chat'[caller[k].app] = chat[caller[k].app]
          \/ Len(chat'[caller[k].app]) = Len(chat[caller[k].app]) + 1
      BY <3>1, GrownThread
    <3>3. QED
      BY <1>1, <3>1, <3>2
  <2>3. QED
    BY <1>2, <2>1, <2>2
<1>4. ShownFits'
  <2> SUFFICES ASSUME NEW a \in Apps, NEW side \in Side
               PROVE  shown[a][side] <= Len(chat'[a])
    BY DEF ShownFits
  <2>1. shown[a][side] <= Len(chat[a]) /\ shown[a][side] \in Nat
    BY ThreadType DEF Marks, ShownFits
  <2>2. chat'[a] = chat[a] \/ Len(chat'[a]) = Len(chat[a]) + 1
    BY GrownThread
  <2>3. QED
    BY <1>1, <2>1, <2>2
<1>5. ShownIsRead'
  <2> SUFFICES ASSUME NEW a \in Apps, NEW side \in Side,
                      NEW i \in DOMAIN chat'[a], i <= shown[a][side],
                      chat'[a][i].sender # side
               PROVE  side \in chat'[a][i].readBy
    BY DEF ShownIsRead
  <2>1. i \in DOMAIN chat[a]
    <3>1. shown[a][side] <= Len(chat[a]) /\ shown[a][side] \in Nat
      BY ThreadType DEF Marks, ShownFits
    <3>2. QED
      BY <1>1, <3>1
  <2>2. QED
    BY <1>1, <2>1 DEF Marks, ShownIsRead
<1>6. ReadIsShown'
  <2> SUFFICES ASSUME NEW a \in Apps, NEW side \in Side,
                      NEW i \in DOMAIN chat'[a], i > shown[a][side],
                      chat'[a][i].sender # side, side \in chat'[a][i].readBy
               PROVE  \/ <<a, side, i>> \in unseen'
                      \/ \E k \in Callers : Held(k, a, side, i)'
    BY DEF ReadIsShown
  <2>1. i \in DOMAIN chat[a]
    BY <1>1
  <2>2. \/ <<a, side, i>> \in unseen
        \/ \E k \in Callers : Held(k, a, side, i)
    BY <1>1, <2>1 DEF Marks, ReadIsShown
  <2>3. \A k \in Callers : Held(k, a, side, i) => Held(k, a, side, i)'
    BY DEF Held, CallerAt
  <2>4. QED
    BY <2>2, <2>3
<1>7. AnswersMarked'
  <2> SUFFICES ASSUME NEW k \in Callers, CallerAt(k, "answer")',
                      NEW i \in DOMAIN chat'[caller'[k].app],
                      i <= caller'[k].at
               PROVE  senderOf(caller'[k].user)
                        \in chat'[caller'[k].app][i].readBy
    BY DEF AnswersMarked
  <2>1. /\ caller'[k] = caller[k] /\ CallerAt(k, "answer")
        /\ caller[k].app \in Apps /\ caller[k].at \in Nat
        /\ caller[k].at <= Len(chat[caller[k].app])
    BY <1>2 DEF CallerAt, Marks, RequestsFit
  <2>2. i \in DOMAIN chat[caller[k].app]
    BY <1>1, <2>1
  <2>3. QED
    BY <1>1, <2>1, <2>2 DEF Marks, AnswersMarked
<1>8. LateNoted'
  <2> SUFFICES ASSUME NEW k \in Callers, CallerAt(k, "markRead")'
               PROVE  LET a == caller'[k].app
                          side == senderOf(caller'[k].user)
                      IN \A i \in DOMAIN chat'[a] :
                           i > caller'[k].at /\ chat'[a][i].sender # side =>
                             i <= shown[a][side] \/ <<a, side, i>> \in unseen'
    BY DEF LateNoted
  <2> DEFINE a == caller[k].app
             side == senderOf(caller[k].user)
  <2>1. /\ caller'[k] = caller[k] /\ CallerAt(k, "markRead")
        /\ a \in Apps /\ side \in Side
    BY <1>2 DEF CallerAt
  <2>2. ASSUME NEW i \in DOMAIN chat'[a], i > caller[k].at,
               chat'[a][i].sender # side
        PROVE  i <= shown[a][side] \/ <<a, side, i>> \in unseen'
    <3>1. CASE i \in DOMAIN chat[a]
      BY <1>1, <2>1, <2>2, <3>1 DEF Marks, LateNoted
    <3>2. CASE i \notin DOMAIN chat[a]
      <4>1. overtaken(a, i, chat'[a][i].sender) \subseteq unseen'
        BY <1>1, <2>1, <2>2, <3>2
      <4>2. Reading(k, a, side)
        BY <2>1 DEF Reading
      <4>3. <<a, side, i>> \in overtaken(a, i, chat'[a][i].sender)
        BY <2>1, <2>2, <4>2 DEF overtaken
      <4>4. QED
        BY <4>1, <4>3
    <3>3. QED
      BY <3>1, <3>2
  <2>3. QED
    BY <2>1, <2>2
<1>9. QED
  BY <1>3, <1>4, <1>5, <1>6, <1>7, <1>8 DEF Marks

(* A request starts or finds the thread's rows.                            *)
LEMMA RequestMarks ==
  ASSUME DeliveryTypeOK, Marks, NEW k \in Callers,
         UNCHANGED <<chat, shown, unseen>>, ~CallerAt(k, "answer"),
         NEW c \in Caller, caller' = [caller EXCEPT ![k] = c],
         role(c.user) # "PARTNER", c.pc \in {"find", "markRead", "create"},
         c.at <= Len(chat[c.app]), c.pc = "markRead" => c.at = Len(chat[c.app])
  PROVE  Marks'
<1>1. \A j \in Callers : caller'[j] = IF j = k THEN c ELSE caller[j]
  BY DEF DeliveryTypeOK
<1>2. RequestsFit' /\ ShownFits' /\ ShownIsRead'
  BY <1>1 DEF Marks, RequestsFit, ShownFits, ShownIsRead
<1>3. \A j \in Callers : \A a, side, i :
        Held(j, a, side, i) => Held(j, a, side, i)'
  BY <1>1 DEF Held, CallerAt
<1>4. ReadIsShown'
  BY <1>3 DEF Marks, ReadIsShown
<1>5. AnswersMarked'
  BY <1>1 DEF Marks, AnswersMarked, CallerAt
<1>6. LateNoted'
  <2>1. c.app \in Apps
    BY DEF Caller
  <2>2. \A i \in DOMAIN chat[c.app] : ~(i > Len(chat[c.app]))
    BY <2>1, ThreadType
  <2>3. QED
    BY <1>1, <2>2 DEF Marks, LateNoted, CallerAt
<1>7. QED
  BY <1>2, <1>4, <1>5, <1>6 DEF Marks

LEMMA MarkMarks ==
  ASSUME DeliveryTypeOK, Marks, NEW k \in Callers, markThreadRead(k)
  PROVE  Marks'
<1> DEFINE c == caller[k]
           mine == senderOf(c.user)
<1>1. /\ CallerAt(k, "markRead") /\ c # Idle /\ c.app \in Apps
      /\ mine \in Side /\ c.at \in Nat
      /\ role(c.user) # "PARTNER" /\ c.at <= Len(chat[c.app])
  BY CallerType DEF markThreadRead, CallerAt, Marks, RequestsFit
<1>2. /\ chat' = [chat EXCEPT ![c.app] = markedAsRead(@, {mine})]
      /\ UNCHANGED <<shown, unseen>>
  BY <1>1 DEF markThreadRead
<1>3. ASSUME NEW a \in Apps
      PROVE  /\ DOMAIN chat'[a] = DOMAIN chat[a]
             /\ Len(chat'[a]) = Len(chat[a])
             /\ \A i \in DOMAIN chat[a] :
                  /\ chat'[a][i].sender = chat[a][i].sender
                  /\ chat'[a][i].readBy =
                       IF a = c.app THEN chat[a][i].readBy \cup {mine}
                       ELSE chat[a][i].readBy
  <2>1. CASE a = c.app
    <3>1. chat[a] \in Seq(ChatMessage) /\ {mine} \in SUBSET Side
      BY <1>1, ThreadType
    <3>2. chat'[a] = markedAsRead(chat[a], {mine})
      BY <1>2, <2>1 DEF DeliveryTypeOK
    <3>3. QED
      BY <2>1, <3>1, <3>2, MarkedThread
  <2>2. CASE a # c.app
    BY <1>2, <2>2 DEF DeliveryTypeOK
  <2>3. QED
    BY <2>1, <2>2
<1>4. /\ caller' = [caller EXCEPT ![k] =
                      [c EXCEPT !.pc = "answer", !.at = c.at]]
      /\ c \in Caller
  BY <1>1, CallerType DEF markThreadRead, Proceed
<1>5. /\ caller'[k].pc = "answer" /\ caller'[k].app = c.app
      /\ caller'[k].user = c.user /\ caller'[k].at = c.at
      /\ caller'[k] # Idle
      /\ \A j \in Callers : j # k => caller'[j] = caller[j]
  BY <1>4 DEF Caller, Idle, DeliveryTypeOK
<1>6. \A j \in Callers : caller[j] # Idle => caller[j].app \in Apps
  BY CallerType
<1> HIDE DEF c, mine
<1>7. RequestsFit'
  <2> SUFFICES ASSUME NEW j \in Callers, caller'[j] # Idle
               PROVE  /\ role(caller'[j].user) # "PARTNER"
                      /\ caller'[j].at <= Len(chat'[caller'[j].app])
    BY DEF RequestsFit
  <2>1. CASE j = k
    BY <1>1, <1>3, <1>5, <2>1
  <2>2. CASE j # k
    BY <1>3, <1>5, <1>6, <2>2 DEF Marks, RequestsFit
  <2>3. QED
    BY <2>1, <2>2
<1>8. ShownFits' /\ ShownIsRead'
  <2>1. ShownFits'
    BY <1>2, <1>3 DEF Marks, ShownFits
  <2>2. ASSUME NEW a \in Apps, NEW side \in Side, NEW i \in DOMAIN chat'[a],
               i <= shown[a][side], chat'[a][i].sender # side
        PROVE  side \in chat'[a][i].readBy
    <3>1. i \in DOMAIN chat[a] /\ chat[a][i].sender # side
      BY <1>3, <2>2
    <3>2. side \in chat[a][i].readBy
      BY <2>2, <3>1 DEF Marks, ShownIsRead
    <3>3. QED
      BY <1>3, <3>1, <3>2
  <2>3. QED
    BY <1>2, <2>1, <2>2 DEF ShownIsRead
<1>9. ReadIsShown'
  <2> SUFFICES ASSUME NEW a \in Apps, NEW side \in Side,
                      NEW i \in DOMAIN chat[a], i > shown[a][side],
                      chat[a][i].sender # side, side \in chat'[a][i].readBy
               PROVE  \/ <<a, side, i>> \in unseen
                      \/ \E j \in Callers : Held(j, a, side, i)'
    BY <1>2, <1>3 DEF ReadIsShown
  <2>1. CASE side \in chat[a][i].readBy
    <3>1. \/ <<a, side, i>> \in unseen
          \/ \E j \in Callers : Held(j, a, side, i)
      BY <2>1 DEF Marks, ReadIsShown
    <3>2. \A j \in Callers : Held(j, a, side, i) => Held(j, a, side, i)'
      BY <1>1, <1>2, <1>5 DEF Held, CallerAt, c
    <3>3. QED
      BY <3>1, <3>2
  <2>2. CASE side \notin chat[a][i].readBy
    <3>1. a = c.app /\ side = mine
      BY <1>3, <2>2
    <3>2. i \in Nat /\ shown[a][side] \in Nat
      BY ThreadType
    <3>3. CASE i <= c.at
      <4>1. i \in shown[a][side] + 1 .. c.at
        BY <1>1, <3>2, <3>3
      <4>2. Held(k, a, side, i)'
        BY <1>2, <1>5, <3>1, <4>1 DEF Held, CallerAt, mine
      <4>3. QED
        BY <4>2
    <3>4. CASE i > c.at
      BY <1>1, <3>1, <3>2, <3>4 DEF Marks, LateNoted, c, mine
    <3>5. QED
      BY <1>1, <3>2, <3>3, <3>4
  <2>3. QED
    BY <2>1, <2>2
<1>10. AnswersMarked'
  <2> SUFFICES ASSUME NEW j \in Callers, CallerAt(j, "answer")',
                      NEW i \in DOMAIN chat'[caller'[j].app],
                      i <= caller'[j].at
               PROVE  senderOf(caller'[j].user)
                        \in chat'[caller'[j].app][i].readBy
    BY DEF AnswersMarked
  <2>1. CASE j = k
    BY <1>1, <1>3, <1>5, <2>1 DEF mine
  <2>2. CASE j # k
    <3>1. caller'[j] = caller[j] /\ CallerAt(j, "answer")
          /\ caller[j].app \in Apps
      BY <1>5, <1>6, <2>2 DEF CallerAt
    <3>2. i \in DOMAIN chat[caller[j].app]
      BY <1>3, <3>1
    <3>3. senderOf(caller[j].user) \in chat[caller[j].app][i].readBy
      BY <3>1, <3>2 DEF Marks, AnswersMarked
    <3>4. QED
      BY <1>3, <3>1, <3>2, <3>3
  <2>3. QED
    BY <2>1, <2>2
<1>11. LateNoted'
  <2>1. ASSUME NEW j \in Callers, CallerAt(j, "markRead")'
        PROVE  /\ caller'[j] = caller[j] /\ CallerAt(j, "markRead")
               /\ caller[j].app \in Apps
    BY <1>5, <1>6, <2>1 DEF CallerAt
  <2>2. ASSUME NEW j \in Callers, CallerAt(j, "markRead")',
               NEW i \in DOMAIN chat'[caller[j].app], i > caller[j].at,
               chat'[caller[j].app][i].sender # senderOf(caller[j].user)
        PROVE  \/ i <= shown[caller[j].app][senderOf(caller[j].user)]
               \/ <<caller[j].app, senderOf(caller[j].user), i>> \in unseen
    <3>1. CallerAt(j, "markRead") /\ caller[j].app \in Apps
      BY <2>1, <2>2
    <3>2. /\ i \in DOMAIN chat[caller[j].app]
          /\ chat[caller[j].app][i].sender # senderOf(caller[j].user)
      BY <1>3, <2>2, <3>1
    <3>3. QED
      BY <2>2, <3>1, <3>2 DEF Marks, LateNoted
  <2>3. QED
    BY <1>2, <2>1, <2>2 DEF LateNoted
<1>12. QED
  BY <1>7, <1>8, <1>9, <1>10, <1>11 DEF Marks

LEMMA AnswerMarks ==
  ASSUME DeliveryTypeOK, Marks, NEW k \in Callers, answerThread(k)
  PROVE  Marks'
<1> DEFINE c == caller[k]
           mine == senderOf(c.user)
<1>1. /\ CallerAt(k, "answer") /\ c.app \in Apps
      /\ mine \in Side /\ c.at \in Nat
      /\ role(c.user) # "PARTNER" /\ c.at <= Len(chat[c.app])
  BY CallerType DEF answerThread, CallerAt, Marks, RequestsFit
<1>2. UNCHANGED chat
  BY DEF answerThread
<1>3. shown' = IF c.at < shown[c.app][mine] THEN shown
               ELSE [shown EXCEPT ![c.app][mine] = c.at]
  BY <1>1 DEF answerThread
<1>4. unseen' = {m \in unseen : m[3] > shown'[m[1]][m[2]]}
  BY DEF answerThread
<1>5. /\ caller'[k] = Idle
      /\ \A j \in Callers : j # k => caller'[j] = caller[j]
  BY DEF answerThread, Finish, DeliveryTypeOK
<1>6. \A j \in Callers : caller'[j] # Idle =>
        /\ j # k /\ caller'[j] = caller[j] /\ caller[j] # Idle
        /\ caller[j].app \in Apps /\ caller[j].at \in Nat
        /\ senderOf(caller[j].user) \in Side
  BY <1>5, CallerType
<1> HIDE DEF c, mine
<1>7. ASSUME NEW a \in Apps, NEW side \in Side
      PROVE  /\ shown[a][side] \in Nat
             /\ shown'[a][side] =
                  IF a = c.app /\ side = mine /\ ~(c.at < shown[a][side])
                  THEN c.at ELSE shown[a][side]
             /\ shown'[a][side] \in Nat /\ shown[a][side] <= shown'[a][side]
  <2>1. shown[a][side] \in Nat
    BY ThreadType
  <2>2. shown'[a][side] =
          IF a = c.app /\ side = mine /\ ~(c.at < shown[a][side])
          THEN c.at ELSE shown[a][side]
    BY <1>1, <1>3 DEF DeliveryTypeOK
  <2>3. QED
    BY <1>1, <2>1, <2>2
<1>8. RequestsFit'
  BY <1>2, <1>6 DEF Marks, RequestsFit
<1>9. ShownFits'
  BY <1>1, <1>2, <1>7 DEF Marks, ShownFits
<1>10. ShownIsRead'
  <2> SUFFICES ASSUME NEW a \in Apps, NEW side \in Side,
                      NEW i \in DOMAIN chat[a], i <= shown'[a][side],
                      chat[a][i].sender # side
               PROVE  side \in chat[a][i].readBy
    BY <1>2 DEF ShownIsRead
  <2>1. CASE i <= shown[a][side]
    BY <2>1 DEF Marks, ShownIsRead
  <2>2. CASE ~(i <= shown[a][side])
    <3>1. a = c.app /\ side = mine /\ i <= c.at
      BY <1>7, <2>2
    <3>2. QED
      BY <1>1, <3>1 DEF Marks, AnswersMarked, c, mine
  <2>3. QED
    BY <2>1, <2>2
<1>11. ASSUME NEW a \in Apps, NEW side \in Side, NEW i \in DOMAIN chat[a],
              i > shown'[a][side], <<a, side, i>> \in unseen
       PROVE  <<a, side, i>> \in unseen'
  BY <1>4, <1>11
<1>12. ReadIsShown'
  <2> SUFFICES ASSUME NEW a \in Apps, NEW side \in Side,
                      NEW i \in DOMAIN chat[a], i > shown'[a][side],
                      chat[a][i].sender # side, side \in chat[a][i].readBy
               PROVE  \/ <<a, side, i>> \in unseen'
                      \/ \E j \in Callers : Held(j, a, side, i)'
    BY <1>2 DEF ReadIsShown
  <2>1. i \in Nat
    BY ThreadType
  <2>2. i > shown[a][side]
    BY <1>7, <2>1
  <2>3. CASE <<a, side, i>> \in unseen
    BY <1>11, <2>3
  <2>4. ASSUME NEW j \in Callers, Held(j, a, side, i)
        PROVE  Held(j, a, side, i)'
    <3>1. j # k
      <4>1. SUFFICES ASSUME j = k PROVE FALSE
        OBVIOUS
      <4>2. a = c.app /\ side = mine /\ i \in shown[a][side] + 1 .. c.at
        BY <2>4, <4>1 DEF Held, c, mine
      <4>3. QED
        BY <1>1, <1>7, <2>1, <4>2
    <3>2. caller'[j] = caller[j] /\ caller[j].at \in Int
      BY <1>5, <2>4, <3>1, CallerType DEF Held, CallerAt
    <3>3. i \in shown'[a][side] + 1 .. caller[j].at
      BY <1>7, <2>1, <2>4, <3>2 DEF Held
    <3>4. QED
      BY <2>4, <3>2, <3>3 DEF Held, CallerAt
  <2>5. QED
    BY <2>2, <2>3, <2>4 DEF Marks, ReadIsShown
<1>13. AnswersMarked'
  BY <1>2, <1>6 DEF Marks, AnswersMarked, CallerAt
<1>14. LateNoted'
  <2>1. ASSUME NEW j \in Callers, CallerAt(j, "markRead")',
               NEW i \in DOMAIN chat[caller[j].app], i > caller[j].at,
               chat[caller[j].app][i].sender # senderOf(caller[j].user)
        PROVE  \/ i <= shown'[caller[j].app][senderOf(caller[j].user)]
               \/ <<caller[j].app, senderOf(caller[j].user), i>> \in unseen'
    <3> DEFINE a == caller[j].app
               side == senderOf(caller[j].user)
    <3>1. CallerAt(j, "markRead") /\ a \in Apps /\ side \in Side
      BY <1>6, <2>1 DEF CallerAt
    <3>2. i <= shown[a][side] \/ <<a, side, i>> \in unseen
      BY <2>1, <3>1 DEF Marks, LateNoted
    <3>3. i \in Nat
      BY <3>1, ThreadType
    <3> HIDE DEF a, side
    <3>4. i <= shown'[a][side] \/ i > shown'[a][side]
      BY <1>7, <3>1, <3>3
    <3>5. CASE i <= shown[a][side]
      BY <1>7, <3>1, <3>3, <3>5 DEF a, side
    <3>6. CASE <<a, side, i>> \in unseen /\ i > shown'[a][side]
      <4>1. i \in DOMAIN chat[a]
        BY <2>1 DEF a
      <4>2. QED
        BY <1>11, <3>1, <3>6, <4>1 DEF a, side
    <3>7. QED
      BY <3>2, <3>4, <3>5, <3>6 DEF a, side
  <2>2. QED
    BY <1>2, <1>6, <2>1 DEF LateNoted, CallerAt
<1>15. QED
  BY <1>8, <1>9, <1>10, <1>12, <1>13, <1>14 DEF Marks

(* Nobody opens a thread of somebody else, and applications have no partner. *)
LEMMA NoPartner ==
  ASSUME NEW a \in Apps, NEW u \in Users, canAccess(parties(a), u)
  PROVE  role(u) # "PARTNER"
<1>1. SUFFICES ASSUME role(u) = "PARTNER" PROVE FALSE
  OBVIOUS
<1>2. u = None
  BY <1>1 DEF canAccess, parties
<1>3. QED
  BY <1>2, NoneAssumption

LEMMA StartMarks ==
  ASSUME DeliveryTypeOK, Marks, NEW k \in Callers, NEW a \in Apps,
         NEW u \in Users, openThread(k, a, u) \/ postUser(k, a, u)
  PROVE  Marks'
<1>1. role(u) # "PARTNER"
  BY NoPartner DEF openThread, postUser
<1> DEFINE new(pc) == [pc |-> pc, app |-> a, user |-> u, at |-> 0]
<1>2. PICK pc \in {"find", "create"} :
        caller' = [caller EXCEPT ![k] = new(pc)]
  BY DEF openThread, postUser, Begin
<1>3. new(pc) \in Caller /\ new(pc).pc = pc /\ new(pc).user = u
      /\ new(pc).at = 0 /\ new(pc).app = a
  BY DEF Caller
<1>4. caller[k] = Idle /\ UNCHANGED <<chat, shown, unseen>>
  BY DEF openThread, postUser, Begin
<1>5. new(pc).at <= Len(chat[new(pc).app]) /\ ~CallerAt(k, "answer")
  BY <1>3, <1>4, ThreadType DEF CallerAt
<1>6. /\ role(new(pc).user) # "PARTNER"
      /\ new(pc).pc \in {"find", "markRead", "create"}
      /\ new(pc).pc # "markRead"
  BY <1>1, <1>3
<1> HIDE DEF new
<1>7. QED
  BY <1>2, <1>3, <1>4, <1>5, <1>6, RequestMarks

LEMMA FindMarks ==
  ASSUME DeliveryTypeOK, Marks, NEW k \in Callers, findMessages(k)
  PROVE  Marks'
<1> DEFINE c == caller[k]
           new == [c EXCEPT !.pc = "markRead", !.at = Len(chat[c.app])]
<1>1. CallerAt(k, "find") /\ c \in Caller /\ c.app \in Apps
      /\ role(c.user) # "PARTNER" /\ Len(chat[c.app]) \in Nat
  BY CallerType, ThreadType
  DEF findMessages, CallerAt, Marks, RequestsFit
<1>2. caller' = [caller EXCEPT ![k] = new] /\ UNCHANGED <<chat, shown, unseen>>
  BY DEF findMessages, Proceed
<1>3. new \in Caller /\ new.pc = "markRead" /\ new.user = c.user
      /\ new.app = c.app /\ new.at = Len(chat[c.app])
  BY <1>1 DEF Caller
<1>4. ~CallerAt(k, "answer")
  BY <1>1 DEF CallerAt
<1>5. new.at <= Len(chat[new.app]) /\ new.at = Len(chat[new.app])
  BY <1>1, <1>3
<1> HIDE DEF new, c
<1>6. role(new.user) # "PARTNER" /\ new.pc \in {"find", "markRead", "create"}
  BY <1>1, <1>3
<1>7. QED
  BY <1>2, <1>3, <1>4, <1>5, <1>6, RequestMarks

LEMMA CreateMarks ==
  ASSUME DeliveryTypeOK, Marks, NEW k \in Callers, createMessage(k)
  PROVE  Marks'
<1> DEFINE c == caller[k]
<1>1. CallerAt(k, "create") /\ c.app \in Apps /\ c.user \in Users
  BY CallerType DEF createMessage, CallerAt
<1>2. userRow(c.user) \in ChatMessage
      /\ userRow(c.user).sender = senderOf(c.user)
      /\ userRow(c.user).readBy = {senderOf(c.user)}
  BY <1>1, RowTypes DEF userRow
<1>3. \A a \in Apps :
        chat'[a] = IF a = c.app THEN Append(chat[a], userRow(c.user))
                   ELSE chat[a]
  BY DEF createMessage, DeliveryTypeOK
<1>4. overtaken(c.app, Len(chat[c.app]) + 1, senderOf(c.user)) \subseteq unseen'
      /\ unseen \subseteq unseen' /\ UNCHANGED shown
  BY DEF createMessage
<1>5. \A j \in Callers : caller'[j] = IF j = k THEN Idle ELSE caller[j]
  BY DEF createMessage, Finish, DeliveryTypeOK
<1>6. \A j \in Callers :
        /\ caller'[j] = caller[j] \/ caller'[j] = Idle
        /\ CallerAt(j, "answer") => caller'[j] = caller[j]
  BY <1>1, <1>5 DEF CallerAt
<1> HIDE DEF c
<1>7. \A a \in Apps :
        \/ chat'[a] = chat[a]
        \/ \E row \in ChatMessage :
             /\ chat'[a] = Append(chat[a], row)
             /\ row.readBy \subseteq {row.sender}
             /\ overtaken(a, Len(chat[a]) + 1, row.sender) \subseteq unseen'
  BY <1>2, <1>3, <1>4
<1>8. QED
  BY <1>4, <1>6, <1>7, GrowthMarks

LEMMA ServiceMarks ==
  ASSUME IInv, DeliveryTypeOK, Marks, Service
  PROVE  Marks'
<1>1. UNCHANGED <<caller, shown>> /\ unseen \subseteq unseen'
  BY DEF Service
<1>2. \A m \in Message :
        /\ systemRow(m) \in ChatMessage
        /\ systemRow(m).sender = "SYSTEM" /\ systemRow(m).readBy = {}
  BY RowTypes DEF systemRow
<1>3. chat \in [Apps -> Seq(ChatMessage)]
  BY DEF DeliveryTypeOK
<1>4. \A a \in Apps :
        \/ chat'[a] = chat[a]
        \/ \E row \in ChatMessage :
             /\ chat'[a] = Append(chat[a], row)
             /\ row.readBy \subseteq {row.sender}
             /\ overtaken(a, Len(chat[a]) + 1, row.sender) \subseteq unseen'
  <2> SUFFICES ASSUME NEW a \in Apps, chat'[a] # chat[a]
               PROVE  \E row \in ChatMessage :
                        /\ chat'[a] = Append(chat[a], row)
                        /\ row.readBy \subseteq {row.sender}
                        /\ overtaken(a, Len(chat[a]) + 1, row.sender)
                             \subseteq unseen'
    OBVIOUS
  <2>1. PICK m \in Message : chat'[a] = Append(chat[a], systemRow(m))
    BY <1>3, ServiceChat
  <2>2. overtaken(a, Len(chat[a]) + 1, "SYSTEM") \subseteq unseen'
    BY <1>3, ServiceChat
  <2>3. QED
    BY <1>2, <2>1, <2>2
<1>5. QED
  BY <1>1, <1>4, GrowthMarks

LEMMA StopMarks ==
  ASSUME DeliveryTypeOK, Marks, stop
  PROVE  Marks'
<1>1. /\ unseen' = unseen \cup InHand /\ UNCHANGED <<chat, shown>>
      /\ \A k \in Callers : caller'[k] = Idle
  BY DEF stop
<1>2. RequestsFit' /\ ShownFits' /\ ShownIsRead'
  BY <1>1 DEF Marks, RequestsFit, ShownFits, ShownIsRead
<1>3. ASSUME NEW k \in Callers, NEW a \in Apps, NEW side \in Side, NEW i,
             Held(k, a, side, i)
      PROVE  <<a, side, i>> \in InHand
  BY <1>3 DEF Held, InHand
<1>4. ReadIsShown'
  BY <1>1, <1>3 DEF Marks, ReadIsShown
<1>5. AnswersMarked' /\ LateNoted'
  BY <1>1 DEF AnswersMarked, LateNoted, CallerAt
<1>6. QED
  BY <1>2, <1>4, <1>5 DEF Marks

LEMMA NextMarks ==
  /\ IInv /\ DeliveryTypes /\ Marks
  /\ [DeliveryNext]_deliveryVars
  => Marks'
<1> SUFFICES ASSUME IInv, DeliveryTypeOK, Marks, [DeliveryNext]_deliveryVars
             PROVE  Marks'
  BY DEF DeliveryTypes
<1>1. ASSUME NEW k \in Callers, Chat(k)
      PROVE  Marks'
  <2>1. CASE failCall(k)
    <3>1. UNCHANGED <<chat, shown, unseen>>
      BY <2>1 DEF failCall
    <3>2. \A j \in Callers :
            /\ caller'[j] = caller[j] \/ caller'[j] = Idle
            /\ CallerAt(j, "answer") => caller'[j] = caller[j]
      BY <2>1 DEF failCall, Finish, CallerAt, DeliveryTypeOK
    <3>3. QED
      BY <3>1, <3>2, GrowthMarks
  <2>2. QED
    BY <1>1, <2>1, StartMarks, FindMarks, MarkMarks, AnswerMarks, CreateMarks
    DEF Chat
<1>2. ASSUME UNCHANGED chatVars PROVE Marks'
  <2>1. UNCHANGED <<caller, chat, shown, unseen>>
    BY <1>2 DEF chatVars
  <2>2. QED
    BY <2>1, GrowthMarks
<1>3. CASE Inbox
  BY <1>2, <1>3 DEF Inbox, create, failFanOut, markAllRead, markRead, remove,
    Tap
<1>4. CASE UNCHANGED deliveryVars
  BY <1>2, <1>4 DEF deliveryVars
<1>5. QED
  BY <1>1, <1>3, <1>4, ServiceMarks, StopMarks DEF DeliveryNext

LEMMA InitMarks == DeliveryInit => Marks
<1> SUFFICES ASSUME DeliveryInit PROVE Marks
  OBVIOUS
<1>1. \A k \in Callers : caller[k] = Idle
  BY DEF DeliveryInit
<1>2. \A a \in Apps : /\ chat[a] = << >>
                       /\ \A side \in Side : shown[a][side] = 0
  BY DEF DeliveryInit
<1>3. ShownFits /\ ShownIsRead /\ ReadIsShown
  BY <1>2 DEF ShownFits, ShownIsRead, ReadIsShown
<1>4. QED
  BY <1>1, <1>3 DEF Marks, RequestsFit, AnswersMarked, LateNoted, CallerAt

(* Whoever posts and reads meanwhile, and whatever is lost: the badge of a *)
(* side counts nothing it was shown, and what it does not count although   *)
(* others wrote it and it was not shown was overtaken or lost on the way.  *)
THEOREM BadgeIsAccountedFor == DeliverySpec => []BadgeCountsUnseen
<1>1. DeliveryTypeOK /\ Marks => BadgeCountsUnseen
  <2> SUFFICES ASSUME DeliveryTypeOK, Marks, NEW a \in Apps, NEW side \in Side
               PROVE  LET fresh == {i \in DOMAIN chat[a] :
                                      /\ i > shown[a][side]
                                      /\ chat[a][i].sender # side}
                      IN /\ unread(a, side) \subseteq fresh
                         /\ \A i \in fresh \ unread(a, side) :
                              <<a, side, i>> \in unseen \cup InHand
    BY DEF BadgeCountsUnseen
  <2>1. ASSUME NEW i \in unread(a, side) PROVE i > shown[a][side]
    <3>1. i \in Nat /\ shown[a][side] \in Nat
      BY ThreadType DEF unread
    <3>2. ~(i <= shown[a][side])
      BY DEF unread, Marks, ShownIsRead
    <3>3. QED
      BY <3>1, <3>2
  <2>2. ASSUME NEW i \in DOMAIN chat[a], i > shown[a][side],
               chat[a][i].sender # side, i \notin unread(a, side)
        PROVE  <<a, side, i>> \in unseen \cup InHand
    <3>1. side \in chat[a][i].readBy
      BY <2>2 DEF unread
    <3>2. \/ <<a, side, i>> \in unseen
          \/ \E k \in Callers : Held(k, a, side, i)
      BY <2>2, <3>1 DEF Marks, ReadIsShown
    <3>3. QED
      BY <3>2 DEF Held, InHand
  <2>3. QED
    BY <2>1, <2>2 DEF unread
<1>2. DeliverySpec => [](IInv /\ DeliveryTypes /\ Marks)
  <2>1. DeliveryInit => Marks
    BY InitMarks
  <2>2. QED
    BY <2>1, NextMarks, DeliveryInvariance, PTL DEF DeliverySpec
<1>3. QED
  BY <1>1, <1>2, PTL DEF DeliveryTypes

-----------------------------------------------------------------------------
(* Messages after a rejection *)

(* A rejection is stored before anything is said of it, and stays.         *)
RejectionSaved ==
  \A h \in Handlers :
    /\ InFlight(h)
    /\ handler[h].op = "reject"
    /\ handler[h].pc \in {"postSystem", "announce", "record", "publish"}
    => applications[handler[h].app].isRejected

LEMMA RejectionStays ==
  ASSUME IInv, [Next]_vars, NEW a \in Apps, applications[a].isRejected
  PROVE  applications'[a].isRejected
BY OnlySaveWrites, SaveEffect

LEMMA SaveRejects ==
  ASSUME IInv, NEW h \in Handlers, save(h), handler[h].op = "reject"
  PROVE  applications'[handler[h].app].isRejected
<1> DEFINE b == handler[h]
           cur == applications[b.app]
<1>1. b \in Busy /\ b.app \in Apps /\ b.seen \in Row /\ CheckPassed(b)
  BY BusyHandler DEF IInv, save, At
<1>2. edited(b).isRejected = TRUE /\ b.seen.isRejected = FALSE
  BY <1>1, EditedFacts DEF CheckPassed, Row
<1>3. applications'[b.app] = merged(cur, b.seen, edited(b))
  BY SaveEffect
<1> HIDE DEF b, cur
<1>4. merged(cur, b.seen, edited(b)).isRejected
  BY <1>2 DEF merged, delta
<1>5. QED
  BY <1>3, <1>4 DEF b

LEMMA NextRejectionSaved ==
  ASSUME IInv, RejectionSaved, [Next]_vars
  PROVE  RejectionSaved'
<1> DEFINE late(b) ==
             b.op = "reject"
             /\ b.pc \in {"postSystem", "announce", "record", "publish"}
<1>1. ASSUME \A h \in Handlers : InFlight(h)' /\ late(handler'[h]) =>
               \/ /\ InFlight(h) /\ late(handler[h])
                  /\ handler'[h].app = handler[h].app
               \/ applications'[handler'[h].app].isRejected
      PROVE  RejectionSaved'
  <2>1. \A h \in Handlers : InFlight(h) => handler[h].app \in Apps
    BY BusyHandler DEF IInv
  <2>2. QED
    BY <1>1, <2>1, RejectionStays DEF RejectionSaved
<1>2. handler \in [Handlers -> {Idle} \cup Busy]
  BY DEF IInv, TypeOK
<1>3. ASSUME NEW h \in Handlers, Arrive(h)
      PROVE  RejectionSaved'
  <2>1. /\ handler'[h].pc \in {"pendingMandatory", "save"}
        /\ \A k \in Handlers : k # h => handler'[k] = handler[k]
    BY <1>2, <1>3
    DEF Arrive, submit, advanceStage, revertStage, reject, Load
  <2>2. QED
    BY <1>1, <2>1 DEF InFlight
<1>4. ASSUME NEW h \in Handlers, Leave(h)
      PROVE  RejectionSaved'
  BY <1>1, <1>2, <1>4 DEF Leave, InFlight
<1>5. ASSUME NEW h \in Handlers, NEW from, NEW to, At(h, from), Goto(h, to),
             \/ to = "save"
             \/ from \in {"postSystem", "announce", "record"}
             \/ save(h)
      PROVE  RejectionSaved'
  <2>1. InFlight(h) /\ handler[h].pc = from /\ handler[h] \in Busy
    BY <1>2, <1>5 DEF At, InFlight
  <2>2. /\ handler'[h].pc = to /\ handler'[h].op = handler[h].op
        /\ handler'[h].app = handler[h].app
        /\ \A k \in Handlers : k # h => handler'[k] = handler[k]
    BY <1>2, <1>5, <2>1 DEF Goto, Busy
  <2>3. ASSUME save(h), handler[h].op = "reject"
        PROVE  applications'[handler'[h].app].isRejected
    BY <2>2, <2>3, SaveRejects
  <2>4. QED
    BY <1>1, <1>5, <2>1, <2>2, <2>3 DEF InFlight
<1>6. ASSUME NEW h \in Handlers, Continue(h)
      PROVE  RejectionSaved'
  BY <1>4, <1>5, <1>6
  DEF Continue, pendingMandatory, save, postSystem, announce, record, publish
<1>7. CASE crash
  BY <1>1, <1>7 DEF crash, InFlight
<1>8. CASE (\E a \in Apps : documentsChange(a)) \/ UNCHANGED vars
  BY <1>1, <1>8 DEF documentsChange, vars, InFlight
<1>9. QED
  BY <1>3, <1>4, <1>6, <1>7, <1>8 DEF Next, fail

LEMMA SaidAfterSaved ==
  ASSUME IInv, RejectionSaved, Service, NEW a \in Apps, Posted(a),
         newest(thread'[a]).about = "ApplicationRejected"
  PROVE  applications[a].isRejected
<1>1. PICK h \in Handlers : postSystem(h)
  <2>1. PICK h \in Handlers : Arrive(h) \/ Continue(h) \/ fail(h)
    BY DEF Service, documentsChange, Posted
  <2>2. QED
    BY <2>1 DEF Posted, Continue, Arrive, submit, advanceStage, revertStage,
      reject, Load, fail, pendingMandatory, save, announce, record, publish
<1> DEFINE b == handler[h]
<1>2. /\ InFlight(h) /\ b.pc = "postSystem" /\ b \in Busy /\ b.app \in Apps
      /\ systemMessage(b) \in Message
  BY <1>1, BusyHandler, ReportType DEF IInv, postSystem, At
<1>3. thread \in [Apps -> Seq(Message)]
  BY DEF IInv, TypeOK
<1>4. a = b.app /\ thread'[a] = Append(thread[a], systemMessage(b))
  BY <1>1, <1>2, <1>3 DEF postSystem, Posted
<1>5. newest(thread'[a]) = systemMessage(b)
  BY <1>2, <1>3, <1>4, AppendProperties DEF newest
<1>6. b.op = "reject"
  BY <1>2, <1>5 DEF systemMessage, action, Busy, Ops
<1>7. QED
  BY <1>2, <1>4, <1>6 DEF RejectionSaved

LateRows(a) == AfterRejection(a) \cap UserRows(a)

LEMMA SameThread ==
  ASSUME NEW a \in Apps, DOMAIN chat'[a] = DOMAIN chat[a],
         \A i \in DOMAIN chat[a] : /\ chat'[a][i].sender = chat[a][i].sender
                                   /\ chat'[a][i].body = chat[a][i].body
  PROVE  Rejections(a)' = Rejections(a) /\ LateRows(a)' = LateRows(a)
<1>1. Rejections(a)' = Rejections(a)
  BY DEF Rejections, IsRejection
<1>2. AfterRejection(a)' = AfterRejection(a)
  BY <1>1 DEF AfterRejection
<1>3. UserRows(a)' = UserRows(a)
  BY DEF UserRows
<1>4. QED
  BY <1>1, <1>2, <1>3 DEF LateRows

LEMMA LaterThread ==
  ASSUME DeliveryTypeOK, NEW a \in Apps, NEW row \in ChatMessage,
         chat'[a] = Append(chat[a], row)
  PROVE  LET n == Len(chat[a]) + 1 IN
         /\ Rejections(a)' = Rejections(a) \cup
                               (IF IsRejection(row) THEN {n} ELSE {})
         /\ LateRows(a)' \subseteq LateRows(a) \cup {n}
         /\ row.sender = "SYSTEM" => LateRows(a)' = LateRows(a)
<1> DEFINE n == Len(chat[a]) + 1
<1>1. /\ DOMAIN chat[a] = 1 .. Len(chat[a]) /\ Len(chat[a]) \in Nat
      /\ DOMAIN chat'[a] = 1 .. n
      /\ \A i \in DOMAIN chat[a] : chat'[a][i] = chat[a][i]
      /\ chat'[a][n] = row
  BY GrownThread, ThreadType
<1>2. /\ DOMAIN chat'[a] = DOMAIN chat[a] \cup {n}
      /\ \A i \in DOMAIN chat[a] : i < n /\ i \in Nat
  BY <1>1
<1> HIDE DEF n
<1>3. Rejections(a)' = Rejections(a) \cup
                         (IF IsRejection(row) THEN {n} ELSE {})
  BY <1>1, <1>2 DEF Rejections, IsRejection
<1>4. AfterRejection(a)' \cap DOMAIN chat[a] = AfterRejection(a)
  <2>1. Rejections(a) \subseteq DOMAIN chat[a]
    BY DEF Rejections
  <2>2. n \in Nat
    BY <1>1 DEF n
  <2>3. \A j \in DOMAIN chat[a] :
          (\E i \in Rejections(a)' : i < j) <=> (\E i \in Rejections(a) : i < j)
    BY <1>2, <1>3, <2>1, <2>2
  <2>4. QED
    BY <1>2, <2>3 DEF AfterRejection
<1>5. /\ UserRows(a)' \cap DOMAIN chat[a] = UserRows(a)
      /\ UserRows(a)' \subseteq DOMAIN chat[a] \cup {n}
      /\ row.sender = "SYSTEM" => n \notin UserRows(a)'
  BY <1>1, <1>2 DEF UserRows
<1>6. QED
  BY <1>3, <1>4, <1>5 DEF LateRows, n

LEMMA LateFinite ==
  ASSUME DeliveryTypeOK, NEW a \in Apps
  PROVE  /\ IsFiniteSet(LateRows(a)) /\ Cardinality(LateRows(a)) \in Nat
         /\ IsFiniteSet(Posts(a)) /\ Cardinality(Posts(a)) \in Nat
<1>1. IsFiniteSet(1 .. Len(chat[a]))
  <2>1. 1 \in Int /\ Len(chat[a]) \in Int
    BY ThreadType
  <2>2. QED
    BY <2>1, FS_Interval
<1>2. LateRows(a) \subseteq 1 .. Len(chat[a])
  BY ThreadType DEF LateRows, UserRows
<1>3. Posts(a) \subseteq Callers
  BY DEF Posts
<1>4. QED
  BY <1>1, <1>2, <1>3, FS_Subset, FS_CardinalityType, DeliveryAssumption

LateFits ==
  \A a \in Apps :
    /\ posting[a] \in Nat
    /\ Rejections(a) # {} =>
         /\ applications[a].isRejected
         /\ Cardinality(LateRows(a)) + Cardinality(Posts(a)) <= posting[a]

(* Nothing is said and nobody starts to post.                              *)
LEMMA QuietFits ==
  ASSUME IInv, [Next]_vars, DeliveryTypeOK, LateFits, UNCHANGED posting,
         \A a \in Apps : /\ Rejections(a)' = Rejections(a)
                         /\ LateRows(a)' = LateRows(a)
                         /\ Rejections(a) # {} => Posts(a)' \subseteq Posts(a)
  PROVE  LateFits'
<1> SUFFICES ASSUME NEW a \in Apps, Rejections(a) # {}
             PROVE  /\ applications'[a].isRejected
                    /\ Cardinality(LateRows(a)') + Cardinality(Posts(a)')
                         <= posting[a]
  BY DEF LateFits
<1>1. applications'[a].isRejected
  BY RejectionStays DEF LateFits
<1>2. Cardinality(Posts(a)') <= Cardinality(Posts(a))
      /\ Cardinality(Posts(a)') \in Nat
  <2>1. Posts(a)' \in SUBSET Posts(a) /\ IsFiniteSet(Posts(a))
    BY LateFinite
  <2>2. QED
    BY <2>1, FS_Subset, FS_CardinalityType
<1>3. /\ Cardinality(LateRows(a)) + Cardinality(Posts(a)) <= posting[a]
      /\ posting[a] \in Nat
      /\ Cardinality(LateRows(a)) \in Nat /\ Cardinality(Posts(a)) \in Nat
  BY LateFinite DEF LateFits
<1>4. QED
  BY <1>1, <1>2, <1>3

LEMMA ServiceFits ==
  ASSUME IInv, [Next]_vars, DeliveryTypeOK, RejectionSaved, LateFits, Service
  PROVE  LateFits'
<1>1. ASSUME NEW a \in Apps
      PROVE  /\ Posts(a)' = Posts(a)
             /\ posting'[a] = IF Rejections(a) = {} /\ Rejections(a)' # {}
                              THEN Cardinality(Posts(a)) ELSE posting[a]
             /\ chat'[a] = IF Posted(a)
                           THEN Append(chat[a], systemRow(newest(thread'[a])))
                           ELSE chat[a]
  BY DEF Service, Posts, CallerAt
<1> SUFFICES ASSUME NEW a \in Apps
             PROVE  /\ posting'[a] \in Nat
                    /\ Rejections(a)' # {} =>
                         /\ applications'[a].isRejected
                         /\ Cardinality(LateRows(a)') + Cardinality(Posts(a))
                              <= posting'[a]
  BY <1>1 DEF LateFits
<1>2. /\ posting[a] \in Nat
      /\ Cardinality(LateRows(a)) \in Nat /\ Cardinality(Posts(a)) \in Nat
  BY LateFinite DEF LateFits
<1>3. CASE ~Posted(a)
  <2>1. Rejections(a)' = Rejections(a) /\ LateRows(a)' = LateRows(a)
    BY <1>1, <1>3, SameThread
  <2>2. QED
    BY <1>1, <1>2, <2>1, RejectionStays DEF LateFits
<1>4. CASE Posted(a)
  <2> DEFINE m == newest(thread'[a])
             row == systemRow(m)
             n == Len(chat[a]) + 1
  <2>1. chat \in [Apps -> Seq(ChatMessage)]
    BY DEF DeliveryTypeOK
  <2>2. m \in Message
    <3>1. PICK b \in Apps, x \in Message :
            thread' = [thread EXCEPT ![b] = Append(@, x)]
      BY <1>4, ServiceLogs DEF Posted
    <3>2. thread \in [Apps -> Seq(Message)]
      BY DEF IInv, TypeOK
    <3>3. thread'[a] = Append(thread[a], x) /\ thread[a] \in Seq(Message)
      BY <1>4, <3>1, <3>2 DEF Posted
    <3>4. QED
      BY <3>3, AppendProperties DEF newest
  <2>3. row \in ChatMessage /\ row.sender = "SYSTEM"
        /\ (IsRejection(row) <=> m.about = "ApplicationRejected")
    BY <2>2, RowTypes DEF systemRow, IsRejection
  <2>4. chat'[a] = Append(chat[a], row)
    BY <1>1, <1>4
  <2> HIDE DEF row, m
  <2>5. /\ Rejections(a)' = Rejections(a) \cup
                              (IF IsRejection(row) THEN {n} ELSE {})
        /\ LateRows(a)' = LateRows(a)
    BY <2>3, <2>4, LaterThread
  <2>6. CASE Rejections(a) # {}
    BY <1>1, <1>2, <2>5, <2>6, RejectionStays DEF LateFits
  <2>7. CASE Rejections(a) = {} /\ IsRejection(row)
    <3>1. applications'[a].isRejected
      BY <1>4, <2>3, <2>7, SaidAfterSaved, RejectionStays DEF m
    <3>2. LateRows(a)' = {} /\ Cardinality({}) = 0
      BY <2>5, <2>7, FS_EmptySet DEF LateRows, AfterRejection
    <3>3. Rejections(a)' # {}
      BY <2>5, <2>7
    <3>4. posting'[a] = Cardinality(Posts(a))
      BY <1>1, <2>7, <3>3
    <3>5. Cardinality(LateRows(a)') = 0
      BY <3>2
    <3>6. QED
      BY <1>2, <3>1, <3>4, <3>5
  <2>8. CASE Rejections(a) = {} /\ ~IsRejection(row)
    <3>1. Rejections(a)' = {}
      BY <2>5, <2>8
    <3>2. QED
      BY <1>1, <1>2, <2>8, <3>1
  <2>9. QED
    BY <2>6, <2>7, <2>8
<1>5. QED
  BY <1>3, <1>4

(* A post lands: it was one of those on their way.                         *)
LEMMA CreateFits ==
  ASSUME IInv, [Next]_vars, DeliveryTypeOK, LateFits,
         NEW k \in Callers, createMessage(k)
  PROVE  LateFits'
<1> DEFINE c == caller[k]
           row == userRow(c.user)
<1>1. /\ CallerAt(k, "create") /\ c.app \in Apps /\ c.user \in Users
      /\ UNCHANGED posting
  BY CallerType DEF createMessage, CallerAt
<1>2. \A a \in Apps : chat'[a] = IF a = c.app THEN Append(chat[a], row)
                                 ELSE chat[a]
  BY DEF createMessage, DeliveryTypeOK
<1>3. \A j \in Callers : caller'[j] = IF j = k THEN Idle ELSE caller[j]
  BY DEF createMessage, Finish, DeliveryTypeOK
<1>4. row \in ChatMessage /\ ~IsRejection(row)
  BY <1>1, RowTypes DEF userRow, IsRejection, senderOf
<1> HIDE DEF row
<1> SUFFICES ASSUME NEW a \in Apps, Rejections(a)' # {}
             PROVE  /\ applications'[a].isRejected
                    /\ Cardinality(LateRows(a)') + Cardinality(Posts(a)')
                         <= posting[a]
  BY <1>1 DEF LateFits
<1>5. Rejections(a)' = Rejections(a)
  <2>1. CASE a = c.app
    BY <1>2, <1>4, <2>1, LaterThread
  <2>2. CASE a # c.app
    BY <1>2, <2>2, SameThread
  <2>3. QED
    BY <2>1, <2>2
<1>6. applications'[a].isRejected
  BY <1>5, RejectionStays DEF LateFits
<1>7. /\ Cardinality(LateRows(a)) + Cardinality(Posts(a)) <= posting[a]
      /\ posting[a] \in Nat
      /\ IsFiniteSet(LateRows(a)) /\ Cardinality(LateRows(a)) \in Nat
      /\ IsFiniteSet(Posts(a)) /\ Cardinality(Posts(a)) \in Nat
  BY <1>5, LateFinite DEF LateFits
<1>8. CASE a # c.app
  <2>1. LateRows(a)' = LateRows(a)
    BY <1>2, <1>8, SameThread
  <2>2. Posts(a)' = Posts(a)
    BY <1>3, <1>8 DEF Posts, CallerAt
  <2>3. QED
    BY <1>6, <1>7, <2>1, <2>2
<1>9. CASE a = c.app
  <2> DEFINE n == Len(chat[a]) + 1
             more == LateRows(a) \cup {n}
  <2>1. LateRows(a)' \in SUBSET more
    BY <1>2, <1>4, <1>9, LaterThread
  <2>2. IsFiniteSet(more) /\ Cardinality(more) \in Nat
        /\ Cardinality(more) <= Cardinality(LateRows(a)) + 1
    BY <1>7, FS_AddElement, FS_CardinalityType
  <2>3. Cardinality(LateRows(a)') <= Cardinality(more)
        /\ Cardinality(LateRows(a)') \in Nat
    BY <2>1, <2>2, FS_Subset, FS_CardinalityType
  <2>4. k \in Posts(a) /\ Posts(a)' = Posts(a) \ {k}
    BY <1>1, <1>3, <1>9 DEF Posts, CallerAt
  <2>5. Cardinality(Posts(a)') = Cardinality(Posts(a)) - 1
    BY <1>7, <2>4, FS_RemoveElement
  <2>6. QED
    BY <1>6, <1>7, <2>2, <2>3, <2>5
<1>10. QED
  BY <1>8, <1>9

LEMMA OtherFits ==
  ASSUME IInv, [Next]_vars, DeliveryTypeOK, LateFits,
         UNCHANGED <<chat, posting>>,
         \A a \in Apps : Rejections(a) # {} => Posts(a)' \subseteq Posts(a)
  PROVE  LateFits'
BY SameThread, QuietFits

LEMMA ChatFits ==
  ASSUME IInv, [Next]_vars, DeliveryTypeOK, LateFits, NEW k \in Callers, Chat(k)
  PROVE  LateFits'
<1>1. ASSUME NEW a \in Apps, NEW u \in Users, openThread(k, a, u)
      PROVE  LateFits'
  <2>1. UNCHANGED <<chat, posting>>
        /\ caller'[k].pc = "find"
        /\ \A j \in Callers : j # k => caller'[j] = caller[j]
    BY <1>1 DEF openThread, Begin, DeliveryTypeOK
  <2>2. \A b \in Apps : Posts(b)' \subseteq Posts(b)
    BY <2>1 DEF Posts, CallerAt
  <2>3. QED
    BY <2>1, <2>2, OtherFits
<1>2. ASSUME NEW a \in Apps, NEW u \in Users, postUser(k, a, u)
      PROVE  LateFits'
  <2>1. UNCHANGED <<chat, posting>>
        /\ caller'[k].app = a
        /\ \A j \in Callers : j # k => caller'[j] = caller[j]
    BY <1>2 DEF postUser, Begin, DeliveryTypeOK
  <2>2. Rejections(a) = {}
    BY <1>2 DEF postUser, closed, LateFits
  <2>3. \A b \in Apps : Rejections(b) # {} => Posts(b)' \subseteq Posts(b)
    BY <2>1, <2>2 DEF Posts, CallerAt
  <2>4. QED
    BY <2>1, <2>3, OtherFits
<1>3. ASSUME findMessages(k) \/ answerThread(k) \/ failCall(k)
      PROVE  LateFits'
  <2>1. UNCHANGED <<chat, posting>>
    BY <1>3 DEF findMessages, answerThread, failCall
  <2>2. /\ caller'[k] = Idle \/ caller'[k].pc = "markRead"
        /\ \A j \in Callers : j # k => caller'[j] = caller[j]
    <3>1. CASE findMessages(k)
      <4>1. caller[k] \in Caller
        BY <3>1, CallerType DEF findMessages, CallerAt
      <4>2. QED
        BY <3>1, <4>1 DEF findMessages, Proceed, Caller, DeliveryTypeOK
    <3>2. CASE answerThread(k) \/ failCall(k)
      BY <3>2 DEF answerThread, failCall, Finish, DeliveryTypeOK
    <3>3. QED
      BY <1>3, <3>1, <3>2
  <2>3. \A b \in Apps : Posts(b)' \subseteq Posts(b)
    BY <2>2 DEF Posts, CallerAt
  <2>4. QED
    BY <2>1, <2>3, OtherFits
<1>4. CASE markThreadRead(k)
  <2> DEFINE c == caller[k]
             readers == IF role(c.user) = "PARTNER" THEN {}
                        ELSE {senderOf(c.user)}
  <2>1. /\ c \in Caller /\ c.app \in Apps /\ readers \in SUBSET Side
        /\ UNCHANGED posting
    BY <1>4, CallerType DEF markThreadRead, CallerAt
  <2>2. /\ caller'[k].pc = "answer"
        /\ \A j \in Callers : j # k => caller'[j] = caller[j]
    BY <1>4, <2>1 DEF markThreadRead, Proceed, Caller, DeliveryTypeOK
  <2>3. \A a \in Apps :
          chat'[a] = IF a = c.app THEN markedAsRead(chat[a], readers)
                     ELSE chat[a]
    BY <1>4 DEF markThreadRead, DeliveryTypeOK
  <2>4. \A b \in Apps : Posts(b)' \subseteq Posts(b)
    BY <2>2 DEF Posts, CallerAt
  <2> HIDE DEF readers
  <2>5. ASSUME NEW a \in Apps
        PROVE  Rejections(a)' = Rejections(a) /\ LateRows(a)' = LateRows(a)
    <3>1. chat[a] \in Seq(ChatMessage)
      BY ThreadType
    <3>2. /\ DOMAIN chat'[a] = DOMAIN chat[a]
          /\ \A i \in DOMAIN chat[a] :
               /\ chat'[a][i].sender = chat[a][i].sender
               /\ chat'[a][i].body = chat[a][i].body
      BY <2>1, <2>3, <3>1, MarkedThread
    <3>3. QED
      BY <3>2, SameThread
  <2>6. QED
    BY <2>1, <2>4, <2>5, QuietFits
<1>5. QED
  BY <1>1, <1>2, <1>3, <1>4, CreateFits DEF Chat

LEMMA NextFits ==
  /\ IInv /\ DeliveryTypes /\ RejectionSaved /\ LateFits
  /\ [DeliveryNext]_deliveryVars
  => LateFits'
<1> SUFFICES ASSUME IInv, DeliveryTypeOK, RejectionSaved, LateFits,
                    [DeliveryNext]_deliveryVars
             PROVE  LateFits'
  BY DEF DeliveryTypes
<1>1. [Next]_vars
  BY StepRefines
<1>2. ASSUME UNCHANGED chatVars PROVE LateFits'
  <2>1. UNCHANGED <<chat, posting>> /\ \A a \in Apps : Posts(a)' = Posts(a)
    BY <1>2 DEF chatVars, Posts, CallerAt
  <2>2. QED
    BY <1>1, <2>1, OtherFits
<1>3. CASE Inbox
  BY <1>2, <1>3 DEF Inbox, create, failFanOut, markAllRead, markRead, remove,
    Tap
<1>4. CASE stop
  <2>1. UNCHANGED <<chat, posting>> /\ \A a \in Apps : Posts(a)' = {}
    BY <1>4 DEF stop, Posts, CallerAt
  <2>2. QED
    BY <1>1, <2>1, OtherFits
<1>5. CASE UNCHANGED deliveryVars
  BY <1>2, <1>5 DEF deliveryVars
<1>6. QED
  BY <1>1, <1>3, <1>4, <1>5, ServiceFits, ChatFits DEF DeliveryNext

(* However posts, changes and losses interleave: no more messages follow a *)
(* rejection than were on their way when it was said.                      *)
THEOREM ClosedThreadStaysClosed == DeliverySpec => []LateMessagesWereInFlight
<1>1. LateFits => LateMessagesWereInFlight
  BY DEF LateFits, LateMessagesWereInFlight, LateRows
<1>2. DeliveryInit => RejectionSaved /\ LateFits
  <2> SUFFICES ASSUME DeliveryInit PROVE RejectionSaved /\ LateFits
    OBVIOUS
  <2>1. RejectionSaved
    BY DEF DeliveryInit, Init, RejectionSaved, InFlight
  <2>2. \A a \in Apps : posting[a] = 0 /\ Rejections(a) = {}
    BY DEF DeliveryInit, Rejections
  <2>3. QED
    BY <2>1, <2>2 DEF LateFits
<1>3. IInv /\ RejectionSaved /\ [DeliveryNext]_deliveryVars => RejectionSaved'
  BY StepRefines, NextRejectionSaved
<1>4. QED
  BY <1>1, <1>2, <1>3, NextFits, DeliveryInvariance, PTL DEF DeliverySpec

-----------------------------------------------------------------------------
(* The inbox against the thread.  The stream of events lies between the    *)
(* two: what the thread says and the stream does not is in a handler's     *)
(* hands or was lost with one, and what the stream says and the inbox does *)
(* not is being inserted or was lost on the way.                           *)

Text == [type : NotificationType, applicationId : Apps, stage : Stage]

SaidIn(text) ==
  LET a == text.applicationId IN
  {i \in DOMAIN thread[a] : /\ thread[a][i].about # "StageReverted"
                            /\ ToldBy(thread[a][i], a) = text}

Notifies(a, e, text) == fromEvent(e) /\ Telling(notification(a, e)) = text

Streamed(text) ==
  LET a == text.applicationId IN
  {i \in DOMAIN events[a] : Notifies(a, events[a][i], text)}

Sending == {"announce", "record", "publish"}

HasToTell(b, text) ==
  /\ b.pc \in Sending
  /\ b.app = text.applicationId
  /\ b.op # "revert"
  /\ ToldBy(systemMessage(b), b.app) = text

Unpublished(text) ==
  {h \in Handlers : InFlight(h) /\ HasToTell(handler[h], text)}

Inserting(text) ==
  {x \in fanOut : Telling(notification(x[1], events[x[1]][x[2]])) = text}

InInbox(text) ==
  {i \in DOMAIN notifications : Telling(notifications[i]) = text}

Conveyed(text) == Cardinality(InInbox(text)) + Cardinality(Inserting(text))

(* From the thread to the stream, and on to the inbox.                     *)
StreamFollows ==
  \A text \in Text :
    LET sent == Cardinality(Streamed(text)) + Cardinality(Unpublished(text)) IN
    /\ sent <= Cardinality(SaidIn(text))
    /\ Cardinality(SaidIn(text)) <= sent + failures

InboxFollows ==
  \A text \in Text :
    /\ Conveyed(text) <= Cardinality(Streamed(text))
    /\ Cardinality(Streamed(text)) <= Conveyed(text) + lost

(* A set with one element more, or none.                                   *)
LEMMA OneMore ==
  ASSUME NEW A, IsFiniteSet(A), NEW x, x \notin A,
         NEW B, A \subseteq B, B \subseteq A \cup {x}
  PROVE  /\ Cardinality(A) \in Nat /\ IsFiniteSet(B)
         /\ Cardinality(B) = Cardinality(A) + IF x \in B THEN 1 ELSE 0
<1>1. Cardinality(A) \in Nat
  BY FS_CardinalityType
<1>2. CASE x \in B
  <2>1. B = A \cup {x}
    BY <1>2
  <2>2. IsFiniteSet(A \cup {x}) /\ Cardinality(A \cup {x}) = Cardinality(A) + 1
    BY FS_AddElement
  <2> QED
    BY <1>1, <1>2, <2>1, <2>2
<1>3. CASE x \notin B
  <2>1. B = A
    BY <1>3
  <2> QED
    BY <1>1, <1>3, <2>1
<1> QED
  BY <1>2, <1>3

(* The places of some rows of a sequence, when it grows by a row.          *)
LEMMA OnePlaceMore ==
  ASSUME NEW n \in Nat,
         NEW A \in SUBSET (1 .. n), NEW B \in SUBSET (1 .. n + 1),
         \A i \in 1 .. n : i \in A <=> i \in B
  PROVE  /\ IsFiniteSet(A) /\ Cardinality(A) \in Nat
         /\ Cardinality(B) = Cardinality(A) + IF n + 1 \in B THEN 1 ELSE 0
<1>1. IsFiniteSet(1 .. n)
  BY FS_Interval
<1>2. IsFiniteSet(A)
  BY <1>1, FS_Subset
<1>3. PICK x : x = n + 1
  OBVIOUS
<1>4. x \notin A /\ A \subseteq B /\ B \subseteq A \cup {x}
  BY <1>3
<1>5. /\ Cardinality(A) \in Nat
      /\ Cardinality(B) = Cardinality(A) + IF x \in B THEN 1 ELSE 0
  BY <1>2, <1>4, OneMore
<1> QED
  BY <1>2, <1>3, <1>5

LEMMA CountsFinite ==
  ASSUME IInv, DeliveryTypes, NEW text \in Text
  PROVE  /\ IsFiniteSet(SaidIn(text)) /\ Cardinality(SaidIn(text)) \in Nat
         /\ IsFiniteSet(Streamed(text)) /\ Cardinality(Streamed(text)) \in Nat
         /\ IsFiniteSet(Unpublished(text))
         /\ Cardinality(Unpublished(text)) \in Nat
         /\ IsFiniteSet(Inserting(text)) /\ Cardinality(Inserting(text)) \in Nat
         /\ IsFiniteSet(InInbox(text)) /\ Cardinality(InInbox(text)) \in Nat
<1> DEFINE a == text.applicationId
<1>1. a \in Apps
  BY DEF Text
<1>2. /\ thread[a] \in Seq(Message) /\ events[a] \in Seq(Event)
      /\ notifications \in Seq(Notification)
  BY <1>1 DEF IInv, TypeOK, DeliveryTypes, DeliveryTypeOK
<1>3. /\ IsFiniteSet(DOMAIN thread[a]) /\ IsFiniteSet(DOMAIN events[a])
      /\ IsFiniteSet(DOMAIN notifications)
  <2>1. ASSUME NEW S, NEW s \in Seq(S) PROVE IsFiniteSet(DOMAIN s)
    <3>1. DOMAIN s = 1 .. Len(s) /\ Len(s) \in Nat
      OBVIOUS
    <3>2. IsFiniteSet(1 .. Len(s))
      BY <3>1, FS_Interval
    <3> QED
      BY <3>1, <3>2
  <2> QED
    BY <1>2, <2>1
<1>4. /\ SaidIn(text) \subseteq DOMAIN thread[a]
      /\ Streamed(text) \subseteq DOMAIN events[a]
      /\ Unpublished(text) \subseteq Handlers
      /\ Inserting(text) \subseteq fanOut
      /\ InInbox(text) \subseteq DOMAIN notifications
  BY DEF SaidIn, Streamed, Unpublished, Inserting, InInbox
<1>5. IsFiniteSet(Handlers) /\ IsFiniteSet(fanOut)
  BY HandlersAssumption DEF DeliveryTypes, Inserts
<1>6. /\ IsFiniteSet(SaidIn(text)) /\ IsFiniteSet(Streamed(text))
      /\ IsFiniteSet(Unpublished(text)) /\ IsFiniteSet(Inserting(text))
      /\ IsFiniteSet(InInbox(text))
  BY <1>3, <1>4, <1>5, FS_Subset
<1> QED
  BY <1>6, FS_CardinalityType

(* One row more in the log of application b.                               *)
LEMMA LogGrows ==
  ASSUME NEW S, NEW log \in [Apps -> Seq(S)], NEW new,
         NEW b \in Apps, NEW x \in S,
         new = [log EXCEPT ![b] = Append(@, x)], NEW a \in Apps
  PROVE  /\ DOMAIN log[a] = 1 .. Len(log[a]) /\ Len(log[a]) \in Nat
         /\ a # b => new[a] = log[a]
         /\ a = b => /\ DOMAIN new[a] = 1 .. Len(log[a]) + 1
                     /\ Len(new[a]) = Len(log[a]) + 1
                     /\ new[a][Len(log[a]) + 1] = x
         /\ \A i \in 1 .. Len(log[a]) : new[a][i] = log[a][i]
<1>1. log[a] \in Seq(S)
  OBVIOUS
<1>2. new[a] = IF a = b THEN Append(log[a], x) ELSE log[a]
  OBVIOUS
<1>3. /\ DOMAIN log[a] = 1 .. Len(log[a]) /\ Len(log[a]) \in Nat
  BY <1>1
<1>4. /\ DOMAIN Append(log[a], x) = 1 .. Len(log[a]) + 1
      /\ Len(Append(log[a], x)) = Len(log[a]) + 1
      /\ Append(log[a], x)[Len(log[a]) + 1] = x
      /\ \A i \in 1 .. Len(log[a]) : Append(log[a], x)[i] = log[a][i]
  BY <1>1, AppendProperties
<1> QED
  BY <1>2, <1>3, <1>4

-----------------------------------------------------------------------------
(* From the thread to the stream *)

(* What a handler publishes is what its system message said, but for a     *)
(* move back, which nobody is notified of.                                 *)
LEMMA PublishedAsSaid ==
  ASSUME NEW b \in Busy, NEW text \in Text
  PROVE  /\ ~Notifies(b.app, messageEvent(b), text)
         /\ Notifies(b.app, changeEvent(b), text) <=>
              b.op # "revert" /\ ToldBy(systemMessage(b), b.app) = text
         /\ systemMessage(b).about = "StageReverted" <=> b.op = "revert"
         /\ ToldBy(systemMessage(b), b.app) = text =>
              b.app = text.applicationId
<1>1. b.app \in Apps /\ b.op \in Ops
  BY DEF Busy
<1>2. customerId[b.app] # None
  BY <1>1, PartiesAssumption, NoneAssumption DEF Users
<1>3. ~Notifies(b.app, messageEvent(b), text)
  BY DEF Notifies, fromEvent, messageEvent
<1>4. /\ systemMessage(b).about = action(b.op)
      /\ systemMessage(b).stage = edited(b).stage
  BY DEF systemMessage
<1>5. systemMessage(b).about = "StageReverted" <=> b.op = "revert"
  BY <1>1, <1>4 DEF action, Ops
<1>6. fromEvent(changeEvent(b)) <=> b.op # "revert"
  BY <1>1, <1>2 DEF fromEvent, changeEvent
<1>7. b.op # "revert" =>
        Telling(notification(b.app, changeEvent(b))) =
          ToldBy(systemMessage(b), b.app)
  <2>1. b.op # "revert" =>
          (b.op = "reject" <=> action(b.op) # "StageAdvanced")
    BY <1>1 DEF action, Ops
  <2> QED
    BY <1>1, <1>4, <2>1 DEF Telling, notification, changeEvent, ToldBy
<1>8. ToldBy(systemMessage(b), b.app).applicationId = b.app
  BY DEF ToldBy
<1> QED
  BY <1>3, <1>5, <1>6, <1>7, <1>8 DEF Notifies

(* A handler that goes on keeps what it has to tell.                       *)
LEMMA TellerGoes ==
  ASSUME IInv, NEW h \in Handlers, InFlight(h), NEW call \in Calls,
         Goto(h, call), NEW text \in Text
  PROVE  /\ handler[h] \in Busy /\ handler[h].app \in Apps
         /\ systemMessage(handler[h]) \in Message
         /\ messageEvent(handler[h]) \in Event
         /\ changeEvent(handler[h]) \in Event
         /\ \A k \in Handlers : k # h => handler'[k] = handler[k]
         /\ InFlight(h)'
         /\ HasToTell(handler'[h], text) <=>
              /\ call \in Sending
              /\ handler[h].op # "revert"
              /\ ToldBy(systemMessage(handler[h]), handler[h].app) = text
<1> DEFINE b == handler[h]
           c == [b EXCEPT !.pc = call]
<1>1. /\ b \in Busy /\ b.app \in Apps /\ CheckPassed(b)
      /\ systemMessage(b) \in Message /\ messageEvent(b) \in Event
      /\ changeEvent(b) \in Event
  BY BusyHandler, ReportType DEF IInv
<1>2. handler'[h] = c /\ \A k \in Handlers : k # h => handler'[k] = handler[k]
  BY DEF Goto, IInv, TypeOK
<1>3. systemMessage(c) = systemMessage(b)
  BY <1>1, SameReport
<1>4. c.pc = call /\ c.app = b.app /\ c.op = b.op /\ c # Idle
  BY <1>1 DEF Busy, Idle, Calls
<1>5. ToldBy(systemMessage(b), b.app) = text => b.app = text.applicationId
  BY <1>1, PublishedAsSaid
<1> HIDE DEF c
<1>6. InFlight(h)'
  BY <1>2, <1>4 DEF InFlight
<1>7. HasToTell(handler'[h], text) <=>
        /\ call \in Sending
        /\ b.op # "revert"
        /\ ToldBy(systemMessage(b), b.app) = text
  BY <1>2, <1>3, <1>4, <1>5 DEF HasToTell
<1> QED
  BY <1>1, <1>2, <1>6, <1>7

LEMMA UnpublishedMember ==
  ASSUME NEW text, NEW h \in Handlers
  PROVE  /\ h \in Unpublished(text) <=> HasToTell(handler[h], text)
         /\ h \in Unpublished(text)' <=> HasToTell(handler'[h], text)
<1>1. handler[h] = Idle => ~HasToTell(handler[h], text)
  BY DEF HasToTell, Idle, Sending
<1>2. handler'[h] = Idle => ~HasToTell(handler'[h], text)
  BY DEF HasToTell, Idle, Sending
<1> QED
  BY <1>1, <1>2 DEF Unpublished, InFlight, HasToTell, systemMessage

(* One handler steps.                                                      *)
LEMMA UnpublishedStep ==
  ASSUME IInv, DeliveryTypes, IInv', DeliveryTypes',
         NEW text \in Text, NEW h \in Handlers,
         \A k \in Handlers : k # h => handler'[k] = handler[k]
  PROVE  Cardinality(Unpublished(text)') =
           Cardinality(Unpublished(text))
             + (IF HasToTell(handler'[h], text) THEN 1 ELSE 0)
             - (IF HasToTell(handler[h], text) THEN 1 ELSE 0)
<1>1. PICK A : A = Unpublished(text)
  OBVIOUS
<1>2. PICK B : B = Unpublished(text)'
  OBVIOUS
<1>3. /\ A \subseteq Handlers /\ B \subseteq Handlers
      /\ IsFiniteSet(A) /\ IsFiniteSet(B)
  <2>1. A \subseteq Handlers /\ B \subseteq Handlers
    BY <1>1, <1>2 DEF Unpublished
  <2> QED
    BY <2>1, HandlersAssumption, FS_Subset
<1>4. /\ h \in A <=> HasToTell(handler[h], text)
      /\ h \in B <=> HasToTell(handler'[h], text)
      /\ \A k \in Handlers : k # h => (k \in A <=> k \in B)
  BY <1>1, <1>2, UnpublishedMember
<1> DEFINE C == A \ {h}
<1>5. /\ IsFiniteSet(C) /\ h \notin C
      /\ C \subseteq A /\ A \subseteq C \cup {h}
      /\ C \subseteq B /\ B \subseteq C \cup {h}
  BY <1>3, <1>4, FS_Subset
<1> HIDE DEF C
<1>6. /\ Cardinality(C) \in Nat
      /\ Cardinality(A) = Cardinality(C) + IF h \in A THEN 1 ELSE 0
      /\ Cardinality(B) = Cardinality(C) + IF h \in B THEN 1 ELSE 0
  BY <1>5, OneMore
<1> QED
  BY <1>1, <1>2, <1>4, <1>6

LEMMA SaidGrows ==
  ASSUME IInv, NEW b \in Apps, NEW m \in Message,
         thread' = [thread EXCEPT ![b] = Append(@, m)], NEW text \in Text
  PROVE  Cardinality(SaidIn(text)') = Cardinality(SaidIn(text))
           + IF m.about # "StageReverted" /\ ToldBy(m, b) = text THEN 1 ELSE 0
<1> DEFINE a == text.applicationId
<1>1. a \in Apps /\ thread \in [Apps -> Seq(Message)]
  BY DEF Text, IInv, TypeOK
<1>2. /\ DOMAIN thread[a] = 1 .. Len(thread[a]) /\ Len(thread[a]) \in Nat
      /\ a # b => thread'[a] = thread[a]
      /\ a = b => /\ DOMAIN thread'[a] = 1 .. Len(thread[a]) + 1
                  /\ thread'[a][Len(thread[a]) + 1] = m
      /\ \A i \in 1 .. Len(thread[a]) : thread'[a][i] = thread[a][i]
  BY <1>1, LogGrows
<1>3. ToldBy(m, b).applicationId = b
  BY DEF ToldBy
<1>4. CASE a # b
  <2>1. SaidIn(text)' = SaidIn(text)
    BY <1>2, <1>4 DEF SaidIn
  <2>2. Cardinality(SaidIn(text)) \in Nat
    <3>1. SaidIn(text) \subseteq 1 .. Len(thread[a])
      BY <1>2 DEF SaidIn
    <3>2. IsFiniteSet(1 .. Len(thread[a]))
      BY <1>2, FS_Interval
    <3>3. IsFiniteSet(SaidIn(text))
      BY <3>1, <3>2, FS_Subset
    <3> QED
      BY <3>3, FS_CardinalityType
  <2> QED
    BY <1>3, <1>4, <2>1, <2>2
<1>5. CASE a = b
  <2> DEFINE n == Len(thread[a])
  <2>1. PICK A : A = SaidIn(text)
    OBVIOUS
  <2>2. PICK B : B = SaidIn(text)'
    OBVIOUS
  <2>3. A \in SUBSET (1 .. n) /\ B \in SUBSET (1 .. n + 1)
    BY <1>2, <1>5, <2>1, <2>2 DEF SaidIn
  <2>4. \A i \in 1 .. n : i \in A <=> i \in B
    BY <1>2, <1>5, <2>1, <2>2 DEF SaidIn, ToldBy
  <2>5. n + 1 \in B <=> m.about # "StageReverted" /\ ToldBy(m, b) = text
    BY <1>2, <1>5, <2>2 DEF SaidIn, ToldBy
  <2>6. Cardinality(B) = Cardinality(A) + IF n + 1 \in B THEN 1 ELSE 0
    BY <1>2, <2>3, <2>4, OnePlaceMore
  <2> QED
    BY <2>1, <2>2, <2>5, <2>6
<1> QED
  BY <1>4, <1>5

LEMMA StreamGrows ==
  ASSUME IInv, NEW b \in Apps, NEW e \in Event,
         events' = [events EXCEPT ![b] = Append(@, e)], NEW text \in Text
  PROVE  Cardinality(Streamed(text)') = Cardinality(Streamed(text))
           + IF Notifies(b, e, text) THEN 1 ELSE 0
<1> DEFINE a == text.applicationId
<1>1. a \in Apps /\ events \in [Apps -> Seq(Event)]
  BY DEF Text, IInv, TypeOK
<1>2. /\ DOMAIN events[a] = 1 .. Len(events[a]) /\ Len(events[a]) \in Nat
      /\ a # b => events'[a] = events[a]
      /\ a = b => /\ DOMAIN events'[a] = 1 .. Len(events[a]) + 1
                  /\ events'[a][Len(events[a]) + 1] = e
      /\ \A i \in 1 .. Len(events[a]) : events'[a][i] = events[a][i]
  BY <1>1, LogGrows
<1>3. Notifies(b, e, text) => a = b
  BY DEF Notifies, Telling, notification
<1>4. CASE a # b
  <2>1. Streamed(text)' = Streamed(text)
    BY <1>2, <1>4 DEF Streamed, Notifies
  <2>2. Cardinality(Streamed(text)) \in Nat
    <3>1. Streamed(text) \subseteq 1 .. Len(events[a])
      BY <1>2 DEF Streamed
    <3>2. IsFiniteSet(1 .. Len(events[a]))
      BY <1>2, FS_Interval
    <3>3. IsFiniteSet(Streamed(text))
      BY <3>1, <3>2, FS_Subset
    <3> QED
      BY <3>3, FS_CardinalityType
  <2> QED
    BY <1>3, <1>4, <2>1, <2>2
<1>5. CASE a = b
  <2> DEFINE n == Len(events[a])
  <2>1. PICK A : A = Streamed(text)
    OBVIOUS
  <2>2. PICK B : B = Streamed(text)'
    OBVIOUS
  <2>3. A \in SUBSET (1 .. n) /\ B \in SUBSET (1 .. n + 1)
    BY <1>2, <1>5, <2>1, <2>2 DEF Streamed
  <2>4. \A i \in 1 .. n : i \in A <=> i \in B
    BY <1>2, <1>5, <2>1, <2>2 DEF Streamed, Notifies
  <2>5. n + 1 \in B <=> Notifies(b, e, text)
    BY <1>2, <1>5, <2>2 DEF Streamed, Notifies
  <2>6. Cardinality(B) = Cardinality(A) + IF n + 1 \in B THEN 1 ELSE 0
    BY <1>2, <2>3, <2>4, OnePlaceMore
  <2> QED
    BY <2>1, <2>2, <2>5, <2>6
<1> QED
  BY <1>4, <1>5

(* The calls that say something, and the one that publishes the change.    *)
LEMMA TellingSteps ==
  ASSUME IInv, DeliveryTypes, IInv', DeliveryTypes', StreamFollows,
         NEW h \in Handlers,
         postSystem(h) \/ announce(h) \/ publish(h)
  PROVE  StreamFollows'
<1> SUFFICES ASSUME NEW text \in Text
    PROVE LET sent == Cardinality(Streamed(text)')
                        + Cardinality(Unpublished(text)')
          IN /\ sent <= Cardinality(SaidIn(text)')
             /\ Cardinality(SaidIn(text)') <= sent + failures'
  BY DEF StreamFollows
<1> DEFINE b == handler[h]
           tells == b.op # "revert" /\ ToldBy(systemMessage(b), b.app) = text
<1>1. /\ Cardinality(Streamed(text)) + Cardinality(Unpublished(text)) <=
           Cardinality(SaidIn(text))
      /\ Cardinality(SaidIn(text)) <=
           Cardinality(Streamed(text)) + Cardinality(Unpublished(text))
             + failures
  BY DEF StreamFollows
<1>2. /\ Cardinality(SaidIn(text)) \in Nat
      /\ Cardinality(Streamed(text)) \in Nat
      /\ Cardinality(Unpublished(text)) \in Nat
      /\ failures \in Nat
  BY CountsFinite DEF IInv, TypeOK
<1>3. InFlight(h) /\ failures' = failures
  BY DEF postSystem, announce, publish, At
<1>4. /\ b \in Busy /\ b.app \in Apps
      /\ systemMessage(b) \in Message /\ messageEvent(b) \in Event
      /\ changeEvent(b) \in Event
  BY <1>3, BusyHandler, ReportType DEF IInv
<1>5. HasToTell(b, text) <=> b.pc \in Sending /\ tells
  BY <1>4, PublishedAsSaid DEF HasToTell
<1> HIDE DEF tells, b
<1>6. CASE postSystem(h)
  <2>1. /\ b.pc = "postSystem" /\ Goto(h, "announce")
        /\ thread' = [thread EXCEPT ![b.app] = Append(@, systemMessage(b))]
        /\ events' = events
    BY <1>6 DEF postSystem, At, b
  <2>2. Cardinality(SaidIn(text)') =
          Cardinality(SaidIn(text)) + IF tells THEN 1 ELSE 0
    BY <1>4, <2>1, SaidGrows, PublishedAsSaid DEF tells
  <2>3. Cardinality(Unpublished(text)') =
          Cardinality(Unpublished(text)) + IF tells THEN 1 ELSE 0
    <3>1. /\ \A k \in Handlers : k # h => handler'[k] = handler[k]
          /\ HasToTell(handler'[h], text) <=> tells
      BY <1>3, <2>1, TellerGoes DEF tells, b, Calls, Sending
    <3>2. ~HasToTell(handler[h], text)
      BY <1>5, <2>1 DEF Sending, b
    <3> QED
      BY <1>2, <3>1, <3>2, UnpublishedStep
  <2>4. Streamed(text)' = Streamed(text)
    BY <2>1 DEF Streamed, Notifies
  <2> QED
    BY <1>1, <1>2, <1>3, <2>2, <2>3, <2>4
<1>7. CASE announce(h)
  <2>1. /\ b.pc = "announce" /\ Goto(h, "record")
        /\ events' = [events EXCEPT ![b.app] = Append(@, messageEvent(b))]
        /\ thread' = thread
    BY <1>7 DEF announce, At, b
  <2>2. SaidIn(text)' = SaidIn(text)
    BY <2>1 DEF SaidIn, ToldBy
  <2>3. Cardinality(Unpublished(text)') = Cardinality(Unpublished(text))
    <3>1. /\ \A k \in Handlers : k # h => handler'[k] = handler[k]
          /\ HasToTell(handler'[h], text) <=> tells
      BY <1>3, <2>1, TellerGoes DEF tells, b, Calls, Sending
    <3>2. HasToTell(handler[h], text) <=> tells
      BY <1>5, <2>1 DEF Sending, b
    <3> QED
      BY <1>2, <3>1, <3>2, UnpublishedStep
  <2>4. Cardinality(Streamed(text)') = Cardinality(Streamed(text))
    <3>1. ~Notifies(b.app, messageEvent(b), text)
      BY <1>4, PublishedAsSaid
    <3>2. Cardinality(Streamed(text)') = Cardinality(Streamed(text))
            + IF Notifies(b.app, messageEvent(b), text) THEN 1 ELSE 0
      BY <1>4, <2>1, StreamGrows
    <3> QED
      BY <1>2, <3>1, <3>2
  <2> QED
    BY <1>1, <1>2, <1>3, <2>2, <2>3, <2>4
<1>8. CASE publish(h)
  <2>1. /\ b.pc = "publish" /\ Leave(h)
        /\ events' = [events EXCEPT ![b.app] = Append(@, changeEvent(b))]
        /\ thread' = thread
    BY <1>8 DEF publish, At, b
  <2>2. SaidIn(text)' = SaidIn(text)
    BY <2>1 DEF SaidIn, ToldBy
  <2>3. Cardinality(Unpublished(text)') =
          Cardinality(Unpublished(text)) - IF tells THEN 1 ELSE 0
    <3>1. /\ \A k \in Handlers : k # h => handler'[k] = handler[k]
          /\ handler'[h] = Idle
      BY <2>1 DEF Leave, IInv, TypeOK
    <3>2. HasToTell(handler[h], text) <=> tells
      BY <1>5, <2>1 DEF Sending, b
    <3>3. ~HasToTell(handler'[h], text)
      BY <3>1 DEF HasToTell, Idle, Sending
    <3> QED
      BY <1>2, <3>1, <3>2, <3>3, UnpublishedStep
  <2>4. Cardinality(Streamed(text)') =
          Cardinality(Streamed(text)) + IF tells THEN 1 ELSE 0
    BY <1>4, <2>1, StreamGrows, PublishedAsSaid DEF tells
  <2> QED
    BY <1>1, <1>2, <1>3, <2>2, <2>3, <2>4
<1> QED
  BY <1>6, <1>7, <1>8

(* A handler that is lost may have had something to tell.                  *)
LEMMA LossTells ==
  ASSUME IInv, DeliveryTypes, IInv', DeliveryTypes', StreamFollows,
         (\E h \in Handlers : fail(h)) \/ crash
  PROVE  StreamFollows'
<1> SUFFICES ASSUME NEW text \in Text
    PROVE LET sent == Cardinality(Streamed(text)')
                        + Cardinality(Unpublished(text)')
          IN /\ sent <= Cardinality(SaidIn(text)')
             /\ Cardinality(SaidIn(text)') <= sent + failures'
  BY DEF StreamFollows
<1>1. /\ Cardinality(Streamed(text)) + Cardinality(Unpublished(text)) <=
           Cardinality(SaidIn(text))
      /\ Cardinality(SaidIn(text)) <=
           Cardinality(Streamed(text)) + Cardinality(Unpublished(text))
             + failures
  BY DEF StreamFollows
<1>2. /\ Cardinality(SaidIn(text)) \in Nat
      /\ Cardinality(Streamed(text)) \in Nat
      /\ Cardinality(Unpublished(text)) \in Nat
      /\ failures \in Nat
  BY CountsFinite DEF IInv, TypeOK
<1>3. SaidIn(text)' = SaidIn(text) /\ Streamed(text)' = Streamed(text)
  BY DEF fail, crash, SaidIn, Streamed, ToldBy, Notifies
<1>4. ASSUME NEW h \in Handlers, fail(h)
      PROVE  /\ failures' = failures + 1
             /\ \/ Cardinality(Unpublished(text)') =
                     Cardinality(Unpublished(text))
                \/ Cardinality(Unpublished(text)') =
                     Cardinality(Unpublished(text)) - 1
  <2>1. /\ \A k \in Handlers : k # h => handler'[k] = handler[k]
        /\ handler'[h] = Idle /\ failures' = failures + 1
    BY <1>4 DEF fail, Leave, IInv, TypeOK
  <2>2. ~HasToTell(handler'[h], text)
    BY <2>1 DEF HasToTell, Idle, Sending
  <2> QED
    BY <1>2, <2>1, <2>2, UnpublishedStep
<1>5. CASE crash
  <2> DEFINE gone == {h \in Handlers : InFlight(h)}
  <2>1. /\ failures' = failures + Cardinality(gone)
        /\ \A h \in Handlers : handler'[h] = Idle
    BY <1>5 DEF crash
  <2>2. Unpublished(text)' = {}
    BY <2>1 DEF Unpublished, InFlight
  <2>3. Unpublished(text) \subseteq gone /\ IsFiniteSet(gone)
    <3>1. gone \subseteq Handlers
      OBVIOUS
    <3>2. IsFiniteSet(gone)
      BY <3>1, HandlersAssumption, FS_Subset
    <3> QED
      BY <3>2 DEF Unpublished
  <2> HIDE DEF gone
  <2>4. /\ Cardinality(Unpublished(text)) <= Cardinality(gone)
        /\ Cardinality(gone) \in Nat
    BY <2>3, FS_Subset, FS_CardinalityType
  <2>5. Cardinality(Unpublished(text)') = 0
    BY <2>2, FS_EmptySet
  <2> QED
    BY <1>1, <1>2, <1>3, <2>1, <2>4, <2>5
<1> QED
  BY <1>1, <1>2, <1>3, <1>4, <1>5

(* All other steps tell nothing.                                           *)
LEMMA StreamStep ==
  ASSUME IInv, DeliveryTypes, IInv', DeliveryTypes', StreamFollows,
         [Next]_vars
  PROVE  StreamFollows'
<1>1. ASSUME UNCHANGED <<thread, events, failures>>,
             \A h \in Handlers, text \in Text :
               HasToTell(handler'[h], text) <=> HasToTell(handler[h], text)
      PROVE  StreamFollows'
  <2> SUFFICES ASSUME NEW text \in Text
               PROVE  /\ SaidIn(text)' = SaidIn(text)
                      /\ Streamed(text)' = Streamed(text)
                      /\ Unpublished(text)' = Unpublished(text)
    BY <1>1 DEF StreamFollows
  <2>1. SaidIn(text)' = SaidIn(text) /\ Streamed(text)' = Streamed(text)
    BY <1>1 DEF SaidIn, Streamed, ToldBy, Notifies
  <2>2. \A h \in Handlers : h \in Unpublished(text)' <=> h \in Unpublished(text)
    BY <1>1, UnpublishedMember
  <2>3. /\ Unpublished(text) \subseteq Handlers
        /\ Unpublished(text)' \subseteq Handlers
    BY DEF Unpublished
  <2> QED
    BY <2>1, <2>2, <2>3
<1>2. ASSUME NEW h \in Handlers,
             \A k \in Handlers : k # h => handler'[k] = handler[k],
             handler[h].pc \notin Sending, handler'[h].pc \notin Sending,
             NEW k \in Handlers, NEW text \in Text
      PROVE  HasToTell(handler'[k], text) <=> HasToTell(handler[k], text)
  BY <1>2 DEF HasToTell
<1>3. ASSUME NEW h \in Handlers, Arrive(h)
      PROVE  StreamFollows'
  <2>1. PICK a \in Apps, u \in Users, op \in Ops,
             why \in Reasons \cup {None},
             call \in {"pendingMandatory", "save"} :
          Load(h, op, a, u, why, call)
    BY <1>3 DEF Arrive, submit, advanceStage, revertStage, reject, Ops
  <2>2. /\ handler' = [handler EXCEPT ![h] =
             [pc |-> call, op |-> op, app |-> a, actor |-> u, reason |-> why,
              seen |-> applications[a]]]
        /\ handler[h] = Idle
        /\ UNCHANGED <<thread, events, failures>>
    BY <2>1 DEF Load, InFlight
  <2>3. /\ handler[h].pc \notin Sending /\ handler'[h].pc \notin Sending
        /\ \A k \in Handlers : k # h => handler'[k] = handler[k]
    BY <2>2 DEF IInv, TypeOK, Idle, Sending
  <2> QED
    BY <1>1, <1>2, <2>2, <2>3
<1>4. ASSUME NEW h \in Handlers, pendingMandatory(h) \/ save(h)
      PROVE  StreamFollows'
  <2>1. /\ handler[h].pc \notin Sending /\ InFlight(h)
        /\ UNCHANGED <<thread, events, failures>>
        /\ Goto(h, "save") \/ Goto(h, "postSystem") \/ Leave(h)
    BY <1>4 DEF pendingMandatory, save, At, Sending
  <2>2. handler[h] \in Busy
    BY <2>1, BusyHandler DEF IInv
  <2>3. /\ handler'[h].pc \notin Sending
        /\ \A k \in Handlers : k # h => handler'[k] = handler[k]
    BY <2>1, <2>2 DEF Goto, Leave, IInv, TypeOK, Idle, Sending, Busy
  <2> QED
    BY <1>1, <1>2, <2>1, <2>3
<1>5. ASSUME NEW h \in Handlers, record(h)
      PROVE  StreamFollows'
  <2>1. /\ handler[h].pc = "record" /\ InFlight(h) /\ Goto(h, "publish")
        /\ UNCHANGED <<thread, events, failures>>
    BY <1>5 DEF record, At
  <2>2. ASSUME NEW k \in Handlers, NEW text \in Text
        PROVE  HasToTell(handler'[k], text) <=> HasToTell(handler[k], text)
    <3>1. /\ k # h => handler'[k] = handler[k]
          /\ handler[h] \in Busy
          /\ HasToTell(handler'[h], text) <=>
               /\ handler[h].op # "revert"
               /\ ToldBy(systemMessage(handler[h]), handler[h].app) = text
      BY <2>1, TellerGoes DEF Calls, Sending
    <3>2. HasToTell(handler[h], text) <=>
            /\ handler[h].op # "revert"
            /\ ToldBy(systemMessage(handler[h]), handler[h].app) = text
      BY <2>1, <3>1, PublishedAsSaid DEF HasToTell, Sending
    <3> QED
      BY <3>1, <3>2
  <2> QED
    BY <1>1, <2>1, <2>2
<1>6. CASE UNCHANGED vars \/ \E a \in Apps : documentsChange(a)
  BY <1>1, <1>6 DEF vars, documentsChange
<1> QED
  BY <1>3, <1>4, <1>5, <1>6, TellingSteps, LossTells DEF Next, Continue

LEMMA InitStream == DeliveryInit => StreamFollows /\ InboxFollows
<1> SUFFICES ASSUME DeliveryInit, NEW text \in Text
             PROVE  /\ SaidIn(text) = {} /\ Streamed(text) = {}
                    /\ Unpublished(text) = {} /\ Inserting(text) = {}
                    /\ InInbox(text) = {} /\ failures = 0 /\ lost = 0
  BY FS_EmptySet DEF StreamFollows, InboxFollows, Conveyed
<1>1. text.applicationId \in Apps
  BY DEF Text
<1> QED
  BY <1>1 DEF DeliveryInit, Init, SaidIn, Streamed, Unpublished, Inserting,
    InInbox, InFlight

-----------------------------------------------------------------------------
(* From the stream to the inbox *)

(* A published change is an insert more, one that has still to be settled. *)
LEMMA ServiceInbox ==
  ASSUME IInv, DeliveryTypes, InboxFollows, Service
  PROVE  InboxFollows'
<1> SUFFICES ASSUME NEW text \in Text
             PROVE  /\ Conveyed(text)' <= Cardinality(Streamed(text)')
                    /\ Cardinality(Streamed(text)') <= Conveyed(text)' + lost'
  BY DEF InboxFollows
<1> DEFINE new == {<<a, Len(events'[a])>> :
                   a \in {b \in Apps :
                          Published(b) /\ fromEvent(newest(events'[b]))}}
<1>1. /\ fanOut' = fanOut \cup new
      /\ UNCHANGED <<notifications, lost>>
  BY DEF Service
<1>2. /\ Conveyed(text) <= Cardinality(Streamed(text))
      /\ Cardinality(Streamed(text)) <= Conveyed(text) + lost
  BY DEF InboxFollows
<1>3. /\ Cardinality(Streamed(text)) \in Nat
      /\ IsFiniteSet(Inserting(text)) /\ Cardinality(Inserting(text)) \in Nat
      /\ Cardinality(InInbox(text)) \in Nat
      /\ lost \in Nat
  BY CountsFinite DEF DeliveryTypes, DeliveryTypeOK
<1>4. InInbox(text)' = InInbox(text)
  BY <1>1 DEF InInbox, Telling
<1>5. events \in [Apps -> Seq(Event)]
  BY DEF IInv, TypeOK
<1>6. CASE events' = events
  <2>1. new = {}
    BY <1>6 DEF Published
  <2>2. Inserting(text)' = Inserting(text) /\ Streamed(text)' = Streamed(text)
    BY <1>1, <1>6, <2>1
    DEF Inserting, Telling, notification, Streamed, Notifies, fromEvent
  <2> QED
    BY <1>1, <1>2, <1>4, <2>2 DEF Conveyed
<1>7. ASSUME NEW b \in Apps, NEW e \in Event,
             events' = [events EXCEPT ![b] = Append(@, e)]
      PROVE  /\ Conveyed(text)' <= Cardinality(Streamed(text)')
             /\ Cardinality(Streamed(text)') <= Conveyed(text)' + lost'
  <2> DEFINE n == Len(events[b]) + 1
             due == IF Notifies(b, e, text) THEN 1 ELSE 0
  <2>1. Cardinality(Streamed(text)') = Cardinality(Streamed(text)) + due
    BY <1>7, StreamGrows
  <2>2. \A a \in Apps :
          /\ DOMAIN events[a] = 1 .. Len(events[a]) /\ Len(events[a]) \in Nat
          /\ a # b => events'[a] = events[a]
          /\ a = b => /\ DOMAIN events'[a] = 1 .. Len(events[a]) + 1
                      /\ Len(events'[a]) = Len(events[a]) + 1
                      /\ events'[a][Len(events[a]) + 1] = e
          /\ \A i \in 1 .. Len(events[a]) : events'[a][i] = events[a][i]
    BY <1>5, <1>7, LogGrows
  <2>3. \A x \in fanOut : /\ x[1] \in Apps /\ x[2] \in DOMAIN events[x[1]]
                          /\ events'[x[1]][x[2]] = events[x[1]][x[2]]
    BY <2>2 DEF DeliveryTypes, DeliveryTypeOK
  <2>4. Published(b) /\ newest(events'[b]) = e /\ Len(events'[b]) = n
    BY <2>2 DEF Published, newest
  <2>5. new = IF fromEvent(e) THEN {<<b, n>>} ELSE {}
    <3>1. \A a \in Apps : Published(a) => a = b
      BY <2>2 DEF Published
    <3> QED
      BY <2>4, <3>1
  <2>6. <<b, n>> \notin fanOut
    BY <2>2, <2>3
  <2>7. Cardinality(Inserting(text)') = Cardinality(Inserting(text)) + due
    <3> HIDE DEF n, new
    <3>1. PICK x : x = <<b, n>>
      OBVIOUS
    <3>2. PICK A : A = Inserting(text)
      OBVIOUS
    <3>3. PICK B : B = Inserting(text)'
      OBVIOUS
    <3>4. \A y \in fanOut : y \in A <=> y \in B
      BY <1>1, <2>3, <3>2, <3>3 DEF Inserting, Telling, notification
    <3>5. A \subseteq fanOut /\ B \subseteq fanOut \cup {x}
      BY <1>1, <2>5, <3>1, <3>2, <3>3 DEF Inserting
    <3>6. A \subseteq B /\ B \subseteq A \cup {x} /\ x \notin A
      BY <2>6, <3>1, <3>4, <3>5
    <3>7. x \in B <=> Notifies(b, e, text)
      <4>1. x \in fanOut' <=> fromEvent(e)
        BY <1>1, <2>5, <2>6, <3>1
      <4>2. events'[x[1]][x[2]] = e /\ x[1] = b
        BY <2>2, <3>1 DEF n
      <4> QED
        BY <3>3, <4>1, <4>2 DEF Inserting, Notifies, Telling, notification
    <3>8. Cardinality(B) = Cardinality(A) + IF x \in B THEN 1 ELSE 0
      BY <1>3, <3>2, <3>6, OneMore
    <3> QED
      BY <3>2, <3>3, <3>7, <3>8
  <2> HIDE DEF n, new
  <2> QED
    BY <1>1, <1>2, <1>3, <1>4, <2>1, <2>7 DEF Conveyed
<1> HIDE DEF new
<1> QED
  BY <1>6, <1>7, ServiceLogs

(* An insert that settles: the notification is there, or lost.             *)
LEMMA SettledInbox ==
  ASSUME IInv, DeliveryTypes, InboxFollows,
         NEW x \in fanOut, create(x) \/ failFanOut(x)
  PROVE  InboxFollows'
<1> SUFFICES ASSUME NEW text \in Text
             PROVE  /\ Conveyed(text)' <= Cardinality(Streamed(text)')
                    /\ Cardinality(Streamed(text)') <= Conveyed(text)' + lost'
  BY DEF InboxFollows
<1> DEFINE n == notification(x[1], events[x[1]][x[2]])
           due == IF Telling(n) = text THEN 1 ELSE 0
<1>1. /\ fanOut' = fanOut \ {x}
      /\ UNCHANGED events
  BY DEF create, failFanOut, vars
<1>2. /\ Conveyed(text) <= Cardinality(Streamed(text))
      /\ Cardinality(Streamed(text)) <= Conveyed(text) + lost
  BY DEF InboxFollows
<1>3. /\ Cardinality(Streamed(text)) \in Nat
      /\ IsFiniteSet(Inserting(text)) /\ Cardinality(Inserting(text)) \in Nat
      /\ Cardinality(InInbox(text)) \in Nat
      /\ lost \in Nat
  BY CountsFinite DEF DeliveryTypes, DeliveryTypeOK
<1>4. Streamed(text)' = Streamed(text)
  BY <1>1 DEF Streamed, Notifies, fromEvent, Telling, notification
<1>5. Cardinality(Inserting(text)') = Cardinality(Inserting(text)) - due
  <2>1. PICK A : A = Inserting(text)
    OBVIOUS
  <2>2. PICK B : B = Inserting(text)'
    OBVIOUS
  <2>3. B = A \ {x} /\ (x \in A <=> Telling(n) = text)
    BY <1>1, <2>1, <2>2 DEF Inserting, Telling, notification
  <2>4. Cardinality(B) = IF x \in A THEN Cardinality(A) - 1 ELSE Cardinality(A)
    <3>1. CASE x \in A
      BY <1>3, <2>1, <2>3, <3>1, FS_RemoveElement
    <3>2. CASE x \notin A
      <4>1. B = A
        BY <2>3, <3>2
      <4> QED
        BY <3>2, <4>1
    <3> QED
      BY <3>1, <3>2
  <2> QED
    BY <1>3, <2>1, <2>2, <2>3, <2>4
<1>6. CASE create(x)
  <2>1. /\ notifications' = Append(notifications, n)
        /\ lost' = lost
    BY <1>6 DEF create
  <2>2. notifications \in Seq(Notification)
    BY DEF DeliveryTypes, DeliveryTypeOK
  <2> HIDE DEF n
  <2>3. /\ DOMAIN notifications = 1 .. Len(notifications)
        /\ Len(notifications) \in Nat
        /\ DOMAIN notifications' = 1 .. Len(notifications) + 1
        /\ notifications'[Len(notifications) + 1] = n
        /\ \A i \in 1 .. Len(notifications) :
             notifications'[i] = notifications[i]
    BY <2>1, <2>2
  <2>4. Cardinality(InInbox(text)') = Cardinality(InInbox(text)) + due
    <3> DEFINE k == Len(notifications)
    <3>1. PICK A : A = InInbox(text)
      OBVIOUS
    <3>2. PICK B : B = InInbox(text)'
      OBVIOUS
    <3>3. A \in SUBSET (1 .. k) /\ B \in SUBSET (1 .. k + 1)
      BY <2>3, <3>1, <3>2 DEF InInbox
    <3>4. \A i \in 1 .. k : i \in A <=> i \in B
      BY <2>3, <3>1, <3>2 DEF InInbox, Telling
    <3>5. k + 1 \in B <=> Telling(n) = text
      BY <2>3, <3>2 DEF InInbox, Telling
    <3>6. Cardinality(B) = Cardinality(A) + IF k + 1 \in B THEN 1 ELSE 0
      BY <2>3, <3>3, <3>4, OnePlaceMore
    <3> QED
      BY <3>1, <3>2, <3>5, <3>6
  <2> QED
    BY <1>2, <1>3, <1>4, <1>5, <2>1, <2>4 DEF Conveyed
<1>7. CASE failFanOut(x)
  <2>1. lost' = lost + 1 /\ InInbox(text)' = InInbox(text)
    BY <1>7 DEF failFanOut, InInbox, Telling
  <2> HIDE DEF n
  <2> QED
    BY <1>2, <1>3, <1>4, <1>5, <2>1 DEF Conveyed
<1> QED
  BY <1>6, <1>7

(* Reading and deleting leave what a notification tells.                   *)
LEMMA ReadInbox ==
  ASSUME IInv, DeliveryTypes, InboxFollows, NEW u \in Customers,
         \/ markAllRead(u)
         \/ \E i \in DOMAIN notifications : markRead(i, u) \/ remove(i, u)
  PROVE  InboxFollows'
<1>1. /\ notifications \in Seq(Notification)
      /\ UNCHANGED <<events, fanOut, lost>>
  BY DEF DeliveryTypes, DeliveryTypeOK, markAllRead, markRead, remove, Tap,
    vars
<1>2. \A i \in DOMAIN notifications : notifications[i] \in Notification
  BY <1>1
<1>3. /\ DOMAIN notifications' = DOMAIN notifications
      /\ \A i \in DOMAIN notifications :
           Telling(notifications'[i]) = Telling(notifications[i])
  BY <1>1, <1>2 DEF markAllRead, markRead, remove, Telling, Notification
<1> SUFFICES ASSUME NEW text \in Text
             PROVE  /\ InInbox(text)' = InInbox(text)
                    /\ Inserting(text)' = Inserting(text)
                    /\ Streamed(text)' = Streamed(text)
  BY <1>1 DEF InboxFollows, Conveyed
<1>4. InInbox(text)' = InInbox(text)
  BY <1>3 DEF InInbox, Telling
<1> QED
  BY <1>1, <1>4
  DEF Inserting, Streamed, Notifies, fromEvent, Telling, notification

(* Restarting the process loses the inserts in flight, and counts them.    *)
LEMMA StopInbox ==
  ASSUME IInv, DeliveryTypes, InboxFollows, stop
  PROVE  InboxFollows'
<1>1. /\ fanOut' = {} /\ lost' = lost + Cardinality(fanOut)
      /\ UNCHANGED <<notifications, events>>
  BY DEF stop, crash, vars
<1> SUFFICES ASSUME NEW text \in Text
             PROVE  /\ Conveyed(text)' <= Cardinality(Streamed(text)')
                    /\ Cardinality(Streamed(text)') <= Conveyed(text)' + lost'
  BY DEF InboxFollows
<1>2. /\ Conveyed(text) <= Cardinality(Streamed(text))
      /\ Cardinality(Streamed(text)) <= Conveyed(text) + lost
  BY DEF InboxFollows
<1>3. /\ Cardinality(Streamed(text)) \in Nat
      /\ Cardinality(Inserting(text)) \in Nat
      /\ Cardinality(InInbox(text)) \in Nat
      /\ lost \in Nat
  BY CountsFinite DEF DeliveryTypes, DeliveryTypeOK
<1>4. /\ InInbox(text)' = InInbox(text) /\ Streamed(text)' = Streamed(text)
      /\ Inserting(text)' = {}
  BY <1>1
  DEF InInbox, Inserting, Streamed, Notifies, fromEvent, Telling, notification
<1>5. Cardinality(Inserting(text)') = 0
  BY <1>4, FS_EmptySet
<1>6. /\ Cardinality(Inserting(text)) <= Cardinality(fanOut)
      /\ Cardinality(fanOut) \in Nat
  <2>1. IsFiniteSet(fanOut) /\ Inserting(text) \subseteq fanOut
    BY DEF DeliveryTypes, Inserts, Inserting
  <2> QED
    BY <2>1, FS_Subset, FS_CardinalityType
<1> QED
  BY <1>1, <1>2, <1>3, <1>4, <1>5, <1>6 DEF Conveyed

LEMMA InboxStep ==
  ASSUME IInv, DeliveryTypes, InboxFollows, [DeliveryNext]_deliveryVars
  PROVE  InboxFollows'
<1>1. CASE UNCHANGED <<events, notifications, fanOut, lost>>
  BY <1>1 DEF InboxFollows, Conveyed, InInbox, Inserting, Streamed, Notifies,
    fromEvent, Telling, notification
<1>2. ASSUME NEW k \in Callers, Chat(k)
      PROVE  UNCHANGED <<events, notifications, fanOut, lost>>
  BY <1>2 DEF Chat, openThread, postUser, Begin, findMessages, markThreadRead,
    answerThread, createMessage, failCall, vars, inboxVars
<1>3. UNCHANGED deliveryVars =>
        UNCHANGED <<events, notifications, fanOut, lost>>
  BY DEF deliveryVars, vars, inboxVars
<1> QED
  BY <1>1, <1>2, <1>3, ServiceInbox, SettledInbox, ReadInbox, StopInbox
  DEF DeliveryNext, Inbox

(* Across messaging.service.ts, the event stream and notifications.        *)
(* service.ts: whatever interleaves, fails or restarts, the customer is    *)
(* told nothing the thread does not say, nothing twice, and what the inbox *)
(* lacks is about to be published, is being inserted or was lost on a      *)
(* counted failure.                                                        *)
THEOREM InboxTellsWhatThreadSays == DeliverySpec => []InboxFollowsThread
<1>1. ASSUME IInv, DeliveryTypes, StreamFollows, InboxFollows
      PROVE  InboxFollowsThread
  <2>1. ASSUME NEW a \in Apps, NEW type \in NotificationType,
               NEW stage \in Stage, NEW text \in Text,
               text = [type |-> type, applicationId |-> a, stage |-> stage]
        PROVE  LET late == Cardinality(Unpublished(text))
                             + Cardinality(Inserting(text))
                   said == Cardinality(SaidIn(text))
                   told == Cardinality(InInbox(text))
               IN /\ told + late <= said
                  /\ said <= told + late + failures + lost
    <3>1. /\ Cardinality(SaidIn(text)) \in Nat
          /\ Cardinality(Streamed(text)) \in Nat
          /\ Cardinality(Unpublished(text)) \in Nat
          /\ Cardinality(Inserting(text)) \in Nat
          /\ Cardinality(InInbox(text)) \in Nat
      BY <1>1, CountsFinite
    <3>2. failures \in Nat /\ lost \in Nat
      BY <1>1 DEF IInv, TypeOK, DeliveryTypes, DeliveryTypeOK
    <3>3. /\ Cardinality(Streamed(text)) + Cardinality(Unpublished(text)) <=
               Cardinality(SaidIn(text))
          /\ Cardinality(SaidIn(text)) <=
               Cardinality(Streamed(text)) + Cardinality(Unpublished(text))
                 + failures
      BY <1>1 DEF StreamFollows
    <3>4. /\ Cardinality(InInbox(text)) + Cardinality(Inserting(text)) <=
               Cardinality(Streamed(text))
          /\ Cardinality(Streamed(text)) <=
               Cardinality(InInbox(text)) + Cardinality(Inserting(text)) + lost
      BY <1>1 DEF InboxFollows, Conveyed
    <3> QED
      BY <3>1, <3>2, <3>3, <3>4
  <2>2. ASSUME NEW a \in Apps, NEW type \in NotificationType,
               NEW stage \in Stage
        PROVE  [type |-> type, applicationId |-> a, stage |-> stage] \in Text
    BY DEF Text
  <2>3. ASSUME NEW a \in Apps, NEW type \in NotificationType,
               NEW stage \in Stage, NEW text \in Text,
               text = [type |-> type, applicationId |-> a, stage |-> stage]
        PROVE  LET said == Cardinality(
                             {i \in DOMAIN thread[a] :
                                /\ thread[a][i].about # "StageReverted"
                                /\ ToldBy(thread[a][i], a) = text})
                   told == Cardinality({i \in DOMAIN notifications :
                                          Telling(notifications[i]) = text})
                   unpublished ==
                     {h \in Handlers :
                        /\ InFlight(h)
                        /\ handler[h].app = a
                        /\ handler[h].op # "revert"
                        /\ handler[h].pc \in {"announce", "record", "publish"}
                        /\ ToldBy(systemMessage(handler[h]), a) = text}
                   inserting ==
                     {x \in fanOut :
                        /\ x[1] = a
                        /\ Telling(notification(a, events[a][x[2]])) = text}
                   late == Cardinality(unpublished) + Cardinality(inserting)
               IN /\ told + late <= said
                  /\ said <= told + late + failures + lost
    <3>1. LET late == Cardinality(Unpublished(text))
                        + Cardinality(Inserting(text))
              said == Cardinality(SaidIn(text))
              told == Cardinality(InInbox(text))
          IN /\ told + late <= said
             /\ said <= told + late + failures + lost
      BY <2>1, <2>3
    <3>2. text.applicationId = a
      BY <2>3
    <3>3. SaidIn(text) = {i \in DOMAIN thread[a] :
                            /\ thread[a][i].about # "StageReverted"
                            /\ ToldBy(thread[a][i], a) = text}
      BY <3>2 DEF SaidIn
    <3>4. Unpublished(text) =
            {h \in Handlers :
               /\ InFlight(h)
               /\ handler[h].app = a
               /\ handler[h].op # "revert"
               /\ handler[h].pc \in {"announce", "record", "publish"}
               /\ ToldBy(systemMessage(handler[h]), a) = text}
      BY <3>2 DEF Unpublished, HasToTell, Sending
    <3>5. Inserting(text) =
            {x \in fanOut :
               /\ x[1] = a
               /\ Telling(notification(a, events[a][x[2]])) = text}
      BY <3>2 DEF Inserting, Telling, notification
    <3> QED
      BY <3>1, <3>3, <3>4, <3>5, Zenon DEF InInbox
  <2> QED
    BY <2>2, <2>3, ZenonT(90) DEF InboxFollowsThread, Times
<1>2. ASSUME IInv, DeliveryTypes, StreamFollows, InboxFollows,
             [DeliveryNext]_deliveryVars
      PROVE  (StreamFollows /\ InboxFollows)'
  <2>1. [Next]_vars
    BY <1>2, StepRefines
  <2>2. IInv' /\ DeliveryTypes'
    BY <1>2, <2>1, NextIInv, NextTypes
  <2> QED
    BY <1>2, <2>1, <2>2, StreamStep, InboxStep
<1> QED
  BY DeliveryInvariance, InitStream, <1>1, <1>2, PTL DEF DeliverySpec
=============================================================================
