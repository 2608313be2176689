--------------------------- MODULE SessionsProofs ---------------------------
(***************************************************************************)
(* Theorems about Sessions, for every number of connections, descriptors   *)
(* and traders.                                                            *)
(***************************************************************************)
EXTENDS Sessions, TLAPS

(* The stages in which a connection's socket is open, and those in which its
   entry may be in traderSockets_. *)
Live == {"first", "reply", "record"} \cup InLoop \cup {"unregister", "close"}

Recorded == InLoop \cup {"unregister"}

Registered == {"reply", "record"} \cup Recorded

(* An open connection is what its descriptor refers to. *)
DescriptorsOwned ==
    \A c \in Connections : pc[c] \in Live =>
        descriptor[c] \in Descriptors /\ open[descriptor[c]] = c

HasId == \A c \in Connections : pc[c] \in Registered => traderId[c] \in Traders

(* An entry of traderSockets_ is the socket of a connection of its trader
   that has recorded it and has not unregistered yet.  RecordedSocketIsOwn
   alone does not say that the owner is still to erase the entry before it
   closes the socket. *)
EntriesHaveOwners ==
    \A id \in DOMAIN traderSockets \ {EmptyId} :
        \E c \in Connections : /\ pc[c] \in Recorded
                               /\ traderId[c] = id
                               /\ descriptor[c] = traderSockets[id]

(* Who has been sent something has its id for good. *)
ReceiversRegistered ==
    \A n \in delivered : n.about # EmptyId => pc[n.to] \notin {"none", "first"}

SessionsInv ==
    /\ TypeOK
    /\ DescriptorsOwned
    /\ HasId
    /\ EntriesHaveOwners
    /\ NotificationsReachOwner
    /\ ReceiversRegistered

LEMMA OwnersImplyOwn ==
    ASSUME TypeOK, DescriptorsOwned, EntriesHaveOwners
    PROVE  RecordedSocketIsOwn
<1> SUFFICES ASSUME NEW id \in DOMAIN traderSockets \ {EmptyId}
             PROVE  /\ open[traderSockets[id]] # None
                    /\ traderId[open[traderSockets[id]]] = id
  BY DEF RecordedSocketIsOwn
<1>1. PICK c \in Connections : /\ pc[c] \in Recorded
                               /\ traderId[c] = id
                               /\ descriptor[c] = traderSockets[id]
  BY DEF EntriesHaveOwners
<1>2. open[descriptor[c]] = c
  BY <1>1 DEF DescriptorsOwned, Live, Recorded
<1>3. QED
  BY <1>1, <1>2, SessionsAssumption

LEMMA SessionsInit == Init => SessionsInv
BY SessionsAssumption
DEF Init, SessionsInv, TypeOK, Stages, InLoop, DescriptorsOwned, Live, HasId, Registered,
    Recorded, EntriesHaveOwners, NotificationsReachOwner, ReceiversRegistered

(* The steps that change neither the map nor a descriptor. *)
LEMMA AcceptKeeps ==
    ASSUME SessionsInv, NEW c \in Connections, NEW d \in Descriptors, Accept(c, d)
    PROVE  SessionsInv'
<1> USE DEF SessionsInv, Accept, InLoop
<1>1. TypeOK'
  BY DEF TypeOK, Stages
<1>2. \A x \in Connections : pc'[x] \in Registered =>
        x # c /\ pc[x] = pc'[x] /\ descriptor'[x] = descriptor[x]
  BY DEF TypeOK, Registered, Recorded
<1>3. DescriptorsOwned'
  BY SessionsAssumption DEF DescriptorsOwned, Live, TypeOK
<1>4. HasId'
  BY <1>2 DEF HasId
<1>5. EntriesHaveOwners'
  BY DEF EntriesHaveOwners, Recorded, TypeOK
<1>6. NotificationsReachOwner'
  BY DEF NotificationsReachOwner
<1>7. ReceiversRegistered'
  BY DEF ReceiversRegistered, TypeOK
<1>8. QED
  BY <1>1, <1>3, <1>4, <1>5, <1>6, <1>7

LEMMA RegisterKeeps ==
    ASSUME SessionsInv, NEW c \in Connections, NEW id \in Traders, Register(c, id)
    PROVE  SessionsInv'
<1> USE DEF SessionsInv, Register, InLoop
<1>1. TypeOK'
  BY DEF TypeOK, Stages
<1>2. DescriptorsOwned'
  BY DEF DescriptorsOwned, Live, TypeOK
<1>3. HasId'
  BY DEF HasId, Registered, Recorded, TypeOK
<1>4. EntriesHaveOwners'
  BY DEF EntriesHaveOwners, Recorded, TypeOK
<1>5. NotificationsReachOwner'
  BY DEF NotificationsReachOwner, ReceiversRegistered, TypeOK
<1>6. ReceiversRegistered'
  BY DEF ReceiversRegistered, TypeOK
<1>7. QED
  BY <1>1, <1>2, <1>3, <1>4, <1>5, <1>6

LEMMA RecordKeeps ==
    ASSUME SessionsInv, NEW c \in Connections, Record(c)
    PROVE  SessionsInv'
<1> USE DEF SessionsInv, Record, InLoop
<1>1. traderId[c] \in Traders /\ descriptor[c] \in Descriptors
  BY DEF HasId, Registered, DescriptorsOwned, Live
<1>2. /\ DOMAIN traderSockets' = DOMAIN traderSockets \cup {traderId[c]}
      /\ traderSockets'[traderId[c]] = descriptor[c]
      /\ \A t \in DOMAIN traderSockets \ {traderId[c]} :
           traderSockets'[t] = traderSockets[t]
  BY <1>1
<1>3. TypeOK'
  BY <1>1 DEF TypeOK, Stages
<1>4. DescriptorsOwned'
  BY DEF DescriptorsOwned, Live, TypeOK
<1>5. HasId'
  BY <1>1 DEF HasId, Registered, Recorded, TypeOK
<1>6. EntriesHaveOwners'
  <2> SUFFICES ASSUME NEW id \in DOMAIN traderSockets' \ {EmptyId}
               PROVE  \E x \in Connections : /\ pc'[x] \in Recorded
                                             /\ traderId'[x] = id
                                             /\ descriptor'[x] = traderSockets'[id]
    BY DEF EntriesHaveOwners
  <2>1. CASE id = traderId[c]
    BY <1>2, <2>1 DEF Recorded, TypeOK
  <2>2. CASE id # traderId[c]
    <3>1. PICK x \in Connections : /\ pc[x] \in Recorded
                                   /\ traderId[x] = id
                                   /\ descriptor[x] = traderSockets[id]
      BY <1>2, <2>2 DEF EntriesHaveOwners
    <3>2. pc'[x] \in Recorded
      BY <3>1 DEF Recorded, TypeOK
    <3>3. QED
      BY <1>2, <2>2, <3>1, <3>2
  <2>3. QED
    BY <2>1, <2>2
<1>7. NotificationsReachOwner'
  BY DEF NotificationsReachOwner
<1>8. ReceiversRegistered'
  BY DEF ReceiversRegistered, TypeOK
<1>9. QED
  BY <1>3, <1>4, <1>5, <1>6, <1>7, <1>8

LEMMA NotifyKeeps ==
    ASSUME SessionsInv, NEW c \in Connections, NEW id \in Traders, NotifyTrader(c, id)
    PROVE  SessionsInv'
<1> USE DEF SessionsInv, NotifyTrader
<1> DEFINE to == IF id \in DOMAIN traderSockets THEN open[traderSockets[id]] ELSE None
<1>1. to \in Connections \cup {None}
  BY DEF TypeOK
<1>2. terminated' \in BOOLEAN
  BY DEF TypeOK, Send
<1>3. /\ pc' \in [Connections -> Stages]
      /\ \A x \in Connections : /\ pc'[x] \in Live <=> pc[x] \in Live
                                /\ pc'[x] \in Recorded <=> pc[x] \in Recorded
                                /\ pc'[x] \in Registered <=> pc[x] \in Registered
                                /\ pc'[x] \in {"none", "first"} <=> pc[x] \in {"none", "first"}
  BY DEF TypeOK, Stages, InLoop, Live, Recorded, Registered
<1>4. DescriptorsOwned' /\ HasId' /\ EntriesHaveOwners'
  BY <1>3 DEF DescriptorsOwned, HasId, EntriesHaveOwners
<1>5. CASE to = None
  BY <1>2, <1>3, <1>4, <1>5 DEF TypeOK, NotificationsReachOwner, ReceiversRegistered
<1>6. CASE to # None
  <2>1. /\ delivered' = delivered \cup {[to |-> to, about |-> id]}
        /\ to \in Connections
        /\ id \in DOMAIN traderSockets
    BY <1>1, <1>6
  <2>2. ASSUME id # EmptyId
        PROVE  traderId[to] = id /\ pc[to] \in Recorded
    <3>1. PICK x \in Connections : /\ pc[x] \in Recorded
                                   /\ traderId[x] = id
                                   /\ descriptor[x] = traderSockets[id]
      BY <2>1, <2>2 DEF EntriesHaveOwners
    <3>2. open[descriptor[x]] = x
      BY <3>1 DEF DescriptorsOwned, Live, Recorded
    <3>3. QED
      BY <2>1, <3>1, <3>2
  <2>3. TypeOK'
    BY <1>2, <1>3, <2>1 DEF TypeOK
  <2>4. NotificationsReachOwner'
    BY <2>1, <2>2 DEF NotificationsReachOwner
  <2>5. ReceiversRegistered'
    BY <1>3, <2>1, <2>2 DEF ReceiversRegistered, Recorded, InLoop, TypeOK
  <2>6. QED
    BY <1>4, <2>3, <2>4, <2>5
<1>7. QED
  BY <1>5, <1>6

LEMMA UnregisterKeeps ==
    ASSUME SessionsInv, NEW c \in Connections, Unregister(c)
    PROVE  SessionsInv'
<1> USE DEF SessionsInv, Unregister, InLoop
<1>1. /\ DOMAIN traderSockets' \subseteq DOMAIN traderSockets
      /\ traderId[c] # EmptyId => traderId[c] \notin DOMAIN traderSockets'
      /\ \A t \in DOMAIN traderSockets' : traderSockets'[t] = traderSockets[t]
  OBVIOUS
<1>2. TypeOK'
  BY <1>1 DEF TypeOK, Stages
<1>3. DescriptorsOwned'
  BY DEF DescriptorsOwned, Live, TypeOK
<1>4. HasId'
  BY DEF HasId, Registered, Recorded, TypeOK
<1>5. EntriesHaveOwners'
  <2> SUFFICES ASSUME NEW id \in DOMAIN traderSockets' \ {EmptyId}
               PROVE  \E x \in Connections : /\ pc'[x] \in Recorded
                                             /\ traderId'[x] = id
                                             /\ descriptor'[x] = traderSockets'[id]
    BY DEF EntriesHaveOwners
  <2>1. PICK x \in Connections : /\ pc[x] \in Recorded
                                 /\ traderId[x] = id
                                 /\ descriptor[x] = traderSockets[id]
    BY <1>1 DEF EntriesHaveOwners
  <2>2. x # c
    BY <1>1, <2>1
  <2>3. QED
    BY <1>1, <2>1, <2>2 DEF TypeOK
<1>6. NotificationsReachOwner'
  BY DEF NotificationsReachOwner
<1>7. ReceiversRegistered'
  BY DEF ReceiversRegistered, TypeOK
<1>8. QED
  BY <1>2, <1>3, <1>4, <1>5, <1>6, <1>7

LEMMA CloseKeeps ==
    ASSUME SessionsInv, NEW c \in Connections, Close(c)
    PROVE  SessionsInv'
<1> USE DEF SessionsInv, Close, InLoop
<1>1. TypeOK'
  BY DEF TypeOK, Stages
<1>2. DescriptorsOwned'
  BY DEF DescriptorsOwned, Live, TypeOK
<1>3. HasId'
  BY DEF HasId, Registered, Recorded, TypeOK
<1>4. EntriesHaveOwners'
  BY DEF EntriesHaveOwners, Recorded, TypeOK
<1>5. NotificationsReachOwner'
  BY DEF NotificationsReachOwner
<1>6. ReceiversRegistered'
  BY DEF ReceiversRegistered, TypeOK
<1>7. QED
  BY <1>1, <1>2, <1>3, <1>4, <1>5, <1>6

(* The steps that only move a thread from one stage to the next, or only
   concern the client's end. *)
LEMMA StageKeeps ==
    ASSUME SessionsInv, NEW c \in Connections,
           \/ HangUp(c) \/ Refuse(c) \/ Reply(c) \/ EndOfStream(c)
           \/ ProcessMessage(c) \/ LockSockets(c) \/ Answer(c)
    PROVE  SessionsInv'
<1> USE DEF SessionsInv, InLoop
<1>1. /\ UNCHANGED <<traderId, descriptor, open, traders, traderSockets, delivered>>
      /\ hungUp' \subseteq Connections
      /\ terminated' \in BOOLEAN
      /\ \/ pc' = pc
         \/ pc[c] = "first" /\ pc' = [pc EXCEPT ![c] = "close"]
         \/ pc[c] = "reply" /\ pc' = [pc EXCEPT ![c] = "record"]
         \/ pc[c] = "serving" /\ pc' = [pc EXCEPT ![c] = "unregister"]
         \/ \E stage \in InLoop : pc[c] \in InLoop /\ pc' = [pc EXCEPT ![c] = stage]
  BY DEF HangUp, Refuse, Reply, EndOfStream, ProcessMessage, LockSockets, Answer, Send,
         InLoop, TypeOK
<1>2. TypeOK'
  BY <1>1 DEF TypeOK, Stages
<1>3. DescriptorsOwned'
  BY <1>1 DEF DescriptorsOwned, Live, TypeOK
<1>4. HasId'
  BY <1>1 DEF HasId, Registered, Recorded, TypeOK
<1>5. EntriesHaveOwners'
  BY <1>1 DEF EntriesHaveOwners, Recorded, TypeOK
<1>6. NotificationsReachOwner'
  BY <1>1 DEF NotificationsReachOwner
<1>7. ReceiversRegistered'
  BY <1>1 DEF ReceiversRegistered, TypeOK
<1>8. QED
  BY <1>2, <1>3, <1>4, <1>5, <1>6, <1>7

LEMMA SessionsStep == SessionsInv /\ [Next]_vars => SessionsInv'
<1> SUFFICES ASSUME SessionsInv, [Next]_vars PROVE SessionsInv'
  OBVIOUS
<1>1. ASSUME NEW c \in Connections, NEW d \in Descriptors, Accept(c, d)
      PROVE  SessionsInv'
  BY <1>1, AcceptKeeps
<1>2. ASSUME NEW c \in Connections, NEW id \in Traders, Register(c, id)
      PROVE  SessionsInv'
  BY <1>2, RegisterKeeps
<1>3. ASSUME NEW c \in Connections,
             HangUp(c) \/ Refuse(c) \/ HandleMessage(c) \/ Handle(c)
      PROVE  SessionsInv'
  BY <1>3, StageKeeps, NotifyKeeps, RecordKeeps, UnregisterKeeps, CloseKeeps
     DEF Handle, HandleMessage
<1>4. CASE UNCHANGED vars
  BY <1>4 DEF vars, SessionsInv, TypeOK, DescriptorsOwned, HasId, EntriesHaveOwners,
              NotificationsReachOwner, ReceiversRegistered
<1>5. QED
  BY <1>1, <1>2, <1>3, <1>4 DEF Next

LEMMA SessionsInvariant == Spec => []SessionsInv
<1>1. Spec => Init /\ [][Next]_vars
  BY DEF Spec
<1>2. QED
  BY <1>1, SessionsInit, SessionsStep, PTL

(* The variables keep their types. *)
THEOREM SessionsTypeCorrect == Spec => []TypeOK
<1>1. SessionsInv => TypeOK
  BY DEF SessionsInv
<1>2. QED
  BY <1>1, SessionsInvariant, PTL

(* However many connections come and go and whatever descriptors they are
   given, a recorded socket is open and its trader's own. *)
THEOREM SocketsOwn == Spec => []RecordedSocketIsOwn
<1>1. SessionsInv => RecordedSocketIsOwn
  BY OwnersImplyOwn DEF SessionsInv
<1>2. QED
  BY <1>1, SessionsInvariant, PTL

(* No trader is ever sent what was meant for another. *)
THEOREM OwnersNotified == Spec => []NotificationsReachOwner
<1>1. SessionsInv => NotificationsReachOwner
  BY DEF SessionsInv
<1>2. QED
  BY <1>1, SessionsInvariant, PTL
----------------------------------------------------------------------------
(* The entry of a trader with one connection. *)

Sole(c) == /\ traderId[c] # None
           /\ \A x \in Connections \ {c} : traderId[x] # traderId[c]

(* An id is given once, before the stages in which it is used. *)
IdWhenRegistered ==
    \A c \in Connections : pc[c] \in {"none", "first"} => traderId[c] = None

SoleInv == IdWhenRegistered /\ SoleConnectionRecorded

(* What a step leaves alone: the other connections, and their traders' sole
   claim, which a registration can only take away. *)
LEMMA SoleStep ==
    ASSUME SessionsInv, SoleInv, [Next]_vars
    PROVE  SoleInv'
<1> USE DEF SessionsInv, SoleInv
<1>1. ASSUME NEW c \in Connections, NEW d \in Descriptors, Accept(c, d)
      PROVE  SoleInv'
  <2>1. IdWhenRegistered'
    BY <1>1 DEF Accept, IdWhenRegistered, TypeOK
  <2>2. traderId[c] = None
    BY <1>1 DEF Accept, IdWhenRegistered
  <2>3. SoleConnectionRecorded'
    BY <1>1, <2>2 DEF Accept, SoleConnectionRecorded, InLoop, TypeOK
  <2>4. QED
    BY <2>1, <2>3
<1>2. ASSUME NEW c \in Connections, NEW id \in Traders, Register(c, id)
      PROVE  SoleInv'
  <2>1. IdWhenRegistered' /\ traderId[c] = None /\ None \notin Traders
    BY <1>2, SessionsAssumption DEF Register, IdWhenRegistered, TypeOK
  <2>2. ASSUME NEW x \in Connections, Sole(x)', x # c
        PROVE  Sole(x) /\ pc'[x] = pc[x] /\ traderId'[x] = traderId[x]
    BY <1>2, <2>1, <2>2 DEF Register, Sole, TypeOK
  <2>3. pc'[c] = "reply"
    BY <1>2 DEF Register, TypeOK
  <2>4. SoleConnectionRecorded'
    BY <1>2, <2>2, <2>3 DEF Register, Sole, SoleConnectionRecorded, InLoop
  <2>5. QED
    BY <2>1, <2>4
<1>3. ASSUME NEW c \in Connections,
             \/ HangUp(c) \/ Refuse(c) \/ HandleMessage(c)
             \/ Reply(c) \/ EndOfStream(c) \/ Close(c)
      PROVE  SoleInv'
  <2>1. UNCHANGED <<traderId, traderSockets, descriptor>>
    BY <1>3 DEF HangUp, Refuse, HandleMessage, ProcessMessage, LockSockets, NotifyTrader, Answer,
                Reply, EndOfStream, Close
  <2>2. /\ \A x \in Connections : pc'[x] \in InLoop => pc[x] \in InLoop
        /\ \A x \in Connections : pc'[x] \in {"none", "first"} => pc[x] = pc'[x]
        /\ \A x \in Connections : pc'[x] \in {"close", "done"} =>
              traderId[x] = None \/ pc[x] \in {"close", "done"}
    BY <1>3 DEF HangUp, Refuse, HandleMessage, ProcessMessage, LockSockets, NotifyTrader, Answer,
                Reply, EndOfStream, Close, InLoop, TypeOK, IdWhenRegistered
  <2>3. QED
    BY <2>1, <2>2 DEF IdWhenRegistered, SoleConnectionRecorded
<1>4. ASSUME NEW c \in Connections, Record(c) PROVE SoleInv'
  <2>1. traderId[c] \in Traders
    BY <1>4 DEF Record, HasId, Registered
  <2>2. IdWhenRegistered'
    BY <1>4 DEF Record, IdWhenRegistered, TypeOK
  <2>3. ASSUME NEW x \in Connections, Sole(x)', x # c
        PROVE  /\ Sole(x) /\ pc'[x] = pc[x] /\ traderId[x] # traderId[c]
               /\ traderId[x] \in DOMAIN traderSockets' <=>
                     traderId[x] \in DOMAIN traderSockets
               /\ traderId[x] \in DOMAIN traderSockets =>
                     traderSockets'[traderId[x]] = traderSockets[traderId[x]]
    BY <1>4, <2>1, <2>3 DEF Record, Sole, TypeOK
  <2>4. /\ pc'[c] = "serving"
        /\ traderId[c] \in DOMAIN traderSockets'
        /\ traderSockets'[traderId[c]] = descriptor[c]
    BY <1>4, <2>1 DEF Record, TypeOK
  <2>5. SoleConnectionRecorded'
    BY <1>4, <2>3, <2>4 DEF Record, Sole, SoleConnectionRecorded, InLoop
  <2>6. QED
    BY <2>2, <2>5
<1>5. ASSUME NEW c \in Connections, Unregister(c) PROVE SoleInv'
  <2>1. traderId[c] \in Traders
    BY <1>5 DEF Unregister, HasId, Registered, Recorded
  <2>2. IdWhenRegistered'
    BY <1>5 DEF Unregister, IdWhenRegistered, TypeOK
  <2>3. ASSUME NEW x \in Connections, Sole(x)', x # c
        PROVE  /\ Sole(x) /\ pc'[x] = pc[x] /\ traderId[x] # traderId[c]
               /\ traderId[x] \in DOMAIN traderSockets' <=>
                     traderId[x] \in DOMAIN traderSockets
               /\ traderId[x] \in DOMAIN traderSockets =>
                     traderSockets'[traderId[x]] = traderSockets[traderId[x]]
    BY <1>5, <2>1, <2>3 DEF Unregister, Sole, TypeOK
  <2>4. /\ pc'[c] = "close"
        /\ traderId[c] # EmptyId => traderId[c] \notin DOMAIN traderSockets'
    BY <1>5, <2>1 DEF Unregister, TypeOK
  <2>5. SoleConnectionRecorded'
    BY <1>5, <2>3, <2>4 DEF Unregister, Sole, SoleConnectionRecorded, InLoop
  <2>6. QED
    BY <2>2, <2>5
<1>6. CASE UNCHANGED vars
  BY <1>6 DEF vars, IdWhenRegistered, SoleConnectionRecorded
<1>7. QED
  BY <1>1, <1>2, <1>3, <1>4, <1>5, <1>6 DEF Next, Handle

(* A trader with one connection is in the map exactly while that connection
   is served, whoever else comes, goes or is given the same descriptor. *)
THEOREM SoleConnectionKept == Spec => []SoleConnectionRecorded
<1>1. Spec => Init /\ [][Next]_vars
  BY DEF Spec
<1>2. Init => SoleInv
  BY DEF Init, SoleInv, IdWhenRegistered, SoleConnectionRecorded, InLoop
<1>3. SessionsInv /\ SoleInv /\ [Next]_vars => SoleInv'
  BY SoleStep
<1>4. SoleInv => SoleConnectionRecorded
  BY DEF SoleInv
<1>5. QED
  BY <1>1, <1>2, <1>3, <1>4, SessionsInvariant, PTL
----------------------------------------------------------------------------
(* Liveness.  A client that has gone away, its thread, and how far the thread
   is from the close of its socket. *)

Gone(c) == c \in hungUp /\ ~ terminated

Left(c) == terminated \/ \A d \in Descriptors : open[d] # c

At(c, stage) == Gone(c) /\ pc[c] = stage

(* Only the threads that have yet to close have a descriptor, and each only its
   own; a client that has gone away had been accepted. *)
OpenIsLive ==
    /\ \A d \in Descriptors : open[d] # None => pc[open[d]] \in Live
    /\ \A c \in Connections : \A d \in Descriptors : open[d] = c => descriptor[c] = d
    /\ \A c \in hungUp : pc[c] # "none"

LEMMA OpenIsLiveStep == SessionsInv /\ OpenIsLive /\ [Next]_vars => OpenIsLive'
<1> SUFFICES ASSUME SessionsInv, OpenIsLive, [Next]_vars
             PROVE  OpenIsLive'
  OBVIOUS
<1> USE SessionsAssumption DEF SessionsInv
<1>1. ASSUME NEW c \in Connections, NEW d \in Descriptors, Accept(c, d)
      PROVE  OpenIsLive'
  BY <1>1 DEF Accept, OpenIsLive, DescriptorsOwned, Live, InLoop, TypeOK
<1>2. ASSUME NEW c \in Connections, NEW id \in Traders, Register(c, id)
      PROVE  OpenIsLive'
  BY <1>2 DEF Register, OpenIsLive, Live, TypeOK
<1>3. ASSUME NEW c \in Connections, Close(c)
      PROVE  OpenIsLive'
  BY <1>3 DEF Close, OpenIsLive, DescriptorsOwned, Live, TypeOK
<1>4. ASSUME NEW c \in Connections,
             \/ HangUp(c) \/ Refuse(c) \/ HandleMessage(c) \/ Reply(c) \/ Record(c)
             \/ EndOfStream(c) \/ Unregister(c)
      PROVE  OpenIsLive'
  <2>1. /\ UNCHANGED <<open, descriptor>>
        /\ hungUp' = hungUp \/ (hungUp' = hungUp \cup {c} /\ pc[c] # "none")
        /\ \/ pc' = pc
           \/ \E stage \in Live : pc' = [pc EXCEPT ![c] = stage]
    BY <1>4 DEF HangUp, Refuse, HandleMessage, ProcessMessage, LockSockets, NotifyTrader, Answer,
                Reply, Record, EndOfStream, Unregister, InLoop, Live
  <2>2. \A x \in Connections : pc'[x] = pc[x] \/ pc'[x] \in Live
    BY <2>1 DEF TypeOK
  <2>3. "none" \notin Live
    BY DEF Live, InLoop
  <2>4. QED
    BY <2>1, <2>2, <2>3 DEF OpenIsLive, TypeOK
<1>5. CASE UNCHANGED vars
  BY <1>5 DEF vars, OpenIsLive
<1>6. QED
  BY <1>1, <1>2, <1>3, <1>4, <1>5 DEF Next, Handle

(* Where a thread gets from each stage. *)
Onward == {<<"first", "reply">>, <<"first", "close">>, <<"reply", "record">>,
           <<"record", "serving">>, <<"serving", "processing">>, <<"serving", "unregister">>,
           <<"processing", "serving">>, <<"processing", "notifying">>,
           <<"notifying", "processing">>, <<"unregister", "close">>, <<"close", "done">>}

LEMMA GoneStep ==
    ASSUME SessionsInv, OpenIsLive, NEW c \in Connections, Gone(c), [Next]_vars
    PROVE  \/ terminated'
           \/ Gone(c)' /\ (pc'[c] = pc[c] \/ <<pc[c], pc'[c]>> \in Onward)
<1> USE DEF SessionsInv, Gone, Onward
<1>1. ASSUME NEW x \in Connections, NEW d \in Descriptors, Accept(x, d)
      PROVE  Gone(c)' /\ pc'[c] = pc[c]
  BY <1>1 DEF Accept, OpenIsLive, TypeOK
<1>2. ASSUME NEW x \in Connections, NEW id \in Traders, Register(x, id)
      PROVE  Gone(c)' /\ (pc'[c] = pc[c] \/ <<pc[c], pc'[c]>> \in Onward)
  BY <1>2 DEF Register, TypeOK
<1>3. ASSUME NEW x \in Connections,
             HangUp(x) \/ Refuse(x) \/ Handle(x)
      PROVE  \/ terminated'
             \/ Gone(c)' /\ (pc'[c] = pc[c] \/ <<pc[c], pc'[c]>> \in Onward)
  BY <1>3 DEF HangUp, Refuse, Handle, Reply, Record, EndOfStream, Unregister,
              Close, Send, TypeOK
<1>4. ASSUME NEW x \in Connections, HandleMessage(x)
      PROVE  \/ terminated'
             \/ Gone(c)' /\ (pc'[c] = pc[c] \/ <<pc[c], pc'[c]>> \in Onward)
  BY <1>4 DEF HandleMessage, ProcessMessage, LockSockets, NotifyTrader, Answer, Send, TypeOK
<1>5. CASE UNCHANGED vars
  BY <1>5 DEF vars
<1>6. QED
  BY <1>1, <1>2, <1>3, <1>4, <1>5 DEF Next

LEMMA HandleMoves ==
    ASSUME SessionsInv, NEW c \in Connections, GoesOn(c)
    PROVE  pc'[c] # pc[c] /\ pc'[c] \notin {"processing", "notifying"}
              /\ (pc[c] \in InLoop => pc'[c] = "unregister")
BY DEF SessionsInv, TypeOK, InLoop, GoesOn, Handle, Refuse, Reply, Record, EndOfStream,
       Unregister, Close

(* The whole way, from the thread's stage to the close. *)
LEMMA GoneIsReleased ==
    ASSUME NEW c \in Connections
    PROVE  [][Next]_vars /\ [](SessionsInv /\ OpenIsLive) /\ []GuardsEnabled
             /\ Scheduled(c) /\ CallsReturn(c)
             => (c \in hungUp ~> Left(c))
<1> DEFINE Inv == SessionsInv /\ OpenIsLive
           Looping == Gone(c) /\ pc[c] \in InLoop
           Busy == pc[c] \in {"processing", "notifying"}
<1>1. GuardsEnabled /\ CanHandle(c) => ENABLED <<GoesOn(c)>>_vars
  BY DEF GuardsEnabled
<1>2. Inv /\ c \in hungUp =>
         \/ Left(c) \/ At(c, "first") \/ At(c, "reply") \/ At(c, "record")
         \/ Looping \/ At(c, "unregister") \/ At(c, "close")
  BY SessionsAssumption DEF SessionsInv, TypeOK, Stages, OpenIsLive, Left, At, Gone, Live
<1>3. /\ At(c, "first") \/ At(c, "reply") \/ At(c, "close") => CanHandle(c)
      /\ At(c, "record") \/ At(c, "unregister") =>
            (terminated \/ SocketsFree => CanHandle(c))
      /\ Looping => (terminated \/ ~ Busy => CanHandle(c))
  BY DEF At, Gone, CanHandle, InLoop
<1>4. Inv /\ At(c, "first") /\ [Next]_vars =>
         (At(c, "first") \/ At(c, "reply") \/ At(c, "close") \/ Left(c))'
  BY GoneStep DEF At, Left, Onward
<1>5. Inv /\ At(c, "reply") /\ [Next]_vars => (At(c, "reply") \/ At(c, "record") \/ Left(c))'
  BY GoneStep DEF At, Left, Onward
<1>6. Inv /\ At(c, "record") /\ [Next]_vars => (At(c, "record") \/ Looping \/ Left(c))'
  BY GoneStep DEF At, Left, Onward, InLoop
<1>7. Inv /\ Looping /\ [Next]_vars => (Looping \/ At(c, "unregister") \/ Left(c))'
  BY GoneStep DEF At, Left, Onward, InLoop
<1>8. Inv /\ At(c, "unregister") /\ [Next]_vars =>
         (At(c, "unregister") \/ At(c, "close") \/ Left(c))'
  BY GoneStep DEF At, Left, Onward
<1>9. Inv /\ Inv' /\ At(c, "close") /\ [Next]_vars => (At(c, "close") \/ Left(c))'
  BY GoneStep, SessionsAssumption DEF At, Left, Onward, OpenIsLive, Live, InLoop
<1>10. /\ Inv /\ At(c, "first") /\ <<GoesOn(c)>>_vars => ~ At(c, "first")'
       /\ Inv /\ At(c, "reply") /\ <<GoesOn(c)>>_vars => ~ At(c, "reply")'
       /\ Inv /\ At(c, "record") /\ <<GoesOn(c)>>_vars => ~ At(c, "record")'
       /\ Inv /\ Looping /\ <<GoesOn(c)>>_vars => ~ Looping'
       /\ Inv /\ At(c, "unregister") /\ <<GoesOn(c)>>_vars => ~ At(c, "unregister")'
       /\ Inv /\ At(c, "close") /\ <<GoesOn(c)>>_vars => ~ At(c, "close")'
  BY HandleMoves DEF At, InLoop
<1>11. pc[c] \notin {"processing", "notifying"} <=> ~ Busy
  OBVIOUS
<1> HIDE DEF Looping, Busy, Inv
<1>12. CallsReturn(c) => []<>(terminated \/ SocketsFree) /\ []<>(terminated \/ ~ Busy)
  BY <1>11, PTL DEF CallsReturn
<1>13. QED
  BY <1>1, <1>2, <1>3, <1>4, <1>5, <1>6, <1>7, <1>8, <1>9, <1>10, <1>12, PTL DEF Scheduled, Inv

(* Once its client is gone a thread closes its descriptor in the end, if what it
   waits for comes to be.  That the guards of Handle are when it is enabled is a
   premise; TLC evaluates it (Guards...cfg). *)
THEOREM DescriptorsReleased == FairSpec /\ []GuardsEnabled => DescriptorReleased
<1>1. ASSUME NEW c \in Connections
      PROVE  FairSpec /\ []GuardsEnabled => (CallsReturn(c) => (c \in hungUp ~> Left(c)))
  <2>1. FairSpec => Spec /\ Init /\ [][Next]_vars /\ Fairness
    BY DEF FairSpec, Spec
  <2>2. Init => OpenIsLive
    BY SessionsAssumption DEF Init, OpenIsLive
  <2>3. Fairness => Scheduled(c)
    BY DEF Fairness
  <2>4. QED
    BY <2>1, <2>2, <2>3, OpenIsLiveStep, SessionsInvariant, GoneIsReleased, PTL
<1>2. QED
  BY <1>1 DEF DescriptorReleased, Left
=============================================================================
