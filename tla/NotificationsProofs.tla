------------------------ MODULE NotificationsProofs -------------------------
(***************************************************************************)
(* Theorems about Notifications, for every set of clients and every size   *)
(* of the buffers: types, and that every client is answered if every       *)
(* client reads.                                                           *)
(***************************************************************************)
EXTENDS Notifications, SequenceTheorems, TLAPS

(* Whom a thread has yet to notify: four at most, and someone as long as it is
   at it. *)
DueInv ==
    \A c \in Clients :
        /\ Len(due[c]) <= 4
        /\ pc[c] \in {"notify", "send"} => due[c] # << >>

SendInv == TypeOK /\ DueInv

----------------------------------------------------------------------------
(* Types. *)

LEMMA NotifiedAre ==
    ASSUME NEW b \in Clients, NEW s \in Clients, NEW told \in Notified(b, s)
    PROVE  /\ told \in Seq(Clients) /\ told # << >>
           /\ Len(told) = 2 \/ Len(told) = 4
           /\ Len(told) <= 4
<1>1. CASE told = <<b, s>>
  BY <1>1
<1>2. CASE told = <<b, s, b, s>>
  BY <1>2
<1>3. QED
  BY <1>1, <1>2 DEF Notified

LEMMA LengthOf ==
    ASSUME NEW q \in Seq(Clients), q # << >>
    PROVE  Len(q) \in Nat \ {0} /\ (Len(q) <= 4 => Len(q) \in 1 .. 4)
<1>1. Len(q) \in Nat \ {0}
  BY EmptySeq
<1>2. \A n \in Nat \ {0} : n <= 4 => n \in 1 .. 4
  OBVIOUS
<1>3. QED
  BY <1>1, <1>2, Zenon

LEMMA TailIsNotEmpty ==
    ASSUME NEW q \in Seq(Clients), q # << >>, Len(q) # 1
    PROVE  Tail(q) # << >>
<1>1. Len(Tail(q)) = Len(q) - 1 /\ Len(q) \in Nat
  BY HeadTailProperties, LenProperties
<1>2. Len(Tail(q)) # 0
  BY <1>1
<1>3. Len(<< >>) = 0
  BY EmptySeq
<1>4. QED
  BY <1>2, <1>3, Zenon

LEMMA StepKeepsTypes == SendInv /\ [Next]_vars => SendInv'
<1> SUFFICES ASSUME SendInv, [Next]_vars PROVE SendInv'
  OBVIOUS
<1> USE NotificationsAssumption DEF SendInv, TypeOK, DueInv, Stages, Goto
<1>1. ASSUME NEW c \in Clients, ReceiveOrder(c) PROVE SendInv'
  <2>1. TypeOK'
    BY <1>1 DEF ReceiveOrder
  <2>2. DueInv'
    BY <1>1 DEF ReceiveOrder
  <2>3. QED
    BY <2>1, <2>2
<1>2. ASSUME NEW c \in Clients, Record(c) PROVE SendInv'
  BY <1>2 DEF Record
<1>3. ASSUME NEW c \in Clients, Match(c) PROVE SendInv'
  <2>1. CASE due' = due /\ Goto(c, "answer")
    BY <1>3, <2>1 DEF Match
  <2>2. ASSUME NEW other \in Clients, NEW told \in Notified(c, other) \cup Notified(other, c),
               due' = [due EXCEPT ![c] = told], Goto(c, "notify")
        PROVE  SendInv'
    <3>1. told \in Seq(Clients) /\ Len(told) <= 4 /\ told # << >>
      <4>1. CASE told \in Notified(c, other)
        BY <4>1, NotifiedAre
      <4>2. CASE told \in Notified(other, c)
        BY <4>2, NotifiedAre
      <4>3. QED
        BY <4>1, <4>2
    <3>2. UNCHANGED <<mutex, unread, orders>> /\ pc[c] = "match"
      BY <1>3 DEF Match
    <3>3. QED
      BY <2>2, <3>1, <3>2
  <2>3. QED
    BY <1>3, <2>1, <2>2 DEF Match
<1>4. ASSUME NEW c \in Clients, LockSockets(c) PROVE SendInv'
  BY <1>4 DEF LockSockets
<1>5. ASSUME NEW c \in Clients, SendNotice(c) PROVE SendInv'
  <2>1. due[c] \in Seq(Clients) /\ due[c] # << >>
    BY <1>5 DEF SendNotice
  <2>2. /\ Head(due[c]) \in Clients
        /\ Tail(due[c]) \in Seq(Clients) /\ Len(due[c]) \in Nat
        /\ Len(Tail(due[c])) = Len(due[c]) - 1
    BY <2>1, HeadTailProperties, LenProperties
  <2>3. Len(due[c]) # 1 => Tail(due[c]) # << >>
    BY <2>1, TailIsNotEmpty
  <2>4. unread' \in [Clients -> 0 .. Capacity]
    BY <1>5, <2>2 DEF SendNotice, Send
  <2>5. due' \in [Clients -> Seq(Clients)]
    BY <1>5, <2>2 DEF SendNotice
  <2>6. pc' \in [Clients -> Stages] /\ mutex' = None
        /\ \A d \in Clients : pc'[d] # "send"
    BY <1>5 DEF SendNotice
  <2>7. DueInv'
    <3> SUFFICES ASSUME NEW d \in Clients
                 PROVE  /\ Len(due'[d]) <= 4
                        /\ pc'[d] \in {"notify", "send"} => due'[d] # << >>
      OBVIOUS
    <3>1. CASE d # c
      BY <1>5, <3>1 DEF SendNotice
    <3>2. CASE d = c
      <4>1. due'[c] = Tail(due[c]) /\ (pc'[c] = "notify" => Len(due[c]) # 1)
        BY <1>5 DEF SendNotice
      <4>2. QED
        BY <2>2, <2>3, <2>6, <3>2, <4>1
    <3>3. QED
      BY <3>1, <3>2
  <2>8. QED
    BY <1>5, <2>4, <2>5, <2>6, <2>7 DEF SendNotice
<1>6. ASSUME NEW c \in Clients, Answer(c) PROVE SendInv'
  BY <1>6 DEF Answer, Send
<1>7. ASSUME NEW c \in Clients, Read(c) PROVE SendInv'
  BY <1>7 DEF Read
<1>8. CASE UNCHANGED vars
  BY <1>8 DEF vars
<1>9. QED
  BY <1>1, <1>2, <1>3, <1>4, <1>5, <1>6, <1>7, <1>8 DEF Next, Continue

LEMMA TypesInitially == Init => SendInv
BY NotificationsAssumption DEF Init, SendInv, TypeOK, DueInv, Stages

(* The thread that sends holds socketsMutex_, and nobody unlocks it for that
   thread; a thread has four to notify at most. *)
LEMMA SendInvHolds == Spec => []SendInv
BY TypesInitially, StepKeepsTypes, PTL DEF Spec

(* Every variable keeps its type; socketsMutex_ is held by the thread that
   sends and by no other. *)
THEOREM NotificationsTypesCorrect == Spec => []TypeOK
<1>1. SendInv => TypeOK
  BY DEF SendInv
<1>2. QED
  BY <1>1, SendInvHolds, PTL

----------------------------------------------------------------------------
(* Liveness: room comes back as long as clients read. *)

RoomComes(c) == []<>Room(c)

LEMMA ReadersMakeRoom ==
    ASSUME NEW c \in Clients
    PROVE  [][Next]_vars /\ []SendInv /\ []GuardsEnabled /\ Reads(c) => RoomComes(c)
<1>1. Read(c) /\ SendInv => Room(c)'
  BY NotificationsAssumption DEF Read, SendInv, TypeOK, Room
<1>2. SendInv /\ ~ Room(c) => unread[c] > 0
  BY NotificationsAssumption DEF SendInv, TypeOK, Room
<1>3. GuardsEnabled /\ unread[c] > 0 => ENABLED <<Read(c)>>_vars
  BY DEF GuardsEnabled
<1>4. QED
  BY <1>1, <1>2, <1>3, PTL DEF Reads, RoomComes

(* Where a thread is, and how many it has yet to notify. *)
At(c, stage) == pc[c] = stage

AtWith(c, stage, n) == pc[c] = stage /\ Len(due[c]) = n

SendsTo(c, n, r) == AtWith(c, "send", n) /\ Head(due[c]) = r

MutexFree == mutex = None

Notified1(c, n) == IF n = 1 THEN At(c, "answer") ELSE AtWith(c, "notify", n - 1)

LEMMA OnlyItselfMoves ==
    ASSUME SendInv, NEW c \in Clients, pc[c] # "recv", [Next]_vars
    PROVE  <<Continue(c)>>_vars \/ UNCHANGED <<pc[c], due[c]>>
<1> USE DEF SendInv, TypeOK, Goto
<1>1. ASSUME NEW d \in Clients, ReceiveOrder(d) \/ Read(d)
      PROVE  UNCHANGED <<pc[c], due[c]>>
  BY <1>1 DEF ReceiveOrder, Read
<1>2. ASSUME NEW d \in Clients, d # c, Record(d) \/ LockSockets(d) \/ Answer(d)
      PROVE  UNCHANGED <<pc[c], due[c]>>
  BY <1>2 DEF Record, LockSockets, Answer
<1>3. ASSUME NEW d \in Clients, d # c, Match(d)
      PROVE  UNCHANGED <<pc[c], due[c]>>
  BY <1>3 DEF Match
<1>4. ASSUME NEW d \in Clients, d # c, SendNotice(d)
      PROVE  UNCHANGED <<pc[c], due[c]>>
  BY <1>4 DEF SendNotice
<1>5. UNCHANGED vars => UNCHANGED <<pc[c], due[c]>>
  BY DEF vars
<1>6. QED
  BY <1>1, <1>2, <1>3, <1>4, <1>5 DEF Next, Continue

(* What a thread's own step does. *)
LEMMA OwnSteps ==
    ASSUME SendInv, NEW c \in Clients, Continue(c)
    PROVE  /\ At(c, "record") => At(c, "recv")'
           /\ At(c, "match") => \/ At(c, "answer")'
                                \/ AtWith(c, "notify", 2)' \/ AtWith(c, "notify", 4)'
           /\ \A n \in 1 .. 4 : AtWith(c, "notify", n) => AtWith(c, "send", n)'
           /\ \A n \in 1 .. 4 : AtWith(c, "send", n) => Notified1(c, n)' /\ MutexFree'
           /\ At(c, "answer") => At(c, "recv")'
<1> USE DEF SendInv, TypeOK, Goto, At, AtWith
<1>1. CASE Record(c)
  BY <1>1 DEF Record
<1>2. CASE Match(c)
  <2>1. CASE pc'[c] = "answer"
    BY <1>2, <2>1 DEF Match
  <2>2. ASSUME NEW other \in Clients, NEW told \in Notified(c, other) \cup Notified(other, c),
               due' = [due EXCEPT ![c] = told], Goto(c, "notify")
        PROVE  AtWith(c, "notify", 2)' \/ AtWith(c, "notify", 4)'
    <3>1. Len(told) = 2 \/ Len(told) = 4
      BY <2>2, NotifiedAre
    <3>2. QED
      BY <2>2, <3>1
  <2>3. QED
    BY <1>2, <2>1, <2>2 DEF Match
<1>3. CASE LockSockets(c)
  BY <1>3 DEF LockSockets
<1>4. CASE SendNotice(c)
  <2>1. due[c] \in Seq(Clients) /\ due[c] # << >>
    BY <1>4 DEF SendNotice
  <2>2. Len(due[c]) \in Nat /\ Len(Tail(due[c])) = Len(due[c]) - 1
    BY <2>1, HeadTailProperties, LenProperties
  <2>3. QED
    BY <1>4, <2>2 DEF SendNotice, Notified1, MutexFree
<1>5. CASE Answer(c)
  BY <1>5 DEF Answer
<1>6. QED
  BY <1>1, <1>2, <1>3, <1>4, <1>5 DEF Continue

GetsThrough(c, n, r) == SendsTo(c, n, r) ~> (Notified1(c, n) /\ MutexFree)

(* A notification under way gets its room, and is sent. *)
LEMMA SentInTheEnd ==
    ASSUME NEW c \in Clients, NEW r \in Clients, NEW n \in 1 .. 4
    PROVE  [][Next]_vars /\ []SendInv /\ []GuardsEnabled /\ Served(c) /\ RoomComes(r)
              => GetsThrough(c, n, r)
<1>1. SendInv /\ SendsTo(c, n, r) /\ [Next]_vars => SendsTo(c, n, r)' \/ <<Continue(c)>>_vars
  BY OnlyItselfMoves DEF SendsTo, AtWith
<1>2. SendInv /\ SendsTo(c, n, r) /\ Continue(c) => (Notified1(c, n) /\ MutexFree)'
  BY OwnSteps DEF SendsTo
<1>3. SendsTo(c, n, r) /\ Room(r) => CanContinue(c)
  BY DEF SendsTo, AtWith, CanContinue
<1>4. GuardsEnabled /\ CanContinue(c) => ENABLED <<Continue(c)>>_vars
  BY DEF GuardsEnabled
<1>5. QED
  BY <1>1, <1>2, <1>3, <1>4, PTL DEF Served, RoomComes, GetsThrough

(* What follows is so if every client reads. *)
AllRead == Readers = Clients

Sent(c, n) == AtWith(c, "send", n) ~> (Notified1(c, n) /\ MutexFree)

LEMMA EveryNoticeSent ==
    ASSUME NEW c \in Clients, NEW n \in 1 .. 4, AllRead
    PROVE  [][Next]_vars /\ []SendInv /\ []GuardsEnabled /\ []Fairness => Sent(c, n)
<1>1. SUFFICES ASSUME [][Next]_vars, []SendInv, []GuardsEnabled, []Fairness
               PROVE  Sent(c, n)
  OBVIOUS
<1>2. ASSUME NEW r \in Clients, SendsTo(c, n, r)
      PROVE  <>(Notified1(c, n) /\ MutexFree)
  <2>1. Served(c) /\ Reads(r)
    <3>1. Fairness
      BY <1>1, PTL
    <3>2. QED
      BY <3>1 DEF Fairness, AllRead
  <2>2. [][Next]_vars /\ []SendInv /\ []GuardsEnabled /\ Reads(r) => RoomComes(r)
    BY ReadersMakeRoom
  <2>3. [][Next]_vars /\ []SendInv /\ []GuardsEnabled /\ Served(c) /\ RoomComes(r)
           => GetsThrough(c, n, r)
    BY SentInTheEnd
  <2>4. QED
    BY <1>1, <1>2, <2>1, <2>2, <2>3, PTL DEF GetsThrough
<1>3. (\E r \in Clients : SendsTo(c, n, r)) => <>(Notified1(c, n) /\ MutexFree)
  BY <1>2
<1>4. SendInv /\ AtWith(c, "send", n) => \E r \in Clients : SendsTo(c, n, r)
  <2> SUFFICES ASSUME SendInv, AtWith(c, "send", n)
               PROVE  \E r \in Clients : SendsTo(c, n, r)
    OBVIOUS
  <2>1. due[c] \in Seq(Clients) /\ due[c] # << >>
    BY DEF SendInv, TypeOK, DueInv, AtWith
  <2>2. Head(due[c]) \in Clients
    BY <2>1, HeadTailProperties
  <2>3. QED
    BY <2>2 DEF SendsTo
<1>5. QED
  BY <1>1, <1>3, <1>4, PTL DEF Sent

(* So the mutex comes free again and again. *)
LEMMA MutexComesFree ==
    ASSUME AllRead
    PROVE  [][Next]_vars /\ []SendInv /\ []GuardsEnabled /\ []Fairness => []<>MutexFree
<1>1. SUFFICES ASSUME [][Next]_vars, []SendInv, []GuardsEnabled, []Fairness
               PROVE  []<>MutexFree
  OBVIOUS
<1>2. ASSUME NEW c \in Clients, At(c, "send")
      PROVE  <>MutexFree
  <2>1. Sent(c, 1) /\ Sent(c, 2) /\ Sent(c, 3) /\ Sent(c, 4)
    BY <1>1, EveryNoticeSent
  <2>2. SendInv /\ At(c, "send") =>
          \/ AtWith(c, "send", 1) \/ AtWith(c, "send", 2)
          \/ AtWith(c, "send", 3) \/ AtWith(c, "send", 4)
    <3> SUFFICES ASSUME SendInv, At(c, "send")
                 PROVE  Len(due[c]) \in 1 .. 4
      BY DEF AtWith, At
    <3>1. due[c] \in Seq(Clients) /\ due[c] # << >> /\ Len(due[c]) <= 4
      BY DEF SendInv, TypeOK, DueInv, At
    <3>2. QED
      BY <3>1, LengthOf
  <2>3. QED
    BY <1>1, <1>2, <2>1, <2>2, PTL DEF Sent
<1>3. (\E c \in Clients : At(c, "send")) => <>MutexFree
  BY <1>2
<1>4. SendInv => MutexFree \/ \E c \in Clients : At(c, "send")
  BY DEF SendInv, TypeOK, MutexFree, At
<1>5. QED
  BY <1>1, <1>3, <1>4, PTL

(* Every thread comes back to recv: it gets socketsMutex_ for each of its
   notifications because it comes free, and room for them and for its reply
   because everybody reads.  []Fairness is what Fairness is, for fairness is
   about the end of a behaviour; without the box the provers cannot use it
   later than at the start.  GuardsEnabled is what GuardsNotifications.cfg
   checks. *)
THEOREM AllReadersAnswered ==
    ASSUME Readers = Clients
    PROVE  Spec /\ []Fairness /\ []GuardsEnabled => ReadersAnswered
<1>1. ASSUME NEW c \in Clients
      PROVE  Spec /\ []Fairness /\ []GuardsEnabled => (pc[c] # "recv" ~> pc[c] = "recv")
  <2> DEFINE Busy == pc[c] # "recv"
             Idle == pc[c] = "recv"
             Safe == [][Next]_vars /\ []SendInv /\ []GuardsEnabled /\ []Fairness
  <2>1. SendInv /\ Busy /\ [Next]_vars => <<Continue(c)>>_vars \/ UNCHANGED <<pc[c], due[c]>>
    BY OnlyItselfMoves
  <2>2. /\ SendInv /\ At(c, "record") /\ [Next]_vars => At(c, "record")' \/ <<Continue(c)>>_vars
        /\ SendInv /\ At(c, "match") /\ [Next]_vars => At(c, "match")' \/ <<Continue(c)>>_vars
        /\ SendInv /\ At(c, "answer") /\ [Next]_vars => At(c, "answer")' \/ <<Continue(c)>>_vars
    BY <2>1 DEF At
  <2>3. /\ SendInv /\ AtWith(c, "notify", 1) /\ [Next]_vars
              => AtWith(c, "notify", 1)' \/ <<Continue(c)>>_vars
        /\ SendInv /\ AtWith(c, "notify", 2) /\ [Next]_vars
              => AtWith(c, "notify", 2)' \/ <<Continue(c)>>_vars
        /\ SendInv /\ AtWith(c, "notify", 3) /\ [Next]_vars
              => AtWith(c, "notify", 3)' \/ <<Continue(c)>>_vars
        /\ SendInv /\ AtWith(c, "notify", 4) /\ [Next]_vars
              => AtWith(c, "notify", 4)' \/ <<Continue(c)>>_vars
    BY <2>1 DEF AtWith
  <2>4. SendInv /\ Continue(c) =>
          /\ At(c, "record") => Idle'
          /\ At(c, "match") => \/ At(c, "answer")'
                               \/ AtWith(c, "notify", 2)' \/ AtWith(c, "notify", 4)'
          /\ AtWith(c, "notify", 1) => AtWith(c, "send", 1)'
          /\ AtWith(c, "notify", 2) => AtWith(c, "send", 2)'
          /\ AtWith(c, "notify", 3) => AtWith(c, "send", 3)'
          /\ AtWith(c, "notify", 4) => AtWith(c, "send", 4)'
          /\ At(c, "answer") => Idle'
    BY OwnSteps DEF At
  <2>5. /\ Notified1(c, 1) => At(c, "answer")
        /\ Notified1(c, 2) => AtWith(c, "notify", 1)
        /\ Notified1(c, 3) => AtWith(c, "notify", 2)
        /\ Notified1(c, 4) => AtWith(c, "notify", 3)
    BY DEF Notified1
  <2>6. /\ At(c, "record") /\ MutexFree => CanContinue(c)
        /\ At(c, "match") => CanContinue(c)
        /\ At(c, "answer") /\ Room(c) => CanContinue(c)
        /\ AtWith(c, "notify", 1) /\ MutexFree => CanContinue(c)
        /\ AtWith(c, "notify", 2) /\ MutexFree => CanContinue(c)
        /\ AtWith(c, "notify", 3) /\ MutexFree => CanContinue(c)
        /\ AtWith(c, "notify", 4) /\ MutexFree => CanContinue(c)
    BY DEF At, AtWith, MutexFree, CanContinue
  <2>7. GuardsEnabled /\ CanContinue(c) => ENABLED <<Continue(c)>>_vars
    BY DEF GuardsEnabled
  <2>8. SendInv /\ Busy =>
          \/ At(c, "record") \/ At(c, "match") \/ At(c, "answer")
          \/ AtWith(c, "notify", 1) \/ AtWith(c, "notify", 2)
          \/ AtWith(c, "notify", 3) \/ AtWith(c, "notify", 4)
          \/ AtWith(c, "send", 1) \/ AtWith(c, "send", 2)
          \/ AtWith(c, "send", 3) \/ AtWith(c, "send", 4)
    <3> SUFFICES ASSUME SendInv, Busy, pc[c] \in {"notify", "send"}
                 PROVE  Len(due[c]) \in 1 .. 4
      BY DEF SendInv, TypeOK, Stages, At, AtWith
    <3>1. due[c] \in Seq(Clients) /\ due[c] # << >> /\ Len(due[c]) <= 4
      BY DEF SendInv, TypeOK, DueInv
    <3>2. QED
      BY <3>1, LengthOf
  <2>9. Safe => /\ Sent(c, 1) /\ Sent(c, 2) /\ Sent(c, 3) /\ Sent(c, 4)
                /\ []<>MutexFree
    BY EveryNoticeSent, MutexComesFree DEF AllRead
  <2>10. Fairness => Served(c) /\ Reads(c)
    BY DEF Fairness
  <2>11. [][Next]_vars /\ []SendInv /\ []GuardsEnabled /\ Reads(c) => RoomComes(c)
    BY ReadersMakeRoom
  <2>12. Spec /\ []Fairness /\ []GuardsEnabled => Safe
    BY SendInvHolds, PTL DEF Spec
  <2> HIDE DEF Busy, Idle
  <2>13. Spec /\ []Fairness /\ []GuardsEnabled => (Busy ~> Idle)
    BY <2>2, <2>3, <2>4, <2>5, <2>6, <2>7, <2>8, <2>9, <2>10, <2>11, <2>12, PTL
       DEF Served, Sent, RoomComes
  <2>14. QED
    BY <2>13 DEF Busy, Idle
<1>2. QED
  BY <1>1 DEF ReadersAnswered
=============================================================================
