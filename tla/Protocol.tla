------------------------------ MODULE Protocol ------------------------------
(***************************************************************************)
(* The text protocol between a client and its handleClient thread          *)
(* (src/MarketServer.cpp), with the client of tests/TestClient.cpp.        *)
(*                                                                         *)
(* TCP carries bytes, and both ends take what one recv returns for one     *)
(* message.  A message is cut here into the parts between which a cut      *)
(* makes a difference:                                                     *)
(*                                                                         *)
(*     ORD ER:  trader1:AAPL:BUY:LIMIT:150.50:  1 0  \n                    *)
(*     REGIS TER:                       trader 1  \n                       *)
(*     tag1 tag2       fields           value1 value2  nl                  *)
(*                                                                         *)
(* A recv returns any part of what has been sent.  Replies and             *)
(* notifications of trades come back on the same connection, and are whole:*)
(* the client looks at them only to see that something came.               *)
(***************************************************************************)
EXTENDS Integers, Sequences, SequencesExt

CONSTANTS
    MaxOrders,     \* bound: the orders the client sends
    MaxNotices,    \* bound: the notifications it gets
    MaxTimeouts,   \* bound: how often it gives up waiting for a response
    Splits,        \* TRUE: a recv may end inside a message
    None

VARIABLES
    sent,         \* messages sent: 0 registers, the others are orders
    stream,       \* parts on their way to the server
    buffer,       \* handleClient's buffer
    pc,           \* "first": before the registration; "recv": in the message
                  \* loop; "submit": in submitOrder; "closed"
    registered,   \* the trader made: "own", or "other" if the name is not the
                  \* one the client's orders have; None before
    order,        \* the order parsed, while it is in submitOrder
    handled,      \* history: the orders submitOrder took for valid
    replies,      \* replies and notifications on their way to the client
    client,       \* "idle", or "waiting" in sendMessage
    answers,      \* history: what sendMessage took for the response to each
                  \* message, as a set of replies
    notices, timeouts,
    cut           \* history: some recv ended inside a message

server == <<buffer, pc, registered, order, handled>>
tester == <<sent, client, answers, timeouts>>
vars == <<stream, replies, server, tester, notices, cut>>

Messages == 0 .. MaxOrders

Parts(m) ==
    IF m = 0 THEN <<"tag1", "tag2", "value1", "value2", "nl">>
             ELSE <<"tag1", "tag2", "fields", "value1", "value2", "nl">>

Message(m) == [i \in DOMAIN Parts(m) |-> [of |-> m, part |-> Parts(m)[i]]]

(* What the value of message m is: the name, or the quantity. *)
Value(m) == <<[of |-> m, part |-> "value1"], [of |-> m, part |-> "value2"]>>

Nul == [of |-> None, part |-> "nul"]

Units == [of : Messages, part : {"tag1", "tag2", "fields", "value1", "value2", "nl"}]

Replies == [to : Messages \cup {None},
            what : {"REGISTERED", "ORDER_ACCEPTED", "ORDER_REJECTED", "ERROR",
                    "TRADE_EXECUTED"}]

Orders == [order : Messages, quantity : Seq(Units)]

ASSUME ProtocolAssumption ==
    /\ MaxOrders \in Nat /\ MaxNotices \in Nat /\ MaxTimeouts \in Nat
    /\ Splits \in BOOLEAN
    /\ None \notin Nat \cup Orders

TypeOK ==
    /\ sent \in 0 .. MaxOrders + 1
    /\ stream \in Seq(Units)
    /\ buffer \in Seq(Units \cup {Nul})
    /\ pc \in {"first", "recv", "submit", "closed"}
    /\ registered \in {"own", "other", None}
    /\ order \in Orders \cup {None}
    /\ order # None <=> pc = "submit"
    /\ handled \in Seq(Orders)
    /\ replies \in Seq(Replies)
    /\ client \in {"idle", "waiting"}
    /\ answers \in Seq(SUBSET Replies)
    /\ notices \in 0 .. MaxNotices /\ timeouts \in 0 .. MaxTimeouts
    /\ cut \in BOOLEAN

Init ==
    /\ sent = 0 /\ stream = <<>> /\ buffer = <<>>
    /\ pc = "first" /\ registered = None /\ order = None /\ handled = <<>>
    /\ replies = <<>> /\ client = "idle" /\ answers = <<>>
    /\ notices = 0 /\ timeouts = 0 /\ cut = FALSE

----------------------------------------------------------------------------
(* One recv. *)

(* Mutant: no terminator is written. *)
FillUnterminated(received, old) ==
    received \o SubSeq(old, Len(received) + 1, Len(old))

(* The buffer once recv has written to it, and buffer[bytesRead] = '\0'. *)
Fill(received, old) ==
    received \o <<Nul>> \o SubSeq(old, Len(received) + 2, Len(old))

(* std::string(buffer): up to the first NUL. *)
Text(chars) ==
    LET nuls == {i \in DOMAIN chars : chars[i] = Nul}
    IN  IF nuls = {} THEN chars
        ELSE SubSeq(chars, 1, (CHOOSE i \in nuls : \A j \in nuls : i <= j) - 1)

(* Where a recv may end. *)
Ends == {n \in DOMAIN stream : Splits \/ stream[n].part = "nl"}

Recv(n) ==
    /\ stream' = SubSeq(stream, n + 1, Len(stream))
    /\ buffer' = Fill(SubSeq(stream, 1, n), buffer)
    /\ cut' = (cut \/ stream[n].part # "nl")

Tagged(text) ==
    Len(text) >= 2 /\ text[1].part = "tag1" /\ text[2].part = "tag2"

Reply(what, m) == replies' = Append(replies, [what |-> what, to |-> m])

----------------------------------------------------------------------------
(* handleClient. *)

(* Mutant: the newline stays. *)
NameWithNewline(text) == Range(SubSeq(text, 3, Len(text)))

(* What is behind the tag, newlines removed.  The units of a text come in their
   order, and each once: the set of them says what the name is. *)
Name(text) ==
    {unit \in Range(SubSeq(text, 3, Len(text))) : unit.part # "nl"}

(* The first message: registration, or the connection is closed. *)
FirstRecv(n) ==
    /\ pc = "first"
    /\ n \in Ends
    /\ Recv(n)
    /\ LET text == Text(buffer')
       IN  IF Tagged(text)
           THEN /\ registered' = IF Name(text) = Range(Value(0)) THEN "own" ELSE "other"
                /\ Reply("REGISTERED", 0)
                /\ pc' = "recv"
           ELSE pc' = "closed" /\ UNCHANGED <<registered, replies>>
    /\ UNCHANGED <<order, handled, tester, notices>>

(* Mutant: a token more is asked for. *)
SevenTokens(text) == Len(text) >= 7 /\ text[3].part = "fields" /\ text[4].part = "value1"

(* tokens.size() >= 6: trader, symbol, side, type, price and something of the
   quantity. *)
SixTokens(text) == Len(text) >= 4 /\ text[3].part = "fields" /\ text[4].part = "value1"

(* parseOrderMessage.  The sixth token goes up to the next colon, newline
   removed, and stod stops at the first character that is not of a number:
   whatever follows the quantity is dropped. *)
ParseOrderMessage(text) ==
    [order |-> text[3].of,
     quantity |-> SubSeq(text, 4, IF Len(text) >= 5 /\ text[5].part = "value2"
                                  THEN 5 ELSE 4)]

(* The message loop, up to the call of submitOrder.  A message without the tag
   is passed over without a word. *)
ProcessMessage(n) ==
    /\ pc = "recv"
    /\ n \in Ends
    /\ Recv(n)
    /\ LET text == Text(buffer')
       IN  IF ~ Tagged(text) THEN UNCHANGED <<pc, order, replies>>
           ELSE IF SixTokens(text)
                THEN /\ pc' = "submit"
                     /\ order' = ParseOrderMessage(text)
                     /\ UNCHANGED replies
                ELSE Reply("ERROR", text[1].of) /\ UNCHANGED <<pc, order>>
    /\ UNCHANGED <<registered, handled, tester, notices>>

(* Mutant: only a rejection is answered. *)
AnswerRejected ==
    /\ pc = "submit"
    /\ pc' = "recv"
    /\ order' = None
    /\ IF registered = "own"
       THEN handled' = Append(handled, order) /\ UNCHANGED replies
       ELSE Reply("ORDER_REJECTED", order.order) /\ UNCHANGED handled
    /\ UNCHANGED <<stream, buffer, registered, tester, notices, cut>>

(* submitOrder is over: the order of a trader that exists has been matched. *)
Answer ==
    /\ pc = "submit"
    /\ pc' = "recv"
    /\ order' = None
    /\ IF registered = "own"
       THEN handled' = Append(handled, order) /\ Reply("ORDER_ACCEPTED", order.order)
       ELSE Reply("ORDER_REJECTED", order.order) /\ UNCHANGED handled
    /\ UNCHANGED <<stream, buffer, registered, tester, notices, cut>>

(* onTradeExecuted, onSettlementComplete: an order of the client trades, the
   one in submitOrder or one that rests. *)
Notify ==
    /\ registered = "own" /\ (pc = "submit" \/ handled # <<>>)
    /\ notices < MaxNotices
    /\ notices' = notices + 1
    /\ Reply("TRADE_EXECUTED", None)
    /\ UNCHANGED <<stream, server, tester, cut>>

----------------------------------------------------------------------------
(* TestClient: sendMessage sends, waits for something to read for a second,
   and reads once. *)
SendMessage ==
    /\ client = "idle" /\ sent \in Messages
    /\ stream' = stream \o Message(sent)
    /\ sent' = sent + 1
    /\ client' = "waiting"
    /\ UNCHANGED <<replies, server, answers, notices, timeouts, cut>>

Read(n) == replies' = SubSeq(replies, n + 1, Len(replies))

Respond(response) ==
    /\ client = "waiting"
    /\ client' = "idle"
    /\ answers' = Append(answers, response)

ReadResponse(n) ==
    /\ n \in DOMAIN replies
    /\ Read(n)
    /\ Respond({replies[i] : i \in 1 .. n})
    /\ UNCHANGED <<stream, server, sent, notices, timeouts, cut>>

TimeOut ==
    /\ replies = <<>>
    /\ timeouts < MaxTimeouts
    /\ timeouts' = timeouts + 1
    /\ Respond({})
    /\ UNCHANGED <<stream, replies, server, sent, notices, cut>>

(* Between two messages, what is there may be read. *)
ReceiveMessage(n) ==
    /\ client = "idle"
    /\ n \in DOMAIN replies
    /\ Read(n)
    /\ UNCHANGED <<stream, server, tester, notices, cut>>

----------------------------------------------------------------------------
HandleClient == (\E n \in Ends : FirstRecv(n) \/ ProcessMessage(n)) \/ Answer

GetResponse == \E n \in DOMAIN replies : ReadResponse(n)

Next ==
    \/ HandleClient
    \/ Notify
    \/ SendMessage
    \/ GetResponse
    \/ TimeOut
    \/ \E n \in DOMAIN replies : ReceiveMessage(n)

(* A thread that has something to read or to do goes on, and so does a client
   that has a response. *)
Spec == Init /\ [][Next]_vars /\ WF_vars(HandleClient) /\ WF_vars(GetResponse)
----------------------------------------------------------------------------
(* Properties. *)

(* However the stream is cut, no order is handled twice, out of order, or with
   a quantity made of anything but the beginning of its own: nothing of an
   earlier message is left in the buffer to be parsed again. *)
HandledAsSent ==
    /\ \A i \in DOMAIN handled :
          IsPrefix(handled[i].quantity, Value(handled[i].order))
    /\ \A i, j \in DOMAIN handled : i < j => handled[i].order < handled[j].order

(* Every recv has been a message or more, and every response the client took
   had the reply to its message in it. *)
Orderly ==
    /\ ~ cut
    /\ \A i \in DOMAIN answers : \E reply \in answers[i] : reply.to = i - 1

(* A client that is in step has every order handled, in full, under the name
   it registered: an order is lost or spoilt only to a client that has taken
   a notification, or nothing, for a reply, or whose messages arrive in
   pieces. *)
OrderlyClientServed ==
    Orderly /\ client = "idle" /\ sent > 0 =>
        /\ registered = "own"
        /\ handled = [m \in 1 .. sent - 1 |-> [order |-> m, quantity |-> Value(m)]]

(* When the thread and the client can go on, said without ENABLED: what the
   proof of the next property takes from TLC. *)
CanHandleClient == pc = "submit" \/ (pc \in {"first", "recv"} /\ Ends # {})

CanGetResponse == client = "waiting" /\ replies # <<>>

GuardsEnabled ==
    /\ CanHandleClient => ENABLED <<HandleClient>>_vars
    /\ CanGetResponse => ENABLED <<GetResponse>>_vars

(* Such a client does not wait in vain. *)
OrderlyClientAnswered ==
    (client = "waiting" /\ Orderly) ~> (client = "idle" \/ ~ Orderly)

(* "All orders and trades logged to database" (README.md): when everything
   sent has been read, every order has been handled. *)
EveryOrderHandled ==
    stream = <<>> /\ pc = "recv" /\ registered = "own" =>
        \A m \in 1 .. sent - 1 : \E i \in DOMAIN handled : handled[i].order = m
=============================================================================
