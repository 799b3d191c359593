------------------------- MODULE ClientSocket_proofs -------------------------
(* Proofs about the client's connection.  Wired says how the fields of the  *)
(* client fit together; with it every event leaves one connection, one      *)
(* timer, or an event to come.  Once says where a request can be: in one    *)
(* queue, or in the page, or answered.                                      *)
EXTENDS ClientSocket, SequenceTheorems, TLAPS

Alive == Connecting \cup Open

Wired ==
    /\ client.ws # NoSock => client.ws \in client.handled /\ mounted
    /\ ~mounted => client.ws = NoSock /\ ~client.timer
    /\ mounted => client.shouldReconnect
    /\ client.timer => client.ws = NoSock \/ client.sock[client.ws] = "closed"
    /\ mounted /\ ~client.timer =>
         client.ws # NoSock /\ client.sock[client.ws] \in Alive \cup {"closing"}
    /\ client.beat => client.ws # NoSock /\ client.sock[client.ws] \in Open \cup {"closing"}
    /\ \A s \in Sock : client.sock[s] \in Alive => client.ws = s

Inv == TypeOK /\ Wired /\ OpenKnown

\* What Mount and Resubscribe start from, and what they end with.
Idle(j) ==
    /\ j \in Fields /\ j.ws = NoSock /\ ~j.beat
    /\ \A x \in Sock : j.sock[x] \notin Alive

Begun(k) ==
    /\ k \in Fields /\ k.shouldReconnect /\ ~k.beat
    /\ \/ /\ k.timer /\ k.ws = NoSock
          /\ \A x \in Sock : k.sock[x] \notin Alive
       \/ /\ ~k.timer /\ k.ws \in k.handled /\ k.ws \in Sock /\ k.sock[k.ws] = "dialing"
          /\ \A x \in Sock : k.sock[x] \in Alive => x = k.ws

LEMMA ConnectBegins ==
    ASSUME NEW j, Idle(j), NEW s \in Sock
    PROVE  Begun(connect(j, s))
  <1> USE SocketAssumption DEF Idle, Begun, connect, InUse, Fields, Alive, Connecting, Open, Phase
  <1>1. CASE j.url \in Bad
    BY <1>1
  <1>2. CASE j.url \notin Bad
    <2> DEFINE k == [j EXCEPT !.timer = FALSE, !.shouldReconnect = TRUE, !.ws = s,
                              !.handled = @ \cup {s}, !.sock[s] = "dialing"]
    <2>1. connect(j, s) = k
      BY <1>2
    <2>2. k \in Fields
      OBVIOUS
    <2>3. /\ k.shouldReconnect /\ ~k.beat /\ ~k.timer
          /\ k.ws = s /\ s \in k.handled /\ k.sock[s] = "dialing"
          /\ \A x \in Sock : x # s => k.sock[x] = j.sock[x]
      OBVIOUS
    <2> HIDE DEF k
    <2>4. Begun(k)
      BY <2>2, <2>3 DEF Begun
    <2> QED BY <2>1, <2>4
  <1> QED BY <1>1, <1>2

LEMMA DisconnectIdles ==
    ASSUME NEW j \in Fields, \A x \in Sock : j.sock[x] \in Alive => j.ws = x
    PROVE  Idle(disconnect(j)) /\ disconnect(j).url = j.url
  BY SocketAssumption
  DEF Idle, disconnect, Shut, Fields, Alive, Connecting, Open, Phase

LEMMA EffectBegins ==
    ASSUME NEW j, Idle(j), NEW url \in Url, NEW s \in Sock, NEW t \in Sock
    PROVE  Begun(connect(setUrl(j, url, s), t))
  <1>1. CASE j.url = url
    BY <1>1, ConnectBegins DEF setUrl
  <1>2. CASE j.url # url
    <2> DEFINE d == disconnect([j EXCEPT !.url = url])
               k == connect(d, s)
    <2>1. [j EXCEPT !.url = url] \in Fields
      BY DEF Idle, Fields
    <2>2. Idle(d)
      BY <2>1, DisconnectIdles DEF Idle, Fields
    <2>3. Begun(k)
      BY <2>2, ConnectBegins
    <2>4. setUrl(j, url, s) = k
      BY <1>2 DEF setUrl
    <2>5. CASE k.timer
      <3> HIDE DEF k
      <3>1. Idle(k)
        BY <2>3, <2>5 DEF Begun, Idle
      <3> QED BY <2>4, <3>1, ConnectBegins
    <2>6. CASE ~k.timer
      <3> HIDE DEF k
      <3>1. k.ws # NoSock /\ k.sock[k.ws] \in Connecting
        BY <2>3, <2>6, SocketAssumption DEF Begun, Connecting
      <3>2. connect(k, t) = k
        BY <3>1 DEF connect, InUse
      <3> QED BY <2>3, <2>4, <3>2
    <2> QED BY <2>5, <2>6
  <1> QED BY <1>1, <1>2

-----------------------------------------------------------------------------
LEMMA InitInv == Init => Inv
  <1> SUFFICES ASSUME Init PROVE Inv
    OBVIOUS
  <1> USE SocketAssumption DEF Init, NewClient
  <1>1. TypeOK
    <2>1. PICK u \in Url : client = NewClient(u, [s \in Sock |-> "none"])
      OBVIOUS
    <2>2. client \in Fields
      BY <2>1 DEF Fields, Phase
    <2>3. <<>> \in Seq(Request) /\ <<>> \in Seq(Answers)
          /\ <<>> \in Seq(Answers \cup {[id |-> NoRequest, answer |-> "stop"]})
      OBVIOUS
    <2>4. /\ down \in [Sock -> Seq(Request)]
          /\ up \in [Sock -> Seq(Answers \cup {[id |-> NoRequest, answer |-> "stop"]})]
      BY <2>3
    <2>5. asked \in [Request -> {"new", "open", "yes", "no", "elsewhere"}]
      OBVIOUS
    <2> QED BY <2>2, <2>3, <2>4, <2>5 DEF TypeOK
  <1>2. Wired /\ OpenKnown
    BY <1>1 DEF TypeOK, Fields, Wired, OpenKnown, Alive, Connecting, Open
  <1> QED BY <1>1, <1>2 DEF Inv

LEMMA NewSocks ==
    ASSUME NEW j, Vacant(j) # {}
    PROVE  NewSock(j) \in Sock
  BY DEF Vacant, NewSock

LEMMA TakenMeans ==
    ASSUME NEW j, NEW url, Vacant(j) # {}
    PROVE  \E s, t \in Sock : Taken(j, url) = connect(setUrl(j, url, s), t)
  <1> DEFINE s == NewSock(j)
             k == setUrl(j, url, s)
             t == IF Vacant(k) = {} THEN s ELSE NewSock(k)
  <1>1. s \in Sock /\ t \in Sock
    BY NewSocks
  <1>2. Taken(j, url) = connect(setUrl(j, url, s), t)
    BY DEF Taken
  <1> HIDE DEF s, t
  <1> QED BY <1>1, <1>2

\* The effect of App: Mount and Resubscribe.
LEMMA EffectInv ==
    ASSUME Inv, NEW j, Idle(j), NEW url \in Url, NEW s \in Sock, NEW t \in Sock,
           client' = connect(setUrl(j, url, s), t), mounted',
           UNCHANGED <<connectionStatus, page, session, down, up, asked>>
    PROVE  Inv'
  <1> DEFINE k == connect(setUrl(j, url, s), t)
  <1>1. Begun(k)
    BY EffectBegins
  <1>2. client' = k
    OBVIOUS
  <1> HIDE DEF k
  <1>3. TypeOK'
    BY <1>1, <1>2 DEF Inv, TypeOK, page, Begun
  <1>4. Wired' /\ OpenKnown'
    BY <1>1, <1>2, SocketAssumption DEF Begun, Wired, OpenKnown, Alive, Connecting, Open, Fields
  <1> QED BY <1>3, <1>4 DEF Inv

LEMMA MountInv == ASSUME Inv, NEW url \in Url, Mount(url) PROVE Inv'
  <1>1. Idle(client)
    <2>1. client \in Fields /\ client.ws = NoSock /\ ~client.timer /\ ~client.beat
      BY DEF Inv, TypeOK, Wired, Mount
    <2>2. \A x \in Sock : client.sock[x] \notin Alive
      BY <2>1, SocketAssumption DEF Inv, Wired
    <2> QED BY <2>1, <2>2 DEF Idle
  <1>2. PICK s \in Sock, t \in Sock : client' = connect(setUrl(client, url, s), t)
    BY TakenMeans DEF Mount
  <1> QED BY <1>1, <1>2, EffectInv DEF Mount

LEMMA ResubscribeInv == ASSUME Inv, NEW url \in Url, Resubscribe(url) PROVE Inv'
  <1>1. Idle(disconnect(client))
    BY DisconnectIdles DEF Inv, TypeOK, Wired
  <1>2. PICK s \in Sock, t \in Sock : client' = connect(setUrl(disconnect(client), url, s), t)
    BY TakenMeans DEF Resubscribe
  <1> QED BY <1>1, <1>2, EffectInv DEF Resubscribe

LEMMA ReloadInv == ASSUME Inv, Reload PROVE Inv'
  <1> USE SocketAssumption DEF Reload, NewClient, Shut
  <1>1. PICK u \in Url : client' = NewClient(u, [s \in Sock |-> Shut(client.sock[s])])
    OBVIOUS
  <1>2. \A s \in Sock : client'.sock[s] \in Phase \ Alive
    BY <1>1 DEF Inv, TypeOK, Fields, Phase, Alive, Connecting, Open
  <1>3. TypeOK'
    <2>1. client' \in Fields
      BY <1>1, <1>2 DEF Fields
    <2> QED BY <2>1 DEF Inv, TypeOK
  <1>4. Wired' /\ OpenKnown'
    BY <1>1, <1>2 DEF Wired, OpenKnown, Alive
  <1> QED BY <1>3, <1>4 DEF Inv

LEMMA TimerInv == ASSUME Inv, TimerFires PROVE Inv'
  <1> DEFINE j == [client EXCEPT !.timer = FALSE]
  <1>1. client.timer /\ mounted /\ client.shouldReconnect /\ client \in Fields
    BY DEF Inv, TypeOK, Wired, TimerFires
  <1>2. client.ws = NoSock \/ client.sock[client.ws] = "closed"
    BY <1>1 DEF Inv, Wired
  <1>3. j \in Fields /\ ~j.timer /\ ~j.beat /\ j.shouldReconnect /\ j.ws = client.ws
        /\ j.sock = client.sock /\ j.url = client.url /\ j.handled = client.handled
    BY <1>1, <1>2 DEF Fields, Inv, Wired, Open
  <1>4. PICK s \in Sock : client' = connect(j, s)
    <2>1. Vacant(j) # {}
      BY <1>3 DEF TimerFires, Vacant
    <2>2. client' = connect(j, NewSock(j))
      BY <1>3 DEF TimerFires
    <2> HIDE DEF j
    <2> QED BY <2>1, <2>2, NewSocks
  <1>5. \A x \in Sock : client.sock[x] \notin Alive
    BY <1>1, <1>2, SocketAssumption DEF Inv, Wired, Alive, Connecting, Open
  <1>6. ~InUse(j)
    BY <1>2, <1>3 DEF InUse, Connecting, Open
  <1>7. connectionStatus' \in {"CONNECTING", "DISCONNECTED"}
    BY <1>3, <1>6 DEF TimerFires, Announced
  <1>8. UNCHANGED <<mounted, page, session, down, up, asked>>
    BY DEF TimerFires
  <1> HIDE DEF j
  <1>9. CASE j.url \in Bad
    <2>1. client' = [j EXCEPT !.timer = TRUE, !.shouldReconnect = TRUE]
      BY <1>4, <1>6, <1>9 DEF connect
    <2>2. TypeOK'
      BY <2>1, <1>3, <1>7, <1>8 DEF Inv, TypeOK, page, Fields
    <2>3. Wired' /\ OpenKnown'
      BY <2>1, <1>1, <1>2, <1>3, <1>5, <1>8, SocketAssumption
      DEF Inv, Wired, OpenKnown, Fields, Alive, Connecting, Open
    <2> QED BY <2>2, <2>3 DEF Inv
  <1>10. CASE j.url \notin Bad
    <2>1. client' = [j EXCEPT !.timer = FALSE, !.shouldReconnect = TRUE, !.ws = s,
                              !.handled = @ \cup {s}, !.sock[s] = "dialing"]
      BY <1>4, <1>6, <1>10 DEF connect
    <2>2. TypeOK'
      BY <2>1, <1>3, <1>7, <1>8 DEF Inv, TypeOK, page, Fields, Phase, Connecting
    <2>3. Wired' /\ OpenKnown'
      BY <2>1, <1>1, <1>3, <1>5, <1>8, SocketAssumption
      DEF Inv, Wired, OpenKnown, Fields, Alive, Connecting, Open
    <2> QED BY <2>2, <2>3 DEF Inv
  <1> QED BY <1>9, <1>10

\* The events of one socket, and what the network makes of it.
LEMMA OpenedInv == ASSUME Inv, NEW s \in Sock, Opened(s) PROVE Inv'
  <1>1. TypeOK'
    BY DEF Inv, TypeOK, Opened, page, Fields, Phase, Open
  <1>2. Heard(s)
    BY SocketAssumption DEF Inv, Wired, Heard, Opened, Alive, Connecting
  <1>3. Wired' /\ OpenKnown'
    BY <1>2, SocketAssumption
    DEF Inv, TypeOK, Wired, OpenKnown, Opened, Heard, Fields, Alive, Connecting, Open
  <1> QED BY <1>1, <1>3 DEF Inv

LEMMA ClosingInv == ASSUME Inv, NEW s \in Sock, Closing(s) PROVE Inv'
  <1>1. TypeOK'
    BY DEF Inv, TypeOK, Closing, page, Fields, Phase
  <1>2. Wired' /\ OpenKnown'
    BY SocketAssumption
    DEF Inv, TypeOK, Wired, OpenKnown, Closing, Fields, Alive, Connecting, Open
  <1> QED BY <1>1, <1>2 DEF Inv

LEMMA ClosedInv == ASSUME Inv, NEW s \in Sock, Closed(s) PROVE Inv'
  <1>1. TypeOK'
    <2>1. client' \in Fields
      BY DEF Inv, TypeOK, Closed, Fields, Phase
    <2>2. down' \in [Sock -> Seq(Request)]
      BY DEF Inv, TypeOK, Closed
    <2> QED BY <2>1, <2>2 DEF Inv, TypeOK, Closed, page
  <1>2. Wired'
    <2>1. /\ client'.ws = client.ws /\ client'.handled = client.handled
          /\ client'.shouldReconnect = client.shouldReconnect
          /\ client'.sock[s] = "closed" /\ mounted' = mounted
          /\ \A x \in Sock : x # s => client'.sock[x] = client.sock[x]
          /\ client'.beat <=> (client.beat /\ ~Heard(s))
          /\ client'.timer <=> (client.timer \/ (Heard(s) /\ client.shouldReconnect))
      BY DEF Inv, TypeOK, Closed, Fields
    <2>2. client.ws \in Sock \cup {NoSock}
      BY DEF Inv, TypeOK, Fields
    <2>3. CASE client.ws = s
      <3>1. client.sock[s] # "closed" /\ (mounted => Heard(s)) /\ s # NoSock
        BY <2>3, SocketAssumption DEF Inv, Wired, Closed, Heard
      <3>2. mounted
        BY <2>3, <3>1 DEF Inv, Wired
      <3>3. client'.timer /\ ~client'.beat
        BY <2>1, <3>1, <3>2 DEF Inv, Wired
      <3> QED BY <2>1, <2>3, <3>2, <3>3, SocketAssumption DEF Inv, Wired, Alive, Connecting, Open
    <2>4. CASE client.ws # s
      <3>1. (client'.timer <=> client.timer) /\ (client'.beat <=> client.beat)
        <4>1. ~Heard(s)
          BY <2>4 DEF Heard
        <4> QED BY <2>1, <4>1
      <3> QED BY <2>1, <2>2, <2>4, <3>1, SocketAssumption
              DEF Inv, Wired, Alive, Connecting, Open
    <2> QED BY <2>3, <2>4
  <1>3. OpenKnown'
    <2>1. CASE client.ws = s
      BY <2>1, SocketAssumption DEF Inv, TypeOK, OpenKnown, Closed, Fields, Open
    <2>2. CASE client.ws # s
      BY <2>2, SocketAssumption DEF Inv, TypeOK, OpenKnown, Closed, Heard, Fields, Open
    <2> QED BY <2>1, <2>2
  <1> QED BY <1>1, <1>2, <1>3 DEF Inv

LEMMA AcceptInv == ASSUME Inv, NEW s \in Sock, Accept(s) PROVE Inv'
  <1>1. TypeOK'
    <2>1. client' \in Fields
      BY DEF Inv, TypeOK, Accept, Fields, Phase, Connecting
    <2>2. up' \in [Sock -> Seq(Answers \cup {[id |-> NoRequest, answer |-> "stop"]})]
      BY DEF Inv, TypeOK, Accept
    <2> QED BY <2>1, <2>2 DEF Inv, TypeOK, Accept, page
  <1>2. Wired' /\ OpenKnown'
    BY SocketAssumption
    DEF Inv, TypeOK, Wired, OpenKnown, Accept, Fields, Alive, Connecting, Open
  <1> QED BY <1>1, <1>2 DEF Inv

LEMMA CutInv == ASSUME Inv, NEW s \in Sock, Cut(s) PROVE Inv'
  <1>1. CASE /\ client.sock[s] \in {"dialing", "accepted"}
             /\ client' = [client EXCEPT !.sock[s] = "refused"]
    <2>1. TypeOK'
      BY <1>1 DEF Inv, TypeOK, Cut, page, Fields, Phase, Connecting
    <2>2. Wired' /\ OpenKnown'
      BY <1>1, SocketAssumption
      DEF Inv, TypeOK, Wired, OpenKnown, Cut, Fields, Alive, Connecting, Open
    <2> QED BY <2>1, <2>2 DEF Inv
  <1>2. CASE client.sock[s] = "open" /\ client' = [client EXCEPT !.sock[s] = "lost"]
    <2>1. TypeOK'
      BY <1>2 DEF Inv, TypeOK, Cut, page, Fields, Phase, Open
    <2>2. Wired' /\ OpenKnown'
      BY <1>2, SocketAssumption
      DEF Inv, TypeOK, Wired, OpenKnown, Cut, Fields, Alive, Connecting, Open
    <2> QED BY <2>1, <2>2 DEF Inv
  <1> QED BY <1>1, <1>2 DEF Cut

\* Steps that leave the connection alone.
Apart == UNCHANGED <<client, mounted, connectionStatus>>

LEMMA ApartWired == ASSUME Inv, Apart PROVE Wired' /\ OpenKnown'
  BY DEF Inv, Apart, Wired, OpenKnown

LEMMA SendType ==
    ASSUME TypeOK, NEW m \in Answers \cup {[id |-> NoRequest, answer |-> "stop"]}, Send(m)
    PROVE  up' \in [Sock -> Seq(Answers \cup {[id |-> NoRequest, answer |-> "stop"]})]
  BY DEF TypeOK, Send

LEMMA PageInv ==
    ASSUME Inv, \/ \E s \in Sock : Message(s)
                \/ Render \/ Listen \/ Stop
                \/ \E answer \in {"yes", "no"} : Press(answer)
    PROVE  Inv'
  <1>1. CASE \E s \in Sock : Message(s)
    <2> PICK s \in Sock : Message(s)
      BY <1>1
    <2>1. down[s] \in Seq(Request) /\ down[s] # <<>>
      BY DEF Inv, TypeOK, Message
    <2>2. Head(down[s]) \in Request /\ Tail(down[s]) \in Seq(Request)
      BY <2>1
    <2>3. TypeOK'
      BY <2>2 DEF Inv, TypeOK, Message
    <2> QED BY <2>3, ApartWired DEF Message, Apart, Inv
  <1>2. CASE Render \/ Listen
    <2>1. TypeOK'
      BY <1>2 DEF Inv, TypeOK, Render, Listen
    <2> QED BY <1>2, <2>1, ApartWired DEF Render, Listen, Apart, Inv
  <1>3. CASE Stop
    <2>1. up' \in [Sock -> Seq(Answers \cup {[id |-> NoRequest, answer |-> "stop"]})]
      BY <1>3, SendType DEF Inv, Stop
    <2>2. TypeOK'
      BY <1>3, <2>1 DEF Inv, TypeOK, Stop, Emptied
    <2> QED BY <1>3, <2>2, ApartWired DEF Stop, Apart, Inv
  <1>4. ASSUME NEW c \in {shown, keyed}, NEW answer \in {"yes", "no"}, Answer(c, answer)
        PROVE  Inv'
    <2>1. c \in Request
      BY <1>4 DEF Inv, TypeOK, Answer
    <2>2. [id |-> c, answer |-> answer] \in Answers
      BY <2>1 DEF Answers
    <2>3. up' \in [Sock -> Seq(Answers \cup {[id |-> NoRequest, answer |-> "stop"]})]
      BY <1>4, <2>2, SendType DEF Inv, Answer
    <2>4. sent' \in Seq(Answers)
      BY <1>4, <2>2 DEF Inv, TypeOK, Answer
    <2>5. TypeOK'
      BY <1>4, <2>3, <2>4 DEF Inv, TypeOK, Answer, Emptied
    <2> QED BY <1>4, <2>5, ApartWired DEF Answer, Apart, Inv
  <1> QED BY <1>1, <1>2, <1>3, <1>4 DEF Press

LEMMA EngineInv ==
    ASSUME Inv, \/ \E s \in Sock : Receive(s) \/ SessionEnds(s)
                \/ \E c \in Request : Ask(c) \/ Settled(c)
    PROVE  Inv'
  <1>1. CASE \E s \in Sock : Receive(s)
    <2> PICK s \in Sock : Receive(s)
      BY <1>1
    <2> DEFINE M == Answers \cup {[id |-> NoRequest, answer |-> "stop"]}
    <2>1. up[s] \in Seq(M) /\ up[s] # <<>>
      BY DEF Inv, TypeOK, Receive
    <2>2. Head(up[s]) \in M /\ Tail(up[s]) \in Seq(M)
      BY <2>1
    <2>3. up' \in [Sock -> Seq(M)]
      BY <2>2 DEF Inv, TypeOK, Receive
    <2>4. asked' \in [Request -> {"new", "open", "yes", "no", "elsewhere"}]
      <3>1. CASE Head(up[s]).id \in Request
        <4>1. Head(up[s]).answer \in {"yes", "no"}
          BY <2>2, <3>1, SocketAssumption DEF Answers
        <4> QED BY <3>1, <4>1 DEF Inv, TypeOK, Receive
      <3>2. CASE Head(up[s]).id \notin Request
        BY <3>2 DEF Inv, TypeOK, Receive, AllRefused
      <3> QED BY <3>1, <3>2
    <2>5. TypeOK'
      BY <2>3, <2>4 DEF Inv, TypeOK, Receive, page
    <2> QED BY <2>5, ApartWired DEF Receive, Apart, Inv
  <1>2. CASE \E s \in Sock : SessionEnds(s)
    <2>1. TypeOK'
      BY <1>2 DEF Inv, TypeOK, SessionEnds, AllRefused, page
    <2> QED BY <1>2, <2>1, ApartWired DEF SessionEnds, Apart, Inv
  <1>3. CASE \E c \in Request : Ask(c)
    <2>1. TypeOK'
      BY <1>3 DEF Inv, TypeOK, Ask, page
    <2> QED BY <1>3, <2>1, ApartWired DEF Ask, Apart, Inv
  <1>4. CASE \E c \in Request : Settled(c)
    <2>1. TypeOK'
      BY <1>4 DEF Inv, TypeOK, Settled, page
    <2> QED BY <1>4, <2>1, ApartWired DEF Settled, Apart, Inv
  <1> QED BY <1>1, <1>2, <1>3, <1>4

LEMMA NextInv == Inv /\ [Next]_vars => Inv'
  <1> SUFFICES ASSUME Inv, [Next]_vars PROVE Inv'
    OBVIOUS
  <1>1. CASE UNCHANGED vars
    BY <1>1 DEF Inv, TypeOK, Wired, OpenKnown, vars
  <1>2. CASE Next
    BY <1>2, MountInv, ResubscribeInv, ReloadInv, TimerInv, OpenedInv, ClosingInv, ClosedInv,
       AcceptInv, CutInv, PageInv, EngineInv
    DEF Next, Event
  <1> QED BY <1>1, <1>2

LEMMA InvSafe == Inv => ClientInv /\ NeverStranded
  <1> SUFFICES ASSUME Inv PROVE ClientInv /\ NeverStranded
    OBVIOUS
  <1>1. OneSocket
    BY SocketAssumption DEF Inv, Wired, OneSocket, Heard, Alive
  <1>2. TimersOK
    BY DEF Inv, Wired, TimersOK, InUse, Connecting, Open
  <1>3. NeverStranded
    BY DEF Inv, Wired, NeverStranded, InUse, Heard, Alive
  <1> QED BY <1>1, <1>2, <1>3 DEF ClientInv, Inv

-----------------------------------------------------------------------------
(* Answers.  A request that is asked for goes to one socket, and from there  *)
(* to the slot, the screen and the keys before it can be answered.           *)

Stopped == [id |-> NoRequest, answer |-> "stop"]
OnPage == {slot, shown, keyed}
AnsweredIds == {sent[k].id : k \in DOMAIN sent}
SentOnes == {sent[k] : k \in DOMAIN sent}

\* What is under way to the client was asked for, is so once, and is neither
\* on the page nor answered; what is on the page is not answered.
Once ==
    /\ \A s, t \in Sock : \A i \in DOMAIN down[s], k \in DOMAIN down[t] :
          down[s][i] = down[t][k] => s = t /\ i = k
    /\ \A s \in Sock : \A i \in DOMAIN down[s] :
          asked[down[s][i]] # "new" /\ down[s][i] \notin OnPage \cup AnsweredIds
    /\ \A c \in OnPage \ {NoRequest} : asked[c] # "new" /\ c \notin AnsweredIds
    /\ {shown, keyed} \ {NoRequest} \subseteq seen
    /\ \A c \in AnsweredIds : asked[c] # "new" /\ c \in seen
    /\ \A k, l \in DOMAIN sent : sent[k].id = sent[l].id => k = l
    /\ \A s \in Sock : \A i \in DOMAIN up[s] : up[s][i].id \in Request => up[s][i] \in SentOnes
    /\ \A c \in Request : asked[c] = "yes" => [id |-> c, answer |-> "yes"] \in SentOnes

LEMMA Typed ==
    ASSUME Inv
    PROVE  /\ \A s \in Sock : \A i \in DOMAIN down[s] : down[s][i] \in Request
           /\ OnPage \ {NoRequest} \subseteq Request
           /\ AnsweredIds \subseteq Request
  <1>1. \A s \in Sock : \A i \in DOMAIN down[s] : down[s][i] \in Request
    BY DEF Inv, TypeOK
  <1>2. OnPage \ {NoRequest} \subseteq Request
    BY DEF Inv, TypeOK, OnPage
  <1>3. \A k \in DOMAIN sent : sent[k] \in Answers
    BY DEF Inv, TypeOK
  <1>4. AnsweredIds \subseteq Request
    BY <1>3 DEF AnsweredIds, Answers
  <1> QED BY <1>1, <1>2, <1>4

LEMMA InitOnce == Init => Once
  BY SocketAssumption DEF Init, Once, OnPage, AnsweredIds, SentOnes

\* Messages may be lost, and nothing else about them may change.
LEMMA LossOnce ==
    ASSUME Inv, Once, UNCHANGED <<slot, shown, keyed, seen, sent, asked>>,
           \A s \in Sock : down'[s] = down[s] \/ down'[s] = <<>>,
           \A s \in Sock : up'[s] = up[s] \/ up'[s] = <<>>
    PROVE  Once'
  BY DEF Once, OnPage, AnsweredIds, SentOnes

LEMMA MessageOnce == ASSUME Inv, Once, NEW s \in Sock, Message(s) PROVE Once'
  <1>1. down[s] \in Seq(Request) /\ down[s] # <<>>
    BY DEF Inv, TypeOK, Message
  <1>2. /\ DOMAIN Tail(down[s]) = 1 .. Len(down[s]) - 1
        /\ \A i \in 1 .. Len(down[s]) - 1 : Tail(down[s])[i] = down[s][i + 1]
        /\ Head(down[s]) = down[s][1] /\ DOMAIN down[s] = 1 .. Len(down[s])
        /\ Len(down[s]) \in Nat /\ Len(down[s]) >= 1
    BY <1>1
  <1>3. /\ down' = [down EXCEPT ![s] = Tail(down[s])] /\ down'[s] = Tail(down[s])
        /\ \A t \in Sock : t # s => down'[t] = down[t]
    BY DEF Inv, TypeOK, Message
  <1>4. UNCHANGED <<shown, keyed, seen, sent, asked, up>> /\ slot' \in {slot, Head(down[s])}
    BY DEF Message
  <1>5. \A t \in Sock : \A i \in DOMAIN down'[t] :
           \E k \in DOMAIN down[t] : /\ down'[t][i] = down[t][k]
                                    /\ k = (IF t = s THEN i + 1 ELSE i)
    <2>1. \A i \in DOMAIN down'[s] : i + 1 \in DOMAIN down[s] /\ down'[s][i] = down[s][i + 1]
      <3>1. \A i \in 1 .. Len(down[s]) - 1 : i + 1 \in 1 .. Len(down[s])
        BY <1>2
      <3>2. down'[s] = Tail(down[s])
        BY <1>3
      <3> QED BY <1>2, <3>1, <3>2
    <2> QED BY <1>3, <2>1
  <1>6. \A t \in Sock : \A i \in DOMAIN down'[t] : down'[t][i] # Head(down[s])
    <2> SUFFICES ASSUME NEW t \in Sock, NEW i \in DOMAIN down'[t], down'[t][i] = Head(down[s])
                 PROVE  FALSE
      OBVIOUS
    <2>1. PICK k \in DOMAIN down[t] : down'[t][i] = down[t][k] /\ k = (IF t = s THEN i + 1 ELSE i)
      BY <1>5
    <2>2. 1 \in DOMAIN down[s] /\ down[t][k] = down[s][1]
      BY <1>2, <2>1
    <2>3. t = s /\ k = 1
      BY <2>2 DEF Once
    <2>4. i >= 1
      BY <1>2, <1>3, <2>3
    <2> QED BY <1>2, <1>3, <2>1, <2>3, <2>4
  <1>7. \A t, u \in Sock : \A i \in DOMAIN down'[t], j \in DOMAIN down'[u] :
           down'[t][i] = down'[u][j] => t = u /\ i = j
    <2> SUFFICES ASSUME NEW t \in Sock, NEW u \in Sock, NEW i \in DOMAIN down'[t],
                        NEW j \in DOMAIN down'[u], down'[t][i] = down'[u][j]
                 PROVE  t = u /\ i = j
      OBVIOUS
    <2>1. PICK k \in DOMAIN down[t] : down'[t][i] = down[t][k] /\ k = (IF t = s THEN i + 1 ELSE i)
      BY <1>5
    <2>2. PICK l \in DOMAIN down[u] : down'[u][j] = down[u][l] /\ l = (IF u = s THEN j + 1 ELSE j)
      BY <1>5
    <2>3. t = u /\ k = l
      <3>1. down[t][k] = down[u][l]
        BY <2>1, <2>2
      <3> QED BY <3>1 DEF Once
    <2>4. i \in Int /\ j \in Int
      BY <2>3, <1>2, <1>3 DEF Inv, TypeOK
    <2> QED BY <2>1, <2>2, <2>3, <2>4
  <1>8. 1 \in DOMAIN down[s]
    BY <1>2
  <1>9. asked[Head(down[s])] # "new" /\ Head(down[s]) \notin AnsweredIds
    BY <1>2, <1>8 DEF Once
  <1>10. \A t \in Sock : \A i \in DOMAIN down'[t] :
           asked[down'[t][i]] # "new" /\ down'[t][i] \notin OnPage \cup AnsweredIds
    BY <1>5 DEF Once
  <1>11. OnPage' \subseteq OnPage \cup {Head(down[s])} /\ AnsweredIds' = AnsweredIds
         /\ SentOnes' = SentOnes
    BY <1>4 DEF OnPage, AnsweredIds, SentOnes
  <1> QED BY <1>4, <1>6, <1>7, <1>9, <1>10, <1>11 DEF Once

\* The page changes among what it holds, and forgets.
LEMMA ShownOnce == ASSUME Inv, Once, Render \/ Listen PROVE Once'
  BY DEF Inv, TypeOK, Once, OnPage, AnsweredIds, SentOnes, Render, Listen

\* An emptied page.
LEMMA EmptyOnce ==
    ASSUME Inv, Once, OnPage' = {NoRequest}, shown' = NoRequest, keyed' = NoRequest,
           UNCHANGED <<seen, sent, asked, down>>,
           \A s \in Sock : \A i \in DOMAIN up'[s] :
               up'[s][i].id \in Request => up'[s][i] \in SentOnes
    PROVE  Once'
  <1>1. \A s \in Sock : \A i \in DOMAIN down[s] : down[s][i] # NoRequest
    BY Typed, SocketAssumption
  <1>2. AnsweredIds' = AnsweredIds /\ SentOnes' = SentOnes
    BY DEF AnsweredIds, SentOnes
  <1> QED BY <1>1, <1>2 DEF Once

LEMMA ReloadOnce == ASSUME Inv, Once, Reload PROVE Once'
  <1>1. OnPage' = {NoRequest} /\ shown' = NoRequest /\ keyed' = NoRequest
        /\ UNCHANGED <<seen, sent, asked, down, up>>
    BY DEF Reload, OnPage
  <1> QED BY <1>1, EmptyOnce DEF Once

\* What sending a message does to the queues of the engine.
LEMMA SendQueues ==
    ASSUME Inv, NEW m, Send(m), NEW s \in Sock, NEW i \in DOMAIN up'[s]
    PROVE  up'[s][i] = m \/ (i \in DOMAIN up[s] /\ up'[s][i] = up[s][i])
  <1>1. up[s] \in Seq(Answers \cup {Stopped})
    BY DEF Inv, TypeOK, Stopped
  <1> QED BY <1>1 DEF Send

LEMMA StopOnce == ASSUME Inv, Once, Stop PROVE Once'
  <1>1. \A s \in Sock : \A i \in DOMAIN up'[s] : up'[s][i].id \in Request => up'[s][i] \in SentOnes
    <2> SUFFICES ASSUME NEW s \in Sock, NEW i \in DOMAIN up'[s], up'[s][i].id \in Request
                 PROVE  up'[s][i] \in SentOnes
      OBVIOUS
    <2>1. Stopped.id \notin Request
      BY SocketAssumption DEF Stopped
    <2>2. up'[s][i] = Stopped \/ (i \in DOMAIN up[s] /\ up'[s][i] = up[s][i])
      BY SendQueues DEF Stop, Stopped
    <2> QED BY <2>1, <2>2 DEF Once
  <1>2. OnPage' = {NoRequest} /\ shown' = NoRequest /\ keyed' = NoRequest
        /\ UNCHANGED <<seen, sent, asked, down>>
    BY DEF Stop, Emptied, OnPage
  <1> QED BY <1>1, <1>2, EmptyOnce

LEMMA AnswerOnce ==
    ASSUME Inv, Once, NEW c \in {shown, keyed}, NEW answer \in {"yes", "no"}, Answer(c, answer)
    PROVE  Once'
  <1> DEFINE m == [id |-> c, answer |-> answer]
  <1>1. c \in Request /\ c \in seen /\ c \notin AnsweredIds /\ asked[c] # "new"
    BY DEF Inv, TypeOK, Answer, Once, OnPage
  <1>2. sent \in Seq(Answers) /\ sent' = Append(sent, m)
    BY DEF Inv, TypeOK, Answer
  <1>3. /\ DOMAIN sent' = 1 .. Len(sent) + 1 /\ DOMAIN sent = 1 .. Len(sent) /\ Len(sent) \in Nat
        /\ \A k \in 1 .. Len(sent) : sent'[k] = sent[k]
        /\ sent'[Len(sent) + 1] = m
    BY <1>2
  <1>4. AnsweredIds' = AnsweredIds \cup {c} /\ SentOnes' = SentOnes \cup {m}
    BY <1>3 DEF AnsweredIds, SentOnes
  <1>5. \A k, l \in DOMAIN sent' : sent'[k].id = sent'[l].id => k = l
    <2> SUFFICES ASSUME NEW k \in DOMAIN sent', NEW l \in DOMAIN sent', sent'[k].id = sent'[l].id
                 PROVE  k = l
      OBVIOUS
    <2>1. CASE k \in DOMAIN sent /\ l \in DOMAIN sent
      BY <1>3, <2>1 DEF Once
    <2>2. CASE k = Len(sent) + 1 /\ l \in DOMAIN sent
      BY <1>1, <1>3, <2>2 DEF AnsweredIds
    <2>3. CASE l = Len(sent) + 1 /\ k \in DOMAIN sent
      BY <1>1, <1>3, <2>3 DEF AnsweredIds
    <2> QED BY <1>3, <2>1, <2>2, <2>3
  <1>6. \A s \in Sock : \A i \in DOMAIN up'[s] : up'[s][i].id \in Request => up'[s][i] \in SentOnes'
    <2> SUFFICES ASSUME NEW s \in Sock, NEW i \in DOMAIN up'[s], up'[s][i].id \in Request
                 PROVE  up'[s][i] \in SentOnes'
      OBVIOUS
    <2>1. up'[s][i] = m \/ (i \in DOMAIN up[s] /\ up'[s][i] = up[s][i])
      BY SendQueues DEF Answer
    <2> QED BY <1>4, <2>1 DEF Once
  <1>7. UNCHANGED <<down, asked, seen>> /\ OnPage' = {NoRequest}
    BY DEF Answer, Emptied, OnPage
  <1>8. \A s \in Sock : \A i \in DOMAIN down[s] : down[s][i] # c /\ down[s][i] # NoRequest
    <2>1. \A s \in Sock : \A i \in DOMAIN down[s] : down[s][i] \in Request
      BY Typed
    <2> QED BY <2>1, SocketAssumption DEF Once, OnPage
  <1> QED BY <1>1, <1>4, <1>5, <1>6, <1>7, <1>8 DEF Once, Answer, Emptied

\* asked changes, but nothing is asked for anew and nothing granted unsent.
LEMMA AskedOnce ==
    ASSUME Inv, Once, UNCHANGED <<slot, shown, keyed, seen, sent, down>>,
           \A c \in Request : asked[c] # "new" => asked'[c] # "new",
           \A c \in Request : asked'[c] = "yes" => [id |-> c, answer |-> "yes"] \in SentOnes,
           \A s \in Sock : \A i \in DOMAIN up'[s] :
               up'[s][i].id \in Request => up'[s][i] \in SentOnes
    PROVE  Once'
  <1>1. \A s \in Sock : \A i \in DOMAIN down[s] : down[s][i] \in Request
    BY Typed
  <1>2. OnPage \ {NoRequest} \subseteq Request /\ AnsweredIds \subseteq Request
    BY Typed
  <1>3. OnPage' = OnPage /\ AnsweredIds' = AnsweredIds /\ SentOnes' = SentOnes
    BY DEF OnPage, AnsweredIds, SentOnes
  <1> QED BY <1>1, <1>2, <1>3 DEF Once

LEMMA SettledOnce == ASSUME Inv, Once, NEW c \in Request, Settled(c) PROVE Once'
  BY AskedOnce DEF Inv, TypeOK, Once, Settled, page

LEMMA ReceiveOnce == ASSUME Inv, Once, NEW s \in Sock, Receive(s) PROVE Once'
  <1> DEFINE m == Head(up[s])
  <1>1. up[s] \in Seq(Answers \cup {Stopped}) /\ up[s] # <<>>
    BY DEF Inv, TypeOK, Receive, Stopped
  <1>2. /\ m = up[s][1] /\ 1 \in DOMAIN up[s] /\ m \in Answers \cup {Stopped}
        /\ \A i \in DOMAIN Tail(up[s]) : i + 1 \in DOMAIN up[s] /\ Tail(up[s])[i] = up[s][i + 1]
    BY <1>1
  <1>3. \A t \in Sock : \A i \in DOMAIN up'[t] : up'[t][i].id \in Request => up'[t][i] \in SentOnes
    BY <1>2 DEF Receive, Once, Inv, TypeOK
  <1>4. m.id \in Request => m \in SentOnes /\ m = [id |-> m.id, answer |-> m.answer]
    <2>1. m.id \in Request => m \in Answers
      BY <1>2, SocketAssumption DEF Stopped
    <2> QED BY <1>2, <2>1 DEF Once, Answers
  <1> HIDE DEF m
  <1>5. \A c \in Request : /\ asked[c] # "new" => asked'[c] # "new"
                           /\ asked'[c] = "yes" => [id |-> c, answer |-> "yes"] \in SentOnes
    <2>1. CASE m.id \in Request
      <3>1. m.answer \in {"yes", "no"}
        BY <1>2, <2>1, SocketAssumption DEF Stopped, Answers
      <3>2. asked' = IF asked[m.id] = "open" THEN [asked EXCEPT ![m.id] = m.answer] ELSE asked
        BY <2>1 DEF Receive, m
      <3> QED BY <1>4, <2>1, <3>1, <3>2 DEF Once, Inv, TypeOK
    <2>2. CASE m.id \notin Request
      BY <2>2 DEF Receive, AllRefused, Once, m
    <2> QED BY <2>1, <2>2
  <1> QED BY <1>3, <1>5, AskedOnce DEF Receive, page

LEMMA EndOnce == ASSUME Inv, Once, NEW s \in Sock, SessionEnds(s) PROVE Once'
  <1>1. \A t \in Sock : \A i \in DOMAIN up'[t] : up'[t][i].id \in Request => up'[t][i] \in SentOnes
    BY DEF SessionEnds, Once, Inv, TypeOK
  <1> QED BY <1>1, AskedOnce DEF SessionEnds, AllRefused, page, Once

LEMMA AskOnce == ASSUME Inv, Once, NEW c \in Request, Ask(c) PROVE Once'
  <1> DEFINE Told(s) == s \in session /\ client.sock[s] \in {"accepted", "open"}
  <1>1. \A s, t \in Sock : Told(s) /\ Told(t) => s = t
    BY SocketAssumption DEF Inv, Wired, Alive, Connecting, Open
  <1>2. /\ asked[c] = "new" /\ asked' = [asked EXCEPT ![c] = "open"]
        /\ down' = [s \in Sock |-> IF Told(s) THEN Append(down[s], c) ELSE down[s]]
        /\ UNCHANGED <<slot, shown, keyed, seen, sent, up>>
    BY DEF Ask, page
  <1> HIDE DEF Told
  <1>3. \A s \in Sock : down[s] \in Seq(Request)
    BY DEF Inv, TypeOK
  <1>4. \A s \in Sock : \A i \in DOMAIN down'[s] :
           \/ i \in DOMAIN down[s] /\ down'[s][i] = down[s][i]
           \/ Told(s) /\ i = Len(down[s]) + 1 /\ down'[s][i] = c
    BY <1>2, <1>3
  <1>5. \A s \in Sock : \A i \in DOMAIN down[s] : down[s][i] # c
    BY <1>2 DEF Once
  <1>6. c \notin OnPage \cup AnsweredIds
    BY <1>2, SocketAssumption DEF Once
  <1>7. OnPage' = OnPage /\ AnsweredIds' = AnsweredIds /\ SentOnes' = SentOnes
    BY <1>2 DEF OnPage, AnsweredIds, SentOnes
  <1>8. \A d \in Request : /\ asked[d] # "new" => asked'[d] # "new"
                           /\ asked'[d] = "yes" => asked[d] = "yes"
                           /\ asked'[c] = "open"
    BY <1>2 DEF Inv, TypeOK
  <1>9. OnPage \ {NoRequest} \subseteq Request /\ AnsweredIds \subseteq Request
    BY Typed
  <1>10. \A s, t \in Sock : \A i \in DOMAIN down'[s], k \in DOMAIN down'[t] :
            down'[s][i] = down'[t][k] => s = t /\ i = k
    BY <1>1, <1>4, <1>5 DEF Once
  <1>11. \A s \in Sock : \A i \in DOMAIN down'[s] :
            asked'[down'[s][i]] # "new" /\ down'[s][i] \notin OnPage \cup AnsweredIds
    <2>1. \A s \in Sock : \A i \in DOMAIN down[s] : down[s][i] \in Request
      BY <1>3
    <2> QED BY <1>4, <1>6, <1>8, <2>1 DEF Once
  <1> QED BY <1>2, <1>7, <1>8, <1>9, <1>10, <1>11 DEF Once

LEMMA NextOnce == Inv /\ Once /\ [Next]_vars => Once'
  <1> SUFFICES ASSUME Inv, Once, [Next]_vars PROVE Once'
    OBVIOUS
  <1>1. CASE UNCHANGED vars
    BY <1>1, LossOnce DEF vars
  <1>2. CASE (\E u \in Url : Mount(u) \/ Resubscribe(u)) \/ TimerFires
    BY <1>2, LossOnce DEF Mount, Resubscribe, TimerFires, page
  <1>3. CASE \E s \in Sock : Opened(s) \/ Closing(s) \/ Accept(s) \/ Cut(s)
    BY <1>3, LossOnce DEF Opened, Closing, Accept, Cut, page, Inv, TypeOK
  <1>4. CASE \E s \in Sock : Closed(s)
    BY <1>4, LossOnce DEF Closed, page, Inv, TypeOK
  <1>5. CASE Reload \/ Render \/ Listen \/ Stop
    BY <1>5, ReloadOnce, ShownOnce, StopOnce
  <1>6. CASE \E answer \in {"yes", "no"} : Press(answer)
    BY <1>6, AnswerOnce DEF Press
  <1>7. CASE \E s \in Sock : Message(s) \/ Receive(s) \/ SessionEnds(s)
    BY <1>7, MessageOnce, ReceiveOnce, EndOnce
  <1>8. CASE \E c \in Request : Ask(c) \/ Settled(c)
    BY <1>8, AskOnce, SettledOnce
  <1> QED BY <1>1, <1>2, <1>3, <1>4, <1>5, <1>6, <1>7, <1>8 DEF Next, Event

-----------------------------------------------------------------------------
\* Type correctness, for any sockets, URLs, requests and bound.
THEOREM TypeCorrect == Spec => []TypeOK
  <1>1. Inv => TypeOK
    BY DEF Inv
  <1> QED BY InitInv, NextInv, <1>1, PTL DEF Spec

\* One connection at a time, one timer, no heartbeat left over, and a page that
\* knows when it is connected: the fields of JarvisWebSocketClient.
THEOREM InvariantHolds == Spec => []ClientInv
  BY InitInv, NextInv, InvSafe, PTL DEF Spec

\* The page always has a connection, an event to come or a timer: connect,
\* onclose and scheduleReconnect leave no gap.
THEOREM PageNeverStranded == Spec => []NeverStranded
  BY InitInv, NextInv, InvSafe, PTL DEF Spec

\* What the user answers was on his screen, is answered once, and nothing else
\* counts as his yes: Message, the dialog and Answer in App.tsx, and the
\* confirmation manager of the engine.
THEOREM AnswersWereSeen == Spec => []AnswersSeen
  <1>1. Once => AnswersSeen
    BY DEF Once, AnswersSeen, AnsweredIds, SentOnes
  <1> QED BY InitInv, NextInv, InitOnce, NextOnce, <1>1, PTL DEF Spec
=============================================================================
