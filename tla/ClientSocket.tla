----------------------------- MODULE ClientSocket -----------------------------
(* The desktop client's connection (services/websocket.ts) and the one slot *)
(* of its page that holds a confirmation request (App.tsx,                  *)
(* ConfirmationModal.tsx), with as much of the reasoning engine as answers  *)
(* it: Sessions has the detail.                                             *)
(*                                                                          *)
(* A step is one task of the browser's event loop: an event of a socket, a  *)
(* timer, a click, a rendering.  The browser changes the readyState of a    *)
(* socket in the task that fires the event.                                 *)
EXTENDS Integers, Sequences, FiniteSets

CONSTANTS
    Sock,       \* sockets; a name is used again when nothing of it is left
    NoSock,     \* null
    Url,        \* URLs the user may set
    Bad,        \* those for which "new WebSocket" throws
    Request,    \* confirmation requests, each asked for once
    NoRequest,  \* null
    MaxEvents   \* bound: lost connections, changed settings, reloads, stops

ASSUME SocketAssumption == NoSock \notin Sock /\ NoRequest \notin Request
ASSUME UrlAssumption == Bad \subseteq Url

VARIABLES
    client,           \* the fields of JarvisWebSocketClient, and its sockets
    mounted,          \* App is mounted: its callbacks are registered
    connectionStatus, \* what the page says of the connection
    slot,             \* pendingConfirmation, as last set
    shown,            \* the request in the dialog on the screen
    keyed,            \* the request that the Enter and Escape keys answer
    session,          \* sockets whose receive loop runs in the engine
    down, up,         \* messages on their way to the client, to the engine
    asked,            \* what became of each request in the engine
    seen,             \* history: the requests that were on the screen
    sent,             \* history: the answers the page sent
    events            \* counted for MaxEvents

page == <<slot, shown, keyed, seen, sent>>
vars == <<client, mounted, connectionStatus, slot, shown, keyed, session, down, up,
          asked, seen, sent, events>>

(* A socket is "none", or dialing and accepted (CONNECTING), open (OPEN),   *)
(* refused and lost (CONNECTING and OPEN still, but the connection is       *)
(* gone), closing (CLOSING), closed (CLOSED).                               *)
Connecting == {"dialing", "accepted", "refused"}
Open == {"open", "lost"}
Phase == {"none", "closing", "closed"} \cup Connecting \cup Open

\* ws               the socket in use
\* handled          the sockets whose event handlers are set
\* timer, beat      whether reconnectTimer and pingInterval are set
\* shouldReconnect  as in the code
NewClient(url, sock) ==
    [ws |-> NoSock, url |-> url, timer |-> FALSE, beat |-> FALSE,
     shouldReconnect |-> TRUE, handled |-> {}, sock |-> sock]

Init ==
    /\ client \in {NewClient(u, [s \in Sock |-> "none"]) : u \in Url}
    /\ mounted = FALSE
    /\ connectionStatus = "CONNECTING"
    /\ slot = NoRequest /\ shown = NoRequest /\ keyed = NoRequest
    /\ session = {}
    /\ down = [s \in Sock |-> <<>>]
    /\ up = [s \in Sock |-> <<>>]
    /\ asked = [c \in Request |-> "new"]
    /\ seen = {}
    /\ sent = <<>>
    /\ events = 0

-----------------------------------------------------------------------------
(* JarvisWebSocketClient: what its methods make of its fields j.            *)

\* The socket in use is connecting or open, for all the browser knows.
InUse(j) == j.ws # NoSock /\ j.sock[j.ws] \in Connecting \cup Open

\* Deviation: a connection is opened whatever there is already.
connect_Always(j, s) ==
    IF j.url \in Bad THEN [j EXCEPT !.timer = TRUE, !.shouldReconnect = TRUE]
    ELSE [j EXCEPT !.timer = FALSE, !.shouldReconnect = TRUE, !.ws = s,
                   !.handled = @ \cup {s}, !.sock[s] = "dialing"]

\* Deviation: shouldReconnect stays as disconnect left it.
connect_StaysOff(j, s) ==
    IF InUse(j) THEN j
    ELSE IF j.url \in Bad THEN [j EXCEPT !.timer = TRUE]
    ELSE [j EXCEPT !.timer = FALSE, !.ws = s, !.handled = @ \cup {s}, !.sock[s] = "dialing"]

\* With a URL that makes the constructor throw, connect tries again later.
connect(j, s) ==
    IF InUse(j) THEN j
    ELSE IF j.url \in Bad THEN [j EXCEPT !.timer = TRUE, !.shouldReconnect = TRUE]
    ELSE [j EXCEPT !.timer = FALSE, !.shouldReconnect = TRUE, !.ws = s,
                   !.handled = @ \cup {s}, !.sock[s] = "dialing"]

Shut(phase) == IF phase \in Connecting \cup Open THEN "closing" ELSE phase

disconnect(j) ==
    [j EXCEPT !.shouldReconnect = FALSE, !.beat = FALSE, !.timer = FALSE, !.ws = NoSock,
              !.handled = @ \ {j.ws},
              !.sock = [s \in Sock |-> IF s = j.ws THEN Shut(@[s]) ELSE @[s]]]

setUrl(j, url, s) ==
    IF j.url = url THEN j ELSE connect(disconnect([j EXCEPT !.url = url]), s)

\* What connect tells the callbacks.
Announced(j) == IF InUse(j) THEN connectionStatus
                ELSE IF j.url \in Bad THEN "DISCONNECTED" ELSE "CONNECTING"

\* The name of a new socket: which of the vacant ones does not matter.
Vacant(j) == {s \in Sock \ {j.ws} : j.sock[s] \in {"none", "closed"} /\ s \notin session}
NewSock(j) == CHOOSE s \in Vacant(j) : TRUE

\* What App does to the connection when it takes it up.
Taken(j, url) ==
    LET s == NewSock(j)
        k == setUrl(j, url, s)
    IN  connect(k, IF Vacant(k) = {} THEN s ELSE NewSock(k))

-----------------------------------------------------------------------------
(* The effect of App that owns the connection                               *)

\* It connects first and registers the callbacks then, which hear nothing of it.
Mount(url) ==
    /\ ~mounted
    /\ mounted' = TRUE
    /\ Vacant(client) # {}
    /\ client' = Taken(client, url)
    /\ UNCHANGED <<connectionStatus, page, session, down, up, asked, events>>

\* A change of the URL, or of a voice setting (speak is a dependency of the
\* effect), or React's strict mode: the effect is undone and done again.
Resubscribe(url) ==
    /\ mounted
    /\ events < MaxEvents
    /\ events' = events + 1
    /\ Vacant(disconnect(client)) # {}
    /\ client' = Taken(disconnect(client), url)
    /\ UNCHANGED <<mounted, connectionStatus, page, session, down, up, asked>>

\* The page is loaded anew: the browser closes what the old one had open.
Reload ==
    /\ mounted
    /\ events < MaxEvents
    /\ events' = events + 1
    /\ mounted' = FALSE
    /\ \E u \in Url : client' = NewClient(u, [s \in Sock |-> Shut(client.sock[s])])
    /\ connectionStatus' = "CONNECTING"
    /\ slot' = NoRequest /\ shown' = NoRequest /\ keyed' = NoRequest
    /\ UNCHANGED <<session, down, up, asked, seen, sent>>

-----------------------------------------------------------------------------
(* Events of the sockets and the timer                                      *)

\* The handlers of s are set and s has not been replaced.
Heard(s) == s \in client.handled /\ client.ws = s

Opened(s) ==
    /\ client.sock[s] = "accepted"
    /\ client' = [client EXCEPT !.sock[s] = "open", !.beat = @ \/ Heard(s)]
    /\ connectionStatus' = IF Heard(s) THEN "CONNECTED" ELSE connectionStatus
    /\ UNCHANGED <<mounted, page, session, down, up, asked, events>>

\* The engine begins to close: readyState is CLOSING before the close event.
Closing(s) ==
    /\ client.sock[s] = "lost"
    /\ client' = [client EXCEPT !.sock[s] = "closing"]
    /\ UNCHANGED <<mounted, connectionStatus, page, session, down, up, asked, events>>

\* Deviation: only a connection that was established is tried again.
Closed_GivesUp(s) ==
    /\ client.sock[s] \in {"refused", "lost", "closing"}
    /\ client' = [client EXCEPT !.sock[s] = "closed",
                                !.beat = @ /\ ~Heard(s),
                                !.timer = @ \/ (Heard(s) /\ client.shouldReconnect /\ client.beat)]
    /\ connectionStatus' = IF Heard(s) THEN "DISCONNECTED" ELSE connectionStatus
    /\ down' = [down EXCEPT ![s] = <<>>]
    /\ UNCHANGED <<mounted, page, session, up, asked, events>>

Closed(s) ==
    /\ client.sock[s] \in {"refused", "lost", "closing"}
    /\ client' = [client EXCEPT !.sock[s] = "closed",
                                !.beat = @ /\ ~Heard(s),
                                !.timer = @ \/ (Heard(s) /\ client.shouldReconnect)]
    /\ connectionStatus' = IF Heard(s) THEN "DISCONNECTED" ELSE connectionStatus
    /\ down' = [down EXCEPT ![s] = <<>>]
    /\ UNCHANGED <<mounted, page, session, up, asked, events>>

\* Deviation: an attempt to reconnect is not announced.
TimerFires_Silent ==
    /\ client.timer
    /\ Vacant(client) # {}
    /\ LET j == [client EXCEPT !.timer = FALSE]
       IN  client' = IF j.shouldReconnect THEN connect(j, NewSock(j)) ELSE j
    /\ UNCHANGED <<mounted, connectionStatus, page, session, down, up, asked, events>>

TimerFires ==
    /\ client.timer
    /\ Vacant(client) # {}
    /\ LET j == [client EXCEPT !.timer = FALSE]
       IN  /\ client' = IF j.shouldReconnect THEN connect(j, NewSock(j)) ELSE j
           /\ connectionStatus' = IF j.shouldReconnect THEN Announced(j) ELSE connectionStatus
    /\ UNCHANGED <<mounted, page, session, down, up, asked, events>>

\* A request arrives: whatever is in the slot is replaced.
Message(s) ==
    /\ client.sock[s] \in Open
    /\ down[s] # <<>>
    /\ slot' = IF Heard(s) THEN Head(down[s]) ELSE slot
    /\ down' = [down EXCEPT ![s] = Tail(@)]
    /\ UNCHANGED <<client, mounted, connectionStatus, shown, keyed, session, up, asked,
                   seen, sent, events>>

-----------------------------------------------------------------------------
(* The dialog                                                               *)

\* React renders what was set.  The listener of the keys is replaced later.
Render ==
    /\ shown # slot
    /\ shown' = slot
    /\ seen' = IF slot = NoRequest THEN seen ELSE seen \cup {slot}
    /\ UNCHANGED <<client, mounted, connectionStatus, slot, keyed, session, down, up,
                   asked, sent, events>>

Listen ==
    /\ keyed # shown
    /\ keyed' = shown
    /\ UNCHANGED <<client, mounted, connectionStatus, slot, shown, session, down, up,
                   asked, seen, sent, events>>

\* Nothing is sent, and nobody told, unless the connection is open.
Send(m) ==
    up' = [s \in Sock |-> IF s = client.ws /\ client.sock[s] = "open"
                          THEN Append(up[s], m) ELSE up[s]]

\* The slot is emptied by an event of the user, which is rendered at once: a
\* request that was set but not rendered yet goes with it.
Emptied == slot' = NoRequest /\ shown' = NoRequest /\ keyed' = NoRequest

\* Deviation: the answer is for the request that was set last.
Answer_Latest(c, answer) ==
    /\ c # NoRequest
    /\ Send([id |-> slot, answer |-> answer])
    /\ sent' = Append(sent, [id |-> slot, answer |-> answer])
    /\ Emptied
    /\ UNCHANGED <<client, mounted, connectionStatus, session, down, asked, seen, events>>

\* handleConfirmAction and handleCancelAction with the request c of the
\* rendering they were made in.
Answer(c, answer) ==
    /\ c # NoRequest
    /\ Send([id |-> c, answer |-> answer])
    /\ sent' = Append(sent, [id |-> c, answer |-> answer])
    /\ Emptied
    /\ UNCHANGED <<client, mounted, connectionStatus, session, down, asked, seen, events>>

Press(answer) == Answer(shown, answer) \/ Answer(keyed, answer)

Stop ==
    /\ mounted
    /\ events < MaxEvents
    /\ events' = events + 1
    /\ Send([id |-> NoRequest, answer |-> "stop"])
    /\ Emptied
    /\ UNCHANGED <<client, mounted, connectionStatus, session, down, asked, seen, sent>>

-----------------------------------------------------------------------------
(* The engine and the network                                               *)

Accept(s) ==
    /\ client.sock[s] = "dialing"
    /\ client' = [client EXCEPT !.sock[s] = "accepted"]
    /\ session' = session \cup {s}
    /\ up' = [up EXCEPT ![s] = <<>>]
    /\ UNCHANGED <<mounted, connectionStatus, page, down, asked, events>>

\* The engine is down, the network fails or the engine closes.
Cut(s) ==
    /\ events < MaxEvents
    /\ events' = events + 1
    /\ \/ /\ client.sock[s] \in {"dialing", "accepted"}
          /\ client' = [client EXCEPT !.sock[s] = "refused"]
       \/ /\ client.sock[s] = "open"
          /\ client' = [client EXCEPT !.sock[s] = "lost"]
    /\ UNCHANGED <<mounted, connectionStatus, page, session, down, up, asked>>

\* A run of this client or of another one asks: every client is told.
Ask(c) ==
    /\ asked[c] = "new"
    /\ asked' = [asked EXCEPT ![c] = "open"]
    /\ down' = [s \in Sock |-> IF s \in session /\ client.sock[s] \in {"accepted", "open"}
                               THEN Append(down[s], c) ELSE down[s]]
    /\ UNCHANGED <<client, mounted, connectionStatus, page, session, up, events>>

\* Another client answers, or the run is cancelled.
Settled(c) ==
    /\ asked[c] = "open"
    /\ \E a \in {"elsewhere", "no"} : asked' = [asked EXCEPT ![c] = a]
    /\ UNCHANGED <<client, mounted, connectionStatus, page, session, down, up, events>>

\* cancel_all
AllRefused == asked' = [c \in Request |-> IF asked[c] = "open" THEN "no" ELSE asked[c]]

\* resolve_confirmation, or stop.
Receive(s) ==
    /\ s \in session /\ up[s] # <<>>
    /\ LET m == Head(up[s])
       IN  IF m.id \in Request
           THEN asked' = IF asked[m.id] = "open" THEN [asked EXCEPT ![m.id] = m.answer] ELSE asked
           ELSE AllRefused
    /\ up' = [up EXCEPT ![s] = Tail(@)]
    /\ UNCHANGED <<client, mounted, connectionStatus, page, session, down, events>>

\* The receive loop ends; messages that had not arrived are lost.
SessionEnds(s) ==
    /\ s \in session
    /\ client.sock[s] \in {"refused", "lost", "closing", "closed"}
    /\ session' = session \ {s}
    /\ AllRefused
    /\ up' = [up EXCEPT ![s] = <<>>]
    /\ UNCHANGED <<client, mounted, connectionStatus, page, down, events>>

-----------------------------------------------------------------------------
Event(s) == Opened(s) \/ Closing(s) \/ Closed(s) \/ Message(s)

Next ==
    \/ \E u \in Url : Mount(u) \/ Resubscribe(u)
    \/ Reload \/ TimerFires \/ Render \/ Listen \/ Stop
    \/ \E answer \in {"yes", "no"} : Press(answer)
    \/ \E s \in Sock : Event(s) \/ Accept(s) \/ Cut(s) \/ Receive(s) \/ SessionEnds(s)
    \/ \E c \in Request : Ask(c) \/ Settled(c)

\* The event loop runs its timers and delivers the events of the sockets; the
\* engine accepts connections and notices the end of one.  Users, runs and
\* failures owe nothing.
Fairness ==
    /\ WF_vars(TimerFires)
    /\ \A s \in Sock : WF_vars(Opened(s)) /\ WF_vars(Closed(s)) /\ WF_vars(Accept(s))
                       /\ WF_vars(SessionEnds(s))

Spec == Init /\ [][Next]_vars /\ Fairness

-----------------------------------------------------------------------------
(* Properties                                                               *)

Answers == [id : Request, answer : {"yes", "no"}]

Fields == [ws : Sock \cup {NoSock}, url : Url, timer : BOOLEAN, beat : BOOLEAN,
           shouldReconnect : BOOLEAN, handled : SUBSET Sock, sock : [Sock -> Phase]]

TypeOK ==
    /\ client \in Fields
    /\ mounted \in BOOLEAN
    /\ connectionStatus \in {"CONNECTED", "CONNECTING", "DISCONNECTED"}
    /\ {slot, shown, keyed} \subseteq Request \cup {NoRequest}
    /\ session \subseteq Sock
    /\ down \in [Sock -> Seq(Request)]
    /\ up \in [Sock -> Seq(Answers \cup {[id |-> NoRequest, answer |-> "stop"]})]
    /\ asked \in [Request -> {"new", "open", "yes", "no", "elsewhere"}]
    /\ seen \subseteq Request
    /\ sent \in Seq(Answers)

\* At most one socket can connect or stay open, the one in use, and it is heard.
OneSocket ==
    \A s \in Sock : client.sock[s] \in Connecting \cup Open => Heard(s) /\ mounted

\* A timer and a heartbeat are left over from no other connection.
TimersOK ==
    /\ client.timer => mounted /\ client.shouldReconnect /\ ~InUse(client)
    /\ client.beat => client.ws # NoSock /\ client.sock[client.ws] \in Open \cup {"closing"}

\* While the connection is open the page says so and pings.
OpenKnown ==
    client.ws # NoSock /\ client.sock[client.ws] \in Open
        => connectionStatus = "CONNECTED" /\ client.beat

\* Whatever the order of late events, timers, failures, changes of the
\* settings and reloads: one connection at a time, one timer at most, and the
\* page knows when it is open.
ClientInv == TypeOK /\ OneSocket /\ TimersOK /\ OpenKnown

\* The mounted page is never without a connection, an event that will end the
\* one it has, or a timer to make the next.
NeverStranded ==
    mounted => \/ InUse(client)
               \/ client.timer
               \/ /\ client.ws # NoSock /\ Heard(client.ws) /\ client.shouldReconnect
                  /\ client.sock[client.ws] = "closing"

\* Requests, renderings and clicks come in any order, and the slot changes
\* under the user's hand: what he answers was on his screen, each request is
\* answered at most once, and the engine acts on no answer that he did not give.
AnswersSeen ==
    /\ \A k \in DOMAIN sent : sent[k].id \in seen
    /\ \A k, l \in DOMAIN sent : sent[k].id = sent[l].id => k = l
    /\ \A c \in Request : asked[c] = "yes" => [id |-> c, answer |-> "yes"] \in {sent[k] : k \in DOMAIN sent}

\* When failures end, the mounted page with a usable URL is connected and
\* knows it.
Reconnects ==
    []<>(\/ ~mounted \/ client.url \in Bad
         \/ /\ client.ws # NoSock /\ client.sock[client.ws] = "open"
            /\ connectionStatus = "CONNECTED")

\* The page that says CONNECTED is so, or stops saying it, although a change
\* of the settings replaces the connection behind its back.
StatusSettles ==
    connectionStatus = "CONNECTED"
        ~> \/ connectionStatus # "CONNECTED"
           \/ (client.ws # NoSock /\ client.sock[client.ws] = "open")
=============================================================================
