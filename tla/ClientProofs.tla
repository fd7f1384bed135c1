---------------------------- MODULE ClientProofs ----------------------------
(* Proofs about the client: its connection (ClientConn), for any number of    *)
(* connections, messages, failures and keys and any capacity of the channels, *)
(* and what the user sees and does (ClientUI with ClientThreads and           *)
(* ClientSettings), for any partners, names, lists, queues and logs.          *)
EXTENDS ClientConn, ClientUI, FiniteSetTheorems, WellFoundedInduction, TLAPS

----------------------------------------------------------------------------
(* Type correctness.                                                         *)

Kinds == {"none", "chat", "err", "user", "closed", "connected", "quit"}
Msgs == [k : Kinds, conn : Nat, n : Nat]
ReaderPC == {"none", "loop", "read", "deliver", "full", "drain", "retry", "done"}
LineStates == {"up", "lost", "normal", "closed"}

\* A reader in a call of ReadMessage has a connection there.
ReadsOne(g) == reader[g].pc = "read" => reader[g].m.conn \in Conns

TypeOK ==
    /\ made \in 0..MaxConns /\ conn \in 0..made /\ chan \in 0..made
    /\ connected \in BOOLEAN
    /\ queue \in [Channels -> Seq(Msgs)]
    /\ net \in [Conns -> Seq(Nat)] /\ sent \in [Conns -> Nat]
    /\ line \in [Conns -> LineStates]
    /\ reader \in [Conns -> [pc : ReaderPC, m : Msgs]]
    /\ pinger \in [Conns -> {"none", "wait", "ping", "done"}]
    /\ listeners \in [Channels -> Nat] /\ inbox \subseteq Msgs
    /\ dials \in Nat /\ shakes \in Nat /\ ticks \in Nat
    /\ shakes > 0 => made > 0
    /\ ui \in {"run", "closing", "quit", "exited"}
    /\ after \in {"none", "retry", "stop", "quit"} /\ (ui # "closing" => after = "none")
    /\ signal \in {"none", "closing", "sent"}
    /\ crashed \in {"no", "goroutine", "key"}
    /\ fails \in Nat /\ keys \in Nat
    /\ handled \subseteq Msgs /\ overtaken \subseteq Msgs /\ dropped \subseteq Msgs
    /\ \A g \in Conns : ReadsOne(g)

LEMMA KindsOfMessages ==
    /\ \A g, n \in Nat : Chat(g, n) \in Msgs
    /\ \A g \in Nat : {Err(g), UserErr(g), Closed(g), Connected(g)} \subseteq Msgs
    /\ Nothing \in Msgs /\ Quit \in Msgs
BY DEF Msgs, Kinds, Chat, Err, UserErr, Closed, Connected, Nothing, Quit, Msg

LEMMA Numbers == Conns \subseteq Nat /\ Channels \subseteq Nat /\ Conns \subseteq Channels /\ 0 \in Channels
BY ClientConnAssumption DEF Conns, Channels

LEMMA Queues ==
    ASSUME NEW S, NEW q \in Seq(S)
    PROVE  /\ \A m \in S : Append(q, m) \in Seq(S)
           /\ q # <<>> => Head(q) \in S /\ Tail(q) \in Seq(S)
OBVIOUS

LEMMA Tails ==
    ASSUME NEW S, NEW q \in Seq(S), q # <<>>
    PROVE  /\ Len(Tail(q)) = Len(q) - 1 /\ Len(q) \in Nat
           /\ \A i \in 1..Len(Tail(q)) : i \in Nat /\ i + 1 \in 1..Len(q) /\ Tail(q)[i] = q[i + 1]
OBVIOUS

LEMMA Bounds == MaxConns \in Nat \ {0} /\ MaxMsgs \in Nat \ {0} /\ MaxExtra \in Nat
BY ClientConnAssumption

LEMMA TypeInit == Init => TypeOK
<1> SUFFICES ASSUME Init PROVE TypeOK
  OBVIOUS
<1>1. Idle \in [pc : ReaderPC, m : Msgs]
  BY KindsOfMessages DEF Idle, At, ReaderPC
<1>2. \A g \in Conns : ReadsOne(g)
  BY DEF Init, ReadsOne, Idle, At
<1>3. queue \in [Channels -> Seq(Msgs)] /\ net \in [Conns -> Seq(Nat)]
  BY DEF Init
<1>4. reader \in [Conns -> [pc : ReaderPC, m : Msgs]]
  BY <1>1 DEF Init
<1>5. connected \in BOOLEAN
  BY DEF Init
<1>6. /\ inbox \subseteq Msgs /\ handled \subseteq Msgs
      /\ overtaken \subseteq Msgs /\ dropped \subseteq Msgs
  BY DEF Init
<1>7. /\ line \in [Conns -> LineStates]
      /\ pinger \in [Conns -> {"none", "wait", "ping", "done"}]
      /\ sent \in [Conns -> Nat] /\ listeners \in [Channels -> Nat]
  BY DEF Init, LineStates
<1> QED
  BY <1>2, <1>3, <1>4, <1>5, <1>6, <1>7, Bounds DEF Init, TypeOK

LEMMA ReaderMoves ==
    ASSUME TypeOK, NEW g \in Conns, NEW pc \in ReaderPC, NEW m \in Msgs,
           ReaderTo(g, pc, m), pc = "read" => m.conn \in Conns
    PROVE  /\ reader' \in [Conns -> [pc : ReaderPC, m : Msgs]]
           /\ \A h \in Conns : ReadsOne(h)'
<1>1. At(pc, m) \in [pc : ReaderPC, m : Msgs] /\ At(pc, m).pc = pc /\ At(pc, m).m = m
  BY DEF At
<1> QED
  BY <1>1 DEF TypeOK, ReaderTo, ReadsOne

LEMMA ThenMoves ==
    ASSUME TypeOK, NEW g \in Conns, NEW m \in Msgs, Then(g, m)
    PROVE  \E pc \in ReaderPC \ {"read"}, n \in Msgs : ReaderTo(g, pc, n)
BY KindsOfMessages, Numbers DEF Then, ReaderPC

LEMMA TypeReader ==
    ASSUME TypeOK, NEW g \in Conns, Reader(g)
    PROVE  TypeOK'
<1> USE DEF TypeOK, fields, wire, tasks, loop, hist
<1>0. chan \in Channels /\ g \in Nat /\ made \in Nat /\ reader[g].m \in Msgs
  BY Numbers, ClientConnAssumption DEF Channels
<1>m. ASSUME NEW pc \in ReaderPC, NEW m \in Msgs, ReaderTo(g, pc, m),
             pc = "read" => m.conn \in Conns
      PROVE  /\ reader' \in [Conns -> [pc : ReaderPC, m : Msgs]]
             /\ \A h \in Conns : ReadsOne(h)'
  BY <1>m, ReaderMoves
<1>1. CASE ReadLoop(g)
  <2>1. CASE conn = 0
    BY <1>1, <2>1 DEF ReadLoop, ReadsOne
  <2>2. CASE conn # 0
    <3>1. conn \in Conns /\ Chat(conn, 0) \in Msgs /\ Chat(conn, 0).conn = conn
      BY <2>2, ClientConnAssumption, KindsOfMessages DEF Conns, Chat, Msg
    <3> QED
      BY <1>1, <2>2, <3>1, <1>m DEF ReadLoop, ReaderPC
  <2> QED
    BY <2>1, <2>2
<1>2. CASE ReadMessage(g)
  <2> DEFINE c == reader[g].m.conn
  <2>1. c \in Conns /\ net[c] # <<>> /\ net[c] \in Seq(Nat)
    BY <1>2 DEF ReadMessage, ReadsOne
  <2>2. Head(net[c]) \in Nat /\ Tail(net[c]) \in Seq(Nat) /\ c \in Nat
    BY <2>1, Numbers, Queues
  <2>3. Chat(c, Head(net[c])) \in Msgs
    BY <2>2, KindsOfMessages
  <2>4. ReaderTo(g, "deliver", Chat(c, Head(net[c])))
    BY <1>2 DEF ReadMessage
  <2>5. reader' \in [Conns -> [pc : ReaderPC, m : Msgs]] /\ \A h \in Conns : ReadsOne(h)'
    BY <2>3, <2>4, <1>m DEF ReaderPC
  <2>6. net' \in [Conns -> Seq(Nat)]
    BY <1>2, <2>2 DEF ReadMessage
  <2> QED
    BY <1>2, <2>5, <2>6 DEF ReadMessage
<1>3. CASE ReadError(g)
  <2>1. {Err(g), UserErr(g), Closed(g)} \subseteq Msgs
    BY <1>0, KindsOfMessages
  <2> QED
    BY <1>3, <2>1, <1>m DEF ReadError, ReaderPC
<1>4. CASE Deliver(g)
  <2>1. reader' \in [Conns -> [pc : ReaderPC, m : Msgs]] /\ \A h \in Conns : ReadsOne(h)'
    BY <1>4, <1>0, <1>m, ThenMoves DEF Deliver, ReaderPC
  <2>2. queue' \in [Channels -> Seq(Msgs)]
    <3>1. Append(queue[chan], reader[g].m) \in Seq(Msgs)
      BY <1>0, Queues
    <3>2. queue' \in {queue, [queue EXCEPT ![chan] = Append(queue[chan], reader[g].m)]}
      BY <1>4 DEF Deliver
    <3> QED
      BY <3>1, <3>2
  <2> QED
    BY <1>4, <2>1, <2>2 DEF Deliver
<1>5. CASE TestLength(g)
  BY <1>5, <1>0, <1>m DEF TestLength, ReaderPC
<1>6. CASE Drain(g)
  <2>1. Head(queue[chan]) \in Msgs /\ Tail(queue[chan]) \in Seq(Msgs)
    BY <1>6, <1>0, Queues DEF Drain
  <2> QED
    BY <1>6, <1>0, <1>m, <2>1 DEF Drain, ReaderPC
<1>7. CASE Retry(g)
  <2>1. reader' \in [Conns -> [pc : ReaderPC, m : Msgs]] /\ \A h \in Conns : ReadsOne(h)'
    BY <1>7, <1>0, <1>m, ThenMoves DEF Retry, ReaderPC
  <2>2. queue' \in [Channels -> Seq(Msgs)] /\ dropped' \subseteq Msgs
    <3>1. Append(queue[chan], reader[g].m) \in Seq(Msgs)
      BY <1>0, Queues
    <3>2. queue' \in {queue, [queue EXCEPT ![chan] = Append(queue[chan], reader[g].m)]}
      BY <1>7 DEF Retry
    <3>3. dropped' \in {dropped, dropped \cup {reader[g].m}}
      BY <1>7 DEF Retry
    <3> QED
      BY <3>1, <3>2, <3>3, <1>0
  <2> QED
    BY <1>7, <2>1, <2>2 DEF Retry
<1> QED
  BY <1>1, <1>2, <1>3, <1>4, <1>5, <1>6, <1>7 DEF Reader

LEMMA TypeStep == TypeOK /\ [ConnNext]_connVars => TypeOK'
<1> SUFFICES ASSUME TypeOK, [ConnNext]_connVars PROVE TypeOK'
  OBVIOUS
<1> USE DEF TypeOK, fields, wire, threads, tasks, loop, hist
<1>0. chan \in Channels /\ made \in Nat /\ MaxConns \in Nat /\ (conn # 0 => conn \in Conns)
  BY Numbers, ClientConnAssumption DEF Channels, Conns
<1>r. UNCHANGED reader => \A g \in Conns : ReadsOne(g)'
  BY DEF ReadsOne
<1>f. CloseFields => line' \in [Conns -> LineStates] /\ conn' = 0
  BY DEF CloseFields, LineStates
<1>1. ASSUME NEW g \in Conns, ServerSends(g) \/ LineLost(g) PROVE TypeOK'
  <2>1. CASE ServerSends(g)
    <3>1. sent[g] + 1 \in Nat /\ sent' = [sent EXCEPT ![g] = sent[g] + 1]
      BY <2>1 DEF ServerSends
    <3>2. Append(net[g], sent[g] + 1) \in Seq(Nat)
      BY <3>1, Queues
    <3>3. net' = [net EXCEPT ![g] = Append(net[g], sent[g] + 1)]
      BY <2>1, <3>1 DEF ServerSends
    <3> QED
      BY <2>1, <3>1, <3>2, <3>3, <1>r DEF ServerSends
  <2>2. CASE LineLost(g)
    <3>1. line' \in [Conns -> LineStates] /\ fails' \in Nat
      <4>1. CASE fails' = fails /\ line' = [line EXCEPT ![g] = "lost"]
        BY <4>1 DEF LineStates
      <4>2. CASE fails' = fails + 1 /\ line' = [line EXCEPT ![g] = "normal"]
        BY <4>2 DEF LineStates
      <4> QED
        BY <2>2, <4>1, <4>2 DEF LineLost
    <3> QED
      BY <2>2, <3>1, <1>r DEF LineLost
  <2> QED
    BY <1>1, <2>1, <2>2
<1>2. CASE DialFails
  <2>1. Err(0) \in Msgs /\ UserErr(0) \in Msgs
    BY KindsOfMessages
  <2> QED
    BY <1>2, <1>r, <2>1 DEF DialFails
<1>3. CASE DialSucceeds
  BY <1>3, <1>0, <1>r DEF DialSucceeds
<1>4. CASE HandshakeFails
  <2>1. Err(0) \in Msgs
    BY KindsOfMessages
  <2> QED
    <3>1. line' \in [Conns -> LineStates] /\ conn' = 0
      BY <1>4 DEF HandshakeFails, LineStates
    <3>3. inbox' \subseteq Msgs
      BY <1>4, <2>1 DEF HandshakeFails
    <3>2. connected' \in BOOLEAN
      BY <1>4 DEF HandshakeFails
    <3> QED
      BY <1>4, <1>r, <3>1, <3>2, <3>3 DEF HandshakeFails
<1>5. CASE HandshakeSucceeds
  <2>1. CASE conn = 0
    BY <1>5, <2>1, <1>r DEF HandshakeSucceeds
  <2>2. CASE conn # 0
    <3>1. made \in Conns /\ Connected(made) \in Msgs /\ Nothing \in Msgs
      BY <2>2, <1>0, KindsOfMessages DEF Conns
    <3>2. ReaderTo(made, "loop", Nothing)
      BY <1>5, <2>2 DEF HandshakeSucceeds, ReaderTo
    <3>3. reader' \in [Conns -> [pc : ReaderPC, m : Msgs]] /\ \A h \in Conns : ReadsOne(h)'
      BY <3>1, <3>2, ReaderMoves DEF ReaderPC
    <3>4. pinger' \in [Conns -> {"none", "wait", "ping", "done"}] /\ inbox' \subseteq Msgs
      BY <1>5, <2>2, <3>1 DEF HandshakeSucceeds
    <3> QED
      BY <1>5, <2>2, <3>3, <3>4 DEF HandshakeSucceeds
  <2> QED
    BY <2>1, <2>2
<1>6. ASSUME NEW g \in Conns, Pinger(g) PROVE TypeOK'
  <2>1. CASE PingTick(g) \/ PingCancelled(g)
    <3>1. pinger' \in [Conns -> {"none", "wait", "ping", "done"}]
      BY <2>1 DEF PingTick, PingCancelled
    <3>2. UNCHANGED <<fields, queue, wire, reader, inbox, tasks, loop, crashed, fails, keys, hist>>
      BY <2>1 DEF PingTick, PingCancelled
    <3> QED
      BY <3>1, <3>2, <1>r
  <2>2. CASE Ping(g)
    BY <2>2, <1>r DEF Ping
  <2> QED
    BY <1>6, <2>1, <2>2 DEF Pinger
<1>7. ASSUME NEW c \in Channels, Listened(c) PROVE TypeOK'
  <2>1. Head(queue[c]) \in Msgs /\ Tail(queue[c]) \in Seq(Msgs)
    BY <1>7, Queues DEF Listened
  <2>2. queue' \in [Channels -> Seq(Msgs)] /\ inbox' \subseteq Msgs /\ listeners' \in [Channels -> Nat]
    BY <1>7, <2>1 DEF Listened
  <2> QED
    BY <1>7, <1>r, <2>2 DEF Listened
<1>8. CASE Tick
  <2>1. queue' \in [Channels -> Seq(Msgs)]
    BY <1>8, Numbers DEF Tick
  <2> QED
    BY <1>8, <1>r, <2>1, <1>0 DEF Tick
<1>9. ASSUME NEW g \in Channels, OnConnected(g) \/ OnReaderClosed(g) \/ OnErr(g) \/ OnUsernameErr(g)
      PROVE  TypeOK'
  <2>1. CASE OnConnected(g)
    BY <2>1, <1>r, <1>0 DEF OnConnected, Update, Listen
  <2>2. CASE OnReaderClosed(g)
    BY <2>2, <1>r DEF OnReaderClosed, Update
  <2>3. CASE OnErr(g)
    <3>1. connected' \in BOOLEAN
      BY <2>3 DEF OnErr
    <3>2. inbox' \subseteq Msgs /\ after' \in {"retry", "stop"}
      BY <2>3 DEF OnErr, CloseThen, Update
    <3> QED
      BY <2>3, <1>r, <1>f, <3>1, <3>2 DEF OnErr, CloseThen
  <2>4. CASE OnUsernameErr(g)
    <3>1. connected' \in BOOLEAN
      BY <2>4 DEF OnUsernameErr
    <3>2. inbox' \subseteq Msgs /\ after' \in {"retry", "stop"}
      BY <2>4 DEF OnUsernameErr, CloseThen, Update
    <3> QED
      BY <2>4, <1>r, <1>f, <3>1, <3>2 DEF OnUsernameErr, CloseThen
  <2> QED
    BY <1>9, <2>1, <2>2, <2>3, <2>4
<1>10. ASSUME NEW g \in Conns, NEW n \in 1..MaxMsgs, OnMessage(g, n) PROVE TypeOK'
  <2>1. \A i \in 1..n : Chat(g, i) \in Msgs
    BY KindsOfMessages, Numbers, ClientConnAssumption
  <2>2. handled' \subseteq Msgs /\ overtaken' \subseteq Msgs
    BY <1>10, <2>1, ClientConnAssumption DEF OnMessage
  <2>3. listeners' \in [Channels -> Nat] /\ inbox' \subseteq Msgs
    BY <1>10, <1>0 DEF OnMessage, Listen, Update
  <2> QED
    BY <1>10, <1>r, <2>2, <2>3 DEF OnMessage
<1>11. CASE OnQuit \/ OnJoinKey
  BY <1>11, <1>r DEF OnQuit, OnJoinKey, Update
<1>17. CASE OnQuitKey
  BY <1>17, <1>r, <1>f DEF OnQuitKey, CloseThen
<1>18. CASE CloseEnds
  BY <1>18, <1>r DEF CloseEnds
<1>12. CASE OnSendKey
  BY <1>12, <1>r, <1>0 DEF OnSendKey, Listen
<1>13. CASE Interrupted \/ Exit
  BY <1>13, <1>r, <1>f DEF Interrupted, Exit
<1>14. CASE InterruptEnds
  BY <1>14, <1>r, KindsOfMessages DEF InterruptEnds
<1>15. ASSUME NEW g \in Conns, Reader(g) PROVE TypeOK'
  BY <1>15, TypeReader
<1>16. CASE UNCHANGED connVars
  BY <1>16, <1>r DEF connVars
<1> QED
  BY <1>1, <1>2, <1>3, <1>4, <1>5, <1>6, <1>7, <1>8, <1>9, <1>10, <1>11, <1>12, <1>13,
     <1>14, <1>15, <1>16, <1>17, <1>18, Numbers DEF ConnNext, Environment, Connects, Handles

\* Every field and counter of the client, and everything that travels between
\* its goroutines, stays of its type: a reader in ReadMessage has a connection.
THEOREM TypeCorrect == ConnSpec => []TypeOK
<1> QED
  BY TypeInit, TypeStep, PTL DEF ConnSpec

----------------------------------------------------------------------------
(* One attempt at a time: from the timer over the dial and the reader to the *)
(* error that closes the connection, and from there to the timer.            *)

\* wsErr and wsUsernameError end a connection.
Failing(m) == m.k \in {"err", "user"}

\* The reader has not yet passed the error of its connection on.
Delivers == {"deliver", "full", "drain", "retry"}
Reading(g) == \/ reader[g].pc \in {"loop", "read"}
              \/ reader[g].pc \in Delivers /\ reader[g].m.k # "closed"

Joining == dials + shakes + ticks

\* Where the attempt is: x is the reader, the channel or the message, i the
\* place in the channel.
Here(w, x, i) ==
    \/ w = "joining" /\ x = 0 /\ i = 0 /\ Joining > 0
    \/ w = "reading" /\ x \in Conns /\ i = 0 /\ Reading(x)
    \/ w = "queued" /\ x \in Channels /\ i \in 1..Len(queue[x]) /\ Failing(queue[x][i])
    \/ w = "held" /\ x \in inbox /\ i = 0 /\ Failing(x)
    \/ w = "closing" /\ x = 0 /\ i = 0 /\ ui = "closing" /\ after # "quit"

OneAttempt ==
    /\ Joining <= 1
    /\ \A v, w, x, y, i, j : Here(v, x, i) /\ Here(w, y, j) => v = w /\ x = y /\ i = j

\* A new attempt meets no goroutine of the last.
NoneBeside == OneAttempt /\ (Joining > 0 => AllEnded)

\* A goroutine that uses m.conn finds it.
HaveConn ==
    /\ shakes > 0 => conn # 0
    /\ ui = "run" => \A g \in Conns : Reading(g) \/ pinger[g] = "ping" => conn # 0

\* The user has not asked to leave.
Staying == crashed = "no" /\ signal = "none" /\ ui \in {"run", "closing"} /\ after # "quit"

Alive == NoneBeside /\ (Staying => HaveConn)

LEMMA SameReadersAndQueues ==
    ASSUME UNCHANGED <<reader, queue>>
    PROVE  \A w, x, i : w \in {"reading", "queued"} => (Here(w, x, i)' <=> Here(w, x, i))
BY DEF Here, Reading, Failing

\* Nothing new: the attempt is where it was.
LEMMA AttemptStays ==
    ASSUME OneAttempt, Joining' <= 1, \A w, x, i : Here(w, x, i)' => Here(w, x, i)
    PROVE  OneAttempt'
BY DEF OneAttempt

\* It moves.
LEMMA AttemptMoves ==
    ASSUME Joining' <= 1, NEW w0, NEW x0, NEW i0,
           \A w, x, i : Here(w, x, i)' => w = w0 /\ x = x0 /\ i = i0
    PROVE  OneAttempt'
BY DEF OneAttempt

\* A channel loses its first message.
LEMMA AttemptShifts ==
    ASSUME TypeOK, OneAttempt, NEW c \in Channels, queue[c] # <<>>,
           queue' = [queue EXCEPT ![c] = Tail(@)],
           \A w, x, i : Here(w, x, i)' => Here(w, x, i) \/ w = "queued",
           UNCHANGED Joining
    PROVE  OneAttempt'
<1>1. queue[c] \in Seq(Msgs)
  BY DEF TypeOK
<1>2. \A i \in 1..Len(Tail(queue[c])) :
          i \in Nat /\ i + 1 \in 1..Len(queue[c]) /\ Tail(queue[c])[i] = queue[c][i + 1]
  BY <1>1, Tails
<1>4. queue'[c] = Tail(queue[c]) /\ \A d \in Channels \ {c} : queue'[d] = queue[d]
  BY DEF TypeOK
<1>5. ASSUME NEW x, NEW i, Here("queued", x, i)'
      PROVE  Here("queued", x, IF x = c THEN i + 1 ELSE i) /\ i \in Nat
  <2>1. x \in Channels /\ i \in 1..Len(queue'[x]) /\ Failing(queue'[x][i])
    BY <1>5 DEF Here, Failing
  <2>2. CASE x = c
    <3>1. i \in 1..Len(Tail(queue[c])) /\ Failing(Tail(queue[c])[i])
      BY <1>4, <2>1, <2>2
    <3>2. i + 1 \in 1..Len(queue[c]) /\ Failing(queue[c][i + 1])
      BY <1>2, <3>1
    <3>3. i \in Nat
      BY <1>2, <3>1
    <3> QED
      BY <2>2, <3>2, <3>3 DEF Here
  <2>3. CASE x # c
    BY <1>4, <2>1, <2>3 DEF Here
  <2> QED
    BY <2>2, <2>3
<1>6. ASSUME NEW v, NEW w, NEW x, NEW y, NEW i, NEW j, Here(v, x, i)', Here(w, y, j)'
      PROVE  v = w /\ x = y /\ i = j
  <2>1. CASE v = "queued" /\ w = "queued"
    BY <1>5, <1>6, <2>1 DEF OneAttempt
  <2>2. CASE v # "queued" /\ w # "queued"
    BY <1>6, <2>2 DEF OneAttempt
  <2>3. CASE v = "queued" /\ w # "queued"
    BY <1>5, <1>6, <2>3 DEF OneAttempt
  <2>4. CASE v # "queued" /\ w = "queued"
    BY <1>5, <1>6, <2>4 DEF OneAttempt
  <2> QED
    BY <2>1, <2>2, <2>3, <2>4
<1> QED
  BY <1>6 DEF OneAttempt

LEMMA StayingBefore == TypeOK /\ [ConnNext]_connVars /\ Staying' => Staying
<1> SUFFICES ASSUME TypeOK, [ConnNext]_connVars, Staying' PROVE Staying
  OBVIOUS
<1> USE DEF Staying, loop
<1>1. CASE Environment
  BY <1>1 DEF Environment, ServerSends, LineLost, OnQuitKey, OnSendKey, OnJoinKey, Interrupted,
     CloseThen, Running
<1>2. CASE Connects
  BY <1>2 DEF Connects, DialFails, DialSucceeds, HandshakeFails, HandshakeSucceeds, Running
<1>3. CASE Handles
  <2>1. ASSUME NEW g, OnConnected(g) \/ OnReaderClosed(g) \/ OnErr(g) \/ OnUsernameErr(g)
        PROVE  Staying
    BY <2>1 DEF OnConnected, OnReaderClosed, OnErr, OnUsernameErr, CloseThen, Update, Running, TypeOK
  <2>2. ASSUME NEW g, NEW n, OnMessage(g, n) PROVE Staying
    <3>1. UNCHANGED loop /\ UNCHANGED crashed
      BY <2>2, Zenon DEF OnMessage
    <3>2. Running /\ ui = "run"
      BY <2>2, Zenon DEF OnMessage, Update
    <3> QED
      BY <3>1, <3>2 DEF Running
  <2>3. CASE OnQuit
    BY <2>3 DEF OnQuit
  <2>4. CASE CloseEnds
    BY <2>4 DEF CloseEnds, Running
  <2> QED
    BY <1>3, <2>1, <2>2, <2>3, <2>4 DEF Handles
<1>4. CASE Tick \/ InterruptEnds \/ Exit
  BY <1>4 DEF Tick, InterruptEnds, Exit, Running
<1>5. ASSUME NEW g \in Conns, Reader(g) \/ Pinger(g) PROVE Staying
  BY <1>5 DEF Reader, ReadLoop, ReadMessage, ReadError, Deliver, TestLength, Drain, Retry,
     Pinger, PingTick, Ping, PingCancelled, Running
<1>6. ASSUME NEW c \in Channels, Listened(c) PROVE Staying
  BY <1>6 DEF Listened, Running
<1>7. CASE UNCHANGED connVars
  BY <1>7 DEF connVars
<1> QED
  BY <1>1, <1>2, <1>3, <1>4, <1>5, <1>6, <1>7 DEF ConnNext

\* What a reader does, as far as the attempt goes.
LEMMA ReaderSteps ==
    ASSUME TypeOK, NEW g \in Conns, Reader(g)
    PROVE  /\ reader[g].pc \notin {"none", "done"}
           /\ UNCHANGED <<tasks, loop, pinger, inbox, conn, chan>>
           /\ \A h \in Conns \ {g} : reader'[h] = reader[h]
           /\ Reading(g)' => Reading(g)
           /\ \/ UNCHANGED queue
              \/ queue[chan] # <<>> /\ queue' = [queue EXCEPT ![chan] = Tail(@)]
              \/ /\ queue' = [queue EXCEPT ![chan] = Append(@, reader[g].m)]
                 /\ Failing(reader[g].m) => Reading(g) /\ ~Reading(g)'
<1> DEFINE Goal ==
           /\ reader[g].pc \notin {"none", "done"}
           /\ UNCHANGED <<tasks, loop, pinger, inbox, conn, chan>>
           /\ \A h \in Conns \ {g} : reader'[h] = reader[h]
           /\ Reading(g)' => Reading(g)
           /\ \/ UNCHANGED queue
              \/ queue[chan] # <<>> /\ queue' = [queue EXCEPT ![chan] = Tail(@)]
              \/ /\ queue' = [queue EXCEPT ![chan] = Append(@, reader[g].m)]
                 /\ Failing(reader[g].m) => Reading(g) /\ ~Reading(g)'
<1>0. ASSUME NEW pc, NEW m, ReaderTo(g, pc, m)
      PROVE  /\ \A h \in Conns \ {g} : reader'[h] = reader[h]
             /\ reader'[g].pc = pc /\ reader'[g].m = m
             /\ Reading(g)' <=> pc \in {"loop", "read"} \/ (pc \in Delivers /\ m.k # "closed")
  BY <1>0 DEF TypeOK, ReaderTo, At, Reading
<1>t. ASSUME reader[g].pc \in {"deliver", "retry"}, Then(g, reader[g].m)
      PROVE  /\ \A h \in Conns \ {g} : reader'[h] = reader[h]
             /\ Reading(g)' => Reading(g)
             /\ Failing(reader[g].m) => Reading(g) /\ ~Reading(g)'
  <2>1. CASE reader[g].m.k = "chat"
    BY <1>t, <2>1, <1>0 DEF Then, Reading, Failing, Delivers
  <2>2. CASE reader[g].m.k = "closed"
    BY <1>t, <2>2, <1>0 DEF Then, Failing, Delivers
  <2>3. CASE reader[g].m.k \notin {"chat", "closed"}
    <3>1. ReaderTo(g, "deliver", Closed(g)) /\ Closed(g).k = "closed"
      BY <1>t, <2>3 DEF Then, Closed, Msg
    <3> QED
      BY <1>t, <2>3, <3>1, <1>0 DEF Reading, Delivers
  <2> QED
    BY <2>1, <2>2, <2>3
<1> USE DEF tasks, loop, fields
<1>1. CASE ReadLoop(g)
  <2>1. Reading(g) /\ reader[g].pc = "loop"
    BY <1>1 DEF ReadLoop, Reading
  <2>2. UNCHANGED reader \/ ReaderTo(g, "read", Chat(conn, 0))
    BY <1>1 DEF ReadLoop
  <2> QED
    BY <1>1, <2>1, <2>2, <1>0 DEF ReadLoop
<1>2. CASE ReadMessage(g)
  <2>1. Reading(g) /\ \E m : ReaderTo(g, "deliver", m)
    BY <1>2 DEF ReadMessage, Reading
  <2> QED
    BY <1>2, <2>1, <1>0 DEF ReadMessage
<1>3. CASE ReadError(g)
  <2>1. Reading(g) /\ \E m : ReaderTo(g, "deliver", m)
    BY <1>3 DEF ReadError, Reading
  <2> QED
    BY <1>3, <2>1, <1>0 DEF ReadError
<1>4. CASE Deliver(g)
  <2>1. CASE Len(queue[chan]) < Cap
    BY <1>4, <2>1, <1>t DEF Deliver
  <2>2. CASE ~(Len(queue[chan]) < Cap)
    BY <1>4, <2>2, <1>0 DEF Deliver, Reading, Delivers
  <2> QED
    BY <2>1, <2>2
<1>5. CASE TestLength(g)
  BY <1>5, <1>0 DEF TestLength, Reading, Delivers
<1>6. CASE Drain(g)
  BY <1>6, <1>0 DEF Drain, Reading, Delivers
<1>7. CASE Retry(g)
  BY <1>7, <1>t DEF Retry
<1> QED
  BY <1>1, <1>2, <1>3, <1>4, <1>5, <1>6, <1>7 DEF Reader

LEMMA AliveReader ==
    ASSUME TypeOK, NoneBeside, NEW g \in Conns, Reader(g)
    PROVE  NoneBeside' /\ (HaveConn => HaveConn')
<1> USE DEF tasks, loop
<1>1. /\ reader[g].pc \notin {"none", "done"}
      /\ UNCHANGED <<tasks, loop, pinger, inbox, conn, chan>>
      /\ \A h \in Conns \ {g} : reader'[h] = reader[h]
      /\ Reading(g)' => Reading(g)
  BY ReaderSteps
<1>2. Joining = 0 /\ Joining' = 0 /\ shakes' = 0 /\ OneAttempt
  BY <1>1 DEF NoneBeside, AllEnded, Waited, Joining, TypeOK
<1>3. \A h \in Conns : Reading(h)' => Reading(h)
  BY <1>1 DEF Reading
<1>4. (HaveConn => HaveConn') /\ (OneAttempt' => NoneBeside')
  BY <1>1, <1>2, <1>3 DEF HaveConn, NoneBeside
<1>5. \A w, x, i : Here(w, x, i)' => Here(w, x, i) \/ w = "queued"
  BY <1>1, <1>2, <1>3 DEF Here
<1>6. chan \in Channels
  BY Bounds DEF TypeOK, Channels
<1>7. CASE UNCHANGED queue
  <2>1. \A w, x, i : Here(w, x, i)' => Here(w, x, i)
    <3>1. \A x, i : Here("queued", x, i)' => Here("queued", x, i)
      BY <1>7 DEF Here, Failing
    <3> QED
      BY <1>5, <3>1
  <2> QED
    BY <1>2, <1>4, <2>1, AttemptStays
<1>8. CASE queue[chan] # <<>> /\ queue' = [queue EXCEPT ![chan] = Tail(@)]
  BY <1>2, <1>4, <1>5, <1>6, <1>8, AttemptShifts
<1>9. CASE /\ queue' = [queue EXCEPT ![chan] = Append(@, reader[g].m)]
           /\ Failing(reader[g].m) => Reading(g) /\ ~Reading(g)'
  <2> DEFINE n == Len(queue[chan]) + 1
  <2>1. queue[chan] \in Seq(Msgs)
    BY <1>6 DEF TypeOK
  <2>2. /\ queue'[chan] = Append(queue[chan], reader[g].m)
        /\ \A c \in Channels \ {chan} : queue'[c] = queue[c]
    BY <1>6, <1>9 DEF TypeOK
  <2>3. /\ Len(queue'[chan]) = n /\ n \in Nat /\ queue'[chan][n] = reader[g].m
        /\ \A i \in 1..Len(queue[chan]) : queue'[chan][i] = queue[chan][i]
    BY <2>1, <2>2
  <2>4. \A x, i : Here("queued", x, i)' =>
            Here("queued", x, i) \/ (x = chan /\ i = n /\ Failing(reader[g].m))
    <3> SUFFICES ASSUME NEW x, NEW i, Here("queued", x, i)'
                 PROVE  Here("queued", x, i) \/ (x = chan /\ i = n /\ Failing(reader[g].m))
      OBVIOUS
    <3>1. x \in Channels /\ i \in 1..Len(queue'[x]) /\ Failing(queue'[x][i])
      BY DEF Here, Failing
    <3>2. CASE x = chan /\ i = n
      BY <2>3, <3>1, <3>2
    <3>3. CASE x = chan /\ i # n
      BY <2>1, <2>3, <3>1, <3>3 DEF Here
    <3>4. CASE x # chan
      BY <2>2, <3>1, <3>4 DEF Here
    <3> QED
      BY <3>2, <3>3, <3>4
  <2>5. CASE Failing(reader[g].m)
    <3>1. Here("reading", g, 0)
      BY <1>9, <2>5 DEF Here
    <3>2. \A w, x, i : Here(w, x, i) => w = "reading" /\ x = g /\ i = 0
      BY <1>2, <3>1 DEF OneAttempt
    <3>3. ~Here("reading", g, 0)'
      BY <1>9, <2>5 DEF Here
    <3>4. \A w, x, i : Here(w, x, i)' => w = "queued" /\ x = chan /\ i = n
      BY <1>5, <2>4, <3>2, <3>3
    <3> QED
      BY <1>2, <1>4, <3>4, AttemptMoves
  <2>6. CASE ~Failing(reader[g].m)
    BY <1>2, <1>4, <1>5, <2>4, <2>6, AttemptStays
  <2> QED
    BY <2>5, <2>6
<1> QED
  BY <1>7, <1>8, <1>9, ReaderSteps

\* The loop handles what is no error, or the user and the environment act.
LEMMA AliveHandler ==
    ASSUME TypeOK, NoneBeside, \A m \in inbox' \ inbox : ~Failing(m),
           UNCHANGED <<queue, reader, pinger, dials, shakes, ticks>>,
           ui' = "closing" /\ after' # "quit" => ui = "closing" /\ after # "quit"
    PROVE  NoneBeside' /\ (UNCHANGED <<conn, ui>> /\ HaveConn => HaveConn')
<1>1. Joining' = Joining
  BY DEF Joining
<1>2. \A w, x, i : Here(w, x, i)' => Here(w, x, i)
  BY <1>1 DEF Here, Reading, Failing
<1>3. OneAttempt'
  BY <1>1, <1>2, AttemptStays DEF NoneBeside, OneAttempt
<1>4. AllEnded' <=> AllEnded
  BY DEF AllEnded, Waited
<1>5. UNCHANGED <<conn, ui>> /\ HaveConn => HaveConn'
  BY DEF HaveConn, Reading
<1> QED
  BY <1>1, <1>3, <1>4, <1>5 DEF NoneBeside

LEMMA AliveConnects ==
    ASSUME TypeOK, NoneBeside, Connects
    PROVE  NoneBeside' /\ (Staying' /\ HaveConn => HaveConn')
<1> USE DEF fields, wire, threads, tasks, loop
<1>1. /\ Joining = 1 /\ AllEnded /\ \A m \in inbox : ~Failing(m)
      /\ ~(ui = "closing" /\ after # "quit")
  <2>1. Joining > 0
    BY DEF Connects, DialFails, DialSucceeds, HandshakeFails, HandshakeSucceeds, Joining, TypeOK
  <2>2. Here("joining", 0, 0)
    BY <2>1 DEF Here
  <2>3. ~Here("closing", 0, 0) /\ \A m : ~Here("held", m, 0)
    BY <2>2 DEF NoneBeside, OneAttempt
  <2> QED
    BY <2>1, <2>3 DEF NoneBeside, OneAttempt, Here, Joining, TypeOK
<1>2. \A w, x, i : Here(w, x, i) => w = "joining" /\ x = 0 /\ i = 0
  <2>1. Here("joining", 0, 0)
    BY <1>1 DEF Here
  <2> QED
    BY <2>1 DEF NoneBeside, OneAttempt
<1>3. \A g \in Conns : ~Reading(g) /\ pinger[g] # "ping"
  BY <1>1 DEF AllEnded, Waited, Reading, Delivers
<1>4. ASSUME NEW m, Failing(m), inbox' = inbox \cup {m}, Joining' = 0, shakes' = 0,
             UNCHANGED <<queue, reader, pinger, ui, after>>
      PROVE  NoneBeside' /\ HaveConn'
  <2>1. \A w, x, i : Here(w, x, i)' => w = "held" /\ x = m /\ i = 0
    BY <1>1, <1>2, <1>4 DEF Here, Reading, Failing
  <2>2. HaveConn'
    BY <1>3, <1>4 DEF HaveConn, Reading
  <2>3. OneAttempt'
    BY <1>4, <2>1, AttemptMoves
  <2> QED
    BY <1>4, <2>2, <2>3 DEF NoneBeside
<1>5. CASE DialFails
  <2>1. PICK m \in {Err(0), UserErr(0)} : inbox' = inbox \cup {m}
    BY <1>5 DEF DialFails
  <2>2. Failing(m)
    BY DEF Failing, Err, UserErr, Msg
  <2>3. Joining' = 0 /\ shakes' = 0
    BY <1>1, <1>5 DEF DialFails, Joining, TypeOK
  <2> QED
    BY <1>4, <1>5, <2>1, <2>2, <2>3 DEF DialFails
<1>6. CASE HandshakeFails
  <2>1. Failing(Err(0))
    BY DEF Failing, Err, Msg
  <2>2. Joining' = 0 /\ shakes' = 0
    BY <1>1, <1>6 DEF HandshakeFails, Joining, TypeOK
  <2> QED
    BY <1>4, <1>6, <2>1, <2>2 DEF HandshakeFails
<1>7. CASE DialSucceeds
  <2>1. Joining' = Joining /\ conn' # 0
    BY <1>7 DEF DialSucceeds, Joining, TypeOK
  <2>2. \A w, x, i : Here(w, x, i)' => Here(w, x, i)
    BY <1>7, <2>1 DEF DialSucceeds, Here, Reading, Failing
  <2>3. AllEnded' /\ (HaveConn => HaveConn')
    BY <1>1, <1>7, <2>1 DEF DialSucceeds, HaveConn, AllEnded, Waited
  <2>4. OneAttempt'
    BY <1>1, <2>1, <2>2, AttemptStays DEF NoneBeside
  <2> QED
    BY <2>3, <2>4 DEF NoneBeside
<1>8. CASE HandshakeSucceeds
  <2>1. Joining' = 0 /\ shakes' = 0 /\ made \in Conns
    BY <1>1, <1>8, Bounds DEF HandshakeSucceeds, Joining, TypeOK, Conns
  <2>2. CASE conn = 0
    <3>1. UNCHANGED <<reader, queue, inbox, ui, after>> /\ crashed' = "goroutine"
      BY <1>8, <2>2 DEF HandshakeSucceeds
    <3>2. \A w, x, i : Here(w, x, i)' => w = "joining" /\ x = 0 /\ i = 0
      BY <1>2, <2>1, <3>1 DEF Here, Reading, Failing
    <3>3. OneAttempt'
      BY <2>1, <3>2, AttemptMoves
    <3> QED
      BY <2>1, <3>1, <3>3 DEF NoneBeside, Staying
  <2>3. CASE conn # 0
    <3>1. /\ reader' = [reader EXCEPT ![made] = At("loop", Nothing)]
          /\ inbox' = inbox \cup {Connected(made)}
          /\ UNCHANGED <<queue, ui, after, conn>>
      BY <1>8, <2>3 DEF HandshakeSucceeds
    <3>2. ~Failing(Connected(made))
      BY DEF Failing, Connected, Msg
    <3>3. \A g \in Conns : Reading(g)' => g = made
      BY <1>3, <3>1 DEF Reading, TypeOK
    <3>4. \A w, x, i : Here(w, x, i)' => w = "reading" /\ x = made /\ i = 0
      <4>1. \A x, i : ~Here("queued", x, i)'
        BY <1>2, <3>1 DEF Here, Failing
      <4> QED
        BY <1>1, <2>1, <3>1, <3>2, <3>3, <4>1 DEF Here, Failing
    <3>5. HaveConn'
      BY <2>1, <2>3, <3>1 DEF HaveConn
    <3>6. OneAttempt'
      BY <2>1, <3>4, AttemptMoves
    <3> QED
      BY <2>1, <3>5, <3>6 DEF NoneBeside
  <2> QED
    BY <2>2, <2>3
<1> QED
  BY <1>5, <1>6, <1>7, <1>8 DEF Connects

\* A command that listens takes the first message of its channel.
LEMMA AliveListener ==
    ASSUME TypeOK, NoneBeside, NEW c \in Channels, Listened(c)
    PROVE  NoneBeside' /\ (HaveConn => HaveConn')
<1> USE DEF fields, wire, threads, loop
<1>1. /\ queue[c] # <<>> /\ queue' = [queue EXCEPT ![c] = Tail(@)]
      /\ inbox' = inbox \cup {Head(queue[c])}
      /\ UNCHANGED <<conn, reader, pinger, dials, shakes, ticks, ui, after>>
  BY DEF Listened
<1>2. Joining' = Joining /\ OneAttempt
  BY <1>1 DEF Joining, NoneBeside
<1>3. (HaveConn => HaveConn') /\ (OneAttempt' => NoneBeside')
  BY <1>1, <1>2 DEF HaveConn, NoneBeside, AllEnded, Waited, Reading
<1>4. CASE ~Failing(Head(queue[c]))
  <2>1. \A w, x, i : Here(w, x, i)' => Here(w, x, i) \/ w = "queued"
    BY <1>1, <1>2, <1>4 DEF Here, Reading, Failing
  <2> QED
    BY <1>1, <1>2, <1>3, <2>1, AttemptShifts
<1>5. CASE Failing(Head(queue[c]))
  <2>1. Here("queued", c, 1)
    <3>1. queue[c] \in Seq(Msgs)
      BY DEF TypeOK
    <3>2. Head(queue[c]) = queue[c][1] /\ 1 \in 1..Len(queue[c])
      BY <1>1, <3>1
    <3> QED
      BY <1>5, <3>2 DEF Here
  <2>2. \A w, x, i : Here(w, x, i) => w = "queued" /\ x = c /\ i = 1
    BY <1>2, <2>1 DEF OneAttempt
  <2>3. \A x, i : ~Here("queued", x, i)'
    <3> SUFFICES ASSUME NEW x, NEW i, Here("queued", x, i)' PROVE FALSE
      OBVIOUS
    <3>1. x \in Channels /\ i \in 1..Len(queue'[x]) /\ Failing(queue'[x][i])
      BY DEF Here, Failing
    <3>2. CASE x = c
      <4>1. queue[c] \in Seq(Msgs) /\ queue'[c] = Tail(queue[c])
        BY <1>1 DEF TypeOK
      <4>2. i \in 1..Len(Tail(queue[c])) /\ queue'[x][i] = Tail(queue[c])[i]
        BY <3>1, <3>2, <4>1
      <4>3. i \in Nat /\ i + 1 \in 1..Len(queue[c]) /\ queue'[x][i] = queue[c][i + 1]
        BY <1>1, <4>1, <4>2, Tails
      <4>4. Here("queued", c, i + 1) /\ i + 1 # 1
        BY <3>1, <3>2, <4>3 DEF Here
      <4> QED
        BY <2>2, <4>4
    <3>3. CASE x # c
      <4>1. queue'[x] = queue[x]
        BY <1>1, <3>1, <3>3 DEF TypeOK
      <4>2. Here("queued", x, i)
        BY <3>1, <4>1 DEF Here
      <4> QED
        BY <2>2, <3>3, <4>2
    <3> QED
      BY <3>2, <3>3
  <2>4. \A w, x, i : Here(w, x, i)' => w = "held" /\ x = Head(queue[c]) /\ i = 0
    <3> SUFFICES ASSUME NEW w, NEW x, NEW i, Here(w, x, i)'
                 PROVE  w = "held" /\ x = Head(queue[c]) /\ i = 0
      OBVIOUS
    <3>1. w # "queued"
      BY <2>3
    <3>2. Here(w, x, i) \/ (w = "held" /\ x = Head(queue[c]) /\ i = 0)
      BY <1>1, <1>2, <3>1 DEF Here, Reading, Failing
    <3> QED
      BY <2>2, <3>1, <3>2
  <2> QED
    BY <1>2, <1>3, <2>4, AttemptMoves DEF OneAttempt
<1> QED
  BY <1>4, <1>5

\* The loop handles an error and closes the connection.
LEMMA AliveFailure ==
    ASSUME TypeOK, NoneBeside, NEW m, m \in inbox, Failing(m), inbox' = inbox \ {m},
           UNCHANGED <<queue, reader, pinger, dials, shakes, ticks>>, ui = "run", ui' = "closing"
    PROVE  NoneBeside' /\ HaveConn'
<1>1. \A w, x, i : Here(w, x, i) => w = "held" /\ x = m /\ i = 0
  BY DEF Here, NoneBeside, OneAttempt
<1>2. Joining = 0 /\ Joining' = 0 /\ shakes = 0
  <2>1. ~Here("joining", 0, 0)
    BY <1>1
  <2> QED
    BY <2>1 DEF Here, Joining, TypeOK
<1>3. \A w, x, i : Here(w, x, i)' => w = "closing" /\ x = 0 /\ i = 0
  <2>1. \A w, x, i : Here(w, x, i)' => w \notin {"reading", "queued"}
    BY <1>1, SameReadersAndQueues
  <2>2. ASSUME NEW x, x \in inbox', Failing(x) PROVE FALSE
    <3>1. Here("held", x, 0) /\ x # m
      BY <2>2 DEF Here
    <3> QED
      BY <1>1, <3>1
  <2>3. \A w, x, i : Here(w, x, i)' => w \notin {"held", "joining"}
    BY <1>2, <2>2 DEF Here, Failing
  <2> QED
    BY <2>1, <2>3 DEF Here
<1>4. HaveConn'
  BY <1>2 DEF HaveConn
<1>5. OneAttempt'
  BY <1>2, <1>3, AttemptMoves
<1> QED
  BY <1>2, <1>4, <1>5 DEF NoneBeside

\* closeWebSocket returns to the loop.
LEMMA AliveCloseEnds ==
    ASSUME TypeOK, NoneBeside, CloseEnds, after # "quit"
    PROVE  NoneBeside' /\ HaveConn'
<1> USE DEF fields, wire, threads
<1>1. /\ ui = "closing" /\ ui' = "run" /\ AllEnded
      /\ ticks' \in {ticks, ticks + 1}
      /\ UNCHANGED <<queue, inbox, reader, pinger, conn, dials, shakes>>
  BY DEF CloseEnds
<1>2. \A w, x, i : Here(w, x, i) => w = "closing" /\ x = 0 /\ i = 0
  <2>1. Here("closing", 0, 0)
    BY <1>1 DEF Here
  <2> QED
    BY <2>1 DEF NoneBeside, OneAttempt
<1>3. Joining = 0 /\ Joining' <= 1 /\ shakes' = 0
  <2>1. ~Here("joining", 0, 0)
    BY <1>2
  <2> QED
    <3>1. dials = 0 /\ shakes = 0 /\ ticks = 0
      BY <2>1 DEF Here, Joining, TypeOK
    <3>2. dials' = 0 /\ shakes' = 0 /\ (ticks' = 0 \/ ticks' = 1)
      BY <1>1, <3>1
    <3>3. Joining = 0
      BY <3>1 DEF Joining
    <3>4. Joining' = 0 \/ Joining' = 1
      BY <3>2 DEF Joining
    <3> QED
      BY <3>2, <3>3, <3>4
<1>4. \A w, x, i : Here(w, x, i)' => w = "joining" /\ x = 0 /\ i = 0
  <2>1. \A w, x, i : Here(w, x, i)' => w \notin {"reading", "queued"}
    BY <1>1, <1>2, SameReadersAndQueues
  <2>2. ASSUME NEW x, x \in inbox, Failing(x) PROVE FALSE
    <3>1. Here("held", x, 0)
      BY <2>2 DEF Here
    <3> QED
      BY <1>2, <3>1
  <2>3. \A w, x, i : Here(w, x, i)' => w \notin {"held", "closing"}
    BY <1>1, <2>2 DEF Here, Failing
  <2> QED
    BY <2>1, <2>3 DEF Here
<1>5. HaveConn' /\ AllEnded'
  BY <1>1, <1>3 DEF HaveConn, AllEnded, Waited, Reading, Delivers
<1>6. OneAttempt'
  BY <1>3, <1>4, AttemptMoves
<1> QED
  BY <1>5, <1>6 DEF NoneBeside

LEMMA AlivePinger ==
    ASSUME TypeOK, NoneBeside, NEW g \in Conns, Pinger(g)
    PROVE  NoneBeside' /\ (Staying' /\ HaveConn => HaveConn')
<1> USE DEF fields, wire, tasks, loop, Pinger, PingTick, Ping, PingCancelled
<1>1. /\ UNCHANGED <<queue, inbox, reader, conn, dials, shakes, ticks, ui, after>>
      /\ \A h \in Conns \ {g} : pinger'[h] = pinger[h]
      /\ pinger[g] \in {"wait", "ping"}
      /\ Staying' /\ pinger'[g] = "ping" => conn # 0
  BY DEF TypeOK, Staying
<1>2. Joining' = Joining
  BY <1>1 DEF Joining
<1>3. Joining = 0 /\ shakes = 0
  BY <1>1 DEF NoneBeside, AllEnded, Waited, Joining, TypeOK
<1>4. \A w, x, i : Here(w, x, i)' => Here(w, x, i)
  BY <1>1, <1>2 DEF Here, Reading, Failing
<1>5. Staying' /\ HaveConn => HaveConn'
  BY <1>1, <1>3 DEF HaveConn, Reading
<1>6. OneAttempt'
  BY <1>2, <1>3, <1>4, AttemptStays DEF NoneBeside
<1> QED
  BY <1>2, <1>3, <1>5, <1>6 DEF NoneBeside

LEMMA AliveTick ==
    ASSUME TypeOK, NoneBeside, Tick
    PROVE  NoneBeside' /\ (HaveConn => HaveConn')
<1> USE DEF wire, threads, loop
<1>1. Joining' = Joining
  BY DEF Tick, Joining, TypeOK
<1>2. \A x \in Channels : queue'[x] \in {queue[x], <<>>}
  BY DEF Tick, TypeOK
<1>3. \A w, x, i : Here(w, x, i)' => Here(w, x, i)
  <2>1. \A x \in Channels : \A i \in 1..Len(queue'[x]) : queue'[x] = queue[x]
    BY <1>2
  <2> QED
    BY <1>1, <2>1 DEF Tick, Here, Reading, Failing
<1>4. (HaveConn => HaveConn') /\ (AllEnded' <=> AllEnded)
  BY DEF Tick, HaveConn, AllEnded, Waited, Reading
<1>5. OneAttempt'
  BY <1>1, <1>3, AttemptStays DEF NoneBeside, OneAttempt
<1> QED
  BY <1>1, <1>4, <1>5 DEF NoneBeside

LEMMA AliveStep == TypeOK /\ Alive /\ [ConnNext]_connVars => Alive'
<1> SUFFICES ASSUME TypeOK, Alive, [ConnNext]_connVars
             PROVE  NoneBeside' /\ (Staying' /\ Staying /\ HaveConn => HaveConn')
  BY StayingBefore DEF Alive
<1>0. NoneBeside
  BY DEF Alive
<1> USE DEF fields, wire, threads, tasks, loop
<1>1. CASE Environment
  <2>1. /\ UNCHANGED <<queue, reader, pinger, dials, shakes, ticks, inbox>>
        /\ ui' = "closing" /\ after' # "quit" => ui = "closing" /\ after # "quit"
    BY <1>1 DEF Environment, ServerSends, LineLost, OnQuitKey, OnSendKey, OnJoinKey,
       Interrupted, CloseThen
  <2>2. Staying' /\ Staying => UNCHANGED <<conn, ui>>
    BY <1>1 DEF Environment, ServerSends, LineLost, OnQuitKey, OnSendKey, OnJoinKey,
       Interrupted, CloseThen, Staying
  <2> QED
    BY <1>0, <2>1, <2>2, AliveHandler
<1>2. CASE Connects
  BY <1>0, <1>2, AliveConnects
<1>3. CASE Tick
  BY <1>0, <1>3, AliveTick
<1>4. ASSUME NEW g, OnConnected(g) \/ OnReaderClosed(g) PROVE NoneBeside' /\ (HaveConn => HaveConn')
  <2>1. /\ UNCHANGED <<queue, reader, pinger, conn, dials, shakes, ticks, ui, after>>
        /\ inbox' \subseteq inbox
    BY <1>4 DEF OnConnected, OnReaderClosed, Update
  <2> QED
    BY <1>0, <2>1, AliveHandler
<1>5. ASSUME NEW g, NEW n, OnMessage(g, n) PROVE NoneBeside' /\ (HaveConn => HaveConn')
  <2>1. UNCHANGED <<queue, reader, pinger, conn, dials, shakes, ticks, ui, after>>
    BY <1>5, Zenon DEF OnMessage
  <2>2. inbox' = inbox \ {Chat(g, n)}
    BY <1>5, Zenon DEF OnMessage, Update
  <2> QED
    BY <1>0, <2>1, <2>2, AliveHandler
<1>6. ASSUME NEW g, OnErr(g) \/ OnUsernameErr(g) PROVE NoneBeside' /\ HaveConn'
  <2>1. PICK m \in {Err(g), UserErr(g)} : Update(m)
    BY <1>6 DEF OnErr, OnUsernameErr
  <2>2. Failing(m)
    BY DEF Failing, Err, UserErr, Msg
  <2>3. UNCHANGED <<queue, reader, pinger, dials, shakes, ticks>> /\ ui' = "closing"
    BY <1>6 DEF OnErr, OnUsernameErr, CloseThen
  <2> QED
    BY <1>0, <2>1, <2>2, <2>3, AliveFailure DEF Update
<1>7. CASE OnQuit \/ InterruptEnds \/ Exit
  <2>1. /\ UNCHANGED <<queue, reader, pinger, dials, shakes, ticks>>
        /\ ui' = "closing" => UNCHANGED <<ui, after>>
        /\ inbox' \subseteq inbox \cup {Quit}
    BY <1>7 DEF OnQuit, InterruptEnds, Exit, Update
  <2>2. ~Failing(Quit)
    BY DEF Failing, Quit, Msg
  <2>3. ~Staying'
    BY <1>7 DEF OnQuit, InterruptEnds, Exit, Staying
  <2> QED
    BY <1>0, <2>1, <2>2, <2>3, AliveHandler
<1>8. CASE CloseEnds /\ after # "quit"
  BY <1>0, <1>8, AliveCloseEnds
<1>12. CASE CloseEnds /\ after = "quit"
  <2>1. UNCHANGED <<queue, reader, pinger, dials, shakes, ticks, inbox>> /\ ui' = "quit"
    BY <1>12 DEF CloseEnds
  <2> QED
    BY <1>0, <2>1, AliveHandler DEF Staying
<1>9. ASSUME NEW g \in Conns, Reader(g) \/ Pinger(g)
      PROVE  NoneBeside' /\ (Staying' /\ HaveConn => HaveConn')
  BY <1>0, <1>9, AliveReader, AlivePinger
<1>10. ASSUME NEW c \in Channels, Listened(c) PROVE NoneBeside' /\ (HaveConn => HaveConn')
  BY <1>0, <1>10, AliveListener
<1>11. CASE UNCHANGED connVars
  BY <1>0, <1>11, AliveHandler DEF connVars
<1> QED
  BY <1>1, <1>2, <1>3, <1>4, <1>5, <1>6, <1>7, <1>8, <1>9, <1>10, <1>11, <1>12 DEF ConnNext, Handles

\* A goroutine that finds m.conn nil ends the program, and can only find it so
\* while the user leaves or the loop is in closeWebSocket.
LEMMA CrashStep == TypeOK /\ Alive /\ CrashOnlyAtClose /\ [ConnNext]_connVars => CrashOnlyAtClose'
<1> SUFFICES ASSUME TypeOK, Alive, CrashOnlyAtClose, [ConnNext]_connVars, crashed' = "goroutine"
             PROVE  ui' # "run" \/ signal' # "none"
  BY DEF CrashOnlyAtClose
<1>1. UNCHANGED loop /\ (crashed = "goroutine" \/ (Running /\
          (\/ conn = 0 /\ shakes > 0
           \/ \E g \in Conns : conn = 0 /\ (reader[g].pc = "loop" \/ pinger[g] = "ping"))))
  <2> USE DEF Running
  <2>1. CASE Environment
    BY <2>1 DEF Environment, ServerSends, LineLost, OnQuitKey, OnSendKey, OnJoinKey, Interrupted,
       CloseThen
  <2>2. CASE Connects
    BY <2>2 DEF Connects, DialFails, DialSucceeds, HandshakeFails, HandshakeSucceeds
  <2>3. CASE Tick \/ InterruptEnds \/ Exit
    BY <2>3 DEF Tick, InterruptEnds, Exit
  <2>4. ASSUME NEW g, OnConnected(g) \/ OnReaderClosed(g) \/ OnErr(g) \/ OnUsernameErr(g)
        PROVE  FALSE
    BY <2>4 DEF OnConnected, OnReaderClosed, OnErr, OnUsernameErr, CloseThen, Update
  <2>5. ASSUME NEW g, NEW n, OnMessage(g, n) PROVE FALSE
    <3>1. UNCHANGED crashed
      BY <2>5, Zenon DEF OnMessage
    <3>2. Running
      BY <2>5, Zenon DEF OnMessage, Update
    <3> QED
      BY <3>1, <3>2
  <2>6. CASE OnQuit \/ CloseEnds
    BY <2>6 DEF OnQuit, CloseEnds, Update
  <2>7. ASSUME NEW g \in Conns, Reader(g)
        PROVE  UNCHANGED loop /\ Running /\ conn = 0 /\ reader[g].pc = "loop"
    BY <2>7 DEF Reader, ReadLoop, ReadMessage, ReadError, Deliver, TestLength, Drain, Retry
  <2>8. ASSUME NEW g \in Conns, Pinger(g)
        PROVE  UNCHANGED loop /\ Running /\ conn = 0 /\ pinger[g] = "ping"
    BY <2>8 DEF Pinger, PingTick, Ping, PingCancelled
  <2>9. ASSUME NEW c \in Channels, Listened(c) PROVE FALSE
    BY <2>9 DEF Listened
  <2>10. CASE UNCHANGED connVars
    BY <2>10 DEF connVars
  <2> QED
    BY <2>1, <2>2, <2>3, <2>4, <2>5, <2>6, <2>7, <2>8, <2>9, <2>10 DEF ConnNext, Handles
<1>2. CASE crashed = "goroutine"
  BY <1>1, <1>2 DEF CrashOnlyAtClose, loop
<1>3. CASE crashed # "goroutine"
  <2> SUFFICES ASSUME ui = "run", signal = "none" PROVE FALSE
    BY <1>1 DEF loop
  <2>1. Staying
    BY <1>1, <1>3 DEF Staying, Running, TypeOK
  <2> QED
    BY <1>1, <1>3, <2>1 DEF Alive, HaveConn, Reading
<1> QED
  BY <1>2, <1>3

LEMMA AliveInit == Init => Alive /\ CrashOnlyAtClose
<1> SUFFICES ASSUME Init PROVE NoneBeside /\ HaveConn /\ CrashOnlyAtClose
  BY DEF Alive
<1>1. Joining = 1 /\ AllEnded /\ \A g \in Conns : ~Reading(g)
  BY DEF Init, Joining, AllEnded, Waited, Reading, Delivers, Idle, At
<1>2. \A w, x, i : Here(w, x, i) => w = "joining" /\ x = 0 /\ i = 0
  BY <1>1 DEF Init, Here
<1> QED
  BY <1>1, <1>2 DEF Init, NoneBeside, OneAttempt, HaveConn, CrashOnlyAtClose

\* Unless the user leaves, the client's goroutines never call a method of a nil
\* connection but while the loop closes it: they do not share the fields of two
\* connections, since one attempt to connect is under way at a time.
THEOREM CrashesAtCloseOnly == ConnSpec => []CrashOnlyAtClose
<1>1. Init => TypeOK /\ Alive /\ CrashOnlyAtClose
  BY TypeInit, AliveInit
<1>2. /\ TypeOK /\ Alive /\ CrashOnlyAtClose /\ [ConnNext]_connVars
      => TypeOK' /\ Alive' /\ CrashOnlyAtClose'
  BY TypeStep, AliveStep, CrashStep
<1> QED
  BY <1>1, <1>2, PTL DEF ConnSpec

----------------------------------------------------------------------------
(* How many commands listen or hold a message: one, and one for every key    *)
(* whose handler listened.                                                   *)

\* The commands that listen, and the results they hand to the loop.
Waiting == UNION {{c} \X (1..listeners[c]) : c \in Channels}
Held == inbox \ {Quit}

\* closeWebSocket will start the timer.
Retrying == IF ui = "closing" /\ after = "retry" THEN 1 ELSE 0

Tokens ==
    /\ IsFiniteSet(Waiting) /\ IsFiniteSet(Held)
    /\ Cardinality(Waiting) + Cardinality(Held) + Joining + Retrying <= 1 + keys

LEMMA OneMoreOrLess ==
    ASSUME NEW S, IsFiniteSet(S), NEW x
    PROVE  /\ IsFiniteSet(S \cup {x}) /\ IsFiniteSet(S \ {x}) /\ Cardinality(S) \in Nat
           /\ Cardinality(S \cup {x}) \in Nat /\ Cardinality(S \cup {x}) <= Cardinality(S) + 1
           /\ x \notin S => Cardinality(S \cup {x}) = Cardinality(S) + 1
           /\ Cardinality(S \ {x}) \in Nat
           /\ x \in S => Cardinality(S \ {x}) = Cardinality(S) - 1
<1>1. Cardinality(S) \in Nat
  BY FS_CardinalityType
<1>2. /\ IsFiniteSet(S \cup {x})
      /\ Cardinality(S \cup {x}) = IF x \in S THEN Cardinality(S) ELSE Cardinality(S) + 1
  BY FS_AddElement
<1>3. /\ IsFiniteSet(S \ {x})
      /\ Cardinality(S \ {x}) = IF x \in S THEN Cardinality(S) - 1 ELSE Cardinality(S)
  BY FS_RemoveElement
<1>4. Cardinality(S \ {x}) \in Nat
  BY <1>3, FS_CardinalityType
<1> QED
  BY <1>1, <1>2, <1>3, <1>4

\* A command more listens.
LEMMA ListenerMore ==
    ASSUME TypeOK, IsFiniteSet(Waiting), Listen
    PROVE  /\ IsFiniteSet(Waiting)' /\ Cardinality(Waiting)' = Cardinality(Waiting) + 1
           /\ Cardinality(Waiting) \in Nat
<1> DEFINE x == <<chan, listeners[chan] + 1>>
<1>1. chan \in Channels /\ listeners[chan] \in Nat
  BY Bounds DEF TypeOK, Channels
<1>2. /\ listeners'[chan] = listeners[chan] + 1
      /\ \A c \in Channels \ {chan} : listeners'[c] = listeners[c]
  BY <1>1 DEF Listen, TypeOK
<1>3. 1..(listeners[chan] + 1) = 1..listeners[chan] \cup {listeners[chan] + 1}
  BY <1>1
<1>4. \A c, k : <<c, k>> \in Waiting <=> c \in Channels /\ k \in 1..listeners[c]
  BY DEF Waiting
<1>5. \A c, k : <<c, k>> \in Waiting' <=> c \in Channels /\ k \in 1..listeners'[c]
  BY DEF Waiting
<1>6. \A w \in Waiting \cup Waiting' : \E d, k : w = <<d, k>>
  BY DEF Waiting
<1>7. x \notin Waiting
  BY <1>1, <1>4
<1>8. Waiting' = Waiting \cup {x}
  <2>1. ASSUME NEW c, NEW k
        PROVE  <<c, k>> \in Waiting' <=> <<c, k>> \in Waiting \cup {x}
    <3>1. CASE c = chan
      BY <1>1, <1>2, <1>3, <1>4, <1>5, <3>1
    <3>2. CASE c # chan
      BY <1>2, <1>4, <1>5, <3>2
    <3> QED
      BY <3>1, <3>2
  <2>2. ASSUME NEW w PROVE w \in Waiting' <=> w \in Waiting \cup {x}
    <3>1. CASE \E d, k : w = <<d, k>>
      BY <2>1, <3>1
    <3>2. CASE ~\E d, k : w = <<d, k>>
      BY <1>6, <3>2
    <3> QED
      BY <3>1, <3>2
  <2> QED
    BY <2>2
<1> QED
  BY <1>7, <1>8, OneMoreOrLess

LEMMA ListenerLess ==
    ASSUME TypeOK, IsFiniteSet(Waiting), NEW c \in Channels, listeners[c] > 0,
           listeners' = [listeners EXCEPT ![c] = @ - 1]
    PROVE  /\ IsFiniteSet(Waiting)' /\ Cardinality(Waiting)' = Cardinality(Waiting) - 1
           /\ Cardinality(Waiting) \in Nat /\ Cardinality(Waiting)' \in Nat
<1> DEFINE x == <<c, listeners[c]>>
<1>1. listeners[c] \in Nat
  BY DEF TypeOK
<1>2. /\ listeners'[c] = listeners[c] - 1
      /\ \A d \in Channels \ {c} : listeners'[d] = listeners[d]
  BY DEF TypeOK
<1>3. 1..(listeners[c] - 1) = 1..listeners[c] \ {listeners[c]} /\ listeners[c] \in 1..listeners[c]
  BY <1>1
<1>4. \A d, k : <<d, k>> \in Waiting <=> d \in Channels /\ k \in 1..listeners[d]
  BY DEF Waiting
<1>5. \A d, k : <<d, k>> \in Waiting' <=> d \in Channels /\ k \in 1..listeners'[d]
  BY DEF Waiting
<1>6. \A w \in Waiting \cup Waiting' : \E d, k : w = <<d, k>>
  BY DEF Waiting
<1>7. x \in Waiting
  BY <1>3, <1>4
<1>8. Waiting' = Waiting \ {x}
  <2>1. ASSUME NEW d, NEW k
        PROVE  <<d, k>> \in Waiting' <=> <<d, k>> \in Waiting \ {x}
    <3>1. CASE d = c
      BY <1>1, <1>2, <1>3, <1>4, <1>5, <3>1
    <3>2. CASE d # c
      BY <1>2, <1>4, <1>5, <3>2
    <3> QED
      BY <3>1, <3>2
  <2>2. ASSUME NEW w PROVE w \in Waiting' <=> w \in Waiting \ {x}
    <3>1. CASE \E d, k : w = <<d, k>>
      BY <2>1, <3>1
    <3>2. CASE ~\E d, k : w = <<d, k>>
      BY <1>6, <3>2
    <3> QED
      BY <3>1, <3>2
  <2> QED
    BY <2>2
<1> QED
  BY <1>7, <1>8, OneMoreOrLess

\* The loop takes a result, or a command hands one to it.
LEMMA HeldLess ==
    ASSUME IsFiniteSet(Held), NEW m \in inbox, m # Quit, inbox' = inbox \ {m}
    PROVE  /\ IsFiniteSet(Held)' /\ Cardinality(Held)' = Cardinality(Held) - 1
           /\ Cardinality(Held) \in Nat /\ Cardinality(Held)' \in Nat
<1>1. m \in Held /\ Held' = Held \ {m}
  BY DEF Held
<1> QED
  BY <1>1, OneMoreOrLess

LEMMA HeldMore ==
    ASSUME IsFiniteSet(Held), NEW m, inbox' = inbox \cup {m}
    PROVE  /\ IsFiniteSet(Held)' /\ Cardinality(Held)' <= Cardinality(Held) + 1
           /\ Cardinality(Held) \in Nat /\ Cardinality(Held)' \in Nat
<1>1. CASE m = Quit
  <2>1. Held' = Held
    BY <1>1 DEF Held
  <2>2. Cardinality(Held) \in Nat
    BY FS_CardinalityType
  <2> QED
    BY <2>1, <2>2
<1>2. CASE m # Quit
  <2>1. Held' = Held \cup {m}
    BY <1>2 DEF Held
  <2> QED
    BY <2>1, OneMoreOrLess
<1> QED
  BY <1>1, <1>2

\* What is no message of the quit command.
LEMMA NoQuits ==
    /\ \A g, n : Chat(g, n) # Quit
    /\ \A g : Quit \notin {Err(g), UserErr(g), Closed(g), Connected(g)}
BY DEF Chat, Err, UserErr, Closed, Connected, Quit, Msg

LEMMA Counters ==
    ASSUME TypeOK, TypeOK'
    PROVE  {Joining, Joining', Retrying, Retrying', keys, keys'} \subseteq Nat
<1>1. dials \in Nat /\ shakes \in Nat /\ ticks \in Nat /\ keys \in Nat
  BY DEF TypeOK
<1>2. dials' \in Nat /\ shakes' \in Nat /\ ticks' \in Nat /\ keys' \in Nat
  BY DEF TypeOK
<1>3. \A a, b, c \in Nat : a + b + c \in Nat
  OBVIOUS
<1>5. Joining \in Nat
  BY <1>1 DEF Joining
<1>6. Joining' \in Nat
  BY <1>2, <1>3, Zenon DEF Joining
<1>4. Retrying \in Nat /\ Retrying' \in Nat
  BY DEF Retrying
<1> QED
  BY <1>1, <1>2, <1>4, <1>5, <1>6

\* A step that neither listens nor hands a result on, but may move the attempt.
LEMMA TokensCalm ==
    ASSUME TypeOK, TypeOK', Tokens, UNCHANGED listeners, UNCHANGED Held,
           Joining' + Retrying' <= Joining + Retrying, keys' >= keys
    PROVE  Tokens'
<1>1. Waiting' = Waiting
  BY DEF Waiting
<1>2. Cardinality(Waiting) \in Nat /\ Cardinality(Held) \in Nat
  BY FS_CardinalityType DEF Tokens
<1>3. {Joining, Joining', Retrying, Retrying', keys, keys'} \subseteq Nat
  BY Counters
<1> QED
  BY <1>1, <1>2, <1>3 DEF Tokens

\* The loop takes a result, and may close the connection.
LEMMA TokensTaken ==
    ASSUME TypeOK, TypeOK', Tokens, UNCHANGED <<listeners, Joining, keys>>,
           NEW m \in inbox, m # Quit, inbox' = inbox \ {m}, Retrying = 0
    PROVE  Tokens'
<1>1. Waiting' = Waiting
  BY DEF Waiting
<1>2. /\ IsFiniteSet(Held)' /\ Cardinality(Held)' = Cardinality(Held) - 1
      /\ Cardinality(Held) \in Nat /\ Cardinality(Held)' \in Nat
  BY HeldLess DEF Tokens
<1>3. Cardinality(Waiting) \in Nat
  BY FS_CardinalityType DEF Tokens
<1>4. {Joining, Retrying', keys} \subseteq Nat /\ Retrying' <= 1
  BY Counters DEF Retrying
<1> QED
  BY <1>1, <1>2, <1>3, <1>4 DEF Tokens

\* It takes one and listens again.
LEMMA TokensTurn ==
    ASSUME TypeOK, TypeOK', Tokens, Listen, UNCHANGED <<Joining, Retrying, keys>>,
           NEW m \in inbox, m # Quit, inbox' = inbox \ {m}
    PROVE  Tokens' /\ Cardinality(Held)' <= keys
<1>1. /\ IsFiniteSet(Waiting)' /\ Cardinality(Waiting)' = Cardinality(Waiting) + 1
      /\ Cardinality(Waiting) \in Nat
  BY ListenerMore DEF Tokens
<1>2. /\ IsFiniteSet(Held)' /\ Cardinality(Held)' = Cardinality(Held) - 1
      /\ Cardinality(Held) \in Nat /\ Cardinality(Held)' \in Nat
  BY HeldLess DEF Tokens
<1>3. {Joining, Retrying, keys} \subseteq Nat
  BY Counters
<1> QED
  BY <1>1, <1>2, <1>3 DEF Tokens

\* A command hands a result on.
LEMMA TokensHanded ==
    ASSUME TypeOK, TypeOK', Tokens, UNCHANGED <<listeners, Retrying, keys>>,
           Joining' + 1 = Joining, NEW m, inbox' = inbox \cup {m}
    PROVE  Tokens'
<1>1. Waiting' = Waiting
  BY DEF Waiting
<1>2. /\ IsFiniteSet(Held)' /\ Cardinality(Held)' <= Cardinality(Held) + 1
      /\ Cardinality(Held) \in Nat /\ Cardinality(Held)' \in Nat
  BY HeldMore DEF Tokens
<1>3. Cardinality(Waiting) \in Nat
  BY FS_CardinalityType DEF Tokens
<1>4. {Joining, Joining', Retrying, keys} \subseteq Nat
  BY Counters
<1> QED
  BY <1>1, <1>2, <1>3, <1>4 DEF Tokens

LEMMA TokensInit == Init => Tokens
<1> SUFFICES ASSUME Init PROVE Tokens
  OBVIOUS
<1>1. Waiting = {} /\ Held = {}
  BY DEF Init, Waiting, Held
<1>2. Joining = 1 /\ Retrying = 0 /\ keys = 0
  BY DEF Init, Joining, Retrying
<1> QED
  BY <1>1, <1>2, FS_EmptySet DEF Tokens

LEMMA TokensStep == TypeOK /\ TypeOK' /\ Tokens /\ [ConnNext]_connVars => Tokens'
<1> SUFFICES ASSUME TypeOK, TypeOK', Tokens, [ConnNext]_connVars PROVE Tokens'
  OBVIOUS
<1> USE DEF tasks, loop
<1>c. ASSUME UNCHANGED <<listeners, inbox>>, Joining' + Retrying' <= Joining + Retrying, keys' >= keys
      PROVE  Tokens'
  BY <1>c, TokensCalm DEF Held
<1>n. {Joining, Joining', Retrying, Retrying', keys} \subseteq Nat
  BY Counters
<1>s. UNCHANGED <<tasks, loop>> => UNCHANGED <<Joining, Retrying>>
  BY DEF Joining, Retrying
<1>1. CASE \E g \in Conns : ServerSends(g) \/ LineLost(g)
  BY <1>1, <1>c, <1>n, <1>s DEF ServerSends, LineLost, TypeOK
<1>2. CASE OnQuitKey
  <2>1. Retrying' = 0 /\ Joining' = Joining
    BY <1>2 DEF OnQuitKey, CloseThen, Retrying, Joining
  <2>2. UNCHANGED <<listeners, inbox, keys>>
    BY <1>2 DEF OnQuitKey, CloseThen
  <2> QED
    BY <2>1, <2>2, <1>c, <1>n
<1>3. CASE OnSendKey
  <2>1. /\ Listen /\ UNCHANGED inbox /\ keys' = keys + 1
        /\ UNCHANGED <<Joining, Retrying>>
    BY <1>3 DEF OnSendKey, Joining, Retrying
  <2>2. /\ IsFiniteSet(Waiting)' /\ Cardinality(Waiting)' = Cardinality(Waiting) + 1
        /\ Cardinality(Waiting) \in Nat
    BY <2>1, ListenerMore DEF Tokens
  <2>3. Held' = Held /\ Cardinality(Held) \in Nat
    BY <2>1, FS_CardinalityType DEF Held, Tokens
  <2> QED
    BY <2>1, <2>2, <2>3, <1>n DEF Tokens
<1>4. CASE OnJoinKey \/ Interrupted
  <2>1. UNCHANGED <<listeners, inbox, keys, Joining, Retrying>>
    BY <1>4 DEF OnJoinKey, Interrupted, Joining, Retrying
  <2> QED
    BY <2>1, <1>c, <1>n
<1>5. CASE DialFails
  <2>1. Joining' + 1 = Joining /\ UNCHANGED <<listeners, Retrying, keys>>
    BY <1>5 DEF DialFails, Joining, Retrying, TypeOK
  <2>2. PICK m : inbox' = inbox \cup {m}
    BY <1>5 DEF DialFails
  <2> QED
    BY <2>1, <2>2, TokensHanded
<1>6. CASE DialSucceeds
  <2>1. Joining' = Joining /\ UNCHANGED <<listeners, Retrying, keys, inbox>>
    BY <1>6 DEF DialSucceeds, Joining, Retrying, TypeOK
  <2> QED
    BY <2>1, <1>c, <1>n
<1>7. CASE HandshakeFails
  <2>1. Joining' + 1 = Joining /\ UNCHANGED <<listeners, Retrying, keys>>
    BY <1>7 DEF HandshakeFails, Joining, Retrying, TypeOK
  <2> QED
    BY <1>7, <2>1, TokensHanded DEF HandshakeFails
<1>8. CASE HandshakeSucceeds
  <2>1. Joining' + 1 = Joining /\ UNCHANGED <<listeners, Retrying, keys>>
    BY <1>8 DEF HandshakeSucceeds, Joining, Retrying, TypeOK
  <2>2. CASE conn = 0
    <3>1. UNCHANGED inbox
      BY <1>8, <2>2 DEF HandshakeSucceeds
    <3> QED
      BY <2>1, <3>1, <1>c, <1>n
  <2>3. CASE conn # 0
    BY <1>8, <2>1, <2>3, TokensHanded DEF HandshakeSucceeds
  <2> QED
    BY <2>2, <2>3
<1>9. CASE Tick
  <2>1. Joining' = Joining /\ UNCHANGED <<listeners, Retrying, keys, inbox>>
    BY <1>9 DEF Tick, Joining, Retrying, TypeOK
  <2> QED
    BY <2>1, <1>c, <1>n
<1>10. ASSUME NEW g, OnConnected(g) PROVE Tokens'
  <2>1. /\ Connected(g) \in inbox /\ inbox' = inbox \ {Connected(g)} /\ Listen
        /\ UNCHANGED <<Joining, Retrying, keys>>
    BY <1>10 DEF OnConnected, Update, Joining, Retrying
  <2> QED
    BY <2>1, NoQuits, TokensTurn
<1>11. ASSUME NEW g, NEW n, OnMessage(g, n) PROVE Tokens'
  <2>1. /\ Chat(g, n) \in inbox /\ inbox' = inbox \ {Chat(g, n)} /\ Listen
        /\ UNCHANGED <<dials, shakes, ticks, loop, keys>>
    BY <1>11, Zenon DEF OnMessage, Update
  <2>2. UNCHANGED <<Joining, Retrying, keys>>
    BY <2>1 DEF Joining, Retrying
  <2> QED
    BY <2>1, <2>2, NoQuits, TokensTurn
<1>12. ASSUME NEW g, OnReaderClosed(g) \/ OnErr(g) \/ OnUsernameErr(g) PROVE Tokens'
  <2>1. PICK m \in {Closed(g), Err(g), UserErr(g)} : Update(m)
    BY <1>12 DEF OnReaderClosed, OnErr, OnUsernameErr
  <2>2. UNCHANGED <<listeners, Joining, keys>> /\ Retrying = 0
    BY <1>12, <2>1 DEF OnReaderClosed, OnErr, OnUsernameErr, CloseThen, Joining, Update, Retrying
  <2>3. m # Quit /\ m \in inbox /\ inbox' = inbox \ {m}
    BY <2>1, NoQuits DEF Update
  <2> QED
    BY <2>2, <2>3, TokensTaken
<1>13. CASE OnQuit \/ InterruptEnds
  <2>1. Held' = Held
    BY <1>13 DEF OnQuit, InterruptEnds, Update, Held
  <2>2. UNCHANGED <<listeners, Joining, keys>>
    BY <1>13 DEF OnQuit, InterruptEnds, Joining
  <2>3. Retrying' <= Retrying
    BY <1>13 DEF OnQuit, InterruptEnds, Retrying, Update
  <2> QED
    BY <2>1, <2>2, <2>3, <1>n, TokensCalm
<1>14. CASE CloseEnds
  <2>1. UNCHANGED <<listeners, inbox, keys>> /\ Joining' + Retrying' <= Joining + Retrying
    BY <1>14 DEF CloseEnds, Joining, Retrying, TypeOK
  <2> QED
    BY <2>1, <1>c, <1>n
<1>15. CASE Exit
  <2>1. UNCHANGED <<listeners, inbox, keys, Joining>> /\ Retrying' <= Retrying
    BY <1>15 DEF Exit, Joining, Retrying
  <2> QED
    BY <2>1, <1>c, <1>n
<1>16. ASSUME NEW g \in Conns, Reader(g) PROVE Tokens'
  <2>1. UNCHANGED <<tasks, loop, inbox>>
    BY <1>16, ReaderSteps
  <2>2. UNCHANGED keys
    BY <1>16 DEF Reader, ReadLoop, ReadMessage, ReadError, Deliver, TestLength, Drain, Retry
  <2> QED
    BY <2>1, <2>2, <1>c, <1>n, <1>s
<1>17. ASSUME NEW g \in Conns, Pinger(g) PROVE Tokens'
  <2>1. UNCHANGED <<tasks, loop, inbox, keys>>
    BY <1>17 DEF Pinger, PingTick, Ping, PingCancelled
  <2> QED
    BY <2>1, <1>c, <1>n, <1>s
<1>18. ASSUME NEW c \in Channels, Listened(c) PROVE Tokens'
  <2>1. /\ UNCHANGED <<Joining, Retrying, keys>> /\ inbox' = inbox \cup {Head(queue[c])}
        /\ listeners[c] > 0 /\ listeners' = [listeners EXCEPT ![c] = @ - 1]
    BY <1>18 DEF Listened, Joining, Retrying
  <2>2. /\ IsFiniteSet(Waiting)' /\ Cardinality(Waiting)' = Cardinality(Waiting) - 1
        /\ Cardinality(Waiting) \in Nat /\ Cardinality(Waiting)' \in Nat
    BY <2>1, ListenerLess DEF Tokens
  <2>3. /\ IsFiniteSet(Held)' /\ Cardinality(Held)' <= Cardinality(Held) + 1
        /\ Cardinality(Held) \in Nat /\ Cardinality(Held)' \in Nat
    BY <2>1, HeldMore DEF Tokens
  <2> QED
    BY <2>1, <2>2, <2>3, <1>n DEF Tokens
<1>19. CASE UNCHANGED connVars
  BY <1>19, <1>c, <1>n, <1>s DEF connVars
<1> QED
  BY <1>1, <1>2, <1>3, <1>4, <1>5, <1>6, <1>7, <1>8, <1>9, <1>10, <1>11, <1>12, <1>13, <1>14,
     <1>15, <1>16, <1>17, <1>18, <1>19 DEF ConnNext, Environment, Connects, Handles


----------------------------------------------------------------------------
(* The messages of a connection stay in their order on the way from the      *)
(* network over the reader and the channel to the commands.                  *)

\* One reader at most, of the last connection, and the channel is its own.
Lone ==
    /\ conn \in {0, made} /\ (shakes > 0 => chan = made)
    /\ \A g \in Conns : reader[g].pc \notin {"none", "done"} => g = made /\ chan = made
    /\ queue[0] = <<>>

\* How many messages have been read, and how many delivered or dropped.
Taken(g) == sent[g] - Len(net[g])
Carries(g) == reader[g].pc \in Delivers /\ reader[g].m.k = "chat"
Upto(g) == IF Carries(g) THEN Taken(g) - 1 ELSE Taken(g)

\* The network and the reader: messages come one after the other.
Fed(g) ==
    /\ Len(net[g]) <= sent[g] /\ \A p \in 1..Len(net[g]) : net[g][p] = Taken(g) + p
    /\ reader[g].pc = "read" => reader[g].m.conn = g
    /\ Carries(g) => reader[g].m = Chat(g, Taken(g)) /\ Taken(g) > 0

\* A channel holds messages of its connection only, in their order.
Lined(q, g, n) ==
    /\ \A p \in 1..Len(q) : q[p].k = "chat" => q[p].conn = g /\ q[p].n <= n
    /\ \A p, r \in 1..Len(q) :
           p < r /\ q[p].k = "chat" /\ q[r].k = "chat" => q[p].n < q[r].n
Holds(q, m) == \E p \in 1..Len(q) : q[p] = m

\* What the commands have taken out of the channel, or the reader has dropped.
Past == inbox \cup handled \cup dropped

\* Nothing is lost on the way, and no command has a message while an earlier
\* one is still in the channel.
InOrder(g) ==
    /\ Lined(queue[g], g, Upto(g))
    /\ \A i \in 1..Upto(g) : Chat(g, i) \in Past \/ Holds(queue[g], Chat(g, i))
    /\ \A n \in Nat : Chat(g, n) \in inbox => \A i \in 1..(n - 1) : Chat(g, i) \in Past

Ordered == Lone /\ \A g \in Conns : Fed(g) /\ InOrder(g)

LEMMA ChatFields == \A g, n : Chat(g, n).k = "chat" /\ Chat(g, n).conn = g /\ Chat(g, n).n = n
BY DEF Chat, Msg

LEMMA ChatsDiffer == \A g, h, n, i : Chat(g, n) = Chat(h, i) => g = h /\ n = i
<1> SUFFICES ASSUME NEW g, NEW h, NEW n, NEW i, Chat(g, n) = Chat(h, i) PROVE g = h /\ n = i
  OBVIOUS
<1>1. Chat(g, n).conn = g /\ Chat(g, n).n = n /\ Chat(h, i).conn = h /\ Chat(h, i).n = i
  BY ChatFields
<1> QED
  BY <1>1

LEMMA OthersAreNoChats ==
    \A g : {Err(g).k, UserErr(g).k, Closed(g).k, Connected(g).k, Quit.k, Nothing.k} \cap {"chat"} = {}
BY DEF Err, UserErr, Closed, Connected, Quit, Nothing, Msg

LEMMA InAQueue ==
    ASSUME NEW q \in Seq(Msgs)
    PROVE  \A p \in 1..Len(q) : q[p] \in Msgs /\ q[p].n \in Nat
<1>1. \A p \in 1..Len(q) : q[p] \in Msgs
  OBVIOUS
<1>2. \A m \in Msgs : m.n \in Nat
  BY DEF Msgs
<1> QED
  BY <1>1, <1>2

LEMMA LinedMore ==
    ASSUME NEW q \in Seq(Msgs), NEW g, NEW n \in Nat, NEW k \in Nat, n <= k, Lined(q, g, n)
    PROVE  Lined(q, g, k)
<1>1. \A p \in 1..Len(q) : q[p].n \in Nat
  BY InAQueue
<1> QED
  BY <1>1 DEF Lined

LEMMA Appends ==
    ASSUME NEW q \in Seq(Msgs), NEW m
    PROVE  /\ Len(Append(q, m)) = Len(q) + 1 /\ Append(q, m)[Len(q) + 1] = m
           /\ \A p \in 1..Len(q) : Append(q, m)[p] = q[p]
           /\ \A p \in 1..(Len(q) + 1) : p \in 1..Len(q) \/ p = Len(q) + 1
OBVIOUS

LEMMA LinedAppend ==
    ASSUME NEW q \in Seq(Msgs), NEW g, NEW n \in Nat, Lined(q, g, n)
    PROVE  /\ Lined(Append(q, Chat(g, n + 1)), g, n + 1)
           /\ \A m \in Msgs : m.k # "chat" => Lined(Append(q, m), g, n)
<1>0. \A p \in 1..Len(q) : q[p].n \in Nat
  BY InAQueue
<1>1. Lined(Append(q, Chat(g, n + 1)), g, n + 1)
  <2> DEFINE m == Chat(g, n + 1)
             s == Append(q, m)
  <2>1. m.k = "chat" /\ m.conn = g /\ m.n = n + 1
    BY ChatFields
  <2>2. /\ Len(s) = Len(q) + 1 /\ s[Len(q) + 1] = m /\ \A p \in 1..Len(q) : s[p] = q[p]
        /\ \A p \in 1..(Len(q) + 1) : p \in 1..Len(q) \/ p = Len(q) + 1
    BY Appends
  <2> HIDE DEF m, s
  <2>3. \A p \in 1..Len(s) : s[p].k = "chat" => s[p].conn = g /\ s[p].n <= n + 1
    BY <1>0, <2>1, <2>2 DEF Lined
  <2>4. ASSUME NEW p \in 1..Len(s), NEW r \in 1..Len(s), p < r, s[p].k = "chat", s[r].k = "chat"
        PROVE  s[p].n < s[r].n
    <3>1. p \in 1..Len(q) /\ s[p] = q[p] /\ q[p].n <= n /\ q[p].n \in Nat
      BY <1>0, <2>2, <2>4 DEF Lined
    <3>2. CASE r \in 1..Len(q)
      BY <2>2, <2>4, <3>1, <3>2 DEF Lined
    <3>3. CASE r = Len(q) + 1
      BY <2>1, <2>2, <3>1, <3>3
    <3> QED
      BY <2>2, <3>2, <3>3
  <2> QED
    BY <2>3, <2>4 DEF Lined, s, m
<1>2. ASSUME NEW m \in Msgs, m.k # "chat" PROVE Lined(Append(q, m), g, n)
  <2> DEFINE s == Append(q, m)
  <2>1. /\ Len(s) = Len(q) + 1 /\ s[Len(q) + 1] = m /\ \A p \in 1..Len(q) : s[p] = q[p]
        /\ \A p \in 1..(Len(q) + 1) : p \in 1..Len(q) \/ p = Len(q) + 1
    BY Appends
  <2> HIDE DEF s
  <2>2. \A p \in 1..Len(s) : s[p].k = "chat" => p \in 1..Len(q) /\ s[p] = q[p]
    BY <1>2, <2>1
  <2>3. Lined(s, g, n)
    BY <2>2 DEF Lined
  <2> QED
    BY <2>3 DEF s
<1> QED
  BY <1>1, <1>2

LEMMA HoldsAppend ==
    ASSUME NEW q \in Seq(Msgs), NEW m, NEW x, Holds(q, x) \/ x = m
    PROVE  Holds(Append(q, m), x)
<1>1. /\ Len(Append(q, m)) = Len(q) + 1 /\ Append(q, m)[Len(q) + 1] = m /\ Len(q) \in Nat
      /\ \A p \in 1..Len(q) : Append(q, m)[p] = q[p]
  BY Appends
<1>2. CASE x = m
  BY <1>1, <1>2 DEF Holds
<1>3. CASE Holds(q, x)
  BY <1>1, <1>3 DEF Holds
<1> QED
  BY <1>2, <1>3

LEMMA LinedTail ==
    ASSUME NEW q \in Seq(Msgs), q # <<>>, NEW g, NEW n \in Nat, Lined(q, g, n)
    PROVE  /\ Lined(Tail(q), g, n)
           /\ \A x : Holds(q, x) => x = Head(q) \/ Holds(Tail(q), x)
           /\ \A i, k \in Nat : Head(q) = Chat(g, k) /\ i < k => ~Holds(q, Chat(g, i))
           /\ \A h, k : Head(q) = Chat(h, k) => h = g /\ k <= n
<1>1. /\ Len(Tail(q)) = Len(q) - 1 /\ Len(q) \in Nat
      /\ \A i \in 1..Len(Tail(q)) : i \in Nat /\ i + 1 \in 1..Len(q) /\ Tail(q)[i] = q[i + 1]
  BY Tails
<1>2. Head(q) = q[1] /\ 1 \in 1..Len(q)
  OBVIOUS
<1>3. Lined(Tail(q), g, n)
  <2>1. ASSUME NEW p \in 1..Len(Tail(q)), NEW r \in 1..Len(Tail(q)), p < r,
               Tail(q)[p].k = "chat", Tail(q)[r].k = "chat"
        PROVE  Tail(q)[p].n < Tail(q)[r].n
    <3>1. p + 1 \in 1..Len(q) /\ r + 1 \in 1..Len(q) /\ p + 1 < r + 1
      BY <1>1, <2>1
    <3>2. Tail(q)[p] = q[p + 1] /\ Tail(q)[r] = q[r + 1]
      BY <1>1
    <3> QED
      BY <2>1, <3>1, <3>2 DEF Lined
  <2>2. \A p \in 1..Len(Tail(q)) : Tail(q)[p].k = "chat" => Tail(q)[p].conn = g /\ Tail(q)[p].n <= n
    BY <1>1 DEF Lined
  <2> QED
    BY <2>1, <2>2 DEF Lined
<1>4. ASSUME NEW x, Holds(q, x) PROVE x = Head(q) \/ Holds(Tail(q), x)
  <2>1. PICK p \in 1..Len(q) : q[p] = x
    BY <1>4 DEF Holds
  <2>2. CASE p = 1
    BY <1>2, <2>1, <2>2
  <2>3. CASE p # 1
    <3>1. p - 1 \in 1..Len(Tail(q)) /\ (p - 1) + 1 = p
      BY <1>1, <2>3
    <3> QED
      BY <1>1, <2>1, <3>1 DEF Holds
  <2> QED
    BY <2>2, <2>3
<1>5. ASSUME NEW i \in Nat, NEW k \in Nat, Head(q) = Chat(g, k), i < k, Holds(q, Chat(g, i)) PROVE FALSE
  <2>1. PICK p \in 1..Len(q) : q[p] = Chat(g, i)
    BY <1>5 DEF Holds
  <2>2. q[p].k = "chat" /\ q[p].n = i /\ q[1].k = "chat" /\ q[1].n = k
    BY <1>2, <1>5, <2>1, ChatFields
  <2>3. p # 1
    BY <1>5, <2>2
  <2>4. 1 < p
    BY <1>1, <2>3
  <2>5. q[1].n < q[p].n
    BY <1>2, <2>2, <2>4 DEF Lined
  <2> QED
    BY <1>5, <2>2, <2>5
<1>6. ASSUME NEW h, NEW k, Head(q) = Chat(h, k) PROVE h = g /\ k <= n
  <2>1. q[1].k = "chat" /\ q[1].conn = h /\ q[1].n = k
    BY <1>2, <1>6, ChatFields
  <2> QED
    BY <1>2, <2>1 DEF Lined
<1> QED
  BY <1>3, <1>4, <1>5, <1>6

LEMMA UptoIsANumber ==
    ASSUME TypeOK, NEW g \in Conns, Fed(g)
    PROVE  Taken(g) \in Nat /\ Upto(g) \in Nat /\ sent[g] \in Nat /\ Len(net[g]) \in Nat
<1>1. sent[g] \in Nat /\ net[g] \in Seq(Nat)
  BY DEF TypeOK
<1>2. Len(net[g]) \in Nat
  BY <1>1
<1>3. Taken(g) \in Nat
  BY <1>1, <1>2 DEF Taken, Fed
<1> QED
  BY <1>1, <1>2, <1>3 DEF Upto, Fed

\* The steps of messages: none is delivered or taken,
LEMMA OrderStays ==
    ASSUME NEW g, InOrder(g), Upto(g)' = Upto(g), queue'[g] = queue[g],
           Past \subseteq Past', \A n \in Nat : Chat(g, n) \in inbox' => Chat(g, n) \in inbox
    PROVE  InOrder(g)'
BY DEF InOrder

\* one is delivered,
LEMMA OrderDelivers ==
    ASSUME TypeOK, NEW g \in Conns, InOrder(g), Upto(g) \in Nat, Upto(g)' = Upto(g) + 1,
           queue'[g] = Append(queue[g], Chat(g, Upto(g) + 1)),
           UNCHANGED <<inbox, handled, dropped>>
    PROVE  InOrder(g)'
<1>1. queue[g] \in Seq(Msgs)
  BY Numbers DEF TypeOK
<1>2. Lined(queue'[g], g, Upto(g)')
  BY <1>1, LinedAppend DEF InOrder
<1>3. ASSUME NEW i \in 1..(Upto(g) + 1)
      PROVE  Chat(g, i) \in Past \/ Holds(queue'[g], Chat(g, i))
  <2>1. i \in 1..Upto(g) \/ i = Upto(g) + 1
    OBVIOUS
  <2> QED
    BY <1>1, <2>1, HoldsAppend DEF InOrder
<1>4. Past' = Past
  BY DEF Past
<1> QED
  BY <1>2, <1>3, <1>4 DEF InOrder

\* one is dropped,
LEMMA OrderDrops ==
    ASSUME TypeOK, NEW g \in Conns, InOrder(g), Upto(g) \in Nat, Upto(g)' = Upto(g) + 1,
           queue'[g] = queue[g], Past \subseteq Past', Chat(g, Upto(g) + 1) \in Past',
           UNCHANGED inbox
    PROVE  InOrder(g)'
<1>1. queue[g] \in Seq(Msgs)
  BY Numbers DEF TypeOK
<1>2. Lined(queue'[g], g, Upto(g)')
  BY <1>1, LinedMore DEF InOrder
<1>3. ASSUME NEW i \in 1..(Upto(g) + 1)
      PROVE  Chat(g, i) \in Past' \/ Holds(queue'[g], Chat(g, i))
  <2>1. i \in 1..Upto(g) \/ i = Upto(g) + 1
    OBVIOUS
  <2> QED
    BY <2>1 DEF InOrder
<1> QED
  BY <1>2, <1>3 DEF InOrder

\* something else is delivered,
LEMMA OrderOther ==
    ASSUME TypeOK, NEW g \in Conns, InOrder(g), Upto(g) \in Nat, Upto(g)' = Upto(g),
           NEW m \in Msgs, m.k # "chat", queue'[g] = Append(queue[g], m),
           UNCHANGED <<inbox, handled, dropped>>
    PROVE  InOrder(g)'
<1>1. queue[g] \in Seq(Msgs)
  BY Numbers DEF TypeOK
<1>2. Lined(queue'[g], g, Upto(g)')
  BY <1>1, LinedAppend DEF InOrder
<1>3. \A x : Holds(queue[g], x) => Holds(queue'[g], x)
  BY <1>1, HoldsAppend
<1>4. Past' = Past
  BY DEF Past
<1> QED
  BY <1>2, <1>3, <1>4 DEF InOrder

\* the first of the channel is taken out.
LEMMA OrderShifts ==
    ASSUME TypeOK, NEW g \in Conns, InOrder(g), Upto(g) \in Nat, Upto(g)' = Upto(g),
           queue[g] # <<>>, queue'[g] = Tail(queue[g]),
           Past \cup {Head(queue[g])} \subseteq Past',
           \A n \in Nat : Chat(g, n) \in inbox' => Chat(g, n) \in inbox \/ Chat(g, n) = Head(queue[g])
    PROVE  InOrder(g)'
<1>1. queue[g] \in Seq(Msgs) /\ Lined(queue[g], g, Upto(g))
  BY Numbers DEF TypeOK, InOrder
<1>2. /\ Lined(queue'[g], g, Upto(g)')
      /\ \A x : Holds(queue[g], x) => x = Head(queue[g]) \/ Holds(queue'[g], x)
      /\ \A i, k \in Nat : Head(queue[g]) = Chat(g, k) /\ i < k => ~Holds(queue[g], Chat(g, i))
      /\ \A k : Head(queue[g]) = Chat(g, k) => k <= Upto(g)
  BY <1>1, LinedTail
<1>3. \A i \in 1..Upto(g)' : Chat(g, i) \in Past' \/ Holds(queue'[g], Chat(g, i))
  BY <1>2 DEF InOrder
<1>4. ASSUME NEW n \in Nat, Chat(g, n) \in inbox', NEW i \in 1..(n - 1)
      PROVE  Chat(g, i) \in Past'
  <2>1. CASE Chat(g, n) \in inbox
    BY <1>4, <2>1 DEF InOrder
  <2>2. CASE Chat(g, n) = Head(queue[g])
    <3>1. n <= Upto(g) /\ i < n /\ i \in Nat
      BY <1>2, <2>2
    <3>2. i \in 1..Upto(g)
      BY <3>1
    <3>3. ~Holds(queue[g], Chat(g, i))
      BY <1>2, <2>2, <3>1
    <3> QED
      BY <3>2, <3>3 DEF InOrder
  <2> QED
    BY <1>4, <2>1, <2>2
<1> QED
  BY <1>2, <1>3, <1>4 DEF InOrder

LEMMA FedStays ==
    ASSUME NEW g, Fed(g), net'[g] = net[g], sent'[g] = sent[g], reader'[g] = reader[g]
    PROVE  Fed(g)' /\ Upto(g)' = Upto(g)
BY DEF Fed, Taken, Carries, Upto

LEMMA LoneStep == TypeOK /\ NoneBeside /\ Lone /\ [ConnNext]_connVars => Lone'
<1> SUFFICES ASSUME TypeOK, NoneBeside, Lone, [ConnNext]_connVars PROVE Lone'
  OBVIOUS
<1> USE DEF fields, wire, threads, tasks, loop
<1>q. 0 \in Channels /\ queue[0] = <<>>
  BY Numbers DEF Lone
<1>s. ASSUME UNCHANGED <<made, chan, reader, queue>>, conn' = conn \/ conn' = 0,
             shakes' > 0 => shakes > 0
      PROVE  Lone'
  BY <1>s DEF Lone
<1>e. Joining > 0 => \A g \in Conns : reader[g].pc \in {"none", "done"}
  BY DEF NoneBeside, AllEnded, Waited
<1>1. CASE Environment
  BY <1>1, <1>s DEF Environment, ServerSends, LineLost, OnQuitKey, OnSendKey, OnJoinKey,
     Interrupted, CloseThen, CloseFields
<1>2. CASE DialFails \/ HandshakeFails
  BY <1>2, <1>s DEF DialFails, HandshakeFails, TypeOK
<1>3. CASE DialSucceeds
  <2>1. Joining > 0
    BY <1>3 DEF DialSucceeds, Joining, TypeOK
  <2>2. conn' = made' /\ chan' = made' /\ UNCHANGED <<reader, queue>>
    BY <1>3 DEF DialSucceeds
  <2> QED
    BY <2>1, <2>2, <1>e, <1>q DEF Lone
<1>4. CASE HandshakeSucceeds
  <2>1. CASE conn = 0
    BY <1>4, <2>1, <1>s DEF HandshakeSucceeds, TypeOK
  <2>2. CASE conn # 0
    <3>1. /\ reader' = [reader EXCEPT ![made] = At("loop", Nothing)] /\ chan = made
          /\ UNCHANGED <<conn, made, chan, queue>> /\ (shakes' > 0 => shakes > 0)
      BY <1>4, <2>2 DEF HandshakeSucceeds, Lone, TypeOK
    <3>2. \A h \in Conns \ {made} : reader'[h] = reader[h]
      BY <3>1 DEF TypeOK
    <3> QED
      BY <3>1, <3>2 DEF Lone
  <2> QED
    BY <2>1, <2>2
<1>5. CASE Tick
  <2>1. Joining > 0 /\ shakes = 0
    BY <1>5 DEF Tick, Joining, NoneBeside, OneAttempt, TypeOK
  <2>2. UNCHANGED <<conn, made, reader, shakes>> /\ queue'[0] = <<>>
    BY <1>5, <1>q DEF Tick, TypeOK
  <2> QED
    BY <2>1, <2>2, <1>e DEF Lone
<1>6. ASSUME NEW g, OnConnected(g) \/ OnReaderClosed(g) \/ OnErr(g) \/ OnUsernameErr(g) PROVE Lone'
  BY <1>6, <1>s DEF OnConnected, OnReaderClosed, OnErr, OnUsernameErr, CloseThen, CloseFields
<1>7. ASSUME NEW g, NEW n, OnMessage(g, n) PROVE Lone'
  <2>1. UNCHANGED <<made, chan, reader, queue, conn, shakes>>
    BY <1>7, Zenon DEF OnMessage
  <2> QED
    BY <2>1, <1>s
<1>8. CASE OnQuit \/ CloseEnds \/ InterruptEnds \/ Exit
  BY <1>8, <1>s DEF OnQuit, CloseEnds, InterruptEnds, Exit
<1>9. ASSUME NEW g \in Conns, Reader(g) PROVE Lone'
  <2>1. /\ UNCHANGED <<conn, chan, shakes>> /\ \A h \in Conns \ {g} : reader'[h] = reader[h]
        /\ reader[g].pc \notin {"none", "done"}
        /\ \/ UNCHANGED queue
           \/ queue' = [queue EXCEPT ![chan] = Tail(@)]
           \/ queue' = [queue EXCEPT ![chan] = Append(@, reader[g].m)]
    BY <1>9, ReaderSteps
  <2>2. UNCHANGED made
    BY <1>9 DEF Reader, ReadLoop, ReadMessage, ReadError, Deliver, TestLength, Drain, Retry
  <2>3. g = made /\ chan = made /\ chan # 0
    BY <2>1 DEF Lone, Conns
  <2>4. queue'[0] = queue[0]
    BY <2>1, <2>3, <1>q DEF TypeOK
  <2> QED
    BY <2>1, <2>2, <2>3, <2>4 DEF Lone
<1>10. ASSUME NEW g \in Conns, Pinger(g) PROVE Lone'
  BY <1>10, <1>s DEF Pinger, PingTick, Ping, PingCancelled
<1>11. ASSUME NEW c \in Channels, Listened(c) PROVE Lone'
  <2>1. queue'[0] = queue[0]
    BY <1>11, <1>q DEF Listened, TypeOK
  <2> QED
    BY <1>11, <2>1 DEF Listened, Lone
<1>12. CASE UNCHANGED connVars
  BY <1>12, <1>s DEF connVars
<1> QED
  BY <1>1, <1>2, <1>3, <1>4, <1>5, <1>6, <1>7, <1>8, <1>9, <1>10, <1>11, <1>12
  DEF ConnNext, Handles, Connects

\* What the reader of a connection does to its own messages.
LEMMA OrderReader ==
    ASSUME TypeOK, Ordered, NEW g \in Conns, Reader(g)
    PROVE  Fed(g)' /\ InOrder(g)'
<1> USE DEF fields, wire, tasks, loop, hist
<1>0. /\ Fed(g) /\ InOrder(g) /\ g = made /\ chan = g /\ conn \in {0, g} /\ g \in Nat /\ chan \in Channels
      /\ reader[g].m \in Msgs
  <2>1. reader[g].pc \notin {"none", "done"}
    BY ReaderSteps
  <2> QED
    BY <2>1, Numbers DEF Ordered, Lone, TypeOK
<1>n. Taken(g) \in Nat /\ Upto(g) \in Nat /\ sent[g] \in Nat /\ Len(net[g]) \in Nat
  BY <1>0, UptoIsANumber
<1>q. queue[g] \in Seq(Msgs)
  BY Numbers DEF TypeOK
<1>r. ASSUME NEW pc, NEW m, ReaderTo(g, pc, m) PROVE reader'[g].pc = pc /\ reader'[g].m = m
  BY <1>r DEF TypeOK, ReaderTo, At
\* The network is left alone.
<1>f. ASSUME UNCHANGED <<net, sent>>, NEW pc, NEW m, ReaderTo(g, pc, m),
             pc = "read" => m.conn = g, pc \in Delivers => m = reader[g].m \/ m.k # "chat",
             pc \in Delivers /\ m.k = "chat" => Carries(g)
      PROVE  /\ Fed(g)' /\ Taken(g)' = Taken(g)
             /\ Carries(g)' <=> pc \in Delivers /\ m.k = "chat"
  <2>1. reader'[g].pc = pc /\ reader'[g].m = m
    BY <1>f, <1>r
  <2>2. Taken(g)' = Taken(g)
    BY <1>f DEF Taken
  <2> QED
    BY <1>0, <1>f, <2>1, <2>2 DEF Fed, Carries
<1>t. ASSUME UNCHANGED <<net, sent>>, reader[g].pc \in Delivers, Then(g, reader[g].m)
      PROVE  /\ Fed(g)' /\ ~Carries(g)'
             /\ Carries(g) => Upto(g)' = Upto(g) + 1 /\ reader[g].m = Chat(g, Upto(g) + 1)
             /\ ~Carries(g) => Upto(g)' = Upto(g) /\ reader[g].m.k # "chat"
  <2>1. \E pc, m : ReaderTo(g, pc, m) /\ pc # "read" /\ ~(pc \in Delivers /\ m.k = "chat")
    <3>1. CASE reader[g].m.k \in {"chat", "closed"}
      BY <1>t, <3>1 DEF Then, Delivers
    <3>2. CASE reader[g].m.k \notin {"chat", "closed"}
      <4>1. ReaderTo(g, "deliver", Closed(g))
        BY <1>t, <3>2 DEF Then
      <4>2. Closed(g).k # "chat"
        BY OthersAreNoChats
      <4> QED
        BY <4>1, <4>2
    <3> QED
      BY <3>1, <3>2
  <2>2. Fed(g)' /\ ~Carries(g)' /\ Taken(g)' = Taken(g)
    BY <1>t, <2>1, <1>f
  <2>3. Carries(g) <=> reader[g].m.k = "chat"
    BY <1>t DEF Carries
  <2> QED
    BY <1>0, <1>n, <2>2, <2>3 DEF Upto, Fed
<1>1. CASE ReadLoop(g)
  <2>1. CASE conn = 0
    BY <1>0, <1>1, <2>1, FedStays, OrderStays DEF ReadLoop, Past
  <2>2. CASE conn # 0
    <3>1. ReaderTo(g, "read", Chat(g, 0)) /\ ~Carries(g) /\ UNCHANGED <<net, sent, queue, inbox, hist>>
      BY <1>0, <1>1, <2>2 DEF ReadLoop, Carries, Delivers
    <3>2. Chat(g, 0).conn = g /\ "read" \notin Delivers
      BY ChatFields DEF Delivers
    <3>3. Fed(g)' /\ Upto(g)' = Upto(g)
      BY <3>1, <3>2, <1>f DEF Upto
    <3> QED
      BY <1>0, <3>1, <3>3, OrderStays DEF Past
  <2> QED
    BY <2>1, <2>2
<1>2. CASE ReadMessage(g)
  <2>1. /\ net[g] # <<>> /\ net' = [net EXCEPT ![g] = Tail(@)] /\ reader[g].pc = "read"
        /\ ReaderTo(g, "deliver", Chat(g, Head(net[g])))
        /\ UNCHANGED <<sent, queue, inbox, hist>>
    BY <1>0, <1>2 DEF ReadMessage, Fed
  <2>2. /\ net[g] \in Seq(Nat) /\ net'[g] = Tail(net[g])
    BY <2>1 DEF TypeOK
  <2>3. /\ Len(net'[g]) = Len(net[g]) - 1 /\ Head(net[g]) = net[g][1] /\ 1 \in 1..Len(net[g])
        /\ \A i \in 1..Len(net'[g]) : i \in Nat /\ i + 1 \in 1..Len(net[g]) /\ net'[g][i] = net[g][i + 1]
    <3>1. /\ Len(Tail(net[g])) = Len(net[g]) - 1
          /\ \A i \in 1..Len(Tail(net[g])) :
                 i \in Nat /\ i + 1 \in 1..Len(net[g]) /\ Tail(net[g])[i] = net[g][i + 1]
      BY <2>1, <2>2, Tails
    <3>2. Head(net[g]) = net[g][1] /\ 1 \in 1..Len(net[g])
      BY <2>1, <2>2
    <3> QED
      BY <2>2, <3>1, <3>2
  <2>4. Taken(g)' = Taken(g) + 1 /\ Head(net[g]) = Taken(g) + 1 /\ Len(net'[g]) <= sent'[g]
    BY <1>0, <1>n, <2>1, <2>3 DEF Taken, Fed
  <2>5. \A p \in 1..Len(net'[g]) : net'[g][p] = Taken(g)' + p
    <3> SUFFICES ASSUME NEW p \in 1..Len(net'[g]) PROVE net'[g][p] = Taken(g)' + p
      OBVIOUS
    <3>1. p \in Nat /\ p + 1 \in 1..Len(net[g]) /\ net'[g][p] = net[g][p + 1]
      BY <2>3
    <3>2. net[g][p + 1] = Taken(g) + (p + 1)
      BY <1>0, <3>1 DEF Fed
    <3> QED
      BY <1>n, <2>4, <3>1, <3>2
  <2>6. reader'[g].pc = "deliver" /\ reader'[g].m = Chat(g, Taken(g)')
    BY <2>1, <2>4, <1>r
  <2>7. Carries(g)' /\ ~Carries(g)
    BY <2>1, <2>6, ChatFields DEF Carries, Delivers
  <2>8. Fed(g)'
    BY <1>n, <2>4, <2>5, <2>6 DEF Fed
  <2>9. Upto(g)' = Upto(g)
    BY <1>n, <2>4, <2>7 DEF Upto
  <2> QED
    BY <1>0, <2>1, <2>8, <2>9, OrderStays DEF Past
<1>3. CASE ReadError(g)
  <2>1. PICK m \in {Err(g), UserErr(g), Closed(g)} : ReaderTo(g, "deliver", m)
    BY <1>3 DEF ReadError
  <2>2. UNCHANGED <<net, sent, queue, inbox, hist>> /\ ~Carries(g) /\ m.k # "chat"
    BY <1>3, OthersAreNoChats DEF ReadError, Carries, Delivers
  <2>3. Fed(g)' /\ Upto(g)' = Upto(g)
    BY <2>1, <2>2, <1>f DEF Upto
  <2> QED
    BY <1>0, <2>2, <2>3, OrderStays DEF Past
<1>4. CASE Deliver(g)
  <2>1. CASE Len(queue[chan]) < Cap
    <3>1. /\ queue'[g] = Append(queue[g], reader[g].m) /\ Then(g, reader[g].m)
          /\ UNCHANGED <<net, sent, inbox, hist>> /\ reader[g].pc \in Delivers
      BY <1>0, <1>4, <2>1 DEF Deliver, TypeOK, Delivers
    <3>2. CASE Carries(g)
      BY <1>0, <1>n, <1>t, <3>1, <3>2, OrderDelivers
    <3>3. CASE ~Carries(g)
      BY <1>0, <1>n, <1>t, <3>1, <3>3, OrderOther
    <3> QED
      BY <3>2, <3>3
  <2>2. CASE ~(Len(queue[chan]) < Cap)
    <3>1. ReaderTo(g, "full", reader[g].m) /\ UNCHANGED <<net, sent, queue, inbox, hist>>
      BY <1>4, <2>2 DEF Deliver
    <3>2. reader[g].pc \in Delivers /\ "full" \in Delivers
      BY <1>4 DEF Deliver, Delivers
    <3>3. Fed(g)' /\ Upto(g)' = Upto(g)
      BY <3>1, <3>2, <1>f DEF Upto, Carries
    <3> QED
      BY <1>0, <3>1, <3>3, OrderStays DEF Past
  <2> QED
    BY <2>1, <2>2
<1>5. CASE TestLength(g)
  <2>1. PICK pc \in {"drain", "retry"} : ReaderTo(g, pc, reader[g].m)
    BY <1>5 DEF TestLength
  <2>2. UNCHANGED <<net, sent, queue, inbox, hist>> /\ reader[g].pc \in Delivers /\ pc \in Delivers
    BY <1>5 DEF TestLength, Delivers
  <2>3. Fed(g)' /\ Upto(g)' = Upto(g)
    BY <2>1, <2>2, <1>f DEF Upto, Carries
  <2> QED
    BY <1>0, <2>2, <2>3, OrderStays DEF Past
<1>6. CASE Drain(g)
  <2>1. /\ ReaderTo(g, "retry", reader[g].m) /\ UNCHANGED <<net, sent, inbox, handled>>
        /\ queue[g] # <<>> /\ queue'[g] = Tail(queue[g]) /\ dropped' = dropped \cup {Head(queue[g])}
    BY <1>0, <1>6 DEF Drain, TypeOK
  <2>2. reader[g].pc \in Delivers /\ "retry" \in Delivers
    BY <1>6 DEF Drain, Delivers
  <2>3. Fed(g)' /\ Upto(g)' = Upto(g)
    BY <2>1, <2>2, <1>f DEF Upto, Carries
  <2> QED
    BY <1>0, <1>n, <2>1, <2>3, OrderShifts DEF Past
<1>7. CASE Retry(g)
  <2>0. /\ Then(g, reader[g].m) /\ UNCHANGED <<net, sent, inbox, handled>> /\ reader[g].pc \in Delivers
    BY <1>7 DEF Retry, Delivers
  <2>1. CASE Len(queue[chan]) < Cap
    <3>1. queue'[g] = Append(queue[g], reader[g].m) /\ UNCHANGED dropped
      BY <1>0, <1>7, <2>1 DEF Retry, TypeOK
    <3>2. CASE Carries(g)
      BY <1>0, <1>n, <1>t, <2>0, <3>1, <3>2, OrderDelivers
    <3>3. CASE ~Carries(g)
      BY <1>0, <1>n, <1>t, <2>0, <3>1, <3>3, OrderOther
    <3> QED
      BY <3>2, <3>3
  <2>2. CASE ~(Len(queue[chan]) < Cap)
    <3>1. dropped' = dropped \cup {reader[g].m} /\ UNCHANGED queue
      BY <1>7, <2>2 DEF Retry
    <3>2. Past' = Past \cup {reader[g].m}
      BY <2>0, <3>1 DEF Past
    <3>3. CASE Carries(g)
      BY <1>0, <1>n, <1>t, <2>0, <3>1, <3>2, <3>3, OrderDrops
    <3>4. CASE ~Carries(g)
      BY <1>0, <1>t, <2>0, <3>1, <3>2, <3>4, OrderStays
    <3> QED
      BY <3>3, <3>4
  <2> QED
    BY <2>1, <2>2
<1> QED
  BY <1>1, <1>2, <1>3, <1>4, <1>5, <1>6, <1>7 DEF Reader

LEMMA OrderInit == Init => Ordered
<1> SUFFICES ASSUME Init PROVE Ordered
  OBVIOUS
<1>1. \A g \in Conns : ~Carries(g) /\ reader[g].pc = "none" /\ net[g] = <<>> /\ sent[g] = 0
  BY DEF Init, Carries, Idle, At, Delivers
<1>2. \A c \in Channels : queue[c] = <<>>
  BY DEF Init
<1>3. Lone
  BY <1>1, <1>2, Numbers DEF Lone, Init
<1>4. ASSUME NEW g \in Conns PROVE Fed(g) /\ InOrder(g)
  <2>1. Taken(g) = 0 /\ Upto(g) = 0
    BY <1>1 DEF Taken, Upto
  <2>2. queue[g] = <<>> /\ inbox = {}
    BY <1>2, Numbers DEF Init
  <2>3. Lined(queue[g], g, 0)
    BY <2>2 DEF Lined
  <2>4. InOrder(g)
    BY <2>1, <2>2, <2>3 DEF InOrder
  <2> QED
    BY <1>1, <2>1, <2>4 DEF Fed
<1> QED
  BY <1>3, <1>4 DEF Ordered

LEMMA OrderStep == TypeOK /\ NoneBeside /\ Ordered /\ [ConnNext]_connVars => Ordered'
<1> SUFFICES ASSUME TypeOK, NoneBeside, Ordered, [ConnNext]_connVars, NEW g \in Conns
             PROVE  Fed(g)' /\ InOrder(g)'
  BY LoneStep DEF Ordered
<1> USE DEF fields, wire, threads, tasks, loop, hist
<1>0. Fed(g) /\ InOrder(g) /\ Lone /\ g \in Channels /\ g # 0 /\ g \in Nat
  BY Numbers DEF Ordered, Conns
<1>n. Upto(g) \in Nat
  BY <1>0, UptoIsANumber
<1>s. ASSUME UNCHANGED <<net, sent, reader, dropped, handled>>, queue'[g] = queue[g],
             inbox \subseteq inbox', \A m \in inbox' \ inbox : m.k # "chat"
      PROVE  Fed(g)' /\ InOrder(g)'
  BY <1>0, <1>s, FedStays, OrderStays, ChatFields DEF Past
<1>i. ASSUME UNCHANGED <<net, sent, reader, dropped, handled, queue>>,
             NEW m, m.k # "chat", inbox' = inbox \ {m}
      PROVE  Fed(g)' /\ InOrder(g)'
  <2>1. Fed(g)' /\ Upto(g)' = Upto(g)
    BY <1>0, <1>i, FedStays
  <2>2. \A n : Chat(g, n) \in Past => Chat(g, n) \in Past'
    BY <1>i, ChatFields DEF Past
  <2> QED
    BY <1>0, <1>i, <2>1, <2>2 DEF InOrder
<1>1. ASSUME NEW h \in Conns, ServerSends(h) PROVE Fed(g)' /\ InOrder(g)'
  <2>1. UNCHANGED <<reader, queue, inbox, hist>>
    BY <1>1 DEF ServerSends
  <2>2. CASE h = g
    <3>1. net[g] \in Seq(Nat) /\ sent[g] \in Nat
      BY DEF TypeOK
    <3>2. sent'[g] = sent[g] + 1 /\ net'[g] = Append(net[g], sent[g] + 1)
      BY <1>1, <2>2 DEF ServerSends, TypeOK
    <3>3. /\ Len(net'[g]) = Len(net[g]) + 1 /\ net'[g][Len(net[g]) + 1] = sent[g] + 1 /\ Len(net[g]) \in Nat
          /\ \A p \in 1..Len(net[g]) : net'[g][p] = net[g][p]
          /\ \A p \in 1..(Len(net[g]) + 1) : p \in 1..Len(net[g]) \/ p = Len(net[g]) + 1
      BY <3>1, <3>2
    <3>4. Taken(g)' = Taken(g)
      BY <3>1, <3>2, <3>3 DEF Taken
    <3>5. Len(net'[g]) <= sent'[g]
      BY <1>0, <3>1, <3>2, <3>3 DEF Fed
    <3>6. ASSUME NEW p \in 1..Len(net'[g]) PROVE net'[g][p] = Taken(g) + p
      <4>1. p \in 1..Len(net[g]) \/ p = Len(net[g]) + 1
        BY <3>3
      <4>2. \A i \in 1..Len(net[g]) : net[g][i] = Taken(g) + i
        BY <1>0 DEF Fed
      <4>3. Taken(g) + (Len(net[g]) + 1) = sent[g] + 1
        BY <3>1, <3>3 DEF Taken
      <4> HIDE DEF Taken
      <4>4. CASE p \in 1..Len(net[g])
        BY <3>3, <4>2, <4>4
      <4>5. CASE p = Len(net[g]) + 1
        BY <3>3, <4>3, <4>5
      <4> QED
        BY <4>1, <4>4, <4>5
    <3>7. Carries(g)' = Carries(g)
      BY <2>1 DEF Carries
    <3>8. Fed(g)'
      BY <1>0, <2>1, <3>4, <3>5, <3>6, <3>7 DEF Fed
    <3>9. Upto(g)' = Upto(g)
      BY <3>4, <3>7 DEF Upto
    <3> QED
      BY <1>0, <2>1, <3>8, <3>9, OrderStays DEF Past
  <2>3. CASE h # g
    <3>1. net'[g] = net[g] /\ sent'[g] = sent[g] /\ reader'[g] = reader[g]
      BY <1>1, <2>1, <2>3 DEF ServerSends, TypeOK
    <3> QED
      BY <1>0, <2>1, <3>1, FedStays, OrderStays DEF Past
  <2> QED
    BY <2>2, <2>3
<1>2. CASE (\E h \in Conns : LineLost(h)) \/ OnQuitKey \/ OnSendKey \/ OnJoinKey \/ Interrupted
  BY <1>2, <1>s DEF LineLost, OnQuitKey, OnSendKey, OnJoinKey, Interrupted, CloseThen
<1>3. CASE DialFails \/ DialSucceeds \/ HandshakeFails
  <2>1. UNCHANGED <<net, sent, reader, dropped, handled, queue>>
    BY <1>3 DEF DialFails, DialSucceeds, HandshakeFails
  <2>2. inbox' = inbox \/ \E m \in {Err(0), UserErr(0)} : inbox' = inbox \cup {m}
    BY <1>3 DEF DialFails, DialSucceeds, HandshakeFails
  <2> QED
    BY <2>1, <2>2, <1>s, OthersAreNoChats
<1>4. CASE HandshakeSucceeds
  <2>1. UNCHANGED <<net, sent, dropped, handled, queue>>
    BY <1>4 DEF HandshakeSucceeds
  <2>2. CASE conn = 0
    BY <1>4, <2>1, <2>2, <1>s DEF HandshakeSucceeds
  <2>3. CASE conn # 0
    <3>1. reader' = [reader EXCEPT ![made] = At("loop", Nothing)] /\ inbox' = inbox \cup {Connected(made)}
      BY <1>4, <2>3 DEF HandshakeSucceeds
    <3>2. Joining > 0
      BY <1>4 DEF HandshakeSucceeds, Joining, TypeOK
    <3>3. reader[g].pc \in {"none", "done"}
      BY <3>2 DEF NoneBeside, AllEnded, Waited
    <3>4. reader'[g] = reader[g] \/ reader'[g].pc = "loop"
      BY <3>1 DEF TypeOK, At
    <3>5. Taken(g)' = Taken(g) /\ ~Carries(g) /\ ~Carries(g)'
      BY <2>1, <3>3, <3>4 DEF Taken, Carries, Delivers
    <3>6. Fed(g)' /\ Upto(g)' = Upto(g)
      BY <1>0, <2>1, <3>3, <3>4, <3>5 DEF Fed, Upto
    <3>7. \A n : Chat(g, n) # Connected(made)
      <4>1. Connected(made).k # "chat"
        BY DEF Connected, Msg
      <4> QED
        BY <4>1, ChatFields
    <3> QED
      BY <1>0, <2>1, <3>1, <3>6, <3>7, OrderStays DEF Past
  <2> QED
    BY <2>2, <2>3
<1>5. CASE Tick
  <2>1. queue'[g] = queue[g]
    BY <1>0, <1>5 DEF Tick, TypeOK
  <2> QED
    BY <1>5, <2>1, <1>s DEF Tick
<1>6. ASSUME NEW h, OnConnected(h) \/ OnReaderClosed(h) \/ OnErr(h) \/ OnUsernameErr(h)
      PROVE  Fed(g)' /\ InOrder(g)'
  <2>1. UNCHANGED <<net, sent, reader, dropped, handled, queue>>
    BY <1>6 DEF OnConnected, OnReaderClosed, OnErr, OnUsernameErr, CloseThen
  <2>2. PICK m \in {Connected(h), Closed(h), Err(h), UserErr(h)} : inbox' = inbox \ {m}
    BY <1>6 DEF OnConnected, OnReaderClosed, OnErr, OnUsernameErr, Update
  <2> QED
    BY <2>1, <2>2, <1>i, OthersAreNoChats
<1>7. ASSUME NEW h, NEW n, OnMessage(h, n) PROVE Fed(g)' /\ InOrder(g)'
  <2>1. /\ UNCHANGED <<net, sent, reader, dropped, queue>>
        /\ handled' = handled \cup {Chat(h, n)}
    BY <1>7, Zenon DEF OnMessage
  <2>2. inbox' = inbox \ {Chat(h, n)}
    BY <1>7, Zenon DEF OnMessage, Update
  <2>3. Past \subseteq Past'
    BY <2>1, <2>2 DEF Past
  <2>4. Fed(g)' /\ Upto(g)' = Upto(g)
    BY <1>0, <2>1, FedStays
  <2> QED
    BY <1>0, <2>1, <2>2, <2>3, <2>4, OrderStays
<1>8. CASE OnQuit
  <2>1. UNCHANGED <<net, sent, reader, dropped, handled, queue>> /\ inbox' = inbox \ {Quit}
    BY <1>8 DEF OnQuit, Update
  <2> QED
    BY <2>1, <1>i, OthersAreNoChats
<1>9. CASE CloseEnds \/ InterruptEnds \/ Exit
  <2>1. /\ UNCHANGED <<net, sent, reader, dropped, handled, queue>>
        /\ inbox' \in {inbox, inbox \cup {Quit}}
    BY <1>9 DEF CloseEnds, InterruptEnds, Exit
  <2> QED
    BY <2>1, <1>s, OthersAreNoChats
<1>10. ASSUME NEW h \in Conns, Reader(h) PROVE Fed(g)' /\ InOrder(g)'
  <2>1. CASE h = g
    BY <1>10, <2>1, OrderReader
  <2>2. CASE h # g
    <3>1. /\ reader[h].pc \notin {"none", "done"} /\ UNCHANGED inbox
          /\ \A j \in Conns \ {h} : reader'[j] = reader[j]
          /\ \/ UNCHANGED queue
             \/ queue' = [queue EXCEPT ![chan] = Tail(@)]
             \/ queue' = [queue EXCEPT ![chan] = Append(@, reader[h].m)]
      BY <1>10, ReaderSteps
    <3>2. chan = h /\ Fed(h)
      BY <3>1 DEF Ordered, Lone
    <3>3. queue'[g] = queue[g] /\ reader'[g] = reader[g]
      BY <1>0, <2>2, <3>1, <3>2 DEF TypeOK
    <3>4. UNCHANGED <<sent, handled>> /\ dropped \subseteq dropped'
      BY <1>10 DEF Reader, ReadLoop, ReadMessage, ReadError, Deliver, TestLength, Drain, Retry
    <3>5. UNCHANGED net \/ net' = [net EXCEPT ![h] = Tail(@)]
      BY <1>10, <3>2 DEF Reader, ReadLoop, ReadMessage, ReadError, Deliver, TestLength, Drain, Retry, Fed
    <3>6. net'[g] = net[g]
      BY <2>2, <3>5 DEF TypeOK
    <3> QED
      BY <1>0, <3>1, <3>3, <3>4, <3>6, FedStays, OrderStays DEF Past
  <2> QED
    BY <2>1, <2>2
<1>11. ASSUME NEW h \in Conns, Pinger(h) PROVE Fed(g)' /\ InOrder(g)'
  BY <1>11, <1>s DEF Pinger, PingTick, Ping, PingCancelled
<1>12. ASSUME NEW c \in Channels, Listened(c) PROVE Fed(g)' /\ InOrder(g)'
  <2>1. /\ UNCHANGED <<net, sent, reader, dropped, handled>> /\ queue[c] # <<>>
        /\ queue' = [queue EXCEPT ![c] = Tail(@)] /\ inbox' = inbox \cup {Head(queue[c])}
    BY <1>12 DEF Listened
  <2>2. Fed(g)' /\ Upto(g)' = Upto(g)
    BY <1>0, <2>1, FedStays
  <2>3. CASE c = g
    <3>1. queue'[g] = Tail(queue[g])
      BY <2>1, <2>3 DEF TypeOK
    <3> QED
      BY <1>0, <1>n, <2>1, <2>2, <2>3, <3>1, OrderShifts DEF Past
  <2>4. CASE c # g
    <3>1. c \in Conns
      BY <1>0, <2>1 DEF Lone, Channels, Conns
    <3>2. Lined(queue[c], c, Upto(c)) /\ Upto(c) \in Nat /\ queue[c] \in Seq(Msgs)
      BY <3>1, UptoIsANumber DEF Ordered, InOrder, TypeOK
    <3>3. \A n : Head(queue[c]) # Chat(g, n)
      BY <2>1, <2>4, <3>2, LinedTail
    <3>4. queue'[g] = queue[g]
      BY <1>0, <2>1, <2>4 DEF TypeOK
    <3> QED
      BY <1>0, <2>1, <2>2, <3>3, <3>4, OrderStays DEF Past
  <2> QED
    BY <2>3, <2>4
<1>13. CASE UNCHANGED connVars
  BY <1>13, <1>s DEF connVars
<1> QED
  BY <1>1, <1>2, <1>3, <1>4, <1>5, <1>6, <1>7, <1>8, <1>9, <1>10, <1>11, <1>12, <1>13
  DEF ConnNext, Environment, Handles, Connects

\* A message that was overtaken waits in the hands of a command.
Behind == \A m \in overtaken : m.k = "chat" /\ m \in inbox

LEMMA OvertakenStep ==
    /\ TypeOK /\ TypeOK' /\ Tokens /\ Ordered /\ Behind /\ OvertakenByKeys /\ [ConnNext]_connVars
    => Behind' /\ OvertakenByKeys'
<1> SUFFICES ASSUME TypeOK, TypeOK', Tokens, Ordered, Behind, OvertakenByKeys, [ConnNext]_connVars
             PROVE  Behind' /\ OvertakenByKeys'
  OBVIOUS
<1> USE DEF fields, wire, threads, tasks, loop, hist
<1>s. ASSUME UNCHANGED overtaken, keys' >= keys, \A m \in inbox \ inbox' : m.k # "chat"
      PROVE  Behind' /\ OvertakenByKeys'
  <2>1. Behind'
    BY <1>s DEF Behind
  <2>2. IsFiniteSet(overtaken)
    <3>1. Quit.k # "chat"
      BY DEF Quit, Msg
    <3>2. overtaken \subseteq Held
      BY <3>1 DEF Behind, Held
    <3>3. IsFiniteSet(Held)
      BY DEF Tokens
    <3> QED
      BY <3>2, <3>3, FS_Subset
  <2>3. Cardinality(overtaken) \in Nat /\ keys \in Nat
    BY <2>2, FS_CardinalityType DEF TypeOK
  <2>4. keys' \in Nat
    BY DEF TypeOK
  <2>5. Cardinality(overtaken) <= keys'
    BY <1>s, <2>3, <2>4 DEF OvertakenByKeys
  <2> QED
    BY <1>s, <2>1, <2>5 DEF OvertakenByKeys, Behind
<1>k. keys \in Nat
  BY DEF TypeOK
<1>1. CASE Environment
  BY <1>1, <1>s, <1>k DEF Environment, ServerSends, LineLost, OnQuitKey, OnSendKey, OnJoinKey,
     Interrupted, CloseThen
<1>2. CASE Connects
  BY <1>2, <1>s, <1>k DEF Connects, DialFails, DialSucceeds, HandshakeFails, HandshakeSucceeds
<1>3. CASE Tick \/ CloseEnds \/ InterruptEnds \/ Exit
  BY <1>3, <1>s, <1>k DEF Tick, CloseEnds, InterruptEnds, Exit
<1>4. ASSUME NEW h, OnConnected(h) \/ OnReaderClosed(h) \/ OnErr(h) \/ OnUsernameErr(h)
      PROVE  Behind' /\ OvertakenByKeys'
  <2>1. PICK m \in {Connected(h), Closed(h), Err(h), UserErr(h)} : inbox' = inbox \ {m}
    BY <1>4 DEF OnConnected, OnReaderClosed, OnErr, OnUsernameErr, Update
  <2>2. UNCHANGED <<overtaken, keys>>
    BY <1>4 DEF OnConnected, OnReaderClosed, OnErr, OnUsernameErr, CloseThen
  <2>3. m.k # "chat"
    BY OthersAreNoChats
  <2> QED
    BY <2>1, <2>2, <2>3, <1>s, <1>k
<1>5. CASE OnQuit
  <2>1. inbox' = inbox \ {Quit} /\ Quit.k # "chat" /\ UNCHANGED <<overtaken, keys>>
    BY <1>5, OthersAreNoChats DEF OnQuit, Update
  <2> QED
    BY <2>1, <1>s, <1>k
<1>6. ASSUME NEW g \in Conns, NEW n \in 1..MaxMsgs, OnMessage(g, n)
      PROVE  Behind' /\ OvertakenByKeys'
  <2>1. /\ Listen /\ UNCHANGED <<dials, shakes, ticks, loop, keys>>
        /\ overtaken' = (overtaken \ {Chat(g, n)})
              \cup ({Chat(g, i) : i \in 1..(n - 1)} \ (handled \cup dropped))
    BY <1>6, Zenon DEF OnMessage
  <2>2. Chat(g, n) \in inbox /\ inbox' = inbox \ {Chat(g, n)}
    BY <1>6, Zenon DEF OnMessage, Update
  <2>3. Cardinality(Held)' <= keys /\ IsFiniteSet(Held)'
    <3>1. UNCHANGED <<Joining, Retrying, keys>>
      BY <2>1 DEF Joining, Retrying
    <3>2. Tokens' /\ Cardinality(Held)' <= keys
      BY <2>1, <2>2, <3>1, NoQuits, TokensTurn
    <3> QED
      BY <3>2 DEF Tokens
  <2>4. n \in Nat /\ \A i \in 1..(n - 1) : Chat(g, i) \in Past /\ i # n
    BY <2>2, Bounds DEF Ordered, InOrder
  <2>5. ASSUME NEW m \in overtaken' PROVE m.k = "chat" /\ m \in inbox'
    <3>1. CASE m \in overtaken \ {Chat(g, n)}
      BY <2>2, <3>1 DEF Behind
    <3>2. CASE m \in {Chat(g, i) : i \in 1..(n - 1)} \ (handled \cup dropped)
      <4>1. PICK i \in 1..(n - 1) : m = Chat(g, i)
        BY <3>2
      <4>2. m \in inbox /\ m # Chat(g, n)
        BY <2>4, <3>2, <4>1, ChatsDiffer DEF Past
      <4> QED
        BY <2>2, <4>1, <4>2, ChatFields
    <3> QED
      BY <2>1, <3>1, <3>2
  <2>6. overtaken' \subseteq Held'
    BY <2>5, OthersAreNoChats DEF Held
  <2>7. Cardinality(overtaken') <= Cardinality(Held')
    BY <2>3, <2>6, FS_Subset
  <2>8. IsFiniteSet(overtaken')
    BY <2>3, <2>6, FS_Subset
  <2>9. Cardinality(overtaken') \in Nat /\ Cardinality(Held') \in Nat
    BY <2>3, <2>8, FS_CardinalityType
  <2>10. Cardinality(overtaken') <= keys'
    BY <1>k, <2>1, <2>3, <2>7, <2>9
  <2> QED
    BY <2>5, <2>10 DEF Behind, OvertakenByKeys
<1>7. ASSUME NEW g \in Conns, Reader(g) \/ Pinger(g) PROVE Behind' /\ OvertakenByKeys'
  <2>1. UNCHANGED <<overtaken, keys, inbox>>
    BY <1>7 DEF Reader, ReadLoop, ReadMessage, ReadError, Deliver, TestLength, Drain, Retry,
       Pinger, PingTick, Ping, PingCancelled
  <2> QED
    BY <2>1, <1>s, <1>k
<1>8. ASSUME NEW c \in Channels, Listened(c) PROVE Behind' /\ OvertakenByKeys'
  BY <1>8, <1>s, <1>k DEF Listened
<1>9. CASE UNCHANGED connVars
  BY <1>9, <1>s, <1>k DEF connVars
<1> QED
  BY <1>1, <1>2, <1>3, <1>4, <1>5, <1>6, <1>7, <1>8, <1>9 DEF ConnNext, Handles

\* No more messages of a connection are overtaken by later ones at any time than
\* keys were pressed whose handler started a command that listens besides the
\* one; each of them is in the hands of a command and not lost.
THEOREM OvertakenOnlyByKeys == ConnSpec => []OvertakenByKeys
<1>1. Init => TypeOK /\ Alive /\ Tokens /\ Ordered /\ Behind /\ OvertakenByKeys
  <2>1. Init => Behind /\ OvertakenByKeys
    BY FS_EmptySet DEF Init, Behind, OvertakenByKeys
  <2> QED
    BY <2>1, TypeInit, AliveInit, TokensInit, OrderInit
<1>2. /\ TypeOK /\ Alive /\ Tokens /\ Ordered /\ Behind /\ OvertakenByKeys /\ [ConnNext]_connVars
      => TypeOK' /\ Alive' /\ Tokens' /\ Ordered' /\ Behind' /\ OvertakenByKeys'
  BY TypeStep, AliveStep, TokensStep, OrderStep, OvertakenStep DEF Alive
<1> QED
  BY <1>1, <1>2, PTL DEF ConnSpec

----------------------------------------------------------------------------
(* Least and greatest numbers. *)

\* A set of natural numbers with a member has a least one.
LEMMA LeastOf ==
    ASSUME NEW T \in SUBSET Nat, T # {}
    PROVE  Min(T) \in T /\ \A m \in T : Min(T) =< m
<1>1. PICK n \in T : \A m \in T : ~(<<m, n>> \in OpToRel(<, Nat))
  BY NatLessThanWellFounded, WFMin
<1>2. ASSUME NEW m \in T, m < n PROVE FALSE
  <2>1. <<m, n>> \in OpToRel(<, Nat)
    <3>1. m \in Nat /\ n \in Nat
      OBVIOUS
    <3>. QED
      BY <1>2, <3>1, Zenon DEF OpToRel
  <2>. QED
    BY <1>1, <2>1
<1>3. \A m \in T : n =< m
  BY <1>2
<1>. QED
  BY <1>3 DEF Min

\* A bounded one has a greatest: take the least distance from the bound.
LEMMA GreatestOf ==
    ASSUME NEW n \in Nat, NEW T \in SUBSET (0..n), T # {}
    PROVE  Max(T) \in T /\ \A m \in T : m =< Max(T)
<1>. DEFINE D == {n - t : t \in T}
<1>1. D \in SUBSET Nat /\ D # {}
  <2>1. \A t \in T : n - t \in Nat
    OBVIOUS
  <2>. QED
    BY <2>1
<1>2. PICK t \in T : Min(D) = n - t
  BY <1>1, LeastOf
<1>3. \A m \in T : m =< t
  BY <1>1, <1>2, LeastOf
<1>. QED
  BY <1>3 DEF Max

\* The newest id of a transcript, zero when it is empty.
LEMMA TopOf ==
    ASSUME NEW n \in Nat, NEW ids \in SUBSET (0..n)
    PROVE  /\ Top(ids) \in ids \cup {0}
           /\ Top(ids) \in 0..n
           /\ \A i \in ids : i =< Top(ids)
<1>1. ids \cup {0} \in SUBSET (0..n) /\ ids \cup {0} # {}
  OBVIOUS
<1>. QED
  BY <1>1, GreatestOf DEF Top
----------------------------------------------------------------------------
(* Overlays. *)

\* What can be open at a time: the help covers the picker, nothing covers the
\* editor or the menu.
Openings == {{}, {"help"}, {"db"}, {"snippet"}, {"picker"}, {"picker", "help"}}

\* The first of four overlays that is open.
LEMMA FirstOfFour ==
    ASSUME NEW a, NEW b, NEW c, NEW d, NEW e
    PROVE  FirstOf(<<a, b, c, d>>, e) =
             IF a \in open THEN a ELSE IF b \in open THEN b
             ELSE IF c \in open THEN c ELSE IF d \in open THEN d ELSE e
<1>. DEFINE order == <<a, b, c, d>>
            I == {i \in 1..4 : order[i] \in open}
<1>1. Len(order) = 4
  OBVIOUS
<1>2. FirstOf(order, e) = IF I = {} THEN e ELSE order[Min(I)]
  <2>1. SelectInSeq(order, LAMBDA w : w \in open) = IF I # {} THEN Min(I) ELSE 0
    BY <1>1 DEF SelectInSeq
  <2>2. I # {} => Min(I) # 0
    BY LeastOf
  <2>. HIDE DEF I, order
  <2>. QED
    BY <2>1, <2>2 DEF FirstOf
<1>3. I # {} => Min(I) \in I /\ \A i \in I : Min(I) =< i
  BY LeastOf
<1>4. /\ 1 \in I <=> a \in open
      /\ 2 \in I <=> b \in open
      /\ 3 \in I <=> c \in open
      /\ 4 \in I <=> d \in open
  OBVIOUS
<1>5. I \subseteq {1, 2, 3, 4}
  OBVIOUS
<1>6. order[1] = a /\ order[2] = b /\ order[3] = c /\ order[4] = d
  OBVIOUS
<1>7. FirstOf(<<a, b, c, d>>, e) = FirstOf(order, e)
  OBVIOUS
<1>. HIDE DEF I, order
<1>. DEFINE first == IF I = {} THEN e ELSE order[Min(I)]
            m == Min(I)
<1>8. first = IF a \in open THEN a ELSE IF b \in open THEN b
             ELSE IF c \in open THEN c ELSE IF d \in open THEN d ELSE e
  <2>1. I # {} => m \in {1, 2, 3, 4} /\ m \in I /\ \A i \in I : m =< i
    BY <1>3, <1>5
  <2>2. first = IF I = {} THEN e ELSE order[m]
    OBVIOUS
  <2>. HIDE DEF m, first
  <2>3. CASE I = {}
    BY <2>2, <2>3, <1>4
  <2>4. CASE I # {}
    BY <2>1, <2>2, <2>4, <1>4, <1>6
  <2>. QED
    BY <2>3, <2>4
<1>. QED
  BY <1>2, <1>7, <1>8

\* The first of two.
LEMMA FirstOfTwo ==
    ASSUME NEW a, NEW b, NEW e
    PROVE  FirstOf(<<a, b>>, e) = IF a \in open THEN a ELSE IF b \in open THEN b ELSE e
<1>. DEFINE order == <<a, b>>
            I == {i \in 1..2 : order[i] \in open}
            m == Min(I)
<1>1. SelectInSeq(order, LAMBDA w : w \in open) = IF I # {} THEN m ELSE 0
  BY DEF SelectInSeq
<1>2. I # {} => m \in I /\ m # 0 /\ \A i \in I : m =< i
  BY LeastOf
<1>3. I \subseteq {1, 2} /\ (1 \in I <=> a \in open) /\ (2 \in I <=> b \in open)
  OBVIOUS
<1>4. order[1] = a /\ order[2] = b /\ FirstOf(<<a, b>>, e) = FirstOf(order, e)
  OBVIOUS
<1>. HIDE DEF I, m, order
<1>5. FirstOf(order, e) = IF I = {} THEN e ELSE order[m]
  <2>. DEFINE at == SelectInSeq(order, LAMBDA w : w \in open)
  <2>1. at = IF I # {} THEN m ELSE 0
    BY <1>1
  <2>2. FirstOf(order, e) = IF at = 0 THEN e ELSE order[at]
    BY DEF FirstOf
  <2>. HIDE DEF at
  <2>. QED
    BY <1>2, <2>1, <2>2
<1>6. CASE I = {}
  BY <1>3, <1>4, <1>5, <1>6
<1>7. CASE I # {}
  <2>1. m \in {1, 2} /\ m \in I /\ \A i \in I : m =< i
    BY <1>2, <1>3, <1>7
  <2>2. CASE m = 1
    BY <1>3, <1>4, <1>5, <1>7, <2>1, <2>2
  <2>3. CASE m = 2
    <3>1. 1 \notin I
      BY <2>1, <2>3
    <3>. QED
      BY <1>3, <1>4, <1>5, <1>7, <2>1, <2>3, <3>1
  <2>. QED
    BY <2>1, <2>2, <2>3
<1>. QED
  BY <1>6, <1>7

\* Who has the screen, the keys and the wheel.
LEMMA WhoIsShown ==
    /\ Shown = IF "snippet" \in open THEN "snippet" ELSE IF "picker" \in open THEN "picker"
               ELSE IF "db" \in open THEN "db" ELSE IF "help" \in open THEN "help" ELSE "chat"
    /\ Receiver = IF "snippet" \in open THEN "snippet" ELSE IF "picker" \in open THEN "picker"
               ELSE IF "help" \in open THEN "help" ELSE IF "db" \in open THEN "db" ELSE "chat"
    /\ Wheel = IF "picker" \in open THEN "picker" ELSE IF "snippet" \in open THEN "snippet"
               ELSE IF "help" \in open THEN "help" ELSE IF "db" \in open THEN "db" ELSE "chat"
    /\ HelpKey = IF "db" \in open THEN "db" ELSE IF "snippet" \in open THEN "snippet" ELSE "help"
BY FirstOfFour, FirstOfTwo DEF Shown, Receiver, Wheel, HelpKey

\* They are one, since help and menu are never open together, nor two modals.
LEMMA ShownActs ==
    ASSUME open \in Openings
    PROVE  /\ Receiver = Shown /\ Wheel = Shown
           /\ HelpKey # Shown => HelpKey = "help" /\ Shown \in {"chat", "picker"}
           /\ EscKey # Shown => pending # None /\ Shown \notin Modals
<1>1. Receiver = Shown /\ Wheel = Shown
  BY WhoIsShown DEF Openings
<1>2. HelpKey # Shown => HelpKey = "help" /\ Shown \in {"chat", "picker"}
  BY WhoIsShown DEF Openings
<1>. QED
  BY <1>1, <1>2 DEF EscKey

\* The chat has the keys only when nothing is open.
LEMMA ChatIsBare == open \in Openings /\ ChatHasKeys => open = {}
BY WhoIsShown DEF Openings, ChatHasKeys

----------------------------------------------------------------------------
(* What a step does to the user interface. *)

Opened == open \in Openings
Queued == msgChan \in Seq(Modals)

\* The keys: those of the overlays and of the composer.
Keys == CtrlH \/ Esc \/ CtrlD \/ Prompt \/ (\E w \in Modals : OpenModal(w)) \/ Choose \/ Handle
Composing == Cut \/ Enter \/ \E words \in Lines : Type(words)
Selecting == PluginKey \/ Select \/ BanSelected \/ \E us \in Lists : UserList(us)
Starting == \E how \in Starts : StartAgain(how)

\* What leaves the user interface as it is.
Rest == UNCHANGED <<open, pending, draft, sel, msgChan>>

\* A step is one of these.
LEMMA StepsOfUI ==
    ASSUME [Next]_vars
    PROVE  \/ (Keys \/ Composing \/ Selecting) /\ Still
           \/ Redial
           \/ Starting
           \/ Rest /\ (UNCHANGED vars \/ wrote' = Silence \/ \E n \in Names : DmSay(n))
<1>1. CASE UNCHANGED vars
  BY <1>1 DEF vars, uiVars, Rest, sel
<1>2. CASE Next
  <2>1. CASE (NetStep \/ ThreadStep) /\ UNCHANGED <<settingVars, place>> /\ Aside
    BY <2>1 DEF Aside, Rest, Quietly
  <2>2. CASE KeyStep /\ Still
    <3>1. "join" \in Lines
      BY DEF Lines
    <3>. QED
      BY <2>2, <3>1 DEF KeyStep, Keys, Composing, Selecting
  <2>3. CASE CommandStep /\ UNCHANGED <<threadVars, place>> /\ Aside
    BY <2>3 DEF Aside, Rest, Quietly
  <2>4. ASSUME NEW n \in Names, DmSay(n)
        PROVE  Rest /\ DmSay(n)
    BY <2>4 DEF DmSay, Rest
  <2>5. ASSUME NEW how \in IF Does("sound") \/ Does("look") THEN Starts ELSE {Flags}, StartAgain(how)
        PROVE  Starting
    BY <2>5 DEF Starting, Starts
  <2>6. CASE WsConnected /\ TakeSeat /\ UNCHANGED settingVars /\ Aside
    BY <2>6 DEF Aside, Rest, Quietly
  <2>. QED
    BY <1>2, <2>1, <2>2, <2>3, <2>4, <2>5, <2>6 DEF Next
<1>. QED
  BY <1>1, <1>2

LEMMA InitUIInv == InitUI => Opened /\ Queued
BY DEF InitUI, Opened, Openings, Queued

\* An overlay opens over the bare chat, the help also over the picker; closing
\* one leaves what may be open.
LEMMA OpenedStep == Opened /\ [Next]_vars => Opened'
<1>. SUFFICES ASSUME Opened, [Next]_vars PROVE Opened'
  OBVIOUS
<1>0. \A w : open \ {w} \in Openings
  BY DEF Opened, Openings
<1>1. CASE Keys
  <2>1. CASE CtrlH
    <3>1. HelpKey \notin open => open \cup {HelpKey} \in Openings
      BY WhoIsShown DEF Opened, Openings
    <3>. QED
      BY <1>0, <2>1, <3>1 DEF CtrlH, Opened
  <2>2. CASE Esc
    BY <1>0, <2>2 DEF Esc, Opened
  <2>3. CASE CtrlD \/ \E w \in Modals : OpenModal(w)
    BY <2>3 DEF CtrlD, OpenModal, Modals, Opened, Openings
  <2>4. CASE Prompt
    BY <2>4 DEF Prompt, Opened
  <2>5. CASE Choose \/ Handle
    BY <1>0, <2>5 DEF Choose, Handle, Opened
  <2>. QED
    BY <1>1, <2>1, <2>2, <2>3, <2>4, <2>5 DEF Keys
<1>2. CASE Composing \/ Selecting \/ Redial \/ Rest
  BY <1>2 DEF Composing, Cut, Enter, Type, Selecting, PluginKey, Select, BanSelected, UserList,
              Redial, Rest, Opened
<1>3. CASE Starting
  BY <1>3 DEF Starting, StartAgain, Opened, Openings
<1>. QED
  BY <1>1, <1>2, <1>3, StepsOfUI

\* What waits in the channel is a result of the editor or of the picker.
LEMMA QueuedStep == Queued /\ [Next]_vars => Queued'
<1>. SUFFICES ASSUME Queued, [Next]_vars PROVE Queued'
  OBVIOUS
<1>1. CASE Choose
  BY <1>1 DEF Choose, Queued
<1>2. CASE Handle
  BY <1>2 DEF Handle, Queued
<1>3. CASE msgChan' = msgChan \/ msgChan' = <<>>
  <2>1. <<>> \in Seq(Modals)
    BY DEF Modals
  <2>. QED
    BY <1>3, <2>1 DEF Queued
<1>4. Choose \/ Handle \/ msgChan' = msgChan \/ msgChan' = <<>>
  BY StepsOfUI
  DEF Keys, CtrlH, Esc, CtrlD, Prompt, OpenModal, Composing, Cut, Enter, Type,
      Selecting, PluginKey, Select, BanSelected, UserList, Redial, Starting, StartAgain, Rest
<1>. QED
  BY <1>1, <1>2, <1>3, <1>4

----------------------------------------------------------------------------
(* What a step does to the messages, the threads and the receipts. *)

\* :dm with a name or with a text enters a thread and jumps to its end.
Enters == /\ \E n \in Names : Go(n)
          /\ Jump /\ UNCHANGED <<netVars, transcript>>

\* :dm with the name that is active, :dm off and :dmhide of the active thread.
LeavesCounting == /\ thread' = None /\ recipient' = None
                  /\ unread' = Counted(msgs, twice, dm, None)
                  /\ Leave /\ Jump /\ UNCHANGED <<netVars, transcript, dm, file, seen>>

Viewing == Resize \/ Flush \/ ScrollUp \/ ScrollDown

\* A step is one of these.
LEMMA StepsOfThreads ==
    ASSUME [Next]_vars
    PROVE  \/ \E m \in Messages : Post(m)
           \/ WsConnected \/ Break \/ Lost \/ Notice
           \/ \E i \in Arriving : Receive(i)
           \/ Enters \/ LeavesCounting \/ DmOff
           \/ \E n \in Names : Hide(n)
           \/ Clear \/ Viewing \/ Restart
           \/ UNCHANGED threadVars
<1>1. CASE UNCHANGED vars
  BY <1>1 DEF vars
<1>2. ASSUME NEW n \in Names, Dm(n)
      PROVE  Enters \/ LeavesCounting
  <2>1. CASE recipient = n
    BY <1>2, <2>1 DEF Dm, LeavesCounting, Leave
  <2>2. CASE recipient # n
    BY <1>2, <2>2 DEF Dm, Enters
  <2>. QED
    BY <2>1, <2>2
<1>3. ASSUME NEW n \in Names, DmSay(n)
      PROVE  Enters
  BY <1>3 DEF DmSay, Enters
<1>4. ASSUME NetStep
      PROVE  \/ \E m \in Messages : Post(m)
             \/ Break \/ Lost \/ Notice
             \/ \E i \in Arriving : Receive(i)
  BY <1>4 DEF NetStep
<1>5. ASSUME ThreadStep
      PROVE  Enters \/ LeavesCounting \/ DmOff \/ (\E n \in Names : Hide(n)) \/ Clear \/ Viewing
  BY <1>2, <1>5 DEF ThreadStep, Viewing
<1>6. ASSUME NEW how, StartAgain(how)
      PROVE  Restart
  BY <1>6 DEF StartAgain
<1>7. CASE NetStep \/ ThreadStep
  BY <1>4, <1>5, <1>7
<1>8. CASE UNCHANGED threadVars
  BY <1>8
<1>9. CASE Restart
  BY <1>9
<1>10. CASE Enters
  BY <1>10
<1>11. Next => NetStep \/ ThreadStep \/ WsConnected \/ UNCHANGED threadVars \/ Enters \/ Restart
  <2>. SUFFICES ASSUME Next
                PROVE  NetStep \/ ThreadStep \/ WsConnected \/ UNCHANGED threadVars \/ Enters \/ Restart
    OBVIOUS
  <2>1. CASE (NetStep \/ ThreadStep) /\ UNCHANGED <<settingVars, place>> /\ Aside
    BY <2>1
  <2>2. CASE KeyStep /\ Still
    BY <2>2 DEF Still
  <2>3. CASE CommandStep /\ UNCHANGED <<threadVars, place>> /\ Aside
    BY <2>3
  <2>4. CASE Does("dm") /\ Does("say") /\ \E n \in Names : DmSay(n)
    BY <1>3, <2>4
  <2>5. CASE Redial
    BY <2>5 DEF Redial, Still
  <2>6. CASE \E how \in IF Does("sound") \/ Does("look") THEN Starts ELSE {Flags} : StartAgain(how)
    BY <1>6, <2>6
  <2>7. CASE WsConnected /\ TakeSeat /\ UNCHANGED settingVars /\ Aside
    BY <2>7
  <2>. QED
    BY <2>1, <2>2, <2>3, <2>4, <2>5, <2>6, <2>7 DEF Next
<1>12. CASE WsConnected
  BY <1>12
<1>. QED
  BY <1>1, <1>7, <1>8, <1>9, <1>10, <1>11, <1>12

----------------------------------------------------------------------------
(* An input acts on what is shown. *)

SameThread == recipient = thread

LEMMA SameThreadStep == SameThread /\ [Next]_vars => SameThread'
<1>. SUFFICES ASSUME SameThread, [Next]_vars PROVE SameThread'
  OBVIOUS
<1>1. CASE recipient' = recipient /\ thread' = thread
  BY <1>1 DEF SameThread
<1>2. CASE thread' = None /\ recipient' = None
  BY <1>2 DEF SameThread
<1>3. CASE Enters
  BY <1>3 DEF Enters, Go, SameThread
<1>. QED
  BY <1>1, <1>2, <1>3, StepsOfThreads
  DEF Post, WsConnected, Break, Lost, Notice, Receive, LeavesCounting, DmOff, Hide, Leave, Clear,
      Viewing, Resize, Jump, Flush, ScrollUp, ScrollDown, Restart, threadVars, dmVars

\* The marked user is another one, and the one at the marked place unless the
\* list has changed under the mark.
Marking ==
    /\ users \in Lists \cup {<<Me>>} /\ selIdx \in Nat
    /\ (selIdx = 0) = (selUser = None)
    /\ selUser # None => selUser # Me /\ (~moved => users[selIdx] = selUser)

LEMMA InitMarking == InitUI => Marking
BY DEF InitUI, Marking

\* The place Ctrl+U turns to is in the list; who is found there is someone else,
\* and has a name.
LEMMA SelectMarks ==
    ASSUME Marking, Select
    PROVE  Marking'
<1>. DEFINE n == Len(users)
            turn(i) == ((selIdx + i - 1) % n) + 1
            found == {i \in 1..n : users[turn(i)] # Me}
            k == turn(Min(found))
<1>1. n > 0 /\ n \in Nat
  <2>1. Len(users) \in Nat
    <3>1. CASE users = <<Me>>
      BY <3>1
    <3>2. CASE users \in Lists
      BY <3>2, UIAssumption
    <3>. QED
      BY <3>1, <3>2 DEF Marking
  <2>. QED
    BY <2>1 DEF Select
<1>2. \A i \in 1..n : turn(i) \in 1..n
  BY <1>1 DEF Marking
<1>3. CASE found = {}
  BY <1>3 DEF Select, NoSelection, Marking
<1>4. CASE found # {}
  <2>1. Min(found) \in found
    <3>1. found \in SUBSET Nat
      OBVIOUS
    <3>. HIDE DEF found
    <3>. QED
      BY <1>4, <3>1, LeastOf
  <2>2. k \in 1..n /\ users[k] # Me
    BY <1>2, <2>1
  <2>3. users[k] # None
    <3>1. users # <<Me>>
      BY <2>2
    <3>2. users \in Seq(Range(users) \ {None})
      BY <3>1, UIAssumption DEF Marking
    <3>. QED
      BY <2>2, <3>2
  <2>4. selIdx' = k /\ selUser' = users[k] /\ moved' = FALSE /\ users' = users
    BY <1>4 DEF Select
  <2>. HIDE DEF k
  <2>. QED
    BY <1>1, <2>2, <2>3, <2>4 DEF Marking
<1>. QED
  BY <1>3, <1>4

LEMMA MarkingStep == Marking /\ [Next]_vars => Marking'
<1>. SUFFICES ASSUME Marking, [Next]_vars PROVE Marking'
  OBVIOUS
<1>1. CASE UNCHANGED sel
  BY <1>1 DEF Marking, sel
<1>2. CASE UNCHANGED users /\ NoSelection
  BY <1>2 DEF Marking, NoSelection
<1>3. CASE Select
  BY <1>3, SelectMarks
<1>4. ASSUME NEW us \in Lists, UserList(us)
      PROVE  Marking'
  BY <1>4 DEF UserList, Marking
<1>5. CASE Starting
  BY <1>5 DEF Starting, StartAgain, NoSelection, Marking
<1>6. CASE Keys
  BY <1>1, <1>2, <1>6 DEF Keys, CtrlH, Esc, CtrlD, Prompt, OpenModal, Choose, Handle, sel
<1>7. CASE Composing \/ PluginKey \/ Redial \/ Rest
  BY <1>1, <1>7 DEF Composing, Cut, Enter, Type, PluginKey, Redial, Rest
<1>8. CASE BanSelected
  BY <1>1, <1>2, <1>8 DEF BanSelected, sel
<1>. QED
  BY <1>3, <1>4, <1>5, <1>6, <1>7, <1>8, StepsOfUI DEF Selecting

\* Whatever opened over or closed under it, a key, the wheel, a line and an
\* administrator's key act on what the screen shows.
THEOREM InputActsOnWhatIsShown == Spec => []ActsOnWhatIsShown
<1>. DEFINE Inv == Opened /\ SameThread /\ Marking
<1>1. InitUI => Inv
  BY InitUIInv, InitMarking DEF InitUI, InitThreads, SameThread
<1>2. Inv /\ [Next]_vars => Inv'
  BY OpenedStep, SameThreadStep, MarkingStep
<1>3. Inv => ActsOnWhatIsShown
  BY ShownActs DEF Opened, SameThread, Marking, ActsOnWhatIsShown
<1>. QED
  BY <1>1, <1>2, <1>3, PTL DEF Spec

----------------------------------------------------------------------------
(* A word is said where it is shown. *)

\* Unless a change of room was missed, the row of the table is the room on the
\* screen, and so is the hub's while there is a connection.
AtHome == ~unsure => room = kept /\ (link # "none" => seat = room)

LEMMA JoinedAtHome ==
    ASSUME AtHome, link' = link, link # "none", NEW r, Join(r) \/ LeaveRoom
    PROVE  AtHome'
<1>1. CASE Join(r)
  BY <1>1 DEF Join, Sit, Unheard, AtHome
<1>2. CASE LeaveRoom /\ seat # General
  BY <1>2 DEF LeaveRoom, Sit, Unheard, AtHome
<1>3. CASE LeaveRoom /\ seat = General
  BY <1>3 DEF LeaveRoom, AtHome
<1>. QED
  BY <1>1, <1>2, <1>3

LEMMA AtHomeStep == AtHome /\ [Next]_vars => AtHome'
<1>. SUFFICES ASSUME AtHome, [Next]_vars PROVE AtHome'
  OBVIOUS
<1>0. ASSUME UNCHANGED place, link' # "none" => link # "none"
      PROVE  AtHome'
  BY <1>0 DEF place, AtHome
<1>1. CASE (NetStep \/ ThreadStep) /\ UNCHANGED <<settingVars, place>> /\ Aside
  <2>1. link' # "none" => link # "none"
    BY <1>1 DEF NetStep, Post, Break, Lost, Notice, Receive,
                ThreadStep, DmOff, Dm, Hide, Clear, Resize, Flush, ScrollUp, ScrollDown, netVars
  <2>. QED
    BY <1>0, <1>1, <2>1
<1>2. CASE WsConnected /\ TakeSeat
  <2>1. room' = room /\ kept' = kept
    BY <1>2 DEF TakeSeat
  <2>2. CASE seat' = kept /\ unsure' = unsure
    BY <2>1, <2>2 DEF AtHome
  <2>3. CASE seat' = General /\ unsure' = (unsure \/ kept # General)
    BY <2>1, <2>3 DEF AtHome
  <2>. QED
    BY <1>2, <2>2, <2>3 DEF TakeSeat
<1>3. CASE KeyStep /\ Still
  <2>1. link' = link
    BY <1>3 DEF Still, threadVars, netVars
  <2>2. CASE Enter
    <3>1. CASE SayRoom
      <4>1. PICK r \in Rooms : Join(r) \/ LeaveRoom
        BY <3>1, UIAssumption DEF SayRoom
      <4>. QED
        BY <2>1, <3>1, <4>1, JoinedAtHome DEF SayRoom
    <3>2. CASE UNCHANGED place
      BY <1>0, <2>1, <3>2
    <3>. QED
      BY <2>2, <3>1, <3>2 DEF Enter, EnterLine
  <2>3. CASE UNCHANGED ui0
    BY <1>0, <2>1, <2>3 DEF ui0
  <2>. QED
    BY <1>3, <2>2, <2>3 DEF KeyStep, CtrlH, Esc, CtrlD, Prompt, OpenModal, Choose, Handle,
                            PluginKey, Select, BanSelected, UserList, Cut, Type
<1>4. CASE CommandStep /\ UNCHANGED <<threadVars, place>> /\ Aside
  BY <1>0, <1>4 DEF threadVars, netVars
<1>5. ASSUME NEW n \in Names, DmSay(n)
      PROVE  AtHome'
  BY <1>0, <1>5 DEF DmSay, netVars, ui0
<1>6. CASE Redial
  BY <1>0, <1>6 DEF Redial, Still, threadVars, netVars, ui0
<1>7. ASSUME NEW how, StartAgain(how)
      PROVE  AtHome'
  BY <1>7 DEF StartAgain, Restart, AtHome
<1>8. CASE UNCHANGED vars
  BY <1>0, <1>8 DEF vars, uiVars, threadVars, netVars
<1>. QED
  BY <1>1, <1>2, <1>3, <1>4, <1>5, <1>6, <1>7, <1>8 DEF Next

SaidFrom == Opened /\ Queued /\ SameThread /\ AtHome

LEMMA SilenceIsNoWord == Silence.what # "word"
BY UIAssumption DEF Silence, Lines

\* What is handed over is no word, or goes where Said wants it.
LEMMA ComposingSays ==
    ASSUME SaidFrom, Composing, Still
    PROVE  Said
<1>0. link' = link /\ thread' = thread
  BY DEF Still, threadVars, netVars, dmVars
<1>1. CASE Cut
  BY <1>1, SilenceIsNoWord DEF Cut, Said
<1>2. ASSUME NEW words \in Lines, Type(words)
      PROVE  Said
  BY <1>2, UIAssumption, SilenceIsNoWord DEF Type, Said, Lines
<1>3. CASE Enter
  <2>1. CASE EnterName
    BY <2>1, SilenceIsNoWord DEF EnterName, Hand, Said
  <2>2. CASE draft = "word" /\ Say /\ UNCHANGED place
    <3>. DEFINE w == [what |-> "word", to |-> thread, room |-> IF thread = None THEN seat ELSE None]
    <3>1. ChatHasKeys
      BY <1>3 DEF Enter
    <3>2. recipient = thread /\ w.what = "word" /\ w.to = thread
      BY DEF SaidFrom, SameThread
    <3>3. \/ link = "none" /\ wrote' = Silence
          \/ link # "none" /\ wrote' = w
          \/ link # "none" /\ wrote' = Silence /\ banner' = "error"
      BY <2>2, <3>2 DEF Say, Hand
    <3>4. room' = room /\ unsure' = unsure
      BY <2>2 DEF place
    <3>5. link # "none" /\ thread = None /\ ~unsure => w.room = room
      BY DEF SaidFrom, AtHome
    <3>. HIDE DEF w
    <3>6. draft = "word" /\ draft' # "word" /\ link' # "none" =>
             (wrote'.what = "word" /\ wrote'.to = thread) \/ banner' \in {"error", "cut"}
      BY <1>0, <3>2, <3>3
    <3>7. wrote'.what = "word" =>
             wrote'.to = thread' /\ (thread' = None /\ ~unsure => wrote'.room = room')
      BY <1>0, <3>2, <3>3, <3>4, <3>5, SilenceIsNoWord
    <3>. QED
      BY <3>1, <3>6, <3>7 DEF Said
  <2>3. CASE draft = "big" /\ SayTooMuch
    BY <2>3, SilenceIsNoWord DEF SayTooMuch, Said
  <2>4. CASE draft # "word" /\ (SayCommand \/ SayUnchecked \/ SayFile \/ SayRoom)
    BY <2>4, SilenceIsNoWord DEF SayCommand, SayUnchecked, SayFile, SayRoom, Hand, Said
  <2>. QED
    BY <1>3, <2>1, <2>2, <2>3, <2>4 DEF Enter, EnterLine
<1>. QED
  BY <1>1, <1>2, <1>3 DEF Composing

LEMMA KeysSay ==
    ASSUME SaidFrom, Keys \/ Selecting
    PROVE  Said
<1>1. CASE CtrlH \/ CtrlD \/ Prompt \/ Choose
  BY <1>1, SilenceIsNoWord DEF CtrlH, CtrlD, Prompt, Choose, Quietly, Said
<1>2. CASE Esc
  <2>1. draft' = draft \/ pending # None
    BY <1>2, WhoIsShown DEF Esc, EscKey
  <2>. QED
    BY <1>2, <2>1, SilenceIsNoWord DEF Esc, Quietly, Said
<1>3. ASSUME NEW w \in Modals, OpenModal(w)
      PROVE  Said
  <2>1. open' # open
    BY <1>3, ChatIsBare DEF OpenModal, SaidFrom, Opened
  <2>. QED
    BY <1>3, <2>1, SilenceIsNoWord DEF OpenModal, Quietly, Said
<1>4. CASE Handle
  <2>1. Head(msgChan) # "word"
    BY <1>4 DEF Handle, SaidFrom, Queued, Modals
  <2>. QED
    BY <1>4, <2>1, SilenceIsNoWord DEF Handle, Hand, Said
<1>5. CASE PluginKey \/ BanSelected
  BY <1>5, SilenceIsNoWord DEF PluginKey, BanSelected, Hand, Said
<1>6. CASE Select \/ \E us \in Lists : UserList(us)
  BY <1>6, SilenceIsNoWord DEF Select, UserList, Quietly, Said
<1>. QED
  BY <1>1, <1>2, <1>3, <1>4, <1>5, <1>6 DEF Keys, Selecting

\* A word leaves the composer of a connected client only to the thread on the
\* screen, or with a complaint, or because the user gave it up, and no other
\* word is sent; one for the room goes to the room on the screen, unless a change
\* of room was missed.
THEOREM WordIsSaidWhereShown == Spec => SaidWhereShown
<1>1. InitUI => SaidFrom
  BY InitUIInv DEF InitUI, InitThreads, SameThread, SaidFrom, AtHome
<1>2. SaidFrom /\ [Next]_vars => SaidFrom'
  BY OpenedStep, QueuedStep, SameThreadStep, AtHomeStep DEF SaidFrom
<1>3. SaidFrom /\ [Next]_vars => [Said]_vars
  <2>. SUFFICES ASSUME SaidFrom, [Next]_vars, ~UNCHANGED vars
                PROVE  Said
    OBVIOUS
  <2>1. CASE Redial
    BY <2>1, SilenceIsNoWord DEF Redial, Quietly, Said
  <2>2. CASE Starting
    BY <2>2, SilenceIsNoWord DEF Starting, StartAgain, Restart, Quietly, Said
  <2>3. CASE Rest /\ wrote' = Silence
    BY <2>3, SilenceIsNoWord DEF Rest, Said
  <2>4. ASSUME NEW n \in Names, DmSay(n)
        PROVE  Said
    <3>1. thread' = n /\ n # None /\ ChatHasKeys /\ draft # "word"
      BY <2>4, FoldIsTotal, UIAssumption DEF DmSay, Entering, Go, Lines
    <3>2. wrote' = Silence \/ wrote'.to = n
      BY <2>4 DEF DmSay, Hand
    <3>. QED
      BY <3>1, <3>2, SilenceIsNoWord DEF Said
  <2>. QED
    BY <2>1, <2>2, <2>3, <2>4, StepsOfUI, ComposingSays, KeysSay DEF Rest
<1>. QED
  BY <1>1, <1>2, <1>3, PTL DEF Spec, SaidWhereShown

----------------------------------------------------------------------------
(* Where the ids of messages are. *)

\* The log in the order the server has it; the replay has reached rp on the way
\* to base, what came beside it went from reg to lv; the transcript has what was
\* delivered, and twice what came both ways.
Delivered == (1..rp) \cup ((reg + 1)..lv)

Placed ==
    /\ log \in Seq(Messages)
    /\ {rp, base, reg, lv} \subseteq 0..Len(log) /\ rp =< base /\ reg =< base /\ reg =< lv
    /\ msgs \subseteq Delivered
    /\ twice \subseteq msgs \cap (1..rp) \cap ((reg + 1)..lv)

LEMMA InitPlaced == InitUI => Placed
BY DEF InitUI, InitThreads, Placed

LEMMA PlacedStep == Placed /\ [Next]_vars => Placed'
<1>. SUFFICES ASSUME Placed, [Next]_vars PROVE Placed'
  OBVIOUS
<1>1. ASSUME NEW m \in Messages, Post(m)
      PROVE  Placed'
  <2>1. log' \in Seq(Messages) /\ Len(log') = Len(log) + 1 /\ Len(log) \in Nat
    BY <1>1 DEF Post, Placed
  <2>2. UNCHANGED <<base, rp, reg, lv, msgs, twice>>
    BY <1>1 DEF Post, transcript
  <2>3. Delivered' = Delivered /\ 0..Len(log) \subseteq 0..Len(log')
    BY <2>1, <2>2 DEF Delivered
  <2>. QED
    BY <2>1, <2>2, <2>3 DEF Placed
<1>2. CASE WsConnected
  BY <1>2 DEF WsConnected, Placed, Delivered
<1>3. ASSUME NEW i \in Arriving, Receive(i)
      PROVE  Placed'
  <2>1. i \in Nat /\ Len(log) \in Nat /\ {rp, base, reg, lv} \subseteq Nat
    BY DEF Arriving, Placed
  <2>2. /\ UNCHANGED <<log, base, reg>>
        /\ msgs' = msgs \cup {i} /\ twice' = twice \cup (msgs \cap {i})
    BY <1>3 DEF Receive
  <2>3. CASE rp < base /\ i = rp + 1 /\ rp' = i /\ lv' = lv
    <3>1. i \notin 1..rp /\ 1..rp' = (1..rp) \cup {i}
      BY <2>1, <2>3
    <3>2. i \in msgs => i \in (reg + 1)..lv
      BY <3>1 DEF Placed, Delivered
    <3>3. Delivered' = Delivered \cup {i} /\ (reg' + 1)..lv' = (reg + 1)..lv
      BY <2>2, <2>3, <3>1 DEF Delivered
    <3>4. rp' =< base' /\ rp' \in 0..Len(log)
      BY <2>1, <2>2, <2>3 DEF Placed
    <3>. QED
      BY <2>2, <2>3, <3>1, <3>2, <3>3, <3>4 DEF Placed
  <2>4. CASE lv < Len(log) /\ i = lv + 1 /\ lv' = i /\ rp' = rp
    <3>0. reg =< lv
      BY DEF Placed
    <3>1. i \notin (reg + 1)..lv /\ (reg + 1)..lv' = ((reg + 1)..lv) \cup {i}
      BY <2>1, <2>4, <3>0
    <3>2. i \in msgs => i \in 1..rp
      BY <3>1 DEF Placed, Delivered
    <3>3. Delivered' = Delivered \cup {i} /\ (reg' + 1)..lv' = ((reg + 1)..lv) \cup {i}
      BY <2>2, <2>4, <3>1 DEF Delivered
    <3>4. reg' =< lv' /\ lv' \in 0..Len(log)
      BY <2>1, <2>2, <2>4, <3>0
    <3>. QED
      BY <2>2, <2>4, <3>2, <3>3, <3>4 DEF Placed
  <2>. QED
    BY <1>3, <2>3, <2>4 DEF Receive
<1>4. CASE Clear \/ Restart
  BY <1>4 DEF Clear, Restart, netVars, Placed
<1>5. CASE UNCHANGED <<log, base, rp, reg, lv, transcript>>
  BY <1>5 DEF Placed, Delivered, transcript
<1>. QED
  BY <1>1, <1>2, <1>3, <1>4, <1>5, StepsOfThreads
  DEF Break, Lost, Notice, Enters, LeavesCounting, DmOff, Hide, Viewing, Resize, Flush, ScrollUp,
      ScrollDown, threadVars, netVars

----------------------------------------------------------------------------
(* A receipt is coming. *)

\* The flag is set only while a tick is under way that will clear it.
Ticking ==
    /\ sentId \in Nat /\ timers \in Nat
    /\ scheduled => timers > 0

LEMMA InitReceipts == InitUI => Ticking /\ ReceiptIsComing
BY DEF InitUI, InitThreads, Ticking, ReceiptIsComing

LEMMA TopOfTranscript ==
    ASSUME Placed
    PROVE  /\ Top(msgs) \in Nat /\ Top({}) = 0
           /\ \A i \in Arriving : Top(msgs \cup {i}) \in Nat
<1>1. Len(log) \in Nat /\ msgs \in SUBSET (0..Len(log))
  BY DEF Placed, Delivered
<1>2. \A i \in Arriving : msgs \cup {i} \in SUBSET (0..Len(log))
  BY <1>1 DEF Arriving, Placed
<1>3. {} \in SUBSET (0..0)
  OBVIOUS
<1>. QED
  BY <1>1, <1>2, <1>3, TopOf

LEMMA ReceiptStep == Placed /\ Ticking /\ ReceiptIsComing /\ [Next]_vars => (Ticking /\ ReceiptIsComing)'
<1>. SUFFICES ASSUME Placed, Ticking, ReceiptIsComing, [Next]_vars
              PROVE  (Ticking /\ ReceiptIsComing)'
  OBVIOUS
<1>0. \A ids : Top(ids)' = Top(ids)
  BY DEF Top
<1>1. CASE UNCHANGED <<link, msgs, receiptVars>>
  BY <1>0, <1>1 DEF Ticking, ReceiptIsComing, receiptVars
<1>2. CASE WsConnected
  BY <1>0, <1>2, TopOfTranscript DEF WsConnected, Ticking, ReceiptIsComing
<1>3. CASE Break \/ Lost
  BY <1>3 DEF Break, Lost, transcript, receiptVars, Ticking, ReceiptIsComing
<1>4. ASSUME NEW i \in Arriving, Receive(i)
      PROVE  (Ticking /\ ReceiptIsComing)'
  BY <1>0, <1>4, TopOfTranscript DEF Receive, Schedule, Ticking, ReceiptIsComing
<1>5. CASE Jump /\ UNCHANGED <<link, msgs>>
  BY <1>0, <1>5 DEF Jump, Ticking, ReceiptIsComing
<1>6. CASE Clear
  BY <1>0, <1>6, TopOfTranscript DEF Clear, Ticking, ReceiptIsComing
<1>7. CASE Flush
  BY <1>0, <1>7, TopOfTranscript DEF Flush, netVars, transcript, Ticking, ReceiptIsComing
<1>8. CASE ScrollUp \/ ScrollDown
  BY <1>0, <1>8 DEF ScrollUp, ScrollDown, Schedule, netVars, transcript, Ticking, ReceiptIsComing
<1>9. CASE Restart
  BY <1>9 DEF Restart, Ticking, ReceiptIsComing
<1>10. CASE Notice
  BY <1>0, <1>1, <1>10, TopOfTranscript
  DEF Notice, Schedule, netVars, transcript, receiptVars, Ticking, ReceiptIsComing
<1>. QED
  BY <1>1, <1>2, <1>3, <1>4, <1>5, <1>6, <1>7, <1>8, <1>9, <1>10, StepsOfThreads
  DEF Post, Enters, LeavesCounting, DmOff, Hide, Viewing, Resize, threadVars, netVars, transcript

\* While the end of the transcript is on the screen of a connected client and
\* the newest message has no receipt, a tick is under way that will send one.
THEOREM ReceiptComes == Spec => []ReceiptIsComing
<1>1. InitUI => Placed /\ Ticking /\ ReceiptIsComing
  BY InitPlaced, InitReceipts
<1>2. Placed /\ Ticking /\ ReceiptIsComing /\ [Next]_vars
      => (Placed /\ Ticking /\ ReceiptIsComing)'
  BY PlacedStep, ReceiptStep
<1>. QED
  BY <1>1, <1>2, PTL DEF Spec

----------------------------------------------------------------------------
(* Unread counts are true. *)

\* The messages received from p.
From(p) == {i \in 1..Len(log) : log[i].type = "in" /\ log[i].with = p}

\* Where the marks, the history and the file are.
Marks ==
    /\ dm \in [last : [Partners -> 0..Len(log)], hidden : SUBSET Partners]
    /\ file = dm /\ seen \subseteq 1..Len(log)
    /\ thread \in Names \cup {None}
    /\ unread \in [Partners -> Nat]

\* A thread that is not on the screen: its mark divides what was read from what
\* was not, in the whole log, and what was not read is in the transcript as
\* soon as it has been delivered.
Settled(p) ==
    \A i \in From(p) : /\ i \in seen <=> i <= dm.last[p]
                       /\ i \in Delivered \ seen => i \in msgs

\* The thread on the screen: what was not read has not been delivered, and what
\* of it is below the mark is still to come in the replay.
Showing(p) ==
    \A i \in From(p) \ seen :
        /\ i \notin Delivered
        /\ i <= dm.last[p] => rp < i /\ i <= base

Read ==
    ~blurred => \A p \in Partners : IF Active(p, thread) THEN Showing(p) /\ unread[p] = 0
                                   ELSE Settled(p)

LEMMA InitMarks == InitUI => Marks /\ Read /\ UnreadIsTrue
<1>. SUFFICES ASSUME InitUI PROVE Marks /\ Read /\ UnreadIsTrue
  OBVIOUS
<1>1. InitThreads /\ Len(log) = 0
  BY DEF InitUI, InitThreads
<1>2. Marks
  BY <1>1 DEF InitThreads, Marks, Fresh
<1>3. Read
  BY <1>1 DEF InitThreads, Read, Active, Settled, From
<1>4. UnreadIsTrue
  BY <1>1 DEF InitThreads, UnreadIsTrue
<1>. QED
  BY <1>2, <1>3, <1>4

\* The transcript and the threads in it lie in the log.
LEMMA ThreadsInLog ==
    ASSUME Placed
    PROVE  /\ Len(log) \in Nat /\ Delivered \subseteq 1..Len(log)
           /\ \A i \in Arriving : i \in 1..Len(log)
           /\ \A p, ids : /\ Thread(p, ids) \subseteq ids
                          /\ \A i \in Thread(p, ids) : log[i].with = p
BY DEF Placed, Delivered, Arriving, Thread

LEMMA TopOfThread ==
    ASSUME Placed, NEW p, NEW ids \in SUBSET (1..Len(log))
    PROVE  /\ Top(Thread(p, ids)) \in Thread(p, ids) \cup {0}
           /\ Top(Thread(p, ids)) \in 0..Len(log)
           /\ \A i \in Thread(p, ids) : i <= Top(Thread(p, ids))
<1>1. Len(log) \in Nat /\ Thread(p, ids) \in SUBSET (0..Len(log))
  <2>1. Len(log) \in Nat
    BY ThreadsInLog
  <2>2. \A i \in Thread(p, ids) : i \in 1..Len(log)
    BY DEF Thread
  <2>. QED
    BY <2>1, <2>2
<1>. QED
  BY <1>1, TopOf

LEMMA MarkedType ==
    ASSUME Placed, Marks, NEW p \in Partners, NEW ids \in SUBSET (1..Len(log)),
           NEW d \in [last : [Partners -> 0..Len(log)], hidden : SUBSET Partners]
    PROVE  /\ Marked(d, p, ids) \in [last : [Partners -> 0..Len(log)], hidden : SUBSET Partners]
           /\ Marked(d, p, ids).last
                = IF Thread(p, ids) = {} THEN d.last
                  ELSE [d.last EXCEPT ![p] = Top(Thread(p, ids))]
BY TopOfThread DEF Marked

LEMMA CountedType ==
    ASSUME Placed, NEW ids \in SUBSET (1..Len(log)), NEW again \in SUBSET (1..Len(log)),
           NEW d, NEW th
    PROVE  Counted(ids, again, d, th) \in [Partners -> Nat]
<1>1. ASSUME NEW p \in Partners, NEW S \in SUBSET (1..Len(log))
      PROVE  Cardinality(Beyond(p, S, d.last[p])) \in Nat
  <2>. DEFINE B == Beyond(p, S, d.last[p])
  <2>1. B \in SUBSET (1..Len(log)) /\ Len(log) \in Nat
    BY ThreadsInLog DEF Beyond
  <2>2. IsFiniteSet(1..Len(log))
    BY <2>1, FS_Interval
  <2>3. IsFiniteSet(B)
    BY <2>1, <2>2, FS_Subset
  <2>. QED
    BY <2>3, FS_CardinalityType
<1>2. ASSUME NEW p \in Partners
      PROVE  Cardinality(Beyond(p, ids, d.last[p])) + Cardinality(Beyond(p, again, d.last[p])) \in Nat
  <2>1. Cardinality(Beyond(p, ids, d.last[p])) \in Nat
    BY <1>1
  <2>2. Cardinality(Beyond(p, again, d.last[p])) \in Nat
    BY <1>1
  <2>. QED
    BY <2>1, <2>2
<1>. QED
  BY <1>2 DEF Counted

LEMMA GoMarks ==
    ASSUME Placed, Marks, NEW n \in Names, Go(n), log' = log
    PROVE  Marks'
<1>. DEFINE d == [dm EXCEPT !.hidden = @ \ {Fold[n]}]
            now == Marked(d, Fold[n], msgs)
<1>1. msgs \in SUBSET (1..Len(log)) /\ Fold[n] \in Partners
  BY ThreadsInLog, FoldIsTotal DEF Placed
<1>2. d \in [last : [Partners -> 0..Len(log)], hidden : SUBSET Partners]
  BY DEF Marks
<1>3. now \in [last : [Partners -> 0..Len(log)], hidden : SUBSET Partners]
  BY <1>1, <1>2, MarkedType
<1>4. Counted(msgs, twice, now, n) \in [Partners -> Nat]
  BY <1>1, CountedType DEF Placed
<1>5. seen' \subseteq 1..Len(log)
  BY <1>1, ThreadsInLog DEF Go, Marks, Thread
<1>. QED
  BY <1>3, <1>4, <1>5 DEF Go, Marks

LEMMA DeliverMarks ==
    ASSUME Placed, Marks, NEW i \in Arriving, Receive(i)
    PROVE  Marks'
<1>. DEFINE p == log[i].with
            ids == msgs \cup {i}
            again == twice \cup (msgs \cap {i})
            here == p # None /\ Active(p, thread)
            back == IF log[i].type = "in" THEN [dm EXCEPT !.hidden = @ \ {p}] ELSE dm
            now == IF here THEN Marked(back, p, ids) ELSE back
            D == [last : [Partners -> 0..Len(log)], hidden : SUBSET Partners]
<1>1. i \in 1..Len(log) /\ ids \in SUBSET (1..Len(log)) /\ again \in SUBSET (1..Len(log))
  BY ThreadsInLog DEF Placed
<1>2. back \in D
  BY DEF Marks
<1>3. now \in D
  <2>1. CASE here
    <3>1. p \in Partners
      BY <1>1, <2>1, FoldIsTotal DEF Active, Marks
    <3>. QED
      BY <1>1, <1>2, <2>1, <3>1, MarkedType
  <2>. QED
    BY <1>2, <2>1
<1>4. Counted(ids, again, now, thread) \in [Partners -> Nat]
  BY <1>1, CountedType
<1>5. file' = now
  <2>1. ~here /\ log[i].type # "in" => now = dm
    OBVIOUS
  <2>2. file' = IF here \/ log[i].type = "in" THEN now ELSE file
    BY DEF Receive
  <2>. QED
    BY <2>1, <2>2 DEF Marks
<1>6. seen' \subseteq 1..Len(log)
  BY <1>1 DEF Receive, Marks
<1>7. dm' = now /\ unread' = Counted(ids, again, now, thread) /\ thread' = thread /\ log' = log
  BY DEF Receive
<1>. QED
  BY <1>3, <1>4, <1>5, <1>6, <1>7 DEF Marks

LEMMA MarksStep == Placed /\ Marks /\ [Next]_vars => Marks'
<1>. SUFFICES ASSUME Placed, Marks, [Next]_vars PROVE Marks'
  OBVIOUS
<1>1. ASSUME NEW m \in Messages, Post(m)
      PROVE  Marks'
  <2>1. Len(log') = Len(log) + 1 /\ Len(log) \in Nat
    BY <1>1 DEF Post, Placed
  <2>. QED
    BY <1>1, <2>1 DEF Post, dmVars, Marks
<1>2. CASE Enters
  BY <1>2, GoMarks DEF Enters, netVars
<1>0. \A th : Counted(msgs, twice, dm, th) \in [Partners -> Nat]
  BY CountedType, ThreadsInLog DEF Placed
<1>3. CASE LeavesCounting \/ DmOff \/ Notice
  BY <1>0, <1>3 DEF LeavesCounting, DmOff, Notice, Leave, netVars, Marks
<1>4. ASSUME NEW n \in Names, Hide(n)
      PROVE  Marks'
  BY <1>4, FoldIsTotal DEF Hide, Leave, netVars, Marks
<1>5. CASE Restart
  BY <1>5 DEF Restart, Leave, Marks
<1>6. CASE UNCHANGED <<log, dm, file, seen, unread>> /\ (thread' = thread \/ thread' = None)
  BY <1>6 DEF Marks
<1>. QED
  BY <1>1, <1>2, <1>3, <1>4, <1>5, <1>6, DeliverMarks, StepsOfThreads
  DEF WsConnected, Break, Lost, Clear, Viewing, Resize, Flush, ScrollUp,
      ScrollDown, threadVars, netVars, dmVars

\* The received messages of p among ids, and how many copies of them in a
\* transcript were not read.
Received(p, ids) == {i \in Thread(p, ids) : log[i].type = "in"}
Unread(p, ids, again, read) ==
    Cardinality(Received(p, ids) \ read) + Cardinality(Received(p, again) \ read)

LEMMA CountedIs ==
    ASSUME NEW p \in Partners, NEW ids, NEW again, NEW d, NEW th
    PROVE  Counted(ids, again, d, th)[p]
             = IF Active(p, th) THEN 0
               ELSE Cardinality(Beyond(p, ids, d.last[p])) + Cardinality(Beyond(p, again, d.last[p]))
BY DEF Counted

\* The property is about these numbers.
UnreadMeans ==
    UnreadIsTrue <=> /\ \A i \in twice : reg < i /\ i <= base
                     /\ ~blurred /\ msgs # {} =>
                          \A p \in Partners : ~Active(p, thread) => unread[p] = Unread(p, msgs, twice, seen)

LEMMA UnreadIs == UnreadMeans
BY DEF UnreadMeans, UnreadIsTrue, Unread, Received

\* What is there twice came both ways.
Overlap == Placed => \A i \in twice : reg < i /\ i <= base

LEMMA TwiceOverlaps == Overlap
BY DEF Overlap, Placed

\* What is not delivered below something that is will come with the replay.
BelowDelivered ==
    Placed => \A j \in Nat \ {0}, d \in Delivered \cup {0} :
                 j \notin Delivered /\ j <= d => rp < j /\ j <= base

LEMMA ComesInReplay == BelowDelivered
BY DEF BelowDelivered, Placed, Delivered

\* A thread that is left, or is lost with the program, when it is settled.
LEMMA LeftSettled ==
    ASSUME Placed, Marks, Read, ~blurred, thread = None \/ ~Unsettled, NEW p \in Partners
    PROVE  Settled(p)
<1>1. CASE ~Active(p, thread)
  BY <1>1 DEF Read
<1>2. CASE Active(p, thread)
  <2>1. Showing(p) /\ ~Unsettled
    BY <1>2 DEF Read, Active
  <2>2. ~(rp < base) /\ ~(dm.last[p] < Top(Thread(p, seen)))
    BY <2>1 DEF Unsettled, Replaying
  <2>3. ASSUME NEW i \in From(p)
        PROVE  (i \in seen <=> i <= dm.last[p]) /\ (i \in Delivered \ seen => i \in msgs)
    <3>1. rp \in Nat /\ base \in Nat /\ dm.last[p] \in Nat /\ i \in Nat
      BY DEF Placed, Marks, From
    <3>2. i \in seen => i <= dm.last[p]
      <4>. HAVE i \in seen
      <4>1. i \in Thread(p, seen)
        BY DEF From, Thread
      <4>2. i <= Top(Thread(p, seen)) /\ Top(Thread(p, seen)) \in 0..Len(log)
        BY <4>1, TopOfThread DEF Marks
      <4>. QED
        BY <2>2, <3>1, <4>2
    <3>3. i \notin seen => i \notin Delivered /\ ~(i <= dm.last[p])
      BY <2>1, <2>2, <3>1 DEF Showing
    <3>. QED
      BY <3>2, <3>3
  <2>. QED
    BY <2>3 DEF Settled
<1>. QED
  BY <1>1, <1>2

\* The thread on the screen has no unread message in the transcript.
LEMMA ShownIsRead ==
    ASSUME Placed, NEW p \in Partners, Showing(p)
    PROVE  Unread(p, msgs, twice, seen) = 0
<1>1. ASSUME NEW ids \in SUBSET msgs
      PROVE  Received(p, ids) \ seen = {}
  <2>. SUFFICES ASSUME NEW i \in Received(p, ids), i \notin seen PROVE FALSE
    OBVIOUS
  <2>1. i \in msgs /\ i \in 1..Len(log) /\ log[i].type = "in" /\ log[i].with = p
    BY ThreadsInLog DEF Received, Thread, Placed
  <2>. QED
    BY <2>1 DEF Showing, From, Placed
<1>2. Received(p, msgs) \ seen = {} /\ Received(p, twice) \ seen = {}
  BY <1>1 DEF Placed
<1>. QED
  BY <1>2, FS_EmptySet DEF Unread

\* A count of what is beyond the mark of a settled thread counts what was not read.
CountsUnread ==
    \A p \in Partners : Placed /\ Marks /\ Settled(p)
        => /\ Beyond(p, msgs, dm.last[p]) = Received(p, msgs) \ seen
           /\ Beyond(p, twice, dm.last[p]) = Received(p, twice) \ seen

LEMMA SettledCount == CountsUnread
<1>. SUFFICES ASSUME NEW p \in Partners, Placed, Marks, Settled(p), NEW ids \in SUBSET msgs
              PROVE  Beyond(p, ids, dm.last[p]) = Received(p, ids) \ seen
  BY DEF CountsUnread, Placed
<1>1. ASSUME NEW i \in Received(p, ids)
      PROVE  i \in From(p) /\ i \in Nat
  BY ThreadsInLog DEF Received, Thread, Placed, From
<1>2. dm.last[p] \in Nat
  BY DEF Marks, Placed
<1>3. ASSUME NEW i \in Received(p, ids)
      PROVE  i > dm.last[p] <=> i \notin seen
  BY <1>1, <1>2 DEF Settled
<1>. QED
  BY <1>3 DEF Beyond, Received

\* A step that changes neither log, transcript, marks nor history.
LEMMA SameUnread ==
    ASSUME Read, UnreadIsTrue, dm'.last = dm.last,
           UNCHANGED <<log, base, rp, reg, lv, msgs, twice, thread, unread, seen, blurred>>
    PROVE  (Read /\ UnreadIsTrue)'
BY DEF Read, UnreadIsTrue, Settled, Showing, From, Delivered, Active, Thread

\* The thread on the screen is left for the rooms.
LEMMA LeaveStep ==
    ASSUME Placed, Marks, Read, UnreadIsTrue, Leave,
           UNCHANGED <<log, base, rp, reg, lv, msgs, twice, seen>>, dm'.last = dm.last,
           unread' = unread \/ unread' = Counted(msgs, twice, dm, None)
    PROVE  (Read /\ UnreadIsTrue)'
<1>0. thread' = None /\ \A p \in Partners : Unread(p, msgs, twice, seen)' = Unread(p, msgs, twice, seen)
  BY DEF Leave, Unread, Received, Thread
<1>. SUFFICES ASSUME ~blurred', NEW p \in Partners
              PROVE  /\ Settled(p)'
                     /\ msgs # {} => unread'[p] = Unread(p, msgs, twice, seen)
  <2>1. UnreadMeans'
    BY UnreadIs, PTL
  <2>2. \A i \in twice' : reg' < i /\ i <= base'
    BY TwiceOverlaps DEF Overlap
  <2>3. UnreadIsTrue'
    BY <1>0, <2>1, <2>2 DEF UnreadMeans
  <2>. QED
    BY <1>0, <2>3 DEF Read, Active
<1>1. ~blurred /\ (thread = None \/ ~Unsettled)
  BY DEF Leave
<1>2. Settled(p)
  BY <1>1, LeftSettled
<1>3. Settled(p)'
  BY <1>2 DEF Settled, From, Delivered
<1>4. CASE unread' = Counted(msgs, twice, dm, None)
  <2>1. ~Active(p, None)
    BY DEF Active
  <2>2. unread'[p] = Cardinality(Beyond(p, msgs, dm.last[p])) + Cardinality(Beyond(p, twice, dm.last[p]))
    BY <1>4, <2>1, CountedIs
  <2>. QED
    BY <1>2, <1>3, <2>2, SettledCount DEF CountsUnread, Unread
<1>5. CASE unread' = unread /\ ~Active(p, thread)
  BY <1>1, <1>3, <1>5, UnreadIs DEF UnreadMeans
<1>6. CASE unread' = unread /\ Active(p, thread)
  <2>1. Showing(p) /\ unread[p] = 0
    BY <1>1, <1>6 DEF Read
  <2>. QED
    BY <1>3, <1>6, <2>1, ShownIsRead
<1>. QED
  BY <1>4, <1>5, <1>6

\* The counts are rebuilt, and nothing else of this changes.
LEMMA RecountStep ==
    ASSUME Placed, Marks, Read, UnreadIsTrue, unread' = Counted(msgs, twice, dm, thread),
           UNCHANGED <<log, base, rp, reg, lv, msgs, twice, thread, dm, seen, blurred>>
    PROVE  (Read /\ UnreadIsTrue)'
<1>0. /\ \A p \in Partners : Unread(p, msgs, twice, seen)' = Unread(p, msgs, twice, seen)
      /\ \A p \in Partners : Settled(p)' = Settled(p) /\ Showing(p)' = Showing(p)
      /\ \A p \in Partners : Active(p, thread)' = Active(p, thread)
  BY DEF Unread, Received, Thread, Settled, Showing, From, Delivered, Active
<1>1. ASSUME ~blurred, NEW p \in Partners, ~Active(p, thread)
      PROVE  unread'[p] = Unread(p, msgs, twice, seen)
  <2>1. Settled(p)
    BY <1>1 DEF Read
  <2>2. unread'[p] = Cardinality(Beyond(p, msgs, dm.last[p])) + Cardinality(Beyond(p, twice, dm.last[p]))
    BY <1>1, CountedIs
  <2>. QED
    BY <2>1, <2>2, SettledCount DEF CountsUnread, Unread
<1>2. ASSUME NEW p \in Partners, Active(p, thread)
      PROVE  unread'[p] = 0
  BY <1>2, CountedIs
<1>3. UnreadMeans'
  BY UnreadIs, PTL
<1>4. UnreadIsTrue'
  BY <1>0, <1>1, <1>3, TwiceOverlaps DEF Overlap, UnreadMeans
<1>5. Read'
  BY <1>0, <1>2 DEF Read
<1>. QED
  BY <1>4, <1>5

\* A thread is entered, from the rooms, from another thread or from itself.
LEMMA EnterStep ==
    ASSUME Placed, Marks, Read, Enters
    PROVE  (Read /\ UnreadIsTrue)'
<1>. SUFFICES ASSUME ~blurred', NEW p \in Partners
              PROVE  IF Active(p, thread') THEN Showing(p)' /\ unread'[p] = 0
                     ELSE Settled(p)' /\ unread'[p] = Unread(p, msgs, twice, seen')
  <2>1. UNCHANGED <<log, base, reg, msgs, twice>>
    BY DEF Enters, netVars, transcript
  <2>2. \A q \in Partners : /\ Unread(q, msgs, twice, seen)' = Unread(q, msgs, twice, seen')
                            /\ Active(q, thread)' = Active(q, thread')
    BY <2>1 DEF Unread, Received, Thread, Active
  <2>3. UnreadMeans'
    BY UnreadIs, PTL
  <2>4. UnreadIsTrue'
    BY <2>1, <2>2, <2>3, TwiceOverlaps DEF Overlap, UnreadMeans
  <2>. QED
    BY <2>2, <2>4 DEF Read
<1>1. PICK n \in Names : Go(n)
  BY DEF Enters
<1>. DEFINE q == Fold[n]
            d == [dm EXCEPT !.hidden = @ \ {q}]
            now == Marked(d, q, msgs)
<1>2. UNCHANGED <<log, base, rp, reg, lv, msgs>> /\ From(p)' = From(p) /\ Delivered' = Delivered
  BY DEF Enters, netVars, transcript, From, Delivered
<1>3. thread' = n /\ dm' = now /\ unread' = Counted(msgs, twice, now, n) /\ seen' = seen \cup Thread(q, msgs)
  BY <1>1 DEF Go
<1>4. ~blurred /\ ~Unsettled
  BY <1>1 DEF Go, Blur
<1>5. q \in Partners /\ n # None /\ msgs \in SUBSET (1..Len(log))
  BY FoldIsTotal, ThreadsInLog DEF Placed
<1>6. dm'.last = IF Thread(q, msgs) = {} THEN dm.last ELSE [dm.last EXCEPT ![q] = Top(Thread(q, msgs))]
  <2>1. d \in [last : [Partners -> 0..Len(log)], hidden : SUBSET Partners] /\ d.last = dm.last
    BY DEF Marks
  <2>2. ASSUME NEW e \in [last : [Partners -> 0..Len(log)], hidden : SUBSET Partners]
        PROVE  Marked(e, q, msgs).last
                 = IF Thread(q, msgs) = {} THEN e.last ELSE [e.last EXCEPT ![q] = Top(Thread(q, msgs))]
    BY <1>5, MarkedType
  <2>3. Marked(d, q, msgs).last
          = IF Thread(q, msgs) = {} THEN d.last ELSE [d.last EXCEPT ![q] = Top(Thread(q, msgs))]
    BY <2>1, <2>2
  <2>. QED
    BY <1>3, <2>1, <2>3
<1>7. Settled(p)
  BY <1>4, LeftSettled
<1>8. Active(p, n) <=> p = q
  BY <1>5 DEF Active
<1>9. CASE p # q
  <2>1. dm'.last[p] = dm.last[p]
    BY <1>6, <1>9 DEF Marks
  <2>2. \A i \in From(p) : i \in seen' <=> i \in seen
    BY <1>3, <1>9 DEF From, Thread
  <2>3. Settled(p)'
    BY <1>2, <1>7, <2>1, <2>2 DEF Settled
  <2>4. \A ids : Received(p, ids) \ seen' = Received(p, ids) \ seen
    BY <1>3, <1>9 DEF Received, Thread
  <2>5. unread'[p] = Cardinality(Beyond(p, msgs, dm.last[p])) + Cardinality(Beyond(p, twice, dm.last[p]))
    BY <1>3, <1>8, <1>9, <2>1, CountedIs
  <2>6. unread'[p] = Unread(p, msgs, twice, seen')
    BY <1>7, <2>4, <2>5, SettledCount DEF CountsUnread, Unread
  <2>. QED
    BY <1>3, <1>8, <1>9, <2>3, <2>6
<1>10. CASE p = q
  <2>1. unread'[p] = 0
    BY <1>3, <1>8, <1>10, CountedIs
  <2>2. ASSUME NEW i \in From(p), i \notin seen'
        PROVE  i \notin Delivered /\ (i <= dm'.last[p] => rp < i /\ i <= base)
    <3>1. i \notin seen /\ i \notin msgs /\ i \in Nat /\ i > 0
      BY <1>3, <1>10, <2>2 DEF From, Thread
    <3>2. i \notin Delivered /\ ~(i <= dm.last[p])
      BY <1>7, <3>1 DEF Settled
    <3>3. CASE Thread(q, msgs) = {}
      BY <1>6, <3>2, <3>3
    <3>4. CASE Thread(q, msgs) # {}
      <4>1. dm'.last[p] = Top(Thread(q, msgs))
        BY <1>6, <1>10, <3>4 DEF Marks
      <4>2. Top(Thread(q, msgs)) \in Delivered \cup {0}
        BY <1>5, TopOfThread, ThreadsInLog DEF Placed
      <4>. HIDE DEF q
      <4>3. dm'.last[p] \in Delivered \cup {0}
        BY <4>1, <4>2
      <4>. QED
        BY <3>1, <3>2, <4>3, ComesInReplay DEF BelowDelivered
    <3>. QED
      BY <3>2, <3>3, <3>4
  <2>3. Showing(p)'
    BY <1>2, <2>2 DEF Showing
  <2>. QED
    BY <1>3, <1>8, <1>10, <2>1, <2>3
<1>. QED
  BY <1>9, <1>10

\* The next message of the replay, or the next one beside it, is delivered.
LEMMA DeliveredGrows ==
    ASSUME Placed, NEW i \in Arriving, Receive(i)
    PROVE  Delivered' = Delivered \cup {i}
<1>1. {rp, base, reg, lv, i} \subseteq Nat /\ reg <= lv /\ reg' = reg
  BY ThreadsInLog DEF Placed, Receive
<1>2. CASE i = rp + 1 /\ rp' = i /\ lv' = lv
  BY <1>1, <1>2 DEF Delivered
<1>3. CASE i = lv + 1 /\ lv' = i /\ rp' = rp
  BY <1>1, <1>3 DEF Delivered
<1>. QED
  BY <1>2, <1>3 DEF Receive

LEMMA DeliverStep ==
    ASSUME Placed, Placed', Marks, Read, UnreadIsTrue, NEW i \in Arriving, Receive(i)
    PROVE  (Read /\ UnreadIsTrue)'
<1>. DEFINE p == log[i].with
            ids == msgs \cup {i}
            again == twice \cup (msgs \cap {i})
            here == p # None /\ Active(p, thread)
            back == IF log[i].type = "in" THEN [dm EXCEPT !.hidden = @ \ {p}] ELSE dm
            now == IF here THEN Marked(back, p, ids) ELSE back
            D == [last : [Partners -> 0..Len(log)], hidden : SUBSET Partners]
<1>1. /\ log' = log /\ base' = base /\ reg' = reg /\ thread' = thread /\ blurred' = blurred
      /\ msgs' = ids /\ twice' = again
      /\ dm' = now /\ unread' = Counted(ids, again, now, thread)
      /\ seen' = IF here THEN seen \cup {i} ELSE seen
  BY DEF Receive
<1>2. i \in 1..Len(log) /\ ids \in SUBSET (1..Len(log)) /\ Len(log) \in Nat
  BY ThreadsInLog DEF Placed
<1>3. back \in D /\ back.last = dm.last
  BY DEF Marks
<1>. SUFFICES ASSUME ~blurred, NEW q \in Partners
              PROVE  IF Active(q, thread) THEN Showing(q)' /\ unread'[q] = 0
                     ELSE Settled(q)' /\ unread'[q] = Unread(q, msgs, twice, seen)'
  <2>1. \A r \in Partners : Active(r, thread)' = Active(r, thread)
    BY <1>1 DEF Active
  <2>2. UnreadMeans'
    BY UnreadIs, PTL
  <2>3. \A j \in twice' : reg' < j /\ j <= base'
    <3>1. Overlap'
      BY TwiceOverlaps, PTL
    <3>. QED
      BY <3>1 DEF Overlap
  <2>. HIDE DEF ids, now, again
  <2>4. UnreadIsTrue'
    BY <1>1, <2>1, <2>2, <2>3 DEF UnreadMeans
  <2>. QED
    BY <1>1, <2>1, <2>4 DEF Read
<1>4. From(q)' = From(q)
  BY <1>1 DEF From
<1>5. q # p \/ ~here => dm'.last[q] = dm.last[q]
  <2>1. CASE ~here
    BY <1>1, <1>3, <2>1
  <2>2. CASE here /\ q # p
    <3>1. p \in Partners
      BY <2>2, FoldIsTotal DEF Active, Marks
    <3>2. ASSUME NEW e \in D
          PROVE  Marked(e, p, ids).last
                   = IF Thread(p, ids) = {} THEN e.last ELSE [e.last EXCEPT ![p] = Top(Thread(p, ids))]
      BY <1>2, <3>1, MarkedType
    <3>3. Marked(back, p, ids).last
            = IF Thread(p, ids) = {} THEN back.last ELSE [back.last EXCEPT ![p] = Top(Thread(p, ids))]
      BY <1>3, <3>2
    <3>. QED
      BY <1>1, <1>3, <2>2, <3>3
  <2>. QED
    BY <2>1, <2>2
<1>6. \A j \in From(q) : j \in seen' <=> j \in seen \/ (j = i /\ here /\ q = p)
  BY <1>1 DEF From
<1>7. CASE ~Active(q, thread)
  <2>1. Settled(q)
    BY <1>7 DEF Read
  <2>2. q # p \/ ~here
    BY <1>7
  <2>3. Settled(q)'
    <3>1. \A j \in From(q) : /\ j \in seen <=> j \in seen'
                             /\ j \in Delivered' => j \in Delivered \/ j = i
      BY <1>6, <2>2, DeliveredGrows
    <3>. QED
      BY <1>1, <1>4, <1>5, <2>1, <2>2, <3>1 DEF Settled
  <2>4. Marks'
    BY DeliverMarks
  <2>5. /\ Beyond(q, msgs, dm.last[q])' = (Received(q, msgs) \ seen)'
        /\ Beyond(q, twice, dm.last[q])' = (Received(q, twice) \ seen)'
    <3>1. CountsUnread'
      BY SettledCount, PTL
    <3>. QED
      BY <2>3, <2>4, <3>1 DEF CountsUnread
  <2>6. /\ Beyond(q, msgs, dm.last[q])' = Beyond(q, ids, now.last[q])
        /\ Beyond(q, twice, dm.last[q])' = Beyond(q, again, now.last[q])
    BY <1>1 DEF Beyond, Thread
  <2>. HIDE DEF now, ids, again
  <2>7. unread'[q] = Cardinality(Beyond(q, ids, now.last[q])) + Cardinality(Beyond(q, again, now.last[q]))
    BY <1>1, <1>7, CountedIs
  <2>8. unread'[q] = Unread(q, msgs, twice, seen)'
    BY <2>5, <2>6, <2>7 DEF Unread
  <2>. QED
    BY <1>7, <2>3, <2>8
<1>8. CASE Active(q, thread)
  <2>0. unread'[q] = 0
    BY <1>1, <1>8, CountedIs
  <2>1. Showing(q)
    BY <1>8 DEF Read
  <2>2. ASSUME NEW j \in From(q), j \notin seen'
        PROVE  j \notin Delivered' /\ (j <= dm'.last[q] => rp' < j /\ j <= base)
    <3>1. j \notin seen /\ j \in Nat /\ j > 0
      BY <1>6, <2>2 DEF From
    <3>2. j # i
      <4>1. CASE log[i].with # q
        BY <4>1 DEF From
      <4>2. CASE p = q
        <5>1. here
          BY <1>8, <4>2, FoldIsTotal
        <5>. QED
          BY <1>1, <2>2, <5>1
      <4>. QED
        BY <4>1, <4>2
    <3>3. j \notin Delivered'
      BY <2>1, <3>1, <3>2, DeliveredGrows DEF Showing
    <3>4. dm'.last[q] \in Delivered' \cup {0} \/ dm'.last[q] = dm.last[q]
      <4>1. CASE here /\ q = p
        <5>1. ASSUME NEW e \in D
              PROVE  Marked(e, q, ids).last
                       = IF Thread(q, ids) = {} THEN e.last ELSE [e.last EXCEPT ![q] = Top(Thread(q, ids))]
          BY <1>2, MarkedType
        <5>2. Marked(back, q, ids).last
                = IF Thread(q, ids) = {} THEN back.last ELSE [back.last EXCEPT ![q] = Top(Thread(q, ids))]
          BY <1>3, <5>1
        <5>3. dm'.last[q] = dm.last[q] \/ dm'.last[q] = Top(Thread(q, ids))
          BY <1>1, <1>3, <4>1, <5>2 DEF Marks
        <5>4. Top(Thread(q, ids)) \in ids \cup {0}
          BY <1>2, TopOfThread, ThreadsInLog
        <5>5. ids \subseteq Delivered'
          BY <1>1 DEF Placed
        <5>. HIDE DEF ids, p
        <5>. QED
          BY <5>3, <5>4, <5>5
      <4>. QED
        BY <1>5, <4>1
    <3>5. CASE dm'.last[q] = dm.last[q]
      <4>. SUFFICES ASSUME j <= dm'.last[q] PROVE rp' < j /\ j <= base
        BY <3>3
      <4>1. rp < j /\ j <= base
        BY <2>1, <3>1, <3>5 DEF Showing
      <4>2. rp' \in Nat /\ j \notin 1..rp'
        BY <1>1, <1>2, <3>3 DEF Placed, Delivered
      <4>. QED
        BY <3>1, <4>1, <4>2
    <3>6. CASE dm'.last[q] \in Delivered' \cup {0}
      <4>1. BelowDelivered'
        BY ComesInReplay, PTL
      <4>. QED
        BY <1>1, <3>1, <3>3, <3>6, <4>1 DEF BelowDelivered
    <3>. QED
      BY <3>4, <3>5, <3>6
  <2>3. Showing(q)'
    BY <1>1, <1>4, <2>2 DEF Showing
  <2>. QED
    BY <1>8, <2>0, <2>3
<1>. QED
  BY <1>7, <1>8

\* :clear of a transcript without an unread message.
LEMMA ClearStep ==
    ASSUME Placed, Read, UnreadIsTrue, Clear
    PROVE  (Read /\ UnreadIsTrue)'
<1>1. /\ UNCHANGED <<log, base, rp, reg, lv, thread, dm, unread, seen>>
      /\ msgs # {} /\ msgs' = {} /\ twice' = {}
  BY DEF Clear, netVars
<1>2. UnreadIsTrue'
  BY <1>1 DEF UnreadIsTrue
<1>3. ASSUME ~blurred', NEW p \in Partners
      PROVE  IF Active(p, thread) THEN Showing(p) /\ unread[p] = 0
             ELSE Settled(p) /\ \A i \in From(p) : i \in Delivered => i \in seen
  <2>1. ~blurred /\ ~(unread[p] > 0)
    BY <1>3 DEF Clear
  <2>2. CASE ~Active(p, thread)
    <3>. DEFINE S == Received(p, msgs) \ seen
                T == Received(p, twice) \ seen
    <3>1. unread[p] = Cardinality(S) + Cardinality(T)
      BY <1>1, <2>1, <2>2, UnreadIs DEF UnreadMeans, Unread
    <3>2. S \in SUBSET (1..Len(log)) /\ T \in SUBSET (1..Len(log)) /\ Len(log) \in Nat
      BY ThreadsInLog DEF Received, Thread, Placed
    <3>3. IsFiniteSet(S) /\ IsFiniteSet(T)
      <4>1. IsFiniteSet(1..Len(log))
        BY <3>2, FS_Interval
      <4>. QED
        BY <3>2, <4>1, FS_Subset
    <3>4. S = {}
      <4>. HIDE DEF S, T
      <4>1. Cardinality(S) \in Nat /\ Cardinality(T) \in Nat
        BY <3>3, FS_CardinalityType
      <4>2. Cardinality(S) = 0
        BY <2>1, <3>1, <4>1
      <4>. QED
        BY <3>3, <4>2, FS_EmptySet
    <3>5. Settled(p)
      BY <2>1, <2>2 DEF Read
    <3>6. \A i \in From(p) : i \in msgs => i \in seen
      BY <3>4 DEF From, Received, Thread
    <3>. QED
      BY <2>2, <3>5, <3>6 DEF Settled
  <2>. QED
    BY <2>1, <2>2 DEF Read
<1>4. Read'
  BY <1>1, <1>3 DEF Read, Settled, Showing, From, Delivered, Active
<1>. QED
  BY <1>2, <1>4

LEMMA UnreadStep ==
    Placed /\ Placed' /\ Marks /\ Read /\ UnreadIsTrue /\ [Next]_vars => (Read /\ UnreadIsTrue)'
<1>. SUFFICES ASSUME Placed, Placed', Marks, Read, UnreadIsTrue, [Next]_vars
              PROVE  (Read /\ UnreadIsTrue)'
  OBVIOUS
<1>1. ASSUME NEW m \in Messages, Post(m)
      PROVE  (Read /\ UnreadIsTrue)'
  <2>1. /\ Len(log') = Len(log) + 1 /\ Len(log) \in Nat
        /\ \A i \in 1..Len(log) : log'[i] = log[i]
        /\ UNCHANGED <<base, rp, reg, lv, msgs, twice, dm, thread, unread, seen, blurred>>
    BY <1>1 DEF Post, Placed, dmVars, transcript
  <2>2. \A p : Thread(p, msgs)' = Thread(p, msgs) /\ Thread(p, twice)' = Thread(p, twice)
    BY <2>1, ThreadsInLog DEF Thread, Placed
  <2>3. \A p : Received(p, msgs)' = Received(p, msgs) /\ Received(p, twice)' = Received(p, twice)
    BY <2>1, <2>2, ThreadsInLog DEF Received, Thread, Placed
  <2>4. UnreadIsTrue'
    <3>1. UnreadMeans'
      BY UnreadIs, PTL
    <3>2. \A p : Unread(p, msgs, twice, seen)' = Unread(p, msgs, twice, seen)
      BY <2>1, <2>3 DEF Unread
    <3>. QED
      BY <2>1, <3>1, <3>2, UnreadIs DEF UnreadMeans, Active
  <2>5. ASSUME NEW p \in Partners, NEW i \in From(p)'
        PROVE  i \in From(p) \/ (i \notin seen /\ i \notin Delivered /\ ~(i <= dm.last[p]))
    <3>1. CASE i \in 1..Len(log)
      BY <2>1, <3>1 DEF From
    <3>2. CASE i = Len(log) + 1
      BY <2>1, <3>2, ThreadsInLog DEF Marks
    <3>. QED
      BY <2>1, <3>1, <3>2 DEF From
  <2>6. Read'
    BY <2>1, <2>5 DEF Read, Settled, Showing, Delivered, Active
  <2>. QED
    BY <2>4, <2>6
<1>2. CASE WsConnected
  <2>1. /\ UNCHANGED <<log, dm, thread, unread, seen, blurred>> /\ msgs' = {} /\ twice' = {}
        /\ base' = Len(log) /\ rp' = 0 /\ Delivered' = {}
    <3>1. reg' \in Nat /\ lv' = reg' /\ rp' = 0
      BY <1>2, ThreadsInLog DEF WsConnected
    <3>2. Delivered' = {}
      <4>1. 1..rp' = {} /\ (reg' + 1)..lv' = {}
        <5>1. 1..0 = {} /\ \A n \in Nat : (n + 1)..n = {}
          OBVIOUS
        <5>. QED
          BY <3>1, <5>1
      <4>. QED
        BY <4>1 DEF Delivered
    <3>. QED
      BY <1>2, <3>2 DEF WsConnected, dmVars
  <2>2. UnreadIsTrue'
    BY <2>1 DEF UnreadIsTrue
  <2>3. \A p \in Partners : (Showing(p) => Showing(p)') /\ (Settled(p) => Settled(p)')
    BY <2>1 DEF Showing, Settled, From
  <2>4. Read'
    BY <2>1, <2>3 DEF Read, Active
  <2>. QED
    BY <2>2, <2>4
<1>3. CASE LeavesCounting \/ DmOff
  BY <1>3, LeaveStep DEF LeavesCounting, DmOff, netVars, transcript
<1>4. CASE Notice
  BY <1>4, RecountStep DEF Notice, netVars, transcript
<1>5. ASSUME NEW n \in Names, Hide(n)
      PROVE  (Read /\ UnreadIsTrue)'
  <2>1. dm'.last = dm.last
    BY <1>5 DEF Hide, Marks
  <2>. QED
    BY <1>5, <2>1, LeaveStep, SameUnread DEF Hide, netVars, transcript, Active
<1>6. CASE Restart
  <2>1. /\ UNCHANGED <<log, dm, seen>> /\ msgs' = {} /\ twice' = {} /\ thread' = None /\ Delivered' = {}
        /\ ~blurred' => ~blurred /\ (thread = None \/ ~Unsettled)
    <3>1. Delivered' = {}
      BY <1>6 DEF Restart, Delivered
    <3>2. dm' = dm
      BY <1>6 DEF Restart, Marks
    <3>3. thread' = None /\ blurred' = (blurred \/ (thread # None /\ Unsettled))
      BY <1>6 DEF Restart, Leave
    <3>. QED
      BY <1>6, <3>1, <3>2, <3>3 DEF Restart
  <2>2. UnreadIsTrue'
    BY <2>1 DEF UnreadIsTrue
  <2>3. ~blurred' => \A p \in Partners : Settled(p)
    BY <2>1, LeftSettled
  <2>4. Read'
    BY <2>1, <2>3 DEF Read, Settled, From, Active
  <2>. QED
    BY <2>2, <2>4
<1>7. CASE UNCHANGED <<netVars, transcript, dmVars>>
  BY <1>7, SameUnread DEF netVars, transcript, dmVars
<1>8. CASE Break \/ Lost
  BY <1>8, SameUnread DEF Break, Lost, transcript, dmVars
<1>. QED
  BY <1>1, <1>2, <1>3, <1>4, <1>5, <1>6, <1>7, <1>8, DeliverStep, EnterStep, ClearStep, StepsOfThreads
  DEF Viewing, Resize, Flush, ScrollUp, ScrollDown, threadVars

\* The unread count of a thread is the number of its received messages in the
\* transcript that were never on the screen, over reconnections, replays
\* overtaken by newer messages, and restarts.
THEOREM UnreadCountsAreTrue == Spec => []UnreadIsTrue
<1>. DEFINE Inv == Placed /\ Marks /\ Read /\ UnreadIsTrue
<1>1. InitUI => Inv
  BY InitPlaced, InitMarks
<1>2. Inv /\ [Next]_vars => Inv'
  BY PlacedStep, MarksStep, UnreadStep
<1>. QED
  BY <1>1, <1>2, PTL DEF Spec

----------------------------------------------------------------------------
(* Settings survive a restart. *)

\* What the notification manager holds.
Managers ==
    [mode : Modes, bell : BOOLEAN, mentionOnly : BOOLEAN,
     desktop : BOOLEAN, onMention : BOOLEAN, onDM : BOOLEAN, onAll : BOOLEAN,
     quiet : BOOLEAN, from : Hours, to : Hours, focus : BOOLEAN]

SettingsType ==
    /\ nc \in Managers /\ cfg \in Configs /\ cfgFile \in Configs \cup {NoFile}
    /\ themeOf \in [DOMAIN Profiles -> Looks] /\ start \in Starts

\* The configuration mirrors the manager, all but the mode, the bell, which a
\* start turns on, and the focus, which is not kept.
Mirror(n, c) ==
    /\ n.mentionOnly = c.mentionOnly /\ n.desktop = c.desktop
    /\ n.onMention = c.onMention /\ n.onDM = c.onDM /\ n.onAll = c.onAll
    /\ n.quiet = c.quiet /\ n.from = c.from /\ n.to = c.to

InStep ==
    /\ Mirror(nc, cfg.notify)
    /\ saved => cfgFile = cfg
    /\ start > 0 /\ Alone(start) /\ ~lapsed => cfg.theme = themeOf[start]

LEMMA Profiled ==
    /\ Len(Profiles) \in Nat /\ DOMAIN Profiles = 1..Len(Profiles)
    /\ \A how \in Starts : how \in {Flags, Named} \/ (how > 0 /\ how \in DOMAIN Profiles)
    /\ ~(Flags > 0) /\ ~(Named > 0) /\ Flags # Named
BY SettingsAssumption DEF Starts, Flags, Named

LEMMA ThemesExist == Themes[1] \in Looks /\ DOMAIN Themes = 1..Len(Themes) /\ Len(Themes) \in Nat \ {0}
BY SettingsAssumption DEF Looks

\* The manager a configuration starts, and the configuration a manager leaves.
LEMMA FromCfgMirrors ==
    ASSUME NEW c \in Configs
    PROVE  /\ FromCfg(c.notify) \in Managers
           /\ Mirror(FromCfg(c.notify), c.notify)
           /\ FromCfg(c.notify).bell /\ ~FromCfg(c.notify).focus
<1>. DEFINE b == c.notify
            n == FromCfg(b)
<1>1. /\ b.mode \in Modes \cup {""} /\ b.mentionOnly \in BOOLEAN /\ b.desktop \in BOOLEAN
      /\ b.onMention \in BOOLEAN /\ b.onDM \in BOOLEAN /\ b.onAll \in BOOLEAN
      /\ b.quiet \in BOOLEAN /\ b.from \in Hours /\ b.to \in Hours
  BY DEF Configs, Notifications
<1>. HIDE DEF b
<1>2. Default \in Managers
  BY SettingsAssumption DEF Default, Managers, Modes
<1>3. n \in Managers
  BY <1>1, <1>2 DEF FromCfg, Managers, Modes
<1>4. /\ n.mentionOnly = b.mentionOnly /\ n.desktop = b.desktop
      /\ n.onMention = b.onMention /\ n.onDM = b.onDM /\ n.onAll = b.onAll
      /\ n.quiet = b.quiet /\ n.from = b.from /\ n.to = b.to
      /\ n.bell = TRUE /\ n.focus = FALSE
  BY DEF FromCfg, Default
<1>. USE DEF b
<1>. QED
  BY <1>3, <1>4 DEF Mirror

LEMMA ToCfgMirrors ==
    ASSUME NEW n \in Managers
    PROVE  ToCfg(n) \in Notifications /\ Mirror(n, ToCfg(n))
<1>1. DOMAIN Unset = {"mode", "bell", "mentionOnly", "desktop", "onMention", "onDM", "onAll",
                      "quiet", "from", "to"}
  BY DEF Unset
<1>2. ToCfg(n) = [mode |-> n.mode, bell |-> n.bell, mentionOnly |-> n.mentionOnly,
                  desktop |-> n.desktop, onMention |-> n.onMention, onDM |-> n.onDM,
                  onAll |-> n.onAll, quiet |-> n.quiet, from |-> n.from, to |-> n.to]
  BY <1>1 DEF ToCfg
<1>3. /\ n.mode \in Modes /\ n.bell \in BOOLEAN /\ n.mentionOnly \in BOOLEAN
      /\ n.desktop \in BOOLEAN /\ n.onMention \in BOOLEAN /\ n.onDM \in BOOLEAN
      /\ n.onAll \in BOOLEAN /\ n.quiet \in BOOLEAN /\ n.from \in Hours /\ n.to \in Hours
  BY DEF Managers
<1>4. Mirror(n, ToCfg(n))
  BY <1>2 DEF Mirror
<1>5. ASSUME NEW r, r = [mode |-> n.mode, bell |-> n.bell, mentionOnly |-> n.mentionOnly,
                  desktop |-> n.desktop, onMention |-> n.onMention, onDM |-> n.onDM,
                  onAll |-> n.onAll, quiet |-> n.quiet, from |-> n.from, to |-> n.to]
      PROVE  r \in Notifications
  BY <1>3, <1>5 DEF Notifications
<1>. QED
  BY <1>2, <1>4, <1>5

\* The zero Config.
LEMMA BlankConfig == Unset \in Notifications /\ Blank \in Configs
<1>1. 0 \in Hours
  BY SettingsAssumption DEF Hours
<1>2. Unset \in Notifications
  BY <1>1 DEF Unset, Notifications
<1>. QED
  BY <1>2, ThemesExist DEF Blank, Configs

LEMMA InitStep == InitUI => SettingsType /\ InStep
<1>. SUFFICES ASSUME InitSettings PROVE SettingsType /\ InStep
  BY DEF InitUI
<1>1. Blank \in Configs
  BY BlankConfig
<1>2. Blank.notify = Unset
  BY DEF Blank
<1>3. nc \in Managers /\ Mirror(nc, Blank.notify)
  BY <1>1, <1>2, FromCfgMirrors DEF InitSettings
<1>4. SettingsType
  BY <1>1, <1>3, Profiled, ThemesExist DEF InitSettings, SettingsType, Starts
<1>5. InStep
  BY <1>3, Profiled DEF InitSettings, InStep
<1>. QED
  BY <1>4, <1>5

\* Every command that changes what is kept writes the file.
LEMMA SaveStep ==
    ASSUME SettingsType, InStep, NEW c \in Configs, Save(c), NEW n \in Managers, nc' = n,
           Mirror(n, c.notify), UNCHANGED start,
           themeOf' \in [DOMAIN Profiles -> Looks],
           start > 0 /\ Alone(start) /\ ~lapsed' => c.theme = themeOf'[start]
    PROVE  (SettingsType /\ InStep)'
BY DEF Save, SettingsType, InStep, Alone

LEMMA KeepStep ==
    ASSUME SettingsType, InStep, NEW n \in Managers, Keep(n)
    PROVE  (SettingsType /\ InStep)'
<1>. DEFINE c == [cfg EXCEPT !.notify = ToCfg(n)]
<1>1. ToCfg(n) \in Notifications
  BY ToCfgMirrors
<1>2. c \in Configs /\ c.notify = ToCfg(n) /\ c.theme = cfg.theme
  BY <1>1 DEF SettingsType, Configs
<1>3. Mirror(n, c.notify)
  BY <1>2, ToCfgMirrors
<1>4. Save(c) /\ nc' = n /\ UNCHANGED <<themeOf, start, lapsed>>
  BY DEF Keep
<1>5. start > 0 /\ Alone(start) /\ ~lapsed' => c.theme = themeOf'[start]
  BY <1>2, <1>4 DEF InStep
<1>6. themeOf' \in [DOMAIN Profiles -> Looks]
  BY <1>4 DEF SettingsType
<1>. HIDE DEF c
<1>. QED
  BY <1>2, <1>3, <1>4, <1>5, <1>6, SaveStep

LEMMA InModeType ==
    ASSUME NEW n \in Managers, NEW mode \in Modes
    PROVE  InMode(n, mode) \in Managers
<1>. DEFINE b == mode \in {"bell", "both"}
            d == mode \in {"desktop", "both"}
            a == n.onAll \/ d
<1>1. b \in BOOLEAN /\ d \in BOOLEAN /\ a \in BOOLEAN
  OBVIOUS
<1>2. InMode(n, mode) = [n EXCEPT !.mode = mode, !.bell = b, !.desktop = d, !.onAll = a]
  BY Zenon DEF InMode, Managers
<1>. HIDE DEF a, b, d
<1>. QED
  BY <1>1, <1>2 DEF Managers

\* What the commands come down to.
LEMMA StepsOfSettings ==
    ASSUME SettingsType, SettingsNext
    PROVE  \/ \E n \in Managers : Keep(n)
           \/ \E on \in BOOLEAN : Focus(on)
           \/ \E t \in Looks : SetTheme(t)
           \/ ToggleClock
<1>0. nc \in Managers
  BY DEF SettingsType
<1>1. CASE ToggleBell
  BY <1>0, <1>1 DEF ToggleBell, Managers
<1>2. CASE ToggleMention
  BY <1>0, <1>2 DEF ToggleMention, Managers
<1>3. CASE ToggleDesktop
  BY <1>0, <1>3 DEF ToggleDesktop, Managers
<1>4. CASE QuietOff
  BY <1>0, <1>4, SettingsAssumption DEF QuietOff, Managers
<1>5. ASSUME NEW mode \in Modes, NotifyMode(mode)
      PROVE  \E n \in Managers : Keep(n)
  <2>1. \A m \in Modes : InMode(nc, m) \in Managers
    BY <1>0, InModeType
  <2>. QED
    BY <1>0, <1>5, <2>1 DEF NotifyMode, Modes
<1>6. ASSUME NEW q \in Quiets, Quiet(q)
      PROVE  \E n \in Managers : Keep(n)
  <2>1. q[1] \in Hours /\ q[2] \in Hours
    BY SettingsAssumption
  <2>. QED
    BY <1>0, <1>6, <2>1 DEF Quiet, Managers
<1>7. ASSUME NEW i \in DOMAIN Themes, SetTheme(Themes[i])
      PROVE  \E t \in Looks : SetTheme(t)
  BY <1>7 DEF Looks
<1>8. CASE CycleTheme
  <2>. DEFINE i == CHOOSE j \in DOMAIN Themes : Themes[j] = cfg.theme
              k == (i % Len(Themes)) + 1
  <2>1. cfg.theme \in Looks
    BY DEF SettingsType, Configs
  <2>2. i \in 1..Len(Themes)
    BY <2>1, ThemesExist DEF Looks
  <2>. HIDE DEF i
  <2>3. k \in DOMAIN Themes
    BY <2>2, ThemesExist
  <2>. QED
    BY <1>7, <1>8, <2>3 DEF CycleTheme, i
<1>. QED
  BY <1>1, <1>2, <1>3, <1>4, <1>5, <1>6, <1>7, <1>8 DEF SettingsNext, SoundNext, LookNext

\* A profile that alone connects as it does is the one updateProfileTheme finds.
LEMMA AloneIsFirst ==
    ASSUME NEW p \in DOMAIN Profiles, Alone(p)
    PROVE  First(p) = p
<1>1. \A j \in 1..(p - 1) : j \in DOMAIN Profiles \ {p}
  BY Profiled
<1>2. \A j \in 1..(p - 1) : Profiles[j] # Profiles[p]
  BY <1>1 DEF Alone
<1>. QED
  BY <1>2 DEF First, Alone

LEMMA SettingsStep == SettingsType /\ InStep /\ SettingsNext => (SettingsType /\ InStep)'
<1>. SUFFICES ASSUME SettingsType, InStep, SettingsNext PROVE (SettingsType /\ InStep)'
  OBVIOUS
<1>1. CASE \E n \in Managers : Keep(n)
  BY <1>1, KeepStep
<1>2. ASSUME NEW on \in BOOLEAN, Focus(on)
      PROVE  (SettingsType /\ InStep)'
  <2>1. nc' \in Managers
    BY <1>2 DEF Focus, SettingsType, Managers
  <2>2. Mirror(nc', cfg.notify)
    BY <1>2 DEF Focus, SettingsType, Managers, InStep, Mirror
  <2>. QED
    BY <1>2, <2>1, <2>2 DEF Focus, SettingsType, InStep, Alone
<1>3. ASSUME NEW t \in Looks, SetTheme(t)
      PROVE  (SettingsType /\ InStep)'
  <2>. DEFINE c == [cfg EXCEPT !.theme = t]
              f == First(IF start > 0 THEN start ELSE 1)
  <2>1. c \in Configs /\ c.notify = cfg.notify /\ c.theme = t
    BY DEF SettingsType, Configs
  <2>2. /\ Save(c) /\ nc' = nc /\ start' = start
        /\ themeOf' = [themeOf EXCEPT ![f] = t] \/ (themeOf' = themeOf /\ lapsed')
    BY <1>3 DEF SetTheme
  <2>3. start > 0 => start \in DOMAIN Profiles
    BY Profiled DEF SettingsType
  <2>4. start > 0 /\ Alone(start) => f = start
    BY <2>3, AloneIsFirst
  <2>. HIDE DEF c, f
  <2>5. themeOf' \in [DOMAIN Profiles -> Looks]
    BY <2>2 DEF SettingsType
  <2>6. start > 0 /\ Alone(start) /\ ~lapsed' => c.theme = themeOf'[start]
    BY <2>1, <2>2, <2>3, <2>4 DEF SettingsType
  <2>7. nc \in Managers /\ Mirror(nc, c.notify)
    BY <2>1 DEF SettingsType, InStep
  <2>. QED
    BY <2>1, <2>2, <2>5, <2>6, <2>7, SaveStep
<1>4. CASE ToggleClock
  <2>. DEFINE c == [cfg EXCEPT !.clock24 = ~@]
  <2>1. c \in Configs /\ c.notify = cfg.notify /\ c.theme = cfg.theme
    BY DEF SettingsType, Configs
  <2>2. Save(c) /\ nc' = nc /\ start' = start /\ themeOf' = themeOf /\ lapsed' = lapsed
    BY <1>4 DEF ToggleClock
  <2>3. nc \in Managers /\ Mirror(nc, c.notify)
    BY <2>1 DEF SettingsType, InStep
  <2>. HIDE DEF c
  <2>4. start > 0 /\ Alone(start) /\ ~lapsed' => c.theme = themeOf'[start]
    BY <2>1, <2>2 DEF InStep
  <2>5. themeOf' \in [DOMAIN Profiles -> Looks]
    BY <2>2 DEF SettingsType
  <2>. QED
    BY <2>1, <2>2, <2>3, <2>4, <2>5, SaveStep
<1>. QED
  BY <1>1, <1>2, <1>3, <1>4, StepsOfSettings

LEMMA StartStep ==
    ASSUME SettingsType, InStep, NEW how \in Starts, StartSettings(how)
    PROVE  (SettingsType /\ InStep)'
<1>3. PICK c \in IF how \in {Flags, Named} THEN FlagConfigs(how) ELSE {ProfileConfig(how)} :
         /\ start' = how /\ cfg' = c /\ nc' = FromCfg(c.notify) /\ saved' = FALSE
         /\ UNCHANGED <<cfgFile, themeOf>>
  BY DEF StartSettings
<1>1. c \in Configs
  <2>1. CASE how \in {Flags, Named}
    <3>1. Blank \in Configs
      BY BlankConfig
    <3>. QED
      BY <1>3, <2>1, <3>1, SettingsAssumption DEF FlagConfigs, SettingsType
  <2>2. CASE how \notin {Flags, Named}
    <3>1. themeOf[how] \in Looks
      BY <2>2, Profiled DEF SettingsType
    <3>2. c = [theme |-> themeOf[how], clock24 |-> TRUE, notify |-> Unset]
      BY <2>2 DEF ProfileConfig
    <3>3. Unset \in Notifications
      BY BlankConfig
    <3>. QED
      BY <3>1, <3>2, <3>3 DEF Configs
  <2>. QED
    BY <2>1, <2>2
<1>2. how > 0 => c.theme = themeOf[how]
  BY <1>3, Profiled DEF ProfileConfig
<1>4. nc' \in Managers /\ Mirror(nc', c.notify)
  BY <1>1, <1>3, FromCfgMirrors
<1>5. SettingsType'
  BY <1>1, <1>3, <1>4 DEF SettingsType
<1>6. InStep'
  BY <1>2, <1>3, <1>4 DEF InStep, Alone
<1>. QED
  BY <1>5, <1>6

\* A start from the flags after a save, and one from the same profile.
LEMMA StartSurvives ==
    ASSUME SettingsType, InStep, NEW how \in Starts, StartSettings(how)
    PROVE  /\ saved /\ how = Flags =>
                /\ cfg' = cfg
                /\ nc.bell /\ ~nc.focus =>
                    \A level \in Levels, h \in Hours : Heard(nc', level, h) = Heard(nc, level, h)
           /\ how > 0 /\ how = start /\ Alone(how) /\ ~lapsed => cfg'.theme = cfg.theme
<1>1. (saved => cfgFile = cfg) /\ supported' = supported
  BY DEF StartSettings, InStep
<1>2. ASSUME saved, how = Flags
      PROVE  /\ cfg' = cfg
             /\ nc.bell /\ ~nc.focus =>
                    \A level \in Levels, h \in Hours : Heard(nc', level, h) = Heard(nc, level, h)
  <2>1. cfg' = cfg /\ nc' = FromCfg(cfg.notify)
    BY <1>1, <1>2, Profiled, SettingsAssumption DEF StartSettings, FlagConfigs, SettingsType
  <2>2. /\ Mirror(nc', cfg.notify) /\ Mirror(nc, cfg.notify)
        /\ nc'.bell /\ ~nc'.focus
    BY <2>1, FromCfgMirrors DEF SettingsType, InStep
  <2>3. ASSUME nc.bell, ~nc.focus, NEW level \in Levels, NEW h \in Hours
        PROVE  Heard(nc', level, h) = Heard(nc, level, h)
    <3>1. IsQuiet(nc', h) <=> IsQuiet(nc, h)
      BY <2>2 DEF IsQuiet, Mirror
    <3>2. Bell(nc', level) <=> Bell(nc, level)
      BY <2>2, <2>3 DEF Bell, Mirror
    <3>3. Desktop(nc', level) <=> Desktop(nc, level)
      BY <2>2 DEF Desktop, Mirror
    <3>. QED
      BY <1>1, <2>2, <2>3, <3>1, <3>2, <3>3 DEF Heard
  <2>. QED
    BY <2>1, <2>3
<1>3. ASSUME how > 0, how = start, Alone(how), ~lapsed
      PROVE  cfg'.theme = cfg.theme
  <2>1. cfg'.theme = themeOf[how]
    BY <1>3, Profiled DEF StartSettings, ProfileConfig
  <2>. QED
    BY <1>3, <2>1 DEF InStep
<1>. QED
  BY <1>2, <1>3

\* After a save, a start from the flags rings for every kind of message at every
\* hour and looks as before, with the bell on and the focus off; and a profile
\* that alone connects as it does keeps its theme.
THEOREM SettingsOutliveRestart == Spec => SettingsSurvive
<1>. DEFINE Inv == SettingsType /\ InStep
<1>1. InitUI => Inv
  BY InitStep
<1>2. Inv /\ [Next]_vars => \/ SettingsNext
                            \/ \E how \in Starts : StartSettings(how)
                            \/ UNCHANGED settingVars
  <2>1. CommandStep /\ Inv => SettingsNext
    BY DEF CommandStep, SettingsNext, SoundNext
  <2>. QED
    BY <2>1 DEF Next, vars, KeyStep, Still, DmSay, Redial, StartAgain, Starts
<1>3. Inv /\ [Next]_vars => Inv'
  <2>1. UNCHANGED settingVars /\ Inv => Inv'
    BY DEF settingVars, SettingsType, InStep, Alone
  <2>. QED
    BY <1>2, <2>1, SettingsStep, StartStep
<1>4. Inv => Survives
  BY StartSurvives DEF Survives
<1>. QED
  BY <1>1, <1>3, <1>4, PTL DEF Spec, SettingsSurvive
=============================================================================
