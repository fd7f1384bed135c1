----------------------------- MODULE ClientConn -----------------------------
(***************************************************************************)
(* The connection of the terminal client: the event loop of Bubble Tea, the *)
(* commands it runs in goroutines of their own, the reader and the pinger    *)
(* of every connection, and the handler of signals.  They share the fields   *)
(* m.conn, m.msgChan and m.connected without a lock.                         *)
(*                                                                         *)
(* A connection is a number; so is the channel made for it.  Channel 0 is    *)
(* the one Init makes.  A message of the server is its number.  The debounce *)
(* and the delays are left out: a timer that runs may fire.                  *)
(***************************************************************************)
EXTENDS Naturals, Sequences, FiniteSets, SequencesExt

CONSTANTS
    Cap,        \* capacity of m.msgChan
    MaxConns,   \* bound: connections made
    MaxMsgs,    \* bound: messages of the server per connection
    MaxExtra    \* bound: failing handshakes, refused user names, normal closures,
                \* signals, and keys whose handler returns listenWebSocket, in all

ASSUME ClientConnAssumption ==
    {Cap, MaxConns, MaxMsgs} \subseteq Nat \ {0} /\ MaxExtra \in Nat

VARIABLES
    conn,       \* m.conn, 0 for nil
    chan,       \* m.msgChan
    connected,  \* m.connected
    queue,      \* what is in the channels
    made,       \* connections made so far
    net,        \* messages that are on their way on each connection
    sent,       \* messages the server has put there
    line,       \* "up"; "lost"; "normal", if the other end closed it with the code
                \* of a normal closure; or "closed" by this client
    reader,     \* the goroutine that reads a connection
    pinger,     \* the goroutine that pings it
    listeners,  \* commands that wait for each channel
    inbox,      \* results of commands the event loop has not handled
    dials,      \* commands that connect: waiting for the network
    shakes,     \* ... and about to send the handshake
    ticks,      \* timers that reconnect
    ui,         \* the event loop
    after,      \* what it does after closeWebSocket
    signal,     \* the goroutine that waits for an interrupt
    crashed,    \* "no", or who called a method of a nil connection
    fails, keys,    \* counters of the bounds
    handled,    \* history: messages of the server the event loop has handled
    overtaken,  \* history: messages that were not, when a later one was
    dropped     \* history: messages deliverWSMsg dropped

fields == <<conn, chan, connected>>
wire == <<made, net, sent, line>>
threads == <<reader, pinger>>
tasks == <<listeners, dials, shakes, ticks>>
loop == <<ui, after, signal>>
hist == <<handled, overtaken, dropped>>
connVars == <<fields, queue, wire, threads, inbox, tasks, loop, crashed, fails, keys, hist>>

Conns == 1..MaxConns
Channels == 0..MaxConns

Msg(k, g, n) == [k |-> k, conn |-> g, n |-> n]
Chat(g, n) == Msg("chat", g, n)
Err(g) == Msg("err", g, 0)              \* wsErr
UserErr(g) == Msg("user", g, 0)         \* wsUsernameError
Closed(g) == Msg("closed", g, 0)        \* wsReaderClosed
Connected(g) == Msg("connected", g, 0)  \* wsConnected
Quit == Msg("quit", 0, 0)

At(pc, m) == [pc |-> pc, m |-> m]
Nothing == Msg("none", 0, 0)
Idle == At("none", Nothing)

Init ==
    /\ conn = 0 /\ chan = 0 /\ connected = FALSE
    /\ queue = [c \in Channels |-> <<>>]
    /\ made = 0 /\ net = [g \in Conns |-> <<>>] /\ sent = [g \in Conns |-> 0]
    /\ line = [g \in Conns |-> "up"]
    /\ reader = [g \in Conns |-> Idle] /\ pinger = [g \in Conns |-> "none"]
    /\ listeners = [c \in Channels |-> 0] /\ inbox = {}
    /\ dials = 1 /\ shakes = 0 /\ ticks = 0
    /\ ui = "run" /\ after = "none" /\ signal = "none"
    /\ crashed = "no" /\ fails = 0 /\ keys = 0
    /\ handled = {} /\ overtaken = {} /\ dropped = {}

InBudget == fails + keys + (IF signal = "none" THEN 0 ELSE 1) < MaxExtra
Running == crashed = "no" /\ ui # "exited"

\* m.wg: the readers and pingers that have been started and have not ended.
Waited(g) == reader[g].pc \notin {"none", "done"} \/ pinger[g] \notin {"none", "done"}
AllEnded == \A g \in Conns : ~Waited(g)

----------------------------------------------------------------------------
(* The server and the network.                                               *)

ServerSends(g) ==
    /\ g <= made /\ line[g] = "up" /\ sent[g] < MaxMsgs
    /\ sent' = [sent EXCEPT ![g] = @ + 1]
    /\ net' = [net EXCEPT ![g] = Append(@, sent'[g])]
    /\ UNCHANGED <<fields, queue, made, line, threads, inbox, tasks, loop, crashed,
                   fails, keys, hist>>

\* The connection breaks or the other end closes it.
LineLost(g) ==
    /\ g <= made /\ line[g] = "up"
    /\ \/ line' = [line EXCEPT ![g] = "lost"] /\ UNCHANGED fails
       \/ /\ InBudget /\ fails' = fails + 1
          /\ line' = [line EXCEPT ![g] = "normal"]
    /\ UNCHANGED <<fields, queue, made, net, sent, threads, inbox, tasks, loop,
                   crashed, keys, hist>>

----------------------------------------------------------------------------
(* connectWebSocket, in a goroutine of its own.                              *)

\* The dial fails.
DialFails ==
    /\ Running /\ dials > 0 /\ InBudget
    /\ dials' = dials - 1 /\ fails' = fails + 1
    /\ \E m \in {Err(0), UserErr(0)} : inbox' = inbox \cup {m}
    /\ UNCHANGED <<fields, queue, wire, threads, listeners, shakes, ticks, loop,
                   crashed, keys, hist>>

\* The dial succeeds: the fields of the model are replaced.
DialSucceeds ==
    /\ Running /\ dials > 0 /\ made < MaxConns
    /\ made' = made + 1 /\ dials' = dials - 1 /\ shakes' = shakes + 1
    /\ conn' = made' /\ connected' = TRUE /\ chan' = made'
    /\ UNCHANGED <<queue, net, sent, line, threads, inbox, listeners, ticks, loop,
                   crashed, fails, keys, hist>>

\* abortPartialWebSocketConnect.
HandshakeFails ==
    /\ Running /\ shakes > 0 /\ InBudget
    /\ shakes' = shakes - 1 /\ fails' = fails + 1
    /\ line' = IF conn = 0 THEN line ELSE [line EXCEPT ![conn] = "closed"]
    /\ conn' = 0 /\ connected' = FALSE
    /\ inbox' = inbox \cup {Err(0)}
    /\ UNCHANGED <<chan, queue, made, net, sent, threads, listeners, dials, ticks,
                   loop, crashed, keys, hist>>

\* The handshake is written, and the goroutines are started.
HandshakeSucceeds ==
    /\ Running /\ shakes > 0
    /\ shakes' = shakes - 1
    /\ IF conn = 0
       THEN crashed' = "goroutine" /\ UNCHANGED <<threads, inbox>>
       ELSE /\ reader' = [reader EXCEPT ![made] = At("loop", Nothing)]
            /\ pinger' = [pinger EXCEPT ![made] = "wait"]
            /\ inbox' = inbox \cup {Connected(made)}
            /\ UNCHANGED crashed
    /\ UNCHANGED <<fields, queue, wire, listeners, dials, ticks, loop, fails, keys, hist>>

----------------------------------------------------------------------------
(* The reader.                                                               *)

ReaderTo(g, pc, m) == reader' = [reader EXCEPT ![g] = At(pc, m)]

\* for { m.conn.ReadMessage(): the field is read in every round.
ReadLoop(g) ==
    /\ Running /\ reader[g].pc = "loop"
    /\ IF conn = 0 THEN crashed' = "goroutine" /\ UNCHANGED reader
                   ELSE ReaderTo(g, "read", Chat(conn, 0)) /\ UNCHANGED crashed
    /\ UNCHANGED <<fields, queue, wire, pinger, inbox, tasks, loop, fails, keys, hist>>

ReadMessage(g) ==
    /\ Running /\ reader[g].pc = "read"
    /\ LET c == reader[g].m.conn IN
       /\ line[c] # "closed" /\ net[c] # <<>>
       /\ ReaderTo(g, "deliver", Chat(c, Head(net[c])))
       /\ net' = [net EXCEPT ![c] = Tail(@)]
    /\ UNCHANGED <<fields, queue, made, sent, line, pinger, inbox, tasks, loop,
                   crashed, fails, keys, hist>>

\* A close with the text of a duplicate user name, a normal closure, which is
\* only logged, or any other error.
ReadError(g) ==
    /\ Running /\ reader[g].pc = "read"
    /\ LET c == reader[g].m.conn IN
       /\ line[c] = "closed" \/ (line[c] # "up" /\ net[c] = <<>>)
       /\ \/ line[c] # "normal" /\ ReaderTo(g, "deliver", Err(g)) /\ UNCHANGED fails
          \/ line[c] = "normal" /\ ReaderTo(g, "deliver", Closed(g)) /\ UNCHANGED fails
          \/ /\ line[c] = "lost" /\ InBudget /\ fails' = fails + 1
             /\ ReaderTo(g, "deliver", UserErr(g))
    /\ UNCHANGED <<fields, queue, wire, pinger, inbox, tasks, loop, crashed, keys, hist>>

\* What the reader does after m is delivered; the last message is deferred.
Then(g, m) == CASE m.k = "chat" -> ReaderTo(g, "loop", Nothing)
                [] m.k = "closed" -> ReaderTo(g, "done", Nothing)
                [] OTHER -> ReaderTo(g, "deliver", Closed(g))

\* deliverWSMsg: select { case m.msgChan <- msg: default: }
Deliver(g) ==
    /\ Running /\ reader[g].pc = "deliver"
    /\ LET m == reader[g].m IN
       IF Len(queue[chan]) < Cap
       THEN queue' = [queue EXCEPT ![chan] = Append(@, m)] /\ Then(g, m)
       ELSE ReaderTo(g, "full", m) /\ UNCHANGED queue
    /\ UNCHANGED <<fields, wire, pinger, inbox, tasks, loop, crashed, fails, keys, hist>>

\* if len(m.msgChan) > 0
TestLength(g) ==
    /\ Running /\ reader[g].pc = "full"
    /\ ReaderTo(g, IF queue[chan] # <<>> THEN "drain" ELSE "retry", reader[g].m)
    /\ UNCHANGED <<fields, queue, wire, pinger, inbox, tasks, loop, crashed, fails,
                   keys, hist>>

\* <-m.msgChan waits when a listener has emptied the channel in between.
Drain(g) ==
    /\ Running /\ reader[g].pc = "drain" /\ queue[chan] # <<>>
    /\ queue' = [queue EXCEPT ![chan] = Tail(@)]
    /\ dropped' = dropped \cup {Head(queue[chan])}
    /\ ReaderTo(g, "retry", reader[g].m)
    /\ UNCHANGED <<fields, wire, pinger, inbox, tasks, loop, crashed, fails, keys, handled, overtaken>>

Retry(g) ==
    /\ Running /\ reader[g].pc = "retry"
    /\ LET m == reader[g].m IN
       /\ Then(g, m)
       /\ IF Len(queue[chan]) < Cap
          THEN queue' = [queue EXCEPT ![chan] = Append(@, m)] /\ UNCHANGED dropped
          ELSE dropped' = dropped \cup {m} /\ UNCHANGED queue
    /\ UNCHANGED <<fields, wire, pinger, inbox, tasks, loop, crashed, fails, keys, handled, overtaken>>

Reader(g) ==
    ReadLoop(g) \/ ReadMessage(g) \/ ReadError(g) \/ Deliver(g) \/ TestLength(g)
    \/ Drain(g) \/ Retry(g)

----------------------------------------------------------------------------
(* The pinger: tests m.conn, then uses it.                                   *)

PingTick(g) ==
    /\ Running /\ pinger[g] = "wait" /\ conn # 0
    /\ pinger' = [pinger EXCEPT ![g] = "ping"]
    /\ UNCHANGED <<fields, queue, wire, reader, inbox, tasks, loop, crashed, fails,
                   keys, hist>>

\* A failed ping ends the goroutine and is only logged.
Ping(g) ==
    /\ Running /\ pinger[g] = "ping"
    /\ IF conn = 0 THEN crashed' = "goroutine" /\ UNCHANGED pinger
       ELSE /\ pinger' = [pinger EXCEPT ![g] = IF line[conn] = "up" THEN "wait" ELSE "done"]
            /\ UNCHANGED crashed
    /\ UNCHANGED <<fields, queue, wire, reader, inbox, tasks, loop, fails, keys, hist>>

\* case <-m.ctx.Done(): the context of the last connection.
PingCancelled(g) ==
    /\ Running /\ pinger[g] = "wait" /\ line[made] = "closed"
    /\ pinger' = [pinger EXCEPT ![g] = "done"]
    /\ UNCHANGED <<fields, queue, wire, reader, inbox, tasks, loop, crashed, fails,
                   keys, hist>>

Pinger(g) == PingTick(g) \/ Ping(g) \/ PingCancelled(g)

----------------------------------------------------------------------------
(* The commands that wait, the timer, and the event loop.                    *)

\* listenWebSocket has a message.
Listened(c) ==
    /\ Running /\ listeners[c] > 0 /\ queue[c] # <<>>
    /\ listeners' = [listeners EXCEPT ![c] = @ - 1]
    /\ queue' = [queue EXCEPT ![c] = Tail(@)]
    /\ inbox' = inbox \cup {Head(queue[c])}
    /\ UNCHANGED <<fields, wire, threads, dials, shakes, ticks, loop, crashed, fails,
                   keys, hist>>

\* tea.Tick: m.Init()() makes a channel and connects.
Tick ==
    /\ Running /\ ui = "run" /\ ticks > 0
    /\ ticks' = ticks - 1 /\ dials' = dials + 1
    /\ chan' = 0 /\ queue' = [queue EXCEPT ![0] = <<>>]
    /\ UNCHANGED <<conn, connected, wire, threads, inbox, listeners, shakes, loop,
                   crashed, fails, keys, hist>>

Update(m) == Running /\ ui = "run" /\ m \in inbox /\ inbox' = inbox \ {m}
Listen == listeners' = [listeners EXCEPT ![chan] = @ + 1]

\* Mutant: two commands listen.
OnConnectedTwice(g) ==
    /\ Update(Connected(g)) /\ listeners' = [listeners EXCEPT ![chan] = @ + 2]
    /\ connected' = TRUE
    /\ UNCHANGED <<conn, chan, queue, wire, threads, dials, shakes, ticks, loop,
                   crashed, fails, keys, hist>>

\* case wsConnected; the transcript is dropped.
OnConnected(g) ==
    /\ Update(Connected(g)) /\ Listen
    /\ connected' = TRUE
    /\ UNCHANGED <<conn, chan, queue, wire, threads, dials, shakes, ticks, loop,
                   crashed, fails, keys, hist>>


\* case shared.Message, and wsMsg.
OnMessage(g, n) ==
    /\ Update(Chat(g, n)) /\ Listen
    /\ handled' = handled \cup {Chat(g, n)}
    /\ overtaken' = (overtaken \ {Chat(g, n)})
          \cup ({Chat(g, i) : i \in 1..(n - 1)} \ (handled \cup dropped))
    /\ UNCHANGED <<fields, queue, wire, threads, dials, shakes, ticks, loop, crashed,
                   fails, keys, dropped>>

\* Mutant: the connection is forgotten.
OnReaderClosedClears(g) ==
    /\ Update(Closed(g)) /\ conn' = 0
    /\ UNCHANGED <<chan, connected, queue, wire, threads, tasks, loop, crashed, fails,
                   keys, hist>>

\* case wsReaderClosed: nobody listens any more.
OnReaderClosed(g) ==
    /\ Update(Closed(g))
    /\ UNCHANGED <<fields, queue, wire, threads, tasks, loop, crashed, fails, keys, hist>>

\* Mutant: neither the context nor the connection is ended.
CloseNothing == conn' = 0 /\ UNCHANGED line

\* closeWebSocket up to m.wg.Wait(); the context goes with the connection.
CloseFields ==
    /\ line' = IF conn = 0 THEN line ELSE [line EXCEPT ![conn] = "closed"]
    /\ conn' = 0

CloseThen(what) ==
    /\ CloseFields /\ ui' = "closing" /\ after' = what
    /\ UNCHANGED <<chan, queue, made, net, sent, threads, tasks, signal, crashed,
                   fails, hist>>

\* case wsErr, and case wsUsernameError, which does not reconnect.
OnErr(g) == Update(Err(g)) /\ connected' = FALSE /\ CloseThen("retry") /\ UNCHANGED keys
OnUsernameErr(g) ==
    Update(UserErr(g)) /\ connected' = FALSE /\ CloseThen("stop") /\ UNCHANGED keys

\* :q and the quit key.
OnQuitKey ==
    /\ Running /\ ui = "run" /\ CloseThen("quit")
    /\ UNCHANGED <<connected, inbox, keys>>

\* A key whose handler sends something if it can, and listens once more.  An
\* error on the way may return no command instead: no listener was used up, and
\* the step changes nothing here.
OnSendKey ==
    /\ Running /\ ui = "run" /\ InBudget /\ keys' = keys + 1 /\ Listen
    /\ UNCHANGED <<fields, queue, wire, threads, inbox, dials, shakes, ticks, loop,
                   crashed, fails, hist>>

\* :join and :leave do not test m.conn.
OnJoinKey ==
    /\ Running /\ ui = "run" /\ conn = 0 /\ crashed' = "key"
    /\ UNCHANGED <<fields, queue, wire, threads, inbox, tasks, loop, fails, keys, hist>>

\* case quitMsg.
OnQuit ==
    /\ Update(Quit) /\ ui' = "quit"
    /\ UNCHANGED <<fields, queue, wire, threads, tasks, after, signal, crashed, fails,
                   keys, hist>>

\* m.wg.Wait() returns.
CloseEnds ==
    /\ Running /\ ui = "closing" /\ AllEnded
    /\ ui' = IF after = "quit" THEN "quit" ELSE "run"
    /\ ticks' = IF after = "retry" THEN ticks + 1 ELSE ticks
    /\ after' = "none"
    /\ UNCHANGED <<fields, queue, wire, threads, inbox, listeners, dials, shakes,
                   signal, crashed, fails, keys, hist>>

\* The goroutine of main that waits for a signal.
Interrupted ==
    /\ Running /\ InBudget /\ signal = "none" /\ signal' = "closing"
    /\ CloseFields
    /\ UNCHANGED <<chan, connected, queue, made, net, sent, threads, inbox, tasks,
                   ui, after, crashed, fails, keys, hist>>

InterruptEnds ==
    /\ Running /\ signal = "closing" /\ AllEnded
    /\ signal' = "sent" /\ inbox' = inbox \cup {Quit}
    /\ UNCHANGED <<fields, queue, wire, threads, tasks, ui, after, crashed, fails,
                   keys, hist>>

\* p.Run has returned; main waits for the goroutines.
Exit ==
    /\ Running /\ ui = "quit" /\ AllEnded
    /\ ui' = "exited"
    /\ UNCHANGED <<fields, queue, wire, threads, inbox, tasks, after, signal, crashed,
                   fails, keys, hist>>

----------------------------------------------------------------------------
Connects == DialFails \/ DialSucceeds \/ HandshakeFails \/ HandshakeSucceeds
Handles ==
    \/ \E g \in Conns : OnConnected(g) \/ OnReaderClosed(g)
    \/ \E g \in Conns, n \in 1..MaxMsgs : OnMessage(g, n)
    \/ \E g \in Channels : OnErr(g) \/ OnUsernameErr(g)
    \/ OnQuit \/ CloseEnds
Environment ==
    \/ \E g \in Conns : ServerSends(g) \/ LineLost(g)
    \/ OnQuitKey \/ OnSendKey \/ OnJoinKey \/ Interrupted

ConnNext ==
    \/ Environment \/ Connects \/ Tick \/ Handles \/ InterruptEnds \/ Exit
    \/ \E g \in Conns : Reader(g) \/ Pinger(g)
    \/ \E c \in Channels : Listened(c)

\* Goroutines are scheduled, commands run, and a dial has an outcome.  Nothing
\* is assumed of the server, the network and the user.
Fairness ==
    /\ WF_connVars(Connects) /\ WF_connVars(Tick) /\ WF_connVars(Handles) /\ WF_connVars(Exit)
    /\ WF_connVars(InterruptEnds)
    /\ \A g \in Conns : WF_connVars(Reader(g)) /\ WF_connVars(Ping(g)) /\ WF_connVars(PingCancelled(g))
    /\ \A c \in Channels : WF_connVars(Listened(c))

ConnSpec == Init /\ [][ConnNext]_connVars /\ Fairness

----------------------------------------------------------------------------
\* The client is not killed by its own goroutines but while it closes the
\* connection: nobody else clears m.conn under them.
CrashOnlyAtClose == crashed = "goroutine" => ui # "run" \/ signal # "none"

\* Listening twice lets a message overtake another, which is then in the hands
\* of a command; no more are overtaken than there were keys that listened.
OvertakenByKeys ==
    /\ Cardinality(overtaken) <= keys
    /\ overtaken \subseteq inbox

\* Between the test of the length and the receive a listener took what was
\* there: the reader waits for a message in a channel that only it fills, or it
\* has taken the error out that it had put in.
Wedged ==
    \/ \E g \in Conns : reader[g].pc = "drain" /\ queue[chan] = <<>>
    \/ \E m \in dropped : m.k # "chat"
Over == crashed # "no" \/ ui = "exited" \/ Wedged

Leaving == after = "quit" \/ ui = "quit" \/ signal # "none"


\* The event loop gets out of closeWebSocket when a connection is lost, or the
\* reader is wedged.
CloseReturns == ui = "closing" ~> ui # "closing" \/ Over \/ Leaving

=============================================================================
