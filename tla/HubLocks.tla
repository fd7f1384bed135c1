------------------------------ MODULE HubLocks ------------------------------
(***************************************************************************)
(* Inside the critical sections that module Hub takes as atomic: who waits *)
(* for Hub.clientsMutex, for a client's writeMu, for Hub.banMutex, for the *)
(* select of Hub.Run and for the network, when peers may stop reading.     *)
(*                                                                         *)
(* A section of clientsMutex that cannot block is one action, taken when   *)
(* the lock can be had.  The sweep's read lock is held across its pings.   *)
(* sync.RWMutex lets no new reader in while a writer waits; since all other *)
(* sections are short, a reader really waits only behind a writer that     *)
(* waits for the sweep.  All connections are registered to begin with, and *)
(* nobody comes back: that is the subject of Hub.                          *)
(***************************************************************************)
EXTENDS Naturals

CONSTANTS
    Sessions,   \* connections, one *Client each
    SendCap,    \* capacity of Client.send
    Moderated   \* bound: the connections whose users are moderated

ASSUME SendCapAssumption == SendCap \in Nat \ {0}
ASSUME BoundsAssumption == Moderated \subseteq Sessions

VARIABLES
    clients,    \* Hub.clients
    send,       \* send[s]: messages in s.send
    open,       \* open[s]: the socket is not closed
    stalled,    \* stalled[s]: the peer of s is suspended: it sends nothing, and it
                \* reads nothing, so that writes to s block
    reader,     \* where the readPump of s is
    writer,     \* where the writePump of s is; it holds writeMu in "write"
    run,        \* where Hub.Run is
    leaving,    \* the client Hub.Run is unregistering
    sweep,      \* where CleanupStaleConnections is, what it still has to ping
    stale,      \* and the clients whose ping failed
    mod         \* the moderation call in progress and its target

pumps == <<reader, writer>>
runVars == <<run, leaving>>
cleanup == <<sweep, stale>>
lockVars == <<clients, send, open, stalled, pumps, runVars, cleanup, mod>>

NoMod == [at |-> "idle"]
NoSweep == [at |-> "idle"]

LocksInit ==
    /\ clients = Sessions
    /\ send = [s \in Sessions |-> 0]
    /\ open = [s \in Sessions |-> TRUE] /\ stalled = [s \in Sessions |-> FALSE]
    /\ reader = [s \in Sessions |-> "read"] /\ writer = [s \in Sessions |-> "select"]
    /\ run = "select" /\ leaving = {}
    /\ sweep = NoSweep /\ stale = {}
    /\ mod = NoMod

----------------------------------------------------------------------------
(* The locks. *)

\* The sweep holds clientsMutex for reading.
SweepReads == sweep.at \in {"pick", "ping"}

\* A call of clientsMutex.Lock has been made and not been granted.
LockWanted == run \in {"broadcast", "remove"} \/ mod.at = "force"

CanLock == ~SweepReads
CanRLock == ~(SweepReads /\ LockWanted)

\* writeMu of s is held by the sweep's PingConn.
SweepPings(s) == sweep.at = "ping" /\ sweep.locked /\ sweep.client = s

BanMutexHeld == mod.at \in {"record", "recordKick"}

----------------------------------------------------------------------------
(* The peers and the network. *)

PeerStalls(s) ==
    /\ ~stalled[s] /\ stalled' = [stalled EXCEPT ![s] = TRUE]
    /\ UNCHANGED <<clients, send, open, pumps, runVars, cleanup, mod>>

PeerResumes(s) ==
    /\ stalled[s] /\ stalled' = [stalled EXCEPT ![s] = FALSE]
    /\ UNCHANGED <<clients, send, open, pumps, runVars, cleanup, mod>>

PeerCloses(s) ==
    /\ open[s] /\ open' = [open EXCEPT ![s] = FALSE]
    /\ UNCHANGED <<clients, send, stalled, pumps, runVars, cleanup, mod>>

----------------------------------------------------------------------------
(* The pumps of a client. *)

TrySend(S) ==
    [s \in Sessions |-> IF s \in S /\ send[s] < SendCap THEN send[s] + 1 ELSE send[s]]

ReaderTo(s, pc) == reader' = [reader EXCEPT ![s] = pc]
WriterTo(s, pc) == writer' = [writer EXCEPT ![s] = pc]

\* A message for a room, a direct message or a command arrives.
ReadMessage(s) ==
    /\ reader[s] = "read" /\ open[s] /\ ~stalled[s]
    /\ \E to \in {"broadcast", "dm", "reply"} : ReaderTo(s, to)
    /\ UNCHANGED <<clients, send, open, stalled, writer, runVars, cleanup, mod>>

\* The answer to a command is a plain "c.send <-": when writePump has exited and
\* the buffer is full, the readPump waits for ever.
Reply(s) ==
    /\ reader[s] = "reply" /\ send[s] < SendCap
    /\ send' = [send EXCEPT ![s] = @ + 1] /\ ReaderTo(s, "read")
    /\ UNCHANGED <<clients, open, stalled, writer, runVars, cleanup, mod>>

\* broadcastDM under clientsMutex.RLock.
BroadcastDM(s) ==
    /\ reader[s] = "dm" /\ CanRLock
    /\ \E to \in Sessions : send' = TrySend({s, to} \cap clients)
    /\ ReaderTo(s, "read")
    /\ UNCHANGED <<clients, open, stalled, writer, runVars, cleanup, mod>>

\* ReadJSON fails: the socket is closed or no pong came in time.
ReadFails(s) ==
    /\ reader[s] = "read" /\ (~open[s] \/ stalled[s])
    /\ ReaderTo(s, "unregister")
    /\ UNCHANGED <<clients, send, open, stalled, writer, runVars, cleanup, mod>>

\* The deferred conn.Close, after hub.unregister <- c has been received.
ReaderCloses(s) ==
    /\ reader[s] = "close" /\ ReaderTo(s, "done")
    /\ open' = [open EXCEPT ![s] = FALSE]
    /\ UNCHANGED <<clients, send, stalled, writer, runVars, cleanup, mod>>

\* writePump takes a message, or its ticker fires.
WriterTakes(s) ==
    /\ writer[s] = "select" /\ WriterTo(s, "lock")
    /\ \/ send[s] > 0 /\ send' = [send EXCEPT ![s] = @ - 1]
       \/ UNCHANGED send
    /\ UNCHANGED <<clients, open, stalled, reader, runVars, cleanup, mod>>

WriterLocks(s) ==
    /\ writer[s] = "lock" /\ ~SweepPings(s) /\ WriterTo(s, "write")
    /\ UNCHANGED <<clients, send, open, stalled, reader, runVars, cleanup, mod>>

\* There is no write deadline: a write ends when the peer reads or the socket
\* is closed.
WriterWrites(s) ==
    /\ writer[s] = "write" /\ open[s] /\ ~stalled[s] /\ WriterTo(s, "select")
    /\ UNCHANGED <<clients, send, open, stalled, reader, runVars, cleanup, mod>>

WriterExits(s) ==
    /\ writer[s] = "write" /\ ~open[s] /\ WriterTo(s, "exited")
    /\ UNCHANGED <<clients, send, open, stalled, reader, runVars, cleanup, mod>>

ReadPump(s) == ReadMessage(s) \/ Reply(s) \/ BroadcastDM(s) \/ ReadFails(s) \/ ReaderCloses(s)
WritePump(s) == WriterTakes(s) \/ WriterLocks(s) \/ WriterWrites(s) \/ WriterExits(s)

----------------------------------------------------------------------------
(* Hub.Run. *)

RecvBroadcast(s) ==
    /\ run = "select" /\ reader[s] = "broadcast"
    /\ run' = "broadcast" /\ ReaderTo(s, "read")
    /\ UNCHANGED <<clients, send, open, stalled, writer, leaving, cleanup, mod>>

RecvUnregister(s) ==
    /\ run = "select" /\ reader[s] = "unregister"
    /\ run' = "remove" /\ leaving' = {s} /\ ReaderTo(s, "close")
    /\ UNCHANGED <<clients, send, open, stalled, writer, cleanup, mod>>

\* Under clientsMutex: a client with a full buffer is dropped and closed.
RunBroadcast ==
    /\ run = "broadcast" /\ CanLock
    /\ LET full == {s \in clients : send[s] = SendCap} IN
       /\ clients' = clients \ full
       /\ open' = [s \in Sessions |-> open[s] /\ s \notin full]
    /\ send' = TrySend(clients) /\ run' = "select"
    /\ UNCHANGED <<stalled, pumps, leaving, cleanup, mod>>

RunRemove ==
    /\ run = "remove" /\ CanLock
    /\ clients' = clients \ leaving /\ leaving' = {} /\ run' = "userList"
    /\ UNCHANGED <<send, open, stalled, pumps, cleanup, mod>>

\* broadcastUserList under clientsMutex.RLock.
RunUserList ==
    /\ run = "userList" /\ CanRLock
    /\ send' = TrySend(clients) /\ run' = "select"
    /\ UNCHANGED <<clients, open, stalled, pumps, leaving, cleanup, mod>>

Run == RunBroadcast \/ RunRemove \/ RunUserList
       \/ \E s \in Sessions : RecvBroadcast(s) \/ RecvUnregister(s)

----------------------------------------------------------------------------
(* CleanupStaleConnections. *)

\* clientsMutex.RLock.
SweepBegins ==
    /\ sweep = NoSweep /\ ~LockWanted
    /\ sweep' = [at |-> "pick", todo |-> clients] /\ stale' = {}
    /\ UNCHANGED <<clients, send, open, stalled, pumps, runVars, mod>>

\* PingConn is called for the next client of the map iteration.
SweepPicks ==
    /\ sweep.at = "pick"
    /\ \E s \in sweep.todo :
          sweep' = [at |-> "ping", todo |-> sweep.todo \ {s}, client |-> s, locked |-> FALSE]
    /\ UNCHANGED <<clients, send, open, stalled, pumps, runVars, stale, mod>>

\* Mutant: the ping does not wait for writePump.
SweepLocksAnyway ==
    /\ sweep.at = "ping" /\ ~sweep.locked
    /\ sweep' = [sweep EXCEPT !.locked = TRUE]
    /\ UNCHANGED <<clients, send, open, stalled, pumps, runVars, stale, mod>>

\* writeMu.Lock in PingConn.
SweepLocks ==
    /\ sweep.at = "ping" /\ ~sweep.locked /\ writer[sweep.client] # "write"
    /\ sweep' = [sweep EXCEPT !.locked = TRUE]
    /\ UNCHANGED <<clients, send, open, stalled, pumps, runVars, stale, mod>>

\* The ping is written, or fails on a closed socket.
SweepPinged ==
    /\ sweep.at = "ping" /\ sweep.locked
    /\ ~open[sweep.client] \/ ~stalled[sweep.client]
    /\ stale' = IF open[sweep.client] THEN stale ELSE stale \cup {sweep.client}
    /\ sweep' = [at |-> "pick", todo |-> sweep.todo]
    /\ UNCHANGED <<clients, send, open, stalled, pumps, runVars, mod>>

\* Mutant: the removals begin with the read lock still held.
SweepKeepsRLock ==
    /\ sweep.at = "pick" /\ sweep.todo = {} /\ stale = {}
    /\ sweep' = NoSweep
    /\ UNCHANGED <<clients, send, open, stalled, pumps, runVars, stale, mod>>

\* clientsMutex.RUnlock.
SweepUnlocks ==
    /\ sweep.at = "pick" /\ sweep.todo = {}
    /\ sweep' = IF stale = {} THEN NoSweep ELSE [at |-> "remove"]
    /\ UNCHANGED <<clients, send, open, stalled, pumps, runVars, stale, mod>>

\* Mutant: the clients found stale are closed but stay in the registry.
SweepClosesOnly ==
    /\ sweep.at = "remove"
    /\ open' = [s \in Sessions |-> open[s] /\ s \notin stale \cap clients]
    /\ send' = TrySend(clients) /\ sweep' = NoSweep /\ stale' = {}
    /\ UNCHANGED <<clients, stalled, pumps, runVars, mod>>

\* Under clientsMutex, then broadcastUserList.
SweepRemoves ==
    /\ sweep.at = "remove"
    /\ clients' = clients \ stale
    /\ open' = [s \in Sessions |-> open[s] /\ s \notin stale \cap clients]
    /\ send' = TrySend(clients') /\ sweep' = NoSweep /\ stale' = {}
    /\ UNCHANGED <<stalled, pumps, runVars, mod>>

Sweep == SweepPicks \/ SweepLocks \/ SweepPinged \/ SweepUnlocks \/ SweepRemoves

----------------------------------------------------------------------------
(* Moderation.  Each call names the connection its target has. *)

Moderate(at, s) ==
    /\ mod = NoMod /\ mod' = [at |-> at, target |-> s]
    /\ UNCHANGED <<clients, send, open, stalled, pumps, runVars, cleanup>>

ModTo(at) == mod' = [mod EXCEPT !.at = at]

\* BanUser and KickUser begin; ForceDisconnectUser calls clientsMutex.Lock.
BanUser(s) == Moderate("record", s)
KickUser(s) == Moderate("kickLookup", s)
ForceDisconnectUser(s) == Moderate("force", s)

\* BanUser and KickUser under banMutex, which they release; both give up when
\* the database does not take the record, KickUser also on a permanent ban.
RecordBan ==
    /\ mod.at = "record" /\ (ModTo("lookup") \/ mod' = NoMod)
    /\ UNCHANGED <<clients, send, open, stalled, pumps, runVars, cleanup>>

\* The lookups under clientsMutex.RLock: in kickUser, after the ban is
\* recorded, and in KickUser, before the kick is.
Lookup ==
    /\ mod.at \in {"lookup", "kickLookup"} /\ CanRLock
    /\ IF mod.target \notin clients THEN mod' = NoMod
       ELSE ModTo(IF mod.at = "lookup" THEN "disconnect" ELSE "recordKick")
    /\ UNCHANGED <<clients, send, open, stalled, pumps, runVars, cleanup>>

RecordKick ==
    /\ mod.at = "recordKick" /\ (ModTo("disconnect") \/ mod' = NoMod)
    /\ UNCHANGED <<clients, send, open, stalled, pumps, runVars, cleanup>>

\* Mutant: the message is queued, and the connection left to go by itself.
DisconnectByMessage ==
    /\ mod.at = "disconnect" /\ mod' = NoMod
    /\ send' = TrySend({mod.target})
    /\ UNCHANGED <<clients, open, stalled, pumps, runVars, cleanup>>

DisconnectClient ==
    /\ mod.at = "disconnect" /\ mod' = NoMod
    /\ send' = TrySend({mod.target}) /\ open' = [open EXCEPT ![mod.target] = FALSE]
    /\ UNCHANGED <<clients, stalled, pumps, runVars, cleanup>>

\* Under clientsMutex, then the close and broadcastUserList.
ForceRemove ==
    /\ mod.at = "force" /\ CanLock
    /\ mod' = NoMod
    /\ clients' = clients \ {mod.target}
    /\ IF mod.target \in clients
         THEN open' = [open EXCEPT ![mod.target] = FALSE] /\ send' = TrySend(clients')
         ELSE UNCHANGED <<open, send>>
    /\ UNCHANGED <<stalled, pumps, runVars, cleanup>>

Moderation == RecordBan \/ Lookup \/ RecordKick \/ DisconnectClient \/ ForceRemove

----------------------------------------------------------------------------
LocksNext ==
    \/ Run \/ SweepBegins \/ Sweep \/ Moderation
    \/ \E s \in Sessions : PeerStalls(s) \/ PeerResumes(s) \/ PeerCloses(s)
                           \/ ReadPump(s) \/ WritePump(s)
    \/ \E s \in Moderated : BanUser(s) \/ KickUser(s) \/ ForceDisconnectUser(s)

LocksSpec == LocksInit /\ [][LocksNext]_lockVars

\* Every goroutine goes on when it can, and the sweep's ticker keeps firing;
\* nothing is assumed of the peers, of what they send or of administrators.
\* Mutexes, RWMutexes and channels are handed over, so a goroutine that waits is
\* not overtaken for ever.
LocksFairness ==
    /\ SF_lockVars(RunBroadcast \/ RunRemove \/ RunUserList)
    /\ SF_lockVars(SweepBegins) /\ SF_lockVars(Sweep) /\ SF_lockVars(Moderation)
    /\ \A s \in Sessions :
          /\ SF_lockVars(RecvBroadcast(s) \/ RecvUnregister(s))
          /\ SF_lockVars(BroadcastDM(s) \/ Reply(s)) /\ SF_lockVars(WritePump(s))
          /\ WF_lockVars(ReadFails(s)) /\ WF_lockVars(ReaderCloses(s))

LocksFairSpec == LocksSpec /\ LocksFairness

----------------------------------------------------------------------------
TypeOK ==
    /\ clients \subseteq Sessions /\ leaving \subseteq Sessions /\ stale \subseteq Sessions
    /\ send \in [Sessions -> 0..SendCap]
    /\ open \in [Sessions -> BOOLEAN] /\ stalled \in [Sessions -> BOOLEAN]
    /\ reader \in [Sessions -> {"read", "reply", "broadcast", "dm", "unregister", "close", "done"}]
    /\ writer \in [Sessions -> {"select", "lock", "write", "exited"}]
    /\ run \in {"select", "broadcast", "remove", "userList"}
    /\ sweep \in {NoSweep, [at |-> "remove"]}
                \cup [at : {"pick"}, todo : SUBSET Sessions]
                \cup [at : {"ping"}, todo : SUBSET Sessions, client : Sessions, locked : BOOLEAN]
    /\ mod \in {NoMod}
              \cup [at : {"record", "lookup", "kickLookup", "recordKick", "disconnect", "force"},
                    target : Sessions]

\* "gorilla/websocket allows one writer": the sweep's ping and writePump never
\* write to the same socket at the same time.
OneWriter == \A s \in Sessions : ~(SweepPings(s) /\ writer[s] = "write")

\* No open connection is stalled for ever.  There is no write deadline, so one
\* that is would hold the sweep, and with it clientsMutex, for ever.
StallsEnd == \A s \in Sessions : []<>(~open[s] \/ ~stalled[s])

\* The hub answers again as long as no open connection is stalled for ever: no
\* goroutine waits for another in a circle, and each lock is given back.
HubReturns == StallsEnd => []<>(run = "select")

\* "CleanupStaleConnections removes clients with broken connections": a client
\* whose socket is closed leaves the registry, as long as no open connection is
\* stalled for ever, even if its own readPump waits for ever on a full buffer.
DeadClientsLeave ==
    StallsEnd => \A s \in Sessions : s \in clients /\ ~open[s] ~> s \notin clients

\* Whoever is registered when BanUser has released banMutex is disconnected,
\* although the call has to wait for a lock the sweep may hold.
BanDisconnects ==
    StallsEnd => \A s \in Sessions :
        mod.at = "lookup" /\ mod.target = s /\ s \in clients ~> ~open[s]

=============================================================================
