-------------------------------- MODULE Hub --------------------------------
(***************************************************************************)
(* The session registry of the marchat server: the goroutine Hub.Run, one  *)
(* ServeWs handler, readPump and writePump per WebSocket connection, the   *)
(* moderation calls that disconnect users and the stale-connection sweep.  *)
(*                                                                         *)
(* Every critical section of clientsMutex, channelMutex and banMutex is    *)
(* one action; what happens between two critical sections, or on either    *)
(* side of a channel operation, are different actions.  A message is       *)
(* abstracted to the room it is stamped with, a client's send buffer to    *)
(* the number of messages in it.  Module HubLocks looks inside the         *)
(* critical sections that can block.                                       *)
(***************************************************************************)
EXTENDS Naturals, FiniteSets

CONSTANTS
    Sessions,   \* connections: each is one *Client, never reused
    Users,      \* lower-cased usernames
    UserOf,     \* the name the handshake of each connection asks for
    Channels,   \* chat rooms
    General,    \* the room "general"
    NoSession,  \* the nil *Client
    SendCap,    \* capacity of Client.send (256 in the code)
    Moderated,  \* bound: the users that are banned, kicked, unbanned, allowed
    Talkers     \* bound: the connections that send anything after the handshake

ASSUME SessionsAssumption ==
    Users # {} /\ UserOf \in [Sessions -> Users] /\ NoSession \notin Sessions
ASSUME BoundsAssumption == Moderated \subseteq Users /\ Talkers \subseteq Sessions
ASSUME ChannelsAssumption == General \in Channels
ASSUME SendCapAssumption == SendCap \in Nat \ {0}

VARIABLES
    clients,            \* Hub.clients
    usernames,          \* Hub.usernames: names reserved or in use
    clientsByUsername,  \* Hub.clientsByUsername: name -> client
    channels,           \* Hub.channels: room -> members
    banned,             \* Hub.bans, and the entries of Hub.tempKicks that have
                        \* not expired; nobody is in both (see Moderation)
    userChannel,        \* table user_channels; no row reads like General
    open,               \* open[s]: the socket of s still works
    send,               \* send[s]: messages waiting in s.send
    serve,              \* where the ServeWs handler of s is
    reader,             \* where the readPump of s is
    arg,                \* room the handler or the readPump of s works on
    writer,             \* where the writePump of s is
    run,                \* where Hub.Run is, and for which client
    admin,              \* the moderation call in progress
    stale               \* clients CleanupStaleConnections is about to remove

registry == <<clients, usernames, clientsByUsername>>
pumps == <<reader, writer>>
vars == <<registry, channels, banned, userChannel, open, send, serve,
          pumps, arg, run, admin, stale>>

ServePC == {"handshake", "banCheck", "register", "load", "place", "start",
            "done", "rejected"}
ReaderPC == {"off", "read", "reply", "broadcast", "forward", "join",
             "unregister", "close", "done"}
WriterPC == {"off", "on", "exited"}
RunPC == {"select", "add", "join", "remove", "leaveAll"}
AdminPC == {"idle", "lookup", "recordKick", "disconnect", "close"}

Running(at, s) == run.at = at /\ run.client = s
Idle == [at |-> "idle", user |-> CHOOSE u \in Users : TRUE, target |-> NoSession]
Waiting == [at |-> "select", client |-> NoSession]

Init ==
    /\ clients = {} /\ usernames = {}
    /\ clientsByUsername = [u \in Users |-> NoSession]
    /\ channels = [c \in Channels |-> {}]
    /\ banned = {}
    /\ userChannel \in [Users -> Channels]
    /\ open = [s \in Sessions |-> TRUE]
    /\ send = [s \in Sessions |-> 0]
    /\ serve = [s \in Sessions |-> "handshake"]
    /\ reader = [s \in Sessions |-> "off"]
    /\ arg = [s \in Sessions |-> General]
    /\ writer = [s \in Sessions |-> "off"]
    /\ run = Waiting /\ admin = Idle /\ stale = {}

----------------------------------------------------------------------------
(* Helpers shared by several operations. *)

\* The non-blocking sends "select { case c.send <- m: default: }" to S.
TrySend(S) ==
    [s \in Sessions |-> IF s \in S /\ send[s] < SendCap THEN send[s] + 1 ELSE send[s]]

\* Mutant: the index entry survives.
RemoveClientsOnly(S) ==
    /\ clients' = clients \ S
    /\ usernames' = usernames \ {UserOf[s] : s \in S}
    /\ UNCHANGED clientsByUsername

\* removeClientLocked, with the release of the name that follows every call.
RemoveClients(S) ==
    /\ clients' = clients \ S
    /\ usernames' = usernames \ {UserOf[s] : s \in S}
    /\ clientsByUsername' = [u \in Users |->
           IF clientsByUsername[u] \in S THEN NoSession ELSE clientsByUsername[u]]

Close(S) == open' = [s \in Sessions |-> open[s] /\ s \notin S]

Enter(s, c) == channels' = [channels EXCEPT ![c] = @ \cup {s}]
Leave(s, c) == channels' = [channels EXCEPT ![c] = @ \ {s}]
Rooms(s) == {c \in Channels : s \in channels[c]}

\* getClientChannel: the first room a map iteration finds, "general" if none.
ClientChannel(s) == IF Rooms(s) = {} THEN {General} ELSE Rooms(s)

IsUserBanned(u) == u \in banned

----------------------------------------------------------------------------
(* ServeWs: the handshake and what follows it, up to the start of readPump. *)

ServeTo(s, pc) == serve' = [serve EXCEPT ![s] = pc]
ReaderTo(s, pc) == reader' = [reader EXCEPT ![s] = pc]

\* The handshake is malformed, not allowed or not authorised, or the name is
\* taken: TryReserveUsername returns false.
RejectHandshake(s) ==
    /\ serve[s] = "handshake"
    /\ ServeTo(s, "rejected") /\ Close({s})
    /\ UNCHANGED <<registry, channels, banned, userChannel, send, pumps,
                   arg, run, admin, stale>>

TryReserveUsername(s) ==
    /\ serve[s] = "handshake" /\ UserOf[s] \notin usernames
    /\ usernames' = usernames \cup {UserOf[s]}
    /\ ServeTo(s, "banCheck")
    /\ UNCHANGED <<clients, clientsByUsername, channels, banned, userChannel,
                   open, send, pumps, arg, run, admin, stale>>

BanCheck(s) ==
    /\ serve[s] = "banCheck" /\ ~IsUserBanned(UserOf[s])
    /\ ServeTo(s, "register")
    /\ UNCHANGED <<registry, channels, banned, userChannel, open, send,
                   pumps, arg, run, admin, stale>>

\* The deferred ReleaseUsername gives the name back.
RejectBanned(s) ==
    /\ serve[s] = "banCheck" /\ IsUserBanned(UserOf[s])
    /\ usernames' = usernames \ {UserOf[s]}
    /\ ServeTo(s, "rejected") /\ Close({s})
    /\ UNCHANGED <<clients, clientsByUsername, channels, banned, userChannel,
                   send, pumps, arg, run, admin, stale>>

\* hub.register <- client meets the select of Run.
RecvRegister(s) ==
    /\ serve[s] = "register" /\ run = Waiting
    /\ run' = [at |-> "add", client |-> s]
    /\ ServeTo(s, "load")
    /\ UNCHANGED <<registry, channels, banned, userChannel, open, send,
                   pumps, arg, admin, stale>>

\* LoadUserChannel, then leaveChannel(client, "general") when a room is stored.
LoadUserChannel(s) ==
    /\ serve[s] = "load"
    /\ LET stored == userChannel[UserOf[s]] IN
       IF stored = General
         THEN ServeTo(s, "start") /\ UNCHANGED <<channels, arg>>
         ELSE /\ ServeTo(s, "place") /\ Leave(s, General)
              /\ arg' = [arg EXCEPT ![s] = stored]
    /\ UNCHANGED <<registry, banned, userChannel, open, send, pumps, run,
                   admin, stale>>

JoinStored(s) ==
    /\ serve[s] = "place"
    /\ Enter(s, arg[s]) /\ ServeTo(s, "start")
    /\ arg' = [arg EXCEPT ![s] = General]
    /\ UNCHANGED <<registry, banned, userChannel, open, send, pumps, run,
                   admin, stale>>

\* go client.writePump(), the replay of history, reactions and receipts with
\* non-blocking sends, which may leave the buffer at any level,
\* broadcastUserList, go client.readPump().
StartPumps(s) ==
    /\ serve[s] = "start"
    /\ \E n \in 0..SendCap :
          send' = [TrySend(clients) EXCEPT ![s] = n]
    /\ writer' = [writer EXCEPT ![s] = "on"]
    /\ ReaderTo(s, "read") /\ ServeTo(s, "done")
    /\ UNCHANGED <<registry, channels, banned, userChannel, open, arg, run,
                   admin, stale>>

ServeWs(s) ==
    \/ RejectHandshake(s) \/ TryReserveUsername(s)
    \/ BanCheck(s) \/ RejectBanned(s)
    \/ LoadUserChannel(s) \/ JoinStored(s) \/ StartPumps(s)

----------------------------------------------------------------------------
(* readPump and the dispatch of inbound messages.  After a close, frames that *)
(* were already received can still be read.                                   *)

\* Commands, searches, rejected input, the rate limit: the answer goes to the
\* sender with a plain, blocking "c.send <-".
ReadCommand(s) ==
    /\ reader[s] = "read" /\ ReaderTo(s, "reply")
    /\ UNCHANGED <<registry, channels, banned, userChannel, open, send,
                   serve, writer, arg, run, admin, stale>>

Reply(s) ==
    /\ reader[s] = "reply" /\ send[s] < SendCap
    /\ send' = [send EXCEPT ![s] = @ + 1]
    /\ ReaderTo(s, "read")
    /\ UNCHANGED <<registry, channels, banned, userChannel, open, serve,
                   writer, arg, run, admin, stale>>

\* Text, files, edits, deletions, reactions, receipts and typing that name no
\* recipient: stamped with the sender's room, then offered to hub.broadcast.
ReadRoomMessage(s) ==
    /\ reader[s] = "read"
    /\ \E c \in ClientChannel(s) : arg' = [arg EXCEPT ![s] = c]
    /\ ReaderTo(s, "broadcast")
    /\ UNCHANGED <<registry, channels, banned, userChannel, open, send,
                   serve, writer, run, admin, stale>>

\* The same kinds, typing apart, with a recipient: stampClientChannel leaves the
\* room the client wrote, which may be any room or none, and the message goes to
\* hub.broadcast all the same.
ReadAddressedMessage(s) ==
    /\ reader[s] = "read" /\ ReaderTo(s, "forward")
    /\ UNCHANGED <<registry, channels, banned, userChannel, open, send,
                   serve, writer, arg, run, admin, stale>>

\* broadcastDM: a non-blocking send to the sender's and the recipient's client.
ReadDM(s, to) ==
    /\ reader[s] = "read"
    /\ send' = TrySend({clientsByUsername[UserOf[s]], clientsByUsername[to]})
    /\ UNCHANGED <<registry, channels, banned, userChannel, open, serve,
                   pumps, arg, run, admin, stale>>

\* join_channel: leave the room getClientChannel returns unless it is c.
ReadJoinChannel(s, c) ==
    /\ reader[s] = "read"
    /\ \E old \in ClientChannel(s) :
          IF old = c THEN UNCHANGED channels ELSE Leave(s, old)
    /\ arg' = [arg EXCEPT ![s] = c] /\ ReaderTo(s, "join")
    /\ UNCHANGED <<registry, banned, userChannel, open, send, serve, writer,
                   run, admin, stale>>

\* Mutant: the client leaves its room and is put in no other.
ReadLeaveChannelOnly(s) ==
    /\ reader[s] = "read"
    /\ \E old \in ClientChannel(s) \ {General} : Leave(s, old)
    /\ ReaderTo(s, "reply")
    /\ UNCHANGED <<registry, banned, userChannel, arg, open, send, serve,
                   writer, run, admin, stale>>

\* leave_channel: back to General, and nothing at all from General.
ReadLeaveChannel(s) ==
    /\ reader[s] = "read"
    /\ \E old \in ClientChannel(s) \ {General} : Leave(s, old)
    /\ arg' = [arg EXCEPT ![s] = General] /\ ReaderTo(s, "join")
    /\ UNCHANGED <<registry, banned, userChannel, open, send, serve, writer,
                   run, admin, stale>>

\* joinChannel, then PersistUserChannel, which only logs a failure, then the
\* reply.
JoinChannel(s) ==
    /\ reader[s] = "join"
    /\ Enter(s, arg[s]) /\ ReaderTo(s, "reply")
    /\ userChannel' \in {userChannel, [userChannel EXCEPT ![UserOf[s]] = arg[s]]}
    /\ arg' = [arg EXCEPT ![s] = General]
    /\ UNCHANGED <<registry, banned, open, send, serve, writer, run, admin,
                   stale>>

\* ReadJSON fails: the socket is closed, the pong deadline has passed or the
\* frame is too large.
ReadFails(s) ==
    /\ reader[s] = "read" /\ ReaderTo(s, "unregister")
    /\ UNCHANGED <<registry, channels, banned, userChannel, open, send,
                   serve, writer, arg, run, admin, stale>>

\* The deferred hub.unregister <- c meets the select of Run.
RecvUnregister(s) ==
    /\ reader[s] = "unregister" /\ run = Waiting
    /\ run' = [at |-> "remove", client |-> s] /\ ReaderTo(s, "close")
    /\ UNCHANGED <<registry, channels, banned, userChannel, open, send,
                   serve, writer, arg, admin, stale>>

ReaderCloses(s) ==
    /\ reader[s] = "close" /\ Close({s}) /\ ReaderTo(s, "done")
    /\ UNCHANGED <<registry, channels, banned, userChannel, send, serve,
                   writer, arg, run, admin, stale>>

ReadMessage(s) ==
    \/ ReadCommand(s) \/ ReadRoomMessage(s) \/ ReadAddressedMessage(s)
    \/ ReadLeaveChannel(s)
    \/ \E to \in Users : ReadDM(s, to)
    \/ \E c \in Channels : ReadJoinChannel(s, c)

ReadPump(s) ==
    \/ s \in Talkers /\ ReadMessage(s)
    \/ Reply(s) \/ JoinChannel(s) \/ ReadFails(s) \/ ReaderCloses(s)

----------------------------------------------------------------------------
(* writePump. *)

WriteMessage(s) ==
    /\ writer[s] = "on" /\ send[s] > 0 /\ open[s]
    /\ send' = [send EXCEPT ![s] = @ - 1]
    /\ UNCHANGED <<registry, channels, banned, userChannel, open, serve,
                   pumps, arg, run, admin, stale>>

\* A write fails: of a message taken from the buffer, or of the periodic ping.
WriteFails(s) ==
    /\ writer[s] = "on" /\ ~open[s]
    /\ writer' = [writer EXCEPT ![s] = "exited"]
    /\ \/ send[s] > 0 /\ send' = [send EXCEPT ![s] = @ - 1]
       \/ UNCHANGED send
    /\ UNCHANGED <<registry, channels, banned, userChannel, open, serve,
                   reader, arg, run, admin, stale>>

\* The network or the peer ends the connection.
PeerCloses(s) ==
    /\ open[s] /\ serve[s] # "handshake" /\ Close({s})
    /\ UNCHANGED <<registry, channels, banned, userChannel, send, serve,
                   pumps, arg, run, admin, stale>>

WritePump(s) == WriteMessage(s) \/ WriteFails(s)

----------------------------------------------------------------------------
(* Hub.Run. *)

\* case <-h.register, under clientsMutex, then broadcastUserList.
RunRegister ==
    /\ run.at = "add"
    /\ clients' = clients \cup {run.client}
    /\ clientsByUsername' = [clientsByUsername EXCEPT ![UserOf[run.client]] = run.client]
    /\ send' = TrySend(clients')
    /\ run' = [run EXCEPT !.at = "join"]
    /\ UNCHANGED <<usernames, channels, banned, userChannel, open, serve,
                   pumps, arg, admin, stale>>

RunJoinGeneral ==
    /\ run.at = "join"
    /\ Enter(run.client, General) /\ run' = Waiting
    /\ UNCHANGED <<registry, banned, userChannel, open, send, serve, pumps,
                   arg, admin, stale>>

\* Mutant: the name is released even for a client that was dropped before.
RunUnregisterAlways ==
    /\ run.at = "remove"
    /\ RemoveClients({run.client})
    /\ run' = [run EXCEPT !.at = "leaveAll"]
    /\ UNCHANGED <<channels, banned, userChannel, open, send, serve, pumps,
                   arg, admin, stale>>

\* Mutant: nothing more is done for a client that was dropped before.
RunUnregisterOnlyListed ==
    /\ run.at = "remove"
    /\ RemoveClients(clients \cap {run.client})
    /\ run' = IF run.client \in clients THEN [run EXCEPT !.at = "leaveAll"] ELSE Waiting
    /\ UNCHANGED <<channels, banned, userChannel, open, send, serve, pumps,
                   arg, admin, stale>>

\* case <-h.unregister, under clientsMutex; a client dropped before is skipped.
RunUnregister ==
    /\ run.at = "remove"
    /\ RemoveClients(clients \cap {run.client})
    /\ run' = [run EXCEPT !.at = "leaveAll"]
    /\ UNCHANGED <<channels, banned, userChannel, open, send, serve, pumps,
                   arg, admin, stale>>

\* ... then under channelMutex, for every client, and broadcastUserList.
RunLeaveAll ==
    /\ run.at = "leaveAll"
    /\ channels' = [c \in Channels |-> channels[c] \ {run.client}]
    /\ send' = TrySend(clients) /\ run' = Waiting
    /\ UNCHANGED <<registry, banned, userChannel, open, serve, pumps, arg,
                   admin, stale>>

\* Mutant: a dropped client keeps its socket.
BroadcastWithoutClose(To) ==
    LET full == {s \in To : send[s] = SendCap} IN
    /\ send' = TrySend(To)
    /\ RemoveClients(full) /\ UNCHANGED open

\* case <-h.broadcast for the clients in To: who has a full buffer is dropped.
Broadcast(To) ==
    LET full == {s \in To : send[s] = SendCap} IN
    /\ send' = TrySend(To)
    /\ RemoveClients(full) /\ Close(full)

RunBroadcast(s) ==
    /\ run = Waiting /\ reader[s] = "broadcast"
    /\ Broadcast(clients \cap channels[arg[s]])
    /\ arg' = [arg EXCEPT ![s] = General] /\ ReaderTo(s, "read")
    /\ UNCHANGED <<channels, banned, userChannel, serve, writer, run, admin,
                   stale>>

\* The room of a message with a recipient is the client's choice; a message
\* without a room goes to everybody.
RunForward(s) ==
    /\ run = Waiting /\ reader[s] = "forward"
    /\ \E To \in {clients} \cup {clients \cap channels[c] : c \in Channels} : Broadcast(To)
    /\ ReaderTo(s, "read")
    /\ UNCHANGED <<channels, banned, userChannel, serve, writer, arg, run,
                   admin, stale>>

\* System notices and plugin messages carry no room.
RunBroadcastAll ==
    /\ run = Waiting /\ Broadcast(clients)
    /\ UNCHANGED <<channels, banned, userChannel, serve, pumps, arg, run,
                   admin, stale>>

Run == RunRegister \/ RunJoinGeneral \/ RunUnregister \/ RunLeaveAll
       \/ RunBroadcastAll
       \/ \E s \in Sessions : RecvRegister(s) \/ RecvUnregister(s)
                              \/ RunBroadcast(s) \/ RunForward(s)

----------------------------------------------------------------------------
(* Moderation and maintenance, called from other readPumps, the terminal and  *)
(* web admin panels and the sweep.  The caller is not one of Users.           *)

\* BanUser under banMutex; kickUser follows.  A ban, an unban or an allow that
\* cannot be written to the database changes nothing.
BanUser(u) ==
    /\ admin = Idle
    /\ banned' = banned \cup {u}
    /\ admin' = [at |-> "lookup", user |-> u, target |-> NoSession]
    /\ UNCHANGED <<registry, channels, userChannel, open, send, serve, pumps,
                   arg, run, stale>>

\* kickUser: who has the name now.
KickLookup ==
    /\ admin.at = "lookup"
    /\ LET target == clientsByUsername[admin.user] IN
       admin' = IF target = NoSession THEN Idle
                ELSE [admin EXCEPT !.at = "disconnect", !.target = target]
    /\ UNCHANGED <<registry, channels, banned, userChannel, open, send,
                   serve, pumps, arg, run, stale>>

\* KickUser looks its target up first ...
KickUser(u) ==
    /\ admin = Idle /\ clientsByUsername[u] # NoSession
    /\ admin' = [at |-> "recordKick", user |-> u, target |-> clientsByUsername[u]]
    /\ UNCHANGED <<registry, channels, banned, userChannel, open, send,
                   serve, pumps, arg, run, stale>>

\* ... and takes banMutex next; a permanent ban is not overridden, and a kick
\* that cannot be written to the database is given up.
RecordKick ==
    /\ admin.at = "recordKick"
    /\ \/ admin' = Idle /\ UNCHANGED banned
       \/ /\ banned' = banned \cup {admin.user}
          /\ admin' = [admin EXCEPT !.at = "disconnect"]
    /\ UNCHANGED <<registry, channels, userChannel, open, send, serve, pumps,
                   arg, run, stale>>

DisconnectClient ==
    /\ admin.at = "disconnect"
    /\ send' = TrySend({admin.target}) /\ Close({admin.target})
    /\ admin' = Idle
    /\ UNCHANGED <<registry, channels, banned, userChannel, serve, pumps,
                   arg, run, stale>>

\* UnbanUser, AllowUser or the end of the 24 hours.
LiftBan(u) ==
    /\ admin = Idle /\ u \in banned /\ banned' = banned \ {u}
    /\ UNCHANGED <<registry, channels, userChannel, open, send, serve, pumps,
                   arg, run, admin, stale>>

\* ForceDisconnectUser under clientsMutex, then the close and the user list.
ForceDisconnectUser(u) ==
    /\ admin = Idle /\ clientsByUsername[u] # NoSession
    /\ RemoveClients({clientsByUsername[u]})
    /\ admin' = [at |-> "close", user |-> u, target |-> clientsByUsername[u]]
    /\ UNCHANGED <<channels, banned, userChannel, open, send, serve, pumps,
                   arg, run, stale>>

ForceClose ==
    /\ admin.at = "close"
    /\ Close({admin.target}) /\ send' = TrySend(clients) /\ admin' = Idle
    /\ UNCHANGED <<registry, channels, banned, userChannel, serve, pumps,
                   arg, run, stale>>

\* CleanupStaleConnections: the pings, under the read lock ...
SweepPing ==
    /\ stale = {}
    /\ stale' = {s \in clients : ~open[s]} /\ stale' # {}
    /\ UNCHANGED <<registry, channels, banned, userChannel, open, send,
                   serve, pumps, arg, run, admin>>

\* ... and the removals, under the write lock, of those still there.
SweepRemove ==
    /\ stale # {}
    /\ LET gone == stale \cap clients IN
       RemoveClients(gone) /\ Close(gone)
    /\ send' = TrySend(clients') /\ stale' = {}
    /\ UNCHANGED <<channels, banned, userChannel, serve, pumps, arg, run,
                   admin>>

Moderate ==
    \/ \E u \in Moderated : BanUser(u) \/ KickUser(u) \/ LiftBan(u)
    \/ \E u \in Users : ForceDisconnectUser(u)
    \/ KickLookup \/ RecordKick \/ DisconnectClient \/ ForceClose

Sweep == SweepPing \/ SweepRemove

----------------------------------------------------------------------------
Next ==
    \/ Run \/ Moderate \/ Sweep
    \/ \E s \in Sessions : ServeWs(s) \/ ReadPump(s) \/ WritePump(s) \/ PeerCloses(s)

Spec == Init /\ [][Next]_vars

----------------------------------------------------------------------------
(* Safety. *)

TypeOK ==
    /\ clients \subseteq Sessions /\ usernames \subseteq Users
    /\ clientsByUsername \in [Users -> Sessions \cup {NoSession}]
    /\ channels \in [Channels -> SUBSET Sessions]
    /\ banned \subseteq Users
    /\ userChannel \in [Users -> Channels]
    /\ open \in [Sessions -> BOOLEAN]
    /\ send \in [Sessions -> 0..SendCap]
    /\ serve \in [Sessions -> ServePC]
    /\ reader \in [Sessions -> ReaderPC]
    /\ arg \in [Sessions -> Channels]
    /\ writer \in [Sessions -> WriterPC]
    /\ run \in {Waiting} \cup [at : RunPC \ {"select"}, client : Sessions]
    /\ admin \in [at : AdminPC, user : Users, target : Sessions \cup {NoSession}]
    /\ stale \subseteq Sessions

\* Connection s is entitled to its name: its handler holds the reservation, or
\* the hub is registering it, or it is registered.
Holds(s) ==
    serve[s] \in {"banCheck", "register"} \/ Running("add", s) \/ s \in clients

\* "tracks reserved usernames so handshake cannot double-book the same name":
\* at most one connection is entitled to a name, and usernames is exactly the
\* set of names somebody is entitled to.  Neither a late unregister of a dropped
\* connection nor a sweep that started before the user came back takes the name
\* from its new owner, and no rejected or dead connection keeps one.
NamesHeldOnce ==
    /\ \A s, t \in Sessions : Holds(s) /\ Holds(t) /\ UserOf[s] = UserOf[t] => s = t
    /\ usernames = {UserOf[s] : s \in {t \in Sessions : Holds(t)}}

\* clientsByUsername, which moderation and direct messages go by, names exactly
\* the registered clients although six places update it and clients together.
IndexAgrees ==
    \A u \in Users, s \in Sessions :
        clientsByUsername[u] = s <=> s \in clients /\ UserOf[s] = u

\* The hub has seen s and does not list it any more.
Removed(s) ==
    s \notin clients /\ ~Running("add", s)
    /\ serve[s] \notin {"handshake", "banCheck", "register"}

\* A client that was removed, by whichever of the five paths, does not stay
\* connected: its socket is closed, or the call that removed it is about to.
RemovedAreClosed ==
    \A s \in Sessions : Removed(s) =>
        ~open[s] \/ reader[s] = "close" \/ (admin.at = "close" /\ admin.target = s)

\* A connection whose unregistration the hub has finished is in no room, even if
\* it was dropped from clients long before, so rooms do not fill with ghosts.
NoGhostMembers ==
    \A c \in Channels : \A s \in channels[c] :
        reader[s] \in {"close", "done"} => Running("remove", s) \/ Running("leaveAll", s)

\* When the hub takes a message that names no recipient, its sender is in the
\* room the message was stamped with, whatever joins and leaves came between:
\* senders see their own messages, and speak in their own room only.  It is not
\* so of a message that names one: see ReadAddressedMessage.
SenderInRoom ==
    \A s \in Sessions :
        run = Waiting /\ reader[s] = "broadcast" => s \in channels[arg[s]]

============================================================================
