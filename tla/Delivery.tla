------------------------------ MODULE Delivery ------------------------------
(***************************************************************************)
(* What a message goes through: the table messages of the server, the      *)
(* handlers that insert, edit, delete, pin and react, the fan-out of the    *)
(* hub, the replay of a handshake, and the transcript the terminal client   *)
(* builds out of both.                                                      *)
(*                                                                         *)
(* Every SQL statement is one action, and so are the hand-over to the hub    *)
(* and the hand-over to the client.  All clients are in one room; module     *)
(* Hub has the rooms, and the texts that name a recipient, which no client    *)
(* of this repository sends.  A message is its number and the version of its *)
(* text.                                                                     *)
(***************************************************************************)
EXTENDS Naturals, Sequences, FiniteSets

CONSTANTS
    Sessions,       \* connections
    Users,          \* the people behind them, each with one terminal client
    UserOf,         \* who is behind each connection
    Admins,         \* the users that may delete, pin and clear
    Nobody,         \* the empty recipient
    SendCap,        \* capacity of Client.send
    ReplayLimit,    \* HandshakeReplayLimit
    Retention,      \* maxMessageRetention()
    MaxShown,       \* maxMessages, the length of the client's transcript
    MaxId,          \* bound: messages stored
    MaxVersion,     \* bound: version of a text
    Mixes           \* bound: the messages, operations (edits, deletions, reactions,
                    \* pins, notices) and handshakes that come together

ASSUME DeliveryAssumption ==
    /\ UserOf \in [Sessions -> Users] /\ Admins \subseteq Users
    /\ Nobody \notin Users
    /\ {SendCap, ReplayLimit, Retention, MaxShown} \subseteq Nat \ {0}
    /\ {MaxId, MaxVersion} \subseteq Nat /\ Mixes \subseteq Nat \X Nat \X Nat

VARIABLES
    rows,       \* table messages: id -> row, or NoRow
    nextId,     \* the id the next insertion gets; ids are never used again
    pins,       \* column pinned
    reactions,  \* table message_reactions, for one emoji: {<<id, user>>}
    work,       \* what the readPump of each session is doing
    conn,       \* how far the handshake of each session is
    hist,       \* what the handler still has to put into the buffer
    send,       \* Client.send
    shown,      \* the client's messages: user -> id -> copies in the transcript;
                \* those without a number, files and notices are under 0
    marks,      \* the client's reactions: user -> {<<id, user>>}
    ops, connects, stamp,   \* counters of the bounds, and the server's clock
    window,     \* history: the ids the last replay of a session has read
    since,      \* history: the id that was next when it read them
    disturbed   \* history: {<<user, id>>}: two operations on id overlapped, a
                \* statement about it failed, or the client has trimmed it

table == <<rows, nextId, pins, reactions>>
session == <<conn, hist, send>>
client == <<shown, marks>>
Contents(q) == {q[n] : n \in DOMAIN q}

ghost == <<window, since, disturbed>>
vars == <<table, work, session, client, ops, connects, stamp, ghost>>

Ids == 1..MaxId
NoRow == [none |-> TRUE]
Present == {i \in Ids : rows[i] # NoRow}
ById(i) == i \in Present /\ rows[i].numbered     \* WHERE message_id = i

Ev(k, i, b, u, to) == [k |-> k, id |-> i, body |-> b, who |-> u, to |-> to]
Free == [at |-> "read"]
Busy(at, e) == [at |-> at, ev |-> e, time |-> stamp]
WorkTo(s, w) == work' = [work EXCEPT ![s] = w]
\* The handler has put everything into the buffer: go client.readPump().
On(s) == conn[s] = "reactions" /\ hist[s] = <<>>
Listening(s) == On(s) /\ work[s] = Free
Within(m, o, c) == \E mix \in Mixes : m <= mix[1] /\ o <= mix[2] /\ c <= mix[3]
Live == {s \in Sessions : conn[s] # "off"}

Init ==
    /\ rows = [i \in Ids |-> NoRow] /\ nextId = 1
    /\ pins = {} /\ reactions = {}
    /\ work = [s \in Sessions |-> Free]
    /\ conn = [s \in Sessions |-> "off"]
    /\ hist = [s \in Sessions |-> <<>>] /\ send = [s \in Sessions |-> <<>>]
    /\ shown = [u \in Users |-> [i \in 0..MaxId |-> <<>>]]
    /\ marks = [u \in Users |-> {}]
    /\ ops = 0 /\ connects = 0 /\ stamp = 0
    /\ window = [s \in Sessions |-> {}] /\ since = [s \in Sessions |-> 1]
    /\ disturbed = {}

----------------------------------------------------------------------------
(* History: when do two operations on a message overlap?                    *)

\* An operation on i was stored and has not reached the hub yet.
Pending(i, s) == \E t \in Sessions \ {s} : work[t] # Free /\ work[t].ev.id = i

\* Session s stores something about i.
Store(s, i) ==
    disturbed' = disturbed \cup (IF Pending(i, s) THEN {UserOf[t] : t \in Live} \X {i} ELSE {})

\* The hub fans out e to a client whose replay has read, or will read, the row.
Overtakes(e) ==
    {<<UserOf[s], e.id>> : s \in {t \in Live :
        \/ conn[t] # "fetch" /\ ~On(t) /\ e.id \in window[t]
        \/ conn[t] = "fetch" /\ e.k = "msg"}}

\* Session s connects: of the reactions that are under way the client will see
\* the broadcast, but not which ones they have overtaken.
Joins(s) ==
    /\ disturbed' = disturbed \cup ({UserOf[s]} \X
          {i \in Ids : \E t \in Sessions : work[t] # Free /\ work[t].ev.k = "react" /\ work[t].ev.id = i})
    /\ UNCHANGED <<window, since>>

----------------------------------------------------------------------------
(* handleInboundText and handleInboundDM.                                   *)

\* The message is checked and stamped with sender and time.
ReadText(s, to) ==
    /\ Listening(s) /\ stamp < MaxId /\ Within(stamp + 1, ops, connects)
    /\ stamp' = stamp + 1
    /\ WorkTo(s, Busy("insert", Ev("msg", 0, 0, UserOf[s], to)))
    /\ UNCHANGED <<table, session, client, ops, connects, ghost>>

\* The first statement of InsertMessage; the column message_id is still 0.
Insert(s) ==
    /\ work[s].at = "insert" /\ nextId <= MaxId
    /\ LET e == work[s].ev IN
       /\ rows' = [rows EXCEPT ![nextId] =
             [sender |-> e.who, to |-> e.to, body |-> 0, deleted |-> FALSE,
              numbered |-> FALSE, at |-> work[s].time]]
       /\ WorkTo(s, [work[s] EXCEPT !.at = "number", !.ev = [e EXCEPT !.id = nextId]])
    /\ nextId' = nextId + 1
    /\ UNCHANGED <<pins, reactions, session, client, ops, connects, stamp, ghost>>

\* The statement fails: the sender is told so and nothing is broadcast.
InsertFails(s) ==
    /\ work[s].at = "insert" /\ WorkTo(s, [work[s] EXCEPT !.at = "notice"])
    /\ UNCHANGED <<table, session, client, ops, connects, stamp, ghost>>

\* UPDATE messages SET message_id = id.  If it fails the message goes on all the
\* same, with the number its row has not got.
Number(s) ==
    /\ work[s].at = "number"
    /\ LET i == work[s].ev.id IN
       \/ rows' = [rows EXCEPT ![i] = IF @ = NoRow THEN @ ELSE [@ EXCEPT !.numbered = TRUE]]
       \/ UNCHANGED rows
    /\ WorkTo(s, [work[s] EXCEPT !.at = "retain"])
    /\ UNCHANGED <<nextId, pins, reactions, session, client, ops, connects,
                   stamp, ghost>>

\* The n greatest of a set of numbers.
Newest(S, n) == {i \in S : Cardinality({j \in S : j > i}) < n}

\* Mutant: one row more is kept.
RetainOneMore(s) ==
    /\ work[s].at = "retain"
    /\ rows' = [i \in Ids |-> IF i \in Newest(Present, Retention + 1) THEN rows[i] ELSE NoRow]
    /\ pins' = pins \cap Newest(Present, Retention + 1)
    /\ WorkTo(s, [work[s] EXCEPT !.at = "send"])
    /\ UNCHANGED <<nextId, reactions, session, client, ops, connects, stamp, ghost>>

\* enforceMessageRetention, without MARCHAT_MESSAGE_TTL_HOURS.
Retain(s) ==
    /\ work[s].at = "retain"
    /\ rows' = [i \in Ids |-> IF i \in Newest(Present, Retention) THEN rows[i] ELSE NoRow]
    /\ pins' = pins \cap Newest(Present, Retention)
    /\ WorkTo(s, [work[s] EXCEPT !.at = "send"])
    /\ UNCHANGED <<nextId, reactions, session, client, ops, connects, stamp, ghost>>

----------------------------------------------------------------------------
(* The other handlers that change the table.                                *)

Operate(s) == Listening(s) /\ Within(stamp, ops + 1, connects) /\ ops' = ops + 1

\* Mutant: an edit brings a deleted message back.
EditRestores(s, i) ==
    /\ Operate(s) /\ ById(i) /\ rows[i].body < MaxVersion
    /\ rows[i].sender = UserOf[s]
    /\ rows' = [rows EXCEPT ![i].body = @ + 1, ![i].deleted = FALSE]
    /\ WorkTo(s, Busy("send", Ev("edit", i, rows'[i].body, UserOf[s], Nobody)))
    /\ Store(s, i)
    /\ UNCHANGED <<nextId, pins, reactions, session, client, connects, stamp,
                   window, since>>

\* handleInboundEdit.  A refused edit only sends a notice.  That the row is
\* marked as deleted does not matter.
Edit(s, i) ==
    /\ Operate(s) /\ ById(i) /\ rows[i].body < MaxVersion
    /\ rows[i].sender = UserOf[s]
    /\ rows' = [rows EXCEPT ![i].body = @ + 1]
    /\ WorkTo(s, Busy("send", Ev("edit", i, rows'[i].body, UserOf[s], Nobody)))
    /\ Store(s, i)
    /\ UNCHANGED <<nextId, pins, reactions, session, client, connects, stamp,
                   window, since>>

\* handleInboundDelete.
Delete(s, i) ==
    /\ Operate(s) /\ ById(i)
    /\ UserOf[s] \in Admins \cup {rows[i].sender}
    /\ rows' = [rows EXCEPT ![i].deleted = TRUE]
    /\ WorkTo(s, Busy("send", Ev("delete", i, 0, UserOf[s], Nobody)))
    /\ Store(s, i)
    /\ UNCHANGED <<nextId, pins, reactions, session, client, connects, stamp,
                   window, since>>

\* handleInboundReaction; nothing checks that the message is there.
React(s, i, on) ==
    /\ Operate(s) /\ i < nextId
    /\ reactions' = IF on = 1 THEN reactions \cup {<<i, UserOf[s]>>}
                             ELSE reactions \ {<<i, UserOf[s]>>}
    /\ WorkTo(s, Busy("send", Ev("react", i, on, UserOf[s], Nobody)))
    /\ Store(s, i)
    /\ UNCHANGED <<rows, nextId, pins, session, client, connects, stamp,
                   window, since>>

\* The statement fails: that is logged, and the reaction is broadcast.
ReactUnstored(s, i, on) ==
    /\ Operate(s) /\ i < nextId
    /\ WorkTo(s, Busy("send", Ev("react", i, on, UserOf[s], Nobody)))
    /\ disturbed' = disturbed \cup ({UserOf[t] : t \in Live} \X {i})
    /\ UNCHANGED <<table, session, client, connects, stamp, window, since>>

\* TogglePinMessage reads the flag ...
PinRead(s, i) ==
    /\ Operate(s) /\ UserOf[s] \in Admins /\ ById(i)
    /\ WorkTo(s, Busy("pin", Ev("note", i, IF i \in pins THEN 1 ELSE 0, UserOf[s], Nobody)))
    /\ UNCHANGED <<table, session, client, connects, stamp, ghost>>

\* ... and writes its negation; if the row has gone meanwhile nobody notices.
PinWrite(s) ==
    /\ work[s].at = "pin"
    /\ LET e == work[s].ev IN
       pins' = IF e.body = 0 THEN pins \cup ({e.id} \cap Present) ELSE pins \ {e.id}
    /\ WorkTo(s, [work[s] EXCEPT !.at = "send"])
    /\ UNCHANGED <<rows, nextId, reactions, session, client, ops, connects, stamp, ghost>>

\* :cleardb; the reactions and the receipts stay.
ClearMessages(s) ==
    /\ Operate(s) /\ UserOf[s] \in Admins
    /\ rows' = [i \in Ids |-> NoRow] /\ pins' = {}
    /\ WorkTo(s, Busy("send", Ev("note", 0, 0, UserOf[s], Nobody)))
    /\ UNCHANGED <<nextId, reactions, session, client, connects, stamp, ghost>>

\* The messages no transcript of texts depends on: they go to the room or,
\* as an answer of the System, to their sender.
Say(s, at) ==
    /\ Operate(s)
    /\ WorkTo(s, Busy(at, Ev("note", 0, 0, UserOf[s], Nobody)))
    /\ UNCHANGED <<table, session, client, connects, stamp, ghost>>

ReadTyping(s) == Say(s, "send")     \* to one user it goes like a direct message
ReadReceipt(s) == Say(s, "send")
ReadFile(s) == Say(s, "send") \/ Say(s, "notice")      \* or it is too large
Search(s) == Say(s, "notice")

----------------------------------------------------------------------------
(* The hub.                                                                  *)

Full(s) == Len(send[s]) >= SendCap
Put(To, e) == [s \in Sessions |-> IF s \in To /\ ~Full(s) THEN Append(send[s], e) ELSE send[s]]
Audience(e) == IF e.to = Nobody THEN Live
               ELSE {s \in Live : UserOf[s] \in {e.who, e.to}}

\* c.send <- a notice of the System: the readPump waits for room.
Notice(s) ==
    /\ work[s].at = "notice" /\ (s \in Live => ~Full(s))
    /\ send' = Put({s} \cap Live, Ev("note", 0, 0, UserOf[s], Nobody))
    /\ WorkTo(s, Free)
    /\ UNCHANGED <<table, conn, hist, client, ops, connects, stamp, ghost>>

\* What connections lose when they end: a new one starts with empty buffers.
End(S) ==
    /\ conn' = [s \in Sessions |-> IF s \in S THEN "off" ELSE conn[s]]
    /\ hist' = [s \in Sessions |-> IF s \in S THEN <<>> ELSE hist[s]]
    /\ window' = [s \in Sessions |-> IF s \in S THEN {} ELSE window[s]]
    /\ since' = [s \in Sessions |-> IF s \in S THEN 1 ELSE since[s]]

Without(S, D) == {d \in D : \A s \in S : d[1] # UserOf[s]}

\* case <-h.broadcast: whoever has no room in the buffer is dropped.
Broadcast(s) ==
    /\ work[s].at = "send" /\ work[s].ev.to = Nobody
    /\ LET e == work[s].ev
           dropped == {t \in Live : Full(t)} IN
       /\ send' = [t \in Sessions |-> IF t \in dropped THEN <<>> ELSE Put(Live, e)[t]]
       /\ End(dropped)
       /\ disturbed' = Without(dropped, disturbed \cup Overtakes(e))
    /\ WorkTo(s, Free)
    /\ UNCHANGED <<table, client, ops, connects, stamp>>

\* broadcastDM: whoever has no room misses the message.
BroadcastDM(s) ==
    /\ work[s].at = "send" /\ work[s].ev.to # Nobody
    /\ LET e == work[s].ev IN
       /\ send' = Put(Audience(e), e)
       /\ disturbed' = disturbed \cup Overtakes(e)
             \cup {<<UserOf[t], e.id>> : t \in {t \in Audience(e) : Full(t)}}
    /\ WorkTo(s, Free)
    /\ UNCHANGED <<table, conn, hist, client, ops, connects, stamp, window, since>>

----------------------------------------------------------------------------
(* ServeWs after the registration: the replay.                               *)

\* Mutant: the transcript of the last connection is kept.
ConnectKeeps(s) ==
    /\ conn[s] = "off" /\ work[s] = Free /\ Within(stamp, ops, connects + 1)
    /\ \A t \in Live : UserOf[t] # UserOf[s]
    /\ connects' = connects + 1
    /\ conn' = [conn EXCEPT ![s] = "fetch"] /\ send' = [send EXCEPT ![s] = <<>>]
    /\ Joins(s)
    /\ UNCHANGED <<table, work, hist, client, ops, stamp>>

\* A new connection; the client starts with an empty transcript.
Connect(s) ==
    /\ conn[s] = "off" /\ work[s] = Free /\ Within(stamp, ops, connects + 1)
    /\ \A t \in Live : UserOf[t] # UserOf[s]
    /\ connects' = connects + 1
    /\ conn' = [conn EXCEPT ![s] = "fetch"] /\ send' = [send EXCEPT ![s] = <<>>]
    /\ shown' = [shown EXCEPT ![UserOf[s]] = [i \in 0..MaxId |-> <<>>]]
    /\ marks' = [marks EXCEPT ![UserOf[s]] = {}]
    /\ Joins(s)
    /\ UNCHANGED <<table, work, hist, ops, stamp>>

\* Mutant: everything is replayed to everybody.
VisibleAll(u) == Present
Visible(u) == {i \in Present : rows[i].to = Nobody \/ u \in {rows[i].sender, rows[i].to}}

\* visibleMessagesForUserSQL: the newest by the time they were sent.
Recent(u) == {i \in Visible(u) :
    Cardinality({j \in Visible(u) : rows[j].at > rows[i].at}) < ReplayLimit}

\* scanMessagesFromRows: a deleted row is replayed as a deletion.
AsEvent(i) ==
    LET r == rows[i] n == IF r.numbered THEN i ELSE 0 IN
    IF r.deleted THEN Ev("delete", n, 0, r.sender, r.to)
                 ELSE Ev("msg", n, r.body, r.sender, r.to)

\* The ways to list a set.
Lists(S) == {f \in [1..Cardinality(S) -> S] : \A m, n \in DOMAIN f : f[m] = f[n] => m = n}

\* GetRecentMessagesForUser, in the order of sortMessagesByTimestamp.
Fetch(s) ==
    /\ conn[s] = "fetch"
    /\ LET got == Recent(UserOf[s]) IN
       /\ \E list \in Lists(got) :
             /\ \A m, n \in DOMAIN list : m < n => rows[list[m]].at <= rows[list[n]].at
             /\ hist' = [hist EXCEPT ![s] = [n \in DOMAIN list |-> AsEvent(list[n])]]
       /\ window' = [window EXCEPT ![s] = got]
       /\ since' = [since EXCEPT ![s] = nextId]
       /\ disturbed' = disturbed \cup ({UserOf[s]} \X {i \in Ids : Pending(i, s) \/ (i \in Present /\ ~rows[i].numbered)})
    /\ conn' = [conn EXCEPT ![s] = "rows"]
    /\ UNCHANGED <<table, work, send, client, ops, connects, stamp>>

\* select { case client.send <- msg: default: }
Replay(s) ==
    /\ conn[s] \in {"rows", "reactions"} /\ hist[s] # <<>>
    /\ send' = Put({s}, Head(hist[s]))
    /\ hist' = [hist EXCEPT ![s] = Tail(@)]
    /\ disturbed' = disturbed \cup
          (IF Full(s) THEN {<<UserOf[s], Head(hist[s]).id>>} ELSE {})
    /\ UNCHANGED <<table, work, conn, client, ops, connects, stamp, window, since>>

\* LoadReactionsForMessages for the rows that have a number.
LoadReactions(s) ==
    /\ conn[s] = "rows" /\ hist[s] = <<>>
    /\ \E list \in Lists({r \in reactions : r[1] \in window[s]}) :
          hist' = [hist EXCEPT ![s] = [n \in DOMAIN list |->
                      Ev("react", list[n][1], 1, list[n][2], Nobody)]]
    /\ conn' = [conn EXCEPT ![s] = "reactions"]
    /\ UNCHANGED <<table, work, send, client, ops, connects, stamp, ghost>>

\* The connection ends; what is under way in its readPump goes on.
Disconnect(s) ==
    /\ conn[s] # "off" /\ End({s}) /\ send' = [send EXCEPT ![s] = <<>>]
    /\ disturbed' = Without({s}, disturbed)
    /\ UNCHANGED <<table, work, client, ops, connects, stamp>>

----------------------------------------------------------------------------
(* The client: case shared.Message of Update.                                *)

\* Both copies of a message sort alike, or by their text.
Appended(copies, c) == {Append(copies, c), <<c>> \o copies}

\* What T has at i, with the first copy changed: the loops over m.messages stop
\* at the first message with the number.
OnFirst(T, i, field, value) ==
    [T EXCEPT ![i] = IF i = 0 \/ @ = <<>> THEN @ ELSE [@ EXCEPT ![1][field] = value]]

\* The transcript T before another line is added: a full one loses a line, the
\* oldest in the code; which line is the oldest is left open.
Length(T) == Cardinality(UNION {{i} \X DOMAIN T[i] : i \in 0..MaxId})
Trimmed(T) ==
    IF Length(T) < MaxShown THEN {T}
    ELSE {[T EXCEPT ![i] = Tail(@)] : i \in {j \in 0..MaxId : T[j] # <<>>}}

\* A note is a file or a notice, which take a line, or takes none.
Before(u, e) ==
    CASE e.k = "msg" -> Trimmed(shown[u])
      [] e.k = "note" -> Trimmed(shown[u]) \cup {shown[u]}
      [] OTHER -> {shown[u]}

\* What becomes of the transcript T, already trimmed.
Shows(T, e) ==
    CASE e.k = "msg" ->
            {[T EXCEPT ![e.id] = copies] :
                copies \in Appended(T[e.id], [body |-> e.body, deleted |-> FALSE])}
      [] e.k = "edit" -> {OnFirst(T, e.id, "body", e.body)}
      [] e.k = "delete" -> {OnFirst(T, e.id, "deleted", TRUE)}
      [] e.k = "note" /\ Length(T) < MaxShown ->
            {T, [T EXCEPT ![0] = Append(@, [body |-> 0, deleted |-> FALSE])]}
      [] OTHER -> {T}

\* Mutant: the removal of a reaction adds it.
MarksOnly(u, e) ==
    IF e.k = "react" THEN marks[u] \cup {<<e.id, e.who>>} ELSE marks[u]

Marks(u, e) ==
    IF e.k # "react" THEN marks[u]
    ELSE IF e.body = 1 THEN marks[u] \cup {<<e.id, e.who>>} ELSE marks[u] \ {<<e.id, e.who>>}

\* The switch over the type of the message.
Merge(u, e) ==
    /\ \E T \in Before(u, e) :
          /\ \E shows \in Shows(T, e) : shown' = [shown EXCEPT ![u] = shows]
          /\ disturbed' = disturbed \cup ({u} \X {i \in Ids : T[i] # shown[u][i]})
    /\ marks' = [marks EXCEPT ![u] = Marks(u, e)]

\* writePump, the network, the reader of the client and its event loop.
Deliver(s) ==
    /\ conn[s] # "off" /\ send[s] # <<>>
    /\ Merge(UserOf[s], Head(send[s]))
    /\ send' = [send EXCEPT ![s] = Tail(@)]
    /\ UNCHANGED <<table, work, conn, hist, ops, connects, stamp, window, since>>

----------------------------------------------------------------------------
Dispatch(s) ==
    \/ \E to \in (Users \ {UserOf[s]}) \cup {Nobody} : ReadText(s, to)
    \/ \E i \in Ids : Edit(s, i) \/ Delete(s, i) \/ PinRead(s, i)
    \/ \E i \in Ids, on \in 0..1 : React(s, i, on) \/ ReactUnstored(s, i, on)
    \/ ClearMessages(s)
    \/ ReadTyping(s) \/ ReadReceipt(s) \/ ReadFile(s) \/ Search(s)

Work(s) ==
    \/ Insert(s) \/ InsertFails(s) \/ Number(s) \/ Retain(s)
    \/ PinWrite(s) \/ Notice(s) \/ Broadcast(s) \/ BroadcastDM(s)

Handshake(s) ==
    Connect(s) \/ Fetch(s) \/ Replay(s) \/ LoadReactions(s)

Next ==
    \E s \in Sessions :
        Dispatch(s) \/ Work(s) \/ Handshake(s) \/ Deliver(s) \/ Disconnect(s)

Spec == Init /\ [][Next]_vars

----------------------------------------------------------------------------
\* Nothing is under way for the client of session s.
Quiet(s) ==
    /\ On(s) /\ send[s] = <<>>
    /\ \A t \in Sessions : work[t] = Free

\* What the client of s has been sent: the window of its replay and all since.
Covered(s) == window[s] \cup {i \in Ids : i >= since[s]}

\* The transcript agrees with the table: once nothing is under way, a message
\* that the table keeps, that its reader may see, that the transcript has had
\* room for and on which no two operations overlapped nor failed is shown once,
\* with its last text, its reactions and whether it is deleted; a message
\* deleted before the connection is not shown.
Converges ==
    \A s \in Sessions : Quiet(s) =>
        \A i \in Covered(s) \cap Visible(UserOf[s]) :
            <<UserOf[s], i>> \notin disturbed =>
                LET copies == shown[UserOf[s]][i] IN
                /\ IF rows[i].deleted
                   THEN copies = <<>> \/ (Len(copies) = 1 /\ copies[1].deleted)
                   ELSE copies = <<[body |-> rows[i].body, deleted |-> FALSE]>>
                /\ {r \in marks[UserOf[s]] : r[1] = i} = {r \in reactions : r[1] = i}

\* Whatever insertions overlap, the table is back at its limit once the last
\* of them is over.
RetentionHolds ==
    (\A s \in Sessions : work[s] = Free) => Cardinality(Present) <= Retention

\* A message sent as a direct message goes into no buffer and into no transcript
\* but those of its sender and its recipient, by broadcast or by replay.  The
\* events about it do: see EditsArePrivate.
DirectIsPrivate ==
    /\ \A s \in Live : \A e \in Contents(send[s]) \cup Contents(hist[s]) :
          e.k = "msg" => e.to = Nobody \/ UserOf[s] \in {e.who, e.to}
    /\ \A u \in Users, i \in Present :
          shown[u][i] # <<>> => rows[i].to = Nobody \/ u \in {rows[i].sender, rows[i].to}

\* PROTOCOL.md: a direct message is delivered only to sender and recipient.  Its
\* edited text goes to everybody in the room of the editor.
EditsArePrivate ==
    \A s \in Live : \A e \in Contents(send[s]) :
        e.k \in {"msg", "edit"} /\ e.id \in Present =>
            rows[e.id].to = Nobody \/ UserOf[s] \in {rows[e.id].sender, rows[e.id].to}

\* Nothing makes a deleted message show up as it was: a row stays deleted, and
\* so does the copy of it in a transcript as long as the connection lasts and
\* the transcript has room.
DeletedStaysDeleted ==
    [][/\ \A i \in Present : rows[i].deleted /\ rows'[i] # NoRow => rows'[i].deleted
       /\ \A s \in Live, i \in Ids :
             LET u == UserOf[s] IN
             shown[u][i] # <<>> /\ shown[u][i][1].deleted
             /\ Len(shown'[u][i]) = 1 => shown'[u][i][1].deleted \/ <<u, i>> \in disturbed']_vars
=============================================================================
