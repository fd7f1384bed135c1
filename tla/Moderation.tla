----------------------------- MODULE Moderation -----------------------------
(***************************************************************************)
(* Bans and kicks: the maps in Hub, the table ban_history they are         *)
(* reloaded from, crashes and restarts between any two steps, and what the *)
(* history filter hides from a user who was banned (ban history gaps).     *)
(*                                                                         *)
(* banMutex makes each call exclusive; between its database transaction    *)
(* and its change of the maps the server can crash.  A transaction that    *)
(* fails leaves everything as it was and the call reports an error, which  *)
(* is a stuttering step.  Whether the target of a kick is connected, and   *)
(* its disconnection, are the subject of module Hub.                       *)
(***************************************************************************)
EXTENDS Integers, Sequences, FiniteSets

CONSTANTS
    Users,
    KickTime,   \* 24 hours
    Legacy,     \* the ban_history rows of a user an older server may have left
    MaxTime,    \* bound on the clock
    MaxRows,    \* bound on the ban_history rows of a user
    MaxMessages \* bound on the messages remembered

\* NULL in the columns unbanned_at and expires_at.
Null == -1

Row == [from : Int, till : Int, expires : Int]

ASSUME KickTimeAssumption == KickTime \in Nat \ {0}
\* The clock starts at 0; what an older server recorded lies before.
ASSUME LegacyAssumption ==
    /\ Legacy \subseteq Seq(Row)
    /\ \A rows \in Legacy : \A i \in DOMAIN rows :
          rows[i].from <= 0 /\ (rows[i].expires = Null \/ rows[i].expires > rows[i].from)
ASSUME BoundsAssumption == {MaxTime, MaxRows, MaxMessages} \subseteq Nat

VARIABLES
    bans,          \* Hub.bans
    tempKicks,     \* Hub.tempKicks: the expiry, Null for a missing entry
    history,       \* table ban_history: the rows of each user, oldest first
    messageState,  \* table user_message_state: the users with a row
    now,           \* the clock, in units of the table's timestamps
    up,            \* the server runs
    call,          \* the moderation call holding banMutex after its transaction
    messages       \* the messages sent, with the users banned at that moment

vars == <<bans, tempKicks, history, messageState, now, up, call, messages>>

NoCall == [at |-> "none"]

Init ==
    /\ bans = {} /\ tempKicks = [u \in Users |-> Null]
    /\ history \in [Users -> Legacy]
    /\ messageState = {} /\ now = 0 /\ up = FALSE /\ call = NoCall
    /\ messages = {}

----------------------------------------------------------------------------
(* ban_history. *)

OpenRows(rows) == {i \in DOMAIN rows : rows[i].till = Null}

\* UPDATE ban_history SET unbanned_at = now WHERE ... unbanned_at IS NULL
CloseOpen(rows) ==
    [i \in DOMAIN rows |-> IF rows[i].till = Null THEN [rows[i] EXCEPT !.till = now]
                           ELSE rows[i]]

\* recordBanEvent, one transaction: close, then insert.
RecordBanEvent(rows, expiry) ==
    Append(CloseOpen(rows), [from |-> now, till |-> Null, expires |-> expiry])

\* ORDER BY id DESC, first seen: the newest open row decides.
CurrentRow(rows) ==
    rows[CHOOSE i \in OpenRows(rows) : \A j \in OpenRows(rows) : j <= i]

BannedByRows(rows) == OpenRows(rows) # {} /\ CurrentRow(rows).expires = Null

KickedByRows(rows) ==
    OpenRows(rows) # {} /\ CurrentRow(rows).expires # Null /\ now < CurrentRow(rows).expires

----------------------------------------------------------------------------
(* The calls. *)

IsUserBanned(u) == u \in bans \/ (tempKicks[u] # Null /\ now < tempKicks[u])

\* clearUserMessageState; its failure is only logged.
ClearMessageState(u) == messageState' \in {messageState, messageState \ {u}}

Begin(u, at, expiry) ==
    /\ up /\ call = NoCall
    /\ call' = [at |-> at, user |-> u, expiry |-> expiry]

\* Mutant: the event is not recorded.
BanUserUnrecorded(u) ==
    /\ Begin(u, "ban", Null) /\ Len(history[u]) < MaxRows
    /\ ClearMessageState(u)
    /\ UNCHANGED <<bans, tempKicks, history, now, up, messages>>

BanUser(u) ==
    /\ Begin(u, "ban", Null) /\ Len(history[u]) < MaxRows
    /\ history' = [history EXCEPT ![u] = RecordBanEvent(@, Null)]
    /\ ClearMessageState(u)
    /\ UNCHANGED <<bans, tempKicks, now, up, messages>>

\* Mutant: a permanent ban is overridden.
KickUserAnyone(u) ==
    /\ Begin(u, "kick", now + KickTime) /\ Len(history[u]) < MaxRows
    /\ history' = [history EXCEPT ![u] = RecordBanEvent(@, now + KickTime)]
    /\ ClearMessageState(u)
    /\ UNCHANGED <<bans, tempKicks, now, up, messages>>

KickUser(u) ==
    /\ u \notin bans
    /\ Begin(u, "kick", now + KickTime) /\ Len(history[u]) < MaxRows
    /\ history' = [history EXCEPT ![u] = RecordBanEvent(@, now + KickTime)]
    /\ ClearMessageState(u)
    /\ UNCHANGED <<bans, tempKicks, now, up, messages>>

UnbanUser(u) ==
    /\ u \in bans /\ Begin(u, "unban", Null)
    /\ history' = [history EXCEPT ![u] = CloseOpen(@)]
    /\ ClearMessageState(u)
    /\ UNCHANGED <<bans, tempKicks, now, up, messages>>

\* An expired kick is allowed too while its entry is still there.
AllowUser(u) ==
    /\ tempKicks[u] # Null /\ Begin(u, "allow", Null)
    /\ history' = [history EXCEPT ![u] = CloseOpen(@)]
    /\ UNCHANGED <<bans, tempKicks, messageState, now, up, messages>>

\* Mutant: a ban leaves the kick it replaces in the map, an allow does nothing.
UpdateMapsPartly ==
    /\ call.at # "none"
    /\ bans' = CASE call.at = "ban" -> bans \cup {call.user}
                 [] call.at = "unban" -> bans \ {call.user}
                 [] OTHER -> bans
    /\ tempKicks' = IF call.at = "kick" THEN [tempKicks EXCEPT ![call.user] = call.expiry]
                    ELSE tempKicks
    /\ call' = NoCall
    /\ UNCHANGED <<history, messageState, now, up, messages>>

\* The second half of each call: the maps change and banMutex is released.
UpdateMaps ==
    /\ call.at # "none"
    /\ bans' = CASE call.at = "ban" -> bans \cup {call.user}
                 [] call.at = "unban" -> bans \ {call.user}
                 [] OTHER -> bans
    /\ tempKicks' = CASE call.at \in {"ban", "allow"} -> [tempKicks EXCEPT ![call.user] = Null]
                      [] call.at = "kick" -> [tempKicks EXCEPT ![call.user] = call.expiry]
                      [] OTHER -> tempKicks
    /\ call' = NoCall
    /\ UNCHANGED <<history, messageState, now, up, messages>>

\* The hourly clean-up forgets expired kicks; their rows stay open.
CleanupExpiredBans ==
    /\ up /\ call = NoCall
    /\ tempKicks' = [u \in Users |-> IF tempKicks[u] # Null /\ now > tempKicks[u]
                                     THEN Null ELSE tempKicks[u]]
    /\ UNCHANGED <<bans, history, messageState, now, up, call, messages>>

\* A handshake that passed its ban check records last_seen.
TouchUserLastSeen(u) ==
    /\ up /\ messageState' = messageState \cup {u}
    /\ UNCHANGED <<bans, tempKicks, history, now, up, call, messages>>

----------------------------------------------------------------------------
(* The process, the clock and the messages the gaps are about. *)

\* The process dies: the maps and the call in progress are lost.
Crash ==
    /\ up /\ up' = FALSE
    /\ bans' = {} /\ tempKicks' = [u \in Users |-> Null] /\ call' = NoCall
    /\ UNCHANGED <<history, messageState, now, messages>>

\* NewHub: loadModerationState.
Restart ==
    /\ ~up /\ up' = TRUE
    /\ bans' = {u \in Users : BannedByRows(history[u])}
    /\ tempKicks' = [u \in Users |-> IF KickedByRows(history[u])
                                     THEN CurrentRow(history[u]).expires ELSE Null]
    /\ UNCHANGED <<history, messageState, now, call, messages>>

Tick ==
    /\ now < MaxTime /\ now' = now + 1
    /\ UNCHANGED <<bans, tempKicks, history, messageState, up, call, messages>>

\* Somebody sends a message; remembered with it, who is banned and who is free
\* just then, which a user whose call is half done is not.
SendMessage ==
    /\ up /\ Cardinality(messages) < MaxMessages
    /\ LET settled == {u \in Users : call.at = "none" \/ call.user # u}
           banned == {u \in settled : IsUserBanned(u)} IN
       messages' = messages \cup
           {[at |-> now, banned |-> banned, free |-> settled \ banned]}
    /\ UNCHANGED <<bans, tempKicks, history, messageState, now, up, call>>

Call(u) == BanUser(u) \/ KickUser(u) \/ UnbanUser(u) \/ AllowUser(u)

Next ==
    \/ \E u \in Users : Call(u) \/ TouchUserLastSeen(u)
    \/ UpdateMaps \/ CleanupExpiredBans
    \/ Crash \/ Restart \/ Tick \/ SendMessage

Spec == Init /\ [][Next]_vars

----------------------------------------------------------------------------
(* Properties. *)

\* Types; an event lies in the past, and its expiry after it.
TypeOK ==
    /\ bans \subseteq Users
    /\ tempKicks \in [Users -> Int]
    /\ history \in [Users -> Seq(Row)]
    /\ \A u \in Users : \A i \in DOMAIN history[u] :
          LET row == history[u][i] IN
          row.from <= now /\ (row.expires = Null \/ row.expires > row.from)
    /\ messageState \subseteq Users
    /\ now \in Nat /\ up \in BOOLEAN
    /\ call \in {NoCall} \cup [at : {"ban", "kick", "unban", "allow"}, user : Users, expiry : Int]
    /\ \A m \in messages : m.at \in Nat /\ m.banned \cup m.free \subseteq Users

Settled(u) == up /\ (call.at = "none" \/ call.user # u)

\* The maps and the table agree about every user no call is half done for, at
\* every moment, so that a restart neither frees nor bans anybody: "Open rows are
\* the source of truth for active moderation across restart".
MemoryAgreesWithHistory ==
    \A u \in Users : Settled(u) =>
        /\ u \in bans <=> BannedByRows(history[u])
        /\ tempKicks[u] # Null /\ now < tempKicks[u] <=> KickedByRows(history[u])

\* isMessageInBanPeriod.  A timestamp of the table is the beginning of its
\* second, a message is sent at some moment within its own.
Hidden(u, t) ==
    \E i \in DOMAIN history[u] :
        LET row == history[u][i] IN
        row.from <= t /\ (row.till = Null \/ t < row.till)

\* "Prevents banned users from seeing messages sent during ban periods": with
\* ban history gaps, a message sent while a user was banned is not replayed to
\* them, ever, except one of the very second in which a ban was ended.
GapsHideBanPeriods ==
    \A m \in messages : \A u \in m.banned :
        Hidden(u, m.at) \/ \E i \in DOMAIN history[u] : history[u][i].till = m.at

\* The promise: refinement of ModerationAbs, the newest open row of the table
\* being the status.
StatusOf(rows) ==
    IF OpenRows(rows) = {} THEN [kind |-> "free", until |-> 0]
    ELSE IF CurrentRow(rows).expires = Null THEN [kind |-> "banned", until |-> 0]
    ELSE [kind |-> "kicked", until |-> CurrentRow(rows).expires]

Status == [u \in Users |-> StatusOf(history[u])]

Abs == INSTANCE ModerationAbs WITH status <- Status

\* Every step of the server is one call of ModerationAbs or invisible to it.
ImplementsAbs == Abs!Spec
============================================================================
