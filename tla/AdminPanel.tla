----------------------------- MODULE AdminPanel -----------------------------
(* The terminal admin panel (server/admin_panel.go).  Update and View run    *)
(* on the event loop of bubbletea; a key that acts on a user, a plugin or    *)
(* the database starts a command, a goroutine of its own whose result comes  *)
(* back as a message.  A tick a second reloads everything.  A plugin command *)
(* reloads the list of plugins from its own goroutine, with no lock, beside  *)
(* the event loop's reload and its reads of the list.                        *)
EXTENDS Naturals, Integers, Sequences, FiniteSets, SequencesExt

CONSTANTS
    Users,
    Self,           \* adminUsername(): the first of the configured admins
    Store,          \* the plugins of the store, in order
    Keys,           \* bound: the operations whose keys are pressed
    Slots,          \* bound: commands at a time
    MaxEvents,      \* bound: keys and changes of the server
    MaxPoints,      \* 100 in the code
    None

Plugins == Range(Store)
Statuses == {"Available", "Active", "Disabled"}
UserOps == {"ban", "unban", "kick", "allow"}
PluginOps == {"enable", "disable", "install", "uninstall"}
DBOps == {"clear", "backup", "stats"}
Ops == UserOps \cup PluginOps \cup DBOps \cup {"store", "export"}
ASSUME ConstAssumption ==
    /\ Self \in Users /\ Keys \subseteq Ops /\ Store \in Seq(Plugins)
    /\ MaxEvents \in Nat /\ MaxPoints \in Nat \ {0}

Tabs == <<"overview", "users", "system", "logs", "plugins", "metrics">>

\* Seconds a message stays: 3, 5 and 10 in the code.
ShortTime == 1
ActionTime == 2
StatsTime == 3

VARIABLES
    \* the server: who is connected, banned or kicked, has messages; the plugins
    online, held, wrote, installed,
    \* the panel
    state,          \* open, quit or crashed (the event loop panicked)
    tab, rows, cursor,
    list,           \* ap.plugins
    selected,       \* ap.selectedPlugin
    timer,          \* ap.messageTimer; the message is empty when it is 0
    points, peak,   \* metrics.ConnectionHistory and PeakUsers
    loop,           \* what the event loop is in the middle of
    cmds,           \* the commands, one a slot
    raced,          \* history: what commands did to the length of the list since
                    \* the loop first read it for the key or frame it is at
    events          \* keys and changes so far

server == <<online, held, wrote, installed>>
metrics == <<points, peak>>
view == <<tab, rows, cursor, selected, timer>>
vars == <<server, state, view, list, metrics, loop, cmds, raced, events>>

----------------------------------------------------------------------------
(* What a reload reads. *)

Entry(p, known) == [name |-> p, status |-> known[p]]
Truth == [i \in DOMAIN Store |-> Entry(Store[i], installed)]

Status(u, on, out) == IF u \in out THEN "Banned" ELSE IF u \in on THEN "Online" ELSE "Offline"

\* Online first, then by messages; ties in any order, for the rows come from a map.
Before(r, s) ==
    /\ (s.status = "Online" => r.status = "Online")
    /\ (r.status = "Online") = (s.status = "Online") => r.messages >= s.messages

Tables(rs) ==
    {t \in [1..Cardinality(rs) -> rs] :
        /\ Range(t) = rs
        /\ \A i, j \in DOMAIN t : i < j => Before(t[i], t[j])}

Row(u, wr, on, out) ==
    [name |-> u, status |-> Status(u, on, out), messages |-> IF u \in wr THEN 1 ELSE 0]

Known(wr, on, out) == {Row(u, wr, on, out) : u \in wr \cup on}
Out == {u \in Users : held[u] # "free"}

Clamp(n, lo, hi) == IF n > hi THEN (IF hi < lo THEN lo ELSE hi) ELSE IF n < lo THEN lo ELSE n

----------------------------------------------------------------------------
(* loadPlugins, by the event loop or by a command.  The list is emptied, then *)
(* grows by one append at a time; an append that races may start from the     *)
(* list its goroutine wrote before, and lose what the other wrote since.      *)

Loading(known) == [known |-> known, next |-> 1, last |-> <<>>]

AppendNext(l) ==
    \E base \in {list, l.last} : list' = Append(base, Entry(Store[l.next], l.known))

Advance(l) == [known |-> l.known, next |-> l.next + 1, last |-> list']

----------------------------------------------------------------------------
Idle == [at |-> "idle"]
Free == [at |-> "free"]

Init ==
    /\ online = {} /\ wrote \in {{}, Users} /\ held = [u \in Users |-> "free"]
    /\ installed = [p \in Plugins |-> "Available"]
    /\ state = "open" /\ tab = 1 /\ selected = -1 /\ timer = 0
    /\ rows \in Tables(Known(wrote, {}, {})) /\ cursor = IF rows = <<>> THEN 0 ELSE 1
    /\ list = Truth
    /\ points = <<0>> /\ peak = 0
    /\ loop = Idle /\ cmds = [c \in Slots |-> Free]
    /\ raced = {} /\ events = 0

ResetMetrics == points' = <<>> /\ peak' = 0

\* updateMetrics
AddPoint(n) ==
    /\ LET all == Append(points, n)
       IN points' = SubSeq(all, Len(all) - Clamp(Len(all), 1, MaxPoints) + 1, Len(all))
    /\ peak' = IF n > peak THEN n ELSE peak

----------------------------------------------------------------------------
(* View follows every Update.  renderPlugins reads ap.plugins three times, to *)
(* see whether it is empty, to make the rows and to fill them; what the other *)
(* tabs draw cannot go wrong.                                                 *)

Drawing(t) == loop' = IF Tabs[t] = "plugins" THEN [at |-> "draw"] ELSE Idle

DrawTest ==
    /\ state = "open" /\ loop.at = "draw"
    /\ loop' = IF list = <<>> THEN Idle ELSE [at |-> "make"]
    /\ UNCHANGED <<server, state, view, list, metrics, cmds, raced, events>>

DrawMake ==
    /\ state = "open" /\ loop.at = "make"
    /\ loop' = [at |-> "fill", n |-> Len(list)] /\ raced' = {}
    /\ UNCHANGED <<server, state, view, list, metrics, cmds, events>>

\* More plugins than rows: the index panics.  Else selectedPlugin is put within
\* the rows; from -1 it becomes 0 with the first drawing.
DrawFill ==
    /\ state = "open" /\ loop.at = "fill"
    /\ IF Len(list) > loop.n
       THEN state' = "crashed" /\ UNCHANGED <<loop, selected>>
       ELSE selected' = Clamp(selected, 0, loop.n - 1) /\ loop' = Idle /\ UNCHANGED state
    /\ UNCHANGED <<server, tab, rows, cursor, timer, list, metrics, cmds, raced, events>>

----------------------------------------------------------------------------
(* refreshData on the event loop: counts, clients, bans, plugins, metrics,    *)
(* table.  The server moves on between the reads.                             *)

Begin == loop' = [at |-> "clients", wrote |-> wrote]

\* The counts cannot be read: the users stay as they are, the rest goes on.
CountFails ==
    /\ state = "open" /\ loop.at = "clients" /\ events < MaxEvents
    /\ loop' = [at |-> "plugins", tables |-> {rows}]
    /\ events' = events + 1
    /\ UNCHANGED <<server, state, view, list, metrics, cmds, raced>>

ReadClients ==
    /\ state = "open" /\ loop.at = "clients"
    /\ loop' = [at |-> "bans", wrote |-> loop.wrote, online |-> online]
    /\ UNCHANGED <<server, state, view, list, metrics, cmds, raced, events>>

ReadBans ==
    /\ state = "open" /\ loop.at = "bans"
    /\ loop' = [at |-> "plugins", tables |-> Tables(Known(loop.wrote, loop.online, Out))]
    /\ UNCHANGED <<server, state, view, list, metrics, cmds, raced, events>>

LoadPlugins ==
    /\ state = "open" /\ loop.at = "plugins"
    /\ list' = <<>>
    /\ loop' = [at |-> "append", tables |-> loop.tables, load |-> Loading(installed)]
    /\ UNCHANGED <<server, state, view, metrics, cmds, raced, events>>

LoopAppends ==
    /\ state = "open" /\ loop.at = "append" /\ loop.load.next <= Len(Store)
    /\ AppendNext(loop.load)
    /\ loop' = [loop EXCEPT !.load = Advance(@)]
    /\ UNCHANGED <<server, state, view, metrics, cmds, raced, events>>

\* Mutant: the users are loaded but the table is not updated.
RefreshEndsOldTable ==
    /\ state = "open" /\ loop.at = "append" /\ loop.load.next > Len(Store)
    /\ AddPoint(Cardinality(online))
    /\ Drawing(tab)
    /\ UNCHANGED <<server, state, view, list, cmds, raced, events>>

\* updateSystemStats, updateMetrics, updateUserTable; then View.
RefreshEnds ==
    /\ state = "open" /\ loop.at = "append" /\ loop.load.next > Len(Store)
    /\ AddPoint(Cardinality(online))
    /\ rows' \in loop.tables
    /\ cursor' = IF cursor > Len(rows') THEN Len(rows') ELSE cursor
    /\ Drawing(tab)
    /\ UNCHANGED <<server, state, tab, selected, timer, list, cmds, raced, events>>

Tick ==
    /\ state = "open" /\ loop = Idle
    /\ Begin
    /\ timer' = IF timer > 0 THEN timer - 1 ELSE 0
    /\ UNCHANGED <<server, state, tab, rows, cursor, selected, list, metrics, cmds, raced, events>>

----------------------------------------------------------------------------
(* Keys. *)

Key == state = "open" /\ loop = Idle /\ events < MaxEvents /\ events' = events + 1

Quit ==
    /\ Key /\ state' = "quit"
    /\ UNCHANGED <<server, view, list, metrics, loop, cmds, raced>>

SwitchTab ==
    /\ Key
    /\ \E t \in {(tab % Len(Tabs)) + 1, ((tab + Len(Tabs) - 2) % Len(Tabs)) + 1} :
        tab' = t /\ Drawing(t)
    /\ UNCHANGED <<server, state, rows, cursor, selected, timer, list, metrics, cmds, raced>>

RefreshKey ==
    /\ Key /\ Tabs[tab] # "plugins"
    /\ timer' = ShortTime /\ Begin
    /\ UNCHANGED <<server, state, tab, rows, cursor, selected, list, metrics, cmds, raced>>

ResetKey ==
    /\ Key /\ ResetMetrics /\ timer' = ShortTime /\ Drawing(tab)
    /\ UNCHANGED <<server, state, tab, rows, cursor, selected, list, cmds, raced>>

\* handleScroll.  An arrow key moves the users' table twice, for the table's
\* own Update gets the key as well; the wheel moves it once.
Scroll(d) ==
    /\ Key
    /\ CASE Tabs[tab] = "users" ->
              /\ \E step \in {d, 2 * d} :
                    cursor' = Clamp(cursor + step, IF rows = <<>> THEN 0 ELSE 1, Len(rows))
              /\ UNCHANGED selected
         [] Tabs[tab] = "plugins" ->
              selected' = Clamp(selected + d, 0, Len(list) - 1) /\ UNCHANGED cursor
         [] OTHER -> UNCHANGED <<cursor, selected>>
    /\ Drawing(tab)
    /\ UNCHANGED <<server, state, tab, rows, timer, list, metrics, cmds, raced>>

Start(op, arg) ==
    \E c \in Slots : /\ cmds[c] = Free
                     /\ cmds' = [cmds EXCEPT ![c] = [at |-> "run", op |-> op, arg |-> arg]]

UserKey(op) ==
    /\ Key /\ Tabs[tab] = "users" /\ cursor \in DOMAIN rows
    /\ Start(op, rows[cursor].name)
    /\ UNCHANGED <<server, state, view, list, metrics, loop, raced>>

\* clear, backup and stats on the system tab; export anywhere; the store on the plugins tab
PlainKey(op) ==
    /\ Key
    /\ op \in DBOps => Tabs[tab] = "system"
    /\ op = "store" => Tabs[tab] = "plugins"
    /\ Start(op, None) /\ Drawing(tab)
    /\ UNCHANGED <<server, state, tab, rows, cursor, selected, timer, list, metrics, raced>>

\* Mutant: off by one.
PluginKeyLoose(op) ==
    /\ Key /\ (\E c \in Slots : cmds[c] = Free) /\ Tabs[tab] = "plugins" /\ selected >= 0 /\ selected <= Len(list)
    /\ loop' = [at |-> "key", op |-> op] /\ raced' = {}
    /\ UNCHANGED <<server, state, view, list, metrics, cmds>>

\* The guard of a plugin key ...
PluginKey(op) ==
    /\ Key /\ (\E c \in Slots : cmds[c] = Free) /\ Tabs[tab] = "plugins" /\ selected >= 0 /\ selected < Len(list)
    /\ loop' = [at |-> "key", op |-> op] /\ raced' = {}
    /\ UNCHANGED <<server, state, view, list, metrics, cmds>>

\* ... and its index, which panics when a command emptied the list in between.
PluginIndex ==
    /\ state = "open" /\ loop.at = "key"
    /\ IF selected < Len(list)
       THEN Start(loop.op, list[selected + 1].name) /\ Drawing(tab) /\ UNCHANGED state
       ELSE state' = "crashed" /\ UNCHANGED <<loop, cmds>>
    /\ UNCHANGED <<server, view, list, metrics, raced, events>>

----------------------------------------------------------------------------
(* Commands. *)

Ends(c, ok) == cmds' = [cmds EXCEPT ![c] = [at |-> "done", op |-> @.op, ok |-> ok]]

\* The hub's BanUser, UnbanUser, KickUser and AllowUser.
Allowed(op, u) ==
    CASE op = "ban" -> u # Self
      [] op = "kick" -> u # Self /\ held[u] # "banned" /\ u \in online
      [] op = "unban" -> held[u] = "banned"
      [] op = "allow" -> held[u] = "kicked"

RunUserOp(c) ==
    LET op == cmds[c].op
        u == cmds[c].arg
        puts == [ban |-> "banned", kick |-> "kicked", unban |-> "free", allow |-> "free"]
    IN /\ cmds[c].at = "run" /\ op \in UserOps
       /\ IF Allowed(op, u)
          THEN /\ held' = [held EXCEPT ![u] = puts[op]]
               /\ online' = IF op \in {"ban", "kick"} THEN online \ {u} ELSE online
               /\ Ends(c, TRUE)
          ELSE Ends(c, FALSE) /\ UNCHANGED <<held, online>>
       /\ UNCHANGED <<wrote, installed, state, view, list, metrics, loop, raced, events>>

RunDBOp(c) ==
    /\ cmds[c].at = "run" /\ cmds[c].op \in DBOps
    /\ \E ok \in BOOLEAN :
        /\ Ends(c, ok)
        /\ wrote' = IF ok /\ cmds[c].op = "clear" THEN {} ELSE wrote
    /\ UNCHANGED <<online, held, installed, state, view, list, metrics, loop, raced, events>>

\* The log in memory is written to a file.
RunExport(c) ==
    /\ cmds[c].at = "run" /\ cmds[c].op = "export"
    /\ \E ok \in BOOLEAN : Ends(c, ok)
    /\ UNCHANGED <<server, state, view, list, metrics, loop, raced, events>>

\* The call of the plugin manager; when it succeeds the goroutine reloads.
RunPluginOp(c) ==
    LET p == cmds[c].arg
        puts == [enable |-> "Active", disable |-> "Disabled", install |-> "Active",
                 uninstall |-> "Available"]
    IN /\ cmds[c].at = "run" /\ cmds[c].op \in PluginOps \cup {"store"}
       /\ \/ /\ Ends(c, FALSE)
             /\ UNCHANGED installed
          \/ /\ cmds[c].op \in {"enable", "disable"} => installed[p] # "Available"
             /\ installed' = IF cmds[c].op = "store" THEN installed
                             ELSE [installed EXCEPT ![p] = puts[cmds[c].op]]
             /\ cmds' = [cmds EXCEPT ![c].at = "load"]
       /\ UNCHANGED <<online, held, wrote, state, view, list, metrics, loop, raced, events>>

\* How the new list compares with the old one.
Resized ==
    raced' = raced \cup (IF Len(list') > Len(list) THEN {"grew"} ELSE {})
                   \cup (IF Len(list') < Len(list) THEN {"shrank"} ELSE {})

CmdLoads(c) ==
    /\ cmds[c].at = "load"
    /\ list' = <<>> /\ Resized
    /\ cmds' = [cmds EXCEPT ![c] = [at |-> "append", op |-> @.op, load |-> Loading(installed)]]
    /\ UNCHANGED <<server, state, view, metrics, loop, events>>

CmdAppends(c) ==
    /\ cmds[c].at = "append"
    /\ IF cmds[c].load.next <= Len(Store)
       THEN /\ AppendNext(cmds[c].load) /\ Resized
            /\ cmds' = [cmds EXCEPT ![c].load = Advance(@)]
       ELSE Ends(c, TRUE) /\ UNCHANGED <<list, raced>>
    /\ UNCHANGED <<server, state, view, metrics, loop, events>>

\* clearDBMsg, backupDBMsg, statsMsg, actionMsg
OnResult(c) ==
    /\ state = "open" /\ loop = Idle /\ cmds[c].at = "done"
    /\ timer' = IF cmds[c].op = "stats" THEN StatsTime ELSE ActionTime
    /\ cmds' = [cmds EXCEPT ![c] = Free]
    /\ IF cmds[c].ok /\ cmds[c].op \notin {"backup", "stats"}
       THEN Begin
       ELSE Drawing(tab)
    /\ UNCHANGED <<server, state, tab, rows, cursor, selected, list, metrics, raced, events>>

----------------------------------------------------------------------------
(* The server's users. *)

Change == state = "open" /\ events < MaxEvents /\ events' = events + 1

Connects(u) ==
    /\ Change /\ held[u] = "free" /\ u \notin online /\ online' = online \cup {u}
    /\ UNCHANGED <<held, wrote, installed, state, view, list, metrics, loop, cmds, raced>>

Leaves(u) ==
    /\ Change /\ u \in online /\ online' = online \ {u}
    /\ UNCHANGED <<held, wrote, installed, state, view, list, metrics, loop, cmds, raced>>

Writes(u) ==
    /\ Change /\ u \in online \ wrote /\ wrote' = wrote \cup {u}
    /\ UNCHANGED <<online, held, installed, state, view, list, metrics, loop, cmds, raced>>

LoopStep ==
    \/ CountFails \/ ReadClients \/ ReadBans \/ LoadPlugins \/ LoopAppends \/ RefreshEnds
    \/ PluginIndex \/ DrawTest \/ DrawMake \/ DrawFill
CmdStep(c) ==
    \/ RunUserOp(c) \/ RunDBOp(c) \/ RunExport(c)
    \/ RunPluginOp(c) \/ CmdLoads(c) \/ CmdAppends(c)

Next ==
    \/ LoopStep \/ Tick
    \/ Quit \/ SwitchTab \/ RefreshKey \/ ResetKey \/ Scroll(1) \/ Scroll(-1)
    \/ \E op \in UserOps \cap Keys : UserKey(op)
    \/ \E op \in PluginOps \cap Keys : PluginKey(op)
    \/ \E op \in Keys \ (UserOps \cup PluginOps) : PlainKey(op)
    \/ \E c \in Slots : CmdStep(c) \/ OnResult(c)
    \/ \E u \in Users : Connects(u) \/ Leaves(u) \/ Writes(u)

\* The loop serves what is queued, the ticker ticks, goroutines run.
FairSpec ==
    /\ Init /\ [][Next]_vars
    /\ WF_vars(LoopStep) /\ WF_vars(Tick)
    /\ \A c \in Slots : WF_vars(CmdStep(c)) /\ SF_vars(OnResult(c))

----------------------------------------------------------------------------
(* Properties. *)

\* The panel panics only when a command's reload changed the length of the list
\* at a bad moment: shortened it between the guard of a plugin key and the use of
\* the index, or lengthened it between the making and the filling of the rows of
\* one frame, for which no key is needed.  What a selection, a key or a frame
\* inherits from reloads that raced before, duplicates or a cut list, is harmless.
CrashOnlyWhenRaced ==
    state = "crashed" => \/ loop.at = "key" /\ "shrank" \in raced
                         \/ loop.at = "fill" /\ "grew" \in raced

\* When keys and users rest, every command has reported, its message has gone,
\* and the panel shows the users and the plugins as they are, whatever the
\* reloads did to each other's list.
Current ==
    /\ timer = 0 /\ \A c \in Slots : cmds[c] = Free
    /\ loop = Idle => list = Truth /\ Range(rows) = Known(wrote, online, Out)

Settles == <>[](state = "open" => Current)
=============================================================================
