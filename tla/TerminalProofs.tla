--------------------------- MODULE TerminalProofs ---------------------------
(* Proofs about two programs that own a terminal's screen.  AdminPanel, for   *)
(* any users, plugins and number of commands: the event loop panics only when *)
(* a command has raced it.  SnippetEditor, for any characters, keys, clips    *)
(* and length of the text: it panics only on a selection that outlived its    *)
(* lines, and until then every key edits the lines as one flat text.          *)
EXTENDS AdminPanel, SnippetEditor, SequenceTheorems, WellFoundedInduction, TLAPS

----------------------------------------------------------------------------
(* The panel.  Between the guard of a plugin key and its index, and between   *)
(* the making and the filling of the rows, nothing but a command writes the   *)
(* list, and a command that changes its length leaves a trace, which only the *)
(* next guard or frame wipes out; a loop that has panicked reaches neither.   *)

Entries == [name : Plugins, status : Statuses]
Loads == [known : [Plugins -> Statuses], next : Nat \ {0}, last : Seq(Entries)]

\* What is known of the list of plugins and of the reloads that write it.
ListTyped ==
    /\ installed \in [Plugins -> Statuses] /\ list \in Seq(Entries) /\ selected \in Int
    /\ "at" \in DOMAIN loop /\ (loop.at = "append" => loop.load \in Loads)
    /\ cmds = [c \in Slots |-> cmds[c]]
    /\ \A c \in Slots : /\ "at" \in DOMAIN cmds[c]
                        /\ cmds[c].at = "append" => cmds[c].load \in Loads

GuardStillHolds == loop.at = "key" => "shrank" \in raced \/ selected < Len(list)

RowsSuffice == loop.at = "fill" => loop.n \in Nat /\ ("grew" \in raced \/ Len(list) <= loop.n)

PanelInv == ListTyped /\ GuardStillHolds /\ RowsSuffice /\ CrashOnlyWhenRaced

LEMMA AppendsTyped ==
    ASSUME NEW l \in Loads, list \in Seq(Entries), l.next <= Len(Store), AppendNext(l)
    PROVE  list' \in Seq(Entries) /\ Advance(l) \in Loads
<1>1. Store[l.next] \in Plugins
  BY ConstAssumption DEF Loads
<1>2. Entry(Store[l.next], l.known) \in Entries
  BY <1>1 DEF Entry, Entries, Loads
<1>3. list' \in Seq(Entries)
  BY <1>2 DEF AppendNext, Loads
<1>4. l.known \in [Plugins -> Statuses] /\ l.next + 1 \in Nat \ {0}
  BY DEF Loads
<1>. QED
  BY <1>3, <1>4 DEF Advance, Loads

LEMMA LoadingTyped ==
    ASSUME installed \in [Plugins -> Statuses]
    PROVE  Loading(installed) \in Loads
BY DEF Loading, Loads

\* Steps of the event loop that write the list: the loop is not at a key or frame.
LEMMA ReloadKeepsPanel ==
    ASSUME PanelInv, LoadPlugins \/ LoopAppends
    PROVE  PanelInv'
<1>1. CASE LoadPlugins
  <2>1. loop' = [at |-> "append", tables |-> loop.tables, load |-> Loading(installed)]
        /\ list' = <<>> /\ state' = "open" /\ UNCHANGED <<installed, selected, cmds>>
    BY <1>1 DEF LoadPlugins, server, view
  <2>. QED
    BY <2>1, LoadingTyped DEF PanelInv, ListTyped, GuardStillHolds, RowsSuffice, CrashOnlyWhenRaced
<1>2. CASE LoopAppends
  <2>1. /\ loop' = [loop EXCEPT !.load = Advance(@)] /\ loop.at = "append" /\ state' = "open"
        /\ UNCHANGED <<installed, selected, cmds>>
        /\ AppendNext(loop.load) /\ loop.load.next <= Len(Store)
    BY <1>2 DEF LoopAppends, server, view
  <2>2. list' \in Seq(Entries) /\ Advance(loop.load) \in Loads
    BY <2>1, AppendsTyped DEF PanelInv, ListTyped
  <2>3. "at" \in DOMAIN loop' /\ loop'.at = "append"
        /\ (loop'.load = Advance(loop.load) \/ loop'.load = loop.load)
    BY <2>1 DEF PanelInv, ListTyped
  <2>4. loop'.load \in Loads
    BY <2>1, <2>2, <2>3 DEF PanelInv, ListTyped
  <2>. QED
    BY <2>1, <2>2, <2>3, <2>4 DEF PanelInv, ListTyped, GuardStillHolds, RowsSuffice, CrashOnlyWhenRaced
<1>. QED
  BY <1>1, <1>2

\* The other steps of a reload, and what the loop does of itself.
LEMMA LoopKeepsPanel ==
    ASSUME PanelInv,
           CountFails \/ ReadClients \/ ReadBans \/ RefreshEnds \/ Tick \/ DrawTest \/ DrawMake \/ DrawFill
    PROVE  PanelInv'
<1>1. CASE CountFails \/ ReadClients \/ ReadBans \/ RefreshEnds \/ Tick
  <2>1. state' = "open" /\ UNCHANGED <<installed, list, selected, cmds>>
    BY <1>1 DEF CountFails, ReadClients, ReadBans, RefreshEnds, Tick, server, view
  <2>2. "at" \in DOMAIN loop' /\ loop'.at \notin {"append", "key", "fill"}
    BY <1>1 DEF CountFails, ReadClients, ReadBans, RefreshEnds, Tick, Begin, Drawing, Idle
  <2>. QED
    BY <2>1, <2>2 DEF PanelInv, ListTyped, GuardStillHolds, RowsSuffice, CrashOnlyWhenRaced
<1>2. CASE DrawTest
  BY <1>2 DEF PanelInv, ListTyped, GuardStillHolds, RowsSuffice, CrashOnlyWhenRaced, DrawTest, Idle, view,
              server
<1>3. CASE DrawMake
  <2>1. Len(list) \in Nat
    BY DEF PanelInv, ListTyped
  <2>. QED
    BY <1>3, <2>1 DEF PanelInv, ListTyped, GuardStillHolds, RowsSuffice, CrashOnlyWhenRaced, DrawMake, view,
                      server
<1>4. CASE DrawFill
  <2>1. /\ UNCHANGED <<installed, list, cmds, raced>> /\ loop.at = "fill" /\ loop.n \in Nat
        /\ Len(list) \in Nat /\ selected \in Int
    BY <1>4 DEF DrawFill, PanelInv, ListTyped, RowsSuffice, server
  <2>2. CASE Len(list) > loop.n
    BY <1>4, <2>1, <2>2 DEF PanelInv, ListTyped, GuardStillHolds, RowsSuffice, CrashOnlyWhenRaced, DrawFill
  <2>3. CASE ~(Len(list) > loop.n)
    <3>1. Clamp(selected, 0, loop.n - 1) \in Int
      BY <2>1 DEF Clamp
    <3>2. state' = "open" /\ loop' = Idle /\ selected' = Clamp(selected, 0, loop.n - 1)
      BY <1>4, <2>3 DEF DrawFill
    <3>. QED
      BY <2>1, <3>1, <3>2 DEF PanelInv, ListTyped, GuardStillHolds, RowsSuffice, CrashOnlyWhenRaced, Idle
  <2>. QED
    BY <2>2, <2>3
<1>. QED
  BY <1>1, <1>2, <1>3, <1>4

\* A command that is started or ends leaves the slots typed.
LEMMA StartKeepsCmds ==
    ASSUME ListTyped, NEW c \in Slots, NEW r, "at" \in DOMAIN r, r.at # "append",
           cmds' = [cmds EXCEPT ![c] = r]
    PROVE  /\ cmds' = [d \in Slots |-> cmds'[d]]
           /\ \A d \in Slots : /\ "at" \in DOMAIN cmds'[d]
                               /\ cmds'[d].at = "append" => cmds'[d].load \in Loads
<1>1. cmds' = [d \in Slots |-> IF d = c THEN r ELSE cmds[d]]
  BY DEF ListTyped
<1>2. \A d \in Slots : cmds'[d] = IF d = c THEN r ELSE cmds[d]
  BY <1>1
<1>. QED
  BY <1>1, <1>2 DEF ListTyped

CmdsTyped ==
    /\ cmds = [c \in Slots |-> cmds[c]]
    /\ \A c \in Slots : /\ "at" \in DOMAIN cmds[c]
                        /\ cmds[c].at = "append" => cmds[c].load \in Loads

LEMMA EndsTyped ==
    ASSUME ListTyped, NEW c \in Slots, NEW ok, Ends(c, ok)
    PROVE  CmdsTyped'
<1>. DEFINE r == [at |-> "done", op |-> cmds[c].op, ok |-> ok]
<1>1. cmds' = [cmds EXCEPT ![c] = r]
  BY DEF Ends
<1>2. "at" \in DOMAIN r /\ r.at # "append"
  OBVIOUS
<1>. QED
  BY <1>1, <1>2, StartKeepsCmds DEF CmdsTyped

LEMMA StartsTyped ==
    ASSUME ListTyped, NEW op, NEW arg, Start(op, arg)
    PROVE  CmdsTyped'
<1>1. PICK c \in Slots : cmds' = [cmds EXCEPT ![c] = [at |-> "run", op |-> op, arg |-> arg]]
  BY DEF Start
<1>2. "at" \in DOMAIN [at |-> "run", op |-> op, arg |-> arg]
      /\ [at |-> "run", op |-> op, arg |-> arg].at # "append"
  OBVIOUS
<1>. QED
  BY <1>1, <1>2, StartKeepsCmds DEF CmdsTyped

\* Keys and results: the loop rests before them, and only a plugin key takes it
\* to a guard.
LEMMA KeysKeepPanel ==
    ASSUME PanelInv,
           Quit \/ SwitchTab \/ RefreshKey \/ ResetKey \/ Scroll(1) \/ Scroll(-1)
           \/ (\E op \in UserOps \cap Keys : UserKey(op))
           \/ (\E op \in PluginOps \cap Keys : PluginKey(op))
           \/ (\E op \in Keys \ (UserOps \cup PluginOps) : PlainKey(op))
           \/ (\E c \in Slots : OnResult(c))
    PROVE  PanelInv'
<1>. USE DEF PanelInv
<1>a. ASSUME UNCHANGED <<installed, list>>, selected' \in Int, CmdsTyped',
             loop = Idle, loop' = Idle \/ (loop'.at = "draw" /\ "at" \in DOMAIN loop') \/ Begin,
             state' # "crashed"
      PROVE  PanelInv'
  BY <1>a DEF ListTyped, GuardStillHolds, RowsSuffice, CrashOnlyWhenRaced, CmdsTyped, Idle, Begin
<1>b. CmdsTyped
  BY DEF ListTyped, CmdsTyped
<1>c. \A t : Drawing(t) => loop' = Idle \/ (loop'.at = "draw" /\ "at" \in DOMAIN loop')
  BY DEF Drawing
<1>1. CASE Quit \/ SwitchTab \/ RefreshKey \/ ResetKey
  <2>1. CmdsTyped'
    BY <1>1, <1>b DEF Quit, SwitchTab, RefreshKey, ResetKey, CmdsTyped
  <2>. QED
    BY <1>1, <1>a, <1>c, <2>1 DEF Quit, SwitchTab, RefreshKey, ResetKey, Key, server, view, ListTyped
<1>2. ASSUME NEW d \in {1, -1}, Scroll(d)
      PROVE  PanelInv'
  <2>1. CmdsTyped'
    BY <1>2, <1>b DEF Scroll, CmdsTyped
  <2>2. selected' \in Int
    <3>1. Clamp(selected + d, 0, Len(list) - 1) \in Int
      BY DEF Clamp, ListTyped
    <3>. QED
      BY <1>2, <3>1 DEF Scroll, ListTyped
  <2>. QED
    BY <1>2, <1>a, <1>c, <2>1, <2>2 DEF Scroll, Key, server
<1>3. ASSUME NEW op \in UserOps \cap Keys, UserKey(op)
      PROVE  PanelInv'
  <2>1. CmdsTyped'
    BY <1>3, StartsTyped DEF UserKey
  <2>. QED
    BY <1>3, <1>a, <2>1 DEF UserKey, Key, server, view, ListTyped
<1>4. ASSUME NEW op \in PluginOps \cap Keys, PluginKey(op)
      PROVE  PanelInv'
  <2>1. /\ UNCHANGED <<installed, list, selected, cmds>> /\ state' = "open"
        /\ loop' = [at |-> "key", op |-> op] /\ selected < Len(list)
    BY <1>4 DEF PluginKey, Key, server, view
  <2>. QED
    BY <2>1 DEF ListTyped, GuardStillHolds, RowsSuffice, CrashOnlyWhenRaced
<1>5. ASSUME NEW op \in Keys \ (UserOps \cup PluginOps), PlainKey(op)
      PROVE  PanelInv'
  <2>1. CmdsTyped'
    BY <1>5, StartsTyped DEF PlainKey
  <2>. QED
    BY <1>5, <1>a, <1>c, <2>1 DEF PlainKey, Key, server, ListTyped
<1>6. ASSUME NEW c \in Slots, OnResult(c)
      PROVE  PanelInv'
  <2>1. CmdsTyped'
    <3>1. cmds' = [cmds EXCEPT ![c] = Free] /\ "at" \in DOMAIN Free /\ Free.at # "append"
      BY <1>6 DEF OnResult, Free
    <3>. QED
      BY <3>1, StartKeepsCmds DEF CmdsTyped
  <2>. QED
    BY <1>6, <1>a, <1>c, <2>1 DEF OnResult, server, ListTyped
<1>. QED
  BY <1>1, <1>2, <1>3, <1>4, <1>5, <1>6

LEMMA IndexKeepsPanel ==
    ASSUME PanelInv, PluginIndex
    PROVE  PanelInv'
<1>1. UNCHANGED <<installed, list, selected, raced>> /\ loop.at = "key"
  BY DEF PluginIndex, server, view
<1>2. CASE selected < Len(list)
  <2>1. Start(loop.op, list[selected + 1].name) /\ Drawing(tab) /\ state' = "open"
    BY <1>2 DEF PluginIndex
  <2>2. CmdsTyped'
    BY <2>1, StartsTyped DEF PanelInv
  <2>3. "at" \in DOMAIN loop' /\ loop'.at \in {"idle", "draw"}
    BY <2>1 DEF Drawing, Idle
  <2>. QED
    BY <1>1, <2>1, <2>2, <2>3 DEF PanelInv, ListTyped, CmdsTyped, GuardStillHolds, RowsSuffice,
                                  CrashOnlyWhenRaced
<1>3. CASE ~(selected < Len(list))
  BY <1>1, <1>3 DEF PluginIndex, PanelInv, ListTyped, GuardStillHolds, RowsSuffice, CrashOnlyWhenRaced
<1>. QED
  BY <1>2, <1>3

\* What the traces say of the length of the list.
LEMMA TraceTells ==
    ASSUME Resized, Len(list) \in Nat, Len(list') \in Nat
    PROVE  /\ raced \subseteq raced'
           /\ "shrank" \notin raced' => Len(list) <= Len(list')
           /\ "grew" \notin raced' => Len(list') <= Len(list)
BY DEF Resized

\* Steps of the commands and of the server leave the loop where it is.
LEMMA OthersKeepPanel ==
    ASSUME PanelInv,
           (\E c \in Slots : CmdStep(c))
           \/ (\E u \in Users : Connects(u) \/ Leaves(u) \/ Writes(u)) \/ UNCHANGED vars
    PROVE  PanelInv'
<1>. USE DEF PanelInv
<1>a. ASSUME UNCHANGED <<state, loop, selected>>, installed' \in [Plugins -> Statuses], CmdsTyped',
             UNCHANGED <<list, raced>> \/ (list' \in Seq(Entries) /\ Resized)
      PROVE  PanelInv'
  <2>1. Len(list) \in Nat /\ selected \in Int
    BY DEF ListTyped
  <2>2. list' \in Seq(Entries) /\ Len(list') \in Nat
    BY <1>a DEF ListTyped
  <2>3. /\ raced \subseteq raced'
        /\ "shrank" \notin raced' => Len(list) <= Len(list')
        /\ "grew" \notin raced' => Len(list') <= Len(list)
    BY <1>a, <2>1, <2>2, TraceTells
  <2>4. GuardStillHolds'
    BY <1>a, <2>1, <2>2, <2>3 DEF GuardStillHolds
  <2>5. RowsSuffice'
    BY <1>a, <2>1, <2>2, <2>3 DEF RowsSuffice
  <2>. QED
    BY <1>a, <2>2, <2>3, <2>4, <2>5 DEF ListTyped, CmdsTyped, CrashOnlyWhenRaced
<1>b. CmdsTyped /\ installed \in [Plugins -> Statuses]
  BY DEF ListTyped, CmdsTyped
<1>1. CASE (\E u \in Users : Connects(u) \/ Leaves(u) \/ Writes(u)) \/ UNCHANGED vars
  <2>1. UNCHANGED <<state, loop, selected, list, raced, installed, cmds>>
    BY <1>1 DEF Connects, Leaves, Writes, vars, view, server
  <2>. QED
    BY <2>1, <1>a, <1>b DEF CmdsTyped
<1>2. ASSUME NEW c \in Slots, RunUserOp(c) \/ RunDBOp(c) \/ RunExport(c)
      PROVE  PanelInv'
  <2>1. UNCHANGED <<state, loop, selected, list, raced, installed>> /\ \E ok \in BOOLEAN : Ends(c, ok)
    BY <1>2 DEF RunUserOp, RunDBOp, RunExport, view, server
  <2>2. CmdsTyped'
    BY <2>1, EndsTyped
  <2>. QED
    BY <2>1, <2>2, <1>a, <1>b
<1>3. ASSUME NEW c \in Slots, RunPluginOp(c)
      PROVE  PanelInv'
  <2>1. UNCHANGED <<state, loop, selected, list, raced>>
    BY <1>3 DEF RunPluginOp, view
  <2>2. installed' \in [Plugins -> Statuses]
    <3>. DEFINE puts == [enable |-> "Active", disable |-> "Disabled", install |-> "Active",
                         uninstall |-> "Available"]
    <3>1. cmds[c].op \in PluginOps \cup {"store"}
      BY <1>3 DEF RunPluginOp
    <3>2. cmds[c].op # "store" => puts[cmds[c].op] \in Statuses
      BY <3>1 DEF PluginOps, Statuses
    <3>3. \/ installed' = installed
          \/ cmds[c].op # "store" /\ installed' = [installed EXCEPT ![cmds[c].arg] = puts[cmds[c].op]]
      BY <1>3 DEF RunPluginOp
    <3>. QED
      BY <3>2, <3>3, <1>b
  <2>3. CmdsTyped'
    <3>1. CASE Ends(c, FALSE)
      BY <3>1, EndsTyped
    <3>2. CASE cmds' = [cmds EXCEPT ![c].at = "load"]
      <4>1. cmds' = [cmds EXCEPT ![c] = [cmds[c] EXCEPT !.at = "load"]]
        BY <3>2
      <4>2. "at" \in DOMAIN [cmds[c] EXCEPT !.at = "load"] /\ [cmds[c] EXCEPT !.at = "load"].at # "append"
        BY <1>b DEF CmdsTyped
      <4>. QED
        BY <4>1, <4>2, StartKeepsCmds DEF CmdsTyped
    <3>. QED
      BY <1>3, <3>1, <3>2 DEF RunPluginOp
  <2>. QED
    BY <2>1, <2>2, <2>3, <1>a
<1>4. ASSUME NEW c \in Slots, CmdLoads(c)
      PROVE  PanelInv'
  <2>1. UNCHANGED <<state, loop, selected, installed>> /\ Resized /\ list' = <<>>
    BY <1>4 DEF CmdLoads, view, server
  <2>2. CmdsTyped'
    BY <1>4, <1>b, LoadingTyped DEF CmdLoads, CmdsTyped
  <2>. QED
    BY <2>1, <2>2, <1>a, <1>b
<1>5. ASSUME NEW c \in Slots, CmdAppends(c)
      PROVE  PanelInv'
  <2>1. UNCHANGED <<state, loop, selected, installed>> /\ cmds[c].at = "append" /\ cmds[c].load \in Loads
    BY <1>5, <1>b DEF CmdAppends, view, server, CmdsTyped
  <2>2. CASE cmds[c].load.next <= Len(Store)
    <3>1. /\ AppendNext(cmds[c].load) /\ Resized
          /\ cmds' = [cmds EXCEPT ![c] = [cmds[c] EXCEPT !.load = Advance(cmds[c].load)]]
      BY <1>5, <2>2 DEF CmdAppends
    <3>2. list' \in Seq(Entries) /\ Advance(cmds[c].load) \in Loads
      BY <2>1, <2>2, <3>1, AppendsTyped DEF ListTyped
    <3>3. CmdsTyped'
      <4>1. cmds' = [d \in Slots |-> IF d = c THEN [cmds[c] EXCEPT !.load = Advance(cmds[c].load)] ELSE cmds[d]]
        BY <3>1, <1>b DEF CmdsTyped
      <4>2. cmds'[c] = [cmds[c] EXCEPT !.load = Advance(cmds[c].load)]
            /\ \A d \in Slots \ {c} : cmds'[d] = cmds[d]
        BY <4>1
      <4>3. "at" \in DOMAIN cmds'[c]
            /\ (cmds'[c].load = Advance(cmds[c].load) \/ cmds'[c].load = cmds[c].load)
        BY <4>2, <1>b DEF CmdsTyped
      <4>. QED
        BY <4>1, <4>2, <4>3, <3>2, <2>1, <1>b DEF CmdsTyped
    <3>. QED
      BY <2>1, <3>1, <3>2, <3>3, <1>a, <1>b
  <2>3. CASE ~(cmds[c].load.next <= Len(Store))
    <3>1. UNCHANGED <<list, raced>> /\ Ends(c, TRUE)
      BY <1>5, <2>3 DEF CmdAppends
    <3>2. CmdsTyped'
      BY <3>1, EndsTyped
    <3>. QED
      BY <2>1, <3>1, <3>2, <1>a, <1>b
  <2>. QED
    BY <2>2, <2>3
<1>. QED
  BY <1>1, <1>2, <1>3, <1>4, <1>5 DEF CmdStep

\* The panel panics only when a command's reload shortened the list between the
\* guard and the index of a plugin key, or lengthened it between the making and
\* the filling of one frame's rows, whatever users, plugins and commands there
\* are and whatever raced before.
THEOREM PanelCrashesOnlyRaced == FairSpec => []CrashOnlyWhenRaced
<1>1. Init => PanelInv
  <2>1. ASSUME Init PROVE list \in Seq(Entries)
    <3>1. list = [i \in 1..Len(Store) |-> Entry(Store[i], installed)]
      BY <2>1, ConstAssumption DEF Init, Truth
    <3>2. \A i \in 1..Len(Store) : Entry(Store[i], installed) \in Entries
      BY <2>1, ConstAssumption DEF Init, Entry, Entries, Statuses
    <3>. QED
      BY <3>1, <3>2, ConstAssumption
  <2>2. ASSUME Init PROVE installed \in [Plugins -> Statuses] /\ selected \in Int
    BY <2>2 DEF Init, Statuses
  <2>. QED
    BY <2>1, <2>2 DEF Init, PanelInv, ListTyped, GuardStillHolds, RowsSuffice, CrashOnlyWhenRaced, Idle, Free
<1>2. PanelInv /\ [Next]_vars => PanelInv'
  BY ReloadKeepsPanel, LoopKeepsPanel, KeysKeepPanel, IndexKeepsPanel, OthersKeepPanel DEF Next, LoopStep
<1>3. PanelInv => CrashOnlyWhenRaced
  BY DEF PanelInv
<1>. QED
  BY <1>1, <1>2, <1>3, PTL DEF FairSpec

----------------------------------------------------------------------------
(* The editor: lines and the text they make.                                 *)

\* What holds of zero, and of the next number with each, holds of all.
LEMMA Counting ==
    ASSUME NEW T, 0 \in T, \A n \in Nat : n \in T => n + 1 \in T
    PROVE  Nat \subseteq T
<1> SUFFICES ASSUME Nat \ T # {} PROVE FALSE
  OBVIOUS
<1> DEFINE W == Nat \ T
<1>1. PICK n \in W : \A m \in W : ~(<<m, n>> \in OpToRel(<, Nat))
  BY NatLessThanWellFounded, WFMin
<1>2. n \in Nat /\ ~(n \in T)
  OBVIOUS
<1>3. n # 0 /\ n - 1 \in Nat /\ n - 1 < n /\ (n - 1) + 1 = n
  BY <1>2
<1>4. <<n - 1, n>> \in OpToRel(<, Nat)
  BY <1>2, <1>3, Zenon DEF OpToRel
<1>5. ~(n - 1 \in W)
  BY <1>1, <1>4, Zenon
<1>6. n - 1 \in T
  BY <1>3, <1>5
<1>7. (n - 1) + 1 \in T
  BY <1>3, <1>6
<1> QED
  BY <1>2, <1>3, <1>7

Text == Seq(Chars \cup {NL})
Sheets == {ls \in Seq(Seq(Chars)) : Len(ls) >= 1}

LEMMA LinesAreTexts == Seq(Chars) \subseteq Text /\ <<NL>> \in Text /\ <<>> \in Seq(Chars) /\ Len(<<NL>>) = 1
<1>1. ASSUME NEW l \in Seq(Chars) PROVE l \in Text
  BY SeqMonotonic DEF Text
<1> QED
  BY <1>1 DEF Text

LEMMA TextAssoc == \A a, b, c \in Text : (a \o b) \o c = a \o (b \o c) /\ a \o b \in Text
<1> SUFFICES ASSUME NEW a \in Text, NEW b \in Text, NEW c \in Text
             PROVE  (a \o b) \o c = a \o (b \o c) /\ a \o b \in Text
  OBVIOUS
<1> DEFINE S == Chars \union {NL}
<1>1. a \in Seq(S) /\ b \in Seq(S) /\ c \in Seq(S) /\ Text = Seq(S)
  BY DEF Text
<1> HIDE DEF S
<1>2. (a \o b) \o c = a \o (b \o c)
  BY <1>1, ConcatAssociative
<1>3. a \o b \in Seq(S)
  BY <1>1, ConcatProperties
<1> QED
  BY <1>1, <1>2, <1>3

LEMMA OneLine == ASSUME NEW l \in Seq(Chars) PROVE <<l>> \in Sheets /\ Len(<<l>>) = 1 /\ <<l>>[1] = l
BY DEF Sheets

LEMMA OneMoreLine ==
    ASSUME NEW ls \in Seq(Seq(Chars)), NEW l \in Seq(Chars)
    PROVE  /\ Append(ls, l) \in Sheets /\ Len(Append(ls, l)) = Len(ls) + 1
           /\ Append(ls, l)[Len(ls) + 1] = l
           /\ \A i \in 1..Len(ls) : Append(ls, l)[i] = ls[i]
BY AppendProperties DEF Sheets

\* f joins the first n of the lines ls, and fewer.
Joins(f, ls, n) == f = [i \in 1..n |-> IF i = 1 THEN ls[1] ELSE f[i - 1] \o <<NL>> \o ls[i]]

LEMMA JoinsAt ==
    ASSUME NEW ls, NEW n \in Nat, NEW f, Joins(f, ls, n)
    PROVE  \A i \in 1..n : f[i] = IF i = 1 THEN ls[1] ELSE f[i - 1] \o <<NL>> \o ls[i]
BY DEF Joins

LEMMA JoinsMore ==
    ASSUME NEW ls, NEW n \in Nat, NEW f, Joins(f, ls, n)
    PROVE  \E g : Joins(g, ls, n + 1)
<1> DEFINE new == IF n = 0 THEN ls[1] ELSE f[n] \o <<NL>> \o ls[n + 1]
           g == [i \in 1..(n + 1) |-> IF i = n + 1 THEN new ELSE f[i]]
           h(i) == IF i = 1 THEN ls[1] ELSE g[i - 1] \o <<NL>> \o ls[i]
<1>1. ASSUME NEW i \in 1..(n + 1) PROVE g[i] = h(i)
  <2>1. CASE i = n + 1
    BY <2>1
  <2>2. CASE i # n + 1
    <3>1. i \in 1..n /\ g[i] = f[i]
      BY <2>2
    <3>2. f[i] = IF i = 1 THEN ls[1] ELSE f[i - 1] \o <<NL>> \o ls[i]
      BY <3>1, JoinsAt
    <3>3. i # 1 => g[i - 1] = f[i - 1]
      BY <3>1
    <3> QED
      BY <3>1, <3>2, <3>3
  <2> QED
    BY <2>1, <2>2
<1>2. g = [i \in 1..(n + 1) |-> g[i]]
  OBVIOUS
<1>3. g = [i \in 1..(n + 1) |-> h(i)]
  <2> HIDE DEF g, h
  <2> QED
    BY <1>1, <1>2
<1> QED
  BY <1>3 DEF Joins

LEMMA JoinsExists ==
    ASSUME NEW ls
    PROVE  \A n \in Nat : \E f : Joins(f, ls, n)
<1> DEFINE T == {n \in Nat : \E f : Joins(f, ls, n)}
<1>1. 0 \in T
  <2>1. Joins([i \in 1..0 |-> 0], ls, 0)
    BY DEF Joins
  <2> QED
    BY <2>1
<1>2. \A n \in Nat : n \in T => n + 1 \in T
  BY JoinsMore
<1>3. Nat \subseteq T
  <2> HIDE DEF T
  <2> QED
    BY <1>1, <1>2, Counting
<1> QED
  BY <1>3

\* The text up to line i depends on the lines up to there, and is a text.
LEMMA JoinsAgree ==
    ASSUME NEW ls, NEW ms, NEW n \in Nat, NEW k \in Nat, NEW f, NEW g,
           Joins(f, ls, n), Joins(g, ms, k), n <= k, \A i \in 1..n : ls[i] = ms[i] /\ ls[i] \in Seq(Chars)
    PROVE  \A i \in 1..n : f[i] = g[i] /\ f[i] \in Text
<1>f. \A i \in 1..n : f[i] = IF i = 1 THEN ls[1] ELSE f[i - 1] \o <<NL>> \o ls[i]
  BY JoinsAt, SMTT(30)
<1>g. \A i \in 1..k : g[i] = IF i = 1 THEN ms[1] ELSE g[i - 1] \o <<NL>> \o ms[i]
  BY JoinsAt
<1> DEFINE T == {m \in Nat : m + 1 <= n => f[m + 1] = g[m + 1] /\ f[m + 1] \in Text}
<1>1. 0 \in T
  <2> SUFFICES ASSUME 1 <= n PROVE f[1] = g[1] /\ f[1] \in Text
    OBVIOUS
  <2>1. f[1] = ls[1] /\ g[1] = ms[1]
    BY JoinsAt
  <2> QED
    BY <2>1, LinesAreTexts
<1>2. ASSUME NEW m \in Nat, m \in T PROVE m + 1 \in T
  <2> SUFFICES ASSUME m + 2 <= n PROVE f[m + 2] = g[m + 2] /\ f[m + 2] \in Text
    OBVIOUS
  <2>1. m + 2 \in 1..n /\ m + 2 \in 1..k /\ (m + 2) - 1 = m + 1 /\ m + 2 # 1
    OBVIOUS
  <2>2. f[m + 2] = f[m + 1] \o <<NL>> \o ls[m + 2] /\ g[m + 2] = g[m + 1] \o <<NL>> \o ms[m + 2]
    <3>1. f[m + 2] = f[(m + 2) - 1] \o <<NL>> \o ls[m + 2] /\ g[m + 2] = g[(m + 2) - 1] \o <<NL>> \o ms[m + 2]
      BY <2>1, <1>f, <1>g
    <3> QED
      BY <2>1, <3>1
  <2>3. f[m + 1] = g[m + 1] /\ f[m + 1] \in Text
    BY <1>2, <2>1
  <2>4. f[m + 1] \o <<NL>> \o ls[m + 2] \in Text
    BY <2>1, <2>3, LinesAreTexts, ConcatProperties DEF Text
  <2> QED
    BY <2>1, <2>2, <2>3, <2>4
<1>3. Nat \subseteq T
  <2> HIDE DEF T
  <2> QED
    BY <1>1, <1>2, Counting
<1>4. ASSUME NEW i \in 1..n PROVE f[i] = g[i] /\ f[i] \in Text
  <2>1. i - 1 \in Nat /\ (i - 1) + 1 = i /\ (i - 1) + 1 <= n
    OBVIOUS
  <2>2. i - 1 \in T
    BY <1>3, <2>1
  <2> QED
    BY <2>1, <2>2
<1> QED
  BY <1>4

LEMMA JoinIs ==
    ASSUME NEW ls, Len(ls) \in Nat
    PROVE  \E f : Joins(f, ls, Len(ls)) /\ Join(ls) = f[Len(ls)]
<1>1. \E f : Joins(f, ls, Len(ls))
  BY JoinsExists
<1> QED
  BY <1>1 DEF Join, Joins

\* The text of one line is the line, and a line more comes after a newline.
LEMMA JoinOne == ASSUME NEW l \in Seq(Chars) PROVE Join(<<l>>) = l
<1>1. PICK f : Joins(f, <<l>>, 1) /\ Join(<<l>>) = f[1]
  BY OneLine, JoinIs
<1> QED
  BY <1>1, JoinsAt, OneLine

LEMMA JoinMore ==
    ASSUME NEW ls \in Sheets, NEW l \in Seq(Chars)
    PROVE  /\ Join(ls) \in Text
           /\ Join(Append(ls, l)) = Join(ls) \o <<NL>> \o l
<1> DEFINE n == Len(ls)  ms == Append(ls, l)
<1>1. n \in Nat /\ n >= 1 /\ Len(ms) = n + 1 /\ \A i \in 1..n : ms[i] = ls[i] /\ ls[i] \in Seq(Chars)
  BY OneMoreLine, ElementOfSeq, LenProperties DEF Sheets
<1>2. ms[n + 1] = l
  BY OneMoreLine DEF Sheets
<1>3. PICK f : Joins(f, ls, n) /\ Join(ls) = f[n]
  BY <1>1, JoinIs
<1> HIDE DEF n, ms
<1>m. PICK k \in Nat : k = n + 1
  BY <1>1
<1>4. PICK g : Joins(g, ms, k) /\ Join(ms) = g[k]
  <2>1. \E g : Joins(g, ms, Len(ms)) /\ Join(ms) = g[Len(ms)]
    BY <1>1, <1>m, JoinIs
  <2> QED
    BY <1>1, <1>m, <2>1
<1>5. \A i \in 1..n : f[i] = g[i] /\ f[i] \in Text
  <2>1. n <= k
    BY <1>1, <1>m
  <2> QED
    BY <1>1, <1>3, <1>4, <2>1, JoinsAgree
<1>6. f[n] = g[n] /\ f[n] \in Text
  BY <1>1, <1>5
<1>7. \A i \in 1..k : g[i] = IF i = 1 THEN ms[1] ELSE g[i - 1] \o <<NL>> \o ms[i]
  BY <1>4, JoinsAt
<1>8. g[k] = g[n] \o <<NL>> \o ms[n + 1]
  <2>1. k \in 1..k /\ k # 1 /\ k - 1 = n
    BY <1>1, <1>m
  <2> QED
    BY <1>7, <1>m, <2>1
<1> QED
  BY <1>2, <1>3, <1>4, <1>6, <1>8 DEF ms, n

LEMMA ConcatIs ==
    ASSUME NEW S, NEW s \in Seq(S), NEW t \in Seq(S)
    PROVE  /\ s \o t \in Seq(S) /\ Len(s \o t) = Len(s) + Len(t)
           /\ Len(s) \in Nat /\ Len(t) \in Nat
           /\ \A i \in 1..Len(s) : (s \o t)[i] = s[i]
           /\ \A i \in 1..Len(t) : (s \o t)[Len(s) + i] = t[i]
<1>1. Len(s) \in Nat /\ Len(t) \in Nat
  BY LenProperties
<1>2. /\ s \o t \in Seq(S) /\ Len(s \o t) = Len(s) + Len(t)
      /\ \A i \in 1..(Len(s) + Len(t)) : (s \o t)[i] = IF i <= Len(s) THEN s[i] ELSE t[i - Len(s)]
  BY ConcatProperties
<1> DEFINE u == s \o t  m == Len(s)  n == Len(t)
<1> HIDE DEF u, m, n
<1>3. \A i \in 1..(m + n) : u[i] = IF i <= m THEN s[i] ELSE t[i - m]
  BY <1>2 DEF u, m, n
<1>4. m \in Nat /\ n \in Nat
  BY <1>1 DEF m, n
<1>5. ASSUME NEW i \in 1..m PROVE u[i] = s[i]
  BY <1>3, <1>4
<1>6. ASSUME NEW i \in 1..n PROVE u[m + i] = t[i]
  <2>1. m + i \in 1..(m + n) /\ ~(m + i <= m) /\ (m + i) - m = i
    BY <1>4
  <2> QED
    BY <1>3, <2>1
<1> QED
  BY <1>1, <1>2, <1>5, <1>6 DEF u, m, n

\* Lines are equal one by one.
LEMMA SameLines ==
    ASSUME NEW P \in Seq(Seq(Chars)), NEW Q \in Seq(Seq(Chars)), Len(P) = Len(Q),
           \A i \in 1..Len(P) : P[i] = Q[i]
    PROVE  P = Q
BY SeqEqual

LEMMA TakeIs ==
    ASSUME NEW S, NEW l \in Seq(S), NEW n \in 0..Len(l)
    PROVE  /\ Take(l, n) \in Seq(S) /\ Len(Take(l, n)) = n
           /\ \A i \in 1..n : Take(l, n)[i] = l[i]
<1>1. Len(l) \in Nat /\ \A i \in 1..Len(l) : l[i] \in S
  BY LenProperties, ElementOfSeq
<1>2. \A i \in 1..n : l[i] \in S
  BY <1>1
<1>3. 1 \in Int /\ n \in Int /\ n - 1 + 1 = n
  BY <1>1
<1>4. /\ SubSeq(l, 1, n) \in Seq(S) /\ Len(SubSeq(l, 1, n)) = (IF 1 <= n THEN n - 1 + 1 ELSE 0)
      /\ \A i \in 1..(n - 1 + 1) : SubSeq(l, 1, n)[i] = l[1 + i - 1]
  BY <1>2, <1>3, SubSeqProperties, SMTT(30)
<1> QED
  BY <1>1, <1>4 DEF Take

LEMMA DropIs ==
    ASSUME NEW S, NEW l \in Seq(S), NEW n \in 0..Len(l)
    PROVE  /\ Drop(l, n) \in Seq(S) /\ Len(Drop(l, n)) = Len(l) - n
           /\ \A i \in 1..(Len(l) - n) : Drop(l, n)[i] = l[n + i]
<1> DEFINE k == Len(l)
<1>1. k \in Nat /\ \A i \in 1..k : l[i] \in S
  BY LenProperties, ElementOfSeq
<1>2. \A i \in (n + 1)..k : l[i] \in S
  BY <1>1
<1>3. n + 1 \in Int /\ k \in Int /\ n \in Int /\ n <= k
  BY <1>1
<1>4. /\ SubSeq(l, n + 1, k) \in Seq(S)
      /\ Len(SubSeq(l, n + 1, k)) = (IF n + 1 <= k THEN k - (n + 1) + 1 ELSE 0)
      /\ \A i \in 1..(k - (n + 1) + 1) : SubSeq(l, n + 1, k)[i] = l[(n + 1) + i - 1]
  <2> HIDE DEF k
  <2> QED
    BY <1>2, <1>3, SubSeqProperties
<1> HIDE DEF k
<1>5. SubSeq(l, n + 1, k) = Drop(l, n)
  BY DEF Drop, k
<1>6. /\ k - (n + 1) + 1 = k - n /\ \A i \in 1..(k - n) : (n + 1) + i - 1 = n + i
      /\ (IF n + 1 <= k THEN k - (n + 1) + 1 ELSE 0) = k - n
  BY <1>3
<1>7. \A i \in 1..(k - n) : Drop(l, n)[i] = l[n + i]
  BY <1>4, <1>5, <1>6
<1> QED
  BY <1>4, <1>5, <1>6, <1>7 DEF k

\* Two sheets become one: the last line of the first and the first of the
\* second are one line.
Glue(P, Q) == Take(P, Len(P) - 1) \o <<P[Len(P)] \o Q[1]>> \o Drop(Q, 1)

LEMMA OfSheet ==
    ASSUME NEW P \in Sheets
    PROVE  /\ P \in Seq(Seq(Chars)) /\ Len(P) \in Nat /\ Len(P) >= 1
           /\ \A i \in 1..Len(P) : P[i] \in Seq(Chars) /\ Len(P[i]) \in Nat
           /\ P[1] \in Seq(Chars) /\ P[Len(P)] \in Seq(Chars)
<1>1. P \in Seq(Seq(Chars)) /\ Len(P) >= 1
  BY DEF Sheets
<1>2. Len(P) \in Nat
  BY <1>1, LenProperties
<1>3. \A i \in 1..Len(P) : P[i] \in Seq(Chars)
  BY <1>1, ElementOfSeq
<1>4. \A i \in 1..Len(P) : Len(P[i]) \in Nat
  BY <1>3, LenProperties
<1> QED
  BY <1>1, <1>2, <1>3, <1>4

LEMMA GlueIs ==
    ASSUME NEW P \in Sheets, NEW Q \in Sheets
    PROVE  /\ Glue(P, Q) \in Sheets /\ Len(Glue(P, Q)) = Len(P) + Len(Q) - 1
           /\ \A i \in 1..(Len(P) - 1) : Glue(P, Q)[i] = P[i]
           /\ Glue(P, Q)[Len(P)] = P[Len(P)] \o Q[1]
           /\ \A i \in 1..(Len(Q) - 1) : Glue(P, Q)[Len(P) + i] = Q[i + 1]
<1> DEFINE p == Len(P)  q == Len(Q)  b == P[p] \o Q[1]  A == Take(P, p - 1)  B == <<b>>  D == Drop(Q, 1)
<1>0. p \in Nat /\ q \in Nat /\ p >= 1 /\ q >= 1 /\ p - 1 \in 0..p /\ 1 \in 0..q
  BY OfSheet
<1>1. A \in Seq(Seq(Chars)) /\ Len(A) = p - 1 /\ \A i \in 1..(p - 1) : A[i] = P[i]
  BY <1>0, OfSheet, TakeIs
<1>2. D \in Seq(Seq(Chars)) /\ Len(D) = q - 1 /\ \A i \in 1..(q - 1) : D[i] = Q[1 + i]
  BY <1>0, OfSheet, DropIs
<1>3. b \in Seq(Chars)
  BY OfSheet, ConcatProperties
<1>5. Glue(P, Q) = (A \o B) \o D
  BY DEF Glue
<1> HIDE DEF p, q, b, A, D
<1>4. B \in Seq(Seq(Chars)) /\ Len(B) = 1 /\ B[1] = b
  BY <1>3
<1> DEFINE C == A \o B  G == C \o D
<1> HIDE DEF B, C, G
<1>6. C \in Seq(Seq(Chars)) /\ Len(C) = p /\ C[p] = b /\ \A i \in 1..(p - 1) : C[i] = P[i]
  <2>1. /\ C \in Seq(Seq(Chars)) /\ Len(C) = Len(A) + Len(B)
        /\ \A i \in 1..Len(A) : C[i] = A[i]
        /\ \A i \in 1..Len(B) : C[Len(A) + i] = B[i]
    <3>1. A \in Seq(Seq(Chars)) /\ B \in Seq(Seq(Chars))
      BY <1>1, <1>4
    <3> QED
      BY <3>1, ConcatIs DEF C
  <2>2. C[(p - 1) + 1] = b /\ (p - 1) + 1 = p
    BY <1>0, <1>1, <1>4, <2>1
  <2> QED
    BY <1>0, <1>1, <1>4, <2>1, <2>2
<1>7. /\ G \in Seq(Seq(Chars)) /\ Len(G) = p + (q - 1)
      /\ \A i \in 1..p : G[i] = C[i]
      /\ \A i \in 1..(q - 1) : G[p + i] = D[i]
  BY <1>2, <1>6, ConcatIs, SMTT(30) DEF G
<1>8. G \in Sheets /\ Len(G) = p + q - 1
  BY <1>0, <1>7 DEF Sheets
<1>9. ASSUME NEW i \in 1..(p - 1) PROVE G[i] = P[i]
  BY <1>0, <1>6, <1>7
<1>10. G[p] = b
  BY <1>0, <1>6, <1>7
<1>11. ASSUME NEW i \in 1..(q - 1) PROVE G[p + i] = Q[i + 1]
  <2>1. 1 + i = i + 1
    OBVIOUS
  <2> QED
    BY <1>2, <1>7, <2>1
<1> QED
  BY <1>5, <1>8, <1>9, <1>10, <1>11 DEF p, q, b, G, C

LEMMA GlueMore ==
    ASSUME NEW P \in Sheets, NEW Q \in Sheets, NEW l \in Seq(Chars)
    PROVE  Glue(P, Append(Q, l)) = Append(Glue(P, Q), l)
<1> DEFINE p == Len(P)  q == Len(Q)  R == Append(Q, l)  G == Glue(P, Q)  H == Glue(P, R)
<1>0. p \in Nat /\ q \in Nat /\ p >= 1 /\ q >= 1
  BY OfSheet
<1>1. R \in Sheets /\ Len(R) = q + 1 /\ R[q + 1] = l /\ \A i \in 1..q : R[i] = Q[i]
  BY OneMoreLine, OfSheet
<1>2. /\ G \in Sheets /\ Len(G) = p + q - 1 /\ \A i \in 1..(p - 1) : G[i] = P[i]
      /\ G[p] = P[p] \o Q[1] /\ \A i \in 1..(q - 1) : G[p + i] = Q[i + 1]
  BY GlueIs
<1> HIDE DEF p, q, R, G, H
<1>r. Len(R) - 1 = q
  BY <1>0, <1>1
<1>3. /\ H \in Sheets /\ Len(H) = p + Len(R) - 1 /\ \A i \in 1..(p - 1) : H[i] = P[i]
      /\ H[p] = P[p] \o R[1] /\ \A i \in 1..q : H[p + i] = R[i + 1]
  <2>1. /\ H \in Sheets /\ Len(H) = p + Len(R) - 1 /\ \A i \in 1..(p - 1) : H[i] = P[i]
        /\ H[p] = P[p] \o R[1] /\ \A i \in 1..(Len(R) - 1) : H[p + i] = R[i + 1]
    BY <1>1, GlueIs DEF H, p
  <2> QED
    BY <1>r, <2>1
<1> DEFINE k == p + q - 1
<1>k. k \in Nat /\ k + 1 = p + q /\ k >= 1
  BY <1>0
<1>g. Len(G) = k
  BY <1>2
<1> HIDE DEF k
<1>4. /\ Append(G, l) \in Sheets /\ Len(Append(G, l)) = k + 1 /\ Append(G, l)[k + 1] = l
      /\ \A i \in 1..k : Append(G, l)[i] = G[i]
  <2>1. G \in Seq(Seq(Chars))
    BY <1>2, OfSheet
  <2> QED
    BY <1>g, <2>1, OneMoreLine
<1>5. ASSUME NEW i \in 1..(p + q) PROVE H[i] = Append(G, l)[i]
  <2>1. CASE i <= p - 1
    <3>1. i \in 1..(p - 1) /\ i \in 1..k
      BY <1>0, <1>k, <2>1
    <3> QED
      BY <1>2, <1>3, <1>4, <3>1
  <2>2. CASE i = p
    <3>1. R[1] = Q[1] /\ p \in 1..k
      BY <1>0, <1>1, <1>k
    <3> QED
      BY <1>2, <1>3, <1>4, <2>2, <3>1
  <2>3. CASE i > p
    <3>1. PICK j \in 1..q : i = p + j
      <4>1. i - p \in 1..q /\ i = p + (i - p)
        BY <1>0, <2>3
      <4> QED
        BY <4>1
    <3>2. H[i] = R[j + 1]
      BY <1>3, <3>1
    <3>3. CASE j = q
      <4>1. i = k + 1
        BY <1>0, <1>k, <3>1, <3>3
      <4> QED
        BY <1>1, <1>4, <3>2, <3>3, <4>1
    <3>4. CASE j < q
      <4>1. j \in 1..(q - 1) /\ j + 1 \in 1..q /\ i \in 1..k
        BY <1>0, <1>k, <3>1, <3>4
      <4> QED
        BY <1>1, <1>2, <1>4, <3>1, <3>2, <4>1
    <3>5. j = q \/ j < q
      BY <1>0
    <3> QED
      BY <3>3, <3>4, <3>5
  <2>4. i <= p - 1 \/ i = p \/ i > p
    BY <1>0
  <2> QED
    BY <2>1, <2>2, <2>3, <2>4
<1>6. Len(H) = p + q /\ Len(Append(G, l)) = p + q
  BY <1>0, <1>k, <1>1, <1>3, <1>4
<1>7. H = Append(G, l)
  BY <1>3, <1>4, <1>5, <1>6, SameLines DEF Sheets
<1> QED
  BY <1>7 DEF H, G, R

\* A sheet is its last line after the others.
LEMMA LastOfSheet ==
    ASSUME NEW P \in Sheets
    PROVE  /\ Take(P, Len(P) - 1) \in Seq(Seq(Chars)) /\ Len(Take(P, Len(P) - 1)) = Len(P) - 1
           /\ P = Append(Take(P, Len(P) - 1), P[Len(P)])
<1> DEFINE p == Len(P)  A == Take(P, p - 1)  l == P[p]  R == Append(A, l)
<1>1. p \in Nat /\ p >= 1 /\ p - 1 \in 0..p /\ P \in Seq(Seq(Chars)) /\ l \in Seq(Chars)
  BY OfSheet
<1>2. A \in Seq(Seq(Chars)) /\ Len(A) = p - 1 /\ \A i \in 1..(p - 1) : A[i] = P[i]
  BY <1>1, TakeIs
<1> HIDE DEF p, A, l
<1>3. R \in Sheets /\ Len(R) = Len(A) + 1 /\ R[Len(A) + 1] = l /\ \A i \in 1..Len(A) : R[i] = A[i]
  BY <1>1, <1>2, OneMoreLine
<1> HIDE DEF R
<1>4. Len(R) = p /\ R[p] = l
  BY <1>1, <1>2, <1>3
<1>5. ASSUME NEW i \in 1..p PROVE P[i] = R[i]
  <2>1. i \in 1..(p - 1) \/ i = p
    BY <1>1
  <2>2. CASE i \in 1..(p - 1)
    BY <1>2, <1>3, <2>2
  <2>3. CASE i = p
    BY <1>4, <2>3 DEF l
  <2> QED
    BY <2>1, <2>2, <2>3
<1>6. P = R
  BY <1>1, <1>3, <1>4, <1>5, SameLines DEF Sheets, p
<1> QED
  BY <1>2, <1>6 DEF R, A, l, p

LEMMA JoinText == ASSUME NEW P \in Sheets PROVE Join(P) \in Text /\ Len(Join(P)) \in Nat
<1>1. Join(P) \in Text
  BY LinesAreTexts, JoinMore
<1> QED
  BY <1>1, LenProperties DEF Text

\* The text ends with the last line.
LEMMA JoinLast ==
    ASSUME NEW F \in Seq(Seq(Chars)), NEW l \in Seq(Chars), NEW m \in Seq(Chars)
    PROVE  Join(Append(F, l \o m)) = Join(Append(F, l)) \o m
<1>1. l \o m \in Seq(Chars)
  BY ConcatProperties
<1>2. CASE F = <<>>
  <2>1. Append(F, l \o m) = <<l \o m>> /\ Append(F, l) = <<l>>
    BY <1>2
  <2> QED
    BY <1>1, <2>1, JoinOne
<1>3. CASE F # <<>>
  <2>1. F \in Sheets
    BY <1>3, EmptySeq DEF Sheets
  <2>2. /\ Join(Append(F, l \o m)) = (Join(F) \o <<NL>>) \o (l \o m)
        /\ Join(Append(F, l)) = (Join(F) \o <<NL>>) \o l
    BY <1>1, <2>1, JoinMore
  <2>3. Join(F) \o <<NL>> \in Text /\ l \in Text /\ m \in Text
    BY <2>1, JoinText, LinesAreTexts, ConcatProperties DEF Text
  <2>4. ((Join(F) \o <<NL>>) \o l) \o m = (Join(F) \o <<NL>>) \o (l \o m)
    BY <2>3, TextAssoc, ZenonT(40)
  <2> QED
    BY <2>2, <2>4
<1> QED
  BY <1>2, <1>3

\* The text of two sheets made one is their texts one after the other.
LEMMA JoinGlue ==
    ASSUME NEW P \in Sheets, NEW Q \in Sheets
    PROVE  Join(Glue(P, Q)) = Join(P) \o Join(Q)
<1> DEFINE T == {n \in Nat : \A R \in Sheets : Len(R) = n + 1 => Join(Glue(P, R)) = Join(P) \o Join(R)}
<1>1. ASSUME NEW R \in Sheets, Len(R) = 1 PROVE Join(Glue(P, R)) = Join(P) \o Join(R)
  <2> DEFINE F == Take(P, Len(P) - 1)  l == P[Len(P)]
  <2>1. F \in Seq(Seq(Chars)) /\ P = Append(F, l) /\ l \in Seq(Chars) /\ R[1] \in Seq(Chars)
    BY LastOfSheet, OfSheet
  <2>2. R = <<R[1]>>
    BY <1>1, OneLine, OfSheet, SameLines
  <2>3. Glue(P, R) = Append(F, l \o R[1])
    <3>1. l \o R[1] \in Seq(Chars) /\ Len(F) = Len(P) - 1
      BY <2>1, ConcatProperties, LastOfSheet
    <3>2. Append(F, l \o R[1]) = F \o <<l \o R[1]>>
      BY <2>1, <3>1, AppendIsConcat
    <3>3. Drop(R, 1) = <<>>
      BY <1>1, SubSeqEmpty DEF Drop
    <3>4. F \o <<l \o R[1]>> \in Seq(Seq(Chars))
      BY <2>1, <3>1, <3>2, AppendProperties
    <3>5. (F \o <<l \o R[1]>>) \o <<>> = F \o <<l \o R[1]>>
      BY <3>4, ConcatEmptySeq
    <3> QED
      BY <3>2, <3>3, <3>5 DEF Glue
  <2>4. Join(R) = R[1]
    BY <2>1, <2>2, JoinOne
  <2> HIDE DEF F, l
  <2>5. Join(Append(F, l \o R[1])) = Join(Append(F, l)) \o R[1]
    BY <2>1, JoinLast
  <2> QED
    BY <2>1, <2>3, <2>4, <2>5
<1>2. 0 \in T
  BY <1>1
<1>3. ASSUME NEW n \in Nat, n \in T, NEW R \in Sheets, Len(R) = n + 1 + 1
      PROVE  Join(Glue(P, R)) = Join(P) \o Join(R)
  <2> DEFINE F == Take(R, Len(R) - 1)  l == R[Len(R)]
  <2>1. F \in Seq(Seq(Chars)) /\ Len(F) = Len(R) - 1 /\ R = Append(F, l) /\ l \in Seq(Chars)
    BY LastOfSheet, OfSheet
  <2> HIDE DEF F, l
  <2>2. F \in Sheets /\ Len(F) = n + 1
    BY <1>3, <2>1 DEF Sheets
  <2>3. Join(Glue(P, F)) = Join(P) \o Join(F)
    BY <1>3, <2>2
  <2>4. Glue(P, R) = Append(Glue(P, F), l) /\ Glue(P, F) \in Sheets
    BY <2>1, <2>2, GlueMore, GlueIs, ZenonT(40)
  <2>5. Join(Glue(P, R)) = (Join(Glue(P, F)) \o <<NL>>) \o l /\ Join(R) = (Join(F) \o <<NL>>) \o l
    BY <2>1, <2>2, <2>4, JoinMore
  <2>6. Join(P) \in Text /\ Join(F) \in Text /\ <<NL>> \in Text /\ l \in Text
    BY <2>1, <2>2, JoinText, LinesAreTexts
  <2>7. /\ (Join(P) \o Join(F)) \o <<NL>> = Join(P) \o (Join(F) \o <<NL>>)
        /\ Join(F) \o <<NL>> \in Text
    <3> DEFINE a == Join(P)  b == Join(F)  c == <<NL>>
    <3>1. a \in Text /\ b \in Text /\ c \in Text
      BY <2>6
    <3> HIDE DEF a, b, c
    <3>2. (a \o b) \o c = a \o (b \o c)
      BY <3>1, TextAssoc, ZenonT(40)
    <3>3. b \o c \in Text
      BY <3>1, TextAssoc, ZenonT(40)
    <3> QED
      BY <3>2, <3>3 DEF a, b, c
  <2>8. (Join(P) \o (Join(F) \o <<NL>>)) \o l = Join(P) \o ((Join(F) \o <<NL>>) \o l)
    <3>1. Join(P) \in Text /\ Join(F) \o <<NL>> \in Text /\ l \in Text
      BY <2>6, <2>7
    <3> QED
      BY <3>1, TextAssoc, ZenonT(40)
  <2>9. (Join(Glue(P, F)) \o <<NL>>) \o l = (Join(P) \o (Join(F) \o <<NL>>)) \o l
    <3> DEFINE a == Join(Glue(P, F))  b == Join(P)  c == Join(F)  e == <<NL>>
    <3>1. a = b \o c /\ (b \o c) \o e = b \o (c \o e)
      BY <2>3, <2>7
    <3> HIDE DEF a, b, c, e
    <3>2. a \o e = b \o (c \o e)
      BY <3>1
    <3>3. (a \o e) \o l = (b \o (c \o e)) \o l
      BY <3>2
    <3> QED
      BY <3>3 DEF a, b, c, e
  <2> QED
    BY <2>5, <2>8, <2>9
<1>4. \A n \in Nat : n \in T => n + 1 \in T
  BY <1>3
<1>5. Len(Q) - 1 \in Nat /\ Len(Q) = (Len(Q) - 1) + 1
  BY OfSheet
<1>6. Len(Q) - 1 \in T
  <2> HIDE DEF T
  <2> QED
    BY <1>2, <1>4, <1>5, Counting
<1> QED
  BY <1>5, <1>6

\* The lines of a text make the text again.
LEMMA SplitMore ==
    ASSUME NEW t \in Text
    PROVE  Split(t) \in Sheets /\ Join(Split(t)) = t
<1> DEFINE s(ls, c) == IF c = NL THEN Append(ls, <<>>) ELSE [ls EXCEPT ![Len(ls)] = Append(@, c)]
           Splits(f, n) == f = [i \in 0..n |-> IF i = 0 THEN << <<>> >> ELSE s(f[i - 1], t[i])]
           n == Len(t)
<1>1. n \in Nat /\ \A i \in 1..n : t[i] \in Chars \cup {NL}
  BY LenProperties, ElementOfSeq DEF Text
<1>2. \A m \in Nat : \E f : Splits(f, m)
  <2> DEFINE T == {m \in Nat : \E f : Splits(f, m)}
  <2>1. 0 \in T
    <3>1. Splits([i \in 0..0 |-> << <<>> >>], 0)
      OBVIOUS
    <3> QED
      BY <3>1
  <2>2. ASSUME NEW m \in Nat, NEW f, Splits(f, m) PROVE \E g : Splits(g, m + 1)
    <3> DEFINE e == s(f[m], t[m + 1])
               g == [i \in 0..(m + 1) |-> IF i = m + 1 THEN e ELSE f[i]]
               h(i) == IF i = 0 THEN << <<>> >> ELSE s(g[i - 1], t[i])
    <3>f. \A i \in 0..m : f[i] = IF i = 0 THEN << <<>> >> ELSE s(f[i - 1], t[i])
      <4> HIDE DEF s
      <4> QED
        BY <2>2
    <3> HIDE DEF s
    <3>1. ASSUME NEW i \in 0..(m + 1) PROVE g[i] = h(i)
      <4>1. CASE i = m + 1
        BY <4>1
      <4>2. CASE i # m + 1
        BY <3>f, <4>2
      <4> QED
        BY <4>1, <4>2
    <3>2. g = [i \in 0..(m + 1) |-> g[i]]
      OBVIOUS
    <3>3. g = [i \in 0..(m + 1) |-> h(i)]
      <4> HIDE DEF g, h
      <4> QED
        BY <3>1, <3>2
    <3>4. Splits(g, m + 1)
      <4> HIDE DEF g
      <4> QED
        BY <3>3
    <3> QED
      BY <3>4
  <2>3. \A m \in Nat : m \in T => m + 1 \in T
    <3> HIDE DEF Splits
    <3> QED
      BY <2>2
  <2>4. Nat \subseteq T
    <3> HIDE DEF T
    <3> QED
      BY <2>1, <2>3, Counting
  <2> QED
    BY <2>4
<1>3. PICK f : Splits(f, n) /\ Split(t) = f[n]
  <2>1. PICK f : Splits(f, n)
    BY <1>1, <1>2
  <2> QED
    BY <2>1 DEF Split
<1>4. \A i \in 0..n : f[i] = IF i = 0 THEN << <<>> >> ELSE s(f[i - 1], t[i])
  <2> HIDE DEF s
  <2> QED
    BY <1>3
<1> DEFINE T == {i \in Nat : i <= n => f[i] \in Sheets /\ Join(f[i]) = SubSeq(t, 1, i)}
<1>5. 0 \in T
  <2>1. f[0] = << <<>> >> /\ SubSeq(t, 1, 0) = <<>>
    <3> HIDE DEF s
    <3>1. 0 \in 0..n
      BY <1>1
    <3>2. f[0] = << <<>> >>
      BY <1>4, <3>1
    <3>3. SubSeq(t, 1, 0) = <<>>
      BY SubSeqEmpty
    <3> QED
      BY <3>2, <3>3
  <2>2. <<>> \in Seq(Chars)
    BY LinesAreTexts
  <2> QED
    BY <2>1, <2>2, OneLine, JoinOne
<1>6. ASSUME NEW i \in Nat, i \in T PROVE i + 1 \in T
  <2> SUFFICES ASSUME i + 1 <= n PROVE f[i + 1] \in Sheets /\ Join(f[i + 1]) = SubSeq(t, 1, i + 1)
    OBVIOUS
  <2> DEFINE ls == f[i]  c == t[i + 1]  F == Take(ls, Len(ls) - 1)  l == ls[Len(ls)]  k == i + 1
  <2>1. i <= n /\ k \in 1..n /\ k \in Nat /\ k # 0 /\ k - 1 = i /\ 1 \in 1..n /\ k \in 0..n
    BY <1>1
  <2>2. ls \in Sheets /\ Join(ls) = SubSeq(t, 1, i) /\ c \in Chars \cup {NL}
    BY <1>1, <1>6, <2>1
  <2>3. f[k] = s(ls, c)
    <3> HIDE DEF s
    <3>1. f[k] = s(f[k - 1], t[k])
      BY <1>4, <2>1
    <3> QED
      BY <2>1, <3>1
  <2>4. SubSeq(t, 1, k) = SubSeq(t, 1, i) \o <<c>>
    <3>1. 1 \in 1..Len(t) /\ k \in 1..Len(t) /\ t \in Seq(Chars \cup {NL})
      BY <2>1 DEF Text
    <3>2. SubSeq(t, 1, k) = SubSeq(t, 1, k - 1) \o <<t[k]>>
      BY <3>1, SubSeqRecursiveSecond
    <3> QED
      BY <2>1, <3>2
  <2>5. F \in Seq(Seq(Chars)) /\ Len(F) = Len(ls) - 1 /\ ls = Append(F, l) /\ l \in Seq(Chars)
    BY <2>2, LastOfSheet, OfSheet
  <2>6. CASE c = NL
    <3>1. f[k] = Append(ls, <<>>) /\ <<>> \in Seq(Chars) /\ ls \in Seq(Seq(Chars))
      BY <2>2, <2>3, <2>6, LinesAreTexts, OfSheet
    <3>2. f[k] \in Sheets
      BY <3>1, OneMoreLine
    <3>3. Join(f[k]) = (Join(ls) \o <<NL>>) \o <<>>
      BY <2>2, <3>1, JoinMore
    <3>4. Join(ls) \o <<NL>> \in Text
      BY <2>2, JoinText, LinesAreTexts, ConcatProperties DEF Text
    <3>5. (Join(ls) \o <<NL>>) \o <<>> = Join(ls) \o <<NL>>
      BY <3>4, ConcatEmptySeq DEF Text
    <3> QED
      BY <2>2, <2>4, <2>6, <3>2, <3>3, <3>5
  <2>7. CASE c # NL
    <3> DEFINE m == <<c>>  g == Append(l, c)
    <3>1. c \in Chars /\ m \in Seq(Chars)
      BY <2>2, <2>7
    <3>2. f[k] = [ls EXCEPT ![Len(ls)] = g]
      BY <2>3, <2>7
    <3>3. g = l \o m /\ g \in Seq(Chars)
      <4> HIDE DEF l, c
      <4> QED
        BY <2>5, <3>1, AppendIsConcat, AppendProperties
    <3>4. Len(ls) \in 1..Len(ls) /\ ls \in Seq(Seq(Chars)) /\ Len(ls) \in Nat
      BY <2>2, OfSheet
    <3> DEFINE u == [ls EXCEPT ![Len(ls)] = g]
    <3>5. /\ u \in Seq(Seq(Chars)) /\ Len(u) = Len(ls)
          /\ \A j \in 1..Len(ls) : u[j] = IF j = Len(ls) THEN g ELSE ls[j]
      <4> HIDE DEF ls, g
      <4> QED
        BY <3>3, <3>4, ExceptSeq
    <3>6. f[k] \in Sheets
      BY <2>2, <3>2, <3>5 DEF Sheets
    <3>7. /\ Append(F, g) \in Sheets /\ Len(Append(F, g)) = Len(F) + 1 /\ Append(F, g)[Len(F) + 1] = g
          /\ \A j \in 1..Len(F) : Append(F, g)[j] = F[j]
      <4> HIDE DEF F, g
      <4> QED
        BY <2>5, <3>3, OneMoreLine
    <3>8. Len(Append(F, l)) = Len(F) + 1 /\ \A j \in 1..Len(F) : Append(F, l)[j] = F[j]
      <4> HIDE DEF F, l
      <4> QED
        BY <2>5, OneMoreLine
    <3> DEFINE p == Len(ls)  v == Append(F, g)
    <3> HIDE DEF s, ls, g, F, l, u, p, v
    <3>9. p \in Nat /\ p >= 1 /\ Len(F) + 1 = p /\ Len(F) = p - 1
      BY <2>5, <3>4 DEF p
    <3>10. /\ Len(u) = p /\ u[p] = g /\ \A j \in 1..(p - 1) : u[j] = ls[j]
      <4>1. p \in 1..p /\ \A j \in 1..(p - 1) : j \in 1..p /\ j # p
        BY <3>9
      <4> QED
        BY <3>5, <4>1 DEF p
    <3>11. /\ Len(v) = p /\ v[p] = g /\ \A j \in 1..(p - 1) : v[j] = F[j]
      BY <3>7, <3>9 DEF v
    <3>12. \A j \in 1..(p - 1) : ls[j] = F[j]
      BY <2>5, <3>8, <3>9
    <3>13. \A j \in 1..p : u[j] = v[j]
      <4>1. \A j \in 1..p : j = p \/ j \in 1..(p - 1)
        BY <3>9
      <4> QED
        BY <3>10, <3>11, <3>12, <4>1
    <3>14. u = v
      <4>1. u \in Seq(Seq(Chars)) /\ v \in Seq(Seq(Chars)) /\ Len(u) = Len(v)
        BY <3>5, <3>7, <3>10, <3>11 DEF v, Sheets
      <4> QED
        BY <3>10, <3>13, <4>1, SameLines
    <3>15. Join(v) = Join(ls) \o m
      <4>1. Join(Append(F, l \o m)) = Join(Append(F, l)) \o m
        BY <2>5, <3>1, JoinLast
      <4> QED
        BY <2>5, <3>3, <4>1 DEF v
    <3>16. f[k] = v
      BY <3>2, <3>14 DEF u
    <3> QED
      BY <2>2, <2>4, <3>6, <3>15, <3>16 DEF m
  <2> QED
    BY <2>6, <2>7
<1>7. n \in T
  <2> HIDE DEF T
  <2> QED
    BY <1>1, <1>5, <1>6, Counting
<1>8. SubSeq(t, 1, n) = t
  BY SubSeqFull DEF Text
<1>9. f[n] \in Sheets /\ Join(f[n]) = SubSeq(t, 1, n)
  <2>1. n <= n
    BY <1>1
  <2> QED
    BY <1>7, <2>1
<1> HIDE DEF n
<1> QED
  BY <1>3, <1>8, <1>9

----------------------------------------------------------------------------
(* A text cut in two at a place of a sheet.                                  *)

LEMMA TakeDrop ==
    ASSUME NEW S, NEW l \in Seq(S), NEW n \in 0..Len(l)
    PROVE  Take(l, n) \o Drop(l, n) = l
<1>1. Len(l) \in Nat
  BY LenProperties
<1>2. 1 \in 1..(Len(l) + 1) /\ n \in (1 - 1)..Len(l) /\ Len(l) \in n..Len(l)
  BY <1>1
<1>3. SubSeq(l, 1, n) \o SubSeq(l, n + 1, Len(l)) = SubSeq(l, 1, Len(l))
  BY <1>2, ConcatAdjacentSubSeq
<1> QED
  BY <1>3, SubSeqFull DEF Take, Drop

LEMMA Extremes ==
    ASSUME NEW S, NEW l \in Seq(S)
    PROVE  /\ Take(l, 0) = <<>> /\ Drop(l, 0) = l
           /\ Take(l, Len(l)) = l /\ Drop(l, Len(l)) = <<>>
<1>1. Len(l) \in Nat
  BY LenProperties
<1>2. SubSeq(l, 1, 0) = <<>> /\ SubSeq(l, Len(l) + 1, Len(l)) = <<>>
  BY <1>1, SubSeqEmpty
<1> QED
  BY <1>2, SubSeqFull DEF Take, Drop

LEMMA Parted ==
    ASSUME NEW S, NEW s \in Seq(S), NEW t \in Seq(S)
    PROVE  Take(s \o t, Len(s)) = s /\ Drop(s \o t, Len(s)) = t
<1> DEFINE u == s \o t  m == Len(s)  n == Len(t)
<1>1. /\ u \in Seq(S) /\ Len(u) = m + n /\ m \in Nat /\ n \in Nat
      /\ \A i \in 1..m : u[i] = s[i]
      /\ \A i \in 1..n : u[m + i] = t[i]
  BY ConcatIs
<1> HIDE DEF u
<1>2. m \in 0..Len(u) /\ Len(u) - m = n
  BY <1>1
<1>3. Take(u, m) \in Seq(S) /\ Len(Take(u, m)) = m /\ \A i \in 1..m : Take(u, m)[i] = u[i]
  BY <1>1, <1>2, TakeIs
<1>4. Drop(u, m) \in Seq(S) /\ Len(Drop(u, m)) = Len(u) - m /\ \A i \in 1..(Len(u) - m) : Drop(u, m)[i] = u[m + i]
  BY <1>1, <1>2, DropIs
<1>5. Take(u, m) = s
  BY <1>1, <1>3, SeqEqual
<1>6. Drop(u, m) = t
  BY <1>1, <1>2, <1>4, SeqEqual
<1> QED
  BY <1>5, <1>6 DEF u

\* Line X after the lines F and before the lines D.
LEMMA Parts ==
    ASSUME NEW F \in Seq(Seq(Chars)), NEW D \in Seq(Seq(Chars)), NEW X \in Seq(Chars)
    PROVE  LET ls == F \o <<X>> \o D
           IN /\ ls \in Sheets /\ Len(ls) = Len(F) + 1 + Len(D) /\ Len(F) \in Nat /\ Len(D) \in Nat
              /\ Take(ls, Len(F)) = F /\ ls[Len(F) + 1] = X /\ Drop(ls, Len(F) + 1) = D
<1> DEFINE G == F \o <<X>>  ls == G \o D
<1>1. <<X>> \in Seq(Seq(Chars)) /\ Len(<<X>>) = 1 /\ <<X>>[1] = X
  OBVIOUS
<1>2. /\ G \in Seq(Seq(Chars)) /\ Len(G) = Len(F) + 1 /\ Len(F) \in Nat /\ G[Len(F) + 1] = X
  BY <1>1, ConcatIs
<1>3. <<X>> \o D \in Seq(Seq(Chars)) /\ ls = F \o (<<X>> \o D)
  BY <1>1, ConcatIs, ConcatAssociative
<1>4. Take(F \o (<<X>> \o D), Len(F)) = F
  BY <1>3, Parted
<1> HIDE DEF G
<1>5. /\ ls \in Seq(Seq(Chars)) /\ Len(ls) = Len(G) + Len(D) /\ Len(D) \in Nat
      /\ \A i \in 1..Len(G) : ls[i] = G[i]
      /\ Drop(ls, Len(G)) = D
  <2>1. G \in Seq(Seq(Chars)) /\ D \in Seq(Seq(Chars))
    BY <1>2
  <2>2. Drop(G \o D, Len(G)) = D
    BY <2>1, Parted
  <2> QED
    BY <2>1, <2>2, ConcatIs
<1>6. Len(F) + 1 \in 1..Len(G)
  BY <1>2
<1>7. ls[Len(F) + 1] = X
  BY <1>2, <1>5, <1>6
<1>8. ls \in Sheets
  BY <1>2, <1>5, SMTT(30) DEF Sheets
<1> QED
  BY <1>2, <1>3, <1>4, <1>5, <1>7, <1>8 DEF G

\* Every line of a sheet stands so.
LEMMA LineOf ==
    ASSUME NEW ls \in Sheets, NEW y \in Nat, y < Len(ls)
    PROVE  /\ Take(ls, y) \in Seq(Seq(Chars)) /\ Len(Take(ls, y)) = y
           /\ Drop(ls, y + 1) \in Seq(Seq(Chars)) /\ Len(Drop(ls, y + 1)) = Len(ls) - y - 1
           /\ ls[y + 1] \in Seq(Chars) /\ Len(ls[y + 1]) \in Nat
           /\ ls = Take(ls, y) \o <<ls[y + 1]>> \o Drop(ls, y + 1)
<1>1. ls \in Seq(Seq(Chars)) /\ Len(ls) \in Nat
  BY OfSheet
<1>2. y \in 0..Len(ls) /\ y + 1 \in 0..Len(ls) /\ y + 1 \in 1..Len(ls) /\ Len(ls) - (y + 1) = Len(ls) - y - 1
      /\ (y + 1) - 1 = y /\ 1 \in 1..Len(ls)
  BY <1>1
<1>3. Take(ls, y) \in Seq(Seq(Chars)) /\ Len(Take(ls, y)) = y
  BY <1>1, <1>2, TakeIs, ZenonT(40)
<1>4. Drop(ls, y + 1) \in Seq(Seq(Chars)) /\ Len(Drop(ls, y + 1)) = Len(ls) - (y + 1)
  BY <1>1, <1>2, DropIs, ZenonT(40)
<1>5. ls[y + 1] \in Seq(Chars) /\ Len(ls[y + 1]) \in Nat
  BY <1>2, OfSheet
<1>6. Take(ls, y + 1) \o Drop(ls, y + 1) = ls
  BY <1>1, <1>2, TakeDrop
<1>7. Take(ls, y + 1) = Take(ls, y) \o <<ls[y + 1]>>
  <2>1. SubSeq(ls, 1, y + 1) = SubSeq(ls, 1, (y + 1) - 1) \o <<ls[y + 1]>>
    BY <1>1, <1>2, SubSeqRecursiveSecond
  <2> QED
    BY <1>2, <2>1 DEF Take
<1> QED
  BY <1>2, <1>3, <1>4, <1>5, <1>6, <1>7

LEMMA EndsGlued ==
    ASSUME NEW F \in Seq(Seq(Chars)), NEW D \in Seq(Seq(Chars)), NEW l \in Seq(Chars), NEW m \in Seq(Chars)
    PROVE  /\ Append(F, l) \in Sheets /\ <<m>> \o D \in Sheets
           /\ Len(Append(F, l)) = Len(F) + 1 /\ Append(F, l)[Len(F) + 1] = l
           /\ l \o m \in Seq(Chars) /\ Append(F, l) = F \o <<l>>
           /\ Glue(Append(F, l), <<m>> \o D) = F \o <<l \o m>> \o D
<1> DEFINE P == Append(F, l)  Q == <<m>> \o D
<1>1. /\ P \in Sheets /\ Len(P) = Len(F) + 1 /\ P[Len(F) + 1] = l /\ P = F \o <<l>> /\ Len(F) \in Nat
  BY OneMoreLine, AppendIsConcat, LenProperties
<1>2. <<m>> \in Seq(Seq(Chars)) /\ Len(<<m>>) = 1 /\ <<m>>[1] = m /\ <<l>> \in Seq(Seq(Chars))
  OBVIOUS
<1>3. /\ Q \in Seq(Seq(Chars)) /\ Len(Q) = 1 + Len(D) /\ Len(D) \in Nat /\ Drop(Q, 1) = D
      /\ Q[1] = m
  <2> DEFINE s == <<m>>
  <2>0. s \in Seq(Seq(Chars)) /\ Len(s) = 1 /\ s[1] = m
    BY <1>2
  <2> HIDE DEF s
  <2>1. /\ s \o D \in Seq(Seq(Chars)) /\ Len(s \o D) = Len(s) + Len(D) /\ Len(D) \in Nat
        /\ \A i \in 1..Len(s) : (s \o D)[i] = s[i]
    BY <2>0, ConcatIs, ZenonT(40)
  <2>2. Drop(s \o D, 1) = D
    BY <2>0, Parted
  <2> QED
    BY <2>0, <2>1, <2>2 DEF s
<1>4. Q \in Sheets /\ Q[1] = m
  BY <1>2, <1>3 DEF Sheets
<1>5. Take(F \o <<l>>, Len(F)) = F
  BY <1>2, Parted
<1>6. Take(P, Len(P) - 1) = F /\ P[Len(P)] = l
  <2>1. Len(P) - 1 = Len(F)
    BY <1>1
  <2> QED
    BY <1>1, <1>5, <2>1
<1>7. l \o m \in Seq(Chars)
  BY ConcatIs
<1> HIDE DEF P, Q
<1>8. Glue(P, Q) = F \o <<l \o m>> \o D
  BY <1>3, <1>4, <1>6 DEF Glue
<1> QED
  BY <1>1, <1>4, <1>7, <1>8 DEF P, Q

LEMMA GlueEnds ==
    \A F, D \in Seq(Seq(Chars)) : \A l, m \in Seq(Chars) :
        Glue(Append(F, l), <<m>> \o D) = F \o <<l \o m>> \o D
BY EndsGlued, ZenonT(40)

\* Column x of line y, from 0, is a place of the sheet; what is before and
\* behind it; and where it is in the text.
OnSheet(ls, x, y) == x \in Nat /\ y \in Nat /\ y < Len(ls) /\ x <= Len(ls[y + 1])
Upper(ls, x, y) == Append(Take(ls, y), Take(ls[y + 1], x))
Lower(ls, x, y) == <<Drop(ls[y + 1], x)>> \o Drop(ls, y + 1)
Offset(ls, x, y) == Len(Join(Append(Take(ls, y), <<>>))) + x

LEMMA Halves ==
    ASSUME NEW ls \in Sheets, NEW x, NEW y, OnSheet(ls, x, y)
    PROVE  LET U == Upper(ls, x, y)  W == Lower(ls, x, y)
           IN /\ U \in Sheets /\ W \in Sheets /\ Glue(U, W) = ls
              /\ Join(ls) = Join(U) \o Join(W)
              /\ Len(U) = y + 1 /\ Len(U[y + 1]) = x
              /\ Len(Join(U)) = Offset(ls, x, y)
<1> DEFINE F == Take(ls, y)  D == Drop(ls, y + 1)  l == ls[y + 1]  a == Take(l, x)  b == Drop(l, x)
           U == Upper(ls, x, y)  W == Lower(ls, x, y)
<1>0. x \in Nat /\ y \in Nat /\ y < Len(ls) /\ x <= Len(l)
  BY DEF OnSheet
<1>1. /\ F \in Seq(Seq(Chars)) /\ Len(F) = y /\ D \in Seq(Seq(Chars))
      /\ l \in Seq(Chars) /\ Len(l) \in Nat /\ ls = F \o <<l>> \o D
  BY <1>0, LineOf
<1> HIDE DEF F, D, l
<1>2. a \in Seq(Chars) /\ Len(a) = x /\ b \in Seq(Chars) /\ a \o b = l
  <2>1. x \in 0..Len(l)
    BY <1>0, <1>1
  <2> QED
    BY <1>1, <2>1, TakeIs, DropIs, TakeDrop
<1>3. U = Append(F, a) /\ W = <<b>> \o D
  BY DEF Upper, Lower, F, D, l
<1> HIDE DEF a, b, U, W
<1>4. U \in Sheets /\ W \in Sheets /\ Len(U) = y + 1 /\ U[y + 1] = a /\ Glue(U, W) = ls
  <2>1. /\ Append(F, a) \in Sheets /\ <<b>> \o D \in Sheets
        /\ Len(Append(F, a)) = Len(F) + 1 /\ Append(F, a)[Len(F) + 1] = a
        /\ Glue(Append(F, a), <<b>> \o D) = F \o <<a \o b>> \o D
    <3>1. F \in Seq(Seq(Chars)) /\ D \in Seq(Seq(Chars)) /\ a \in Seq(Chars) /\ b \in Seq(Chars)
      BY <1>1, <1>2
    <3>2. Append(F, a) \in Sheets
      BY <3>1, EndsGlued
    <3>3. <<b>> \o D \in Sheets
      BY <3>1, EndsGlued
    <3>4. Len(Append(F, a)) = Len(F) + 1 /\ Append(F, a)[Len(F) + 1] = a
      BY <3>1, EndsGlued
    <3>5. Glue(Append(F, a), <<b>> \o D) = F \o <<a \o b>> \o D
      BY <3>1, GlueEnds, ZenonT(40)
    <3> QED
      BY <3>2, <3>3, <3>4, <3>5
  <2> QED
    BY <1>1, <1>2, <1>3, <2>1
<1>5. Join(ls) = Join(U) \o Join(W)
  BY <1>4, JoinGlue
<1>6. Len(Join(U)) = Offset(ls, x, y)
  <2> DEFINE H == Append(F, <<>>)
  <2>1. <<>> \in Seq(Chars) /\ <<>> \o a = a
    BY <1>2, LinesAreTexts, ConcatEmptySeq
  <2>2. Join(Append(F, <<>> \o a)) = Join(H) \o a
    BY <1>1, <1>2, <2>1, JoinLast
  <2>3. H \in Sheets
    BY <1>1, <2>1, OneMoreLine
  <2>4. Join(H) \in Text /\ a \in Text
    BY <1>2, <2>3, JoinText, LinesAreTexts
  <2> HIDE DEF H
  <2>5. Len(Join(H) \o a) = Len(Join(H)) + Len(a)
    BY <2>4, ConcatIs DEF Text
  <2> QED
    BY <1>2, <1>3, <2>1, <2>2, <2>5 DEF Offset, H, F
<1> QED
  BY <1>2, <1>4, <1>5, <1>6 DEF U, W

LEMMA FirstOfSheet ==
    ASSUME NEW P \in Sheets
    PROVE  Drop(P, 1) \in Seq(Seq(Chars)) /\ P = <<P[1]>> \o Drop(P, 1) /\ Len(Drop(P, 1)) = Len(P) - 1
<1>1. Len(P) \in Nat /\ 0 < Len(P) /\ P[1] \in Seq(Chars) /\ P \in Seq(Seq(Chars))
  BY OfSheet
<1>2. /\ Drop(P, 0 + 1) \in Seq(Seq(Chars)) /\ Len(Drop(P, 0 + 1)) = Len(P) - 0 - 1
      /\ P = Take(P, 0) \o <<P[0 + 1]>> \o Drop(P, 0 + 1)
  BY <1>1, LineOf
<1>3. Take(P, 0) = <<>>
  BY <1>1, Extremes
<1>4. <<P[1]>> \in Seq(Seq(Chars))
  BY <1>1
<1>5. <<>> \o <<P[1]>> = <<P[1]>>
  BY <1>4, ConcatEmptySeq
<1>6. 0 + 1 = 1 /\ Len(P) - 0 - 1 = Len(P) - 1
  BY <1>1
<1> QED
  BY <1>2, <1>3, <1>5, <1>6

\* Where two sheets were made one they are cut again.
EndX(A) == Len(A[Len(A)])
EndY(A) == Len(A) - 1

LEMMA CutAgain ==
    ASSUME NEW A \in Sheets, NEW B \in Sheets
    PROVE  LET ls == Glue(A, B)
           IN /\ ls \in Sheets /\ OnSheet(ls, EndX(A), EndY(A))
              /\ Upper(ls, EndX(A), EndY(A)) = A /\ Lower(ls, EndX(A), EndY(A)) = B
              /\ Offset(ls, EndX(A), EndY(A)) = Len(Join(A))
<1> DEFINE F == Take(A, Len(A) - 1)  l == A[Len(A)]  m == B[1]  D == Drop(B, 1)  ls == Glue(A, B)
           x == EndX(A)  y == EndY(A)
<1>1. /\ F \in Seq(Seq(Chars)) /\ Len(F) = y /\ A = Append(F, l) /\ l \in Seq(Chars) /\ Len(l) = x
      /\ x \in Nat /\ y \in Nat
  BY LastOfSheet, OfSheet, LenProperties DEF EndX, EndY
<1>2. D \in Seq(Seq(Chars)) /\ B = <<m>> \o D /\ m \in Seq(Chars) /\ Len(m) \in Nat
  BY FirstOfSheet, OfSheet, LenProperties
<1> HIDE DEF F, l, m, D, x, y
<1> DEFINE X == l \o m
<1>3. /\ X \in Seq(Chars) /\ ls = F \o <<X>> \o D
  BY <1>1, <1>2, EndsGlued, ZenonT(40)
<1>4. Len(X) = x + Len(m)
  BY <1>1, <1>2, ConcatIs
<1>5. Take(X, x) = l /\ Drop(X, x) = m
  BY <1>1, <1>2, Parted
<1> HIDE DEF X, ls
<1>6. /\ ls \in Sheets /\ Len(ls) = y + 1 + Len(D) /\ Len(D) \in Nat
      /\ Take(ls, y) = F /\ ls[y + 1] = X /\ Drop(ls, y + 1) = D
  BY <1>1, <1>2, <1>3, Parts
<1>7. OnSheet(ls, x, y)
  BY <1>1, <1>2, <1>4, <1>6 DEF OnSheet
<1>8. Upper(ls, x, y) = A /\ Lower(ls, x, y) = B
  BY <1>1, <1>2, <1>5, <1>6 DEF Upper, Lower
<1>9. Len(Join(Upper(ls, x, y))) = Offset(ls, x, y)
  BY <1>6, <1>7, Halves
<1> QED
  BY <1>6, <1>7, <1>8, <1>9 DEF ls, x, y

----------------------------------------------------------------------------
(* Every edit makes one sheet of what is before it, what it puts, and what   *)
(* is behind it, and leaves the cursor behind what it put.                   *)

Around(A, B) == [lines |-> Glue(A, B), x |-> EndX(A), y |-> EndY(A)]

Documents == [lines : Sheets, x : Nat, y : Nat]
InDoc(d) == d \in Documents /\ OnSheet(d.lines, d.x, d.y)

LEMMA AroundIs ==
    ASSUME NEW A \in Sheets, NEW B \in Sheets
    PROVE  /\ InDoc(Around(A, B))
           /\ Join(Around(A, B).lines) = Join(A) \o Join(B)
           /\ Offset(Around(A, B).lines, Around(A, B).x, Around(A, B).y) = Len(Join(A))
<1>1. /\ Glue(A, B) \in Sheets /\ OnSheet(Glue(A, B), EndX(A), EndY(A))
      /\ Offset(Glue(A, B), EndX(A), EndY(A)) = Len(Join(A))
  BY CutAgain
<1>2. Join(Glue(A, B)) = Join(A) \o Join(B)
  BY JoinGlue
<1>3. EndX(A) \in Nat /\ EndY(A) \in Nat
  BY <1>1 DEF OnSheet
<1> QED
  BY <1>1, <1>2, <1>3 DEF Around, InDoc, Documents

LEMMA GlueAt ==
    ASSUME NEW ls \in Sheets, NEW x, NEW y, OnSheet(ls, x, y), NEW i, NEW j, OnSheet(ls, i, j)
    PROVE  /\ Glue(Upper(ls, x, y), Lower(ls, i, j))
              = Take(ls, y) \o <<Take(ls[y + 1], x) \o Drop(ls[j + 1], i)>> \o Drop(ls, j + 1)
           /\ EndX(Upper(ls, x, y)) = x /\ EndY(Upper(ls, x, y)) = y
<1> DEFINE F == Take(ls, y)  D == Drop(ls, j + 1)  a == Take(ls[y + 1], x)  b == Drop(ls[j + 1], i)
<1>1. F \in Seq(Seq(Chars)) /\ D \in Seq(Seq(Chars)) /\ ls[y + 1] \in Seq(Chars) /\ ls[j + 1] \in Seq(Chars)
  BY LineOf DEF OnSheet
<1>2. x \in 0..Len(ls[y + 1]) /\ i \in 0..Len(ls[j + 1])
  <2>1. Len(ls[y + 1]) \in Nat /\ Len(ls[j + 1]) \in Nat
    BY <1>1, LenProperties
  <2> QED
    BY <2>1 DEF OnSheet
<1>3. a \in Seq(Chars) /\ b \in Seq(Chars)
  BY <1>1, <1>2, TakeIs, DropIs
<1>4. Upper(ls, x, y) = Append(F, a) /\ Lower(ls, i, j) = <<b>> \o D
  BY DEF Upper, Lower
<1> HIDE DEF F, D, a, b
<1>5. Glue(Append(F, a), <<b>> \o D) = F \o <<a \o b>> \o D
  <2>1. F \in Seq(Seq(Chars)) /\ D \in Seq(Seq(Chars)) /\ a \in Seq(Chars) /\ b \in Seq(Chars)
    BY <1>1, <1>3
  <2> QED
    BY <2>1, GlueEnds, ZenonT(40)
<1>6. LET U == Upper(ls, x, y) IN Len(U) = y + 1 /\ Len(U[y + 1]) = x
  BY Halves
<1>7. (y + 1) - 1 = y
  BY DEF OnSheet
<1>8. EndX(Upper(ls, x, y)) = x /\ EndY(Upper(ls, x, y)) = y
  BY <1>6, <1>7 DEF EndX, EndY
<1> QED
  BY <1>4, <1>5, <1>8 DEF F, D, a, b

LEMMA ReplaceLine ==
    ASSUME NEW ls \in Sheets, NEW y \in Nat, y < Len(ls), NEW X \in Seq(Chars)
    PROVE  [ls EXCEPT ![y + 1] = X] = Take(ls, y) \o <<X>> \o Drop(ls, y + 1)
<1> DEFINE F == Take(ls, y)  D == Drop(ls, y + 1)  R == F \o <<X>> \o D  E == [ls EXCEPT ![y + 1] = X]  n == Len(ls)
<1>1. ls \in Seq(Seq(Chars)) /\ n \in Nat /\ y + 1 \in 1..n /\ y \in 0..n /\ y + 1 \in 0..n
  BY OfSheet
<1>2. E \in Seq(Seq(Chars)) /\ Len(E) = n /\ \A i \in 1..n : E[i] = IF i = y + 1 THEN X ELSE ls[i]
  BY <1>1, ExceptSeq
<1>3. /\ F \in Seq(Seq(Chars)) /\ Len(F) = y /\ D \in Seq(Seq(Chars)) /\ Len(D) = n - y - 1
      /\ \A i \in 1..y : F[i] = ls[i]
  BY <1>1, LineOf, TakeIs
<1>4. \A i \in 1..(n - (y + 1)) : D[i] = ls[y + 1 + i]
  BY <1>1, DropIs
<1> HIDE DEF F, D, E
<1>5. /\ R \in Sheets /\ Len(R) = Len(F) + 1 + Len(D)
      /\ Take(R, Len(F)) = F /\ R[Len(F) + 1] = X /\ Drop(R, Len(F) + 1) = D
  BY <1>3, Parts
<1> HIDE DEF R, n
<1>6. Len(R) = n /\ R \in Seq(Seq(Chars)) /\ Take(R, y) = F /\ R[y + 1] = X /\ Drop(R, y + 1) = D
      /\ n - (y + 1) = n - y - 1
  BY <1>1, <1>3, <1>5, OfSheet
<1>7. \A i \in 1..y : R[i] = F[i]
  BY <1>1, <1>6, TakeIs
<1>8. \A i \in 1..(n - (y + 1)) : D[i] = R[y + 1 + i]
  BY <1>1, <1>6, DropIs
<1>9. ASSUME NEW i \in 1..n PROVE E[i] = R[i]
  <2>1. i \in 1..y \/ i = y + 1 \/ (i - (y + 1) \in 1..(n - (y + 1)) /\ y + 1 + (i - (y + 1)) = i /\ i # y + 1)
    BY <1>1
  <2>2. CASE i \in 1..y
    <3>1. i # y + 1
      BY <1>1, <2>2
    <3> QED
      BY <1>2, <1>3, <1>7, <2>2, <3>1
  <2>3. CASE i = y + 1
    BY <1>2, <1>6, <2>3
  <2>4. CASE i - (y + 1) \in 1..(n - (y + 1)) /\ y + 1 + (i - (y + 1)) = i /\ i # y + 1
    <3>1. E[i] = ls[i]
      BY <1>2, <2>4
    <3>2. D[i - (y + 1)] = ls[i] /\ D[i - (y + 1)] = R[i]
      BY <1>4, <1>8, <2>4
    <3> QED
      BY <3>1, <3>2
  <2> QED
    BY <2>1, <2>2, <2>3, <2>4
<1>10. E = R
  BY <1>2, <1>6, <1>9, SameLines
<1> QED
  BY <1>10 DEF E, R, F, D

UpperOf(d) == Upper(d.lines, d.x, d.y)
LowerOf(d) == Lower(d.lines, d.x, d.y)

LEMMA DocIs ==
    ASSUME NEW d, InDoc(d)
    PROVE  /\ d.lines \in Sheets /\ d.x \in Nat /\ d.y \in Nat /\ OnSheet(d.lines, d.x, d.y)
           /\ d = [lines |-> d.lines, x |-> d.x, y |-> d.y]
           /\ UpperOf(d) \in Sheets /\ LowerOf(d) \in Sheets
           /\ EndX(UpperOf(d)) = d.x /\ EndY(UpperOf(d)) = d.y
<1>1. /\ d.lines \in Sheets /\ d.x \in Nat /\ d.y \in Nat /\ OnSheet(d.lines, d.x, d.y)
      /\ d = [lines |-> d.lines, x |-> d.x, y |-> d.y]
  BY DEF InDoc, Documents
<1>2. UpperOf(d) \in Sheets /\ LowerOf(d) \in Sheets
  BY <1>1, Halves DEF UpperOf, LowerOf
<1>3. EndX(UpperOf(d)) = d.x /\ EndY(UpperOf(d)) = d.y
  BY <1>1, GlueAt DEF UpperOf
<1> QED
  BY <1>1, <1>2, <1>3

\* Erasing what is between two places.
LEMMA SpliceIs ==
    ASSUME NEW ls \in Sheets, NEW x, NEW y, OnSheet(ls, x, y), NEW i, NEW j, OnSheet(ls, i, j)
    PROVE  Splice(ls, y, j + 1, <<Take(ls[y + 1], x) \o Drop(ls[j + 1], i)>>)
           = Glue(Upper(ls, x, y), Lower(ls, i, j))
<1> DEFINE U == Upper(ls, x, y)  W == Lower(ls, i, j)  X == Take(ls[y + 1], x) \o Drop(ls[j + 1], i)
<1>1. Glue(U, W) = Take(ls, y) \o <<X>> \o Drop(ls, j + 1) /\ EndX(U) = x /\ EndY(U) = y
  BY GlueAt
<1>2. Splice(ls, y, j + 1, <<X>>) = Take(ls, y) \o <<X>> \o Drop(ls, j + 1)
  BY DEF Splice
<1> QED
  BY <1>1, <1>2

LEMMA EraseInLine ==
    ASSUME NEW d, InDoc(d), NEW x, OnSheet(d.lines, x, d.y), NEW i, OnSheet(d.lines, i, d.y)
    PROVE  [d EXCEPT !.lines[d.y + 1] = Take(@, x) \o Drop(@, i), !.x = x]
           = Around(Upper(d.lines, x, d.y), Lower(d.lines, i, d.y))
<1> DEFINE ls == d.lines  y == d.y  l == ls[y + 1]  X == Take(l, x) \o Drop(l, i)
<1>1. ls \in Sheets /\ y \in Nat /\ y < Len(ls) /\ d = [lines |-> ls, x |-> d.x, y |-> y]
  BY DocIs DEF OnSheet
<1>2. l \in Seq(Chars) /\ Len(l) \in Nat
  BY <1>1, LineOf
<1>3. x \in 0..Len(l) /\ i \in 0..Len(l)
  BY <1>2 DEF OnSheet
<1>4. X \in Seq(Chars)
  <2>1. Take(l, x) \in Seq(Chars) /\ Drop(l, i) \in Seq(Chars)
    BY <1>2, <1>3, TakeIs, DropIs
  <2> QED
    BY <2>1, ConcatIs
<1>5. [ls EXCEPT ![y + 1] = X] = Take(ls, y) \o <<X>> \o Drop(ls, y + 1)
  <2> HIDE DEF X, ls, y
  <2> QED
    BY <1>1, <1>4, ReplaceLine
<1>6. [d EXCEPT !.lines[d.y + 1] = Take(@, x) \o Drop(@, i), !.x = x]
      = [lines |-> [ls EXCEPT ![y + 1] = X], x |-> x, y |-> y]
  <2>1. d \in Documents
    BY DEF InDoc
  <2> HIDE DEF X
  <2>2. [d EXCEPT !.lines[d.y + 1] = X, !.x = x] = [lines |-> [ls EXCEPT ![y + 1] = X], x |-> x, y |-> y]
    <3> HIDE DEF ls, y
    <3> DEFINE k == y + 1  c == d.x
    <3>1. d = [lines |-> ls, x |-> c, y |-> y] /\ d.y + 1 = k
      BY <1>1 DEF y
    <3> HIDE DEF k, c
    <3>2. [d EXCEPT !.lines[k] = X, !.x = x] = [lines |-> [ls EXCEPT ![k] = X], x |-> x, y |-> y]
      <4> DEFINE L == [ls EXCEPT ![k] = X]
      <4>1. [d EXCEPT !.lines[k] = X] = [lines |-> L, x |-> c, y |-> y]
        BY <3>1
      <4>2. [d EXCEPT !.lines[k] = X, !.x = x] = [[d EXCEPT !.lines[k] = X] EXCEPT !.x = x]
        BY <3>1
      <4> HIDE DEF L
      <4>3. [[lines |-> L, x |-> c, y |-> y] EXCEPT !.x = x] = [lines |-> L, x |-> x, y |-> y]
        OBVIOUS
      <4>4. [d EXCEPT !.lines[k] = X, !.x = x] = [lines |-> L, x |-> x, y |-> y]
        BY <4>1, <4>2, <4>3
      <4> QED
        BY <4>4 DEF L
    <3> QED
      BY <3>1, <3>2 DEF k
  <2> QED
    BY <2>2 DEF X
<1> DEFINE U == Upper(ls, x, y)  W == Lower(ls, i, y)
<1>7. Glue(U, W) = Take(ls, y) \o <<X>> \o Drop(ls, y + 1) /\ EndX(U) = x /\ EndY(U) = y
  <2>1. ls \in Sheets /\ OnSheet(ls, x, y) /\ OnSheet(ls, i, y)
    BY <1>1
  <2> HIDE DEF ls, y, l
  <2>2. Glue(U, W) = Take(ls, y) \o <<Take(ls[y + 1], x) \o Drop(ls[y + 1], i)>> \o Drop(ls, y + 1)
    BY <2>1, GlueAt
  <2>3. EndX(U) = x /\ EndY(U) = y
    BY <2>1, GlueAt
  <2> QED
    BY <2>2, <2>3 DEF l
<1>8. Around(U, W) = [lines |-> Glue(U, W), x |-> x, y |-> y]
  BY <1>7 DEF Around
<1> HIDE DEF U, W, X
<1>9. [d EXCEPT !.lines[d.y + 1] = Take(@, x) \o Drop(@, i), !.x = x] = Around(U, W)
  BY <1>5, <1>6, <1>7, <1>8
<1> QED
  BY <1>9 DEF U, W

\* The place one to the left, and one to the right, over the ends of lines.
LeftX(d) == IF d.x > 0 THEN d.x - 1 ELSE IF d.y > 0 THEN Len(Line(d, d.y - 1)) ELSE 0
LeftY(d) == IF d.x > 0 \/ d.y = 0 THEN d.y ELSE d.y - 1
RightX(d) == IF d.x < Len(Line(d, d.y)) THEN d.x + 1 ELSE IF d.y < Len(d.lines) - 1 THEN 0 ELSE d.x
RightY(d) == IF d.x < Len(Line(d, d.y)) \/ ~(d.y < Len(d.lines) - 1) THEN d.y ELSE d.y + 1

LEMMA Neighbours ==
    ASSUME NEW d, InDoc(d)
    PROVE  OnSheet(d.lines, LeftX(d), LeftY(d)) /\ OnSheet(d.lines, RightX(d), RightY(d))
<1> DEFINE ls == d.lines  x == d.x  y == d.y  n == Len(ls)
<1>1. ls \in Sheets /\ x \in Nat /\ y \in Nat /\ y < n /\ x <= Len(ls[y + 1])
  BY DocIs DEF OnSheet
<1> HIDE DEF x, y
<1>2. n \in Nat /\ \A k \in 1..n : Len(ls[k]) \in Nat
  BY <1>1, OfSheet
<1> HIDE DEF ls, n
<1>3. Len(ls[y + 1]) \in Nat
  <2>1. y + 1 \in 1..n
    BY <1>1, <1>2
  <2> QED
    BY <1>2, <2>1
<1>4. y > 0 => y - 1 \in Nat /\ y - 1 < n /\ Len(ls[(y - 1) + 1]) \in Nat
  <2> SUFFICES ASSUME y > 0 PROVE y - 1 \in Nat /\ y - 1 < n /\ Len(ls[(y - 1) + 1]) \in Nat
    OBVIOUS
  <2>1. y - 1 \in Nat /\ y - 1 < n /\ (y - 1) + 1 \in 1..n
    BY <1>1, <1>2
  <2> QED
    BY <1>2, <2>1
<1>5. y < n - 1 => y + 1 \in Nat /\ y + 1 < n /\ Len(ls[(y + 1) + 1]) \in Nat
  <2> SUFFICES ASSUME y < n - 1 PROVE y + 1 \in Nat /\ y + 1 < n /\ Len(ls[(y + 1) + 1]) \in Nat
    OBVIOUS
  <2>1. y + 1 \in Nat /\ y + 1 < n /\ (y + 1) + 1 \in 1..n
    BY <1>1, <1>2
  <2> QED
    BY <1>2, <2>1
<1> DEFINE k == Len(ls[(y - 1) + 1])
<1>6. /\ LeftX(d) = IF x > 0 THEN x - 1 ELSE IF y > 0 THEN k ELSE 0
      /\ LeftY(d) = IF x > 0 \/ y = 0 THEN y ELSE y - 1
      /\ RightX(d) = IF x < Len(ls[y + 1]) THEN x + 1 ELSE IF y < n - 1 THEN 0 ELSE x
      /\ RightY(d) = IF x < Len(ls[y + 1]) \/ ~(y < n - 1) THEN y ELSE y + 1
  BY DEF LeftX, LeftY, RightX, RightY, Line, ls, x, y, n
<1>7. OnSheet(ls, LeftX(d), LeftY(d))
  <2>1. CASE x > 0
    BY <1>1, <1>3, <1>6, <2>1 DEF OnSheet, n
  <2>2. CASE x = 0 /\ y > 0
    BY <1>4, <1>6, <2>2 DEF OnSheet, n
  <2>3. CASE x = 0 /\ y = 0
    BY <1>1, <1>6, <2>3 DEF OnSheet, n
  <2> QED
    BY <1>1, <2>1, <2>2, <2>3
<1>8. OnSheet(ls, RightX(d), RightY(d))
  <2>1. CASE x < Len(ls[y + 1])
    BY <1>1, <1>3, <1>6, <2>1 DEF OnSheet, n
  <2>2. CASE ~(x < Len(ls[y + 1])) /\ y < n - 1
    BY <1>5, <1>6, <2>2 DEF OnSheet, n
  <2>3. CASE ~(x < Len(ls[y + 1])) /\ ~(y < n - 1)
    BY <1>1, <1>6, <2>3 DEF OnSheet, n
  <2> QED
    BY <2>1, <2>2, <2>3
<1> QED
  BY <1>7, <1>8 DEF ls

LEMMA ErasedLeftIs ==
    ASSUME NEW d, InDoc(d)
    PROVE  ErasedLeft(d) = Around(Upper(d.lines, LeftX(d), LeftY(d)), LowerOf(d))
<1> DEFINE ls == d.lines
<1>1. ls \in Sheets /\ d.x \in Nat /\ d.y \in Nat /\ OnSheet(ls, d.x, d.y) /\ d.y < Len(ls)
      /\ d = [lines |-> ls, x |-> d.x, y |-> d.y]
  BY DocIs DEF OnSheet
<1>2. OnSheet(ls, LeftX(d), LeftY(d))
  BY Neighbours
<1>3. CASE d.x > 0
  <2>1. LeftX(d) = d.x - 1 /\ LeftY(d) = d.y
    BY <1>3 DEF LeftX, LeftY
  <2>2. [d EXCEPT !.lines[d.y + 1] = Take(@, d.x - 1) \o Drop(@, d.x), !.x = d.x - 1]
        = Around(Upper(ls, d.x - 1, d.y), Lower(ls, d.x, d.y))
    BY <1>1, <1>2, <2>1, EraseInLine
  <2> QED
    BY <1>3, <2>1, <2>2 DEF ErasedLeft, LowerOf
<1>4. CASE d.x = 0 /\ d.y > 0
  <2> DEFINE y == d.y - 1  l == ls[y + 1]  m == ls[d.y + 1]
  <2>1. LeftX(d) = Len(l) /\ LeftY(d) = y /\ y \in Nat /\ y < Len(ls) /\ y + 1 = d.y
    BY <1>1, <1>4 DEF LeftX, LeftY, Line
  <2>2. l \in Seq(Chars) /\ m \in Seq(Chars)
    BY <1>1, <2>1, LineOf
  <2>3. Take(l, Len(l)) = l /\ Drop(m, 0) = m
    BY <2>2, Extremes
  <2> HIDE DEF y, l, m
  <2>4. [lines |-> Splice(ls, y, d.y + 1, <<Take(ls[y + 1], Len(l)) \o Drop(ls[d.y + 1], 0)>>), x |-> Len(l), y |-> y]
        = Around(Upper(ls, Len(l), y), Lower(ls, 0, d.y))
    <3>1. OnSheet(ls, Len(l), y) /\ OnSheet(ls, 0, d.y)
      BY <1>1, <1>2, <1>4, <2>1
    <3> DEFINE k == d.y  w == Len(l)  o == 0
    <3>2. OnSheet(ls, w, y) /\ OnSheet(ls, o, k) /\ ls \in Sheets
      BY <1>1, <3>1
    <3> HIDE DEF ls, k, w, o
    <3>3. Splice(ls, y, k + 1, <<Take(ls[y + 1], w) \o Drop(ls[k + 1], o)>>) = Glue(Upper(ls, w, y), Lower(ls, o, k))
      BY <3>2, SpliceIs
    <3>4. EndX(Upper(ls, w, y)) = w /\ EndY(Upper(ls, w, y)) = y
      BY <3>2, GlueAt
    <3> QED
      BY <3>3, <3>4 DEF k, w, o, Around
  <2>5. ErasedLeft(d) = [lines |-> Splice(ls, y, d.y + 1, <<l \o m>>), x |-> Len(l), y |-> y]
    BY <1>1, <1>4 DEF ErasedLeft, Line, y, l, m
  <2> QED
    BY <1>4, <2>1, <2>3, <2>4, <2>5 DEF LowerOf, l, m
<1>5. CASE d.x = 0 /\ d.y = 0
  <2>1. LeftX(d) = d.x /\ LeftY(d) = d.y
    BY <1>5 DEF LeftX, LeftY
  <2>2. Glue(UpperOf(d), LowerOf(d)) = ls
    BY <1>1, Halves DEF UpperOf, LowerOf
  <2>3. Around(UpperOf(d), LowerOf(d)) = d
    BY <1>1, <2>2, DocIs DEF Around
  <2> QED
    BY <1>5, <2>1, <2>3 DEF ErasedLeft, UpperOf
<1> QED
  BY <1>1, <1>3, <1>4, <1>5

LEMMA ErasedRightIs ==
    ASSUME NEW d, InDoc(d)
    PROVE  ErasedRight(d) = Around(UpperOf(d), Lower(d.lines, RightX(d), RightY(d)))
<1> DEFINE ls == d.lines
<1>1. ls \in Sheets /\ d.x \in Nat /\ d.y \in Nat /\ OnSheet(ls, d.x, d.y) /\ d.y < Len(ls)
      /\ d = [lines |-> ls, x |-> d.x, y |-> d.y] /\ Len(ls) \in Nat
  BY DocIs, OfSheet DEF OnSheet
<1>2. OnSheet(ls, RightX(d), RightY(d))
  BY Neighbours
<1>3. CASE d.x < Len(Line(d, d.y))
  <2>1. RightX(d) = d.x + 1 /\ RightY(d) = d.y
    BY <1>3 DEF RightX, RightY
  <2> DEFINE x == d.x  i == d.x + 1  y == d.y  X == Take(ls[y + 1], x) \o Drop(ls[y + 1], i)
  <2>2. [d EXCEPT !.lines[d.y + 1] = Take(@, x) \o Drop(@, i), !.x = x] = Around(Upper(ls, x, y), Lower(ls, i, y))
    <3>1. OnSheet(ls, x, d.y) /\ OnSheet(ls, i, d.y)
      BY <1>1, <1>2, <2>1
    <3> HIDE DEF i, x
    <3> QED
      BY <3>1, EraseInLine
  <2>3. [d EXCEPT !.lines[d.y + 1] = X, !.x = x] = [d EXCEPT !.lines[d.y + 1] = X]
    <3> HIDE DEF X
    <3> DEFINE k == d.y + 1  L == [ls EXCEPT ![k] = X]  c == d.x  e == d.y
    <3>1. d = [lines |-> ls, x |-> c, y |-> e]
      BY <1>1
    <3> HIDE DEF k, ls, c, e
    <3>2. [d EXCEPT !.lines[k] = X] = [lines |-> L, x |-> c, y |-> e]
      BY <3>1
    <3>3. [d EXCEPT !.lines[k] = X, !.x = c] = [[d EXCEPT !.lines[k] = X] EXCEPT !.x = c]
      BY <3>1
    <3> HIDE DEF L
    <3>4. [[lines |-> L, x |-> c, y |-> e] EXCEPT !.x = c] = [lines |-> L, x |-> c, y |-> e]
      OBVIOUS
    <3> QED
      BY <3>2, <3>3, <3>4 DEF k, c
  <2>4. ErasedRight(d) = [d EXCEPT !.lines[d.y + 1] = X]
    BY <1>3 DEF ErasedRight
  <2> QED
    BY <2>1, <2>2, <2>3, <2>4 DEF UpperOf
<1>4. CASE ~(d.x < Len(Line(d, d.y))) /\ d.y < Len(ls) - 1
  <2> DEFINE x == d.x  y == d.y  k == d.y + 1  l == ls[y + 1]  m == ls[k + 1]  o == 0
  <2>1. RightX(d) = 0 /\ RightY(d) = k /\ k \in Nat /\ k < Len(ls) /\ y \in Nat /\ y < Len(ls) /\ k + 1 = d.y + 2
    BY <1>1, <1>4 DEF RightX, RightY
  <2>2. l \in Seq(Chars) /\ m \in Seq(Chars) /\ Len(l) \in Nat
    <3> HIDE DEF k
    <3> QED
      BY <1>1, <2>1, LineOf
  <2>3. x = Len(l)
    BY <1>1, <1>4, <2>2 DEF OnSheet, Line
  <2>4. Take(l, x) = l /\ Drop(m, o) = m
    BY <2>2, <2>3, Extremes
  <2>5. OnSheet(ls, x, y) /\ OnSheet(ls, o, k) /\ ls \in Sheets
    BY <1>1, <1>2, <2>1
  <2>6. ErasedRight(d) = [d EXCEPT !.lines = Splice(@, y, y + 2, <<l \o m>>)]
    BY <1>4 DEF ErasedRight, Line
  <2> HIDE DEF x, y, k, l, m, o, ls
  <2>7. Splice(ls, y, k + 1, <<Take(ls[y + 1], x) \o Drop(ls[k + 1], o)>>) = Glue(Upper(ls, x, y), Lower(ls, o, k))
    BY <2>5, SpliceIs
  <2>8. EndX(Upper(ls, x, y)) = x /\ EndY(Upper(ls, x, y)) = y
    BY <2>5, GlueAt
  <2> DEFINE L == Splice(ls, y, y + 2, <<l \o m>>)
  <2>9. Around(Upper(ls, x, y), Lower(ls, o, k)) = [lines |-> L, x |-> x, y |-> y]
    BY <2>1, <2>4, <2>7, <2>8 DEF Around, l, m, y
  <2>10. d = [lines |-> ls, x |-> x, y |-> y] /\ d.lines = ls
    BY <1>1 DEF ls, x, y
  <2> HIDE DEF L
  <2>11. [d EXCEPT !.lines = L] = [lines |-> L, x |-> x, y |-> y]
    BY <2>10
  <2>12. ErasedRight(d) = [lines |-> L, x |-> x, y |-> y]
    BY <2>6, <2>10, <2>11 DEF L
  <2> QED
    BY <2>1, <2>9, <2>12 DEF UpperOf, ls, x, y, o
<1>5. CASE ~(d.x < Len(Line(d, d.y))) /\ ~(d.y < Len(ls) - 1)
  <2>1. RightX(d) = d.x /\ RightY(d) = d.y
    BY <1>5 DEF RightX, RightY
  <2>2. Glue(UpperOf(d), LowerOf(d)) = ls
    BY <1>1, Halves DEF UpperOf, LowerOf
  <2>3. Around(UpperOf(d), LowerOf(d)) = d
    BY <1>1, <2>2, DocIs DEF Around
  <2> QED
    BY <1>5, <2>1, <2>3 DEF ErasedRight, LowerOf
<1> QED
  BY <1>3, <1>4, <1>5

\* Both ends of a selection are places of the document, and a selection in
\* one line has the cursor's line.
InPlace(d, s) ==
    /\ OnSheet(d.lines, s.sx, s.sy) /\ OnSheet(d.lines, s.ex, s.ey)
    /\ s.sy = s.ey => s.sy = d.y

LEMMA BoundsIs ==
    ASSUME NEW d, NEW s, InPlace(d, s)
    PROVE  LET b == SelectionBounds(s)
           IN /\ OnSheet(d.lines, b.sx, b.sy) /\ OnSheet(d.lines, b.ex, b.ey)
              /\ b.sy = b.ey => b.sy = d.y /\ b.sx <= b.ex
              /\ b.sy <= b.ey
<1>1. s.sx \in Nat /\ s.sy \in Nat /\ s.ex \in Nat /\ s.ey \in Nat
  BY DEF InPlace, OnSheet
<1>2. CASE s.sy > s.ey \/ (s.sy = s.ey /\ s.sx > s.ex)
  BY <1>1, <1>2 DEF SelectionBounds, InPlace
<1>3. CASE ~(s.sy > s.ey \/ (s.sy = s.ey /\ s.sx > s.ex))
  BY <1>1, <1>3 DEF SelectionBounds, InPlace
<1> QED
  BY <1>2, <1>3

LEMMA DeletedIs ==
    ASSUME NEW d, d.lines \in Sheets, NEW s, InPlace(d, s)
    PROVE  LET b == SelectionBounds(s)
           IN Deleted(d, s) = Around(Upper(d.lines, b.sx, b.sy), Lower(d.lines, b.ex, b.ey))
<1> DEFINE b == SelectionBounds(s)  ls == d.lines  x == b.sx  y == b.sy  i == b.ex  j == b.ey
<1>1. OnSheet(ls, x, y) /\ OnSheet(ls, i, j) /\ (y = j => y = d.y) /\ ls \in Sheets
  BY BoundsIs
<1>2. Deleted(d, s) = [lines |-> Splice(ls, y, j + 1, <<Take(ls[y + 1], x) \o Drop(ls[j + 1], i)>>),
                       x |-> x, y |-> IF y = j THEN d.y ELSE y]
  BY DEF Deleted, Line
<1>3. (IF y = j THEN d.y ELSE y) = y
  BY <1>1
<1> HIDE DEF ls, x, y, i, j
<1>4. Splice(ls, y, j + 1, <<Take(ls[y + 1], x) \o Drop(ls[j + 1], i)>>) = Glue(Upper(ls, x, y), Lower(ls, i, j))
  BY <1>1, SpliceIs
<1>5. EndX(Upper(ls, x, y)) = x /\ EndY(Upper(ls, x, y)) = y
  BY <1>1, GlueAt
<1>6. Deleted(d, s) = Around(Upper(ls, x, y), Lower(ls, i, j))
  BY <1>2, <1>3, <1>4, <1>5 DEF Around
<1> QED
  BY <1>6 DEF ls, x, y, i, j

LEMMA EndsOf ==
    ASSUME NEW F \in Seq(Seq(Chars)), NEW l \in Seq(Chars)
    PROVE  Append(F, l) \in Sheets /\ EndX(Append(F, l)) = Len(l) /\ EndY(Append(F, l)) = Len(F)
<1>1. Append(F, l) \in Sheets /\ Len(Append(F, l)) = Len(F) + 1 /\ Append(F, l)[Len(F) + 1] = l
  BY OneMoreLine
<1>2. Len(F) + 1 - 1 = Len(F)
  BY LenProperties
<1> QED
  BY <1>1, <1>2 DEF EndX, EndY

Halved == << <<>>, <<>> >>

LEMMA TwoLines ==
    ASSUME NEW a \in Seq(Chars), NEW b \in Seq(Chars)
    PROVE  Append(<<a>>, b) = <<a, b>>
<1> DEFINE P == <<a>>  A == Append(P, b)  B == <<a, b>>
<1>1. P \in Seq(Seq(Chars)) /\ Len(P) = 1 /\ P[1] = a
  OBVIOUS
<1> HIDE DEF P
<1>2. A \in Sheets /\ Len(A) = Len(P) + 1 /\ A[Len(P) + 1] = b /\ \A i \in 1..Len(P) : A[i] = P[i]
  BY <1>1, OneMoreLine
<1>3. B \in Seq(Seq(Chars)) /\ Len(B) = 2 /\ B[1] = a /\ B[2] = b
  OBVIOUS
<1> HIDE DEF A, B
<1>4. A \in Seq(Seq(Chars)) /\ Len(A) = 2 /\ A[1] = a /\ A[2] = b
  BY <1>1, <1>2, OfSheet
<1>5. \A i \in 1..2 : A[i] = B[i]
  BY <1>3, <1>4
<1>6. A = B
  BY <1>3, <1>4, <1>5, SameLines
<1> QED
  BY <1>6 DEF A, B, P

LEMMA BrokenIs ==
    ASSUME NEW d, InDoc(d)
    PROVE  /\ Halved \in Sheets /\ Join(Halved) = <<NL>>
           /\ Broken(d) = Around(Glue(UpperOf(d), Halved), LowerOf(d))
<1> DEFINE e == <<>>  ls == d.lines  x == d.x  y == d.y  F == Take(ls, y)  D == Drop(ls, y + 1)
           a == Take(ls[y + 1], x)  b == Drop(ls[y + 1], x)  G == Append(F, a)  one == <<e>>
<1>1. ls \in Sheets /\ x \in Nat /\ y \in Nat /\ y < Len(ls) /\ x <= Len(ls[y + 1])
  BY DocIs DEF OnSheet
<1>2. /\ F \in Seq(Seq(Chars)) /\ Len(F) = y /\ D \in Seq(Seq(Chars)) /\ ls[y + 1] \in Seq(Chars)
  BY <1>1, LineOf
<1>3. a \in Seq(Chars) /\ b \in Seq(Chars)
  <2>1. x \in 0..Len(ls[y + 1])
    BY <1>1, <1>2, LenProperties
  <2> QED
    BY <1>2, <2>1, TakeIs, DropIs
<1>4. e \in Seq(Chars) /\ one \in Sheets /\ one \in Seq(Seq(Chars)) /\ Join(one) = e
  BY LinesAreTexts, OneLine, OfSheet, JoinOne
<1>5. Halved = Append(one, e) /\ Halved = <<e>> \o one
  BY <1>4 DEF Halved
<1>6. Halved \in Sheets
  BY <1>4, <1>5, OneMoreLine
<1>7. Join(Halved) = <<NL>>
  <2> HIDE DEF e, one
  <2>1. Join(Halved) = (e \o <<NL>>) \o e
    BY <1>4, <1>5, JoinMore
  <2>2. <<NL>> \in Text
    BY LinesAreTexts
  <2>3. e \o <<NL>> = <<NL>> /\ <<NL>> \o e = <<NL>>
    BY <2>2, ConcatEmptySeq DEF Text, e
  <2> QED
    BY <2>1, <2>3
<1>8. UpperOf(d) = G /\ LowerOf(d) = <<b>> \o D
  BY DEF UpperOf, LowerOf, Upper, Lower
<1>9. Broken(d) = [lines |-> F \o <<a, b>> \o D, x |-> 0, y |-> y + 1]
  BY DEF Broken, Splice, LeftOf, RightOf, Line
<1> HIDE DEF e, one, F, D, a, b, ls, x, y
<1>10. Glue(G, Halved) = Append(G, e)
  <2>1. Glue(Append(F, a), <<e>> \o one) = F \o <<a \o e>> \o one
    <3>1. F \in Seq(Seq(Chars)) /\ one \in Seq(Seq(Chars)) /\ a \in Seq(Chars) /\ e \in Seq(Chars)
      BY <1>2, <1>3, <1>4
    <3> QED
      BY <3>1, GlueEnds, ZenonT(40)
  <2>2. a \o e = a
    BY <1>3, ConcatEmptySeq DEF e
  <2>3. G = F \o <<a>> /\ G \in Seq(Seq(Chars))
    BY <1>2, <1>3, AppendIsConcat, AppendProperties
  <2>4. Append(G, e) = G \o one
    <3> HIDE DEF G
    <3> QED
      BY <1>4, <2>3, AppendIsConcat DEF one
  <2> QED
    BY <1>5, <2>1, <2>2, <2>3, <2>4
<1>11. G \in Seq(Seq(Chars)) /\ Len(G) = y + 1 /\ G = F \o <<a>>
  BY <1>2, <1>3, AppendIsConcat, AppendProperties
<1> HIDE DEF G
<1>12. Glue(Append(G, e), <<b>> \o D) = F \o <<a, b>> \o D
  <2>1. Glue(Append(G, e), <<b>> \o D) = G \o <<e \o b>> \o D
    <3>1. G \in Seq(Seq(Chars)) /\ e \in Seq(Chars) /\ b \in Seq(Chars) /\ D \in Seq(Seq(Chars))
      BY <1>2, <1>3, <1>4, <1>11
    <3> QED
      BY <3>1, GlueEnds, ZenonT(40)
  <2>2. e \o b = b
    BY <1>3, ConcatEmptySeq DEF e
  <2>3. <<a>> \in Seq(Seq(Chars)) /\ <<b>> \in Seq(Seq(Chars)) /\ <<a>> \o <<b>> = <<a, b>>
    <3>1. <<a>> \in Seq(Seq(Chars)) /\ <<b>> \in Seq(Seq(Chars))
      BY <1>3
    <3>2. Append(<<a>>, b) = <<a, b>>
      BY TwoLines, <1>3
    <3>3. Append(<<a>>, b) = <<a>> \o <<b>>
      BY <1>3, <3>1, AppendIsConcat
    <3> QED
      BY <3>1, <3>2, <3>3
  <2>4. (F \o <<a>>) \o <<b>> = F \o (<<a>> \o <<b>>)
    BY <1>2, <2>3, ConcatAssociative
  <2> QED
    BY <1>11, <2>1, <2>2, <2>3, <2>4
<1>13. EndX(Append(G, e)) = 0 /\ EndY(Append(G, e)) = y + 1
  <2>1. EndX(Append(G, e)) = Len(e) /\ EndY(Append(G, e)) = Len(G)
    BY <1>4, <1>11, EndsOf
  <2> QED
    BY <1>11, <2>1 DEF e
<1>14. Around(Glue(G, Halved), <<b>> \o D) = [lines |-> F \o <<a, b>> \o D, x |-> 0, y |-> y + 1]
  BY <1>10, <1>12, <1>13 DEF Around
<1> QED
  BY <1>6, <1>7, <1>8, <1>9, <1>14
\* What is pasted: its first line, those between, its last.
LEMMA MiddleOf ==
    ASSUME NEW P \in Sheets, Len(P) >= 2
    PROVE  LET n == Len(P)  M == SubSeq(P, 2, n - 1)
           IN /\ M \in Seq(Seq(Chars)) /\ Len(M) = n - 2 /\ P = <<P[1]>> \o Append(M, P[n])
<1> DEFINE n == Len(P)  M == SubSeq(P, 2, n - 1)  E == Drop(P, 1)  z == P[n]  A == Append(M, z)
<1>1. n \in Nat /\ n >= 2 /\ P \in Seq(Seq(Chars)) /\ z \in Seq(Chars) /\ \A i \in 1..n : P[i] \in Seq(Chars)
  BY OfSheet
<1>2. E \in Seq(Seq(Chars)) /\ P = <<P[1]>> \o E /\ Len(E) = n - 1
  BY FirstOfSheet
<1>3. \A i \in 1..(n - 1) : E[i] = P[1 + i]
  <2> DEFINE o == 1
  <2>1. o \in 0..Len(P) /\ P \in Seq(Seq(Chars))
    BY <1>1
  <2> HIDE DEF o
  <2>2. \A i \in 1..(Len(P) - o) : Drop(P, o)[i] = P[o + i]
    BY <2>1, DropIs
  <2> QED
    BY <2>2 DEF o
<1>4. /\ M \in Seq(Seq(Chars)) /\ Len(M) = (IF 2 <= n - 1 THEN n - 1 - 2 + 1 ELSE 0)
      /\ \A i \in 1..(n - 1 - 2 + 1) : M[i] = P[2 + i - 1]
  <2>1. 2 \in Int /\ n - 1 \in Int /\ \A i \in 2..(n - 1) : P[i] \in Seq(Chars)
    BY <1>1
  <2> HIDE DEF n
  <2> QED
    BY <2>1, SubSeqProperties
<1>5. Len(M) = n - 2 /\ \A i \in 1..(n - 2) : M[i] = P[1 + i]
  <2> HIDE DEF n, M
  <2>1. ASSUME NEW i \in 1..(n - 2) PROVE M[i] = P[1 + i]
    <3>1. i \in 1..(n - 1 - 2 + 1) /\ 2 + i - 1 = 1 + i
      BY <1>1
    <3>2. M[i] = P[2 + i - 1]
      BY <1>4, <3>1
    <3> QED
      BY <3>1, <3>2
  <2>2. (IF 2 <= n - 1 THEN n - 1 - 2 + 1 ELSE 0) = n - 2
    BY <1>1
  <2> QED
    BY <1>4, <2>1, <2>2
<1>6. A \in Sheets /\ Len(A) = Len(M) + 1 /\ A[Len(M) + 1] = z /\ \A i \in 1..Len(M) : A[i] = M[i]
  BY <1>1, <1>4, OneMoreLine
<1> HIDE DEF n, M, E, z, A
<1>7. Len(A) = n - 1 /\ A[n - 1] = z /\ \A i \in 1..(n - 2) : A[i] = M[i]
  BY <1>1, <1>5, <1>6
<1>8. \A i \in 1..(n - 1) : A[i] = E[i]
  <2> SUFFICES ASSUME NEW i \in 1..(n - 1) PROVE A[i] = E[i]
    OBVIOUS
  <2>1. i \in 1..(n - 2) \/ i = n - 1
    BY <1>1
  <2>2. CASE i \in 1..(n - 2)
    BY <1>3, <1>5, <1>7, <2>2
  <2>3. CASE i = n - 1
    <3>1. 1 + i = n
      BY <1>1, <2>3
    <3> QED
      BY <1>3, <1>7, <2>3, <3>1 DEF z
  <2> QED
    BY <2>1, <2>2, <2>3
<1>9. A = E
  BY <1>2, <1>6, <1>7, <1>8, SameLines, OfSheet
<1> QED
  BY <1>2, <1>4, <1>5, <1>9 DEF A, M, z, n

LEMMA PastedOne ==
    ASSUME NEW d, InDoc(d), NEW t \in Seq(Chars)
    PROVE  [d EXCEPT !.lines[d.y + 1] = LeftOf(d) \o t \o RightOf(d), !.x = @ + Len(t)]
           = Around(Glue(UpperOf(d), <<t>>), LowerOf(d))
<1> DEFINE ls == d.lines  x == d.x  y == d.y  F == Take(ls, y)  D == Drop(ls, y + 1)
           a == Take(ls[y + 1], x)  b == Drop(ls[y + 1], x)  c == a \o t  X == c \o b
<1>1. /\ ls \in Sheets /\ x \in Nat /\ y \in Nat /\ y < Len(ls) /\ x <= Len(ls[y + 1])
      /\ d = [lines |-> ls, x |-> x, y |-> y]
  BY DocIs DEF OnSheet
<1>2. /\ F \in Seq(Seq(Chars)) /\ Len(F) = y /\ D \in Seq(Seq(Chars)) /\ ls[y + 1] \in Seq(Chars)
  BY <1>1, LineOf
<1>3. a \in Seq(Chars) /\ b \in Seq(Chars) /\ Len(a) = x
  <2>1. x \in 0..Len(ls[y + 1])
    BY <1>1, <1>2, LenProperties
  <2> QED
    BY <1>2, <2>1, TakeIs, DropIs
<1>4. UpperOf(d) = Append(F, a) /\ LowerOf(d) = <<b>> \o D /\ LeftOf(d) \o t \o RightOf(d) = X
  BY DEF UpperOf, LowerOf, Upper, Lower, LeftOf, RightOf, Line
<1> HIDE DEF F, D, a, b
<1>5. c \in Seq(Chars) /\ Len(c) = x + Len(t)
  BY <1>3, ConcatIs
<1>6. Glue(Append(F, a), <<t>>) = Append(F, c)
  <2> DEFINE none == <<>>
  <2>1. none \in Seq(Seq(Chars)) /\ <<t>> \in Seq(Seq(Chars)) /\ <<c>> \in Seq(Seq(Chars))
    BY <1>5
  <2>2. <<t>> \o none = <<t>>
    BY <2>1, ConcatEmptySeq
  <2>3. (F \o <<c>>) \o none = F \o <<c>>
    <3>1. F \o <<c>> \in Seq(Seq(Chars))
      BY <1>2, <2>1, ConcatIs
    <3> QED
      BY <3>1, ConcatEmptySeq
  <2> HIDE DEF none
  <2>4. Glue(Append(F, a), <<t>> \o none) = F \o <<c>> \o none
    <3>1. F \in Seq(Seq(Chars)) /\ none \in Seq(Seq(Chars)) /\ a \in Seq(Chars) /\ t \in Seq(Chars)
      BY <1>2, <1>3, <2>1
    <3> QED
      BY <3>1, GlueEnds, ZenonT(40)
  <2>5. Append(F, c) = F \o <<c>>
    BY <1>2, <1>5, AppendIsConcat
  <2> QED
    BY <2>2, <2>3, <2>4, <2>5
<1> HIDE DEF c
<1>7. Glue(Append(F, c), <<b>> \o D) = F \o <<X>> \o D
  <2>1. F \in Seq(Seq(Chars)) /\ D \in Seq(Seq(Chars)) /\ c \in Seq(Chars) /\ b \in Seq(Chars)
    BY <1>2, <1>3, <1>5
  <2> QED
    BY <2>1, GlueEnds, ZenonT(40)
<1>8. EndX(Append(F, c)) = x + Len(t) /\ EndY(Append(F, c)) = y
  BY <1>2, <1>5, EndsOf
<1>9. X \in Seq(Chars)
  BY <1>3, <1>5, ConcatIs
<1> DEFINE w == x + Len(t)
<1> HIDE DEF X, w
<1>10. [ls EXCEPT ![y + 1] = X] = F \o <<X>> \o D
  <2> HIDE DEF ls, y
  <2> QED
    BY <1>1, <1>9, ReplaceLine DEF F, D
<1>11. [d EXCEPT !.lines[d.y + 1] = X, !.x = @ + Len(t)] = [lines |-> [ls EXCEPT ![y + 1] = X], x |-> w, y |-> y]
  <2> DEFINE k == y + 1
  <2>1. d = [lines |-> ls, x |-> x, y |-> y] /\ d.y + 1 = k /\ d.x + Len(t) = w
    BY <1>1 DEF w
  <2> HIDE DEF ls, x, y, k
  <2>2. [d EXCEPT !.lines[d.y + 1] = X, !.x = @ + Len(t)] = [d EXCEPT !.lines[k] = X, !.x = w]
    BY <2>1
  <2> DEFINE L == [ls EXCEPT ![k] = X]
  <2>3. [d EXCEPT !.lines[k] = X] = [lines |-> L, x |-> x, y |-> y]
    BY <2>1
  <2>4. [d EXCEPT !.lines[k] = X, !.x = w] = [[d EXCEPT !.lines[k] = X] EXCEPT !.x = w]
    BY <2>1
  <2> HIDE DEF L
  <2>5. [[lines |-> L, x |-> x, y |-> y] EXCEPT !.x = w] = [lines |-> L, x |-> w, y |-> y]
    OBVIOUS
  <2> QED
    BY <2>2, <2>3, <2>4, <2>5 DEF L, k
<1>12. Around(Append(F, c), <<b>> \o D) = [lines |-> F \o <<X>> \o D, x |-> w, y |-> y]
  BY <1>7, <1>8 DEF Around, w
<1> QED
  BY <1>4, <1>6, <1>10, <1>11, <1>12

LEMMA Assoc ==
    \A F, G, H \in Seq(Seq(Chars)) : (F \o G) \o H = F \o (G \o H) /\ F \o G \in Seq(Seq(Chars))
<1> SUFFICES ASSUME NEW F \in Seq(Seq(Chars)), NEW G \in Seq(Seq(Chars)), NEW H \in Seq(Seq(Chars))
             PROVE  (F \o G) \o H = F \o (G \o H) /\ F \o G \in Seq(Seq(Chars))
  OBVIOUS
<1>1. (F \o G) \o H = F \o (G \o H)
  <2> DEFINE T == Seq(Chars)
  <2>1. F \in Seq(T) /\ G \in Seq(T) /\ H \in Seq(T)
    OBVIOUS
  <2> HIDE DEF T
  <2> QED
    BY <2>1, ConcatAssociative, SMTT(30)
<1>2. F \o G \in Seq(Seq(Chars))
  BY ConcatProperties
<1> QED
  BY <1>1, <1>2

LEMMA PastedMore ==
    ASSUME NEW d, InDoc(d), NEW P \in Sheets, Len(P) >= 2
    PROVE  LET n == Len(P)
           IN [lines |-> Splice(d.lines, d.y, d.y + 1,
                                <<LeftOf(d) \o P[1]>> \o SubSeq(P, 2, n - 1) \o <<P[n] \o RightOf(d)>>),
               x |-> Len(P[n]), y |-> d.y + n - 1]
              = Around(Glue(UpperOf(d), P), LowerOf(d))
<1> DEFINE ls == d.lines  x == d.x  y == d.y  F == Take(ls, y)  D == Drop(ls, y + 1)
           a == Take(ls[y + 1], x)  b == Drop(ls[y + 1], x)
           n == Len(P)  w == P[1]  M == SubSeq(P, 2, n - 1)  z == P[n]
           p == a \o w  q == z \o b  S == F \o <<p>>  G == S \o M
<1>1. /\ ls \in Sheets /\ x \in Nat /\ y \in Nat /\ y < Len(ls) /\ x <= Len(ls[y + 1])
  BY DocIs DEF OnSheet
<1>2. /\ F \in Seq(Seq(Chars)) /\ Len(F) = y /\ D \in Seq(Seq(Chars)) /\ ls[y + 1] \in Seq(Chars)
  BY <1>1, LineOf
<1>3. a \in Seq(Chars) /\ b \in Seq(Chars)
  <2>1. x \in 0..Len(ls[y + 1])
    BY <1>1, <1>2, LenProperties
  <2> QED
    BY <1>2, <2>1, TakeIs, DropIs
<1>4. /\ n \in Nat /\ n >= 2 /\ w \in Seq(Chars) /\ z \in Seq(Chars)
      /\ M \in Seq(Seq(Chars)) /\ Len(M) = n - 2 /\ P = <<w>> \o Append(M, z)
  BY MiddleOf, OfSheet
<1>5. UpperOf(d) = Append(F, a) /\ LowerOf(d) = <<b>> \o D /\ LeftOf(d) = a /\ RightOf(d) = b
  BY DEF UpperOf, LowerOf, Upper, Lower, LeftOf, RightOf, Line
<1>6. Splice(ls, y, y + 1, <<p>> \o M \o <<q>>) = F \o (<<p>> \o M \o <<q>>) \o D
  BY DEF Splice
<1> HIDE DEF F, D, a, b, n, w, M, z
<1>7. p \in Seq(Chars) /\ q \in Seq(Chars)
  BY <1>3, <1>4, ConcatIs
<1>8. <<p>> \in Seq(Seq(Chars)) /\ <<q>> \in Seq(Seq(Chars)) /\ Len(<<p>>) = 1 /\ <<z>> \in Seq(Seq(Chars))
  BY <1>4, <1>7
<1> HIDE DEF p, q
<1>9. S \in Seq(Seq(Chars)) /\ Len(S) = y + 1
  BY <1>2, <1>8, ConcatIs, SMTT(30)
<1> HIDE DEF S
<1>10. G \in Seq(Seq(Chars)) /\ Len(G) = y + n - 1
  <2>1. G \in Seq(Seq(Chars)) /\ Len(G) = Len(S) + Len(M)
    BY <1>4, <1>9, ConcatIs
  <2> QED
    BY <1>1, <1>4, <1>9, <2>1, SMTT(30)
<1> HIDE DEF G
<1>11. Glue(Append(F, a), P) = Append(G, z)
  <2> DEFINE E == Append(M, z)
  <2>1. E \in Seq(Seq(Chars)) /\ E = M \o <<z>>
    BY <1>4, AppendProperties, AppendIsConcat
  <2> HIDE DEF E
  <2>2. Glue(Append(F, a), <<w>> \o E) = F \o <<a \o w>> \o E
    <3>1. F \in Seq(Seq(Chars)) /\ E \in Seq(Seq(Chars)) /\ a \in Seq(Chars) /\ w \in Seq(Chars)
      BY <1>2, <1>3, <1>4, <2>1
    <3> QED
      BY <3>1, GlueEnds, ZenonT(40)
  <2>3. S \o (M \o <<z>>) = (S \o M) \o <<z>>
    <3>1. S \in Seq(Seq(Chars)) /\ M \in Seq(Seq(Chars)) /\ <<z>> \in Seq(Seq(Chars))
      BY <1>4, <1>8, <1>9
    <3> QED
      BY <3>1, Assoc, ZenonT(40)
  <2>4. Append(G, z) = G \o <<z>>
    BY <1>4, <1>10, AppendIsConcat
  <2> QED
    BY <1>4, <2>1, <2>2, <2>3, <2>4 DEF G, S, p, E
<1>12. Glue(Append(G, z), <<b>> \o D) = G \o <<q>> \o D
  <2>1. G \in Seq(Seq(Chars)) /\ D \in Seq(Seq(Chars)) /\ z \in Seq(Chars) /\ b \in Seq(Chars)
    BY <1>2, <1>3, <1>4, <1>10
  <2> QED
    BY <2>1, GlueEnds, ZenonT(40) DEF q
<1>13. G \o <<q>> = F \o (<<p>> \o M \o <<q>>)
  <2>1. (F \o <<p>>) \o M = F \o (<<p>> \o M) /\ <<p>> \o M \in Seq(Seq(Chars))
    <3>1. F \in Seq(Seq(Chars)) /\ <<p>> \in Seq(Seq(Chars)) /\ M \in Seq(Seq(Chars))
      BY <1>2, <1>4, <1>8
    <3> QED
      BY <3>1, Assoc, ZenonT(40)
  <2>2. (F \o (<<p>> \o M)) \o <<q>> = F \o ((<<p>> \o M) \o <<q>>)
    <3>1. F \in Seq(Seq(Chars)) /\ <<p>> \o M \in Seq(Seq(Chars)) /\ <<q>> \in Seq(Seq(Chars))
      BY <1>2, <1>8, <2>1
    <3> QED
      BY <3>1, Assoc, ZenonT(40)
  <2> QED
    BY <2>1, <2>2 DEF G, S
<1>14. EndX(Append(G, z)) = Len(z) /\ EndY(Append(G, z)) = y + n - 1
  BY <1>4, <1>10, EndsOf
<1>15. Around(Append(G, z), <<b>> \o D) = [lines |-> G \o <<q>> \o D, x |-> Len(z), y |-> y + n - 1]
  BY <1>12, <1>14 DEF Around
<1> HIDE DEF ls, x, y
<1>16. [lines |-> Splice(ls, y, y + 1, <<p>> \o M \o <<q>>), x |-> Len(z), y |-> y + n - 1]
       = Around(Glue(UpperOf(d), P), LowerOf(d))
  BY <1>5, <1>6, <1>11, <1>13, <1>15
<1> QED
  BY <1>5, <1>16 DEF p, q, M, w, z, n, ls, y

LEMMA PastedIs ==
    ASSUME NEW d, InDoc(d), NEW t \in Text
    PROVE  Pasted(d, t) = Around(Glue(UpperOf(d), Split(t)), LowerOf(d))
<1> DEFINE P == Split(t)
<1>1. P \in Sheets /\ Join(P) = t /\ Len(P) \in Nat /\ Len(P) >= 1
  BY SplitMore, OfSheet
<1>2. CASE Len(P) = 1
  <2>1. P[1] \in Seq(Chars) /\ P \in Seq(Seq(Chars))
    BY <1>1, OfSheet
  <2>2. P = <<P[1]>>
    <3> HIDE DEF P
    <3> QED
      BY <1>1, <1>2, <2>1, OneLine, OfSheet, SameLines
  <2>3. t = P[1]
    BY <1>1, <2>1, <2>2, JoinOne
  <2>4. t \in Seq(Chars) /\ <<t>> = P
    BY <2>1, <2>2, <2>3
  <2>5. [d EXCEPT !.lines[d.y + 1] = LeftOf(d) \o t \o RightOf(d), !.x = @ + Len(t)]
        = Around(Glue(UpperOf(d), <<t>>), LowerOf(d))
    BY <2>4, PastedOne
  <2> QED
    BY <1>2, <2>4, <2>5 DEF Pasted
<1>3. CASE Len(P) >= 2
  <2>1. Pasted(d, t)
        = [lines |-> Splice(d.lines, d.y, d.y + 1,
                            <<LeftOf(d) \o P[1]>> \o SubSeq(P, 2, Len(P) - 1) \o <<P[Len(P)] \o RightOf(d)>>),
           x |-> Len(P[Len(P)]), y |-> d.y + Len(P) - 1]
    <3>1. Len(P) # 1
      BY <1>3, SMTT(30)
    <3> QED
      BY <3>1 DEF Pasted
  <2> HIDE DEF P
  <2> QED
    BY <1>1, <1>3, <2>1, PastedMore DEF P
<1>4. Len(P) = 1 \/ Len(P) >= 2
  <2> DEFINE n == Len(P)
  <2>1. n \in Nat /\ n >= 1
    BY <1>1
  <2> HIDE DEF n
  <2>2. n = 1 \/ n >= 2
    BY <2>1
  <2> QED
    BY <2>2 DEF n
<1> QED
  BY <1>2, <1>3, <1>4

----------------------------------------------------------------------------
(* The text between two places.                                              *)

\* One place is not behind the other.
NotBehind(x, y, i, j) == y < j \/ (y = j /\ x <= i)

\* The lines between them.
Between(ls, x, y, i, j) ==
    IF y = j THEN <<SubSeq(ls[y + 1], x + 1, i)>>
    ELSE <<Drop(ls[y + 1], x)>> \o SubSeq(ls, y + 2, j) \o <<Take(ls[j + 1], i)>>

LEMMA DropTwice ==
    ASSUME NEW S, NEW l \in Seq(S), NEW m \in 0..Len(l), NEW n \in m..Len(l)
    PROVE  /\ SubSeq(l, m + 1, n) \in Seq(S) /\ Len(SubSeq(l, m + 1, n)) = n - m
           /\ Drop(l, m) = SubSeq(l, m + 1, n) \o Drop(l, n)
<1> DEFINE k == Len(l)
<1>1. k \in Nat /\ \A i \in 1..k : l[i] \in S
  BY LenProperties, ElementOfSeq
<1>2. m \in Nat /\ n \in Nat /\ m <= n /\ n <= k
  BY <1>1
<1>3. m + 1 \in Int /\ n \in Int /\ \A i \in (m + 1)..n : l[i] \in S
  BY <1>1, <1>2
<1>4. /\ SubSeq(l, m + 1, n) \in Seq(S)
      /\ Len(SubSeq(l, m + 1, n)) = (IF m + 1 <= n THEN n - (m + 1) + 1 ELSE 0)
  <2> HIDE DEF k
  <2> QED
    BY <1>3, SubSeqProperties
<1>5. m + 1 \in 1..(k + 1) /\ n \in ((m + 1) - 1)..k /\ k \in n..k
  BY <1>1, <1>2
<1>6. SubSeq(l, m + 1, n) \o SubSeq(l, n + 1, k) = SubSeq(l, m + 1, k)
  BY <1>5, ConcatAdjacentSubSeq
<1>7. (IF m + 1 <= n THEN n - (m + 1) + 1 ELSE 0) = n - m
  BY <1>2
<1>8. Drop(l, m) = SubSeq(l, m + 1, n) \o Drop(l, n)
  BY <1>6 DEF Drop
<1>9. Len(SubSeq(l, m + 1, n)) = n - m
  BY <1>4, <1>7
<1> QED
  BY <1>4, <1>8, <1>9

LEMMA SubSeqOne ==
    ASSUME NEW ls \in Seq(Seq(Chars)), NEW k \in 1..Len(ls)
    PROVE  SubSeq(ls, k, k) = <<ls[k]>>
<1> DEFINE T == Seq(Chars)
<1>1. ls \in Seq(T) /\ Len(ls) \in Nat /\ ls[k] \in T
  BY LenProperties, ElementOfSeq
<1>2. k \in Int /\ k - 1 < k
  BY <1>1
<1>3. SubSeq(ls, k, k) = SubSeq(ls, k, k - 1) \o <<ls[k]>>
  <2> HIDE DEF T
  <2> QED
    BY <1>1, <1>2, SubSeqRecursiveSecond
<1>4. SubSeq(ls, k, k - 1) = <<>>
  BY <1>2, SubSeqEmpty
<1>5. <<ls[k]>> \in Seq(T)
  BY <1>1
<1>6. <<>> \o <<ls[k]>> = <<ls[k]>>
  BY <1>5, ConcatEmptySeq
<1> QED
  BY <1>3, <1>4, <1>6

LEMMA BetweenIs ==
    ASSUME NEW ls \in Sheets, NEW x, NEW y, OnSheet(ls, x, y), NEW i, NEW j, OnSheet(ls, i, j),
           NotBehind(x, y, i, j)
    PROVE  /\ Between(ls, x, y, i, j) \in Sheets
           /\ Lower(ls, x, y) = Glue(Between(ls, x, y, i, j), Lower(ls, i, j))
<1> DEFINE l == ls[y + 1]  m == ls[j + 1]  E == Drop(ls, y + 1)  D == Drop(ls, j + 1)
           b == Drop(l, x)  a == Take(m, i)  c == Drop(m, i)
<1>1. x \in Nat /\ y \in Nat /\ i \in Nat /\ j \in Nat /\ y < Len(ls) /\ j < Len(ls) /\ x <= Len(l) /\ i <= Len(m)
  BY DEF OnSheet
<1>2. /\ E \in Seq(Seq(Chars)) /\ D \in Seq(Seq(Chars)) /\ l \in Seq(Chars) /\ m \in Seq(Chars)
      /\ Len(l) \in Nat /\ Len(m) \in Nat
  BY <1>1, LineOf
<1>3. x \in 0..Len(l) /\ i \in 0..Len(m)
  BY <1>1, <1>2
<1>4. a \in Seq(Chars) /\ b \in Seq(Chars) /\ c \in Seq(Chars) /\ a \o c = m
  BY <1>2, <1>3, TakeIs, DropIs, TakeDrop
<1>5. Lower(ls, x, y) = <<b>> \o E /\ Lower(ls, i, j) = <<c>> \o D
  BY DEF Lower
<1>6. CASE y = j
  <2> DEFINE w == SubSeq(l, x + 1, i)  none == <<>>
  <2>1. x <= i /\ l = m /\ E = D
    BY <1>1, <1>6 DEF NotBehind
  <2>2. w \in Seq(Chars) /\ b = w \o c
    <3>1. x \in 0..Len(l) /\ i \in x..Len(l)
      BY <1>1, <1>2, <2>1
    <3>2. Drop(l, x) = SubSeq(l, x + 1, i) \o Drop(l, i) /\ SubSeq(l, x + 1, i) \in Seq(Chars)
      <4> HIDE DEF l
      <4> QED
        BY <1>2, <3>1, DropTwice
    <3> QED
      BY <2>1, <3>2
  <2>3. Between(ls, x, y, i, j) = <<w>>
    BY <1>6 DEF Between
  <2> HIDE DEF w, b, c, D, E
  <2>4. <<w>> \in Sheets /\ none \in Seq(Seq(Chars)) /\ Append(none, w) = <<w>>
    BY <2>2, OneLine
  <2>5. <<b>> \in Seq(Seq(Chars))
    BY <1>4
  <2>6. none \o <<b>> = <<b>>
    BY <2>5, ConcatEmptySeq
  <2> HIDE DEF none
  <2>7. Glue(Append(none, w), <<c>> \o D) = none \o <<w \o c>> \o D
    <3>1. none \in Seq(Seq(Chars)) /\ D \in Seq(Seq(Chars)) /\ w \in Seq(Chars) /\ c \in Seq(Chars)
      BY <1>2, <1>4, <2>2, <2>4
    <3> QED
      BY <3>1, GlueEnds, ZenonT(40)
  <2> QED
    BY <1>5, <2>1, <2>2, <2>3, <2>4, <2>6, <2>7
<1>7. CASE y < j
  <2> DEFINE M == SubSeq(ls, y + 2, j)  N == <<b>> \o M
  <2>1. ls \in Seq(Seq(Chars)) /\ y + 1 \in 0..Len(ls) /\ j \in (y + 1)..Len(ls) /\ (y + 1) + 1 = y + 2
        /\ j + 1 \in j..Len(ls) /\ j \in 0..Len(ls) /\ (j + 1) - j = 1 /\ j + 1 \in 1..Len(ls)
    BY <1>1, <1>7, OfSheet
  <2>2. M \in Seq(Seq(Chars)) /\ E = M \o Drop(ls, j)
    <3> DEFINE k == y + 1
    <3>1. k \in 0..Len(ls) /\ j \in k..Len(ls) /\ ls \in Seq(Seq(Chars)) /\ M = SubSeq(ls, k + 1, j)
      BY <2>1
    <3> HIDE DEF k, M
    <3>2. SubSeq(ls, k + 1, j) \in Seq(Seq(Chars)) /\ Drop(ls, k) = SubSeq(ls, k + 1, j) \o Drop(ls, j)
      BY <3>1, DropTwice
    <3> QED
      BY <3>1, <3>2 DEF k
  <2>3. Drop(ls, j) = <<m>> \o D
    <3> DEFINE k == j + 1  s == SubSeq(ls, j + 1, k)
    <3>1. j \in 0..Len(ls) /\ k \in j..Len(ls) /\ ls \in Seq(Seq(Chars)) /\ k - j = 1 /\ k = j + 1
      BY <2>1
    <3> HIDE DEF k, s
    <3>2. s \in Seq(Seq(Chars)) /\ Len(s) = k - j /\ Drop(ls, j) = s \o Drop(ls, k)
      BY <3>1, DropTwice, ZenonT(40) DEF s
    <3>3. s = <<ls[j + 1]>>
      BY <2>1, <3>1, SubSeqOne DEF s
    <3> QED
      BY <3>1, <3>2, <3>3
  <2>4. Between(ls, x, y, i, j) = N \o <<a>>
    <3>1. y # j
      BY <1>1, <1>7
    <3> QED
      BY <3>1 DEF Between
  <2> HIDE DEF M, a, b, c, m, D, E
  <2>5. <<a>> \in Seq(Seq(Chars)) /\ <<b>> \in Seq(Seq(Chars)) /\ <<m>> \in Seq(Seq(Chars))
    BY <1>2, <1>4
  <2>6. N \in Seq(Seq(Chars))
    BY <2>2, <2>5, ConcatIs
  <2>7. <<b>> \o (M \o (<<m>> \o D)) = (N \o <<m>>) \o D
    <3>1. <<b>> \in Seq(Seq(Chars)) /\ M \in Seq(Seq(Chars)) /\ <<m>> \in Seq(Seq(Chars)) /\ D \in Seq(Seq(Chars))
          /\ N \in Seq(Seq(Chars))
      BY <1>2, <2>2, <2>5, <2>6
    <3>2. <<m>> \o D \in Seq(Seq(Chars))
      BY <3>1, Assoc, Zenon
    <3>3. (<<b>> \o M) \o (<<m>> \o D) = <<b>> \o (M \o (<<m>> \o D))
      <4> DEFINE H == <<m>> \o D
      <4>1. <<b>> \in Seq(Seq(Chars)) /\ M \in Seq(Seq(Chars)) /\ H \in Seq(Seq(Chars))
        BY <3>1, <3>2
      <4> HIDE DEF H
      <4>2. (<<b>> \o M) \o H = <<b>> \o (M \o H)
        BY <4>1, Assoc, ZenonT(40)
      <4> QED
        BY <4>2 DEF H
    <3> HIDE DEF N
    <3>4. (N \o <<m>>) \o D = N \o (<<m>> \o D)
      BY <3>1, Assoc, ZenonT(40)
    <3> QED
      BY <3>3, <3>4 DEF N
  <2> HIDE DEF N
  <2>8. Append(N, a) \in Sheets /\ Append(N, a) = N \o <<a>>
    BY <1>4, <2>6, OneMoreLine, AppendIsConcat
  <2>9. Glue(Append(N, a), <<c>> \o D) = N \o <<a \o c>> \o D
    <3>1. N \in Seq(Seq(Chars)) /\ D \in Seq(Seq(Chars)) /\ a \in Seq(Chars) /\ c \in Seq(Chars)
      BY <1>2, <1>4, <2>6
    <3> QED
      BY <3>1, GlueEnds, ZenonT(40)
  <2> QED
    BY <1>4, <1>5, <2>2, <2>3, <2>4, <2>7, <2>8, <2>9
<1> QED
  BY <1>1, <1>6, <1>7 DEF NotBehind

\* A place cuts the text where its offset is.
LEMMA PlaceCuts ==
    ASSUME NEW ls \in Sheets, NEW x, NEW y, OnSheet(ls, x, y)
    PROVE  /\ Offset(ls, x, y) \in 0..Len(Join(ls)) /\ Offset(ls, x, y) \in Nat
           /\ Join(Upper(ls, x, y)) = Take(Join(ls), Offset(ls, x, y))
           /\ Join(Lower(ls, x, y)) = Drop(Join(ls), Offset(ls, x, y))
<1> DEFINE U == Upper(ls, x, y)  W == Lower(ls, x, y)  s == Join(U)  t == Join(W)  p == Offset(ls, x, y)
<1>1. U \in Sheets /\ W \in Sheets /\ Join(ls) = s \o t /\ Len(s) = p
  BY Halves
<1> HIDE DEF U, W, p
<1>2. s \in Text /\ t \in Text
  BY <1>1, JoinText
<1> HIDE DEF s, t
<1>3. Len(s \o t) = Len(s) + Len(t) /\ Len(s) \in Nat /\ Len(t) \in Nat
  BY <1>2, ConcatIs DEF Text
<1>4. Take(s \o t, Len(s)) = s /\ Drop(s \o t, Len(s)) = t
  BY <1>2, Parted DEF Text
<1>5. p \in 0..Len(Join(ls)) /\ p \in Nat
  BY <1>1, <1>3
<1> QED
  BY <1>1, <1>4, <1>5 DEF s, t, U, W, p

\* Later places have higher offsets, and what is between two places is what
\* is between their offsets.
LEMMA BetweenInText ==
    ASSUME NEW ls \in Sheets, NEW x, NEW y, OnSheet(ls, x, y), NEW i, NEW j, OnSheet(ls, i, j),
           NotBehind(x, y, i, j)
    PROVE  /\ Offset(ls, x, y) <= Offset(ls, i, j)
           /\ Join(Between(ls, x, y, i, j)) = SubSeq(Join(ls), Offset(ls, x, y) + 1, Offset(ls, i, j))
           /\ Join(Between(ls, x, y, i, j)) \in Text
<1> DEFINE T == Join(ls)  B == Between(ls, x, y, i, j)  p == Offset(ls, x, y)  q == Offset(ls, i, j)
           m == Join(B)  c == Chars \cup {NL}
<1>1. /\ p \in 0..Len(T) /\ q \in 0..Len(T) /\ Len(T) \in Nat /\ T \in Seq(c)
      /\ Join(Lower(ls, x, y)) = Drop(T, p) /\ Join(Lower(ls, i, j)) = Drop(T, q)
  BY PlaceCuts, JoinText DEF Text
<1>2. B \in Sheets /\ Lower(ls, x, y) = Glue(B, Lower(ls, i, j)) /\ Lower(ls, i, j) \in Sheets
  BY BetweenIs, Halves
<1>3. Drop(T, p) = m \o Drop(T, q)
  <2>1. Join(Glue(B, Lower(ls, i, j))) = Join(B) \o Join(Lower(ls, i, j))
    <3> HIDE DEF B
    <3> QED
      BY <1>2, JoinGlue
  <2> QED
    BY <1>1, <1>2, <2>1
<1>4. m \in Seq(c)
  BY <1>2, JoinText DEF Text
<1> HIDE DEF T, B, p, q, m, c
<1>5. /\ Drop(T, p) \in Seq(c) /\ Len(Drop(T, p)) = Len(T) - p
      /\ Drop(T, q) \in Seq(c) /\ Len(Drop(T, q)) = Len(T) - q
  BY <1>1, DropIs
<1>6. Len(m \o Drop(T, q)) = Len(m) + Len(Drop(T, q)) /\ Len(m) \in Nat
  BY <1>4, <1>5, ConcatIs
<1>7. Len(m) = q - p /\ p <= q /\ q \in p..Len(T)
  <2> DEFINE k == Len(T)  w == Len(m)
  <2>1. k - p = w + (k - q)
    BY <1>3, <1>5, <1>6
  <2>2. k \in Nat /\ w \in Nat /\ p \in 0..k /\ q \in 0..k
    BY <1>1, <1>6
  <2> HIDE DEF k, w
  <2>3. w = q - p /\ p <= q /\ q \in p..k
    BY <2>1, <2>2
  <2> QED
    BY <2>3 DEF k, w
<1> DEFINE n == SubSeq(T, p + 1, q)
<1>8. n \in Seq(c) /\ Len(n) = q - p /\ Drop(T, p) = n \o Drop(T, q)
  BY <1>1, <1>7, DropTwice
<1> HIDE DEF n
<1>9. Take(m \o Drop(T, q), Len(m)) = m /\ Take(n \o Drop(T, q), Len(n)) = n
  BY <1>4, <1>5, <1>8, Parted
<1>10. m = n
  BY <1>3, <1>7, <1>8, <1>9
<1> QED
  BY <1>4, <1>7, <1>10 DEF n, T, B, p, q, m, c, Text

\* What an edit makes of the text.
LEMMA ReplacedIs ==
    ASSUME NEW U \in Sheets, NEW N \in Sheets, NEW W \in Sheets
    PROVE  LET d == Around(Glue(U, N), W)
           IN /\ InDoc(d)
              /\ Join(d.lines) = Join(U) \o Join(N) \o Join(W)
              /\ Offset(d.lines, d.x, d.y) = Len(Join(U)) + Len(Join(N))
<1> DEFINE A == Glue(U, N)  d == Around(A, W)  s == Join(U)  t == Join(N)
<1>1. A \in Sheets /\ Join(A) = s \o t
  BY GlueIs, JoinGlue
<1> HIDE DEF A
<1>3. /\ InDoc(d) /\ Join(d.lines) = Join(A) \o Join(W) /\ Offset(d.lines, d.x, d.y) = Len(Join(A))
  BY <1>1, AroundIs
<1>4. s \in Text /\ t \in Text
  BY JoinText
<1> HIDE DEF s, t
<1>5. Len(s \o t) = Len(s) + Len(t)
  BY <1>4, ConcatIs DEF Text
<1> QED
  BY <1>1, <1>3, <1>5 DEF s, t, A

LEMMA ErasedIs ==
    ASSUME NEW ls \in Sheets, NEW x, NEW y, OnSheet(ls, x, y), NEW i, NEW j, OnSheet(ls, i, j),
           NEW d, d = Around(Upper(ls, x, y), Lower(ls, i, j))
    PROVE  /\ InDoc(d)
           /\ Join(d.lines) = Take(Join(ls), Offset(ls, x, y)) \o Drop(Join(ls), Offset(ls, i, j))
           /\ Offset(d.lines, d.x, d.y) = Offset(ls, x, y)
           /\ UpperOf(d) = Upper(ls, x, y) /\ LowerOf(d) = Lower(ls, i, j)
<1> DEFINE U == Upper(ls, x, y)  W == Lower(ls, i, j)
<1>1. Join(U) = Take(Join(ls), Offset(ls, x, y)) /\ Join(W) = Drop(Join(ls), Offset(ls, i, j))
  BY PlaceCuts
<1>2. U \in Sheets /\ W \in Sheets /\ Len(Join(U)) = Offset(ls, x, y)
  BY Halves
<1> HIDE DEF U, W
<1>3. d = Around(U, W)
  BY DEF U, W
<1>4. /\ InDoc(d) /\ Join(d.lines) = Join(U) \o Join(W) /\ Offset(d.lines, d.x, d.y) = Len(Join(U))
  BY <1>2, <1>3, AroundIs
<1>5. UpperOf(d) = U /\ LowerOf(d) = W
  <2>1. Upper(Glue(U, W), EndX(U), EndY(U)) = U /\ Lower(Glue(U, W), EndX(U), EndY(U)) = W
    BY <1>2, CutAgain
  <2> QED
    BY <1>3, <2>1 DEF UpperOf, LowerOf, Around
<1> QED
  BY <1>1, <1>2, <1>4, <1>5 DEF U, W

----------------------------------------------------------------------------
(* Movements, drawing, and the selected text.                                *)

LEMMA MovedIs ==
    ASSUME NEW d, InDoc(d)
    PROVE  /\ \A dir \in {"left", "right", "up", "down"} : InDoc(Moved(d, dir)) /\ Moved(d, dir).lines = d.lines
           /\ Moved(d, "left").x = LeftX(d) /\ Moved(d, "left").y = LeftY(d)
           /\ Moved(d, "right").x = RightX(d) /\ Moved(d, "right").y = RightY(d)
<1> DEFINE ls == d.lines  x == d.x  y == d.y  n == Len(ls)
<1>1. /\ ls \in Sheets /\ x \in Nat /\ y \in Nat /\ y < n /\ x <= Len(ls[y + 1]) /\ n \in Nat
      /\ d = [lines |-> ls, x |-> x, y |-> y]
  BY DocIs, OfSheet DEF OnSheet
<1>2. /\ OnSheet(ls, LeftX(d), LeftY(d)) /\ OnSheet(ls, RightX(d), RightY(d))
  BY Neighbours
<1>3. \A j, k : OnSheet(ls, j, k) => InDoc([lines |-> ls, x |-> j, y |-> k])
  BY <1>1 DEF InDoc, Documents, OnSheet
<1>4. Moved(d, "left") = [lines |-> ls, x |-> LeftX(d), y |-> LeftY(d)]
  <2>1. CASE x > 0
    <3>1. Moved(d, "left") = [d EXCEPT !.x = @ - 1]
      BY <2>1 DEF Moved
    <3>2. LeftX(d) = x - 1 /\ LeftY(d) = y
      BY <2>1 DEF LeftX, LeftY
    <3> QED
      BY <1>1, <3>1, <3>2
  <2>2. CASE x = 0 /\ y > 0
    <3>1. Moved(d, "left") = [d EXCEPT !.y = @ - 1, !.x = Len(Line(d, d.y - 1))]
      BY <2>2 DEF Moved
    <3>2. LeftX(d) = Len(Line(d, d.y - 1)) /\ LeftY(d) = y - 1
      BY <2>2 DEF LeftX, LeftY
    <3> QED
      BY <1>1, <3>1, <3>2
  <2>3. CASE x = 0 /\ y = 0
    <3>1. Moved(d, "left") = d
      BY <2>3 DEF Moved
    <3>2. LeftX(d) = x /\ LeftY(d) = y
      BY <2>3 DEF LeftX, LeftY
    <3> QED
      BY <1>1, <3>1, <3>2
  <2> QED
    BY <1>1, <2>1, <2>2, <2>3
<1>5. Moved(d, "right") = [lines |-> ls, x |-> RightX(d), y |-> RightY(d)]
  <2>0. Len(Line(d, y)) \in Nat /\ x <= Len(Line(d, y))
    BY <1>1, LineOf DEF Line
  <2>1. CASE x < Len(Line(d, y))
    <3>1. Moved(d, "right") = [d EXCEPT !.x = @ + 1]
      BY <2>1 DEF Moved
    <3>2. RightX(d) = x + 1 /\ RightY(d) = y
      BY <2>1 DEF RightX, RightY
    <3> QED
      BY <1>1, <3>1, <3>2
  <2>2. CASE ~(x < Len(Line(d, y))) /\ y < n - 1
    <3>1. x = Len(Line(d, d.y))
      BY <1>1, <2>0, <2>2
    <3>2. Moved(d, "right") = [d EXCEPT !.y = @ + 1, !.x = 0]
      BY <2>2, <3>1 DEF Moved
    <3>3. RightX(d) = 0 /\ RightY(d) = y + 1
      BY <2>2 DEF RightX, RightY
    <3> QED
      BY <1>1, <3>2, <3>3
  <2>3. CASE ~(x < Len(Line(d, y))) /\ ~(y < n - 1)
    <3>1. Moved(d, "right") = d
      BY <2>3 DEF Moved
    <3>2. RightX(d) = x /\ RightY(d) = y
      BY <2>3 DEF RightX, RightY
    <3> QED
      BY <1>1, <3>1, <3>2
  <2> QED
    BY <2>1, <2>2, <2>3
<1>6. ASSUME NEW k \in Nat, k < n
      PROVE  InDoc(OnLine(d, k)) /\ OnLine(d, k).lines = ls
  <2> DEFINE w == Len(Line(d, k))  c == IF x > w THEN w ELSE x
  <2>1. w \in Nat
    BY <1>1, <1>6, LineOf DEF Line
  <2>2. OnLine(d, k) = [lines |-> ls, x |-> c, y |-> k]
    <3>1. OnLine(d, k) = [d EXCEPT !.y = k, !.x = c]
      BY DEF OnLine
    <3> HIDE DEF c
    <3> QED
      BY <1>1, <3>1
  <2>3. OnSheet(ls, c, k)
    <3>1. c \in Nat /\ c <= w
      BY <1>1, <2>1
    <3> QED
      BY <1>6, <3>1 DEF OnSheet, Line
  <2> HIDE DEF c
  <2> QED
    BY <1>3, <2>2, <2>3
<1>7. InDoc(Moved(d, "up")) /\ Moved(d, "up").lines = ls
  <2>1. CASE y > 0
    <3>1. Moved(d, "up") = OnLine(d, y - 1) /\ y - 1 \in Nat /\ y - 1 < n
      BY <1>1, <2>1 DEF Moved
    <3> QED
      BY <1>6, <3>1
  <2>2. CASE ~(y > 0)
    <3>1. Moved(d, "up") = d
      BY <2>2 DEF Moved
    <3> QED
      BY <3>1
  <2> QED
    BY <2>1, <2>2
<1>8. InDoc(Moved(d, "down")) /\ Moved(d, "down").lines = ls
  <2>1. CASE y < n - 1
    <3>1. Moved(d, "down") = OnLine(d, y + 1) /\ y + 1 \in Nat /\ y + 1 < n
      BY <1>1, <2>1 DEF Moved
    <3> QED
      BY <1>6, <3>1
  <2>2. CASE ~(y < n - 1)
    <3>1. Moved(d, "down") = d
      BY <2>2 DEF Moved
    <3> QED
      BY <3>1
  <2> QED
    BY <2>1, <2>2
<1>9. InDoc(Moved(d, "left")) /\ InDoc(Moved(d, "right"))
      /\ Moved(d, "left").lines = ls /\ Moved(d, "right").lines = ls
  BY <1>2, <1>3, <1>4, <1>5
<1> QED
  BY <1>4, <1>5, <1>7, <1>8, <1>9

Selections == [sx : Nat, sy : Nat, ex : Nat, ey : Nat]

LEMMA FitsIs ==
    ASSUME NEW d, NEW s, s.sx \in Nat, s.sy \in Nat, s.ex \in Nat, s.ey \in Nat, Fits(d, s)
    PROVE  LET b == SelectionBounds(s)
           IN /\ OnSheet(d.lines, b.sx, b.sy) \/ b.sy >= Len(d.lines)
              /\ OnSheet(d.lines, b.ex, b.ey)
              /\ NotBehind(b.sx, b.sy, b.ex, b.ey)
<1>1. CASE s.sy > s.ey \/ (s.sy = s.ey /\ s.sx > s.ex)
  BY <1>1 DEF SelectionBounds, Fits, OnSheet, Line, NotBehind
<1>2. CASE ~(s.sy > s.ey \/ (s.sy = s.ey /\ s.sx > s.ex))
  BY <1>2 DEF SelectionBounds, Fits, OnSheet, Line, NotBehind
<1> QED
  BY <1>1, <1>2

LEMMA FitsOnSheet ==
    ASSUME NEW d, d.lines \in Sheets, NEW s, s.sx \in Nat, s.sy \in Nat, s.ex \in Nat, s.ey \in Nat, Fits(d, s)
    PROVE  LET b == SelectionBounds(s)
           IN /\ OnSheet(d.lines, b.sx, b.sy) /\ OnSheet(d.lines, b.ex, b.ey)
              /\ NotBehind(b.sx, b.sy, b.ex, b.ey)
<1> DEFINE b == SelectionBounds(s)  n == Len(d.lines)
<1>1. /\ OnSheet(d.lines, b.sx, b.sy) \/ b.sy >= n
      /\ OnSheet(d.lines, b.ex, b.ey) /\ NotBehind(b.sx, b.sy, b.ex, b.ey)
  BY FitsIs
<1>2. n \in Nat
  BY OfSheet
<1>3. b.sy \in Nat /\ b.ey \in Nat /\ b.ey < n
  BY <1>1 DEF SelectionBounds, OnSheet
<1>4. ~(b.sy >= n)
  <2> DEFINE y == b.sy  j == b.ey
  <2>1. y < j \/ y = j
    BY <1>1 DEF NotBehind
  <2>2. y \in Nat /\ j \in Nat /\ j < n
    BY <1>3
  <2> HIDE DEF y, j, n
  <2>3. ~(y >= n)
    BY <1>2, <2>1, <2>2
  <2> QED
    BY <2>3 DEF y
<1> QED
  BY <1>1, <1>4

LEMMA PlacesFit ==
    ASSUME NEW d, NEW s, InPlace(d, s)
    PROVE  Fits(d, s)
<1> DEFINE b == SelectionBounds(s)
<1>1. /\ OnSheet(d.lines, b.sx, b.sy) /\ OnSheet(d.lines, b.ex, b.ey)
      /\ b.sy = b.ey => b.sx <= b.ex
  BY BoundsIs
<1> QED
  BY <1>1 DEF Fits, OnSheet, Line

LEMMA SelectedIs ==
    ASSUME NEW d, d.lines \in Sheets, NEW s, s.sx \in Nat, s.sy \in Nat, s.ex \in Nat, s.ey \in Nat, Fits(d, s)
    PROVE  LET b == SelectionBounds(s)
           IN /\ Selected(d, s) \in Text
              /\ Selected(d, s) = SubSeq(Join(d.lines), Offset(d.lines, b.sx, b.sy) + 1, Offset(d.lines, b.ex, b.ey))
<1> DEFINE b == SelectionBounds(s)  ls == d.lines  x == b.sx  y == b.sy  i == b.ex  j == b.ey
           t == Join(Between(ls, x, y, i, j))
<1>1. ls \in Sheets /\ OnSheet(ls, x, y) /\ OnSheet(ls, i, j) /\ NotBehind(x, y, i, j)
  BY FitsOnSheet
<1>2. Selected(d, s) = IF y = j THEN SubSeq(ls[y + 1], x + 1, i)
                       ELSE Join(<<Drop(ls[y + 1], x)>> \o SubSeq(ls, y + 2, j) \o <<Take(ls[j + 1], i)>>)
  BY DEF Selected, Line
<1> HIDE DEF ls, x, y, i, j
<1>3. /\ t = SubSeq(Join(ls), Offset(ls, x, y) + 1, Offset(ls, i, j)) /\ t \in Text
  BY <1>1, BetweenInText
<1>4. Selected(d, s) = t
  <2>1. CASE y # j
    BY <1>2, <2>1 DEF Between
  <2>2. CASE y = j
    <3> DEFINE l == ls[y + 1]
    <3>1. l \in Seq(Chars) /\ Len(l) \in Nat /\ x \in Nat /\ i \in Nat /\ x <= i /\ i <= Len(l)
      <4>1. x \in Nat /\ i \in Nat /\ y \in Nat /\ y < Len(ls) /\ i <= Len(l)
        BY <1>1, <2>2 DEF OnSheet
      <4>2. x <= i
        BY <1>1, <2>2, <4>1 DEF NotBehind
      <4>3. l \in Seq(Chars) /\ Len(l) \in Nat
        BY <1>1, <4>1, LineOf
      <4> QED
        BY <4>1, <4>2, <4>3
    <3> HIDE DEF l
    <3>2. x \in 0..Len(l) /\ i \in x..Len(l)
      BY <3>1
    <3>3. SubSeq(l, x + 1, i) \in Seq(Chars)
      BY <3>1, <3>2, DropTwice
    <3>4. Join(<<SubSeq(l, x + 1, i)>>) = SubSeq(l, x + 1, i)
      BY <3>3, JoinOne
    <3>5. Between(ls, x, y, i, j) = <<SubSeq(l, x + 1, i)>>
      BY <2>2 DEF Between, l
    <3> QED
      BY <1>2, <2>2, <3>4, <3>5 DEF l
  <2> QED
    BY <2>1, <2>2
<1> QED
  BY <1>3, <1>4 DEF ls, x, y, i, j

LEMMA DeletedKeeps ==
    ASSUME NEW d, d \in Documents, d.y < Len(d.lines),
           NEW s, s.sx \in Nat, s.sy \in Nat, s.ex \in Nat, s.ey \in Nat, Fits(d, s)
    PROVE  Deleted(d, s) \in Documents /\ Deleted(d, s).y < Len(Deleted(d, s).lines)
<1> DEFINE b == SelectionBounds(s)  ls == d.lines  x == b.sx  y == b.sy  i == b.ex  j == b.ey
           U == Upper(ls, x, y)  W == Lower(ls, i, j)  n == Len(ls)  r == IF y = j THEN d.y ELSE y
<1>0. ls \in Sheets /\ d.y \in Nat /\ n \in Nat /\ d.y < n
  BY OfSheet DEF Documents
<1>1. OnSheet(ls, x, y) /\ OnSheet(ls, i, j) /\ NotBehind(x, y, i, j)
  BY <1>0, FitsOnSheet
<1>2. Deleted(d, s) = [lines |-> Splice(ls, y, j + 1, <<Take(ls[y + 1], x) \o Drop(ls[j + 1], i)>>),
                       x |-> x, y |-> r]
  BY DEF Deleted, Line
<1> HIDE DEF ls, x, y, i, j
<1>3. Splice(ls, y, j + 1, <<Take(ls[y + 1], x) \o Drop(ls[j + 1], i)>>) = Glue(U, W)
  BY <1>0, <1>1, SpliceIs, SMTT(30)
<1>4. U \in Sheets /\ W \in Sheets /\ Len(U) = y + 1 /\ Len(W) \in Nat /\ Len(W) >= 1 /\ Glue(U, W) \in Sheets
      /\ Len(Glue(U, W)) = Len(U) + Len(W) - 1
  <2>1. U \in Sheets /\ Len(U) = y + 1
    BY <1>0, <1>1, Halves
  <2>2. W \in Sheets
    BY <1>0, <1>1, Halves
  <2>3. Len(W) \in Nat /\ Len(W) >= 1
    BY <2>2, OfSheet
  <2>4. Glue(U, W) \in Sheets /\ Len(Glue(U, W)) = Len(U) + Len(W) - 1
    <3> HIDE DEF U, W
    <3> QED
      BY <2>1, <2>2, GlueIs
  <2> QED
    BY <2>1, <2>2, <2>3, <2>4
<1>5. x \in Nat /\ y \in Nat
  BY <1>1 DEF OnSheet
<1>6. y < Len(Glue(U, W))
  <2> DEFINE u == Len(U)  w == Len(W)  g == Len(Glue(U, W))
  <2>1. u = y + 1 /\ w \in Nat /\ w >= 1 /\ g = u + w - 1
    BY <1>4
  <2> HIDE DEF u, w, g
  <2>2. y < g
    BY <1>5, <2>1
  <2> QED
    BY <2>2 DEF g
<1>7. y = j => Len(Glue(U, W)) = n
  <2> SUFFICES ASSUME y = j PROVE Len(Glue(U, W)) = n
    OBVIOUS
  <2> DEFINE V == Upper(ls, i, j)
  <2>1. V \in Sheets /\ Glue(V, W) = ls /\ Len(V) = j + 1
    BY <1>0, <1>1, Halves
  <2>2. Len(Glue(V, W)) = Len(V) + Len(W) - 1
    BY <1>4, <2>1, GlueIs
  <2> QED
    BY <1>4, <2>1, <2>2
<1> DEFINE G == Glue(U, W)
<1> HIDE DEF U, W, G
<1>8. Deleted(d, s) = [lines |-> G, x |-> x, y |-> r]
  BY <1>2, <1>3 DEF G
<1>9. r \in Nat /\ r < Len(G)
  BY <1>0, <1>5, <1>6, <1>7 DEF G
<1> HIDE DEF r
<1> QED
  BY <1>4, <1>5, <1>8, <1>9 DEF Documents, G

LEMMA DrawableIs ==
    ASSUME NEW d, InDoc(d), NEW s, s # Nil => OnSheet(d.lines, s.sx, s.sy) /\ OnSheet(d.lines, s.ex, s.ey)
    PROVE  Drawable(d, s)
<1> DEFINE b == SelectionBounds(s)  ls == d.lines  n == Len(ls)
           from(i) == IF i = b.sy THEN b.sx ELSE 0
           to(i) == IF i = b.ey THEN b.ex ELSE Len(Line(d, i))
<1>1. d.y < n => d.x <= Len(Line(d, d.y))
  BY DocIs DEF OnSheet, Line
<1>2. ls \in Sheets
  BY DocIs
<1>3. ASSUME s # Nil, NEW i \in 0..n-1, b.sy <= i, i <= b.ey
      PROVE  from(i) <= to(i) /\ to(i) <= Len(Line(d, i))
  <2>1. OnSheet(ls, b.sx, b.sy) /\ OnSheet(ls, b.ex, b.ey) /\ NotBehind(b.sx, b.sy, b.ex, b.ey)
    <3>1. OnSheet(ls, s.sx, s.sy) /\ OnSheet(ls, s.ex, s.ey)
      BY <1>3
    <3>2. CASE s.sy > s.ey \/ (s.sy = s.ey /\ s.sx > s.ex)
      BY <3>1, <3>2 DEF SelectionBounds, OnSheet, NotBehind
    <3>3. CASE ~(s.sy > s.ey \/ (s.sy = s.ey /\ s.sx > s.ex))
      BY <3>1, <3>3 DEF SelectionBounds, OnSheet, NotBehind
    <3> QED
      BY <3>2, <3>3
  <2> DEFINE x == b.sx  y == b.sy  u == b.ex  v == b.ey  m == Len(Line(d, i))
  <2>2. m \in Nat
    <3>1. i \in Nat /\ i < n
      BY <1>2, OfSheet
    <3> QED
      BY <1>2, <3>1, LineOf DEF Line
  <2>3. x \in Nat /\ y \in Nat /\ u \in Nat /\ v \in Nat /\ i \in Int /\ y <= i /\ i <= v
        /\ (i = y => x <= m) /\ (i = v => u <= m) /\ (y = v => x <= u)
    <3>1. x \in Nat /\ y \in Nat /\ u \in Nat /\ v \in Nat /\ y <= i /\ i <= v
      BY <1>3, <2>1 DEF OnSheet
    <3>2. (i = y => x <= m) /\ (i = v => u <= m)
      BY <2>1 DEF OnSheet, Line
    <3>3. y = v => x <= u
      BY <2>1, <3>1 DEF NotBehind
    <3> QED
      BY <3>1, <3>2, <3>3
  <2>4. from(i) = (IF i = y THEN x ELSE 0) /\ to(i) = IF i = v THEN u ELSE m
    OBVIOUS
  <2> HIDE DEF x, y, u, v, m, b
  <2>5. LET f == IF i = y THEN x ELSE 0  t == IF i = v THEN u ELSE m IN f <= t /\ t <= m
    BY <2>2, <2>3
  <2> QED
    BY <2>4, <2>5 DEF m
<1> QED
  BY <1>1, <1>3 DEF Drawable

----------------------------------------------------------------------------
(* The editor panics only on a selection that outlived its lines.            *)

\* A document between two keys; after a panic the column may be anywhere.
Roughly(d) == d \in Documents /\ d.y < Len(d.lines)

Values ==
    /\ Roughly(doc) /\ clip \in Text /\ code \in Text
    /\ selection # Nil => selection \in Selections

Whole ==
    /\ panicked => outlived /\ phase = "input"
    /\ ~panicked => InDoc(doc)
    /\ ~outlived /\ selection # Nil => InPlace(doc, selection)
    /\ phase = "confirm" => code = Join(doc.lines)

EditorInv == Values /\ Whole

LEMMA EmptyIs == InDoc(Empty) /\ Roughly(Empty) /\ <<>> \in Text /\ Join(Empty.lines) = <<>>
<1> DEFINE e == <<>>  ls == <<e>>
<1>1. e \in Seq(Chars)
  BY LinesAreTexts
<1> HIDE DEF e
<1>2. ls \in Sheets /\ Len(ls) = 1 /\ ls[1] = e /\ Join(ls) = e
  BY <1>1, OneLine, JoinOne
<1>3. Len(e) = 0 /\ e \in Text
  BY LinesAreTexts, EmptySeq DEF e, Text
<1>4. Empty = [lines |-> ls, x |-> 0, y |-> 0]
  BY DEF Empty, e
<1> HIDE DEF ls
<1>5. InDoc(Empty) /\ Roughly(Empty)
  BY <1>2, <1>3, <1>4 DEF InDoc, Roughly, Documents, OnSheet
<1> QED
  BY <1>2, <1>3, <1>4, <1>5 DEF e

LEMMA RoughlyIs ==
    ASSUME NEW d, Roughly(d)
    PROVE  /\ d.lines \in Sheets /\ d.x \in Nat /\ d.y \in Nat
           /\ d.x <= Len(Line(d, d.y)) => InDoc(d)
           /\ InDoc(d) => d.x <= Len(Line(d, d.y))
           /\ \A s : Drawable(d, s) => InDoc(d)
BY DEF Roughly, InDoc, Documents, OnSheet, Drawable, Line

LEMMA InDocRoughly == ASSUME NEW d, InDoc(d) PROVE Roughly(d)
BY DEF Roughly, InDoc, OnSheet

LEMMA PastedKeeps ==
    ASSUME NEW d, InDoc(d), NEW t \in Text
    PROVE  InDoc(Pasted(d, t))
<1> DEFINE A == Glue(UpperOf(d), Split(t))  B == LowerOf(d)
<1>1. Split(t) \in Sheets /\ UpperOf(d) \in Sheets /\ B \in Sheets
  BY SplitMore, DocIs
<1>2. A \in Sheets
  BY <1>1, GlueIs
<1>3. Pasted(d, t) = Around(A, B)
  BY PastedIs
<1> HIDE DEF A, B
<1> QED
  BY <1>1, <1>2, <1>3, AroundIs

LEMMA BrokenKeeps ==
    ASSUME NEW d, InDoc(d)
    PROVE  InDoc(Broken(d))
<1> DEFINE A == Glue(UpperOf(d), Halved)  B == LowerOf(d)
<1>1. Halved \in Sheets /\ UpperOf(d) \in Sheets /\ B \in Sheets /\ Broken(d) = Around(A, B)
  BY BrokenIs, DocIs
<1>2. A \in Sheets
  BY <1>1, GlueIs
<1> HIDE DEF A, B
<1> QED
  BY <1>1, <1>2, AroundIs

LEMMA ErasedKeeps ==
    ASSUME NEW d, InDoc(d)
    PROVE  InDoc(ErasedLeft(d)) /\ InDoc(ErasedRight(d))
<1> DEFINE L == Upper(d.lines, LeftX(d), LeftY(d))  R == Lower(d.lines, RightX(d), RightY(d))
<1>1. L \in Sheets /\ R \in Sheets
  BY Neighbours, DocIs, Halves
<1>2. UpperOf(d) \in Sheets /\ LowerOf(d) \in Sheets
  BY DocIs
<1>3. ErasedLeft(d) = Around(L, LowerOf(d)) /\ ErasedRight(d) = Around(UpperOf(d), R)
  BY ErasedLeftIs, ErasedRightIs
<1> HIDE DEF L, R
<1> QED
  BY <1>1, <1>2, <1>3, AroundIs

LEMMA DeletedInPlace ==
    ASSUME NEW d, d.lines \in Sheets, NEW s, InPlace(d, s)
    PROVE  InDoc(Deleted(d, s))
<1> DEFINE b == SelectionBounds(s)  A == Upper(d.lines, b.sx, b.sy)  B == Lower(d.lines, b.ex, b.ey)
<1>1. OnSheet(d.lines, b.sx, b.sy) /\ OnSheet(d.lines, b.ex, b.ey)
  BY BoundsIs
<1>2. A \in Sheets /\ B \in Sheets
  BY <1>1, Halves
<1>3. Deleted(d, s) = Around(A, B)
  BY DeletedIs
<1> HIDE DEF A, B
<1> QED
  BY <1>2, <1>3, AroundIs

LEMMA DrawNothing == ASSUME NEW d, InDoc(d) PROVE Drawable(d, Nil)
<1> DEFINE s == Nil
<1>1. s = Nil
  OBVIOUS
<1> HIDE DEF s
<1>2. Drawable(d, s)
  BY <1>1, DrawableIs
<1> QED
  BY <1>1, <1>2

LEMMA InitEditor == EditorInit => EditorInv
<1> SUFFICES ASSUME EditorInit PROVE EditorInv
  OBVIOUS
<1>1. clip \in Text
  BY EditorAssumption DEF EditorInit, Text
<1> QED
  BY <1>1, EmptyIs DEF EditorInit, EditorInv, Values, Whole

\* What a selection that is still in place allows.
LEMMA StillInPlace ==
    ASSUME EditorInv, Typing
    PROVE  /\ InDoc(doc) /\ Roughly(doc)
           /\ ~outlived /\ selection # Nil =>
                 Fits(doc, selection) /\ InPlace(doc, selection) /\ InDoc(Deleted(doc, selection))
           /\ selection # Nil => /\ selection.sx \in Nat /\ selection.sy \in Nat
                                 /\ selection.ex \in Nat /\ selection.ey \in Nat
           /\ selection # Nil /\ Fits(doc, selection) =>
                 Roughly(Deleted(doc, selection)) /\ Selected(doc, selection) \in Text
<1>1. InDoc(doc) /\ Roughly(doc) /\ doc.lines \in Sheets
  BY RoughlyIs DEF EditorInv, Values, Whole, Typing
<1>2. selection # Nil => /\ selection.sx \in Nat /\ selection.sy \in Nat
                         /\ selection.ex \in Nat /\ selection.ey \in Nat
  BY DEF EditorInv, Values, Selections
<1>3. ASSUME ~outlived, selection # Nil
      PROVE  Fits(doc, selection) /\ InPlace(doc, selection) /\ InDoc(Deleted(doc, selection))
  <2>1. InPlace(doc, selection)
    BY <1>3 DEF EditorInv, Whole
  <2> QED
    BY <1>1, <2>1, PlacesFit, DeletedInPlace
<1>4. ASSUME selection # Nil, Fits(doc, selection)
      PROVE  Roughly(Deleted(doc, selection)) /\ Selected(doc, selection) \in Text
  <2>1. Selected(doc, selection) \in Text
    BY <1>1, <1>2, <1>4, SelectedIs
  <2>2. Roughly(Deleted(doc, selection))
    BY <1>1, <1>2, <1>4, DeletedKeeps DEF Roughly
  <2> QED
    BY <2>1, <2>2
<1> QED
  BY <1>1, <1>2, <1>3, <1>4

\* A key that panics leaves everything as it is.
LEMMA PanicKeeps == EditorInv /\ Typing /\ outlived /\ Panic => EditorInv'
BY DEF EditorInv, Values, Whole, Typing, Panic

\* A key that leaves a document with nothing selected.
LEMMA ShowNothing ==
    ASSUME EditorInv, Typing, NEW d, Roughly(d), Show(d, Nil), clip' \in Text,
           UNCHANGED <<phase, code>>,
           ~InDoc(d) => outlived'
    PROVE  EditorInv'
<1>1. doc' = d /\ selection' = Nil /\ panicked' = ~Drawable(d, Nil)
  BY DEF Show
<1>2. InDoc(d) => ~panicked'
  BY <1>1, DrawNothing
<1>3. ~InDoc(d) => panicked'
  BY <1>1, RoughlyIs
<1>4. Values'
  BY <1>1 DEF EditorInv, Values
<1>5. Whole'
  <2>1. (panicked => outlived /\ phase = "input")'
    BY <1>2 DEF Typing
  <2>2. (~panicked => InDoc(doc))'
    BY <1>1, <1>3
  <2>3. (~outlived /\ selection # Nil => InPlace(doc, selection))'
    BY <1>1
  <2>4. (phase = "confirm" => code = Join(doc.lines))'
    BY DEF Typing
  <2> QED
    BY <2>1, <2>2, <2>3, <2>4 DEF Whole
<1> QED
  BY <1>4, <1>5 DEF EditorInv

LEMMA PutKeeps ==
    ASSUME EditorInv, NEW t \in Text, Put(t)
    PROVE  EditorInv'
<1> DEFINE cleared == IF selection = Nil THEN doc ELSE Deleted(doc, selection)
           ok == (selection # Nil => Fits(doc, selection)) /\ cleared.x <= Len(Line(cleared, cleared.y))
<1>0. Typing
  BY DEF Put
<1>1. CASE ok
  <2>1. Show(Pasted(cleared, t), Nil) /\ Forget /\ UNCHANGED <<phase, code, clip, handed>>
    BY <1>1 DEF Put
  <2>2. Roughly(cleared)
    BY <1>0, <1>1, StillInPlace
  <2> HIDE DEF cleared
  <2>3. InDoc(cleared)
    BY <1>1, <2>2, RoughlyIs
  <2>4. InDoc(Pasted(cleared, t)) /\ Roughly(Pasted(cleared, t))
    BY <2>3, PastedKeeps, InDocRoughly
  <2>5. clip' \in Text
    BY <2>1 DEF EditorInv, Values
  <2> QED
    BY <1>0, <2>1, <2>4, <2>5, ShowNothing
<1>2. CASE ~ok
  <2>1. Panic
    BY <1>2 DEF Put
  <2>2. outlived
    <3> SUFFICES ASSUME ~outlived PROVE FALSE
      OBVIOUS
    <3>1. (selection # Nil => Fits(doc, selection)) /\ InDoc(cleared)
      BY <1>0, StillInPlace
    <3>2. cleared.x <= Len(Line(cleared, cleared.y))
      <4> HIDE DEF cleared
      <4> QED
        BY <3>1, RoughlyIs, InDocRoughly
    <3> QED
      BY <1>2, <3>1, <3>2
  <2> QED
    BY <1>0, <2>1, <2>2, PanicKeeps
<1> QED
  BY <1>1, <1>2

LEMMA EraseKeeps ==
    ASSUME EditorInv, NEW d, InDoc(doc) => InDoc(d), Erase(d)
    PROVE  EditorInv'
<1>0. Typing
  BY DEF Erase
<1>1. CASE selection = Nil
  <2>1. Show(d, Nil) /\ UNCHANGED <<phase, code, clip, handed, outlived>>
    BY <1>1 DEF Erase
  <2>2. InDoc(d) /\ Roughly(d)
    BY <1>0, StillInPlace, InDocRoughly
  <2> QED
    BY <1>0, <2>1, <2>2, ShowNothing DEF EditorInv, Values
<1>2. CASE selection # Nil /\ Fits(doc, selection)
  <2> DEFINE e == Deleted(doc, selection)
  <2>1. Show(e, Nil) /\ Forget /\ UNCHANGED <<phase, code, clip, handed>>
    BY <1>2 DEF Erase
  <2>2. Roughly(e) /\ (~outlived => InDoc(e))
    BY <1>0, <1>2, StillInPlace
  <2>3. ~InDoc(e) => outlived'
    <3> HIDE DEF e
    <3>1. ~InDoc(e) => panicked'
      BY <2>1, <2>2, RoughlyIs DEF Show
    <3> QED
      BY <2>1, <2>2, <3>1 DEF Forget
  <2> HIDE DEF e
  <2>4. clip' \in Text
    BY <2>1 DEF EditorInv, Values
  <2> QED
    BY <1>0, <2>1, <2>2, <2>3, <2>4, ShowNothing
<1>3. CASE selection # Nil /\ ~Fits(doc, selection)
  <2>1. Panic
    BY <1>3 DEF Erase
  <2> QED
    BY <1>0, <1>3, <2>1, StillInPlace, PanicKeeps
<1> QED
  BY <1>1, <1>2, <1>3

LEMMA CutKeeps == EditorInv /\ CutSelected => EditorInv'
<1> SUFFICES ASSUME EditorInv, CutSelected PROVE EditorInv'
  OBVIOUS
<1>0. Typing /\ selection # Nil
  BY DEF CutSelected
<1>1. CASE Fits(doc, selection)
  <2> DEFINE e == Deleted(doc, selection)
  <2>1. Written(Selected(doc, selection)) /\ Show(e, Nil) /\ Forget /\ UNCHANGED <<phase, code, handed>>
    BY <1>1 DEF CutSelected
  <2>2. Roughly(e) /\ (~outlived => InDoc(e)) /\ Selected(doc, selection) \in Text
    BY <1>0, <1>1, StillInPlace
  <2>3. ~InDoc(e) => outlived'
    <3> HIDE DEF e
    <3>1. ~InDoc(e) => panicked'
      BY <2>1, <2>2, RoughlyIs DEF Show
    <3> QED
      BY <2>1, <2>2, <3>1 DEF Forget
  <2> HIDE DEF e
  <2>4. clip' \in Text
    BY <2>1, <2>2 DEF EditorInv, Values, Written
  <2> QED
    BY <1>0, <2>1, <2>2, <2>3, <2>4, ShowNothing
<1>2. CASE ~Fits(doc, selection)
  <2>1. Panic
    BY <1>2 DEF CutSelected
  <2> QED
    BY <1>0, <1>2, <2>1, StillInPlace, PanicKeeps
<1> QED
  BY <1>1, <1>2

LEMMA CopyKeeps == EditorInv /\ Copy => EditorInv'
<1> SUFFICES ASSUME EditorInv, Copy PROVE EditorInv'
  OBVIOUS
<1>0. Typing /\ selection # Nil
  BY DEF Copy
<1>1. CASE Fits(doc, selection)
  <2>1. Written(Selected(doc, selection)) /\ UNCHANGED <<phase, doc, selection, code, handed, panicked, outlived>>
    BY <1>1 DEF Copy
  <2>2. Selected(doc, selection) \in Text
    BY <1>0, <1>1, StillInPlace
  <2> QED
    BY <2>1, <2>2 DEF EditorInv, Values, Whole, Written
<1>2. CASE ~Fits(doc, selection)
  <2>1. Panic
    BY <1>2 DEF Copy
  <2> QED
    BY <1>0, <1>2, <2>1, StillInPlace, PanicKeeps
<1> QED
  BY <1>1, <1>2

\* A key that leaves a selection in place, or one that outlived its lines.
LEMMA ShowPlaced ==
    ASSUME EditorInv, NEW d, InDoc(d), NEW s, s # Nil => s \in Selections,
           ~outlived' /\ s # Nil => InPlace(d, s),
           Show(d, s), phase' = "input", UNCHANGED <<code, clip>>
    PROVE  EditorInv'
<1>1. doc' = d /\ selection' = s /\ panicked' = ~Drawable(d, s)
  BY DEF Show
<1>2. ~outlived' => Drawable(d, s)
  <2> SUFFICES ASSUME ~outlived' PROVE Drawable(d, s)
    OBVIOUS
  <2>1. s # Nil => OnSheet(d.lines, s.sx, s.sy) /\ OnSheet(d.lines, s.ex, s.ey)
    BY DEF InPlace
  <2> QED
    BY <2>1, DrawableIs
<1>3. Values'
  BY <1>1, InDocRoughly DEF EditorInv, Values
<1>4. Whole'
  BY <1>1, <1>2 DEF Whole
<1> QED
  BY <1>3, <1>4 DEF EditorInv

LEMMA SelectionKept ==
    ASSUME EditorInv, NEW d, InDoc(d), d.lines = doc.lines, d.y = doc.y, Show(d, selection),
           phase' = "input", UNCHANGED <<code, clip, outlived>>
    PROVE  EditorInv'
<1>1. selection # Nil => selection \in Selections
  BY DEF EditorInv, Values
<1>2. ~outlived' /\ selection # Nil => InPlace(d, selection)
  BY DEF EditorInv, Whole, InPlace
<1> QED
  BY <1>1, <1>2, ShowPlaced

LEMMA BreakKeeps == EditorInv /\ BreakLine => EditorInv'
<1> SUFFICES ASSUME EditorInv, BreakLine PROVE EditorInv'
  OBVIOUS
<1>1. /\ Typing /\ Show(Broken(doc), selection) /\ outlived' = (selection # Nil)
      /\ UNCHANGED <<phase, code, clip>>
  BY DEF BreakLine
<1>2. InDoc(Broken(doc))
  BY <1>1, StillInPlace, BrokenKeeps
<1>3. selection # Nil => selection \in Selections
  BY DEF EditorInv, Values
<1>4. ~outlived' /\ selection # Nil => InPlace(Broken(doc), selection)
  BY <1>1
<1>5. phase' = "input"
  BY <1>1 DEF Typing
<1> QED
  BY <1>1, <1>2, <1>3, <1>4, <1>5, ShowPlaced

LEMMA MoveKeeps ==
    ASSUME EditorInv, NEW dir \in {"left", "right", "up", "down"}, NEW shift \in BOOLEAN, Move(dir, shift)
    PROVE  EditorInv'
<1> DEFINE d == Moved(doc, dir)
           s == IF selection = Nil /\ shift THEN [sx |-> doc.x, sy |-> doc.y] ELSE selection
           r == [sx |-> s.sx, sy |-> s.sy, ex |-> d.x, ey |-> d.y]
           n == IF s = Nil THEN Nil ELSE r
<1>1. Typing /\ Show(d, n) /\ UNCHANGED <<phase, code, clip, handed, outlived>>
  BY DEF Move
<1>2. InDoc(doc) /\ InDoc(d) /\ d.lines = doc.lines
  BY <1>1, StillInPlace, MovedIs
<1>3. d.x \in Nat /\ d.y \in Nat /\ OnSheet(doc.lines, d.x, d.y)
  BY <1>2, DocIs
<1>4. doc.x \in Nat /\ doc.y \in Nat /\ OnSheet(doc.lines, doc.x, doc.y)
  BY <1>2, DocIs
<1> HIDE DEF d
<1>5. s # Nil => s.sx \in Nat /\ s.sy \in Nat
  BY <1>4 DEF EditorInv, Values, Selections
<1>6. ~outlived /\ s # Nil => OnSheet(doc.lines, s.sx, s.sy)
  BY <1>4 DEF EditorInv, Whole, InPlace
<1> HIDE DEF s
<1>7. n # Nil => n \in Selections
  BY <1>3, <1>5 DEF Selections
<1>8. ~outlived' /\ n # Nil => InPlace(d, n)
  BY <1>1, <1>2, <1>3, <1>6 DEF InPlace
<1>9. phase' = "input"
  BY <1>1 DEF Typing
<1> HIDE DEF n
<1> QED
  BY <1>1, <1>2, <1>7, <1>8, <1>9, ShowPlaced

\* The cursor may be put anywhere in its line.
LEMMA InLine ==
    ASSUME NEW d, InDoc(d), NEW c, OnSheet(d.lines, c, d.y)
    PROVE  LET e == [d EXCEPT !.x = c] IN InDoc(e) /\ e.lines = d.lines /\ e.y = d.y /\ e.x = c
<1>1. d.lines \in Sheets /\ d.y \in Nat /\ d = [lines |-> d.lines, x |-> d.x, y |-> d.y] /\ c \in Nat
  BY DocIs DEF OnSheet
<1>2. [d EXCEPT !.x = c] = [lines |-> d.lines, x |-> c, y |-> d.y]
  <2> DEFINE ls == d.lines  x == d.x  y == d.y
  <2>1. d = [lines |-> ls, x |-> x, y |-> y]
    BY <1>1
  <2> HIDE DEF ls, x, y
  <2>2. [d EXCEPT !.x = c] = [lines |-> ls, x |-> c, y |-> y]
    BY <2>1
  <2> QED
    BY <2>2 DEF ls, y
<1> QED
  BY <1>1, <1>2 DEF InDoc, Documents

LEMMA EndsOfLine ==
    ASSUME NEW d, InDoc(d)
    PROVE  OnSheet(d.lines, 0, d.y) /\ OnSheet(d.lines, Len(Line(d, d.y)), d.y)
<1>1. d.lines \in Sheets /\ d.y \in Nat /\ d.y < Len(d.lines)
  BY DocIs DEF OnSheet
<1>2. Len(d.lines[d.y + 1]) \in Nat
  BY <1>1, LineOf
<1> QED
  BY <1>1, <1>2 DEF OnSheet, Line

LEMMA HomeKeeps == EditorInv /\ (Home \/ EndKey) => EditorInv'
<1> SUFFICES ASSUME EditorInv, Home \/ EndKey PROVE EditorInv'
  OBVIOUS
<1>1. PICK c \in {0, Len(Line(doc, doc.y))} :
         Typing /\ Show([doc EXCEPT !.x = c], selection) /\ UNCHANGED <<phase, code, clip, outlived>>
  BY DEF Home, EndKey
<1>2. InDoc(doc)
  BY <1>1, StillInPlace
<1>3. OnSheet(doc.lines, c, doc.y)
  BY <1>1, <1>2, EndsOfLine
<1> DEFINE e == [doc EXCEPT !.x = c]
<1>4. InDoc(e) /\ e.lines = doc.lines /\ e.y = doc.y
  BY <1>2, <1>3, InLine
<1>5. Show(e, selection) /\ phase' = "input"
  BY <1>1 DEF Typing
<1> HIDE DEF e
<1> QED
  BY <1>1, <1>4, <1>5, SelectionKept

\* The whole of the text.
All(d) == [sx |-> 0, sy |-> 0, ex |-> Len(Last(d.lines)), ey |-> Len(d.lines) - 1]

LEMMA AllIs ==
    ASSUME NEW d, InDoc(d)
    PROVE  /\ InPlace(d, All(d)) /\ All(d) \in Selections
           /\ Offset(d.lines, All(d).sx, All(d).sy) = 0
           /\ Offset(d.lines, All(d).ex, All(d).ey) = Len(Join(d.lines))
<1> DEFINE ls == d.lines  n == Len(ls)  y == n - 1  l == ls[y + 1]  x == Len(l)  o == 0
<1>1. ls \in Sheets /\ d.y \in Nat /\ d.y < n /\ n \in Nat /\ n >= 1
  BY DocIs, OfSheet DEF OnSheet
<1>2. y \in Nat /\ y < n /\ y + 1 = n /\ o < n /\ o \in Nat
  BY <1>1
<1>3. l \in Seq(Chars) /\ x \in Nat /\ Drop(ls, y + 1) \in Seq(Seq(Chars)) /\ Len(Drop(ls, y + 1)) = n - y - 1
  <2> HIDE DEF y, ls, n
  <2> QED
    BY <1>1, <1>2, LineOf DEF n
<1>4. Last(ls) = l
  BY <1>2 DEF Last
<1>5. OnSheet(ls, x, y)
  BY <1>2, <1>3 DEF OnSheet
<1>6. OnSheet(ls, o, o) /\ ls[o + 1] \in Seq(Chars) /\ Take(ls, o) = <<>>
  <2>1. ls[o + 1] \in Seq(Chars) /\ Len(ls[o + 1]) \in Nat
    <3> HIDE DEF o, ls, n
    <3> QED
      BY <1>1, <1>2, LineOf DEF n
  <2>2. Take(ls, o) = <<>>
    BY <1>1, Extremes DEF Sheets
  <2> QED
    BY <1>2, <2>1, <2>2 DEF OnSheet
<1>7. Offset(ls, o, o) = 0
  <2>1. <<>> \in Seq(Chars) /\ Append(<<>>, <<>>) = << <<>> >>
    BY LinesAreTexts
  <2>2. Join(<< <<>> >>) = <<>>
    BY <2>1, JoinOne
  <2>3. Len(<<>>) = 0
    BY EmptySeq
  <2> HIDE DEF ls
  <2>4. Offset(ls, o, o) = Len(Join(Append(Take(ls, o), <<>>))) + o
    BY DEF Offset
  <2>5. Join(Append(Take(ls, o), <<>>)) = <<>>
    BY <1>6, <2>1, <2>2, Zenon
  <2>6. Offset(ls, o, o) = Len(<<>>) + o
    BY <2>4, <2>5, Zenon
  <2> QED
    BY <2>3, <2>6
<1>8. Offset(ls, x, y) = Len(Join(ls))
  <2> HIDE DEF x
  <2>1. Lower(ls, x, y) = <<Drop(l, x)>> \o Drop(ls, y + 1)
    BY DEF Lower
  <2>2. Drop(l, x) = <<>>
    BY <1>3, Extremes DEF x
  <2>3. Drop(ls, y + 1) = <<>>
    BY <1>2, <1>3, EmptySeq
  <2>4. Lower(ls, x, y) = << <<>> >>
    <3>1. <<>> \in Seq(Chars) /\ << <<>> >> \in Seq(Seq(Chars))
      BY LinesAreTexts
    <3>2. << <<>> >> \o <<>> = << <<>> >>
      BY <3>1, ConcatEmptySeq
    <3> QED
      BY <2>1, <2>2, <2>3, <3>2
  <2>5. Join(Lower(ls, x, y)) = <<>> /\ Len(<<>>) = 0
    BY <2>4, LinesAreTexts, JoinOne, EmptySeq
  <2> DEFINE p == Offset(ls, x, y)  T == Join(ls)
  <2>6. Join(Lower(ls, x, y)) = Drop(T, p) /\ p \in 0..Len(T) /\ T \in Text /\ Len(T) \in Nat
    BY <1>1, <1>5, PlaceCuts, JoinText
  <2> HIDE DEF p, T
  <2>7. Len(Drop(T, p)) = Len(T) - p
    BY <2>6, DropIs DEF Text
  <2>8. p = Len(T)
    BY <2>5, <2>6, <2>7
  <2> QED
    BY <2>8 DEF p, T
<1>9. All(d) = [sx |-> o, sy |-> o, ex |-> x, ey |-> y]
  BY <1>4 DEF All
<1>10. o = y => o = d.y
  <2> DEFINE k == d.y
  <2>1. k \in Nat /\ k < n /\ n \in Nat
    BY <1>1
  <2> HIDE DEF k, n
  <2>2. o = y => o = k
    BY <2>1
  <2> QED
    BY <2>2 DEF k
<1> HIDE DEF o, x, y, ls, n
<1>11. OnSheet(d.lines, o, o) /\ OnSheet(d.lines, x, y)
  BY <1>5, <1>6 DEF ls
<1>12. InPlace(d, All(d)) /\ All(d) \in Selections
  BY <1>9, <1>10, <1>11 DEF InPlace, Selections, OnSheet
<1> QED
  BY <1>7, <1>8, <1>9, <1>12 DEF ls, o

LEMMA SelectAllKeeps == EditorInv /\ SelectAll => EditorInv'
<1> SUFFICES ASSUME EditorInv, SelectAll PROVE EditorInv'
  OBVIOUS
<1>1. Typing /\ Show(doc, All(doc)) /\ UNCHANGED <<phase, code, clip>>
  BY DEF SelectAll, All
<1>2. InDoc(doc)
  BY <1>1, StillInPlace
<1>3. InPlace(doc, All(doc)) /\ All(doc) \in Selections
  BY <1>2, AllIs
<1>4. phase' = "input"
  BY <1>1 DEF Typing
<1> DEFINE s == All(doc)
<1>5. Show(doc, s) /\ (s # Nil => s \in Selections) /\ InPlace(doc, s)
  BY <1>1, <1>3
<1> HIDE DEF s
<1> QED
  BY <1>1, <1>2, <1>4, <1>5, ShowPlaced

LEMMA ChooseKeeps == EditorInv /\ ChooseLanguage => EditorInv'
<1> SUFFICES ASSUME EditorInv, ChooseLanguage PROVE EditorInv'
  OBVIOUS
<1>1. phase = "select" /\ phase' = "input" /\ Show(doc, selection) /\ UNCHANGED <<code, clip, outlived>>
  BY DEF ChooseLanguage
<1>2. InDoc(doc)
  BY <1>1 DEF EditorInv, Whole
<1> QED
  BY <1>1, <1>2, SelectionKept

\* What leaves the lines alone, or begins anew.
LEMMA OthersKeep ==
    ASSUME EditorInv, Preview \/ Send \/ Cancel \/ StartOver \/ CopyCode \/ Open
    PROVE  EditorInv'
<1>1. Clips \subseteq Text
  BY EditorAssumption DEF Text
<1>2. ASSUME NEW ls, ls = doc.lines, InDoc(doc) PROVE Join(ls) \in Text
  BY <1>2, DocIs, JoinText
<1>3. CASE Preview
  <2>1. InDoc(doc)
    BY <1>3, StillInPlace DEF Preview
  <2>2. Join(doc.lines) \in Text
    BY <1>2, <2>1
  <2> QED
    BY <1>3, <2>1, <2>2 DEF Preview, EditorInv, Values, Whole, Typing
<1>4. CASE Send \/ Cancel
  BY <1>4, EmptyIs DEF Send, Cancel, Close, EditorInv, Values, Whole
<1>5. CASE StartOver
  BY <1>5, EmptyIs DEF StartOver, EditorInv, Values, Whole
<1>6. CASE CopyCode
  BY <1>6 DEF CopyCode, Written, EditorInv, Values, Whole
<1>7. CASE Open
  <2>1. clip' \in Text
    BY <1>1, <1>7 DEF Open, EditorInv, Values
  <2> QED
    BY <1>7, <2>1, EmptyIs DEF Open, EditorInv, Values, Whole
<1> QED
  BY <1>3, <1>4, <1>5, <1>6, <1>7

LEMMA KeysAreTexts == \A c \in TypedKeys : <<c>> \in Text /\ Len(<<c>>) = 1
<1> SUFFICES ASSUME NEW c \in TypedKeys PROVE <<c>> \in Text /\ Len(<<c>>) = 1
  OBVIOUS
<1>1. c \in Chars \cup {NL}
  BY EditorAssumption
<1> QED
  BY <1>1 DEF Text

LEMMA EditorStep == EditorInv /\ [EditorNext]_editorVars => EditorInv'
<1> SUFFICES ASSUME EditorInv, [EditorNext]_editorVars PROVE EditorInv'
  OBVIOUS
<1>1. ASSUME NEW c \in TypedKeys, TypeKey(c) PROVE EditorInv'
  BY <1>1, KeysAreTexts, PutKeeps DEF TypeKey
<1>2. ASSUME NEW dir \in {"left", "right", "up", "down"}, NEW shift \in BOOLEAN, Move(dir, shift)
      PROVE  EditorInv'
  BY <1>2, MoveKeeps
<1>3. CASE Paste
  BY <1>3, PutKeeps DEF Paste, EditorInv, Values
<1>4. CASE Backspace \/ Delete
  BY <1>4, ErasedKeeps, EraseKeeps DEF Backspace, Delete
<1>5. CASE UNCHANGED editorVars
  BY <1>5 DEF editorVars, EditorInv, Values, Whole
<1> QED
  BY <1>1, <1>2, <1>3, <1>4, <1>5, BreakKeeps, HomeKeeps, SelectAllKeeps, CopyKeeps, CutKeeps, ChooseKeeps, OthersKeep
  DEF EditorNext

\* The editor panics only while it draws or takes a selection that is older
\* than the last change of the lines.
THEOREM PanicsOnlyOutlived == EditorSpec => []CrashOnlyOutlived
<1>1. EditorInv => CrashOnlyOutlived
  BY DEF EditorInv, Whole, CrashOnlyOutlived
<1> QED
  BY <1>1, InitEditor, EditorStep, PTL DEF EditorSpec

----------------------------------------------------------------------------
(* Where the lines are in the text.                                          *)

Starts(ls, y) == Len(Join(Append(Take(ls, y), <<>>)))

LEMMA StartsIs ==
    ASSUME NEW ls \in Sheets
    PROVE  /\ \A x, y : Offset(ls, x, y) = Starts(ls, y) + x
           /\ \A y \in Nat : y < Len(ls) => Starts(ls, y) \in Nat /\ OnSheet(ls, 0, y) /\ OnSheet(ls, Len(ls[y + 1]), y)
           /\ Starts(ls, 0) = 0
<1>1. \A x, y : Offset(ls, x, y) = Starts(ls, y) + x
  BY DEF Offset, Starts
<1>2. ASSUME NEW y \in Nat, y < Len(ls)
      PROVE  Starts(ls, y) \in Nat /\ OnSheet(ls, 0, y) /\ OnSheet(ls, Len(ls[y + 1]), y)
  <2>1. Take(ls, y) \in Seq(Seq(Chars)) /\ Len(ls[y + 1]) \in Nat /\ <<>> \in Seq(Chars)
    BY <1>2, LineOf, LinesAreTexts
  <2>2. Append(Take(ls, y), <<>>) \in Sheets
    BY <2>1, OneMoreLine
  <2>3. Starts(ls, y) \in Nat
    BY <2>2, JoinText DEF Starts
  <2> QED
    BY <1>2, <2>1, <2>3 DEF OnSheet
<1>3. Starts(ls, 0) = 0
  <2>1. <<>> \in Seq(Chars) /\ Append(<<>>, <<>>) = << <<>> >> /\ Len(<<>>) = 0
    BY LinesAreTexts, EmptySeq
  <2>2. Join(<< <<>> >>) = <<>>
    BY <2>1, JoinOne
  <2>3. Take(ls, 0) = <<>>
    BY Extremes DEF Sheets
  <2>4. Join(Append(Take(ls, 0), <<>>)) = <<>>
    BY <2>1, <2>2, <2>3, Zenon
  <2> QED
    BY <2>1, <2>4, Zenon DEF Starts
<1> QED
  BY <1>1, <1>2, <1>3

\* A line begins behind the newline that ends the line before it.
LEMMA NextLine ==
    ASSUME NEW ls \in Sheets, NEW y \in Nat, y + 1 < Len(ls)
    PROVE  /\ Starts(ls, y + 1) = Starts(ls, y) + Len(ls[y + 1]) + 1
           /\ Join(ls)[Starts(ls, y + 1)] = NL
<1> DEFINE F == Take(ls, y)  l == ls[y + 1]  H == Append(F, <<>>)  G == Append(F, l)  T == Join(ls)
           o == 0  k == y + 1  p == Starts(ls, k)  J == Join(G)
<1>1. Len(ls) \in Nat /\ y < Len(ls) /\ k \in Nat /\ k < Len(ls)
  BY OfSheet
<1>2. F \in Seq(Seq(Chars)) /\ l \in Seq(Chars) /\ Len(l) \in Nat /\ <<>> \in Seq(Chars)
  BY <1>1, LineOf, LinesAreTexts
<1>3. Take(ls, k) = G
  <2>1. ls \in Seq(Seq(Chars)) /\ 1 \in 1..Len(ls) /\ k \in 1..Len(ls) /\ k - 1 = y
    BY <1>1, OfSheet
  <2> DEFINE C == Seq(Chars)  q == 1
  <2>2. ls \in Seq(C) /\ q \in 1..Len(ls) /\ k \in q..Len(ls)
    BY <2>1
  <2> HIDE DEF C, q, k
  <2>3. SubSeq(ls, q, k) = SubSeq(ls, q, k - 1) \o <<ls[k]>>
    BY <2>2, SubSeqRecursiveSecond
  <2>4. Take(ls, k) = F \o <<l>>
    BY <2>1, <2>3 DEF Take, q, k
  <2> QED
    BY <1>2, <2>4, AppendIsConcat
<1> HIDE DEF F, l
<1>4. G \in Sheets /\ H \in Sheets
  BY <1>2, OneMoreLine
<1>5. J = Join(H) \o l
  <2>1. <<>> \o l = l
    BY <1>2, ConcatEmptySeq
  <2>2. Join(Append(F, <<>> \o l)) = Join(H) \o l
    BY <1>2, JoinLast
  <2> QED
    BY <2>1, <2>2
<1>6. Join(H) \in Text /\ J \in Text /\ l \in Text /\ <<NL>> \in Text /\ Len(<<NL>>) = 1 /\ <<NL>>[1] = NL
  BY <1>2, <1>4, JoinText, LinesAreTexts
<1>7. Len(J) = Len(Join(H)) + Len(l) /\ Len(Join(H)) \in Nat /\ Len(J) \in Nat
  <2> HIDE DEF H, J
  <2>1. Len(Join(H) \o l) = Len(Join(H)) + Len(l) /\ Len(Join(H)) \in Nat
    BY <1>6, ConcatIs DEF Text
  <2> QED
    BY <1>2, <1>5, <2>1
<1> DEFINE K == J \o <<NL>>
<1>8. Join(Append(G, <<>>)) = K
  <2>1. Join(Append(G, <<>>)) = K \o <<>>
    BY <1>2, <1>4, JoinMore
  <2>2. K \in Text
    BY <1>6, ConcatProperties DEF Text
  <2>3. K \o <<>> = K
    BY <2>2, ConcatEmptySeq DEF Text
  <2> QED
    BY <2>1, <2>3
<1> HIDE DEF G, H, J
<1>9. Len(K) = Len(J) + 1 /\ K[Len(J) + 1] = NL
  <2> DEFINE e == <<NL>>
  <2>1. e \in Text /\ Len(e) = 1 /\ e[1] = NL
    BY <1>6
  <2> HIDE DEF e
  <2> DEFINE C == Chars \cup {NL}
  <2>2. J \in Seq(C) /\ e \in Seq(C)
    BY <1>6, <2>1 DEF Text
  <2> HIDE DEF C
  <2>3. Len(J \o e) = Len(J) + Len(e) /\ \A i \in 1..Len(e) : (J \o e)[Len(J) + i] = e[i]
    BY <2>2, ConcatIs
  <2>4. 1 \in 1..Len(e)
    BY <2>1
  <2>5. (J \o e)[Len(J) + 1] = e[1]
    BY <2>3, <2>4
  <2> QED
    BY <2>1, <2>3, <2>5 DEF e
<1>10. p = Len(K)
  BY <1>3, <1>8 DEF Starts
<1>11. Starts(ls, y) = Len(Join(H))
  BY DEF Starts, H, F
<1>12. OnSheet(ls, o, k) /\ Offset(ls, o, k) = p
  <2>1. OnSheet(ls, o, k)
    BY <1>1, StartsIs
  <2>2. Offset(ls, o, k) = p + o /\ p \in Nat
    BY <1>1, StartsIs
  <2> QED
    BY <2>1, <2>2
<1>13. T[p] = NL
  <2>1. /\ p \in 0..Len(T) /\ Join(Upper(ls, o, k)) = Take(T, p) /\ T \in Text
    <3> HIDE DEF o, k, p, T
    <3>1. OnSheet(ls, o, k)
      BY <1>12
    <3> QED
      BY <1>12, <3>1, PlaceCuts, JoinText DEF T
  <2>2. Upper(ls, o, k) = Append(G, <<>>)
    <3>1. Take(ls[k + 1], o) = <<>>
      BY <1>1, LineOf, Extremes
    <3> QED
      BY <1>3, <3>1 DEF Upper
  <2>3. Take(T, p) = K
    BY <1>8, <2>1, <2>2
  <2> HIDE DEF T, p, K
  <2>4. \A i \in 1..p : Take(T, p)[i] = T[i]
    BY <2>1, TakeIs DEF Text
  <2>5. p \in 1..p
    BY <1>7, <1>9, <1>10
  <2> QED
    BY <1>9, <1>10, <2>3, <2>4, <2>5
<1> QED
  BY <1>7, <1>9, <1>10, <1>11, <1>13 DEF p, k, T, l, K

LineEnd(ls, y) == Starts(ls, y) + Len(ls[y + 1])

\* Where a line is in the text, and what is around it.
LEMMA LineInText ==
    ASSUME NEW ls \in Sheets, NEW y \in Nat, y < Len(ls)
    PROVE  LET T == Join(ls)  B == Starts(ls, y)  E == LineEnd(ls, y)
           IN /\ T \in Text /\ Len(T) \in Nat /\ B \in Nat /\ E \in Nat /\ B <= E /\ E <= Len(T)
              /\ \A k \in (B + 1)..E : T[k] # NL
<1> DEFINE T == Join(ls)  B == Starts(ls, y)  E == LineEnd(ls, y)  l == ls[y + 1]  o == 0  x == Len(l)
           c == Chars \cup {NL}
<1>1. OnSheet(ls, o, y) /\ OnSheet(ls, x, y) /\ x \in Nat /\ B \in Nat /\ l \in Seq(Chars)
  BY StartsIs, LineOf
<1>2. Offset(ls, o, y) = B /\ Offset(ls, x, y) = E
  <2>1. Offset(ls, o, y) = B + o /\ Offset(ls, x, y) = B + x
    BY StartsIs
  <2> QED
    BY <1>1, <2>1 DEF LineEnd
<1>3. E \in Nat /\ B <= E /\ E = B + x
  BY <1>1 DEF LineEnd
<1>4. T \in Text /\ Len(T) \in Nat
  BY JoinText
<1> HIDE DEF o, x, l, T, B, E
<1>5. E <= Len(T)
  <2>1. Offset(ls, x, y) \in 0..Len(Join(ls))
    BY <1>1, PlaceCuts
  <2> QED
    BY <1>2, <1>4, <2>1 DEF T
<1>6. Join(<<SubSeq(l, o + 1, x)>>) = SubSeq(T, B + 1, E)
  <2>1. NotBehind(o, y, x, y)
    BY <1>1 DEF NotBehind, o
  <2>2. Join(Between(ls, o, y, x, y)) = SubSeq(Join(ls), Offset(ls, o, y) + 1, Offset(ls, x, y))
    BY <1>1, <2>1, BetweenInText
  <2>3. Between(ls, o, y, x, y) = <<SubSeq(l, o + 1, x)>>
    BY DEF Between, l
  <2> QED
    BY <1>2, <2>2, <2>3 DEF T
<1>7. SubSeq(l, o + 1, x) = l
  BY <1>1, Extremes DEF o, x, Take
<1>8. l = SubSeq(T, B + 1, E)
  BY <1>1, <1>6, <1>7, JoinOne
<1>9. ASSUME NEW k \in (B + 1)..E PROVE T[k] # NL
  <2> DEFINE i == k - B
  <2>1. i \in 1..x /\ k \in Int /\ (B + 1) + i - 1 = k
    BY <1>1, <1>3
  <2>2. \A j \in (B + 1)..E : T[j] \in c
    <3>1. \A j \in 1..Len(T) : T[j] \in c
      BY <1>4, ElementOfSeq DEF Text
    <3> QED
      BY <1>1, <1>3, <1>4, <1>5, <3>1
  <2>3. B + 1 \in Int /\ E \in Int
    BY <1>1, <1>3
  <2>4. E - (B + 1) + 1 = x /\ B + 1 <= E
    BY <1>1, <1>3, <2>1
  <2>5. \A j \in 1..(E - (B + 1) + 1) : SubSeq(T, B + 1, E)[j] = T[(B + 1) + j - 1]
    <3> DEFINE m == B + 1
    <3>1. m \in Int /\ \A j \in m..E : T[j] \in c
      BY <2>2, <2>3
    <3> HIDE DEF m, c
    <3>2. \A j \in 1..(E - m + 1) : SubSeq(T, m, E)[j] = T[m + j - 1]
      BY <2>3, <3>1, SubSeqProperties
    <3> QED
      BY <3>2 DEF m
  <2>6. l[i] = T[k]
    BY <1>8, <2>1, <2>4, <2>5
  <2>7. l[i] \in Chars
    BY <1>1, <2>1, ElementOfSeq DEF x
  <2> QED
    BY <2>6, <2>7, EditorAssumption
<1> QED
  BY <1>1, <1>3, <1>4, <1>5, <1>9 DEF T, B, E

LEMMA FirstLine == ASSUME NEW ls \in Sheets PROVE Starts(ls, 0) = 0 /\ 0 < Len(ls)
BY StartsIs, OfSheet

LEMMA LastLine ==
    ASSUME NEW ls \in Sheets, NEW y \in Nat, y + 1 = Len(ls)
    PROVE  LineEnd(ls, y) = Len(Join(ls))
<1> DEFINE o == 0  d == [lines |-> ls, x |-> o, y |-> o]
<1>1. OnSheet(ls, o, o)
  BY StartsIs, OfSheet
<1>2. InDoc(d)
  BY <1>1 DEF InDoc, Documents, OnSheet
<1>3. Offset(d.lines, All(d).ex, All(d).ey) = Len(Join(d.lines))
  <2> HIDE DEF d
  <2> QED
    BY <1>2, AllIs
<1>4. All(d).ex = Len(ls[y + 1]) /\ All(d).ey = y
  BY DEF All, Last
<1>5. Offset(ls, Len(ls[y + 1]), y) = Starts(ls, y) + Len(ls[y + 1])
  BY StartsIs
<1> QED
  BY <1>3, <1>4, <1>5 DEF LineEnd

\* The line of a place of the text T, found from the text alone.
BeginOf(T, p) == CHOOSE i \in 0..p : (i = 0 \/ T[i] = NL) /\ \A k \in i+1..p : T[k] # NL
EndOf(T, p) == CHOOSE i \in p..Len(T) : (i = Len(T) \/ T[i + 1] = NL) /\ \A k \in p+1..i : T[k] # NL

LEMMA BeginUnique ==
    ASSUME NEW T, NEW B \in Nat, NEW p \in Nat, B <= p, B = 0 \/ T[B] = NL, \A k \in (B + 1)..p : T[k] # NL
    PROVE  BeginOf(T, p) = B
<1> DEFINE Ok(i) == (i = 0 \/ T[i] = NL) /\ \A k \in i+1..p : T[k] # NL
<1>1. B \in 0..p /\ Ok(B)
  OBVIOUS
<1>2. ASSUME NEW i \in 0..p, Ok(i) PROVE i = B
  <2>1. CASE i < B
    <3>1. B \in i+1..p /\ B # 0
      BY <2>1
    <3> QED
      BY <1>2, <3>1
  <2>2. CASE B < i
    <3>1. i \in (B + 1)..p /\ i # 0
      BY <2>2
    <3> QED
      BY <1>2, <3>1
  <2> QED
    BY <2>1, <2>2
<1>3. BeginOf(T, p) = CHOOSE i \in 0..p : Ok(i)
  BY DEF BeginOf
<1> HIDE DEF Ok
<1> QED
  BY <1>1, <1>2, <1>3

LEMMA EndUnique ==
    ASSUME NEW T, Len(T) \in Nat, NEW E \in Nat, NEW p \in Nat, p <= E, E <= Len(T),
           E = Len(T) \/ T[E + 1] = NL, \A k \in (p + 1)..E : T[k] # NL
    PROVE  EndOf(T, p) = E
<1> DEFINE n == Len(T)  Ok(i) == (i = n \/ T[i + 1] = NL) /\ \A k \in p+1..i : T[k] # NL
<1> HIDE DEF n
<1>1. E \in p..n /\ Ok(E) /\ n \in Nat /\ E <= n
  BY DEF n
<1>2. ASSUME NEW i \in p..n, Ok(i) PROVE i = E
  <2>1. CASE i < E
    <3>1. i + 1 \in (p + 1)..E /\ i # n
      BY <1>1, <2>1
    <3> QED
      BY <1>2, <3>1
  <2>2. CASE E < i
    <3>1. E + 1 \in p+1..i /\ E # n
      BY <1>1, <2>2
    <3> QED
      BY <1>1, <1>2, <3>1
  <2> QED
    BY <1>1, <2>1, <2>2
<1>3. EndOf(T, p) = CHOOSE i \in p..n : Ok(i)
  BY DEF EndOf, n
<1> HIDE DEF Ok
<1> QED
  BY <1>1, <1>2, <1>3

LEMMA LineOfPlace ==
    ASSUME NEW ls \in Sheets, NEW x, NEW y, OnSheet(ls, x, y)
    PROVE  LET T == Join(ls)  p == Offset(ls, x, y)  B == Starts(ls, y)  E == LineEnd(ls, y)
           IN /\ p = B + x /\ B \in Nat /\ E \in Nat /\ p \in Nat /\ B <= p /\ p <= E /\ E <= Len(T) /\ Len(T) \in Nat
              /\ E = B + Len(ls[y + 1])
              /\ IF y = 0 THEN B = 0 ELSE B = LineEnd(ls, y - 1) + 1 /\ B # 0
              /\ IF y + 1 = Len(ls) THEN E = Len(T) ELSE Starts(ls, y + 1) = E + 1 /\ E # Len(T) /\ y + 1 < Len(ls)
              /\ BeginOf(T, p) = B /\ EndOf(T, p) = E
<1> DEFINE T == Join(ls)  p == Offset(ls, x, y)  B == Starts(ls, y)  E == LineEnd(ls, y)  l == ls[y + 1]  n == Len(ls)
           k == y - 1  m == y + 1  F == Starts(ls, m)
<1>1. x \in Nat /\ y \in Nat /\ y < n /\ x <= Len(l) /\ Len(l) \in Nat /\ n \in Nat
  BY LineOf, OfSheet DEF OnSheet
<1>2. /\ T \in Text /\ Len(T) \in Nat /\ B \in Nat /\ E \in Nat /\ B <= E /\ E <= Len(T)
      /\ \A i \in (B + 1)..E : T[i] # NL
  BY <1>1, LineInText
<1>3. p = B + x /\ E = B + Len(l)
  BY StartsIs DEF LineEnd
<1>4. p \in Nat /\ B <= p /\ p <= E
  <2> HIDE DEF B, E, p, l
  <2> QED
    BY <1>1, <1>2, <1>3
<1>5. IF y = 0 THEN B = 0 ELSE B = LineEnd(ls, k) + 1 /\ B # 0 /\ T[B] = NL
  <2>1. CASE y = 0
    BY <2>1, FirstLine
  <2>2. CASE y # 0
    <3>1. k \in Nat /\ k + 1 < n /\ k + 1 = y /\ k < n
      BY <1>1, <2>2
    <3> HIDE DEF k
    <3>2. Starts(ls, k + 1) = Starts(ls, k) + Len(ls[k + 1]) + 1 /\ T[Starts(ls, k + 1)] = NL
      BY <3>1, NextLine
    <3>3. LineEnd(ls, k) \in Nat
      BY <3>1, LineInText
    <3>4. B = LineEnd(ls, k) + 1 /\ T[B] = NL
      BY <3>1, <3>2 DEF LineEnd
    <3> QED
      BY <2>2, <3>3, <3>4
  <2> QED
    BY <2>1, <2>2
<1>6. IF m = n THEN E = Len(T) ELSE F = E + 1 /\ E # Len(T) /\ T[E + 1] = NL /\ m < n
  <2>1. CASE m = n
    BY <1>1, <2>1, LastLine
  <2>2. CASE m # n
    <3>1. m \in Nat /\ m < n
      BY <1>1, <2>2
    <3>2. F = Starts(ls, y) + Len(ls[y + 1]) + 1 /\ T[F] = NL
      BY <1>1, <3>1, NextLine
    <3>3. F = E + 1
      BY <1>3, <3>2
    <3>4. F <= Len(T)
      <4> HIDE DEF m
      <4>1. F \in Nat /\ LineEnd(ls, m) \in Nat /\ F <= LineEnd(ls, m) /\ LineEnd(ls, m) <= Len(T)
        BY <3>1, LineInText
      <4> HIDE DEF F, T
      <4> QED
        BY <1>2, <4>1
    <3>5. E # Len(T)
      <4> HIDE DEF E, F, T
      <4> QED
        BY <1>2, <3>3, <3>4
    <3> QED
      BY <2>2, <3>1, <3>2, <3>3, <3>5
  <2> QED
    BY <2>1, <2>2
<1>7. BeginOf(T, p) = B
  <2>1. B = 0 \/ T[B] = NL
    BY <1>5
  <2>2. \A i \in (B + 1)..p : T[i] # NL
    <3> HIDE DEF B, E, p, T
    <3> QED
      BY <1>2, <1>4
  <2> HIDE DEF B, p, T
  <2> QED
    BY <1>2, <1>4, <2>1, <2>2, BeginUnique
<1>8. EndOf(T, p) = E
  <2>1. E = Len(T) \/ T[E + 1] = NL
    BY <1>6
  <2>2. \A i \in (p + 1)..E : T[i] # NL
    <3> HIDE DEF B, E, p, T
    <3> QED
      BY <1>2, <1>4
  <2> HIDE DEF E, p, T
  <2> QED
    BY <1>2, <1>4, <2>1, <2>2, EndUnique
<1> QED
  BY <1>2, <1>3, <1>4, <1>5, <1>6, <1>7, <1>8

\* The places left and right of a place are one character away, across the
\* ends of lines too.
LEMMA LeftIs ==
    ASSUME NEW d, InDoc(d)
    PROVE  LET p == Offset(d.lines, d.x, d.y)
           IN /\ Offset(d.lines, LeftX(d), LeftY(d)) = IF p > 0 THEN p - 1 ELSE p
              /\ p = 0 <=> (d.x = 0 /\ d.y = 0)
<1> DEFINE ls == d.lines  x == d.x  y == d.y  p == Offset(ls, x, y)  B == Starts(ls, y)  k == y - 1  w == Len(ls[k + 1])
           A == Starts(ls, k)
<1>1. ls \in Sheets /\ x \in Nat /\ y \in Nat /\ OnSheet(ls, x, y)
  BY DocIs
<1>2. p = B + x /\ B \in Nat /\ p \in Nat /\ IF y = 0 THEN B = 0 ELSE B = LineEnd(ls, y - 1) + 1 /\ B # 0
  <2> HIDE DEF ls, x, y
  <2> QED
    BY <1>1, LineOfPlace
<1>3. \A i, j : Offset(ls, i, j) = Starts(ls, j) + i
  BY <1>1, StartsIs
<1>4. CASE x > 0
  <2>1. LeftX(d) = x - 1 /\ LeftY(d) = y
    BY <1>4 DEF LeftX, LeftY
  <2>2. Offset(ls, LeftX(d), LeftY(d)) = B + (x - 1)
    BY <1>3, <2>1
  <2>3. B + (x - 1) = p - 1 /\ p > 0
    <3> HIDE DEF B, x, p
    <3> QED
      BY <1>1, <1>2, <1>4
  <2> QED
    BY <1>4, <2>2, <2>3
<1>5. CASE x = 0 /\ y > 0
  <2>1. LeftX(d) = w /\ LeftY(d) = k
    BY <1>5 DEF LeftX, LeftY, Line
  <2>2. Offset(ls, LeftX(d), LeftY(d)) = A + w
    BY <1>3, <2>1
  <2>3. p = B /\ B = A + w + 1 /\ y # 0
    BY <1>2, <1>5 DEF LineEnd
  <2>4. A + w \in Int
    <3>1. k \in Nat /\ k < Len(ls)
      BY <1>1, <1>5, OfSheet DEF OnSheet
    <3>2. A \in Nat /\ w \in Nat
      <4> HIDE DEF k, ls
      <4> QED
        BY <1>1, <3>1, StartsIs, LineOf
    <3> QED
      BY <3>2
  <2>5. A + w = p - 1 /\ p > 0
    <3> DEFINE z == A + w
    <3>1. z \in Int /\ p = z + 1
      BY <2>3, <2>4
    <3> HIDE DEF z, p
    <3>2. z = p - 1 /\ p > 0
      <4>1. p # 0
        BY <1>2, <1>5, SMTT(30) DEF p
      <4> QED
        BY <1>2, <3>1, <4>1
    <3> QED
      BY <3>2 DEF z
  <2> QED
    BY <1>5, <2>2, <2>5
<1>6. CASE x = 0 /\ y = 0
  <2>1. LeftX(d) = x /\ LeftY(d) = y
    BY <1>6 DEF LeftX, LeftY
  <2>2. p = 0
    BY <1>2, <1>6
  <2> QED
    BY <1>6, <2>1, <2>2
<1> QED
  BY <1>1, <1>4, <1>5, <1>6

LEMMA RightIs ==
    ASSUME NEW d, InDoc(d)
    PROVE  LET T == Join(d.lines)  p == Offset(d.lines, d.x, d.y)
           IN Offset(d.lines, RightX(d), RightY(d)) = Buffer!Least(p + 1, Len(T))
<1> DEFINE ls == d.lines  x == d.x  y == d.y  T == Join(ls)  t == Len(T)  p == Offset(ls, x, y)  B == Starts(ls, y)
           n == Len(ls)  w == Len(ls[y + 1])  E == LineEnd(ls, y)  q == Offset(ls, RightX(d), RightY(d))
<1>1. ls \in Sheets /\ x \in Nat /\ y \in Nat /\ OnSheet(ls, x, y) /\ n \in Nat /\ y < n /\ w \in Nat /\ x <= w
  BY DocIs, OfSheet, LineOf DEF OnSheet
<1>2. /\ p = B + x /\ B \in Nat /\ E \in Nat /\ p \in Nat /\ p <= E /\ E <= t /\ t \in Nat /\ E = B + w
      /\ IF y + 1 = n THEN E = t ELSE Starts(ls, y + 1) = E + 1 /\ E # t /\ y + 1 < n
  <2> HIDE DEF ls, x, y
  <2> QED
    BY <1>1, LineOfPlace
<1>3. \A i, j : Offset(ls, i, j) = Starts(ls, j) + i
  BY <1>1, StartsIs
<1>4. /\ RightX(d) = IF x < w THEN x + 1 ELSE IF y < n - 1 THEN 0 ELSE x
      /\ RightY(d) = IF x < w \/ ~(y < n - 1) THEN y ELSE y + 1
  BY DEF RightX, RightY, Line
<1>5. q = Starts(ls, RightY(d)) + RightX(d)
  BY <1>3
<1>6. ASSUME x < w PROVE q = Buffer!Least(p + 1, t)
  <2>1. q = B + (x + 1)
    BY <1>4, <1>5, <1>6
  <2> HIDE DEF B, x, w, t, p, E, q
  <2>2. q = p + 1 /\ p + 1 <= t
    BY <1>1, <1>2, <1>6, <2>1
  <2> QED
    BY <2>2 DEF Buffer!Least
<1>7. ASSUME ~(x < w) /\ y < n - 1 PROVE q = Buffer!Least(p + 1, t)
  <2>1. q = Starts(ls, y + 1) + 0
    BY <1>4, <1>5, <1>7
  <2>2. x = w /\ y + 1 # n
    <3> HIDE DEF x, w, y, n
    <3> QED
      BY <1>1, <1>7
  <2>3. Starts(ls, y + 1) = E + 1 /\ E # t /\ p = E
    BY <1>2, <2>2
  <2>4. q = p + 1 /\ p + 1 <= t
    <3> HIDE DEF t, p, E, q
    <3> QED
      BY <1>2, <2>1, <2>3
  <2> QED
    BY <2>4 DEF Buffer!Least
<1>8. ASSUME ~(x < w) /\ ~(y < n - 1) PROVE q = Buffer!Least(p + 1, t)
  <2>1. q = B + x
    BY <1>4, <1>5, <1>8
  <2>2. x = w /\ y + 1 = n
    <3> HIDE DEF x, w, y, n
    <3> QED
      BY <1>1, <1>8
  <2>3. q = p /\ p = t
    BY <1>2, <2>1, <2>2
  <2>4. ~(p + 1 <= t)
    <3> HIDE DEF p, t
    <3> QED
      BY <1>2, <2>3
  <2> QED
    BY <2>3, <2>4 DEF Buffer!Least
<1>9. q = Buffer!Least(p + 1, t)
  <2> HIDE DEF q, p, t, w, n, x, y
  <2> QED
    BY <1>6, <1>7, <1>8
<1> QED
  BY <1>9

\* Another line, in the same column or at its end.
LEMMA OnLineIs ==
    ASSUME NEW d, InDoc(d), NEW k \in Nat, k < Len(d.lines)
    PROVE  Offset(d.lines, OnLine(d, k).x, OnLine(d, k).y)
           = Buffer!Least(Starts(d.lines, k) + d.x, LineEnd(d.lines, k))
<1> DEFINE ls == d.lines  x == d.x  w == Len(ls[k + 1])  A == Starts(ls, k)  E == LineEnd(ls, k)
           c == IF x > w THEN w ELSE x
<1>1. ls \in Sheets /\ x \in Nat /\ w \in Nat /\ A \in Nat /\ E = A + w
  <2>1. ls \in Sheets /\ x \in Nat
    BY DocIs
  <2>2. w \in Nat /\ A \in Nat
    <3> HIDE DEF ls
    <3> QED
      BY <2>1, StartsIs, LineOf DEF ls
  <2> QED
    BY <2>1, <2>2 DEF LineEnd
<1>2. OnLine(d, k).x = c /\ OnLine(d, k).y = k
  <2>1. d = [lines |-> ls, x |-> x, y |-> d.y]
    BY DocIs
  <2>2. OnLine(d, k) = [d EXCEPT !.y = k, !.x = c]
    BY DEF OnLine, Line
  <2> HIDE DEF c
  <2> QED
    BY <2>1, <2>2
<1>3. Offset(ls, OnLine(d, k).x, OnLine(d, k).y) = A + c
  BY <1>1, <1>2, StartsIs
<1>4. A + c = Buffer!Least(A + x, E)
  <2> HIDE DEF A, x, w, E
  <2> QED
    BY <1>1 DEF Buffer!Least
<1> QED
  BY <1>3, <1>4

LEMMA UpIs ==
    ASSUME NEW d, InDoc(d)
    PROVE  LET T == Join(d.lines)  p == Offset(d.lines, d.x, d.y)  B == BeginOf(T, p)
               u == Moved(d, "up")
           IN Offset(d.lines, u.x, u.y)
              = IF B = 0 THEN p ELSE Buffer!Least(BeginOf(T, B - 1) + (p - B), B - 1)
<1> DEFINE ls == d.lines  x == d.x  y == d.y  T == Join(ls)  p == Offset(ls, x, y)  B == BeginOf(T, p)
           k == y - 1  w == Len(ls[k + 1])  u == Moved(d, "up")  A == Starts(ls, k)
           g == Offset(ls, u.x, u.y)
           r == IF B = 0 THEN p ELSE Buffer!Least(BeginOf(T, B - 1) + (p - B), B - 1)
<1>1. ls \in Sheets /\ x \in Nat /\ y \in Nat /\ OnSheet(ls, x, y) /\ y < Len(ls) /\ Len(ls) \in Nat
  BY DocIs, OfSheet DEF OnSheet
<1>2. p = B + x /\ B \in Nat /\ IF y = 0 THEN B = 0 ELSE B = LineEnd(ls, k) + 1 /\ B # 0
  <2> HIDE DEF ls, x, y
  <2>1. B = Starts(ls, y)
    BY <1>1, LineOfPlace
  <2> HIDE DEF B, p
  <2> QED
    BY <1>1, <2>1, LineOfPlace DEF p
<1>3. ASSUME y = 0 PROVE g = r
  <2>1. u = d
    BY <1>3 DEF Moved
  <2>2. B = 0
    BY <1>2, <1>3
  <2> HIDE DEF u, B
  <2> QED
    BY <2>1, <2>2
<1>4. ASSUME y > 0 PROVE g = r
  <2>1. u = OnLine(d, k) /\ k \in Nat /\ k < Len(ls)
    BY <1>1, <1>4 DEF Moved
  <2>2. g = Buffer!Least(A + x, LineEnd(ls, k))
    <3> HIDE DEF k
    <3> QED
      BY <2>1, OnLineIs
  <2>3. OnSheet(ls, w, k) /\ Offset(ls, w, k) = A + w /\ w \in Nat
    <3> HIDE DEF k, ls
    <3> QED
      BY <1>1, <2>1, StartsIs, LineOf
  <2>4. LineEnd(ls, k) = A + w /\ LineEnd(ls, k) \in Nat
    <3> HIDE DEF k, ls
    <3>1. LineEnd(ls, k) \in Nat
      BY <1>1, <2>1, LineInText
    <3> QED
      BY <3>1 DEF LineEnd
  <2>5. BeginOf(T, LineEnd(ls, k)) = A
    <3> HIDE DEF k, ls, w
    <3>1. BeginOf(Join(ls), Offset(ls, w, k)) = Starts(ls, k)
      BY <1>1, <2>3, LineOfPlace
    <3> QED
      BY <2>3, <2>4, <3>1
  <2>6. B # 0 /\ B = LineEnd(ls, k) + 1
    BY <1>2, <1>4
  <2>7. B - 1 = LineEnd(ls, k) /\ p - B = x
    <3> HIDE DEF B, p, x, k
    <3> QED
      BY <1>1, <1>2, <2>4, <2>6
  <2>8. r = Buffer!Least(BeginOf(T, B - 1) + (p - B), B - 1)
    BY <2>6
  <2> HIDE DEF B, p, x, k, r, g, A, T
  <2> QED
    BY <2>2, <2>5, <2>7, <2>8
<1>5. g = r
  BY <1>1, <1>3, <1>4
<1> QED
  BY <1>5

LEMMA DownIs ==
    ASSUME NEW d, InDoc(d)
    PROVE  LET T == Join(d.lines)  p == Offset(d.lines, d.x, d.y)  B == BeginOf(T, p)  E == EndOf(T, p)
               u == Moved(d, "down")
           IN Offset(d.lines, u.x, u.y)
              = IF E = Len(T) THEN p ELSE Buffer!Least((E + 1) + (p - B), EndOf(T, E + 1))
<1> DEFINE ls == d.lines  x == d.x  y == d.y  T == Join(ls)  p == Offset(ls, x, y)  B == BeginOf(T, p)  E == EndOf(T, p)
           k == y + 1  u == Moved(d, "down")  A == Starts(ls, k)  o == 0  n == Len(ls)
           g == Offset(ls, u.x, u.y)
           r == IF E = Len(T) THEN p ELSE Buffer!Least((E + 1) + (p - B), EndOf(T, E + 1))
<1>1. ls \in Sheets /\ x \in Nat /\ y \in Nat /\ OnSheet(ls, x, y) /\ y < n /\ n \in Nat
  BY DocIs, OfSheet DEF OnSheet
<1>2. p = B + x /\ B \in Nat /\ E \in Nat /\ IF k = n THEN E = Len(T) ELSE A = E + 1 /\ E # Len(T) /\ k < n
  <2> HIDE DEF ls, x, y
  <2>1. B = Starts(ls, y) /\ E = LineEnd(ls, y)
    BY <1>1, LineOfPlace
  <2> HIDE DEF B, E, p
  <2> QED
    BY <1>1, <2>1, LineOfPlace DEF p
<1>3. ASSUME k = n PROVE g = r
  <2>1. u = d
    BY <1>1, <1>3 DEF Moved
  <2>2. E = Len(T)
    BY <1>2, <1>3
  <2> HIDE DEF u, E
  <2> QED
    BY <2>1, <2>2
<1>4. ASSUME k # n PROVE g = r
  <2>1. A = E + 1 /\ E # Len(T) /\ k < n /\ k \in Nat
    BY <1>1, <1>2, <1>4
  <2>2. u = OnLine(d, k)
    BY <1>1, <2>1 DEF Moved
  <2>3. g = Buffer!Least(A + x, LineEnd(ls, k))
    <3> HIDE DEF k
    <3> QED
      BY <2>1, <2>2, OnLineIs
  <2>4. OnSheet(ls, o, k) /\ Offset(ls, o, k) = A
    <3> HIDE DEF k, ls, o
    <3>1. OnSheet(ls, 0, k) /\ Offset(ls, o, k) = A + o /\ A \in Nat
      BY <1>1, <2>1, StartsIs
    <3> QED
      BY <3>1 DEF o
  <2>5. EndOf(T, A) = LineEnd(ls, k)
    <3> HIDE DEF k, ls, o
    <3>1. EndOf(Join(ls), Offset(ls, o, k)) = LineEnd(ls, k)
      BY <1>1, <2>4, LineOfPlace
    <3> QED
      BY <2>4, <3>1
  <2>6. p - B = x
    <3> HIDE DEF B, p, x
    <3> QED
      BY <1>1, <1>2
  <2>7. r = Buffer!Least((E + 1) + (p - B), EndOf(T, E + 1))
    BY <2>1
  <2> HIDE DEF B, E, p, x, k, r, g, A, T
  <2> QED
    BY <2>1, <2>3, <2>5, <2>6, <2>7
<1>5. g = r
  BY <1>3, <1>4
<1> QED
  BY <1>5

----------------------------------------------------------------------------
(* The editor of lines and the flat text.                                    *)

LowOf == Offset(doc.lines, SelectionBounds(selection).sx, SelectionBounds(selection).sy)
HighOf == Offset(doc.lines, SelectionBounds(selection).ex, SelectionBounds(selection).ey)

LEMMA PlaceIs == \A x, y : Place(x, y) = Offset(doc.lines, x, y)
BY DEF Place, Offset

LEMMA NilIsNoPlace == \A p \in Nat : p # Nil
BY EditorAssumption

\* The bounds of a selection in the text.
LEMMA LowHigh ==
    ASSUME selection # Nil, InPlace(doc, selection), doc.lines \in Sheets
    PROVE  /\ Buffer!Low = LowOf /\ Buffer!High = HighOf
           /\ Place(selection.sx, selection.sy) # Nil
<1> DEFINE s == selection  ls == doc.lines  b == SelectionBounds(s)
           m == Offset(ls, s.sx, s.sy)  h == Offset(ls, s.ex, s.ey)
<1>1. OnSheet(ls, s.sx, s.sy) /\ OnSheet(ls, s.ex, s.ey)
  BY DEF InPlace
<1>2. s.sx \in Nat /\ s.sy \in Nat /\ s.ex \in Nat /\ s.ey \in Nat
  BY <1>1 DEF OnSheet
<1>3. m \in Nat /\ h \in Nat
  BY <1>1, PlaceCuts
<1>4. Place(s.sx, s.sy) = m /\ Place(s.ex, s.ey) = h
  BY PlaceIs
<1>5. Buffer!Low = (IF m <= h THEN m ELSE h) /\ Buffer!High = (IF m <= h THEN h ELSE m)
  BY <1>4 DEF Buffer!Low, Buffer!High
<1>6. CASE s.sy > s.ey \/ (s.sy = s.ey /\ s.sx > s.ex)
  <2>1. LowOf = h /\ HighOf = m
    BY <1>6 DEF LowOf, HighOf, SelectionBounds
  <2>2. NotBehind(s.ex, s.ey, s.sx, s.sy)
    BY <1>2, <1>6 DEF NotBehind
  <2>3. h <= m
    BY <1>1, <2>2, BetweenInText
  <2> HIDE DEF h, m
  <2> QED
    BY <1>3, <1>4, <1>5, <2>1, <2>3, NilIsNoPlace
<1>7. CASE ~(s.sy > s.ey \/ (s.sy = s.ey /\ s.sx > s.ex))
  <2>1. LowOf = m /\ HighOf = h
    BY <1>7 DEF LowOf, HighOf, SelectionBounds
  <2>2. NotBehind(s.sx, s.sy, s.ex, s.ey)
    BY <1>2, <1>7 DEF NotBehind
  <2>3. m <= h
    BY <1>1, <2>2, BetweenInText
  <2> HIDE DEF h, m
  <2> QED
    BY <1>3, <1>4, <1>5, <2>1, <2>3, NilIsNoPlace
<1> QED
  BY <1>6, <1>7

LEMMA ReplaceStep ==
    ASSUME doc.lines \in Sheets, NEW x, NEW y, OnSheet(doc.lines, x, y), NEW i, NEW j, OnSheet(doc.lines, i, j),
           NEW N \in Sheets, doc' = Around(Glue(Upper(doc.lines, x, y), N), Lower(doc.lines, i, j)),
           selection' = Nil, handed' = handed
    PROVE  Buffer!Replace(Offset(doc.lines, x, y), Offset(doc.lines, i, j), Join(N))
<1> DEFINE T == Join(doc.lines)  p == Offset(doc.lines, x, y)  q == Offset(doc.lines, i, j)
           U == Upper(doc.lines, x, y)  W == Lower(doc.lines, i, j)  e == doc'
<1>1. U \in Sheets /\ W \in Sheets /\ Len(Join(U)) = p
  BY Halves
<1>2. Join(U) = Take(T, p) /\ Join(W) = Drop(T, q)
  BY PlaceCuts
<1>3. e = Around(Glue(U, N), W)
  OBVIOUS
<1> HIDE DEF p, q, U, W, e
<1>4. Join(e.lines) = Join(U) \o Join(N) \o Join(W) /\ Offset(e.lines, e.x, e.y) = Len(Join(U)) + Len(Join(N))
  <2> DEFINE d == Around(Glue(U, N), W)
  <2>1. Join(d.lines) = Join(U) \o Join(N) \o Join(W) /\ Offset(d.lines, d.x, d.y) = Len(Join(U)) + Len(Join(N))
    BY <1>1, ReplacedIs
  <2>2. e = d
    BY <1>3
  <2> HIDE DEF d
  <2> QED
    BY <2>1, <2>2
<1>5. /\ Join(doc'.lines) = Take(T, p) \o Join(N) \o Drop(T, q)
      /\ Offset(doc'.lines, doc'.x, doc'.y) = p + Len(Join(N))
  BY <1>1, <1>2, <1>4 DEF e
<1>6. Place(doc.x, doc.y)' = Offset(doc'.lines, doc'.x, doc'.y)
  BY DEF Place, Offset
<1> QED
  BY <1>5, <1>6 DEF Buffer!Replace, Take, Drop, p, q

LEMMA EraseStep ==
    ASSUME doc.lines \in Sheets, NEW x, NEW y, OnSheet(doc.lines, x, y), NEW i, NEW j, OnSheet(doc.lines, i, j),
           doc' = Around(Upper(doc.lines, x, y), Lower(doc.lines, i, j)),
           selection' = Nil, handed' = handed
    PROVE  Buffer!Replace(Offset(doc.lines, x, y), Offset(doc.lines, i, j), <<>>)
<1> DEFINE T == Join(doc.lines)  p == Offset(doc.lines, x, y)  q == Offset(doc.lines, i, j)
<1>1. /\ Join(doc'.lines) = Take(T, p) \o Drop(T, q) /\ Offset(doc'.lines, doc'.x, doc'.y) = p
  <2> DEFINE ls == doc.lines  e == doc'
  <2>1. ls \in Sheets /\ OnSheet(ls, x, y) /\ OnSheet(ls, i, j) /\ e = Around(Upper(ls, x, y), Lower(ls, i, j))
    OBVIOUS
  <2> HIDE DEF ls, e
  <2>2. /\ Join(e.lines) = Take(Join(ls), Offset(ls, x, y)) \o Drop(Join(ls), Offset(ls, i, j))
        /\ Offset(e.lines, e.x, e.y) = Offset(ls, x, y)
    BY <2>1, ErasedIs, SMTT(30)
  <2> QED
    BY <2>2 DEF ls, e
<1>2. Place(doc.x, doc.y)' = Offset(doc'.lines, doc'.x, doc'.y)
  BY DEF Place, Offset
<1>3. T \in Text /\ p \in 0..Len(T) /\ p \in Nat
  BY PlaceCuts, JoinText
<1> HIDE DEF p, q, T
<1>4. Take(T, p) \o <<>> = Take(T, p) /\ p + Len(<<>>) = p
  <2>1. Take(T, p) \in Text
    BY <1>3, TakeIs DEF Text
  <2>2. Take(T, p) \o <<>> = Take(T, p)
    BY <2>1, ConcatEmptySeq DEF Text
  <2>3. Len(<<>>) = 0
    BY EmptySeq
  <2> QED
    BY <1>3, <2>2, <2>3
<1>5. /\ Join(doc'.lines) = Take(T, p) \o <<>> \o Drop(T, q)
      /\ Offset(doc'.lines, doc'.x, doc'.y) = p + Len(<<>>)
  BY <1>1, <1>4
<1> QED
  BY <1>2, <1>5 DEF Buffer!Replace, Take, Drop, T, p, q

\* Where the cursor and the selection are while no selection is too old.
LEMMA InForce ==
    ASSUME EditorInv, ~outlived, Typing
    PROVE  /\ InDoc(doc) /\ doc.lines \in Sheets /\ OnSheet(doc.lines, doc.x, doc.y)
           /\ doc.x <= Len(Line(doc, doc.y))
           /\ Place(doc.x, doc.y) = Offset(doc.lines, doc.x, doc.y)
           /\ selection # Nil => /\ Fits(doc, selection) /\ InPlace(doc, selection)
                                 /\ OnSheet(doc.lines, SelectionBounds(selection).sx, SelectionBounds(selection).sy)
                                 /\ OnSheet(doc.lines, SelectionBounds(selection).ex, SelectionBounds(selection).ey)
                                 /\ Buffer!Low = LowOf /\ Buffer!High = HighOf
                                 /\ Place(selection.sx, selection.sy) # Nil
<1>1. InDoc(doc) /\ (selection # Nil => Fits(doc, selection) /\ InPlace(doc, selection))
  BY StillInPlace
<1>2. doc.lines \in Sheets /\ OnSheet(doc.lines, doc.x, doc.y)
  BY <1>1, DocIs
<1>3. doc.x <= Len(Line(doc, doc.y))
  BY <1>2 DEF OnSheet, Line
<1>4. ASSUME selection # Nil
      PROVE  /\ OnSheet(doc.lines, SelectionBounds(selection).sx, SelectionBounds(selection).sy)
             /\ OnSheet(doc.lines, SelectionBounds(selection).ex, SelectionBounds(selection).ey)
  BY <1>1, <1>4, BoundsIs
<1> QED
  BY <1>1, <1>2, <1>3, <1>4, LowHigh, PlaceIs

\* What is left when the selection is taken out.
LEMMA DeletedStep ==
    ASSUME EditorInv, ~outlived, Typing, selection # Nil
    PROVE  LET b == SelectionBounds(selection)  e == Deleted(doc, selection)
           IN /\ InDoc(e) /\ e.x <= Len(Line(e, e.y))
              /\ e = Around(Upper(doc.lines, b.sx, b.sy), Lower(doc.lines, b.ex, b.ey))
              /\ UpperOf(e) = Upper(doc.lines, b.sx, b.sy) /\ LowerOf(e) = Lower(doc.lines, b.ex, b.ey)
<1> DEFINE b == SelectionBounds(selection)  e == Deleted(doc, selection)  ls == doc.lines
<1>1. InPlace(doc, selection) /\ ls \in Sheets /\ OnSheet(ls, b.sx, b.sy) /\ OnSheet(ls, b.ex, b.ey)
  BY InForce
<1>2. e = Around(Upper(ls, b.sx, b.sy), Lower(ls, b.ex, b.ey))
  BY <1>1, DeletedIs
<1> HIDE DEF e, b, ls
<1>3. InDoc(e) /\ UpperOf(e) = Upper(ls, b.sx, b.sy) /\ LowerOf(e) = Lower(ls, b.ex, b.ey)
  BY <1>1, <1>2, ErasedIs
<1>4. e.x <= Len(Line(e, e.y))
  BY <1>3, DocIs DEF OnSheet, Line
<1> QED
  BY <1>2, <1>3, <1>4 DEF e, b, ls

LEMMA PutIs ==
    ASSUME EditorInv, ~outlived, NEW t \in Text, Put(t)
    PROVE  Buffer!Put(t)
<1> DEFINE N == Split(t)
<1>1. Typing
  BY DEF Put
<1>2. N \in Sheets /\ Join(N) = t
  BY SplitMore
<1>3. InDoc(doc) /\ doc.lines \in Sheets /\ OnSheet(doc.lines, doc.x, doc.y) /\ doc.x <= Len(Line(doc, doc.y))
  BY <1>1, InForce
<1> HIDE DEF N
<1>4. CASE selection = Nil
  <2>1. doc' = Pasted(doc, t) /\ selection' = Nil /\ clip' = clip /\ handed' = handed
    BY <1>3, <1>4 DEF Put, Show
  <2>2. doc' = Around(Glue(Upper(doc.lines, doc.x, doc.y), N), Lower(doc.lines, doc.x, doc.y))
    BY <1>3, <2>1, PastedIs DEF N, UpperOf, LowerOf
  <2>3. Buffer!Replace(Offset(doc.lines, doc.x, doc.y), Offset(doc.lines, doc.x, doc.y), Join(N))
    BY <1>2, <1>3, <2>1, <2>2, ReplaceStep
  <2> QED
    BY <1>2, <1>4, <2>1, <2>3, PlaceIs DEF Buffer!Put
<1>5. CASE selection # Nil
  <2> DEFINE b == SelectionBounds(selection)  e == Deleted(doc, selection)
             x == b.sx  y == b.sy  i == b.ex  j == b.ey
  <2>1. Fits(doc, selection) /\ InDoc(e) /\ e.x <= Len(Line(e, e.y))
    BY <1>1, <1>5, InForce, DeletedStep
  <2>2. UpperOf(e) = Upper(doc.lines, x, y) /\ LowerOf(e) = Lower(doc.lines, i, j)
    BY <1>1, <1>5, DeletedStep
  <2>3. doc' = Pasted(e, t) /\ selection' = Nil /\ clip' = clip /\ handed' = handed
    BY <1>5, <2>1 DEF Put, Show
  <2>4. Pasted(e, t) = Around(Glue(UpperOf(e), N), LowerOf(e))
    <3> HIDE DEF e
    <3> QED
      BY <2>1, PastedIs DEF N
  <2>5. OnSheet(doc.lines, x, y) /\ OnSheet(doc.lines, i, j)
    BY <1>1, <1>5, InForce
  <2>6. LowOf = Offset(doc.lines, x, y) /\ HighOf = Offset(doc.lines, i, j)
    BY DEF LowOf, HighOf
  <2> HIDE DEF x, y, i, j, e
  <2>7. doc' = Around(Glue(Upper(doc.lines, x, y), N), Lower(doc.lines, i, j))
    BY <2>2, <2>3, <2>4
  <2>8. Buffer!Replace(Offset(doc.lines, x, y), Offset(doc.lines, i, j), Join(N))
    BY <1>2, <1>3, <2>3, <2>5, <2>7, ReplaceStep
  <2>9. Buffer!Replace(Buffer!Low, Buffer!High, t)
    <3>1. Buffer!Low = LowOf /\ Buffer!High = HighOf
      BY <1>1, <1>5, InForce
    <3> QED
      BY <1>2, <2>6, <2>8, <3>1
  <2>10. Place(selection.sx, selection.sy) # Nil
    BY <1>1, <1>5, InForce
  <2> QED
    BY <1>5, <2>3, <2>9, <2>10 DEF Buffer!Put
<1> QED
  BY <1>4, <1>5

LEMMA BreakIs ==
    ASSUME EditorInv, ~outlived, ~outlived', BreakLine
    PROVE  Buffer!Put(<<NL>>)
<1>1. Typing /\ selection = Nil /\ doc' = Broken(doc) /\ selection' = selection /\ clip' = clip /\ handed' = handed
  BY DEF BreakLine, Show
<1>2. InDoc(doc) /\ doc.lines \in Sheets /\ OnSheet(doc.lines, doc.x, doc.y)
  BY <1>1, InForce
<1>3. Halved \in Sheets /\ Join(Halved) = <<NL>>
      /\ doc' = Around(Glue(Upper(doc.lines, doc.x, doc.y), Halved), Lower(doc.lines, doc.x, doc.y))
  BY <1>1, <1>2, BrokenIs DEF UpperOf, LowerOf
<1>4. Buffer!Replace(Offset(doc.lines, doc.x, doc.y), Offset(doc.lines, doc.x, doc.y), Join(Halved))
  BY <1>1, <1>2, <1>3, ReplaceStep
<1> QED
  BY <1>1, <1>3, <1>4, PlaceIs DEF Buffer!Put

\* A key that takes out the selection.
LEMMA EraseSelected ==
    ASSUME EditorInv, ~outlived, Typing, selection # Nil,
           doc' = Deleted(doc, selection), selection' = Nil, handed' = handed
    PROVE  Buffer!Replace(Buffer!Low, Buffer!High, <<>>) /\ Place(selection.sx, selection.sy) # Nil
<1> DEFINE b == SelectionBounds(selection)  x == b.sx  y == b.sy  i == b.ex  j == b.ey
<1>1. doc.lines \in Sheets /\ OnSheet(doc.lines, x, y) /\ OnSheet(doc.lines, i, j)
  BY InForce
<1>2. doc' = Around(Upper(doc.lines, x, y), Lower(doc.lines, i, j))
  BY DeletedStep
<1>3. LowOf = Offset(doc.lines, x, y) /\ HighOf = Offset(doc.lines, i, j)
  BY DEF LowOf, HighOf
<1> HIDE DEF x, y, i, j
<1>4. Buffer!Replace(Offset(doc.lines, x, y), Offset(doc.lines, i, j), <<>>)
  BY <1>1, <1>2, EraseStep
<1>5. Buffer!Low = LowOf /\ Buffer!High = HighOf /\ Place(selection.sx, selection.sy) # Nil
  BY InForce
<1> QED
  BY <1>3, <1>4, <1>5

LEMMA BackspaceIs ==
    ASSUME EditorInv, ~outlived, Backspace
    PROVE  Buffer!Backspace
<1> DEFINE P == Offset(doc.lines, doc.x, doc.y)
<1>1. Typing /\ Erase(ErasedLeft(doc))
  BY DEF Backspace, Erase
<1>2. InDoc(doc) /\ doc.lines \in Sheets /\ OnSheet(doc.lines, doc.x, doc.y) /\ Place(doc.x, doc.y) = P
  BY <1>1, InForce
<1>3. CASE selection = Nil
  <2>1. doc' = ErasedLeft(doc) /\ selection' = Nil /\ handed' = handed /\ clip' = clip
    BY <1>1, <1>3 DEF Erase, Show
  <2>2. CASE doc.x = 0 /\ doc.y = 0
    <3>1. P = 0
      BY <1>2, <2>2, LeftIs
    <3>2. ErasedLeft(doc) = doc
      BY <2>2 DEF ErasedLeft
    <3> HIDE DEF P
    <3> QED
      BY <1>2, <1>3, <2>1, <3>1, <3>2 DEF Buffer!Backspace, Place
  <2>3. CASE ~(doc.x = 0 /\ doc.y = 0)
    <3> DEFINE x == LeftX(doc)  y == LeftY(doc)
    <3>1. P # 0 /\ Offset(doc.lines, x, y) = (IF P > 0 THEN P - 1 ELSE P) /\ P \in Nat
      BY <1>2, <2>3, LeftIs, PlaceCuts
    <3>2. OnSheet(doc.lines, x, y)
      BY <1>2, Neighbours
    <3>3. doc' = Around(Upper(doc.lines, x, y), Lower(doc.lines, doc.x, doc.y))
      BY <1>2, <2>1, ErasedLeftIs DEF LowerOf
    <3> HIDE DEF x, y
    <3>4. Buffer!Replace(Offset(doc.lines, x, y), Offset(doc.lines, doc.x, doc.y), <<>>)
      BY <1>2, <2>1, <3>2, <3>3, EraseStep
    <3>5. Offset(doc.lines, x, y) = P - 1
      <4> HIDE DEF P
      <4> QED
        BY <3>1
    <3>6. Buffer!Replace(P - 1, P, <<>>)
      BY <3>4, <3>5
    <3> HIDE DEF P
    <3> QED
      BY <1>2, <1>3, <2>1, <3>1, <3>6 DEF Buffer!Backspace, Buffer!Erase
  <2> QED
    BY <2>2, <2>3
<1>4. CASE selection # Nil
  <2>1. Fits(doc, selection)
    BY <1>1, <1>4, InForce
  <2>2. doc' = Deleted(doc, selection) /\ selection' = Nil /\ handed' = handed /\ clip' = clip
    BY <1>1, <1>4, <2>1 DEF Erase, Show
  <2>3. Buffer!Replace(Buffer!Low, Buffer!High, <<>>) /\ Place(selection.sx, selection.sy) # Nil
    BY <1>1, <1>4, <2>2, EraseSelected
  <2> QED
    BY <1>4, <2>2, <2>3 DEF Buffer!Backspace, Buffer!Erase
<1> QED
  BY <1>3, <1>4

LEMMA DeleteIs ==
    ASSUME EditorInv, ~outlived, Delete
    PROVE  Buffer!Delete
<1> DEFINE P == Offset(doc.lines, doc.x, doc.y)  T == Join(doc.lines)
<1>1. Typing /\ Erase(ErasedRight(doc))
  BY DEF Delete, Erase
<1>2. InDoc(doc) /\ doc.lines \in Sheets /\ OnSheet(doc.lines, doc.x, doc.y) /\ Place(doc.x, doc.y) = P
  BY <1>1, InForce
<1>3. CASE selection = Nil
  <2> DEFINE x == RightX(doc)  y == RightY(doc)
  <2>1. doc' = ErasedRight(doc) /\ selection' = Nil /\ handed' = handed /\ clip' = clip
    BY <1>1, <1>3 DEF Erase, Show
  <2>2. Offset(doc.lines, x, y) = Buffer!Least(P + 1, Len(T))
    BY <1>2, RightIs
  <2>3. OnSheet(doc.lines, x, y)
    BY <1>2, Neighbours
  <2>4. doc' = Around(Upper(doc.lines, doc.x, doc.y), Lower(doc.lines, x, y))
    BY <1>2, <2>1, ErasedRightIs DEF UpperOf
  <2> HIDE DEF x, y
  <2>5. Buffer!Replace(Offset(doc.lines, doc.x, doc.y), Offset(doc.lines, x, y), <<>>)
    BY <1>2, <2>1, <2>3, <2>4, EraseStep
  <2>6. Buffer!Replace(P, Buffer!Least(P + 1, Len(T)), <<>>)
    BY <2>2, <2>5
  <2> HIDE DEF P
  <2> QED
    BY <1>2, <1>3, <2>1, <2>6 DEF Buffer!Delete, Buffer!Erase
<1>4. CASE selection # Nil
  <2>1. Fits(doc, selection)
    BY <1>1, <1>4, InForce
  <2>2. doc' = Deleted(doc, selection) /\ selection' = Nil /\ handed' = handed /\ clip' = clip
    BY <1>1, <1>4, <2>1 DEF Erase, Show
  <2>3. Buffer!Replace(Buffer!Low, Buffer!High, <<>>) /\ Place(selection.sx, selection.sy) # Nil
    BY <1>1, <1>4, <2>2, EraseSelected
  <2> QED
    BY <1>4, <2>2, <2>3 DEF Buffer!Delete, Buffer!Erase
<1> QED
  BY <1>3, <1>4

LEMMA LinesOfBuffer ==
    \A p : /\ Buffer!Begin(p) = BeginOf(Join(doc.lines), p)
           /\ Buffer!End(p) = EndOf(Join(doc.lines), p)
BY DEF Buffer!Begin, Buffer!End, BeginOf, EndOf

\* A movement goes where the flat text says.
LEMMA GoalIs ==
    ASSUME InDoc(doc), NEW dir \in {"left", "right", "up", "down"}
    PROVE  Buffer!Goal(dir) = Offset(doc.lines, Moved(doc, dir).x, Moved(doc, dir).y)
<1> DEFINE ls == doc.lines  T == Join(ls)  P == Offset(ls, doc.x, doc.y)  B == BeginOf(T, P)  E == EndOf(T, P)
           g(k) == Offset(ls, Moved(doc, k).x, Moved(doc, k).y)
<1>1. Place(doc.x, doc.y) = P
  BY PlaceIs
<1>2. g("left") = IF P > 0 THEN P - 1 ELSE P
  BY MovedIs, LeftIs
<1>3. g("right") = Buffer!Least(P + 1, Len(T))
  BY MovedIs, RightIs
<1>4. g("up") = IF B = 0 THEN P ELSE Buffer!Least(BeginOf(T, B - 1) + (P - B), B - 1)
  BY UpIs
<1>5. g("down") = IF E = Len(T) THEN P ELSE Buffer!Least((E + 1) + (P - B), EndOf(T, E + 1))
  BY DownIs
<1>6. Buffer!Above = IF B = 0 THEN P ELSE Buffer!Least(BeginOf(T, B - 1) + (P - B), B - 1)
  <2>1. Buffer!Column = P - B /\ Buffer!Begin(Place(doc.x, doc.y)) = B
    BY <1>1, LinesOfBuffer DEF Buffer!Column
  <2>2. Buffer!Begin(B - 1) = BeginOf(T, B - 1)
    BY LinesOfBuffer
  <2> HIDE DEF B, P, T
  <2> QED
    BY <1>1, <2>1, <2>2 DEF Buffer!Above
<1>7. Buffer!Below = IF E = Len(T) THEN P ELSE Buffer!Least((E + 1) + (P - B), EndOf(T, E + 1))
  <2>1. Buffer!Column = P - B /\ Buffer!End(Place(doc.x, doc.y)) = E
    BY <1>1, LinesOfBuffer DEF Buffer!Column
  <2>2. Buffer!End(E + 1) = EndOf(T, E + 1)
    BY LinesOfBuffer
  <2> HIDE DEF B, E, P
  <2> QED
    BY <1>1, <2>1, <2>2 DEF Buffer!Below
<1> HIDE DEF P, B, E, g
<1>8. Buffer!Goal(dir) = g(dir)
  <2>1. CASE dir = "left"
    BY <1>1, <1>2, <2>1 DEF Buffer!Goal
  <2>2. CASE dir = "right"
    BY <1>1, <1>3, <2>2 DEF Buffer!Goal
  <2>3. CASE dir = "up"
    BY <1>4, <1>6, <2>3 DEF Buffer!Goal
  <2>4. CASE dir = "down"
    BY <1>5, <1>7, <2>4 DEF Buffer!Goal
  <2> QED
    BY <2>1, <2>2, <2>3, <2>4
<1> QED
  BY <1>8 DEF g

LEMMA MoveIs ==
    ASSUME EditorInv, ~outlived, NEW dir \in {"left", "right", "up", "down"}, NEW shift \in BOOLEAN, Move(dir, shift)
    PROVE  Buffer!Move(dir, shift)
<1> DEFINE d == Moved(doc, dir)  ls == doc.lines  P == Offset(ls, doc.x, doc.y)  g == Offset(ls, d.x, d.y)
           s == IF selection = Nil /\ shift THEN [sx |-> doc.x, sy |-> doc.y] ELSE selection
           r == [sx |-> s.sx, sy |-> s.sy, ex |-> d.x, ey |-> d.y]
           mark == IF selection = Nil THEN Nil ELSE Place(selection.sx, selection.sy)
           head == IF selection = Nil THEN Nil ELSE Place(selection.ex, selection.ey)
<1>1. Typing /\ doc' = d /\ selection' = (IF s = Nil THEN Nil ELSE r) /\ clip' = clip /\ handed' = handed
  BY DEF Move, Show
<1>2. InDoc(doc) /\ ls \in Sheets /\ OnSheet(ls, doc.x, doc.y) /\ doc.x \in Nat /\ doc.y \in Nat
  BY <1>1, InForce DEF OnSheet
<1>3. d.lines = ls /\ d.x \in Nat /\ d.y \in Nat /\ InDoc(d)
  BY <1>2, MovedIs, DocIs
<1>4. P \in Nat
  BY <1>2, PlaceCuts
<1>5. selection # Nil => /\ selection.sx \in Nat /\ selection.sy \in Nat
                         /\ Place(selection.sx, selection.sy) # Nil
                         /\ Place(selection.sx, selection.sy) = Offset(ls, selection.sx, selection.sy)
  BY <1>1, InForce, StillInPlace, PlaceIs
<1>6. Join(doc.lines)' = Join(doc.lines)
  BY <1>1, <1>3
<1>7. Place(doc.x, doc.y)' = g
  <2>1. Place(doc.x, doc.y)' = Offset(doc'.lines, doc'.x, doc'.y)
    BY DEF Place, Offset
  <2> QED
    BY <1>1, <1>3, <2>1
<1>8. g = Buffer!Goal(dir)
  BY <1>2, GoalIs
<1>9. s # Nil => r # Nil /\ selection' = r
  <2> SUFFICES ASSUME s # Nil PROVE r # Nil
    BY <1>1
  <2>1. s.sx \in Nat /\ s.sy \in Nat
    <3>1. CASE selection = Nil /\ shift
      BY <1>2, <3>1
    <3>2. CASE ~(selection = Nil /\ shift)
      BY <1>5, <3>2
    <3> QED
      BY <3>1, <3>2
  <2> HIDE DEF s, d
  <2>2. r \in [sx : Nat, sy : Nat, ex : Nat, ey : Nat]
    BY <1>3, <2>1
  <2> QED
    BY <2>2, EditorAssumption
<1>10. s # Nil => mark' = Offset(ls, s.sx, s.sy) /\ head' = g
  <2> SUFFICES ASSUME s # Nil PROVE mark' = Offset(ls, s.sx, s.sy) /\ head' = g
    OBVIOUS
  <2>1. selection' # Nil /\ selection'.sx = s.sx /\ selection'.sy = s.sy /\ selection'.ex = d.x /\ selection'.ey = d.y
    BY <1>9
  <2>2. /\ mark' = Offset(doc'.lines, selection'.sx, selection'.sy)
        /\ head' = Offset(doc'.lines, selection'.ex, selection'.ey)
    BY <2>1 DEF Place, Offset
  <2> QED
    BY <1>1, <1>3, <2>1, <2>2
<1>11. mark' = (IF mark = Nil /\ shift THEN P ELSE mark) /\ head' = (IF mark' = Nil THEN Nil ELSE g)
  <2>1. CASE selection = Nil /\ shift
    <3>1. [sx |-> doc.x, sy |-> doc.y] \in [sx : Nat, sy : Nat]
      BY <1>2
    <3>2. s = [sx |-> doc.x, sy |-> doc.y] /\ s # Nil
      BY <2>1, <3>1, EditorAssumption
    <3>3. mark' = P /\ head' = g
      BY <1>10, <3>2
    <3>4. mark = Nil
      BY <2>1
    <3> QED
      BY <1>4, <2>1, <3>3, <3>4, NilIsNoPlace
  <2>2. CASE selection = Nil /\ ~shift
    <3>1. selection' = Nil
      BY <1>1, <2>2
    <3> QED
      BY <2>2, <3>1
  <2>3. CASE selection # Nil
    <3>1. s = selection
      BY <2>3
    <3>2. mark' = Offset(ls, selection.sx, selection.sy) /\ head' = g
      BY <1>10, <2>3, <3>1
    <3>3. mark = Offset(ls, selection.sx, selection.sy) /\ mark # Nil
      BY <1>5, <2>3
    <3> QED
      BY <3>2, <3>3
  <2> QED
    BY <2>1, <2>2, <2>3
<1>12. Place(doc.x, doc.y) = P
  BY PlaceIs
<1> HIDE DEF P, g
<1> QED
  BY <1>1, <1>6, <1>7, <1>8, <1>11, <1>12 DEF Buffer!Move

\* What keeps the lines and the selection keeps the bounds of the selection.
LEMMA MarksKept ==
    ASSUME doc'.lines = doc.lines, selection' = selection
    PROVE  /\ Join(doc.lines)' = Join(doc.lines)
           /\ (IF selection = Nil THEN Nil ELSE Place(selection.sx, selection.sy))'
              = IF selection = Nil THEN Nil ELSE Place(selection.sx, selection.sy)
           /\ (IF selection = Nil THEN Nil ELSE Place(selection.ex, selection.ey))'
              = IF selection = Nil THEN Nil ELSE Place(selection.ex, selection.ey)
BY DEF Place

LEMMA HomeEndIs ==
    ASSUME EditorInv, ~outlived
    PROVE  (Home => Buffer!Home) /\ (EndKey => Buffer!EndKey)
<1> DEFINE ls == doc.lines  T == Join(ls)  P == Offset(ls, doc.x, doc.y)  w == Len(Line(doc, doc.y))
<1>1. ASSUME Typing
      PROVE  /\ InDoc(doc) /\ Offset(ls, 0, doc.y) = BeginOf(T, P) /\ Offset(ls, w, doc.y) = EndOf(T, P)
             /\ OnSheet(ls, 0, doc.y) /\ OnSheet(ls, w, doc.y)
  <2>1. InDoc(doc) /\ ls \in Sheets /\ OnSheet(ls, doc.x, doc.y)
    BY <1>1, InForce
  <2> HIDE DEF ls
  <2>2. BeginOf(T, P) = Starts(ls, doc.y) /\ EndOf(T, P) = LineEnd(ls, doc.y) /\ Starts(ls, doc.y) \in Nat
    BY <2>1, LineOfPlace
  <2>3. Offset(ls, 0, doc.y) = Starts(ls, doc.y) + 0 /\ Offset(ls, w, doc.y) = Starts(ls, doc.y) + w
    BY <2>1, StartsIs
  <2>4. LineEnd(ls, doc.y) = Starts(ls, doc.y) + w
    BY DEF LineEnd, Line, ls
  <2>5. OnSheet(ls, 0, doc.y) /\ OnSheet(ls, w, doc.y)
    BY <2>1, EndsOfLine DEF ls
  <2> QED
    BY <2>1, <2>2, <2>3, <2>4, <2>5
<1>2. ASSUME Typing, NEW c, OnSheet(ls, c, doc.y), doc' = [doc EXCEPT !.x = c], selection' = selection
      PROVE  Place(doc.x, doc.y)' = Offset(ls, c, doc.y) /\ doc'.lines = doc.lines
  <2> DEFINE e == [doc EXCEPT !.x = c]
  <2>1. e.lines = ls /\ e.x = c /\ e.y = doc.y
    BY <1>1, <1>2, InLine
  <2>2. Place(doc.x, doc.y)' = Offset(doc'.lines, doc'.x, doc'.y)
    BY DEF Place, Offset
  <2>3. doc' = e
    BY <1>2
  <2> HIDE DEF e
  <2> QED
    BY <2>1, <2>2, <2>3
<1>3. /\ Buffer!Begin(Place(doc.x, doc.y)) = BeginOf(T, P)
      /\ Buffer!End(Place(doc.x, doc.y)) = EndOf(T, P)
  BY PlaceIs, LinesOfBuffer
<1>4. ASSUME Home PROVE Buffer!Home
  <2>1. Typing /\ doc' = [doc EXCEPT !.x = 0] /\ selection' = selection /\ clip' = clip /\ handed' = handed
    BY <1>4 DEF Home, Show
  <2>2. Place(doc.x, doc.y)' = Offset(ls, 0, doc.y) /\ doc'.lines = doc.lines
    BY <1>1, <1>2, <2>1
  <2>3. Place(doc.x, doc.y)' = Buffer!Begin(Place(doc.x, doc.y))
    BY <1>1, <1>3, <2>1, <2>2
  <2> QED
    BY <2>1, <2>2, <2>3, MarksKept DEF Buffer!Home
<1>5. ASSUME EndKey PROVE Buffer!EndKey
  <2>1. Typing /\ doc' = [doc EXCEPT !.x = w] /\ selection' = selection /\ clip' = clip /\ handed' = handed
    BY <1>5 DEF EndKey, Show
  <2>2. Place(doc.x, doc.y)' = Offset(ls, w, doc.y) /\ doc'.lines = doc.lines
    BY <1>1, <1>2, <2>1
  <2>3. Place(doc.x, doc.y)' = Buffer!End(Place(doc.x, doc.y))
    BY <1>1, <1>3, <2>1, <2>2
  <2> QED
    BY <2>1, <2>2, <2>3, MarksKept DEF Buffer!EndKey
<1> QED
  BY <1>4, <1>5

LEMMA SelectAllIs ==
    ASSUME EditorInv, ~outlived, SelectAll
    PROVE  Buffer!SelectAll
<1> DEFINE ls == doc.lines  a == All(doc)
<1>1. Typing /\ doc' = doc /\ selection' = a /\ clip' = clip /\ handed' = handed
  BY DEF SelectAll, Show, All
<1>2. InDoc(doc)
  BY <1>1, InForce
<1>3. a \in Selections /\ Offset(ls, a.sx, a.sy) = 0 /\ Offset(ls, a.ex, a.ey) = Len(Join(ls))
  BY <1>2, AllIs
<1> HIDE DEF a
<1>4. selection' # Nil
  BY <1>1, <1>3, EditorAssumption DEF Selections
<1>5. /\ (IF selection = Nil THEN Nil ELSE Place(selection.sx, selection.sy))' = Offset(doc'.lines, selection'.sx, selection'.sy)
      /\ (IF selection = Nil THEN Nil ELSE Place(selection.ex, selection.ey))' = Offset(doc'.lines, selection'.ex, selection'.ey)
  BY <1>4 DEF Place, Offset
<1>6. Join(doc.lines)' = Join(doc.lines) /\ Place(doc.x, doc.y)' = Place(doc.x, doc.y)
  BY <1>1 DEF Place
<1> QED
  BY <1>1, <1>3, <1>5, <1>6 DEF Buffer!SelectAll

LEMMA CopiedIs ==
    ASSUME EditorInv, ~outlived, Typing, selection # Nil
    PROVE  Selected(doc, selection) = Buffer!Selected
<1> DEFINE b == SelectionBounds(selection)
<1>1. doc.lines \in Sheets /\ Fits(doc, selection) /\ Buffer!Low = LowOf /\ Buffer!High = HighOf
  BY InForce
<1>2. selection.sx \in Nat /\ selection.sy \in Nat /\ selection.ex \in Nat /\ selection.ey \in Nat
  BY StillInPlace
<1>3. Selected(doc, selection)
      = SubSeq(Join(doc.lines), Offset(doc.lines, b.sx, b.sy) + 1, Offset(doc.lines, b.ex, b.ey))
  BY <1>1, <1>2, SelectedIs
<1> QED
  BY <1>1, <1>3 DEF Buffer!Selected, LowOf, HighOf

LEMMA CopyIs ==
    ASSUME EditorInv, ~outlived, Copy
    PROVE  Buffer!Copy
<1>1. Typing /\ selection # Nil
  BY DEF Copy
<1>2. Fits(doc, selection) /\ Selected(doc, selection) = Buffer!Selected
  BY <1>1, InForce, CopiedIs
<1>3. /\ Written(Selected(doc, selection)) /\ doc' = doc /\ selection' = selection /\ handed' = handed
  BY <1>2 DEF Copy
<1>4. doc'.lines = doc.lines /\ Place(doc.x, doc.y)' = Place(doc.x, doc.y)
  BY <1>3 DEF Place
<1> QED
  BY <1>2, <1>3, <1>4, MarksKept DEF Buffer!Copy, Written

LEMMA CutIs ==
    ASSUME EditorInv, ~outlived, CutSelected
    PROVE  Buffer!Cut
<1>1. Typing /\ selection # Nil
  BY DEF CutSelected
<1>2. Fits(doc, selection) /\ Selected(doc, selection) = Buffer!Selected
  BY <1>1, InForce, CopiedIs
<1>3. /\ Written(Selected(doc, selection)) /\ doc' = Deleted(doc, selection) /\ selection' = Nil /\ handed' = handed
  BY <1>2 DEF CutSelected, Show
<1>4. Buffer!Replace(Buffer!Low, Buffer!High, <<>>)
  BY <1>1, <1>3, EraseSelected
<1> QED
  BY <1>2, <1>3, <1>4 DEF Buffer!Cut, Written

LEMMA SendIs == EditorInv /\ Send => Buffer!Send
BY DEF EditorInv, Whole, Send, Buffer!Send

\* Every key does to the text of the lines what the flat text promises, as
\* long as no selection outlived a change of the lines.
THEOREM EditsAreOfText == EditorSpec => EditsAsFlatText
<1> DEFINE Step ==
         ~outlived /\ ~outlived' =>
         /\ \A c \in TypedKeys : TypeKey(c) => Buffer!Put(<<c>>)
         /\ Paste => Buffer!Paste
         /\ BreakLine => Buffer!Put(<<NL>>)
         /\ Backspace => Buffer!Backspace
         /\ Delete => Buffer!Delete
         /\ \A dir \in {"left", "right", "up", "down"}, shift \in BOOLEAN :
               Move(dir, shift) => Buffer!Move(dir, shift)
         /\ Home => Buffer!Home
         /\ EndKey => Buffer!EndKey
         /\ SelectAll => Buffer!SelectAll
         /\ Copy => Buffer!Copy
         /\ CutSelected => Buffer!Cut
         /\ Send => Buffer!Send
<1>1. EditorInv => Step
  <2> SUFFICES ASSUME EditorInv, ~outlived, ~outlived'
               PROVE  /\ \A c \in TypedKeys : TypeKey(c) => Buffer!Put(<<c>>)
                      /\ Paste => Buffer!Paste
                      /\ BreakLine => Buffer!Put(<<NL>>)
                      /\ Backspace => Buffer!Backspace
                      /\ Delete => Buffer!Delete
                      /\ \A dir \in {"left", "right", "up", "down"}, shift \in BOOLEAN :
                            Move(dir, shift) => Buffer!Move(dir, shift)
                      /\ Home => Buffer!Home
                      /\ EndKey => Buffer!EndKey
                      /\ SelectAll => Buffer!SelectAll
                      /\ Copy => Buffer!Copy
                      /\ CutSelected => Buffer!Cut
                      /\ Send => Buffer!Send
    OBVIOUS
  <2>1. ASSUME NEW c \in TypedKeys, TypeKey(c) PROVE Buffer!Put(<<c>>)
    BY <2>1, KeysAreTexts, PutIs DEF TypeKey
  <2>2. Paste => Buffer!Paste
    <3>1. clip \in Text
      BY DEF EditorInv, Values
    <3> QED
      BY <3>1, PutIs DEF Paste, Buffer!Paste
  <2>3. ASSUME NEW dir \in {"left", "right", "up", "down"}, NEW shift \in BOOLEAN, Move(dir, shift)
        PROVE  Buffer!Move(dir, shift)
    BY <2>3, MoveIs
  <2>4. (BreakLine => Buffer!Put(<<NL>>)) /\ (Backspace => Buffer!Backspace) /\ (Delete => Buffer!Delete)
    BY BreakIs, BackspaceIs, DeleteIs
  <2>5. (Home => Buffer!Home) /\ (EndKey => Buffer!EndKey) /\ (SelectAll => Buffer!SelectAll)
    BY HomeEndIs, SelectAllIs
  <2>6. (Copy => Buffer!Copy) /\ (CutSelected => Buffer!Cut) /\ (Send => Buffer!Send)
    BY CopyIs, CutIs, SendIs
  <2> QED
    BY <2>1, <2>2, <2>3, <2>4, <2>5, <2>6
<1>2. EditorInv => [Step]_editorVars
  BY <1>1
<1>3. [][Step]_editorVars => EditsAsFlatText
  BY PTL DEF EditsAsFlatText
<1> HIDE DEF Step
<1> QED
  BY <1>2, <1>3, InitEditor, EditorStep, PTL DEF EditorSpec
=============================================================================
