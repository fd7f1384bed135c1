--------------------------- MODULE PluginManager ---------------------------
(* The plugin manager (plugin/manager/manager.go, plugin/store/store.go,     *)
(* server/plugin_commands.go): what install, uninstall, enable and disable   *)
(* do to the plugin directories, the state file and the host's table, when   *)
(* the chat, the terminal panel and the web panel call them at once, and     *)
(* what a crash leaves for the discovery at the next start.  The host's own  *)
(* steps are PluginHost's; here a start works or fails.                      *)
EXTENDS Naturals, FiniteSets

CONSTANTS
    Plugins,
    Callers,
    Versions,
    Registries,     \* what the registry may hold: plugin -> version
    Good,           \* versions with a manifest that parses, a binary, and room for this server
    Broken,         \* versions whose manifest cannot be loaded
    Unsafe,         \* versions whose archive has an entry outside its directory
    MaxCalls,       \* bound: calls
    MaxCrashes,     \* bound: crashes of the server
    None

ASSUME ConstAssumption ==
    /\ None \notin Versions \cup Plugins \cup BOOLEAN
    /\ None \notin [version : Versions, enabled : BOOLEAN, running : BOOLEAN]
    /\ Good \cup Broken \cup Unsafe \subseteq Versions
    /\ Registries \subseteq [Plugins -> Versions \cup {None}]
    /\ Good \cap (Broken \cup Unsafe) = {}
    /\ MaxCalls \in Nat /\ MaxCrashes \in Nat

VARIABLES
    dir,            \* version in the plugin's directory, or None
    leftover,       \* hidden backup directories: plugin and version
    file,           \* plugin_state.json: None when absent or damaged, or plugin -> TRUE, FALSE, None
    inst,           \* host.plugins: None, or version, enabled, running
    orphans,        \* plugins with a process that no instance refers to
    store,          \* Store.plugins: None until a refresh
    call,           \* what each caller is in the middle of
    calls, crashes,
    owned,          \* history: installed, and no uninstall came to remove it
    recorded,       \* history: the enabled flag the last command of a plugin saved, or None
    uninstalled,    \* history: what the last uninstall that met no other left: "no" longer so, "half", "whole"
    spoilt,         \* history: the last write of the state file failed
    alone           \* history: the call of each caller met no other on its plugin

disk == <<dir, leftover, file>>
memory == <<inst, orphans, store>>
history == <<owned, recorded, uninstalled, spoilt>>
vars == <<disk, memory, call, calls, crashes, history, alone>>

Idle == [at |-> "idle", op |-> None, plugin |-> None, version |-> None, backup |-> {}, flags |-> None]
Saved(p) == IF file = None THEN None ELSE file[p]
At(c, where) == call[c].at = where
Goto(c, where) == call' = [call EXCEPT ![c].at = where]
Return(c) == call' = [call EXCEPT ![c] = Idle]
Runs(p) == inst[p] # None /\ inst[p].running
Dropped(p) == IF Runs(p) THEN orphans \cup {p} ELSE orphans
Instance(v, on, runs) == [version |-> v, enabled |-> on, running |-> runs]

----------------------------------------------------------------------------
(* Start. *)

\* discoverInstalledPlugins: what loads, fits and is enabled, or not in the
\* state file, is started; a start may fail.
Discovered(p, runs) ==
    IF dir[p] \notin Good THEN None
    ELSE LET on == Saved(p) # FALSE IN Instance(dir[p], on, on /\ runs)

Init ==
    /\ dir \in [Plugins -> {None} \cup Good] /\ leftover = {}
    /\ file = None
    /\ inst = [p \in Plugins |-> Discovered(p, TRUE)] /\ orphans = {} /\ store = None
    /\ call = [c \in Callers |-> Idle] /\ calls = 0 /\ crashes = 0
    /\ owned = [p \in Plugins |-> dir[p] # None]
    /\ recorded = [p \in Plugins |-> None]
    /\ uninstalled = [p \in Plugins |-> "no"] /\ spoilt = FALSE
    /\ alone = [c \in Callers |-> TRUE]

\* HandlePluginCommand, the keys of the panel and the actions of the web panel
Begin(c) ==
    /\ call[c] = Idle /\ calls < MaxCalls /\ calls' = calls + 1
    /\ \E p \in Plugins, op \in {"install", "uninstall", "enable", "disable"} :
        LET met == {d \in Callers \ {c} : call[d].plugin = p}
        IN /\ call' = [call EXCEPT ![c] = [Idle EXCEPT !.op = op, !.plugin = p,
                  !.at = CASE op = "install" -> "resolve" [] op = "uninstall" -> "stop" [] OTHER -> "flag"]]
           /\ alone' = [d \in Callers |-> IF d = c THEN met = {} ELSE alone[d] /\ d \notin met]
           /\ recorded' = [recorded EXCEPT ![p] = None]
           /\ uninstalled' = [uninstalled EXCEPT ![p] = IF op = "install" THEN "no" ELSE @]
    /\ UNCHANGED <<disk, memory, crashes, owned, spoilt>>

\* Refresh: the fetch or the parse fails and nothing changes, or the list is
\* replaced, whether or not the cache is written.
Refresh ==
    /\ store' \in Registries
    /\ UNCHANGED <<disk, inst, orphans, call, calls, crashes, history, alone>>

----------------------------------------------------------------------------
(* InstallPluginWithPlatform *)

Resolve(c) ==
    /\ At(c, "resolve")
    /\ IF store = None \/ store[call[c].plugin] = None
       THEN Return(c)
       ELSE call' = [call EXCEPT ![c].at = "download", ![c].version = store[call[c].plugin]]
    /\ UNCHANGED <<disk, memory, calls, crashes, history, alone>>

\* The archive cannot be had, is too long or has another checksum; or it is
\* complete in a temporary file.
Fetch(c) ==
    /\ At(c, "download")
    /\ Return(c) \/ Goto(c, "unpack")
    /\ UNCHANGED <<disk, memory, calls, crashes, history, alone>>

\* extractZip, extractTarGz: every name is looked at before its entry is made.
Unpacks(v) == v \notin Unsafe

\* Into a staging directory, which goes when an entry fails.
Unpack(c) ==
    /\ At(c, "unpack")
    /\ Return(c) \/ (Unpacks(call[c].version) /\ Goto(c, "stat"))
    /\ UNCHANGED <<disk, memory, calls, crashes, history, alone>>

Stat(c) ==
    /\ At(c, "stat")
    /\ Goto(c, IF dir[call[c].plugin] = None THEN "place" ELSE "backup")
    /\ UNCHANGED <<disk, memory, calls, crashes, history, alone>>

\* A rename onto a directory with files fails.
Place(c) ==
    LET p == call[c].plugin
    IN /\ At(c, "place")
       /\ \/ Return(c) /\ UNCHANGED <<dir, owned>>
          \/ /\ dir[p] = None
             /\ dir' = [dir EXCEPT ![p] = call[c].version]
             /\ owned' = [owned EXCEPT ![p] = TRUE]
             /\ Goto(c, "load")
       /\ UNCHANGED <<leftover, file, memory, calls, crashes, recorded, uninstalled, spoilt, alone>>

\* Mutant: the old version is removed to make room.
BackupRemoves(c) ==
    LET p == call[c].plugin
    IN /\ At(c, "backup")
       /\ dir' = [dir EXCEPT ![p] = None]
       /\ Goto(c, "swap")
       /\ UNCHANGED <<leftover, file, memory, calls, crashes, history, alone>>

Backup(c) ==
    LET p == call[c].plugin
        copy == [plugin |-> p, version |-> dir[p], by |-> c]
    IN /\ At(c, "backup")
       /\ \/ Return(c) /\ UNCHANGED <<dir, leftover>>
          \/ /\ dir[p] # None
             /\ dir' = [dir EXCEPT ![p] = None]
             /\ leftover' = leftover \cup {copy}
             /\ call' = [call EXCEPT ![c].at = "swap", ![c].backup = {copy}]
       /\ UNCHANGED <<file, memory, calls, crashes, history, alone>>

\* The new version takes the place; if that fails, the backup goes back to it,
\* which may fail as well, and does when another call has put a version there.
Swap(c) ==
    LET p == call[c].plugin
    IN /\ At(c, "swap")
       /\ \/ /\ dir[p] = None
             /\ dir' = [dir EXCEPT ![p] = call[c].version]
             /\ owned' = [owned EXCEPT ![p] = TRUE]
             /\ leftover' = leftover \ call[c].backup
             /\ Goto(c, "load")
          \/ /\ dir[p] = None
             /\ dir' = [dir EXCEPT ![p] = (CHOOSE b \in call[c].backup : TRUE).version]
             /\ owned' = [owned EXCEPT ![p] = TRUE]
             /\ leftover' = leftover \ call[c].backup
             /\ Return(c)
          \/ Return(c) /\ UNCHANGED <<dir, owned, leftover>>
       /\ UNCHANGED <<file, memory, calls, crashes, recorded, uninstalled, spoilt, alone>>

\* LoadPlugin: the instance is new; a process of the old one runs on without it.
Load(c) ==
    LET p == call[c].plugin
    IN /\ At(c, "load")
       /\ IF dir[p] = None \/ dir[p] \in Broken
          THEN Return(c) /\ UNCHANGED <<inst, orphans>>
          ELSE /\ inst' = [inst EXCEPT ![p] = Instance(dir[p], TRUE, FALSE)]
               /\ orphans' = Dropped(p)
               /\ Goto(c, "check")
       /\ UNCHANGED <<disk, store, calls, crashes, history, alone>>

\* validateManifestConstraints; checkLicense only warns.
Check(c) ==
    LET p == call[c].plugin
    IN /\ At(c, "check")
       /\ IF inst[p] # None /\ inst[p].version \notin Good
          THEN /\ inst' = [inst EXCEPT ![p] = None] /\ orphans' = Dropped(p)
               /\ Return(c)
          ELSE Goto(c, "start") /\ UNCHANGED <<inst, orphans>>
       /\ UNCHANGED <<disk, store, calls, crashes, history, alone>>

\* StartPlugin, for install and enable: no instance, already running, a start
\* that fails, or one that works.
Start(c) ==
    LET p == call[c].plugin
        to == IF call[c].op = "install" THEN Idle ELSE [call[c] EXCEPT !.at = "collect"]
    IN /\ At(c, "start")
       /\ \/ Return(c) /\ UNCHANGED inst
          \/ /\ inst[p] # None /\ ~inst[p].running
             /\ inst' = [inst EXCEPT ![p].running = TRUE]
             /\ call' = [call EXCEPT ![c] = to]
       /\ UNCHANGED <<disk, orphans, store, calls, crashes, history, alone>>

----------------------------------------------------------------------------
(* UninstallPlugin; DisablePlugin and EnablePlugin. *)

Flag(c) ==
    LET p == call[c].plugin
    IN /\ At(c, "flag")
       /\ IF inst[p] = None
          THEN Return(c) /\ UNCHANGED inst
          ELSE /\ inst' = [inst EXCEPT ![p].enabled = call[c].op = "enable"]
               /\ Goto(c, IF call[c].op = "enable" THEN "start" ELSE "stop")
       /\ UNCHANGED <<disk, orphans, store, calls, crashes, history, alone>>

Stop(c) ==
    LET p == call[c].plugin
        uninstalls == call[c].op = "uninstall"
    IN /\ At(c, "stop")
       /\ IF inst[p] = None
          THEN Return(c) /\ UNCHANGED inst
          ELSE /\ inst' = [inst EXCEPT ![p].running = FALSE]
               /\ Goto(c, IF uninstalls THEN "unload" ELSE "collect")
       /\ UNCHANGED <<disk, orphans, store, calls, crashes, history, alone>>

\* Mutant: the host keeps the instance.
UnloadNothing(c) ==
    /\ At(c, "unload") /\ Goto(c, "remove")
    /\ UNCHANGED <<disk, memory, calls, crashes, history, alone>>

Unload(c) ==
    LET p == call[c].plugin
    IN /\ At(c, "unload")
       /\ orphans' = Dropped(p)
       /\ inst' = [inst EXCEPT ![p] = None]
       /\ Goto(c, "remove")
       /\ UNCHANGED <<disk, store, calls, crashes, history, alone>>

\* The plugin's directory goes; or the removal fails part of the way and ends
\* the call, with the instance gone and a directory that may still load.
Remove(c) ==
    LET p == call[c].plugin
        Leaves(what) == [uninstalled EXCEPT ![p] = IF alone[c] THEN what ELSE "no"]
    IN /\ At(c, "remove")
       /\ \/ /\ dir' = [dir EXCEPT ![p] = None]
             /\ uninstalled' = Leaves("whole")
             /\ Goto(c, "removed")
          \/ /\ dir[p] # None
             /\ \E rest \in {dir[p]} \cup Broken : dir' = [dir EXCEPT ![p] = rest]
             /\ uninstalled' = Leaves("half")
             /\ Return(c)
       /\ owned' = [owned EXCEPT ![p] = FALSE]
       /\ UNCHANGED <<leftover, file, memory, calls, crashes, recorded, spoilt, alone>>

\* The plugin's data, whose removal may fail too.
Removed(c) ==
    /\ At(c, "removed") /\ Return(c)
    /\ UNCHANGED <<disk, memory, calls, crashes, history, alone>>

----------------------------------------------------------------------------
(* savePluginState, whose error is dropped.  WriteFile empties the file and   *)
(* then writes, which may fail; two writers at once may leave the end of the  *)
(* longer text.                                                               *)

\* Mutant: only the plugin of the call is written.
CollectOne(c) ==
    /\ At(c, "collect")
    /\ call' = [call EXCEPT ![c].at = "truncate", ![c].flags = [p \in Plugins |->
          IF inst[p] = None \/ p # call[c].plugin THEN None ELSE inst[p].enabled]]
    /\ UNCHANGED <<disk, memory, calls, crashes, history, alone>>

Collect(c) ==
    /\ At(c, "collect")
    /\ call' = [call EXCEPT ![c].at = "truncate", ![c].flags = [p \in Plugins |->
          IF inst[p] = None THEN None ELSE inst[p].enabled]]
    /\ UNCHANGED <<disk, memory, calls, crashes, history, alone>>

Truncate(c) ==
    /\ At(c, "truncate")
    /\ \/ Return(c) /\ UNCHANGED file      \* the file cannot be opened
       \/ file' = None /\ Goto(c, "write")
    /\ UNCHANGED <<dir, leftover, memory, calls, crashes, history, alone>>

\* Another call that has collected and not yet written will write what it saw.
Write(c) ==
    LET p == call[c].plugin
        late == \E d \in Callers \ {c} : At(d, "truncate") \/ At(d, "write")
    IN /\ At(c, "write") /\ Return(c)
       /\ file' \in {None, call[c].flags}
       /\ spoilt' = (file' = None)
       /\ recorded' = IF late THEN [x \in Plugins |-> None]
                      ELSE [recorded EXCEPT ![p] = IF alone[c] THEN call[c].op = "enable" ELSE None]
       /\ UNCHANGED <<dir, leftover, memory, calls, crashes, owned, uninstalled, alone>>

----------------------------------------------------------------------------
\* The server dies, with the plugins, whose input ends; the next start
\* discovers what is on the disk, a plugin half uninstalled too, and forgets
\* every wish when the state file cannot be read.
Crash ==
    /\ crashes < MaxCrashes /\ crashes' = crashes + 1
    /\ uninstalled' = [p \in Plugins |-> IF uninstalled[p] = "half" THEN "no" ELSE uninstalled[p]]
    /\ call' = [c \in Callers |-> Idle] /\ alone' = [c \in Callers |-> TRUE]
    /\ orphans' = {} /\ store' = None
    /\ \E runs \in BOOLEAN : inst' = [p \in Plugins |-> Discovered(p, runs)]
    /\ recorded' = IF file = None THEN [p \in Plugins |-> None] ELSE recorded
    /\ UNCHANGED <<disk, calls, owned, spoilt>>

Step(c) ==
    \/ Begin(c)
    \/ Resolve(c) \/ Fetch(c) \/ Unpack(c) \/ Stat(c) \/ Place(c) \/ Backup(c) \/ Swap(c)
    \/ Load(c) \/ Check(c) \/ Start(c)
    \/ Flag(c) \/ Stop(c) \/ Unload(c) \/ Remove(c) \/ Removed(c)
    \/ Collect(c) \/ Truncate(c) \/ Write(c)

Next == (\E c \in Callers : Step(c)) \/ Refresh \/ Crash

Spec == Init /\ [][Next]_vars

----------------------------------------------------------------------------
(* Properties. *)

Flags == [Plugins -> BOOLEAN \cup {None}]
Copies == [plugin : Plugins, version : Versions, by : Callers]
Places == {"idle", "resolve", "download", "unpack", "stat", "place", "backup", "swap", "load",
           "check", "start", "flag", "stop", "unload", "remove", "removed",
           "collect", "truncate", "write"}

TypeOK ==
    /\ dir \in [Plugins -> Versions \cup {None}] /\ leftover \subseteq Copies
    /\ file \in Flags \cup {None}
    /\ inst \in [Plugins -> {None} \cup
                    [version : Versions, enabled : BOOLEAN, running : BOOLEAN]]
    /\ orphans \subseteq Plugins /\ store \in Registries \cup {None}
    /\ call \in [Callers -> [at : Places, op : {None, "install", "uninstall", "enable", "disable"},
                             plugin : Plugins \cup {None}, version : Versions \cup {None},
                             backup : SUBSET Copies, flags : Flags \cup {None}]]
    /\ calls \in Nat /\ crashes \in Nat
    /\ owned \in [Plugins -> BOOLEAN] /\ recorded \in Flags
    /\ uninstalled \in [Plugins -> {"no", "half", "whole"}] /\ spoilt \in BOOLEAN
    /\ alone \in [Callers -> BOOLEAN]

\* An installed plugin never vanishes from the disk: whatever calls meet and
\* wherever the server dies, its directory or a backup of it is there.
AlwaysACopy ==
    \A p \in Plugins : owned[p] => dir[p] # None \/ \E b \in leftover : b.plugin = p

\* A save has emptied the state file and not written it, or could not write it.
Emptied == spoilt \/ \E c \in Callers : At(c, "write")

\* After a restart a plugin is enabled as the last enable or disable of it said
\* that met no other call and whose save could open the file, whatever commands
\* of other plugins came since; but when the server dies while a save has emptied
\* the state file, or after one whose write failed, every plugin is enabled, the
\* disabled ones too.
WishSurvives ==
    [][crashes' > crashes =>
         \A p \in Plugins : inst'[p] # None /\ recorded[p] # None =>
             inst'[p].enabled = (recorded[p] \/ Emptied)]_vars

\* What an uninstall that met no other call leaves stays as it left it until the
\* plugin is installed again: nothing loaded and nothing on the disk; or, when
\* the removal failed, nothing loaded, until a restart finds what is left.
UninstallComplete ==
    \A p \in Plugins :
        /\ uninstalled[p] # "no" => inst[p] = None
        /\ uninstalled[p] = "whole" => dir[p] = None
=============================================================================
