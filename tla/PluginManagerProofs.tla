------------------------ MODULE PluginManagerProofs ------------------------
(* The plugin manager, for any plugins, versions, registries, callers and   *)
(* any number of calls and crashes: no installed plugin vanishes, what an   *)
(* uninstall leaves, whole or half done, and whose wish a restart obeys.    *)
EXTENDS PluginManager, TLAPS

Instances == [version : Versions, enabled : BOOLEAN, running : BOOLEAN]
Ops == {None, "install", "uninstall", "enable", "disable"}
Calls == [at : Places, op : Ops, plugin : Plugins \cup {None}, version : Versions \cup {None},
          backup : SUBSET Copies, flags : Flags \cup {None}]

----------------------------------------------------------------------------
(* What each place of a call says of its fields.                            *)

Remains == {"no", "half", "whole"}
Installing == {"resolve", "download", "unpack", "stat", "place", "backup", "swap", "load", "check"}
Saving == {"collect", "truncate", "write"}

Fits(k) ==
    /\ k.at = "idle" => k = Idle
    /\ k.at # "idle" => k.plugin # None
    /\ k.at \in Installing => k.op = "install"
    /\ k.at \in {"unload", "remove", "removed"} => k.op = "uninstall"
    /\ k.at = "flag" \/ k.at \in Saving => k.op \in {"enable", "disable"}
    /\ k.at = "start" => k.op \in {"install", "enable"}
    /\ k.at = "stop" => k.op \in {"uninstall", "disable"}
    /\ k.at \in Installing \ {"resolve", "load", "check"} => k.version # None
    /\ k.at = "swap" => k.backup # {} /\ \A b \in k.backup : b.plugin = k.plugin
    /\ k.at \in {"truncate", "write"} => k.flags \in Flags

CallsFit == \A c \in Callers : Fits(call[c])

Typed == TypeOK /\ CallsFit

LEMMA IdleIsTyped == Idle \in Calls
BY ConstAssumption DEF Idle, Calls, Places, Ops, Copies

LEMMA DiscoveredIsTyped ==
    ASSUME TypeOK, NEW p \in Plugins, NEW runs \in BOOLEAN
    PROVE  Discovered(p, runs) \in Instances \cup {None}
BY ConstAssumption DEF TypeOK, Discovered, Instance, Instances

LEMMA TypedInit == Init => Typed
<1>. SUFFICES ASSUME Init PROVE Typed
  OBVIOUS
<1>1. dir \in [Plugins -> Versions \cup {None}]
  BY ConstAssumption DEF Init
<1>2. inst \in [Plugins -> Instances \cup {None}]
  BY <1>1, ConstAssumption DEF Init, Discovered, Instance, Instances
<1>3. call \in [Callers -> Calls] /\ CallsFit
  BY IdleIsTyped DEF Init, CallsFit, Fits, Idle, Installing, Saving
<1>4. owned \in [Plugins -> BOOLEAN] /\ recorded \in Flags
      /\ uninstalled \in [Plugins -> Remains] /\ spoilt \in BOOLEAN
      /\ alone \in [Callers -> BOOLEAN]
  BY DEF Init, Flags, Remains
<1>. QED
  BY <1>1, <1>2, <1>3, <1>4 DEF Init, Typed, TypeOK, Instances, Calls, Ops, Remains

\* What a call becomes is all that can disturb the calls.
LEMMA CallsKept ==
    ASSUME Typed, NEW c \in Callers, NEW k \in Calls, Fits(k), call' = [call EXCEPT ![c] = k]
    PROVE  call' \in [Callers -> Calls] /\ CallsFit'
BY DEF Typed, TypeOK, CallsFit, Calls, Ops

LEMMA ReturnIs ==
    ASSUME Typed, NEW c \in Callers, Return(c)
    PROVE  /\ call' \in [Callers -> Calls] /\ CallsFit'
           /\ call'[c] = Idle /\ \A d \in Callers \ {c} : call'[d] = call[d]
<1>1. Fits(Idle)
  BY DEF Fits, Idle, Installing, Saving
<1>2. call' = [call EXCEPT ![c] = Idle]
  BY DEF Return
<1>. QED
  BY <1>1, <1>2, IdleIsTyped, CallsKept DEF Typed, TypeOK

\* A step to another place, with the fields that place asks for.
LEMMA GotoIs ==
    ASSUME Typed, NEW c \in Callers, NEW w \in Places, Goto(c, w),
           Fits([call[c] EXCEPT !.at = w])
    PROVE  /\ call' \in [Callers -> Calls] /\ CallsFit'
           /\ call'[c] = [call[c] EXCEPT !.at = w]
           /\ \A d \in Callers \ {c} : call'[d] = call[d]
<1>1. call[c] \in Calls /\ call \in [Callers -> Calls]
  BY DEF Typed, TypeOK, Calls, Ops
<1>2. [call[c] EXCEPT !.at = w] \in Calls
  BY <1>1 DEF Calls
<1>3. call' = [call EXCEPT ![c] = [call[c] EXCEPT !.at = w]]
  BY <1>1 DEF Goto
<1>. QED
  BY <1>1, <1>2, <1>3, CallsKept

LEMMA SwapFits ==
    ASSUME NEW k, NEW b, k.at = "swap", k.backup = {b}, b.plugin = k.plugin,
           k.plugin # None, k.op = "install", k.version # None
    PROVE  Fits(k)
BY DEF Fits, Installing, Saving

\* One step of a caller keeps the types and the places of the calls.
LEMMA StepTyped ==
    ASSUME Typed, NEW c \in Callers, Step(c)
    PROVE  Typed'
<1>. DEFINE p == call[c].plugin
<1>0. /\ call \in [Callers -> Calls] /\ call[c] \in Calls /\ Fits(call[c])
      /\ inst \in [Plugins -> Instances \cup {None}]
  BY DEF Typed, TypeOK, CallsFit, Calls, Ops, Instances
<1>a. ASSUME call[c].at # "idle" PROVE p \in Plugins
  BY <1>0, <1>a DEF Fits, Calls
<1>u. ASSUME call' \in [Callers -> Calls] /\ CallsFit',
             dir' \in [Plugins -> Versions \cup {None}] /\ leftover' \subseteq Copies,
             file' \in Flags \cup {None}, inst' \in [Plugins -> Instances \cup {None}],
             orphans' \subseteq Plugins, store' = store, calls' \in Nat, crashes' = crashes,
             owned' \in [Plugins -> BOOLEAN], recorded' \in Flags,
             uninstalled' \in [Plugins -> Remains], spoilt' \in BOOLEAN,
             alone' \in [Callers -> BOOLEAN]
      PROVE  Typed'
  BY <1>u DEF Typed, TypeOK, Instances, Calls, Ops, Remains
<1>1. CASE Begin(c)
  <2>1. PICK q \in Plugins, op \in {"install", "uninstall", "enable", "disable"} :
           /\ call' = [call EXCEPT ![c] = [Idle EXCEPT !.op = op, !.plugin = q,
                !.at = CASE op = "install" -> "resolve" [] op = "uninstall" -> "stop" [] OTHER -> "flag"]]
           /\ recorded' = [recorded EXCEPT ![q] = None]
           /\ uninstalled' = [uninstalled EXCEPT ![q] = IF op = "install" THEN "no" ELSE @]
    BY <1>1 DEF Begin
  <2>. DEFINE k == [Idle EXCEPT !.op = op, !.plugin = q,
                !.at = CASE op = "install" -> "resolve" [] op = "uninstall" -> "stop" [] OTHER -> "flag"]
  <2>2. k \in Calls
    BY IdleIsTyped DEF Calls, Places, Ops
  <2>3. Fits(k)
    BY ConstAssumption DEF Fits, Idle, Installing, Saving
  <2>4. call' \in [Callers -> Calls] /\ CallsFit'
    BY <2>1, <2>2, <2>3, CallsKept
  <2>5. recorded' \in Flags /\ uninstalled' \in [Plugins -> Remains]
    BY <2>1 DEF Typed, TypeOK, Flags, Remains
  <2>6. alone' \in [Callers -> BOOLEAN]
    <3>1. PICK met : alone' = [d \in Callers |->
                         IF d = c THEN met = {} ELSE alone[d] /\ d \notin met]
      BY <1>1 DEF Begin
    <3>2. \A d \in Callers : (IF d = c THEN met = {} ELSE alone[d] /\ d \notin met) \in BOOLEAN
      BY DEF Typed, TypeOK
    <3>. QED
      BY <3>1, <3>2
  <2>. QED
    BY <1>1, <1>u, <2>4, <2>5, <2>6 DEF Begin, disk, memory, Typed, TypeOK, Instances, Remains
<1>2. CASE Resolve(c)
  <2>1. CASE Return(c)
    BY <1>2, <1>u, <2>1, ReturnIs DEF Resolve, disk, memory, history, Typed, TypeOK, Instances, Remains
  <2>2. CASE ~(store = None \/ store[p] = None)
    <3>. DEFINE k == [call[c] EXCEPT !.at = "download", !.version = store[p]]
    <3>1. p \in Plugins
      BY <1>2, <1>a DEF Resolve, At
    <3>2. k \in Calls
      <4>1. store \in [Plugins -> Versions \cup {None}]
        BY <2>2, ConstAssumption DEF Typed, TypeOK
      <4>2. store[p] \in Versions \cup {None}
        BY <3>1, <4>1
      <4>. QED
        BY <1>0, <4>2 DEF Calls, Places
    <3>3. Fits(k)
      BY <1>0, <1>2, <2>2 DEF Resolve, At, Fits, Calls, Installing, Saving
    <3>4. call' = [call EXCEPT ![c] = k]
      BY <1>0, <1>2, <2>2 DEF Resolve
    <3>5. call' \in [Callers -> Calls] /\ CallsFit'
      BY <3>2, <3>3, <3>4, CallsKept
    <3>. QED
      BY <1>2, <1>u, <3>5 DEF Resolve, disk, memory, history, Typed, TypeOK, Instances, Remains
  <2>. QED
    BY <1>2, <2>1, <2>2 DEF Resolve
<1>3. CASE Fetch(c)
  <2>1. Fits([call[c] EXCEPT !.at = "unpack"])
    BY <1>0, <1>3 DEF Fetch, At, Fits, Calls, Installing, Saving
  <2>2. call' \in [Callers -> Calls] /\ CallsFit'
    BY <1>3, <2>1, ReturnIs, GotoIs DEF Fetch, Places
  <2>. QED
    BY <1>3, <1>u, <2>2 DEF Fetch, disk, memory, history, Typed, TypeOK, Instances, Remains
<1>4. CASE Unpack(c)
  <2>1. Fits([call[c] EXCEPT !.at = "stat"])
    BY <1>0, <1>4 DEF Unpack, At, Fits, Calls, Installing, Saving
  <2>2. call' \in [Callers -> Calls] /\ CallsFit'
    BY <1>4, <2>1, ReturnIs, GotoIs DEF Unpack, Places
  <2>. QED
    BY <1>4, <1>u, <2>2 DEF Unpack, disk, memory, history, Typed, TypeOK, Instances, Remains
<1>5. CASE Stat(c)
  <2>1. Fits([call[c] EXCEPT !.at = "place"]) /\ Fits([call[c] EXCEPT !.at = "backup"])
    BY <1>0, <1>5 DEF Stat, At, Fits, Calls, Installing, Saving
  <2>2. call' \in [Callers -> Calls] /\ CallsFit'
    BY <1>5, <2>1, GotoIs DEF Stat, Places
  <2>. QED
    BY <1>5, <1>u, <2>2 DEF Stat, disk, memory, history, Typed, TypeOK, Instances, Remains
<1>6. CASE Place(c)
  <2>1. Fits([call[c] EXCEPT !.at = "load"]) /\ p \in Plugins
    BY <1>0, <1>a, <1>6 DEF Place, At, Fits, Calls, Installing, Saving
  <2>2. call' \in [Callers -> Calls] /\ CallsFit'
    BY <1>6, <2>1, ReturnIs, GotoIs DEF Place, Places
  <2>3. dir' \in [Plugins -> Versions \cup {None}] /\ owned' \in [Plugins -> BOOLEAN]
    BY <1>0, <1>6, <2>1 DEF Place, Typed, TypeOK, Calls
  <2>. QED
    BY <1>6, <1>u, <2>2, <2>3 DEF Place, memory, Typed, TypeOK, Instances, Remains
<1>7. CASE Backup(c)
  <2>. DEFINE copy == [plugin |-> p, version |-> dir[p], by |-> c]
              k == [call[c] EXCEPT !.at = "swap", !.backup = {copy}]
  <2>1. p \in Plugins
    BY <1>7, <1>a DEF Backup, At
  <2>2. CASE Return(c) /\ UNCHANGED <<dir, leftover>>
    BY <1>7, <1>u, <2>2, ReturnIs DEF Backup, memory, history, Typed, TypeOK, Instances, Remains
  <2>3. CASE ~(Return(c) /\ UNCHANGED <<dir, leftover>>)
    <3>1. /\ dir[p] # None /\ dir' = [dir EXCEPT ![p] = None]
          /\ leftover' = leftover \cup {copy}
          /\ call' = [call EXCEPT ![c].at = "swap", ![c].backup = {copy}]
      BY <1>7, <2>3 DEF Backup
    <3>2. copy \in Copies
      BY <2>1, <3>1 DEF Copies, Typed, TypeOK
    <3>3. k \in Calls
      BY <1>0, <3>2 DEF Calls, Places
    <3>4. Fits(k)
      <4>1. /\ k.at = "swap" /\ k.plugin = p /\ k.backup = {copy}
            /\ k.op = call[c].op /\ k.version = call[c].version
        BY <1>0 DEF Calls
      <4>2. p # None /\ call[c].op = "install" /\ call[c].version # None
        BY <1>0, <1>7 DEF Backup, At, Fits, Installing
      <4>3. copy.plugin = p
        OBVIOUS
      <4>. HIDE DEF k, copy, p
      <4>. QED
        BY <4>1, <4>2, <4>3, SwapFits
    <3>5. call' = [call EXCEPT ![c] = k]
      BY <1>0, <3>1
    <3>6. call' \in [Callers -> Calls] /\ CallsFit'
      BY <3>3, <3>4, <3>5, CallsKept
    <3>7. dir' \in [Plugins -> Versions \cup {None}] /\ leftover' \subseteq Copies
      BY <3>1, <3>2 DEF Typed, TypeOK
    <3>. QED
      BY <1>7, <1>u, <3>6, <3>7 DEF Backup, memory, history, Typed, TypeOK, Instances, Remains
  <2>. QED
    BY <2>2, <2>3
<1>8. CASE Swap(c)
  <2>1. Fits([call[c] EXCEPT !.at = "load"]) /\ p \in Plugins
    BY <1>0, <1>a, <1>8 DEF Swap, At, Fits, Calls, Installing, Saving
  <2>2. call' \in [Callers -> Calls] /\ CallsFit'
    BY <1>8, <2>1, ReturnIs, GotoIs DEF Swap, Places
  <2>3. (CHOOSE b \in call[c].backup : TRUE) \in call[c].backup
    BY <1>0, <1>8 DEF Swap, At, Fits
  <2>4. (CHOOSE b \in call[c].backup : TRUE).version \in Versions
    BY <1>0, <2>3 DEF Calls, Copies
  <2>5. /\ dir' \in [Plugins -> Versions \cup {None}] /\ leftover' \subseteq Copies
        /\ owned' \in [Plugins -> BOOLEAN]
    BY <1>0, <1>8, <2>1, <2>4 DEF Swap, Typed, TypeOK, Calls
  <2>. QED
    BY <1>8, <1>u, <2>2, <2>5 DEF Swap, memory, Typed, TypeOK, Instances, Remains
<1>9. CASE Load(c)
  <2>1. Fits([call[c] EXCEPT !.at = "check"]) /\ p \in Plugins
    BY <1>0, <1>a, <1>9 DEF Load, At, Fits, Calls, Installing, Saving
  <2>2. call' \in [Callers -> Calls] /\ CallsFit'
    BY <1>9, <2>1, ReturnIs, GotoIs DEF Load, Places
  <2>3. inst' \in [Plugins -> Instances \cup {None}] /\ orphans' \subseteq Plugins
    <3>1. CASE inst' = inst /\ orphans' = orphans
      BY <1>0, <3>1 DEF Typed, TypeOK
    <3>2. CASE /\ dir[p] # None /\ orphans' = Dropped(p)
               /\ inst' = [inst EXCEPT ![p] = Instance(dir[p], TRUE, FALSE)]
      <4>1. Instance(dir[p], TRUE, FALSE) \in Instances
        BY <2>1, <3>2 DEF Typed, TypeOK, Instance, Instances
      <4>. QED
        BY <1>0, <2>1, <3>2, <4>1 DEF Typed, TypeOK, Dropped
    <3>. QED
      BY <1>9, <3>1, <3>2 DEF Load
  <2>. QED
    BY <1>9, <1>u, <2>2, <2>3 DEF Load, disk, history, Typed, TypeOK, Remains
<1>10. CASE Check(c)
  <2>1. Fits([call[c] EXCEPT !.at = "start"]) /\ p \in Plugins
    BY <1>0, <1>a, <1>10 DEF Check, At, Fits, Calls, Installing, Saving
  <2>2. call' \in [Callers -> Calls] /\ CallsFit'
    BY <1>10, <2>1, ReturnIs, GotoIs DEF Check, Places
  <2>3. inst' \in [Plugins -> Instances \cup {None}] /\ orphans' \subseteq Plugins
    BY <1>0, <1>10, <2>1 DEF Check, Typed, TypeOK, Dropped
  <2>. QED
    BY <1>10, <1>u, <2>2, <2>3 DEF Check, disk, history, Typed, TypeOK, Remains
<1>11. CASE Start(c)
  <2>1. call[c].op = "install" \/ Fits([call[c] EXCEPT !.at = "collect"])
    BY <1>0, <1>11 DEF Start, At, Fits, Calls, Installing, Saving
  <2>2. [call[c] EXCEPT !.at = "collect"] \in Calls /\ p \in Plugins
    BY <1>0, <1>a, <1>11 DEF Start, At, Calls, Places
  <2>3. call' \in [Callers -> Calls] /\ CallsFit'
    <3>1. CASE Return(c)
      BY <3>1, ReturnIs
    <3>2. CASE call' = [call EXCEPT ![c] = IF call[c].op = "install" THEN Idle
                                            ELSE [call[c] EXCEPT !.at = "collect"]]
      BY <2>1, <2>2, <3>2, CallsKept, ReturnIs DEF Return
    <3>. QED
      BY <1>11, <3>1, <3>2 DEF Start
  <2>4. inst' \in [Plugins -> Instances \cup {None}]
    <3>1. CASE inst' = inst
      BY <1>0, <3>1
    <3>2. CASE inst[p] # None /\ inst' = [inst EXCEPT ![p].running = TRUE]
      <4>1. inst[p] \in Instances
        BY <1>0, <2>2, <3>2
      <4>2. inst' = [inst EXCEPT ![p] = [inst[p] EXCEPT !.running = TRUE]]
        BY <1>0, <3>2
      <4>3. [inst[p] EXCEPT !.running = TRUE] \in Instances
        BY <4>1 DEF Instances
      <4>. QED
        BY <1>0, <4>2, <4>3
    <3>. QED
      BY <1>11, <3>1, <3>2 DEF Start
  <2>. QED
    BY <1>11, <1>u, <2>3, <2>4 DEF Start, disk, history, Typed, TypeOK, Remains
<1>12. CASE Flag(c)
  <2>1. /\ Fits([call[c] EXCEPT !.at = IF call[c].op = "enable" THEN "start" ELSE "stop"])
        /\ p \in Plugins
    BY <1>0, <1>a, <1>12 DEF Flag, At, Fits, Calls, Installing, Saving
  <2>2. call' \in [Callers -> Calls] /\ CallsFit'
    BY <1>12, <2>1, ReturnIs, GotoIs DEF Flag, Places
  <2>3. inst' \in [Plugins -> Instances \cup {None}]
    <3>1. CASE inst' = inst
      BY <1>0, <3>1
    <3>2. CASE inst[p] # None /\ inst' = [inst EXCEPT ![p].enabled = call[c].op = "enable"]
      <4>1. inst[p] \in Instances
        BY <1>0, <2>1, <3>2
      <4>2. inst' = [inst EXCEPT ![p] = [inst[p] EXCEPT !.enabled = call[c].op = "enable"]]
        BY <1>0, <3>2
      <4>3. [inst[p] EXCEPT !.enabled = call[c].op = "enable"] \in Instances
        BY <4>1 DEF Instances
      <4>. QED
        BY <1>0, <4>2, <4>3
    <3>. QED
      BY <1>12, <3>1, <3>2 DEF Flag
  <2>. QED
    BY <1>12, <1>u, <2>2, <2>3 DEF Flag, disk, history, Typed, TypeOK, Remains
<1>13. CASE Stop(c)
  <2>1. /\ Fits([call[c] EXCEPT !.at = IF call[c].op = "uninstall" THEN "unload" ELSE "collect"])
        /\ p \in Plugins
    BY <1>0, <1>a, <1>13 DEF Stop, At, Fits, Calls, Installing, Saving
  <2>2. call' \in [Callers -> Calls] /\ CallsFit'
    BY <1>13, <2>1, ReturnIs, GotoIs DEF Stop, Places
  <2>3. inst' \in [Plugins -> Instances \cup {None}]
    <3>1. CASE inst' = inst
      BY <1>0, <3>1
    <3>2. CASE inst[p] # None /\ inst' = [inst EXCEPT ![p].running = FALSE]
      <4>1. inst[p] \in Instances
        BY <1>0, <2>1, <3>2
      <4>2. inst' = [inst EXCEPT ![p] = [inst[p] EXCEPT !.running = FALSE]]
        BY <1>0, <3>2
      <4>3. [inst[p] EXCEPT !.running = FALSE] \in Instances
        BY <4>1 DEF Instances
      <4>. QED
        BY <1>0, <4>2, <4>3
    <3>. QED
      BY <1>13, <3>1, <3>2 DEF Stop
  <2>. QED
    BY <1>13, <1>u, <2>2, <2>3 DEF Stop, disk, history, Typed, TypeOK, Remains
<1>14. CASE Unload(c)
  <2>1. Fits([call[c] EXCEPT !.at = "remove"]) /\ p \in Plugins
    BY <1>0, <1>a, <1>14 DEF Unload, At, Fits, Calls, Installing, Saving
  <2>2. call' \in [Callers -> Calls] /\ CallsFit'
    BY <1>14, <2>1, GotoIs DEF Unload, Places
  <2>3. inst' \in [Plugins -> Instances \cup {None}] /\ orphans' \subseteq Plugins
    BY <1>0, <1>14, <2>1 DEF Unload, Typed, TypeOK, Dropped
  <2>. QED
    BY <1>14, <1>u, <2>2, <2>3 DEF Unload, disk, history, Typed, TypeOK, Remains
<1>15. CASE Remove(c)
  <2>1. Fits([call[c] EXCEPT !.at = "removed"]) /\ p \in Plugins
    BY <1>0, <1>a, <1>15 DEF Remove, At, Fits, Calls, Installing, Saving
  <2>2. call' \in [Callers -> Calls] /\ CallsFit'
    BY <1>15, <2>1, ReturnIs, GotoIs DEF Remove, Places
  <2>3. dir' \in [Plugins -> Versions \cup {None}]
    BY <1>15, <2>1, ConstAssumption DEF Remove, Typed, TypeOK
  <2>4. owned' \in [Plugins -> BOOLEAN] /\ uninstalled' \in [Plugins -> Remains]
    BY <1>15, <2>1 DEF Remove, Typed, TypeOK, Remains
  <2>. QED
    BY <1>15, <1>u, <2>2, <2>3, <2>4 DEF Remove, memory, Typed, TypeOK, Instances
<1>16. CASE Removed(c)
  BY <1>16, <1>u, ReturnIs DEF Removed, disk, memory, history, Typed, TypeOK, Instances, Remains
<1>17. CASE Collect(c)
  <2>. DEFINE g == [x \in Plugins |-> IF inst[x] = None THEN None ELSE inst[x].enabled]
              k == [call[c] EXCEPT !.at = "truncate", !.flags = g]
  <2>1. g \in Flags
    BY <1>0 DEF Flags, Instances
  <2>2. k \in Calls
    BY <1>0, <2>1 DEF Calls, Places
  <2>4. Fits(k)
    BY <1>0, <1>17, <2>1 DEF Collect, At, Fits, Calls, Installing, Saving
  <2>5. call' = [call EXCEPT ![c] = k]
    BY <1>0, <1>17 DEF Collect
  <2>6. call' \in [Callers -> Calls] /\ CallsFit'
    BY <2>2, <2>4, <2>5, CallsKept
  <2>. QED
    BY <1>17, <1>u, <2>6 DEF Collect, disk, memory, history, Typed, TypeOK, Instances, Remains
<1>18. CASE Truncate(c)
  <2>1. Fits([call[c] EXCEPT !.at = "write"])
    BY <1>0, <1>18 DEF Truncate, At, Fits, Calls, Installing, Saving
  <2>2. call' \in [Callers -> Calls] /\ CallsFit'
    BY <1>18, <2>1, ReturnIs, GotoIs DEF Truncate, Places
  <2>3. file' \in Flags \cup {None}
    BY <1>18 DEF Truncate, Typed, TypeOK
  <2>. QED
    BY <1>18, <1>u, <2>2, <2>3 DEF Truncate, memory, history, Typed, TypeOK, Instances, Remains
<1>19. CASE Write(c)
  <2>1. call' \in [Callers -> Calls] /\ CallsFit'
    BY <1>19, ReturnIs DEF Write
  <2>2. file' \in Flags \cup {None} /\ recorded' \in Flags /\ spoilt' \in BOOLEAN
    BY <1>0, <1>19 DEF Write, Typed, TypeOK, Calls, Flags
  <2>. QED
    BY <1>19, <1>u, <2>1, <2>2 DEF Write, memory, Typed, TypeOK, Instances, Remains
<1>. QED
  BY <1>1, <1>2, <1>3, <1>4, <1>5, <1>6, <1>7, <1>8, <1>9, <1>10, <1>11, <1>12, <1>13, <1>14,
     <1>15, <1>16, <1>17, <1>18, <1>19 DEF Step

LEMMA TypedStep == Typed /\ [Next]_vars => Typed'
<1>. SUFFICES ASSUME Typed, [Next]_vars PROVE Typed'
  OBVIOUS
<1>1. CASE UNCHANGED vars
  BY <1>1 DEF Typed, TypeOK, CallsFit, vars, disk, memory, history
<1>2. CASE Refresh
  BY <1>2 DEF Typed, TypeOK, CallsFit, Refresh, disk, history
<1>3. CASE Crash
  <2>1. PICK runs \in BOOLEAN : inst' = [x \in Plugins |-> Discovered(x, runs)]
    BY <1>3 DEF Crash
  <2>2. inst' \in [Plugins -> Instances \cup {None}]
    BY <2>1, DiscoveredIsTyped DEF Typed
  <2>3. call' \in [Callers -> Calls] /\ CallsFit'
    BY <1>3, IdleIsTyped DEF Crash, CallsFit, Fits, Idle, Installing, Saving
  <2>4. uninstalled' \in [Plugins -> Remains]
    BY <1>3 DEF Crash, Typed, TypeOK, Remains
  <2>5. recorded' \in Flags
    BY <1>3 DEF Crash, Typed, TypeOK, Flags
  <2>. QED
    BY <1>3, <2>2, <2>3, <2>4, <2>5 DEF Crash, Typed, TypeOK, disk, Instances, Calls, Ops, Remains
<1>. QED
  BY <1>1, <1>2, <1>3, StepTyped DEF Next

THEOREM TypeCorrect == Spec => []TypeOK
<1>1. Typed => TypeOK
  BY DEF Typed
<1>. QED
  BY <1>1, TypedInit, TypedStep, PTL DEF Spec

----------------------------------------------------------------------------
(* A step of a caller concerns the plugin of its call, and no other.        *)

\* The steps of a call after its first.
Continues(c) ==
    \/ Resolve(c) \/ Fetch(c) \/ Unpack(c) \/ Stat(c) \/ Place(c) \/ Backup(c) \/ Swap(c)
    \/ Load(c) \/ Check(c) \/ Start(c)
    \/ Flag(c) \/ Stop(c) \/ Unload(c) \/ Remove(c) \/ Removed(c)
    \/ Collect(c) \/ Truncate(c) \/ Write(c)

LEMMA OnlyItsPlugin ==
    ASSUME Typed, NEW c \in Callers, Continues(c)
    PROVE  /\ call[c].plugin \in Plugins
           /\ \A d \in Callers \ {c} : call'[d] = call[d]
           /\ call'[c].plugin \in {None, call[c].plugin}
           /\ call'[c].at # "idle" => call'[c].plugin = call[c].plugin /\ call'[c].op = call[c].op
           /\ \A x \in Plugins \ {call[c].plugin} :
                 /\ inst'[x] = inst[x] /\ dir'[x] = dir[x] /\ owned'[x] = owned[x]
                 /\ uninstalled'[x] = uninstalled[x]
           /\ alone' = alone
<1>. DEFINE p == call[c].plugin
<1>0. call \in [Callers -> Calls] /\ call[c] \in Calls /\ Fits(call[c])
  BY DEF Typed, TypeOK, CallsFit, Calls, Ops
<1>1. p \in Plugins /\ alone' = alone
  BY <1>0 DEF Continues, Resolve, Fetch, Unpack, Stat, Place, Backup, Swap, Load, Check, Start, Flag,
     Stop, Unload, Remove, Removed, Collect, Truncate, Write, At, Fits, Calls
<1>. DEFINE Moves == /\ \A d \in Callers \ {c} : call'[d] = call[d]
                     /\ \/ call'[c] = Idle
                        \/ call'[c].plugin = p /\ call'[c].op = call[c].op
<1>2. ASSUME NEW w, Goto(c, w) PROVE Moves
  BY <1>0, <1>2 DEF Goto, Calls
<1>3. ASSUME Return(c) PROVE Moves
  BY <1>0, <1>3 DEF Return
<1>4. Moves
  <2>1. CASE Resolve(c) \/ Backup(c) \/ Start(c) \/ Remove(c) \/ Collect(c)
    BY <1>0, <1>2, <1>3, <2>1 DEF Resolve, Backup, Start, Remove, Collect, Calls
  <2>. QED
    BY <1>2, <1>3, <2>1 DEF Continues, Fetch, Unpack, Stat, Place, Swap, Load, Check, Flag,
         Stop, Unload, Removed, Truncate, Write
<1>5. \A x \in Plugins \ {p} : inst'[x] = inst[x]
  BY DEF Continues, Resolve, Fetch, Unpack, Stat, Place, Backup, Swap, Load, Check, Start, Flag,
     Stop, Unload, Remove, Removed, Collect, Truncate, Write, memory, Typed, TypeOK
<1>6. \A x \in Plugins \ {p} : dir'[x] = dir[x]
  BY DEF Continues, Resolve, Fetch, Unpack, Stat, Place, Backup, Swap, Load, Check, Start, Flag,
     Stop, Unload, Remove, Removed, Collect, Truncate, Write, disk, Typed, TypeOK
<1>7. \A x \in Plugins \ {p} : owned'[x] = owned[x] /\ uninstalled'[x] = uninstalled[x]
  BY DEF Continues, Resolve, Fetch, Unpack, Stat, Place, Backup, Swap, Load, Check, Start, Flag,
     Stop, Unload, Remove, Removed, Collect, Truncate, Write, history, Typed, TypeOK
<1>. QED
  BY <1>1, <1>4, <1>5, <1>6, <1>7 DEF Idle

----------------------------------------------------------------------------
(* What is installed stays on the disk.                                     *)

\* Only a swap takes backups away, and those of its own plugin.
LEMMA OthersCopies ==
    ASSUME Typed, NEW c \in Callers, Continues(c), NEW b \in leftover, b.plugin # call[c].plugin
    PROVE  b \in leftover'
<1>1. CASE Swap(c)
  BY <1>1 DEF Swap, At, Typed, CallsFit, Fits
<1>2. CASE Backup(c)
  BY <1>2 DEF Backup
<1>3. CASE leftover' = leftover
  BY <1>3
<1>. QED
  BY <1>1, <1>2, <1>3 DEF Continues, Resolve, Fetch, Unpack, Stat, Place, Load, Check, Start, Flag,
     Stop, Unload, Remove, Removed, Collect, Truncate, Write, disk

\* The plugin of the call, when its directory goes: a backup has been made, or
\* nobody owns it any more.
LEMMA ItsCopy ==
    ASSUME Typed, NEW c \in Callers, Continues(c), AlwaysACopy,
           owned'[call[c].plugin], dir'[call[c].plugin] = None
    PROVE  \E b \in leftover' : b.plugin = call[c].plugin
<1>. DEFINE p == call[c].plugin
<1>0. /\ call \in [Callers -> Calls] /\ call[c] \in Calls /\ Fits(call[c]) /\ p \in Plugins
      /\ dir \in [Plugins -> Versions \cup {None}] /\ owned \in [Plugins -> BOOLEAN]
  BY OnlyItsPlugin DEF Typed, TypeOK, CallsFit, Calls, Ops
<1>1. CASE dir' = dir /\ owned' = owned /\ leftover' = leftover
  BY <1>0, <1>1 DEF AlwaysACopy
<1>2. CASE Place(c) /\ dir' # dir
  BY <1>0, <1>2, ConstAssumption DEF Place, At, Fits, Calls, Installing
<1>3. CASE Backup(c) /\ dir' # dir
  <2>1. [plugin |-> p, version |-> dir[p], by |-> c] \in leftover'
    BY <1>3 DEF Backup
  <2>2. [plugin |-> p, version |-> dir[p], by |-> c].plugin = p
    OBVIOUS
  <2>. QED
    BY <2>1, <2>2, Zenon
<1>4. CASE Swap(c)
  <2>1. (CHOOSE b \in call[c].backup : TRUE) \in call[c].backup
    BY <1>0, <1>4 DEF Swap, At, Fits
  <2>2. (CHOOSE b \in call[c].backup : TRUE).version # None
    BY <1>0, <2>1, ConstAssumption DEF Calls, Copies
  <2>3. call[c].version # None
    BY <1>0, <1>4 DEF Swap, At, Fits, Installing
  <2>4. dir' = dir /\ owned' = owned /\ leftover' = leftover
    BY <1>0, <1>4, <2>2, <2>3 DEF Swap
  <2>. QED
    BY <1>1, <2>4
<1>5. CASE Remove(c)
  BY <1>0, <1>5 DEF Remove
<1>. QED
  <2>1. \/ Place(c) \/ Backup(c) \/ Swap(c) \/ Remove(c)
        \/ dir' = dir /\ owned' = owned /\ leftover' = leftover
    BY DEF Continues, Resolve, Fetch, Unpack, Stat, Load, Check, Start, Flag,
           Stop, Unload, Removed, Collect, Truncate, Write, disk, history
  <2>2. CASE Place(c) /\ dir' = dir
    BY <1>0, <1>1, <2>2, ConstAssumption DEF Place, At, Fits, Calls, Installing
  <2>3. CASE Backup(c) /\ dir' = dir
    BY <1>0, <1>1, <2>3 DEF Backup, history
  <2>. QED
    BY <1>1, <1>2, <1>3, <1>4, <1>5, <2>1, <2>2, <2>3

LEMMA DiskStep == Typed /\ AlwaysACopy /\ [Next]_vars => AlwaysACopy'
<1>. SUFFICES ASSUME Typed, AlwaysACopy, [Next]_vars,
                     NEW x \in Plugins, owned'[x], dir'[x] = None
              PROVE  \E b \in leftover' : b.plugin = x
  BY DEF AlwaysACopy
<1>1. CASE owned' = owned /\ dir' = dir /\ leftover' = leftover
  BY <1>1 DEF AlwaysACopy
<1>2. CASE Crash
  BY <1>1, <1>2 DEF Crash, disk
<1>3. ASSUME NEW c \in Callers, Begin(c) PROVE \E b \in leftover' : b.plugin = x
  BY <1>1, <1>3 DEF Begin, disk
<1>4. ASSUME NEW c \in Callers, Continues(c) PROVE \E b \in leftover' : b.plugin = x
  <2>1. CASE x = call[c].plugin
    BY <1>4, <2>1, ItsCopy
  <2>2. CASE x # call[c].plugin
    <3>1. owned[x] /\ dir[x] = None
      BY <1>4, <2>2, OnlyItsPlugin
    <3>2. PICK b \in leftover : b.plugin = x
      BY <3>1 DEF AlwaysACopy
    <3>. QED
      BY <1>4, <2>2, <3>2, OthersCopies
  <2>. QED
    BY <2>1, <2>2
<1>. QED
  BY <1>1, <1>2, <1>3, <1>4 DEF Next, Step, Continues, Refresh, vars, disk, history

\* An installed plugin never vanishes from the disk, whatever calls meet and
\* wherever the server dies: when both renames of a swap fail, or it dies
\* between them, a backup is left.
THEOREM NothingVanishes == Spec => []AlwaysACopy
<1>1. Init => AlwaysACopy
  BY DEF Init, AlwaysACopy
<1>. QED
  BY <1>1, TypedInit, TypedStep, DiskStep, PTL DEF Spec

----------------------------------------------------------------------------
(* Calls that meet no other.                                                *)

LEMMA IdleIs == Idle.at = "idle" /\ Idle.plugin = None
BY DEF Idle

\* What a call that begins changes.
LEMMA BeginIs ==
    ASSUME Typed, NEW c \in Callers, Begin(c)
    PROVE  /\ call[c] = Idle
           /\ \A d \in Callers \ {c} : call'[d] = call[d] /\ (alone'[d] => alone[d])
           /\ call'[c].at \in {"resolve", "stop", "flag"}
           /\ call'[c].plugin \in Plugins
           /\ recorded' = [recorded EXCEPT ![call'[c].plugin] = None]
           /\ alone'[c] => \A e \in Callers \ {c} : call[e].plugin # call'[c].plugin
           /\ \A d \in Callers \ {c} : alone'[d] => call[d].plugin # call'[c].plugin
           /\ call'[c].at = "stop" => call'[c].op = "uninstall"
           /\ \A x \in Plugins : uninstalled'[x] # "no" =>
                 /\ uninstalled'[x] = uninstalled[x]
                 /\ x = call'[c].plugin => call'[c].op # "install"
           /\ UNCHANGED <<dir, leftover, file, inst, spoilt>>
<1>1. PICK p \in Plugins, op \in {"install", "uninstall", "enable", "disable"} :
         /\ call' = [call EXCEPT ![c] = [Idle EXCEPT !.op = op, !.plugin = p,
              !.at = CASE op = "install" -> "resolve" [] op = "uninstall" -> "stop" [] OTHER -> "flag"]]
         /\ alone' = [d \in Callers |->
              IF d = c THEN {e \in Callers \ {c} : call[e].plugin = p} = {}
              ELSE alone[d] /\ d \notin {e \in Callers \ {c} : call[e].plugin = p}]
         /\ recorded' = [recorded EXCEPT ![p] = None]
         /\ uninstalled' = [uninstalled EXCEPT ![p] = IF op = "install" THEN "no" ELSE @]
  BY DEF Begin
<1>2. call \in [Callers -> Calls]
  BY DEF Typed, TypeOK, Calls, Ops
<1>3. /\ call'[c] = [Idle EXCEPT !.op = op, !.plugin = p,
              !.at = CASE op = "install" -> "resolve" [] op = "uninstall" -> "stop" [] OTHER -> "flag"]
      /\ \A d \in Callers \ {c} : call'[d] = call[d]
  BY <1>1, <1>2
<1>4. /\ call'[c].plugin = p /\ call'[c].at \in {"resolve", "stop", "flag"}
      /\ call'[c].at = "stop" => call'[c].op = "uninstall"
  BY <1>3 DEF Idle
<1>5. /\ alone'[c] => \A e \in Callers \ {c} : call[e].plugin # p
      /\ \A d \in Callers \ {c} : alone'[d] => alone[d] /\ call[d].plugin # p
  BY <1>1
<1>6. call[c] = Idle /\ UNCHANGED <<dir, leftover, file, inst, spoilt>>
  BY DEF Begin, disk, memory
<1>7. recorded' = [recorded EXCEPT ![call'[c].plugin] = None] /\ call'[c].plugin \in Plugins
  BY <1>1, <1>4
<1>8. \A x \in Plugins : uninstalled'[x] # "no" =>
         uninstalled'[x] = uninstalled[x] /\ (x = call'[c].plugin => call'[c].op # "install")
  BY <1>1, <1>3 DEF Idle, Typed, TypeOK
<1>. QED
  BY <1>3, <1>4, <1>5, <1>6, <1>7, <1>8

\* Where a call goes.
LEMMA PlaceIs ==
    ASSUME Typed, NEW c \in Callers
    PROVE  /\ \A w : Goto(c, w) => call'[c].at = w
           /\ Return(c) => call'[c] = Idle
BY DEF Typed, TypeOK, Goto, Return

\* A call that met no other on its plugin shares it with nobody.
Apart ==
    \A c \in Callers : alone[c] /\ call[c].plugin # None =>
        \A d \in Callers \ {c} : call[d].plugin # call[c].plugin

LEMMA ApartStep == Typed /\ Apart /\ [Next]_vars => Apart'
<1>. SUFFICES ASSUME Typed, Apart, [Next]_vars PROVE Apart'
  OBVIOUS
<1>1. CASE alone' = alone /\ call' = call
  BY <1>1 DEF Apart
<1>2. CASE Crash
  BY <1>2 DEF Crash, Apart, Idle
<1>3. ASSUME NEW c \in Callers, Begin(c) PROVE Apart'
  BY <1>3, BeginIs DEF Apart
<1>4. ASSUME NEW c \in Callers, Continues(c) PROVE Apart'
  BY <1>4, OnlyItsPlugin DEF Apart
<1>. QED
  BY <1>1, <1>2, <1>3, <1>4 DEF Next, Step, Continues, Refresh, vars, history

\* An uninstall by itself has unloaded the plugin before it removes it.
Uninstalls == \A c \in Callers : alone[c] /\ At(c, "remove") => inst[call[c].plugin] = None

LEMMA UninstallsStep == Typed /\ Apart /\ Uninstalls /\ [Next]_vars => Uninstalls'
<1>. SUFFICES ASSUME Typed, Apart, Uninstalls, [Next]_vars, NEW c \in Callers, alone'[c],
                     call'[c].at = "remove"
              PROVE  inst'[call'[c].plugin] = None
  BY DEF Uninstalls, At
<1>0. call \in [Callers -> Calls]
  BY DEF Typed, TypeOK, Calls, Ops
<1>1. CASE alone' = alone /\ call' = call /\ inst' = inst
  BY <1>1 DEF Uninstalls, At
<1>2. CASE Crash
  BY <1>2 DEF Crash, Idle
<1>3. ASSUME NEW d \in Callers, Begin(d) PROVE inst'[call'[c].plugin] = None
  <2>1. c # d /\ call'[c] = call[c] /\ alone[c] /\ inst' = inst
    BY <1>3, BeginIs
  <2>. QED
    BY <2>1 DEF Uninstalls, At
<1>4. ASSUME NEW d \in Callers \ {c}, Continues(d) PROVE inst'[call'[c].plugin] = None
  <2>1. call'[c] = call[c] /\ alone[c]
    BY <1>4, OnlyItsPlugin
  <2>2. call[c].plugin \in Plugins
    BY <1>0, <2>1 DEF Typed, CallsFit, Fits, Calls
  <2>3. call[c].plugin # call[d].plugin
    BY <2>1, <2>2, ConstAssumption DEF Apart
  <2>4. inst'[call[c].plugin] = inst[call[c].plugin]
    BY <1>4, <2>2, <2>3, OnlyItsPlugin
  <2>. QED
    BY <2>1, <2>4 DEF Uninstalls, At
<1>5. ASSUME Continues(c) PROVE inst'[call'[c].plugin] = None
  <2>1. call[c].plugin \in Plugins /\ alone[c] /\ call'[c].plugin = call[c].plugin
    BY <1>5, OnlyItsPlugin
  <2>2. Unload(c)
    <3>1. ~(Resolve(c) \/ Backup(c) \/ Start(c) \/ Collect(c))
      BY <1>0, PlaceIs, IdleIs DEF Resolve, Backup, Start, Collect, Calls
    <3>2. \A w \in Places \ {"remove"} : ~Goto(c, w)
      BY PlaceIs
    <3>3. ~Return(c)
      BY PlaceIs, IdleIs
    <3>. QED
      BY <1>5, <3>1, <3>2, <3>3 DEF Continues, Fetch, Unpack, Stat, Place, Swap, Load, Check,
           Flag, Stop, Remove, Removed, Truncate, Write, Places
  <2>. QED
    BY <1>0, <2>1, <2>2 DEF Unload, Goto, Typed, TypeOK, Calls
<1>. QED
  BY <1>1, <1>2, <1>3, <1>4, <1>5 DEF Next, Step, Continues, Refresh, vars, disk, memory, history

\* What it leaves, no call but an install brings back.
Remaining ==
    \A x \in Plugins : uninstalled[x] # "no" =>
        /\ inst[x] = None
        /\ uninstalled[x] = "whole" => dir[x] = None
        /\ \A c \in Callers : call[c].plugin = x => call[c].op # "install"

\* A step of a call of that plugin.
LEMMA ItsRemains ==
    ASSUME Typed, Apart, Uninstalls, Remaining, NEW c \in Callers, Continues(c),
           uninstalled'[call[c].plugin] # "no"
    PROVE  /\ inst'[call[c].plugin] = None
           /\ uninstalled'[call[c].plugin] = "whole" => dir'[call[c].plugin] = None
           /\ \A d \in Callers : call'[d].plugin = call[c].plugin => call'[d].op # "install"
<1>. DEFINE p == call[c].plugin
<1>0. /\ call \in [Callers -> Calls] /\ call[c] \in Calls /\ Fits(call[c]) /\ p \in Plugins
      /\ inst \in [Plugins -> Instances \cup {None}] /\ dir \in [Plugins -> Versions \cup {None}]
      /\ uninstalled \in [Plugins -> Remains]
      /\ \A d \in Callers \ {c} : call'[d] = call[d]
      /\ call'[c].at # "idle" => call'[c].op = call[c].op
      /\ CallsFit'
  BY OnlyItsPlugin, StepTyped DEF Typed, TypeOK, CallsFit, Calls, Ops, Instances, Remains, Step, Continues
<1>1. CASE Remove(c)
  <2>1. alone[c] /\ inst' = inst
    BY <1>0, <1>1 DEF Remove, memory
  <2>2. inst[p] = None
    BY <1>1, <2>1 DEF Remove, Uninstalls
  <2>3. uninstalled'[p] = "whole" => dir'[p] = None
    BY <1>0, <1>1, <2>1 DEF Remove
  <2>4. \A d \in Callers \ {c} : call[d].plugin # p
    BY <1>0, <2>1, ConstAssumption DEF Apart
  <2>5. call'[c].plugin = p => call'[c].op # "install"
    <3>1. call[c].op = "uninstall"
      BY <1>0, <1>1 DEF Remove, At, Fits
    <3>2. call'[c].at = "idle" => call'[c] = Idle
      BY <1>0 DEF CallsFit, Fits
    <3>. QED
      BY <1>0, <3>1, <3>2, IdleIs, ConstAssumption
  <2>. QED
    BY <1>0, <2>1, <2>2, <2>3, <2>4, <2>5
<1>2. CASE ~Remove(c)
  <2>1. uninstalled' = uninstalled
    BY <1>2 DEF Continues, Resolve, Fetch, Unpack, Stat, Place, Backup, Swap, Load, Check, Start,
       Flag, Stop, Unload, Removed, Collect, Truncate, Write, history
  <2>2. /\ inst[p] = None /\ call[c].op # "install"
        /\ uninstalled[p] = "whole" => dir[p] = None
        /\ \A d \in Callers : call[d].plugin = p => call[d].op # "install"
    BY <1>0, <2>1 DEF Remaining
  <2>3. call[c].at \notin Installing
    BY <1>0, <2>2 DEF Fits
  <2>4. dir' = dir
    BY <1>2, <2>3 DEF Continues, Resolve, Fetch, Unpack, Stat, Place, Backup, Swap, Load, Check, Start,
       Flag, Stop, Unload, Removed, Collect, Truncate, Write, disk, At, Installing
  <2>5. inst'[p] = None
    BY <1>0, <1>2, <2>2, <2>3 DEF Continues, Resolve, Fetch, Unpack, Stat, Place, Backup, Swap, Load,
       Check, Start, Flag, Stop, Unload, Removed, Collect, Truncate, Write, memory, At, Installing
  <2>6. call'[c].plugin = p => call'[c].op # "install"
    <3>1. call'[c].at = "idle" => call'[c] = Idle
      BY <1>0 DEF CallsFit, Fits
    <3>. QED
      BY <1>0, <2>2, <3>1, IdleIs, ConstAssumption
  <2>. QED
    BY <1>0, <2>1, <2>2, <2>4, <2>5, <2>6
<1>. QED
  BY <1>1, <1>2

LEMMA RemainingStep ==
    Typed /\ Apart /\ Uninstalls /\ Remaining /\ [Next]_vars => Remaining'
<1>. SUFFICES ASSUME Typed, Apart, Uninstalls, Remaining, [Next]_vars,
                     NEW x \in Plugins, uninstalled'[x] # "no"
              PROVE  /\ inst'[x] = None
                     /\ uninstalled'[x] = "whole" => dir'[x] = None
                     /\ \A c \in Callers : call'[c].plugin = x => call'[c].op # "install"
  BY DEF Remaining
<1>. DEFINE Goal == /\ inst'[x] = None
                    /\ uninstalled'[x] = "whole" => dir'[x] = None
                    /\ \A c \in Callers : call'[c].plugin = x => call'[c].op # "install"
<1>1. CASE uninstalled' = uninstalled /\ inst' = inst /\ dir' = dir /\ call' = call
  BY <1>1 DEF Remaining
<1>2. CASE Crash
  <2>1. uninstalled[x] = "whole" /\ dir' = dir /\ call' = [c \in Callers |-> Idle]
    BY <1>2 DEF Crash, disk, Typed, TypeOK
  <2>2. PICK runs \in BOOLEAN : inst'[x] = Discovered(x, runs)
    BY <1>2 DEF Crash
  <2>3. dir[x] = None
    BY <2>1 DEF Remaining
  <2>. QED
    BY <2>1, <2>2, <2>3, ConstAssumption DEF Discovered, Idle
<1>3. ASSUME NEW d \in Callers, Begin(d) PROVE Goal
  BY <1>3, BeginIs DEF Remaining
<1>4. ASSUME NEW d \in Callers, Continues(d) PROVE Goal
  <2>1. CASE x = call[d].plugin
    BY <1>4, <2>1, ItsRemains
  <2>2. CASE x # call[d].plugin
    BY <1>4, <2>2, OnlyItsPlugin, ConstAssumption DEF Remaining
  <2>. QED
    BY <2>1, <2>2
<1>. QED
  BY <1>1, <1>2, <1>3, <1>4 DEF Next, Step, Continues, Refresh, vars, disk, memory, history

\* What an uninstall that met no other call leaves, complete or failed half way,
\* stays as it left it until an install, or a restart for one half done.
THEOREM UninstallLeavesNothing == Spec => []UninstallComplete
<1>1. Init => Apart /\ Uninstalls /\ Remaining
  <2>1. Init => \A c \in Callers : call[c] = Idle
    BY DEF Init
  <2>2. Init => \A x \in Plugins : uninstalled[x] = "no"
    BY DEF Init
  <2>. QED
    BY <2>1, <2>2, IdleIs DEF Apart, Uninstalls, Remaining, At
<1>2. Remaining => UninstallComplete
  BY DEF Remaining, UninstallComplete
<1>. QED
  BY <1>1, <1>2, TypedInit, TypedStep, ApartStep, UninstallsStep, RemainingStep, PTL DEF Spec

----------------------------------------------------------------------------
(* Whose wish a restart obeys.                                              *)

\* An enable or a disable by itself finds its flag where it left it, and saves
\* that flag.
Own ==
    \A c \in Callers : alone[c] =>
        /\ \/ At(c, "start") /\ call[c].op = "enable"
           \/ At(c, "stop") /\ call[c].op = "disable"
           \/ call[c].at \in Saving
           => /\ inst[call[c].plugin] # None
              /\ inst[call[c].plugin].enabled = (call[c].op = "enable")
        /\ At(c, "truncate") \/ At(c, "write") =>
              call[c].flags[call[c].plugin] = (call[c].op = "enable")

OwnOf(k, i) ==
    /\ \/ k.at = "start" /\ k.op = "enable"
       \/ k.at = "stop" /\ k.op = "disable"
       \/ k.at \in Saving
       => i[k.plugin] # None /\ i[k.plugin].enabled = (k.op = "enable")
    /\ k.at = "truncate" \/ k.at = "write" => k.flags[k.plugin] = (k.op = "enable")

LEMMA OwnIs == Own <=> \A c \in Callers : alone[c] => OwnOf(call[c], inst)
BY DEF Own, OwnOf, At

LEMMA ItsOwn ==
    ASSUME Typed, NEW c \in Callers, Continues(c), OwnOf(call[c], inst)
    PROVE  OwnOf(call'[c], inst')
<1>. DEFINE p == call[c].plugin
<1>0. /\ call \in [Callers -> Calls] /\ call[c] \in Calls /\ Fits(call[c]) /\ p \in Plugins
      /\ inst \in [Plugins -> Instances \cup {None}]
  BY OnlyItsPlugin DEF Typed, TypeOK, CallsFit, Calls, Ops, Instances
<1>n. None \notin Instances
  BY ConstAssumption DEF Instances
<1>1. \A w : w \notin Saving \cup {"start", "stop"} => ~Goto(c, w) \/ OwnOf(call'[c], inst')
  BY PlaceIs DEF OwnOf, Saving
<1>2. Return(c) => OwnOf(call'[c], inst')
  BY PlaceIs, IdleIs DEF OwnOf, Saving
<1>3. CASE Resolve(c) \/ Fetch(c) \/ Unpack(c) \/ Stat(c) \/ Place(c) \/ Backup(c) \/ Swap(c)
           \/ Load(c) \/ Unload(c) \/ Remove(c) \/ Removed(c) \/ Write(c)
  <2>1. CASE Resolve(c) \/ Backup(c)
    BY <1>0, <1>2, <2>1 DEF Resolve, Backup, OwnOf, Calls, Saving
  <2>. QED
    BY <1>1, <1>2, <1>3, <2>1 DEF Fetch, Unpack, Stat, Place, Swap, Load, Unload, Remove, Removed,
       Write, Saving
<1>4. CASE Check(c)
  <2>1. call[c].op = "install"
    BY <1>0, <1>4 DEF Check, At, Fits, Installing
  <2>. QED
    BY <1>0, <1>2, <1>4, <2>1 DEF Check, Goto, OwnOf, Saving, Calls
<1>5. CASE Start(c)
  <2>1. CASE ~Return(c)
    <3>1. /\ inst[p] # None /\ inst' = [inst EXCEPT ![p].running = TRUE]
          /\ call' = [call EXCEPT ![c] = IF call[c].op = "install" THEN Idle
                                         ELSE [call[c] EXCEPT !.at = "collect"]]
      BY <1>5, <2>1 DEF Start
    <3>2. call[c].op = "enable" /\ call'[c] = [call[c] EXCEPT !.at = "collect"]
      BY <1>0, <1>5, <2>1, <3>1 DEF Start, At, Fits, Return
    <3>3. inst[p].enabled = (call[c].op = "enable")
      BY <1>5, <3>2 DEF Start, At, OwnOf
    <3>4. inst'[p] = [inst[p] EXCEPT !.running = TRUE] /\ inst[p] \in Instances
      BY <1>0, <3>1
    <3>5. inst'[p] \in Instances /\ inst'[p].enabled = inst[p].enabled
      BY <3>4 DEF Instances
    <3>6. inst'[p] # None
      BY <1>n, <3>5
    <3>7. call'[c].plugin = p /\ call'[c].op = call[c].op /\ call'[c].at = "collect"
      BY <1>0, <3>2 DEF Calls
    <3>. QED
      BY <3>3, <3>5, <3>6, <3>7 DEF OwnOf
  <2>. QED
    BY <1>2, <2>1
<1>6. CASE Flag(c)
  <2>1. CASE ~Return(c)
    <3>. DEFINE e == (call[c].op = "enable")
    <3>1. /\ inst[p] # None /\ inst' = [inst EXCEPT ![p].enabled = e]
          /\ Goto(c, IF e THEN "start" ELSE "stop")
      BY <1>6, <2>1 DEF Flag
    <3>2. inst'[p] = [inst[p] EXCEPT !.enabled = e] /\ inst[p] \in Instances
      BY <1>0, <3>1
    <3>3. inst'[p] \in Instances /\ inst'[p].enabled = e
      BY <3>2 DEF Instances
    <3>4. inst'[p] # None
      BY <1>n, <3>3
    <3>5. call'[c].plugin = p /\ call'[c].op = call[c].op /\ call'[c].at \in {"start", "stop"}
      BY <1>0, <3>1 DEF Goto, Calls
    <3>. QED
      BY <3>3, <3>4, <3>5 DEF OwnOf
  <2>. QED
    BY <1>2, <2>1
<1>7. CASE Stop(c)
  <2>1. CASE call[c].op = "disable" /\ inst[p] # None
    <3>1. inst' = [inst EXCEPT ![p].running = FALSE] /\ Goto(c, "collect")
      BY <1>7, <2>1 DEF Stop
    <3>2. ~inst[p].enabled
      BY <1>7, <2>1 DEF Stop, At, OwnOf
    <3>3. inst'[p] = [inst[p] EXCEPT !.running = FALSE] /\ inst[p] \in Instances
      BY <1>0, <2>1, <3>1
    <3>4. inst'[p] \in Instances /\ inst'[p].enabled = inst[p].enabled
      BY <3>3 DEF Instances
    <3>5. inst'[p] # None
      BY <1>n, <3>4
    <3>6. inst'[p].enabled \in BOOLEAN /\ inst[p].enabled \in BOOLEAN
      BY <3>3, <3>4 DEF Instances
    <3>7. call'[c].plugin = p /\ call'[c].op = "disable" /\ call'[c].at = "collect"
      BY <1>0, <2>1, <3>1 DEF Goto, Calls
    <3>. QED
      BY <3>2, <3>4, <3>5, <3>6, <3>7 DEF OwnOf
  <2>2. CASE call[c].op = "uninstall" /\ inst[p] # None
    BY <1>1, <1>7, <2>2 DEF Stop, Saving
  <2>. QED
    BY <1>0, <1>2, <1>7, <2>1, <2>2 DEF Stop, At, Fits
<1>8. CASE Collect(c)
  BY <1>0, <1>8 DEF Collect, At, OwnOf, Saving, Calls, memory
<1>9. CASE Truncate(c)
  BY <1>0, <1>2, <1>9 DEF Truncate, At, Goto, OwnOf, Saving, Calls, memory
<1>. QED
  BY <1>3, <1>4, <1>5, <1>6, <1>7, <1>8, <1>9 DEF Continues

LEMMA OwnStep == Typed /\ Apart /\ Own /\ [Next]_vars => Own'
<1>. SUFFICES ASSUME Typed, Apart, Own, [Next]_vars, NEW c \in Callers, alone'[c]
              PROVE  OwnOf(call'[c], inst')
  BY OwnIs DEF Own, OwnOf, At
<1>1. CASE alone' = alone /\ call' = call /\ inst' = inst
  BY <1>1, OwnIs
<1>2. CASE Crash
  BY <1>2, IdleIs DEF Crash, OwnOf, Saving
<1>3. ASSUME NEW d \in Callers, Begin(d) PROVE OwnOf(call'[c], inst')
  <2>1. CASE c = d
    BY <1>3, <2>1, BeginIs DEF OwnOf, Saving
  <2>2. CASE c # d
    BY <1>3, <2>2, BeginIs, OwnIs
  <2>. QED
    BY <2>1, <2>2
<1>4. ASSUME NEW d \in Callers \ {c}, Continues(d) PROVE OwnOf(call'[c], inst')
  <2>1. call'[c] = call[c] /\ alone[c] /\ OwnOf(call[c], inst)
    BY <1>4, OnlyItsPlugin, OwnIs
  <2>2. CASE call[c].at = "idle"
    BY <2>1, <2>2 DEF OwnOf, Saving
  <2>3. CASE call[c].at # "idle"
    <3>1. call[c].plugin \in Plugins \ {call[d].plugin}
      BY <2>1, <2>3, ConstAssumption DEF Typed, TypeOK, CallsFit, Fits, Apart
    <3>2. inst'[call[c].plugin] = inst[call[c].plugin]
      BY <1>4, <3>1, OnlyItsPlugin
    <3>. QED
      BY <2>1, <3>2 DEF OwnOf
  <2>. QED
    BY <2>2, <2>3
<1>5. ASSUME Continues(c) PROVE OwnOf(call'[c], inst')
  BY <1>5, ItsOwn, OnlyItsPlugin, OwnIs
<1>. QED
  BY <1>1, <1>2, <1>3, <1>4, <1>5 DEF Next, Step, Continues, Refresh, vars, disk, memory, history

\* A recorded wish is in the host, in the file and in whatever is about to be
\* written to it, unless the plugin is gone.
Gone(x) == inst[x] = None /\ dir[x] \notin Good

Wished(x, f) == Gone(x) \/ f[x] = recorded[x]

Wishes ==
    \A x \in Plugins : recorded[x] # None =>
        /\ \A c \in Callers : call[c].plugin # x
        /\ Gone(x) \/ (inst[x] # None /\ inst[x].enabled = recorded[x])
        /\ file # None => Wished(x, file)
        /\ \A c \in Callers : At(c, "truncate") \/ At(c, "write") => Wished(x, call[c].flags)

LEMMA WishesStep == Typed /\ Apart /\ Own /\ Wishes /\ [Next]_vars => Wishes'
<1>. SUFFICES ASSUME Typed, Apart, Own, Wishes, [Next]_vars,
                     NEW x \in Plugins, recorded'[x] # None
              PROVE  /\ \A c \in Callers : call'[c].plugin # x
                     /\ Gone(x)' \/ (inst'[x] # None /\ inst'[x].enabled = recorded'[x])
                     /\ file' # None => Gone(x)' \/ file'[x] = recorded'[x]
                     /\ \A c \in Callers : call'[c].at = "truncate" \/ call'[c].at = "write" =>
                           Gone(x)' \/ call'[c].flags[x] = recorded'[x]
  BY DEF Wishes, Wished, At
<1>. DEFINE Goal == /\ \A c \in Callers : call'[c].plugin # x
                    /\ Gone(x)' \/ (inst'[x] # None /\ inst'[x].enabled = recorded'[x])
                    /\ file' # None => Gone(x)' \/ file'[x] = recorded'[x]
                    /\ \A c \in Callers : call'[c].at = "truncate" \/ call'[c].at = "write" =>
                          Gone(x)' \/ call'[c].flags[x] = recorded'[x]
<1>0. /\ call \in [Callers -> Calls] /\ recorded \in Flags
      /\ \A c \in Callers : Fits(call[c]) /\ call[c] \in Calls
      /\ inst \in [Plugins -> Instances \cup {None}]
  BY DEF Typed, TypeOK, CallsFit, Calls, Ops, Instances
<1>1. CASE UNCHANGED <<recorded, call, file, inst, dir>>
  BY <1>1 DEF Wishes, Wished, Gone, At
<1>2. CASE Crash
  <2>1. file # None /\ recorded' = recorded /\ dir' = dir /\ file' = file
    BY <1>2 DEF Crash, disk
  <2>2. \A c \in Callers : call'[c] = Idle
    BY <1>2 DEF Crash
  <2>3. PICK runs \in BOOLEAN : inst'[x] = Discovered(x, runs)
    BY <1>2 DEF Crash
  <2>4. CASE dir[x] \notin Good
    BY <2>1, <2>2, <2>3, <2>4, IdleIs, ConstAssumption DEF Discovered, Gone
  <2>5. CASE dir[x] \in Good
    <3>1. file[x] = recorded[x] /\ recorded[x] \in BOOLEAN
      BY <1>0, <2>1, <2>5 DEF Wishes, Wished, Gone, Flags
    <3>2. inst'[x] = Instance(dir[x], recorded[x], recorded[x] /\ runs)
      BY <2>1, <2>3, <2>5, <3>1 DEF Discovered, Saved
    <3>3. inst'[x] # None /\ inst'[x].enabled = recorded[x]
      <4>1. inst'[x].enabled = recorded[x]
        BY <3>2 DEF Instance
      <4>2. inst'[x] \in Instances
        BY <3>1, <3>2, <2>5, ConstAssumption DEF Instance, Instances
      <4>. QED
        BY <4>1, <4>2, ConstAssumption DEF Instances
    <3>. QED
      BY <2>1, <2>2, <3>1, <3>3, IdleIs, ConstAssumption
  <2>. QED
    BY <2>4, <2>5
<1>3. ASSUME NEW d \in Callers, Begin(d) PROVE Goal
  <2>1. call'[d].plugin # x /\ recorded'[x] = recorded[x]
    BY <1>0, <1>3, BeginIs DEF Flags
  <2>. QED
    BY <1>3, <2>1, BeginIs DEF Wishes, Wished, Gone, At
<1>4. ASSUME NEW d \in Callers, Continues(d), ~Write(d) PROVE Goal
  <2>1. recorded' = recorded
    BY <1>4 DEF Continues, Resolve, Fetch, Unpack, Stat, Place, Backup, Swap, Load, Check, Start,
       Flag, Stop, Unload, Remove, Removed, Collect, Truncate, history
  <2>2. x # call[d].plugin /\ inst'[x] = inst[x] /\ dir'[x] = dir[x]
    BY <1>4, <2>1, OnlyItsPlugin DEF Wishes
  <2>3. \A c \in Callers : call'[c].plugin # x
    BY <1>4, <2>1, <2>2, OnlyItsPlugin, ConstAssumption DEF Wishes
  <2>4. Gone(x)' = Gone(x)
    BY <2>2 DEF Gone
  <2>5. file' = file \/ file' = None
    BY <1>4 DEF Continues, Resolve, Fetch, Unpack, Stat, Place, Backup, Swap, Load, Check, Start,
       Flag, Stop, Unload, Remove, Removed, Collect, Truncate, disk
  <2>6. call'[d].at = "truncate" \/ call'[d].at = "write" => Gone(x) \/ call'[d].flags[x] = recorded[x]
    <3>1. CASE Collect(d)
      <4>1. call'[d].flags[x] = IF inst[x] = None THEN None ELSE inst[x].enabled
        BY <1>0, <3>1 DEF Collect, Calls
      <4>. QED
        BY <2>1, <4>1 DEF Wishes
    <3>2. CASE Truncate(d)
      BY <1>0, <2>1, <3>2, PlaceIs, IdleIs DEF Truncate, At, Goto, Calls, Wishes, Wished
    <3>3. CASE Resolve(d) \/ Backup(d) \/ Start(d) \/ Remove(d)
      BY <1>0, <3>3, PlaceIs, IdleIs DEF Resolve, Backup, Start, Remove, Calls
    <3>. QED
      BY <1>4, <3>1, <3>2, <3>3, PlaceIs, IdleIs DEF Continues, Fetch, Unpack, Stat, Place, Swap,
         Load, Check, Flag, Stop, Unload, Removed
  <2>7. \A c \in Callers : call'[c].at = "truncate" \/ call'[c].at = "write" =>
           Gone(x) \/ call'[c].flags[x] = recorded[x]
    BY <1>4, <2>1, <2>6, OnlyItsPlugin DEF Wishes, Wished, At
  <2>. QED
    BY <2>1, <2>2, <2>3, <2>4, <2>5, <2>7 DEF Wishes, Wished
<1>5. ASSUME NEW d \in Callers, Write(d) PROVE Goal
  <2>. DEFINE p == call[d].plugin
  <2>1. /\ file' # None => file' = call[d].flags
        /\ inst' = inst /\ dir' = dir
        /\ \A c \in Callers \ {d} : call'[c] = call[c] /\ ~At(c, "truncate") /\ ~At(c, "write")
        /\ call'[d] = Idle
        /\ recorded' = [recorded EXCEPT ![p] = IF alone[d] THEN call[d].op = "enable" ELSE None]
    BY <1>0, <1>5 DEF Write, Return, memory
  <2>2. \A c \in Callers : ~(call'[c].at = "truncate" \/ call'[c].at = "write")
    BY <2>1, IdleIs DEF At
  <2>3. Gone(x)' = Gone(x)
    BY <2>1 DEF Gone
  <2>4. CASE x = p
    <3>1. alone[d] /\ recorded'[x] = (call[d].op = "enable")
      BY <1>0, <2>1, <2>4 DEF Flags
    <3>2. inst[x] # None /\ inst[x].enabled = recorded'[x] /\ call[d].flags[x] = recorded'[x]
      BY <1>5, <2>4, <3>1 DEF Own, Write, At, Saving
    <3>3. \A c \in Callers : call'[c].plugin # x
      BY <2>1, <2>4, <3>1, IdleIs, ConstAssumption DEF Apart
    <3>. QED
      BY <2>1, <2>2, <3>2, <3>3
  <2>5. CASE x # p
    <3>1. recorded'[x] = recorded[x]
      BY <1>0, <2>1, <2>5 DEF Flags
    <3>2. \A c \in Callers : call'[c].plugin # x
      BY <2>1, <3>1, IdleIs, ConstAssumption DEF Wishes
    <3>3. file' # None => Gone(x) \/ file'[x] = recorded[x]
      BY <1>5, <2>1, <3>1 DEF Wishes, Wished, Write
    <3>. QED
      BY <2>1, <2>2, <2>3, <3>1, <3>2, <3>3 DEF Wishes
  <2>. QED
    BY <2>4, <2>5
<1>. QED
  BY <1>1, <1>2, <1>3, <1>4, <1>5 DEF Next, Step, Continues, Refresh, vars, disk, memory, history

\* While a wish is recorded, the file has no text exactly when a save has
\* emptied it or failed.
Readable ==
    /\ spoilt => file = None
    /\ \A x \in Plugins : recorded[x] # None => (file = None <=> Emptied)

LEMMA ReadableStep == Typed /\ Readable /\ [Next]_vars => Readable'
<1>. SUFFICES ASSUME Typed, Readable, [Next]_vars PROVE Readable'
  OBVIOUS
<1>0. call \in [Callers -> Calls] /\ recorded \in Flags
  BY DEF Typed, TypeOK, Calls, Ops
<1>1. CASE UNCHANGED <<spoilt, file, recorded, call>>
  BY <1>1 DEF Readable, Emptied, At
<1>2. CASE Crash
  <2>1. \A c \in Callers : ~At(c, "write")'
    BY <1>2, IdleIs DEF Crash, At
  <2>2. /\ file' = file /\ spoilt' = spoilt
        /\ \A x \in Plugins : recorded'[x] # None => file # None
    BY <1>2 DEF Crash, disk
  <2>. QED
    BY <2>1, <2>2 DEF Readable, Emptied
<1>3. ASSUME NEW c \in Callers, Begin(c) PROVE Readable'
  <2>1. \A d \in Callers : At(d, "write")' <=> At(d, "write")
    BY <1>3, BeginIs, IdleIs DEF At
  <2>2. \A x \in Plugins : recorded'[x] # None => recorded[x] # None
    BY <1>0, <1>3, BeginIs DEF Flags
  <2>. QED
    BY <1>3, <2>1, <2>2, BeginIs DEF Readable, Emptied
<1>4. ASSUME NEW c \in Callers, Continues(c), ~Truncate(c), ~Write(c) PROVE Readable'
  <2>1. UNCHANGED <<file, spoilt, recorded>>
    BY <1>4 DEF Continues, Resolve, Fetch, Unpack, Stat, Place, Backup, Swap, Load, Check, Start,
       Flag, Stop, Unload, Remove, Removed, Collect, disk, history
  <2>2. ~At(c, "write")
    BY <1>4 DEF Continues, Resolve, Fetch, Unpack, Stat, Place, Backup, Swap, Load, Check, Start,
       Flag, Stop, Unload, Remove, Removed, Collect, At
  <2>3. call'[c].at # "write"
    <3>1. CASE Resolve(c) \/ Backup(c) \/ Start(c) \/ Collect(c)
      BY <1>0, <3>1, PlaceIs, IdleIs DEF Resolve, Backup, Start, Collect, Calls
    <3>. QED
      BY <1>4, <3>1, PlaceIs, IdleIs DEF Continues, Fetch, Unpack, Stat, Place, Swap, Load, Check,
         Flag, Stop, Unload, Remove, Removed
  <2>4. \A d \in Callers : At(d, "write")' <=> At(d, "write")
    BY <1>4, <2>2, <2>3, OnlyItsPlugin DEF At
  <2>. QED
    BY <2>1, <2>4 DEF Readable, Emptied
<1>5. ASSUME NEW c \in Callers, Truncate(c) PROVE Readable'
  <2>1. ~At(c, "write") /\ UNCHANGED <<spoilt, recorded>>
    BY <1>5 DEF Truncate, At, history
  <2>2. CASE Return(c) /\ file' = file
    <3>1. \A d \in Callers : At(d, "write")' <=> At(d, "write")
      BY <2>1, <2>2, ReturnIs, IdleIs DEF At
    <3>. QED
      BY <2>1, <2>2, <3>1 DEF Readable, Emptied
  <2>3. CASE file' = None /\ Goto(c, "write")
    <3>1. At(c, "write")'
      BY <2>3, PlaceIs DEF At
    <3>. QED
      BY <2>1, <2>3, <3>1 DEF Readable, Emptied
  <2>. QED
    BY <1>5, <2>2, <2>3 DEF Truncate
<1>6. ASSUME NEW c \in Callers, Write(c) PROVE Readable'
  <2>1. spoilt' <=> file' = None
    BY <1>6 DEF Write
  <2>2. ASSUME NEW x \in Plugins, recorded'[x] # None
        PROVE  \A d \in Callers : ~At(d, "write")'
    BY <1>6, <2>2, ReturnIs, IdleIs DEF Write, At
  <2>. QED
    BY <2>1, <2>2 DEF Readable, Emptied
<1>. QED
  BY <1>1, <1>2, <1>3, <1>4, <1>5, <1>6 DEF Next, Step, Continues, Refresh, vars, disk, memory, history

\* A restart obeys the last enable or disable that met no other call on its
\* plugin, and enables every plugin when a save left no text to read.
THEOREM RestartObeysTheLastWish == Spec => WishSurvives
<1>1. Init => Apart /\ Own /\ Wishes /\ Readable
  <2>1. Init => \A c \in Callers : call[c] = Idle
    BY DEF Init
  <2>2. Init => (\A x \in Plugins : recorded[x] = None) /\ ~spoilt
    BY DEF Init
  <2>. QED
    BY <2>1, <2>2, IdleIs DEF Apart, Own, Wishes, Readable, At, Saving
<1>2. Typed /\ Wishes /\ Readable /\ [Next]_vars =>
        [crashes' > crashes =>
           \A p \in Plugins : inst'[p] # None /\ recorded[p] # None =>
               inst'[p].enabled = (recorded[p] \/ Emptied)]_vars
  <2>. SUFFICES ASSUME Typed, Wishes, Readable, [Next]_vars, crashes' > crashes,
                       NEW p \in Plugins, inst'[p] # None, recorded[p] # None
                PROVE  inst'[p].enabled = (recorded[p] \/ Emptied)
    OBVIOUS
  <2>1. Crash
    <3>1. crashes' # crashes
      BY DEF Typed, TypeOK
    <3>2. ASSUME NEW c \in Callers, Continues(c)
          PROVE  crashes' = crashes
      BY <3>2 DEF Continues, Resolve, Fetch, Unpack, Stat, Place, Backup, Swap,
         Load, Check, Start, Flag, Stop, Unload, Remove, Removed, Collect, Truncate, Write
    <3>3. \A c \in Callers : ~Begin(c)
      BY <3>1 DEF Begin
    <3>. QED
      BY <3>1, <3>2, <3>3 DEF Next, Step, Continues, Refresh, vars
  <2>2. PICK runs \in BOOLEAN : inst'[p] = Discovered(p, runs)
    BY <2>1 DEF Crash
  <2>3. dir[p] \in Good /\ recorded[p] \in BOOLEAN
    BY <2>2 DEF Discovered, Typed, TypeOK, Flags
  <2>4. CASE file # None
    <3>1. file[p] = recorded[p] /\ ~Emptied
      BY <2>3, <2>4 DEF Wishes, Wished, Gone, Readable
    <3>2. inst'[p] = Instance(dir[p], recorded[p], recorded[p] /\ runs)
      BY <2>2, <2>3, <2>4, <3>1 DEF Discovered, Saved
    <3>3. inst'[p].enabled = recorded[p]
      BY <3>2 DEF Instance
    <3>. QED
      BY <2>3, <3>1, <3>3
  <2>5. CASE file = None
    <3>1. Emptied
      BY <2>5 DEF Readable
    <3>2. inst'[p] = Instance(dir[p], TRUE, runs)
      BY <2>2, <2>3, <2>5, ConstAssumption DEF Discovered, Saved
    <3>3. inst'[p].enabled = TRUE
      BY <3>2 DEF Instance
    <3>. QED
      BY <3>1, <3>3
  <2>. QED
    BY <2>4, <2>5
<1>. QED
  BY <1>1, <1>2, TypedInit, TypedStep, ApartStep, OwnStep, WishesStep, ReadableStep, PTL
     DEF Spec, WishSurvives
=============================================================================
