--------------------------- MODULE PluginHostProofs ---------------------------
(* Proofs about PluginHost, for any number of instances, of commands at once  *)
(* and of starts: the starts of an instance stay apart, no channel is closed  *)
(* twice, and an instance without a process has left none running.            *)
EXTENDS PluginHost, TLAPS

----------------------------------------------------------------------------
(* Types.                                                                     *)

\* Where a command is before it has found the instance, and after.
Free == {"load", "unload", "start", "stop", "enable", "disable", "command"}
Found == {"startLock", "commandLock", "commandWrite", "init", "initWrite", "initAck", "check",
          "drain", "stopLock", "shutdown", "shutdownWrite", "wait", "ipc", "unload"}

FreeCall == [op : Ops, inst : {None}, at : Free]
FoundCall == [op : Ops, inst : Instances, at : Found]
CloseCall == [op : Ops, inst : Instances, at : {"close", "drained"}, chan : Starts]

Calls == {Idle} \cup FreeCall \cup FoundCall \cup CloseCall

Process == [live : BOOLEAN, garbled : BOOLEAN, pipe : Nat, answered : BOOLEAN]

TypeHost ==
    /\ plugin \in Instances \cup {None} /\ fresh \subseteq Instances
    /\ enabled \in [Instances -> BOOLEAN] /\ commands \in Nat
    /\ fan \in Instances \cup {None} /\ hub \in {"elsewhere", "update"}

TypeInstance ==
    /\ process \in [Instances -> BOOLEAN]
    /\ msgQueue \in [Instances -> Nat] /\ \A i \in Instances : msgQueue[i] \in Starts \cup {0}
    /\ decoder \in [Instances -> Nat]
    /\ readers \in [Instances -> SUBSET Starts]
    /\ starts \in [Instances -> Nat] /\ \A i \in Instances : starts[i] <= MaxStarts
    /\ plug \in [Instances -> Process]

TypeOutbound ==
    /\ queue \in [Instances -> [Starts -> Nat]]
    /\ closed \in [Instances -> [Starts -> BOOLEAN]]
    /\ writer \in [Instances -> [Starts -> {"none", "receive", "lock", "write", "done"}]]

TypeOK == TypeHost /\ TypeInstance /\ TypeOutbound /\ call \in [Callers -> Calls]

\* Where a command is says what is known of it.
LEMMA Kinds ==
    ASSUME NEW r \in Calls
    PROVE  /\ r.at \in Free \ Found => r \in FreeCall
           /\ r.at \in Found \ Free => r \in FoundCall
           /\ r.at \in {"close", "drained"} => r \in CloseCall
           /\ r.at = "unload" => r \in FreeCall \cup FoundCall
           /\ r.at \in Free \cup Found \cup {"close", "drained"} => r.op \in Ops
<1>1. CASE r = Idle
  BY <1>1 DEF Idle, Free, Found
<1>2. CASE r \in FreeCall
  BY <1>2 DEF FreeCall, Free, Found
<1>3. CASE r \in FoundCall
  BY <1>3 DEF FoundCall, Free, Found
<1>4. CASE r \in CloseCall
  BY <1>4 DEF CloseCall, Free, Found
<1>. QED
  BY <1>1, <1>2, <1>3, <1>4 DEF Calls

LEMMA MovesFree ==
    ASSUME NEW r \in FreeCall, NEW at \in Free
    PROVE  /\ [r EXCEPT !.at = at] \in FreeCall
           /\ [r EXCEPT !.at = at].at = at /\ [r EXCEPT !.at = at].inst = r.inst
BY DEF FreeCall

LEMMA MovesFound ==
    ASSUME NEW r \in FoundCall, NEW at \in Found
    PROVE  /\ [r EXCEPT !.at = at] \in FoundCall
           /\ [r EXCEPT !.at = at].at = at /\ [r EXCEPT !.at = at].inst = r.inst
BY DEF FoundCall

\* A command that goes on where it is allowed to.
LEMMA Goes ==
    ASSUME call \in [Callers -> Calls], NEW c \in Callers, NEW at, Goto(c, at),
           \/ call[c] \in FreeCall /\ at \in Free
           \/ call[c] \in FoundCall /\ at \in Found
    PROVE  /\ call' \in [Callers -> Calls]
           /\ call'[c].at = at /\ call'[c].inst = call[c].inst
           /\ \A d \in Callers \ {c} : call'[d] = call[d]
<1>1. call' = [call EXCEPT ![c] = [call[c] EXCEPT !.at = at]]
  BY DEF Goto
<1>2. /\ [call[c] EXCEPT !.at = at] \in Calls
      /\ [call[c] EXCEPT !.at = at].at = at /\ [call[c] EXCEPT !.at = at].inst = call[c].inst
  BY MovesFree, MovesFound DEF Calls
<1>. DEFINE new == [call[c] EXCEPT !.at = at]
<1>. HIDE DEF new
<1>3. call' = [call EXCEPT ![c] = new] /\ new \in Calls /\ new.at = at /\ new.inst = call[c].inst
  BY <1>1, <1>2 DEF new
<1>. QED
  BY <1>3

LEMMA Returns ==
    ASSUME call \in [Callers -> Calls], NEW c \in Callers, Return(c)
    PROVE  /\ call' \in [Callers -> Calls]
           /\ call'[c] = Idle
           /\ \A d \in Callers \ {c} : call'[d] = call[d]
BY DEF Return, Calls

LEMMA TypeInit == Init => TypeOK
<1>. SUFFICES ASSUME Init PROVE TypeOK
  OBVIOUS
<1>1. TypeHost
  BY DEF Init, TypeHost
<1>2. TypeInstance
  <2>1. NoProcess \in Process
    BY DEF NoProcess, Process
  <2>. QED
    BY <2>1, BoundsAssumption DEF Init, TypeInstance, Starts
<1>3. TypeOutbound
  BY DEF Init, TypeOutbound
<1>4. call \in [Callers -> Calls]
  BY DEF Init, Calls
<1>. QED
  BY <1>1, <1>2, <1>3, <1>4 DEF TypeOK

----------------------------------------------------------------------------
(* The inductive invariant.                                                   *)

\* The positions in which a command holds the mutex of its instance.
Starting == {"init", "initWrite", "initAck"}
Stopping == {"shutdown", "shutdownWrite", "wait", "ipc"}

Closing(c, i, n) == call[c].at = "close" /\ call[c].inst = i /\ call[c].chan = n

\* The mutex of an instance is held by one command at a time.
Exclusive ==
    \A c, d \in Callers :
        /\ call[c].at \in Starting \cup Stopping /\ call[d].at \in Starting \cup Stopping
        /\ call[c].inst = call[d].inst
        => c = d

\* Without a process nothing of it is left, neither a process nor a reader.
NothingLeft(i) == ~process[i] => ~plug[i].live /\ readers[i] = {}

\* What exists of a start belongs to one that has been.
Made(i) ==
    \A n \in Starts :
        n = msgQueue[i] \/ closed[i][n] \/ (\E c \in Callers : Closing(c, i, n)) => n <= starts[i]

\* A channel belongs to the instance, or to the one command that will close it,
\* or is closed.
OneOwner(i) ==
    \A n \in Starts :
        /\ msgQueue[i] = n => ~closed[i][n] /\ \A c \in Callers : ~Closing(c, i, n)
        /\ \A c \in Callers : Closing(c, i, n) =>
              ~closed[i][n] /\ \A d \in Callers : Closing(d, i, n) => d = c

ReadersDecode(i) == \A n \in readers[i] : decoder[i] = n

\* What a start of an instance finds: no reader of an earlier one, and nothing
\* yet of what it is about to make.
FreshStart(i) ==
    /\ process[i] /\ readers[i] = {} /\ starts[i] # 0
    /\ msgQueue[i] # starts[i] /\ ~closed[i][starts[i]]
    /\ \A d \in Callers : ~Closing(d, i, starts[i])

StartIsFresh(c) ==
    \A i \in Instances : call[c].at \in Starting /\ call[c].inst = i =>
        FreshStart(i) /\ (call[c].at = "initAck" => decoder[i] = starts[i])

\* A stop that waits for the readers has seen the end of the process.
StopSawTheEnd(c) == call[c].at = "ipc" => ~plug[call[c].inst].live

Inv ==
    /\ Exclusive
    /\ \A i \in Instances : NothingLeft(i) /\ Made(i) /\ OneOwner(i) /\ ReadersDecode(i)
    /\ \A c \in Callers : StartIsFresh(c) /\ StopSawTheEnd(c)

----------------------------------------------------------------------------
(* What the parts of an action do.                                            *)

LEMMA Stops ==
    ASSUME call \in [Callers -> Calls], NEW c \in Callers, call[c] \in FoundCall, Stopped(c)
    PROVE  /\ call' \in [Callers -> Calls]
           /\ call'[c].at \in {"unload", "idle"}
           /\ \A d \in Callers \ {c} : call'[d] = call[d]
<1>1. CASE Goto(c, "unload")
  BY <1>1, Goes DEF Found
<1>2. CASE Return(c)
  BY <1>2, Returns DEF Idle
<1>. QED
  BY <1>1, <1>2 DEF Stopped

LEMMA Plugs ==
    ASSUME TypeInstance, NEW i \in Instances
    PROVE  /\ Written(i) \in [Instances -> Process] /\ Killed(i) \in [Instances -> Process]
           /\ ~Killed(i)[i].live
           /\ \A j \in Instances : Written(i)[j].live = plug[j].live
           /\ \A j \in Instances \ {i} : Killed(i)[j] = plug[j]
<1>1. plug \in [Instances -> Process] /\ plug[i] \in Process
  BY DEF TypeInstance
<1>2. Written(i) = [plug EXCEPT ![i] = [plug[i] EXCEPT !.pipe = IF plug[i].live THEN @ + 1 ELSE @]]
  BY DEF Written
<1>3. [plug[i] EXCEPT !.pipe = IF plug[i].live THEN @ + 1 ELSE @] \in Process
      /\ [plug[i] EXCEPT !.pipe = IF plug[i].live THEN @ + 1 ELSE @].live = plug[i].live
  BY <1>1 DEF Process
<1>4. Killed(i) = [plug EXCEPT ![i] = [NoProcess EXCEPT !.garbled = plug[i].garbled]]
  BY DEF Killed
<1>5. [NoProcess EXCEPT !.garbled = plug[i].garbled] \in Process
      /\ ~[NoProcess EXCEPT !.garbled = plug[i].garbled].live
  BY <1>1 DEF Process, NoProcess
<1>. DEFINE w == [plug[i] EXCEPT !.pipe = IF plug[i].live THEN @ + 1 ELSE @]
            k == [NoProcess EXCEPT !.garbled = plug[i].garbled]
<1>. HIDE DEF w, k
<1>6. /\ Written(i) = [plug EXCEPT ![i] = w] /\ w \in Process /\ w.live = plug[i].live
      /\ Killed(i) = [plug EXCEPT ![i] = k] /\ k \in Process /\ ~k.live
  BY <1>2, <1>3, <1>4, <1>5 DEF w, k
<1>. QED
  BY <1>1, <1>6

\* The instance a command is about.
LEMMA Finds ==
    ASSUME call \in [Callers -> Calls], NEW c \in Callers
    PROVE  /\ call[c].at \in Starting \cup Stopping => call[c] \in FoundCall
           /\ call[c].at \in Starting \cup Stopping \cup {"close"} => call[c].inst \in Instances
           /\ call[c].at = "close" => call[c].chan \in Starts
<1>1. call[c] \in Calls
  OBVIOUS
<1>2. call[c].at \in Starting \cup Stopping => call[c] \in FoundCall
  BY <1>1, Kinds DEF Starting, Stopping, Found, Free
<1>3. call[c].at = "close" => call[c] \in CloseCall
  BY <1>1, Kinds
<1>. QED
  BY <1>2, <1>3 DEF FoundCall, CloseCall

----------------------------------------------------------------------------
(* Steps that touch nothing the invariant is about.                           *)

Quiet ==
    /\ UNCHANGED <<instance, closed>>
    /\ \A i \in Instances : plug'[i].live => plug[i].live
    /\ \A c \in Callers :
          \/ call'[c].at \notin Starting \cup Stopping \cup {"close"}
          \/ call'[c] = call[c]
          \/ /\ call'[c].inst = call[c].inst
             /\ \/ {call[c].at, call'[c].at} \subseteq {"init", "initWrite"}
                \/ {call[c].at, call'[c].at} \subseteq {"shutdown", "shutdownWrite", "wait"}

LEMMA QuietKeepsInv ==
    ASSUME TypeOK, Inv, Quiet
    PROVE  Inv'
<1>1. ASSUME NEW c \in Callers
      PROVE  /\ call'[c].at \in Starting \cup Stopping =>
                  call[c].at \in Starting \cup Stopping /\ call'[c].inst = call[c].inst
             /\ call'[c].at \in Starting => call[c].at \in Starting
             /\ call'[c].at \in {"initAck", "ipc", "close"} => call'[c] = call[c]
  BY DEF Quiet, Starting, Stopping
<1>2. \A c \in Callers : call[c].at \in Starting \cup Stopping \cup {"close"} => call[c].inst \in Instances
  BY Finds DEF TypeOK
<1>3. \A c \in Callers, i \in Instances, n \in Starts : Closing(c, i, n)' => Closing(c, i, n)
  BY <1>1 DEF Closing
<1>4. UNCHANGED <<process, msgQueue, decoder, readers, starts, closed>>
  BY DEF Quiet, instance
<1>5. Exclusive'
  BY <1>1 DEF Inv, Exclusive
<1>6. ASSUME NEW i \in Instances
      PROVE  NothingLeft(i)' /\ Made(i)' /\ OneOwner(i)' /\ ReadersDecode(i)'
  <2>1. NothingLeft(i) /\ Made(i) /\ OneOwner(i) /\ ReadersDecode(i)
    BY DEF Inv
  <2>2. NothingLeft(i)' /\ ReadersDecode(i)'
    BY <1>4, <2>1 DEF NothingLeft, ReadersDecode, Quiet
  <2>3. Made(i)'
    BY <1>3, <1>4, <2>1 DEF Made
  <2>4. OneOwner(i)'
    BY <1>3, <1>4, <2>1 DEF OneOwner
  <2>. QED
    BY <2>2, <2>3, <2>4
<1>7. ASSUME NEW c \in Callers
      PROVE  StartIsFresh(c)' /\ StopSawTheEnd(c)'
  <2>1. StartIsFresh(c) /\ StopSawTheEnd(c)
    BY DEF Inv
  <2>2. StopSawTheEnd(c)'
    BY <1>1, <1>2, <2>1 DEF StopSawTheEnd, Quiet, Stopping
  <2>3. ASSUME NEW i \in Instances, FreshStart(i)
        PROVE  FreshStart(i)'
    <3>1. starts[i] \in Starts
      BY <2>3, BoundsAssumption DEF TypeOK, TypeInstance, Starts, FreshStart
    <3>. QED
      BY <1>3, <1>4, <2>3, <3>1 DEF FreshStart
  <2>4. ASSUME NEW i \in Instances, call'[c].at \in Starting, call'[c].inst = i
        PROVE  FreshStart(i)' /\ (call'[c].at = "initAck" => decoder'[i] = starts'[i])
    <3>1. FreshStart(i) /\ (call[c].at = "initAck" => decoder[i] = starts[i])
      BY <1>1, <2>1, <2>4 DEF StartIsFresh
    <3>. QED
      BY <1>1, <1>4, <2>3, <2>4, <3>1
  <2>. QED
    BY <2>2, <2>4 DEF StartIsFresh
<1>. QED
  BY <1>5, <1>6, <1>7 DEF Inv

----------------------------------------------------------------------------
(* Steps without effect on the invariant.                                     *)

\* A command that moves on without the mutex of an instance.
LEMMA OutsideIsQuiet ==
    ASSUME TypeOK, NEW c \in Callers, UNCHANGED <<instance, outbound, plug>>,
           call'[c].at \notin Starting \cup Stopping \cup {"close"},
           \A d \in Callers \ {c} : call'[d] = call[d]
    PROVE  Quiet
BY DEF Quiet, instance, outbound

LEMMA BeginKeeps ==
    ASSUME TypeOK, NEW c \in Callers, Begin(c)
    PROVE  TypeOK' /\ Quiet
<1>1. PICK op \in Ops :
         call' = [call EXCEPT ![c] = [op |-> op, inst |-> None,
                     at |-> CASE op = "install" -> "load" [] op = "uninstall" -> "stop" [] OTHER -> op]]
  BY DEF Begin
<1>. DEFINE at == CASE op = "install" -> "load" [] op = "uninstall" -> "stop" [] OTHER -> op
            new == [op |-> op, inst |-> None, at |-> at]
<1>2. at \in Free
  <2>1. op \in {"install", "uninstall", "enable", "disable", "command"}
    BY OpsAssumption
  <2>. QED
    BY <2>1 DEF Free
<1>. HIDE DEF at
<1>3. new \in Calls /\ new.at = at
  BY <1>2 DEF Calls, FreeCall
<1>. HIDE DEF new
<1>4. call' = [call EXCEPT ![c] = new]
  BY <1>1 DEF new, at
<1>5. /\ call' \in [Callers -> Calls] /\ call'[c].at \in Free
      /\ \A d \in Callers \ {c} : call'[d] = call[d]
  BY <1>2, <1>3, <1>4 DEF TypeOK
<1>6. TypeHost' /\ TypeInstance' /\ TypeOutbound'
  BY DEF Begin, TypeOK, TypeHost, TypeInstance, TypeOutbound, instance, outbound
<1>7. Quiet
  BY <1>5, OutsideIsQuiet DEF Begin, Free, Starting, Stopping
<1>. QED
  BY <1>5, <1>6, <1>7 DEF TypeOK

LEMMA LoadKeeps ==
    ASSUME TypeOK, NEW c \in Callers, LoadPlugin(c) \/ UnloadPlugin(c) \/ SetEnabled(c)
    PROVE  TypeOK' /\ Quiet
<1>0. call \in [Callers -> Calls] /\ call[c] \in Calls /\ TypeHost
  BY DEF TypeOK
<1>1. TypeInstance' /\ TypeOutbound' /\ UNCHANGED <<instance, outbound, plug>>
  BY DEF LoadPlugin, UnloadPlugin, SetEnabled, TypeOK, TypeInstance, TypeOutbound, instance, outbound
<1>2. /\ call' \in [Callers -> Calls]
      /\ call'[c].at \in Free \cup {"idle"}
      /\ \A d \in Callers \ {c} : call'[d] = call[d]
  <2>1. CASE Return(c)
    BY <1>0, <2>1, Returns DEF Idle
  <2>2. ASSUME NEW at \in {"start", "stop", "unload"}, Goto(c, at), call[c].at \in {"load", "enable", "disable"}
        PROVE  <1>2!1 /\ <1>2!2 /\ <1>2!3
    <3>1. call[c] \in FreeCall /\ at \in Free
      BY <1>0, <2>2, Kinds DEF Free, Found
    <3>. QED
      BY <1>0, <2>2, <3>1, Goes
  <2>. QED
    BY <2>1, <2>2 DEF LoadPlugin, UnloadPlugin, SetEnabled
<1>3. TypeHost'
  BY <1>0 DEF LoadPlugin, UnloadPlugin, SetEnabled, TypeHost, host
<1>4. Quiet
  BY <1>1, <1>2, OutsideIsQuiet DEF Free, Starting, Stopping
<1>. QED
  BY <1>1, <1>2, <1>3, <1>4 DEF TypeOK

LEMMA LookupKeeps ==
    ASSUME TypeOK, NEW c \in Callers, Lookup(c)
    PROVE  TypeOK' /\ Quiet
<1>0. call \in [Callers -> Calls] /\ call[c] \in Calls /\ TypeHost
  BY DEF TypeOK
<1>1. TypeHost' /\ TypeInstance' /\ TypeOutbound' /\ UNCHANGED <<instance, outbound, plug>>
  BY DEF Lookup, TypeOK, TypeHost, TypeInstance, TypeOutbound, host, instance, outbound
<1>2. CASE Return(c)
  <2>1. call' \in [Callers -> Calls] /\ call'[c].at = "idle" /\ \A d \in Callers \ {c} : call'[d] = call[d]
    BY <1>0, <1>2, Returns DEF Idle
  <2>. QED
    BY <1>1, <2>1, OutsideIsQuiet DEF TypeOK, Starting, Stopping
<1>3. CASE ~Return(c)
  <2>. DEFINE at == CASE call[c].at = "start" -> "startLock" [] call[c].at = "stop" -> "check"
                      [] call[c].at = "command" -> "commandLock"
              new == [call[c] EXCEPT !.inst = plugin, !.at = at]
  <2>1. plugin \in Instances /\ call' = [call EXCEPT ![c] = new]
    BY <1>0, <1>3 DEF Lookup, TypeHost
  <2>2. at \in {"startLock", "check", "commandLock"}
    BY DEF Lookup
  <2>3. call[c] \in FreeCall
    BY <1>0, Kinds DEF Lookup, Free, Found
  <2>. HIDE DEF at
  <2>4. new \in FoundCall /\ new.at = at
    BY <2>1, <2>2, <2>3 DEF FreeCall, FoundCall, Found
  <2>. HIDE DEF new
  <2>5. /\ call' \in [Callers -> Calls] /\ call'[c].at = at
        /\ \A d \in Callers \ {c} : call'[d] = call[d]
    BY <1>0, <2>1, <2>4 DEF Calls
  <2>. QED
    BY <1>1, <2>2, <2>5, OutsideIsQuiet DEF TypeOK, Starting, Stopping
<1>. QED
  BY <1>2, <1>3

LEMMA ExecuteKeeps ==
    ASSUME TypeOK, NEW c \in Callers, ExecuteCommand(c)
    PROVE  TypeOK' /\ Quiet
<1>0. call \in [Callers -> Calls] /\ call[c] \in Calls /\ TypeInstance
  BY DEF TypeOK
<1>1. call[c] \in FoundCall /\ call[c].inst \in Instances
  BY <1>0, Kinds DEF ExecuteCommand, Free, Found, FoundCall
<1>2. TypeHost' /\ TypeOutbound' /\ UNCHANGED <<instance, outbound>>
  BY DEF ExecuteCommand, TypeOK, TypeHost, TypeOutbound, host, outbound
<1>3. plug' \in [Instances -> Process] /\ \A i \in Instances : plug'[i].live => plug[i].live
  BY <1>0, <1>1, Plugs DEF ExecuteCommand, TypeInstance
<1>4. /\ call' \in [Callers -> Calls] /\ call'[c].at \in {"commandWrite", "idle"}
      /\ \A d \in Callers \ {c} : call'[d] = call[d]
  <2>1. CASE Goto(c, "commandWrite")
    BY <1>0, <1>1, <2>1, Goes DEF Found
  <2>2. CASE Return(c)
    BY <1>0, <2>2, Returns DEF Idle
  <2>. QED
    BY <2>1, <2>2 DEF ExecuteCommand
<1>5. TypeInstance'
  BY <1>2, <1>3 DEF TypeOK, TypeInstance, instance
<1>6. Quiet
  BY <1>2, <1>3, <1>4 DEF Quiet, Starting, Stopping, outbound
<1>. QED
  BY <1>2, <1>4, <1>5, <1>6 DEF TypeOK

\* The steps of a stop that leave the process and the queue alone.
LEMMA StopMovesKeep ==
    ASSUME TypeOK, NEW c \in Callers,
           \/ CheckRunning(c) \/ Drained(c) \/ WriteShutdown(c)
           \/ (StopLocks(c) /\ ~process[call[c].inst])
    PROVE  TypeOK' /\ Quiet
<1>0. call \in [Callers -> Calls] /\ call[c] \in Calls /\ TypeInstance
  BY DEF TypeOK
<1>1. TypeHost' /\ TypeOutbound' /\ UNCHANGED <<instance, outbound>>
  BY DEF CheckRunning, Drained, WriteShutdown, StopLocks, TypeOK, TypeHost, TypeOutbound, host, outbound
<1>2. plug' \in [Instances -> Process] /\ \A i \in Instances : plug'[i].live => plug[i].live
  <2>1. CASE WriteShutdown(c)
    <3>1. call[c] \in FoundCall
      BY <1>0, <2>1, Kinds DEF WriteShutdown, Free, Found
    <3>2. call[c].inst \in Instances
      BY <3>1 DEF FoundCall
    <3>. QED
      BY <1>0, <2>1, <3>2, Plugs DEF WriteShutdown, TypeInstance
  <2>2. CASE UNCHANGED plug
    BY <1>0, <2>2 DEF TypeInstance
  <2>. QED
    BY <2>1, <2>2 DEF CheckRunning, Drained, StopLocks
<1>3. TypeInstance'
  BY <1>1, <1>2 DEF TypeOK, TypeInstance, instance
<1>4. /\ call' \in [Callers -> Calls]
      /\ \A d \in Callers \ {c} : call'[d] = call[d]
      /\ \/ call'[c].at \notin Starting \cup Stopping \cup {"close"}
         \/ /\ call'[c].inst = call[c].inst
            /\ {call[c].at, call'[c].at} \subseteq {"shutdown", "shutdownWrite", "wait"}
  <2>1. CASE CheckRunning(c) \/ (StopLocks(c) /\ ~process[call[c].inst])
    <3>1. call[c] \in FoundCall
      BY <1>0, <2>1, Kinds DEF CheckRunning, StopLocks, Free, Found
    <3>2. CASE Stopped(c)
      BY <1>0, <3>1, <3>2, Stops DEF Starting, Stopping
    <3>3. CASE Goto(c, "drain")
      BY <1>0, <3>1, <3>3, Goes DEF Starting, Stopping, Found
    <3>. QED
      BY <2>1, <3>2, <3>3 DEF CheckRunning, StopLocks
  <2>2. CASE Drained(c)
    <3>. DEFINE new == [op |-> call[c].op, inst |-> call[c].inst, at |-> "stopLock"]
    <3>1. call[c] \in CloseCall
      BY <1>0, <2>2, Kinds DEF Drained
    <3>2. new \in Calls /\ new.at = "stopLock"
      BY <3>1 DEF CloseCall, Calls, FoundCall, Found
    <3>3. call' = [call EXCEPT ![c] = new]
      BY <2>2 DEF Drained
    <3>. HIDE DEF new
    <3>. QED
      BY <1>0, <3>2, <3>3 DEF Starting, Stopping
  <2>3. CASE WriteShutdown(c)
    <3>1. call[c] \in FoundCall
      BY <1>0, <2>3, Kinds DEF WriteShutdown, Free, Found
    <3>2. CASE call[c].at = "shutdown" /\ Goto(c, "shutdownWrite")
      BY <1>0, <3>1, <3>2, Goes DEF Found
    <3>3. CASE call[c].at = "shutdownWrite" /\ Goto(c, "wait")
      BY <1>0, <3>1, <3>3, Goes DEF Found
    <3>. QED
      BY <2>3, <3>2, <3>3 DEF WriteShutdown
  <2>. QED
    BY <2>1, <2>2, <2>3, Zenon
<1>5. Quiet
  <2>1. UNCHANGED <<instance, closed>>
    BY <1>1 DEF outbound
  <2>2. ASSUME NEW d \in Callers
        PROVE  \/ call'[d].at \notin Starting \cup Stopping \cup {"close"}
               \/ call'[d] = call[d]
               \/ /\ call'[d].inst = call[d].inst
                  /\ {call[d].at, call'[d].at} \subseteq {"shutdown", "shutdownWrite", "wait"}
    <3>1. CASE d = c
      <4>1. CASE call'[c].at \notin Starting \cup Stopping \cup {"close"}
        BY <3>1, <4>1, Zenon
      <4>2. CASE /\ call'[c].inst = call[c].inst
                 /\ {call[c].at, call'[c].at} \subseteq {"shutdown", "shutdownWrite", "wait"}
        BY <3>1, <4>2, Zenon
      <4>. QED
        BY <1>4, <4>1, <4>2, Zenon
    <3>2. CASE d # c
      BY <1>4, <3>2
    <3>. QED
      BY <3>1, <3>2
  <2>. QED
    BY <1>2, <2>1, <2>2 DEF Quiet
<1>. QED
  BY <1>1, <1>3, <1>4, <1>5 DEF TypeOK

\* What is no command's: the plugin, the writers, the hub.
LEMMA OthersKeep ==
    ASSUME TypeOK,
           \/ \E i \in Instances : PluginReads(i) \/ PluginGarbles(i) \/ PluginExits(i)
           \/ \E i \in Instances, n \in Starts : Writer(i, n)
           \/ FanOut \/ Enqueue \/ HubUpdates \/ UpdateUserList
    PROVE  TypeOK' /\ Quiet
<1>0. TypeHost /\ TypeInstance /\ TypeOutbound /\ call \in [Callers -> Calls]
  BY DEF TypeOK
<1>1. UNCHANGED <<instance, closed, call>>
  BY DEF PluginReads, PluginGarbles, PluginExits, Writer, WriterReceives, WriterLocks, WriterWrites,
     FanOut, Enqueue, HubUpdates, UpdateUserList, outbound
<1>2. ASSUME NEW i \in Instances, PluginReads(i) \/ PluginGarbles(i) \/ PluginExits(i)
      PROVE  /\ plug' \in [Instances -> Process]
             /\ \A j \in Instances : plug'[j].live => plug[j].live
             /\ TypeHost' /\ TypeOutbound'
  <2>1. plug[i] \in Process /\ plug \in [Instances -> Process]
    BY <1>0 DEF TypeInstance
  <2>2. PICK new \in Process : plug' = [plug EXCEPT ![i] = new] /\ (new.live => plug[i].live)
    <3>1. CASE PluginReads(i)
      <4>1. PICK answers \in BOOLEAN :
               plug' = [plug EXCEPT ![i].pipe = @ - 1,
                                    ![i].answered = @ \/ (answers /\ readers[i] = {})]
        BY <3>1 DEF PluginReads
      <4>. DEFINE ans == plug[i].answered \/ (answers /\ readers[i] = {})
                  new == [plug[i] EXCEPT !.pipe = @ - 1, !.answered = ans]
      <4>2. plug' = [plug EXCEPT ![i] = new] /\ ans \in BOOLEAN
        BY <4>1
      <4>3. plug[i].pipe > 0
        BY <3>1 DEF PluginReads
      <4>. HIDE DEF ans
      <4>4. plug[i].pipe - 1 \in Nat
        BY <2>1, <4>3 DEF Process
      <4>5. new \in Process /\ new.live = plug[i].live
        BY <2>1, <4>2, <4>4 DEF Process
      <4>. QED
        BY <4>2, <4>5
    <3>2. CASE PluginGarbles(i)
      <4>. DEFINE new == [plug[i] EXCEPT !.garbled = TRUE]
      <4>1. plug' = [plug EXCEPT ![i] = new] /\ new \in Process /\ new.live = plug[i].live
        BY <2>1, <3>2 DEF PluginGarbles, Process
      <4>. QED
        BY <4>1
    <3>3. CASE PluginExits(i)
      <4>. DEFINE new == [plug[i] EXCEPT !.live = FALSE, !.pipe = 0]
      <4>1. plug' = [plug EXCEPT ![i] = new] /\ new \in Process /\ ~new.live
        BY <2>1, <3>3 DEF PluginExits, Process
      <4>. QED
        BY <4>1
    <3>. QED
      BY <1>2, <3>1, <3>2, <3>3
  <2>3. TypeHost' /\ TypeOutbound'
    BY <1>0, <1>2 DEF PluginReads, PluginGarbles, PluginExits, TypeHost, TypeOutbound, host, outbound
  <2>. QED
    BY <2>1, <2>2, <2>3
<1>3. ASSUME NEW i \in Instances, NEW n \in Starts, Writer(i, n)
      PROVE  /\ plug' \in [Instances -> Process]
             /\ \A j \in Instances : plug'[j].live => plug[j].live
             /\ TypeHost' /\ TypeOutbound'
  <2>1. plug' \in {plug, Written(i)}
    BY <1>3 DEF Writer, WriterReceives, WriterLocks, WriterWrites
  <2>2. plug' \in [Instances -> Process] /\ \A j \in Instances : plug'[j].live => plug[j].live
    BY <1>0, <2>1, Plugs DEF TypeInstance
  <2>3. TypeHost' /\ closed' \in [Instances -> [Starts -> BOOLEAN]]
    BY <1>0, <1>3, <1>1 DEF Writer, WriterReceives, WriterLocks, WriterWrites, TypeHost, TypeOutbound, host
  <2>4. writer' \in [Instances -> [Starts -> {"none", "receive", "lock", "write", "done"}]]
    <3>1. PICK pc \in {"receive", "lock", "write", "done"} : writer' = [writer EXCEPT ![i][n] = pc]
      BY <1>3 DEF Writer, WriterReceives, WriterLocks, WriterWrites, WriterTo
    <3>. QED
      BY <1>0, <3>1 DEF TypeOutbound
  <2>5. queue' \in [Instances -> [Starts -> Nat]]
    <3>1. \/ queue' = queue
          \/ queue[i][n] > 0 /\ queue' = [queue EXCEPT ![i][n] = @ - 1]
      BY <1>3 DEF Writer, WriterReceives, WriterLocks, WriterWrites
    <3>2. queue[i][n] \in Nat /\ queue \in [Instances -> [Starts -> Nat]]
      BY <1>0 DEF TypeOutbound
    <3>3. queue[i][n] > 0 => queue[i][n] - 1 \in Nat
      BY <3>2
    <3>. QED
      BY <3>1, <3>2, <3>3
  <2>. QED
    BY <2>2, <2>3, <2>4, <2>5, Zenon DEF TypeOutbound
<1>4. ASSUME FanOut \/ Enqueue \/ HubUpdates \/ UpdateUserList
      PROVE  /\ plug' \in [Instances -> Process]
             /\ \A j \in Instances : plug'[j].live => plug[j].live
             /\ TypeHost' /\ TypeOutbound'
  <2>1. UNCHANGED plug /\ TypeHost'
    BY <1>0, <1>4 DEF FanOut, Enqueue, HubUpdates, UpdateUserList, TypeHost, host
  <2>2. TypeOutbound'
    <3>1. CASE Enqueue
      <4>1. queue' = queue \/ queue' = [queue EXCEPT ![fan][msgQueue[fan]] = @ + 1]
        BY <3>1 DEF Enqueue
      <4>2. queue' \in [Instances -> [Starts -> Nat]]
        <5>1. fan \in Instances
          BY <1>0, <3>1 DEF Enqueue, TypeHost
        <5>2. queue \in [Instances -> [Starts -> Nat]] /\ msgQueue[fan] \in Starts \cup {0}
          BY <1>0, <5>1 DEF TypeOutbound, TypeInstance
        <5>3. CASE msgQueue[fan] \in Starts
          <6>1. queue[fan][msgQueue[fan]] + 1 \in Nat
            BY <5>1, <5>2, <5>3
          <6>. QED
            BY <4>1, <5>1, <5>2, <6>1
        <5>4. CASE msgQueue[fan] = 0
          BY <3>1, <5>2, <5>4 DEF Enqueue
        <5>. QED
          BY <5>2, <5>3, <5>4
      <4>. QED
        BY <1>0, <3>1, <4>2 DEF Enqueue, TypeOutbound
    <3>2. CASE UNCHANGED outbound
      BY <1>0, <3>2 DEF outbound, TypeOutbound
    <3>. QED
      BY <1>4, <3>1, <3>2 DEF FanOut, HubUpdates, UpdateUserList
  <2>. QED
    BY <1>0, <2>1, <2>2 DEF TypeInstance
<1>5. /\ plug' \in [Instances -> Process]
      /\ \A j \in Instances : plug'[j].live => plug[j].live
      /\ TypeHost' /\ TypeOutbound'
  BY <1>2, <1>3, <1>4, Zenon
<1>6. TypeInstance'
  BY <1>0, <1>1, <1>5 DEF TypeInstance, instance
<1>. QED
  BY <1>0, <1>1, <1>5, <1>6 DEF TypeOK, Quiet

----------------------------------------------------------------------------
(* Steps of a command that has, or could have, the mutex of an instance.      *)

\* A step of command c about instance i, which nobody else holds.
Local(c, i) ==
    /\ \A d \in Callers \ {c} : call'[d] = call[d]
    /\ \A d \in Callers \ {c} : call[d].at \in Starting \cup Stopping => call[d].inst # i
    /\ \A j \in Instances \ {i} :
          /\ process'[j] = process[j] /\ msgQueue'[j] = msgQueue[j] /\ decoder'[j] = decoder[j]
          /\ readers'[j] = readers[j] /\ starts'[j] = starts[j] /\ closed'[j] = closed[j]
          /\ plug'[j].live = plug[j].live
    /\ call[c].at = "close" => call[c].inst = i
    /\ call'[c].at \in Starting \cup Stopping \cup {"close"} => call'[c].inst = i

LEMMA LocalKeepsInv ==
    ASSUME TypeOK, Inv, NEW c \in Callers, NEW i \in Instances, Local(c, i),
           (NothingLeft(i) /\ Made(i) /\ OneOwner(i) /\ ReadersDecode(i))',
           (StartIsFresh(c) /\ StopSawTheEnd(c))'
    PROVE  Inv'
<1>1. \A d \in Callers : call[d].at \in Starting \cup Stopping \cup {"close"} => call[d].inst \in Instances
  BY Finds DEF TypeOK
<1>2. \A d \in Callers, j \in Instances \ {i}, n \in Starts : Closing(d, j, n)' <=> Closing(d, j, n)
  BY DEF Local, Closing
<1>3. Exclusive'
  BY DEF Inv, Exclusive, Local
<1>4. ASSUME NEW j \in Instances, j # i
      PROVE  NothingLeft(j)' /\ Made(j)' /\ OneOwner(j)' /\ ReadersDecode(j)'
  <2>1. NothingLeft(j) /\ Made(j) /\ OneOwner(j) /\ ReadersDecode(j)
    BY DEF Inv
  <2>2. /\ process'[j] = process[j] /\ msgQueue'[j] = msgQueue[j] /\ decoder'[j] = decoder[j]
        /\ readers'[j] = readers[j] /\ starts'[j] = starts[j] /\ closed'[j] = closed[j]
        /\ plug'[j].live = plug[j].live
    BY <1>4 DEF Local
  <2>3. NothingLeft(j)' /\ ReadersDecode(j)'
    BY <2>1, <2>2 DEF NothingLeft, ReadersDecode
  <2>4. Made(j)'
    BY <1>2, <1>4, <2>1, <2>2 DEF Made
  <2>5. OneOwner(j)'
    BY <1>2, <1>4, <2>1, <2>2 DEF OneOwner
  <2>. QED
    BY <2>3, <2>4, <2>5
<1>5. ASSUME NEW d \in Callers, d # c
      PROVE  StartIsFresh(d)' /\ StopSawTheEnd(d)'
  <2>1. StartIsFresh(d) /\ StopSawTheEnd(d) /\ call'[d] = call[d]
    BY <1>5 DEF Inv, Local
  <2>2. call[d].at \in Starting \cup Stopping => call[d].inst \in Instances \ {i}
    BY <1>1, <1>5 DEF Local
  <2>3. StopSawTheEnd(d)'
    BY <2>1, <2>2 DEF StopSawTheEnd, Local, Stopping
  <2>4. ASSUME NEW j \in Instances, call[d].at \in Starting, call[d].inst = j
        PROVE  FreshStart(j)' /\ (call[d].at = "initAck" => decoder'[j] = starts'[j])
    <3>1. FreshStart(j) /\ (call[d].at = "initAck" => decoder[j] = starts[j]) /\ j # i
      BY <2>1, <2>2, <2>4 DEF StartIsFresh
    <3>2. starts[j] \in Starts
      BY <3>1, BoundsAssumption DEF TypeOK, TypeInstance, Starts, FreshStart
    <3>3. /\ process'[j] = process[j] /\ msgQueue'[j] = msgQueue[j] /\ decoder'[j] = decoder[j]
          /\ readers'[j] = readers[j] /\ starts'[j] = starts[j] /\ closed'[j] = closed[j]
      BY <3>1 DEF Local
    <3>4. FreshStart(j)'
      BY <1>2, <3>1, <3>2, <3>3 DEF FreshStart
    <3>. QED
      BY <3>1, <3>3, <3>4
  <2>. QED
    BY <2>1, <2>3, <2>4 DEF StartIsFresh
<1>6. \A j \in Instances : NothingLeft(j)' /\ Made(j)' /\ OneOwner(j)' /\ ReadersDecode(j)'
  BY <1>4
<1>7. \A d \in Callers : StartIsFresh(d)' /\ StopSawTheEnd(d)'
  BY <1>5
<1>. QED
  BY <1>3, <1>6, <1>7 DEF Inv

LEMMA NobodyElse ==
    ASSUME Inv, NEW c \in Callers, NEW i, call[c].inst = i,
           call[c].at \in Starting \cup Stopping \/ ~Locked(i)
    PROVE  \A d \in Callers \ {c} : call[d].at \in Starting \cup Stopping => call[d].inst # i
BY DEF Inv, Exclusive, Locked, Starting, Stopping

LEMMA StartProcessKeeps ==
    ASSUME TypeOK, Inv, NEW c \in Callers, StartProcess(c)
    PROVE  TypeOK' /\ Inv'
<1>0. call \in [Callers -> Calls] /\ call[c] \in Calls /\ TypeInstance
  BY DEF TypeOK
<1>1. call[c] \in FoundCall /\ call[c].at = "startLock" /\ ~Locked(call[c].inst)
  BY <1>0, Kinds DEF StartProcess, Free, Found
<1>2. PICK i \in Instances : call[c].inst = i
  BY <1>1 DEF FoundCall
<1>3. TypeHost' /\ TypeOutbound' /\ UNCHANGED <<msgQueue, decoder, readers, closed>>
  BY DEF StartProcess, TypeOK, TypeHost, TypeOutbound, host, outbound
<1>4. \A d \in Callers \ {c} : call[d].at \in Starting \cup Stopping => call[d].inst # i
  BY <1>1, <1>2, NobodyElse
<1>5. NothingLeft(i) /\ Made(i) /\ OneOwner(i) /\ ReadersDecode(i)
  BY DEF Inv
<1>6. CASE Return(c) /\ UNCHANGED <<process, starts, plug>>
  <2>1. call' \in [Callers -> Calls] /\ call'[c].at = "idle"
    BY <1>0, <1>6, Returns DEF Idle
  <2>2. \A d \in Callers \ {c} : call'[d] = call[d]
    BY <1>0, <1>6, Returns
  <2>3. TypeOK'
    BY <1>0, <1>3, <1>6, <2>1 DEF TypeOK, TypeInstance
  <2>4. Quiet
    BY <1>3, <1>6, <2>1, <2>2 DEF Quiet, instance, Starting, Stopping
  <2>. QED
    BY <2>3, <2>4, QuietKeepsInv
<1>7. CASE /\ ~process[i] /\ starts[i] < MaxStarts
           /\ process' = [process EXCEPT ![i] = TRUE]
           /\ Return(c) /\ UNCHANGED <<starts, plug>>
  <2>1. call' \in [Callers -> Calls] /\ call'[c].at = "idle"
    BY <1>0, <1>7, Returns DEF Idle
  <2>2. \A d \in Callers \ {c} : call'[d] = call[d]
    BY <1>0, <1>7, Returns
  <2>3. TypeOK'
    BY <1>0, <1>3, <1>7, <2>1 DEF TypeOK, TypeInstance
  <2>4. Local(c, i)
    BY <1>0, <1>1, <1>3, <1>4, <1>7, <2>1, <2>2 DEF Local, TypeInstance, Starting, Stopping
  <2>5. \A n \in Starts, d \in Callers : Closing(d, i, n)' => Closing(d, i, n)
    BY <2>1, <2>2 DEF Closing
  <2>6. process'[i]
    BY <1>0, <1>7 DEF TypeInstance
  <2>7. NothingLeft(i)' /\ Made(i)' /\ OneOwner(i)' /\ ReadersDecode(i)'
    <3>1. Made(i)'
      BY <1>3, <1>5, <1>7, <2>5 DEF Made
    <3>2. OneOwner(i)'
      BY <1>3, <1>5, <2>5 DEF OneOwner
    <3>. QED
      BY <1>3, <1>5, <2>6, <3>1, <3>2 DEF NothingLeft, ReadersDecode
  <2>8. StartIsFresh(c)' /\ StopSawTheEnd(c)'
    BY <2>1 DEF StartIsFresh, StopSawTheEnd, Starting
  <2>. QED
    BY <2>3, <2>4, <2>7, <2>8, LocalKeepsInv
<1>8. CASE /\ ~process[i] /\ starts[i] < MaxStarts
           /\ process' = [process EXCEPT ![i] = TRUE]
           /\ starts' = [starts EXCEPT ![i] = @ + 1]
           /\ plug' = [plug EXCEPT ![i] = [NoProcess EXCEPT !.live = TRUE]]
           /\ Goto(c, "init")
  <2>1. /\ call' \in [Callers -> Calls] /\ call'[c].at = "init" /\ call'[c].inst = i
        /\ \A d \in Callers \ {c} : call'[d] = call[d]
    BY <1>0, <1>1, <1>2, <1>8, Goes DEF Found
  <2>2. starts'[i] = starts[i] + 1 /\ starts[i] \in Nat /\ starts'[i] \in Starts
    BY <1>0, <1>8, BoundsAssumption DEF TypeInstance, Starts
  <2>3. TypeOK'
    <3>1. [NoProcess EXCEPT !.live = TRUE] \in Process
      BY DEF NoProcess, Process
    <3>2. plug' \in [Instances -> Process] /\ process' \in [Instances -> BOOLEAN]
      BY <1>0, <1>8, <3>1 DEF TypeInstance
    <3>3. starts' \in [Instances -> Nat] /\ \A j \in Instances : starts'[j] <= MaxStarts
      BY <1>0, <1>8, BoundsAssumption DEF TypeInstance
    <3>. QED
      BY <1>0, <1>3, <2>1, <3>2, <3>3 DEF TypeOK, TypeInstance
  <2>4. Local(c, i)
    BY <1>0, <1>1, <1>3, <1>4, <1>8, <2>1 DEF Local, TypeInstance, Starting, Stopping
  <2>5. \A n \in Starts, d \in Callers : Closing(d, i, n)' => Closing(d, i, n)
    BY <2>1 DEF Closing
  <2>6. process'[i] /\ readers'[i] = {}
    BY <1>0, <1>3, <1>5, <1>8 DEF TypeInstance, NothingLeft
  <2>7. \A n \in Starts : n = msgQueue[i] \/ closed[i][n] \/ (\E d \in Callers : Closing(d, i, n))
                          => n # starts'[i]
    BY <1>5, <2>2 DEF Made
  <2>8. NothingLeft(i)' /\ Made(i)' /\ OneOwner(i)' /\ ReadersDecode(i)'
    <3>1. Made(i)'
      BY <1>3, <1>5, <2>2, <2>5 DEF Made, Starts
    <3>2. OneOwner(i)'
      BY <1>3, <1>5, <2>5 DEF OneOwner
    <3>. QED
      BY <2>6, <3>1, <3>2 DEF NothingLeft, ReadersDecode
  <2>9. FreshStart(i)'
    BY <1>3, <2>2, <2>5, <2>6, <2>7 DEF FreshStart
  <2>10. StartIsFresh(c)' /\ StopSawTheEnd(c)'
    BY <2>1, <2>9 DEF StartIsFresh, StopSawTheEnd
  <2>. QED
    BY <2>3, <2>4, <2>8, <2>10, LocalKeepsInv
<1>. QED
  BY <1>2, <1>6, <1>7, <1>8 DEF StartProcess

LEMMA WriteInitKeeps ==
    ASSUME TypeOK, Inv, NEW c \in Callers, WriteInit(c)
    PROVE  TypeOK' /\ Inv'
<1>0. call \in [Callers -> Calls] /\ call[c] \in Calls /\ TypeInstance
  BY DEF TypeOK
<1>1. call[c] \in FoundCall /\ call[c].at \in {"init", "initWrite"}
  BY <1>0, Kinds DEF WriteInit, Free, Found
<1>2. PICK i \in Instances : call[c].inst = i
  BY <1>1 DEF FoundCall
<1>3. TypeHost' /\ TypeOutbound' /\ UNCHANGED <<process, msgQueue, readers, starts, closed>>
  BY DEF WriteInit, TypeOK, TypeHost, TypeOutbound, host, outbound
<1>4. CASE call[c].at = "init" /\ Goto(c, "initWrite") /\ UNCHANGED <<plug, decoder>>
  <2>1. /\ call' \in [Callers -> Calls] /\ call'[c].at = "initWrite" /\ call'[c].inst = i
        /\ \A d \in Callers \ {c} : call'[d] = call[d]
    BY <1>0, <1>1, <1>2, <1>4, Goes DEF Found
  <2>2. TypeOK'
    BY <1>0, <1>3, <1>4, <2>1 DEF TypeOK, TypeInstance
  <2>3. Quiet
    BY <1>2, <1>3, <1>4, <2>1 DEF Quiet, instance
  <2>. QED
    BY <2>2, <2>3, QuietKeepsInv
<1>5. CASE /\ call[c].at = "initWrite" /\ plug' = Written(i)
           /\ decoder' = [decoder EXCEPT ![i] = starts[i]] /\ Goto(c, "initAck")
  <2>1. /\ call' \in [Callers -> Calls] /\ call'[c].at = "initAck" /\ call'[c].inst = i
        /\ \A d \in Callers \ {c} : call'[d] = call[d]
    BY <1>0, <1>1, <1>2, <1>5, Goes DEF Found
  <2>2. plug' \in [Instances -> Process] /\ \A j \in Instances : plug'[j].live = plug[j].live
    BY <1>0, <1>5, Plugs
  <2>3. TypeOK'
    BY <1>0, <1>3, <1>5, <2>1, <2>2 DEF TypeOK, TypeInstance
  <2>4. \A d \in Callers \ {c} : call[d].at \in Starting \cup Stopping => call[d].inst # i
    BY <1>2, <1>5, NobodyElse DEF Starting
  <2>5. Local(c, i)
    BY <1>0, <1>3, <1>5, <2>1, <2>2, <2>4 DEF Local, TypeInstance
  <2>6. /\ NothingLeft(i) /\ Made(i) /\ OneOwner(i) /\ ReadersDecode(i)
        /\ FreshStart(i)
    BY <1>2, <1>5 DEF Inv, StartIsFresh, Starting
  <2>7. starts[i] \in Starts
    BY <2>6, <1>0, BoundsAssumption DEF TypeInstance, Starts, FreshStart
  <2>8. \A n \in Starts, d \in Callers : Closing(d, i, n)' => Closing(d, i, n)
    BY <2>1 DEF Closing
  <2>9. NothingLeft(i)' /\ Made(i)' /\ OneOwner(i)' /\ ReadersDecode(i)'
    <3>1. Made(i)'
      BY <1>3, <2>6, <2>8 DEF Made
    <3>2. OneOwner(i)'
      BY <1>3, <2>6, <2>8 DEF OneOwner
    <3>. QED
      BY <1>3, <2>6, <3>1, <3>2 DEF NothingLeft, ReadersDecode, FreshStart
  <2>10. FreshStart(i)'
    BY <1>3, <2>6, <2>7, <2>8 DEF FreshStart
  <2>11. decoder'[i] = starts'[i]
    BY <1>0, <1>3, <1>5 DEF TypeInstance
  <2>12. StartIsFresh(c)' /\ StopSawTheEnd(c)'
    BY <2>1, <2>10, <2>11 DEF StartIsFresh, StopSawTheEnd
  <2>. QED
    BY <2>3, <2>5, <2>9, <2>12, LocalKeepsInv
<1>. QED
  BY <1>2, <1>4, <1>5 DEF WriteInit

\* The queue and the reader of a start are the first and the only ones.
LEMMA InitAckedKeeps ==
    ASSUME TypeOK, Inv, NEW c \in Callers, InitAcked(c)
    PROVE  TypeOK' /\ Inv'
<1>0. call \in [Callers -> Calls] /\ call[c] \in Calls /\ TypeInstance /\ TypeOutbound
  BY DEF TypeOK
<1>1. call[c] \in FoundCall /\ call[c].at = "initAck"
  BY <1>0, Kinds DEF InitAcked, Free, Found
<1>2. PICK i \in Instances : call[c].inst = i
  BY <1>1 DEF FoundCall
<1>3. /\ NothingLeft(i) /\ Made(i) /\ OneOwner(i) /\ ReadersDecode(i)
      /\ FreshStart(i) /\ decoder[i] = starts[i]
  BY <1>1, <1>2 DEF Inv, StartIsFresh, Starting
<1>4. PICK n \in Starts : n = starts[i]
  BY <1>0, <1>3, BoundsAssumption DEF TypeInstance, Starts, FreshStart
<1>5. /\ msgQueue' = [msgQueue EXCEPT ![i] = n]
      /\ plug' = [plug EXCEPT ![i].answered = FALSE]
      /\ writer' = [writer EXCEPT ![i][n] = "receive"]
      /\ readers' = [readers EXCEPT ![i] = @ \cup {n}]
      /\ UNCHANGED <<host, process, decoder, starts, queue, closed, fan, hub>>
  BY <1>2, <1>4 DEF InitAcked
<1>6. /\ call' \in [Callers -> Calls] /\ call'[c] = Idle
      /\ \A d \in Callers \ {c} : call'[d] = call[d]
  BY <1>0, Returns DEF InitAcked
<1>7. plug' \in [Instances -> Process] /\ \A j \in Instances : plug'[j].live = plug[j].live
  <2>. DEFINE new == [plug[i] EXCEPT !.answered = FALSE]
  <2>1. new \in Process /\ new.live = plug[i].live
    BY <1>0 DEF TypeInstance, Process
  <2>2. plug' = [plug EXCEPT ![i] = new]
    BY <1>5
  <2>. HIDE DEF new
  <2>. QED
    BY <1>0, <2>1, <2>2 DEF TypeInstance
<1>8. TypeOK'
  <2>1. msgQueue' \in [Instances -> Nat] /\ \A j \in Instances : msgQueue'[j] \in Starts \cup {0}
    BY <1>0, <1>5 DEF TypeInstance, Starts
  <2>2. readers' \in [Instances -> SUBSET Starts]
    BY <1>0, <1>5 DEF TypeInstance
  <2>3. TypeInstance'
    BY <1>0, <1>5, <1>7, <2>1, <2>2 DEF TypeInstance
  <2>4. TypeOutbound'
    BY <1>0, <1>5 DEF TypeOutbound
  <2>5. TypeHost'
    BY <1>5 DEF TypeOK, TypeHost, host
  <2>. QED
    BY <1>6, <2>3, <2>4, <2>5 DEF TypeOK
<1>9. Local(c, i)
  <2>1. \A d \in Callers \ {c} : call[d].at \in Starting \cup Stopping => call[d].inst # i
    BY <1>1, <1>2, NobodyElse DEF Starting
  <2>. QED
    BY <1>0, <1>1, <1>5, <1>6, <1>7, <2>1 DEF Local, TypeInstance, Idle, Starting, Stopping
<1>10. \A m \in Starts, d \in Callers : Closing(d, i, m)' => Closing(d, i, m)
  BY <1>6 DEF Closing, Idle
<1>11. msgQueue'[i] = n /\ readers'[i] = {n} /\ process'[i] /\ decoder'[i] = n
  BY <1>0, <1>3, <1>4, <1>5 DEF TypeInstance, FreshStart
<1>12. ~closed'[i][n] /\ \A d \in Callers : ~Closing(d, i, n)'
  BY <1>3, <1>4, <1>5, <1>10 DEF FreshStart
<1>13. Made(i)'
  BY <1>3, <1>4, <1>5, <1>10, <1>11 DEF Made, Starts
<1>14. OneOwner(i)'
  BY <1>3, <1>5, <1>10, <1>11, <1>12 DEF OneOwner
<1>15. NothingLeft(i)' /\ ReadersDecode(i)'
  BY <1>11 DEF NothingLeft, ReadersDecode
<1>16. StartIsFresh(c)' /\ StopSawTheEnd(c)'
  BY <1>6 DEF StartIsFresh, StopSawTheEnd, Starting, Idle
<1>. QED
  BY <1>8, <1>9, <1>13, <1>14, <1>15, <1>16, LocalKeepsInv

\* A start that fails kills its process, and no reader has been started.
LEMMA InitFailsKeeps ==
    ASSUME TypeOK, Inv, NEW c \in Callers, InitFails(c)
    PROVE  TypeOK' /\ Inv'
<1>0. call \in [Callers -> Calls] /\ call[c] \in Calls /\ TypeInstance
  BY DEF TypeOK
<1>1. call[c] \in FoundCall /\ call[c].at = "initAck"
  BY <1>0, Kinds DEF InitFails, Free, Found
<1>2. PICK i \in Instances : call[c].inst = i
  BY <1>1 DEF FoundCall
<1>3. /\ NothingLeft(i) /\ Made(i) /\ OneOwner(i) /\ ReadersDecode(i) /\ readers[i] = {}
  BY <1>1, <1>2 DEF Inv, StartIsFresh, Starting, FreshStart
<1>4. /\ plug' = Killed(i) /\ process' = [process EXCEPT ![i] = FALSE]
      /\ UNCHANGED <<host, msgQueue, decoder, readers, starts, outbound, fan, hub>>
  BY <1>2 DEF InitFails
<1>5. /\ call' \in [Callers -> Calls] /\ call'[c] = Idle
      /\ \A d \in Callers \ {c} : call'[d] = call[d]
  BY <1>0, Returns DEF InitFails
<1>6. /\ plug' \in [Instances -> Process] /\ ~plug'[i].live
      /\ \A j \in Instances \ {i} : plug'[j] = plug[j]
  BY <1>0, <1>4, Plugs
<1>7. TypeOK'
  <2>1. TypeInstance'
    BY <1>0, <1>4, <1>6 DEF TypeInstance
  <2>2. TypeHost' /\ TypeOutbound'
    BY <1>4 DEF TypeOK, TypeHost, TypeOutbound, host, outbound
  <2>. QED
    BY <1>5, <2>1, <2>2 DEF TypeOK
<1>8. Local(c, i)
  <2>1. \A d \in Callers \ {c} : call[d].at \in Starting \cup Stopping => call[d].inst # i
    BY <1>1, <1>2, NobodyElse DEF Starting
  <2>. QED
    BY <1>0, <1>1, <1>4, <1>5, <1>6, <2>1
       DEF Local, TypeInstance, outbound, Idle, Starting, Stopping
<1>9. \A m \in Starts, d \in Callers : Closing(d, i, m)' => Closing(d, i, m)
  BY <1>5 DEF Closing, Idle
<1>10. NothingLeft(i)' /\ Made(i)' /\ OneOwner(i)' /\ ReadersDecode(i)'
  <2>1. Made(i)'
    BY <1>3, <1>4, <1>9 DEF Made, outbound
  <2>2. OneOwner(i)'
    BY <1>3, <1>4, <1>9 DEF OneOwner, outbound
  <2>. QED
    BY <1>3, <1>4, <1>6, <2>1, <2>2 DEF NothingLeft, ReadersDecode
<1>11. StartIsFresh(c)' /\ StopSawTheEnd(c)'
  BY <1>5 DEF StartIsFresh, StopSawTheEnd, Starting, Idle
<1>. QED
  BY <1>7, <1>8, <1>10, <1>11, LocalKeepsInv

\* The queue passes from the instance to the stop that will close it.
LEMMA DrainKeeps ==
    ASSUME TypeOK, Inv, NEW c \in Callers, Drain(c)
    PROVE  TypeOK' /\ Inv'
<1>0. call \in [Callers -> Calls] /\ call[c] \in Calls /\ TypeInstance
  BY DEF TypeOK
<1>1. call[c] \in FoundCall /\ call[c].at = "drain"
  BY <1>0, Kinds DEF Drain, Free, Found
<1>2. PICK i \in Instances : call[c].inst = i
  BY <1>1 DEF FoundCall
<1>3. NothingLeft(i) /\ Made(i) /\ OneOwner(i) /\ ReadersDecode(i)
  BY DEF Inv
<1>4. /\ ~Locked(i) /\ msgQueue' = [msgQueue EXCEPT ![i] = 0]
      /\ UNCHANGED <<host, process, decoder, readers, starts, outbound, plug, fan, hub>>
  BY <1>2 DEF Drain
<1>5. /\ call' \in [Callers -> Calls] /\ \A d \in Callers \ {c} : call'[d] = call[d]
      /\ \/ call'[c].at = "stopLock"
         \/ /\ call'[c].at = "close" /\ call'[c].inst = i
            /\ call'[c].chan = msgQueue[i] /\ msgQueue[i] # 0
  <2>1. CASE msgQueue[i] = 0
    <3>1. Goto(c, "stopLock")
      BY <1>2, <2>1 DEF Drain
    <3>. QED
      BY <1>0, <1>1, <3>1, Goes DEF Found
  <2>2. CASE msgQueue[i] # 0
    <3>. DEFINE new == [op |-> call[c].op, inst |-> i, at |-> "close", chan |-> msgQueue[i]]
    <3>1. call' = [call EXCEPT ![c] = new]
      BY <1>2, <2>2 DEF Drain
    <3>2. call[c].op \in Ops /\ msgQueue[i] \in Starts
      BY <1>0, <1>1, <2>2 DEF FoundCall, TypeInstance
    <3>3. new \in Calls /\ new.at = "close" /\ new.inst = i /\ new.chan = msgQueue[i]
      BY <3>2 DEF Calls, CloseCall
    <3>. HIDE DEF new
    <3>. QED
      BY <1>0, <2>2, <3>1, <3>3
  <2>. QED
    BY <2>1, <2>2
<1>6. TypeOK'
  <2>1. TypeInstance'
    BY <1>0, <1>4 DEF TypeInstance
  <2>2. TypeHost' /\ TypeOutbound'
    BY <1>4 DEF TypeOK, TypeHost, TypeOutbound, host, outbound
  <2>. QED
    BY <1>5, <2>1, <2>2 DEF TypeOK
<1>7. Local(c, i)
  <2>1. \A d \in Callers \ {c} : call[d].at \in Starting \cup Stopping => call[d].inst # i
    BY <1>2, <1>4, NobodyElse
  <2>. QED
    BY <1>0, <1>1, <1>4, <1>5, <2>1 DEF Local, TypeInstance, outbound, Starting, Stopping
<1>8. msgQueue'[i] = 0 /\ closed' = closed /\ starts' = starts
  BY <1>0, <1>4 DEF TypeInstance, outbound
<1>9. ASSUME NEW n \in Starts, NEW d \in Callers, Closing(d, i, n)'
      PROVE  Closing(d, i, n) \/ (d = c /\ n = msgQueue[i])
  BY <1>5, <1>9 DEF Closing
<1>10. Made(i)'
  <2>1. ASSUME NEW n \in Starts, n = msgQueue'[i] \/ closed'[i][n] \/ (\E d \in Callers : Closing(d, i, n)')
        PROVE  n <= starts'[i]
    <3>1. n # 0
      BY DEF Starts
    <3>. QED
      BY <1>3, <1>8, <1>9, <2>1, <3>1 DEF Made
  <2>. QED
    BY <2>1 DEF Made
<1>11. OneOwner(i)'
  <2>1. ASSUME NEW n \in Starts, NEW d \in Callers, Closing(d, i, n)'
        PROVE  ~closed'[i][n] /\ \A e \in Callers : Closing(e, i, n)' => e = d
    <3>1. CASE n = msgQueue[i]
      BY <1>3, <1>8, <1>9, <2>1, <3>1 DEF OneOwner
    <3>2. CASE n # msgQueue[i]
      BY <1>3, <1>8, <1>9, <2>1, <3>2 DEF OneOwner
    <3>. QED
      BY <3>1, <3>2
  <2>2. \A n \in Starts : msgQueue'[i] # n
    BY <1>8 DEF Starts
  <2>. QED
    BY <2>1, <2>2 DEF OneOwner
<1>12. NothingLeft(i)' /\ ReadersDecode(i)'
  BY <1>3, <1>4 DEF NothingLeft, ReadersDecode
<1>13. StartIsFresh(c)' /\ StopSawTheEnd(c)'
  BY <1>5 DEF StartIsFresh, StopSawTheEnd, Starting
<1>. QED
  BY <1>6, <1>7, <1>10, <1>11, <1>12, <1>13, LocalKeepsInv

\* A queue is closed by the only command that has it, without any mutex.
LEMMA CloseQueueKeeps ==
    ASSUME TypeOK, Inv, NEW c \in Callers, CloseQueue(c)
    PROVE  TypeOK' /\ Inv'
<1>0. call \in [Callers -> Calls] /\ call[c] \in Calls /\ TypeOutbound
  BY DEF TypeOK
<1>1. call[c] \in CloseCall /\ call[c].at = "close"
  BY <1>0, Kinds DEF CloseQueue
<1>2. PICK i \in Instances, n \in Starts : call[c].inst = i /\ call[c].chan = n
  BY <1>1 DEF CloseCall
<1>3. /\ closed' = [closed EXCEPT ![i][n] = TRUE] /\ Goto(c, "drained")
      /\ UNCHANGED <<host, instance, queue, writer, plug, fan, hub>>
  BY <1>2 DEF CloseQueue
<1>4. /\ call' \in [Callers -> Calls] /\ call'[c].at = "drained"
      /\ \A d \in Callers \ {c} : call'[d] = call[d]
  <2>. DEFINE new == [call[c] EXCEPT !.at = "drained"]
  <2>1. new \in Calls /\ new.at = "drained"
    BY <1>1 DEF CloseCall, Calls
  <2>2. call' = [call EXCEPT ![c] = new]
    BY <1>3 DEF Goto
  <2>. HIDE DEF new
  <2>. QED
    BY <1>0, <2>1, <2>2
<1>5. TypeOK'
  <2>1. TypeOutbound'
    BY <1>0, <1>3 DEF TypeOutbound
  <2>2. TypeHost' /\ TypeInstance'
    BY <1>3 DEF TypeOK, TypeHost, TypeInstance, host, instance
  <2>. QED
    BY <1>4, <2>1, <2>2 DEF TypeOK
<1>6. Closing(c, i, n) /\ ~Closing(c, i, n)'
  BY <1>1, <1>2, <1>4 DEF Closing
<1>7. \A d \in Callers, j \in Instances, m \in Starts :
         Closing(d, j, m)' => Closing(d, j, m) /\ <<j, m>> # <<i, n>>
  <2>1. ASSUME NEW d \in Callers, NEW j \in Instances, NEW m \in Starts, Closing(d, j, m)'
        PROVE  Closing(d, j, m) /\ d # c
    BY <1>4, <2>1 DEF Closing
  <2>. QED
    BY <1>6, <2>1 DEF Inv, OneOwner
<1>8. \A j \in Instances, m \in Starts : <<j, m>> # <<i, n>> => closed'[j][m] = closed[j][m]
  BY <1>0, <1>3 DEF TypeOutbound
<1>9. UNCHANGED <<process, msgQueue, decoder, readers, starts, plug>>
  BY <1>3 DEF instance
<1>10. Exclusive'
  BY <1>4 DEF Inv, Exclusive, Starting, Stopping
<1>11. ASSUME NEW j \in Instances
       PROVE  NothingLeft(j)' /\ Made(j)' /\ OneOwner(j)' /\ ReadersDecode(j)'
  <2>1. NothingLeft(j) /\ Made(j) /\ OneOwner(j) /\ ReadersDecode(j)
    BY DEF Inv
  <2>2. NothingLeft(j)' /\ ReadersDecode(j)'
    BY <1>9, <2>1 DEF NothingLeft, ReadersDecode
  <2>3. ASSUME NEW m \in Starts
        PROVE  m = msgQueue[j] \/ closed'[j][m] \/ (\E d \in Callers : Closing(d, j, m)') => m <= starts[j]
    <3>1. CASE <<j, m>> = <<i, n>>
      BY <1>6, <2>1, <3>1 DEF Made
    <3>2. CASE <<j, m>> # <<i, n>>
      BY <1>7, <1>8, <2>1, <3>2 DEF Made
    <3>. QED
      BY <3>1, <3>2
  <2>4. Made(j)'
    BY <1>9, <2>3 DEF Made
  <2>5. ASSUME NEW m \in Starts
        PROVE  /\ msgQueue[j] = m => ~closed'[j][m] /\ \A d \in Callers : ~Closing(d, j, m)'
               /\ \A d \in Callers : Closing(d, j, m)' =>
                     ~closed'[j][m] /\ \A e \in Callers : Closing(e, j, m)' => e = d
    <3>1. CASE <<j, m>> = <<i, n>>
      <4>1. msgQueue[j] # m
        BY <1>6, <2>1, <3>1 DEF OneOwner
      <4>2. \A d \in Callers : ~Closing(d, j, m)'
        BY <1>7, <3>1
      <4>. QED
        BY <4>1, <4>2
    <3>2. CASE <<j, m>> # <<i, n>>
      BY <1>7, <1>8, <2>1, <3>2 DEF OneOwner
    <3>. QED
      BY <3>1, <3>2
  <2>6. OneOwner(j)'
    BY <1>9, <2>5 DEF OneOwner
  <2>. QED
    BY <2>2, <2>4, <2>6
<1>12. ASSUME NEW d \in Callers
       PROVE  StartIsFresh(d)' /\ StopSawTheEnd(d)'
  <2>1. StartIsFresh(d) /\ StopSawTheEnd(d)
    BY DEF Inv
  <2>2. call'[d].at \in Starting \cup Stopping => call'[d] = call[d]
    BY <1>4 DEF Starting, Stopping
  <2>3. ASSUME NEW j \in Instances, call'[d].at \in Starting, call'[d].inst = j
        PROVE  FreshStart(j)' /\ (call'[d].at = "initAck" => decoder'[j] = starts'[j])
    <3>1. FreshStart(j) /\ (call[d].at = "initAck" => decoder[j] = starts[j])
      BY <2>1, <2>2, <2>3 DEF StartIsFresh
    <3>2. starts[j] \in Starts
      BY <3>1, BoundsAssumption DEF TypeOK, TypeInstance, Starts, FreshStart
    <3>3. <<j, starts[j]>> # <<i, n>>
      BY <1>6, <3>1 DEF FreshStart
    <3>4. FreshStart(j)'
      BY <1>7, <1>8, <1>9, <3>1, <3>2, <3>3 DEF FreshStart
    <3>. QED
      BY <1>9, <2>2, <2>3, <3>1, <3>4
  <2>4. StopSawTheEnd(d)'
    BY <1>9, <2>1, <2>2 DEF StopSawTheEnd, Stopping
  <2>. QED
    BY <2>3, <2>4 DEF StartIsFresh
<1>. QED
  BY <1>5, <1>10, <1>11, <1>12 DEF Inv

\* The stop takes the mutex of an instance that has a process, and waits for the
\* end of the process.
LEMMA StopHoldsKeeps ==
    ASSUME TypeOK, Inv, NEW c \in Callers,
           (StopLocks(c) /\ process[call[c].inst]) \/ ProcessEnds(c)
    PROVE  TypeOK' /\ Inv'
<1>0. call \in [Callers -> Calls] /\ call[c] \in Calls /\ TypeInstance
  BY DEF TypeOK
<1>1. call[c] \in FoundCall /\ call[c].at \in {"stopLock", "wait"}
  BY <1>0, Kinds DEF StopLocks, ProcessEnds, Free, Found
<1>2. PICK i \in Instances : call[c].inst = i
  BY <1>1 DEF FoundCall
<1>3. NothingLeft(i) /\ Made(i) /\ OneOwner(i) /\ ReadersDecode(i)
  BY DEF Inv
<1>4. TypeHost' /\ TypeOutbound' /\ UNCHANGED <<instance, closed>>
  BY DEF StopLocks, ProcessEnds, TypeOK, TypeHost, TypeOutbound, host, outbound
<1>5. /\ plug' \in [Instances -> Process]
      /\ \A j \in Instances \ {i} : plug'[j] = plug[j]
      /\ plug'[i].live => plug[i].live
      /\ call' \in [Callers -> Calls] /\ call'[c].inst = i
      /\ \/ call'[c].at = "shutdown"
         \/ call'[c].at = "ipc" /\ ~plug'[i].live
      /\ \A d \in Callers \ {c} : call'[d] = call[d]
  <2>1. CASE StopLocks(c) /\ process[call[c].inst]
    <3>1. Goto(c, "shutdown") /\ UNCHANGED plug
      BY <2>1 DEF StopLocks
    <3>. QED
      BY <1>0, <1>1, <1>2, <3>1, Goes DEF Found, TypeInstance
  <2>2. CASE ProcessEnds(c)
    <3>1. Goto(c, "ipc") /\ plug' = Killed(i)
      BY <1>2, <2>2 DEF ProcessEnds
    <3>2. /\ plug' \in [Instances -> Process] /\ ~plug'[i].live
          /\ \A j \in Instances \ {i} : plug'[j] = plug[j]
      BY <1>0, <3>1, Plugs
    <3>. QED
      BY <1>0, <1>1, <1>2, <3>1, <3>2, Goes DEF Found
  <2>. QED
    BY <2>1, <2>2
<1>6. TypeOK'
  <2>1. TypeInstance'
    BY <1>0, <1>4, <1>5 DEF TypeInstance, instance
  <2>. QED
    BY <1>4, <1>5, <2>1 DEF TypeOK
<1>7. Local(c, i)
  <2>1. \A d \in Callers \ {c} : call[d].at \in Starting \cup Stopping => call[d].inst # i
    <3>1. call[c].at \in Starting \cup Stopping \/ ~Locked(i)
      BY <1>2 DEF StopLocks, ProcessEnds, Stopping
    <3>. QED
      BY <1>2, <3>1, NobodyElse
  <2>. QED
    BY <1>1, <1>4, <1>5, <2>1 DEF Local, instance
<1>8. \A m \in Starts, d \in Callers : Closing(d, i, m)' => Closing(d, i, m)
  BY <1>5 DEF Closing
<1>9. NothingLeft(i)' /\ Made(i)' /\ OneOwner(i)' /\ ReadersDecode(i)'
  <2>1. Made(i)'
    BY <1>3, <1>4, <1>8 DEF Made, instance
  <2>2. OneOwner(i)'
    BY <1>3, <1>4, <1>8 DEF OneOwner, instance
  <2>3. NothingLeft(i)' /\ ReadersDecode(i)'
    BY <1>3, <1>4, <1>5 DEF NothingLeft, ReadersDecode, instance
  <2>. QED
    BY <2>1, <2>2, <2>3
<1>10. StartIsFresh(c)' /\ StopSawTheEnd(c)'
  BY <1>5 DEF StartIsFresh, StopSawTheEnd, Starting
<1>. QED
  BY <1>6, <1>7, <1>9, <1>10, LocalKeepsInv

\* The stop forgets the process only after its readers.
LEMMA ReadersEndedKeeps ==
    ASSUME TypeOK, Inv, NEW c \in Callers, ReadersEnded(c)
    PROVE  TypeOK' /\ Inv'
<1>0. call \in [Callers -> Calls] /\ call[c] \in Calls /\ TypeInstance
  BY DEF TypeOK
<1>1. call[c] \in FoundCall /\ call[c].at = "ipc"
  BY <1>0, Kinds DEF ReadersEnded, Free, Found
<1>2. PICK i \in Instances : call[c].inst = i
  BY <1>1 DEF FoundCall
<1>3. /\ NothingLeft(i) /\ Made(i) /\ OneOwner(i) /\ ReadersDecode(i)
      /\ ~plug[i].live
  BY <1>1, <1>2 DEF Inv, StopSawTheEnd
<1>4. /\ readers[i] = {}
      /\ decoder' = [decoder EXCEPT ![i] = 0] /\ process' = [process EXCEPT ![i] = FALSE]
      /\ Stopped(c)
      /\ UNCHANGED <<host, msgQueue, readers, starts, outbound, plug, fan, hub>>
  BY <1>2 DEF ReadersEnded
<1>5. /\ call' \in [Callers -> Calls] /\ call'[c].at \in {"unload", "idle"}
      /\ \A d \in Callers \ {c} : call'[d] = call[d]
  BY <1>0, <1>1, <1>4, Stops
<1>6. TypeOK'
  <2>1. TypeInstance'
    BY <1>0, <1>4 DEF TypeInstance
  <2>2. TypeHost' /\ TypeOutbound'
    BY <1>4 DEF TypeOK, TypeHost, TypeOutbound, host, outbound
  <2>. QED
    BY <1>5, <2>1, <2>2 DEF TypeOK
<1>7. Local(c, i)
  <2>1. \A d \in Callers \ {c} : call[d].at \in Starting \cup Stopping => call[d].inst # i
    BY <1>1, <1>2, NobodyElse DEF Stopping
  <2>. QED
    BY <1>0, <1>1, <1>4, <1>5, <2>1 DEF Local, TypeInstance, outbound, Starting, Stopping
<1>8. \A m \in Starts, d \in Callers : Closing(d, i, m)' => Closing(d, i, m)
  BY <1>5 DEF Closing
<1>9. NothingLeft(i)' /\ Made(i)' /\ OneOwner(i)' /\ ReadersDecode(i)'
  <2>1. Made(i)'
    BY <1>3, <1>4, <1>8 DEF Made, outbound
  <2>2. OneOwner(i)'
    BY <1>3, <1>4, <1>8 DEF OneOwner, outbound
  <2>. QED
    BY <1>3, <1>4, <2>1, <2>2 DEF NothingLeft, ReadersDecode
<1>10. StartIsFresh(c)' /\ StopSawTheEnd(c)'
  BY <1>5 DEF StartIsFresh, StopSawTheEnd, Starting
<1>. QED
  BY <1>6, <1>7, <1>9, <1>10, LocalKeepsInv

LEMMA ReaderEndsKeeps ==
    ASSUME TypeOK, Inv, NEW i \in Instances, ReaderEnds(i)
    PROVE  TypeOK' /\ Inv'
<1>1. /\ UNCHANGED <<process, msgQueue, decoder, starts, closed, plug, call>>
      /\ readers' \in [Instances -> SUBSET Starts]
      /\ \A j \in Instances : readers'[j] \subseteq readers[j]
  BY DEF ReaderEnds, outbound, TypeOK, TypeInstance
<1>2. TypeOK'
  <2>1. TypeHost' /\ TypeOutbound'
    BY DEF ReaderEnds, TypeOK, TypeHost, TypeOutbound, host, outbound
  <2>2. TypeInstance'
    BY <1>1 DEF TypeOK, TypeInstance
  <2>. QED
    BY <1>1, <2>1, <2>2 DEF TypeOK
<1>3. Exclusive'
  BY <1>1 DEF Inv, Exclusive
<1>4. \A j \in Instances : NothingLeft(j)' /\ Made(j)' /\ OneOwner(j)' /\ ReadersDecode(j)'
  <2>1. \A j \in Instances : NothingLeft(j)' /\ ReadersDecode(j)'
    BY <1>1 DEF Inv, NothingLeft, ReadersDecode
  <2>2. \A j \in Instances : Made(j)' /\ OneOwner(j)'
    BY <1>1 DEF Inv, Made, OneOwner, Closing
  <2>. QED
    BY <2>1, <2>2
<1>5. ASSUME NEW c \in Callers
      PROVE  StartIsFresh(c)' /\ StopSawTheEnd(c)'
  <2>1. StartIsFresh(c) /\ StopSawTheEnd(c)
    BY DEF Inv
  <2>2. \A j \in Instances : FreshStart(j) => FreshStart(j)'
    BY <1>1 DEF FreshStart, Closing
  <2>. QED
    BY <1>1, <2>1, <2>2 DEF StartIsFresh, StopSawTheEnd
<1>. QED
  BY <1>2, <1>3, <1>4, <1>5 DEF Inv

----------------------------------------------------------------------------
(* The theorems.                                                              *)

LEMMA InvInit == Init => Inv
<1>. SUFFICES ASSUME Init PROVE Inv
  OBVIOUS
<1>1. \A c \in Callers : call[c].at = "idle"
  BY DEF Init, Idle
<1>2. \A c \in Callers, i \in Instances, n \in Starts : ~Closing(c, i, n)
  BY <1>1 DEF Closing
<1>3. Exclusive
  BY <1>1 DEF Exclusive, Starting, Stopping
<1>4. ASSUME NEW i \in Instances
      PROVE  NothingLeft(i) /\ Made(i) /\ OneOwner(i) /\ ReadersDecode(i)
  <2>1. msgQueue[i] = 0 /\ readers[i] = {} /\ ~plug[i].live /\ \A n \in Starts : n # 0 /\ ~closed[i][n]
    BY DEF Init, NoProcess, Starts
  <2>. QED
    BY <1>2, <2>1 DEF NothingLeft, Made, OneOwner, ReadersDecode
<1>5. \A c \in Callers : StartIsFresh(c) /\ StopSawTheEnd(c)
  BY <1>1 DEF StartIsFresh, StopSawTheEnd, Starting
<1>. QED
  BY <1>3, <1>4, <1>5 DEF Inv

LEMMA InvStep == TypeOK /\ Inv /\ [Next]_vars => (TypeOK /\ Inv)'
<1>. SUFFICES ASSUME TypeOK, Inv, [Next]_vars PROVE TypeOK' /\ Inv'
  OBVIOUS
<1>1. ASSUME NEW c \in Callers, Begin(c)
      PROVE  TypeOK' /\ Inv'
  BY <1>1, BeginKeeps, QuietKeepsInv
<1>2. ASSUME NEW c \in Callers, LoadPlugin(c) \/ UnloadPlugin(c) \/ SetEnabled(c)
      PROVE  TypeOK' /\ Inv'
  BY <1>2, LoadKeeps, QuietKeepsInv
<1>3. ASSUME NEW c \in Callers, Lookup(c)
      PROVE  TypeOK' /\ Inv'
  BY <1>3, LookupKeeps, QuietKeepsInv
<1>4. ASSUME NEW c \in Callers, ExecuteCommand(c)
      PROVE  TypeOK' /\ Inv'
  BY <1>4, ExecuteKeeps, QuietKeepsInv
<1>5. ASSUME NEW c \in Callers, StartPlugin(c)
      PROVE  TypeOK' /\ Inv'
  BY <1>5, StartProcessKeeps, WriteInitKeeps, InitAckedKeeps, InitFailsKeeps DEF StartPlugin
<1>6. ASSUME NEW c \in Callers, StopPlugin(c)
      PROVE  TypeOK' /\ Inv'
  <2>1. CASE CheckRunning(c) \/ Drained(c) \/ WriteShutdown(c)
    BY <2>1, StopMovesKeep, QuietKeepsInv
  <2>2. CASE StopLocks(c)
    BY <2>2, StopMovesKeep, StopHoldsKeeps, QuietKeepsInv
  <2>. QED
    BY <1>6, <2>1, <2>2, DrainKeeps, CloseQueueKeeps, StopHoldsKeeps, ReadersEndedKeeps
       DEF StopPlugin
<1>7. ASSUME NEW i \in Instances, ReaderEnds(i)
      PROVE  TypeOK' /\ Inv'
  BY <1>7, ReaderEndsKeeps
<1>8. CASE \/ \E i \in Instances : PluginReads(i) \/ PluginGarbles(i) \/ PluginExits(i)
           \/ \E i \in Instances, n \in Starts : Writer(i, n)
           \/ FanOut \/ Enqueue \/ HubUpdates \/ UpdateUserList
  BY <1>8, OthersKeep, QuietKeepsInv
<1>9. CASE UNCHANGED vars
  <2>1. TypeOK'
    BY <1>9 DEF vars, host, instance, outbound, TypeOK, TypeHost, TypeInstance, TypeOutbound
  <2>2. Quiet
    BY <1>9 DEF vars, outbound, Quiet
  <2>. QED
    BY <2>1, <2>2, QuietKeepsInv
<1>. QED
  BY <1>1, <1>2, <1>3, <1>4, <1>5, <1>6, <1>7, <1>8, <1>9 DEF Next, Command

\* The inductive invariant: types, the order of starts, owners and places of the
\* commands.
THEOREM InvCorrect == Spec => [](TypeOK /\ Inv)
BY TypeInit, InvInit, InvStep, PTL DEF Spec

\* Every variable keeps its type.
THEOREM TypeCorrect == Spec => []TypeOK
BY InvCorrect, PTL

\* Whatever starts and stops overlap, nothing is sent on a closed channel and a
\* reader decodes the output of its own start.
THEOREM StartsApart == Spec => []StartsStayApart
<1>1. TypeOK /\ Inv => StartsStayApart
  <2>. SUFFICES ASSUME TypeOK, Inv, NEW i \in Instances
                PROVE  /\ msgQueue[i] # 0 =>
                             /\ ~closed[i][msgQueue[i]]
                             /\ \A c \in Callers : call[c].at = "close" =>
                                   <<call[c].inst, call[c].chan>> # <<i, msgQueue[i]>>
                       /\ \A n \in readers[i] : decoder[i] = n
    BY DEF StartsStayApart
  <2>1. OneOwner(i) /\ ReadersDecode(i) /\ msgQueue[i] \in Starts \cup {0}
    BY DEF Inv, TypeOK, TypeInstance
  <2>. QED
    BY <2>1 DEF OneOwner, ReadersDecode, Closing
<1>. QED
  BY <1>1, InvCorrect, PTL

\* An instance without a Process has left no process running.
THEOREM NoProcessLeft == Spec => []NothingLeftRunning
<1>1. Inv => NothingLeftRunning
  BY DEF Inv, NothingLeft, NothingLeftRunning
<1>. QED
  BY <1>1, InvCorrect, PTL

\* No two commands are about to close one channel, and none closes a channel
\* again, which would end the server.
ClosedOnce ==
    \A c \in Callers : call[c].at = "close" =>
        /\ ~closed[call[c].inst][call[c].chan]
        /\ \A d \in Callers \ {c} : call[d].at = "close" =>
              <<call[d].inst, call[d].chan>> # <<call[c].inst, call[c].chan>>

\* Each channel is closed once, however many stops of an instance run at once.
THEOREM NoDoubleClose == Spec => []ClosedOnce
<1>1. TypeOK /\ Inv => ClosedOnce
  <2>. SUFFICES ASSUME TypeOK, Inv, NEW c \in Callers, call[c].at = "close"
                PROVE  /\ ~closed[call[c].inst][call[c].chan]
                       /\ \A d \in Callers \ {c} : call[d].at = "close" =>
                             <<call[d].inst, call[d].chan>> # <<call[c].inst, call[c].chan>>
    BY DEF ClosedOnce
  <2>1. call[c].inst \in Instances /\ call[c].chan \in Starts
    BY Finds DEF TypeOK
  <2>2. Closing(c, call[c].inst, call[c].chan) /\ OneOwner(call[c].inst)
    BY <2>1 DEF Closing, Inv
  <2>. QED
    BY <2>1, <2>2 DEF OneOwner, Closing
<1>. QED
  BY <1>1, InvCorrect, PTL
=============================================================================
