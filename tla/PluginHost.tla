----------------------------- MODULE PluginHost -----------------------------
(***************************************************************************)
(* The life of one plugin in plugin/host, as the commands of               *)
(* plugin/manager drive it: install, uninstall, enable, disable and the    *)
(* plugin's own commands, issued at once by the readPumps and panels of    *)
(* several administrators, while chat messages fan out to the plugin and   *)
(* the hub gives the host its list of users.                               *)
(*                                                                         *)
(* As in HubLocks, a section of the host's RWMutex mu that cannot block is  *)
(* one action; only SendMessage keeps it, for reading, while it waits for  *)
(* the mutex of an instance.  A line on the plugin's stdin is counted, its *)
(* text is not kept; validation of names and manifests, which writes       *)
(* nothing, is part of the lookups that fail.                              *)
(***************************************************************************)
EXTENDS Naturals

CONSTANTS
    Instances,  \* bound: the PluginInstance values LoadPlugin makes, one each time
    Callers,    \* bound: the commands about the plugin that run at once
    Ops,        \* bound: the commands that are issued
    QueueCap,   \* pluginOutboundQueueDepth
    PipeCap,    \* lines that fit in the pipe to the plugin's stdin
    MaxCommands,    \* bound: commands issued
    MaxStarts,  \* bound: processes started for an instance
    None        \* no instance

ASSUME CapsAssumption == QueueCap \in Nat \ {0} /\ PipeCap \in Nat \ {0}
ASSUME OpsAssumption == Ops \subseteq {"install", "uninstall", "enable", "disable", "command"}
ASSUME BoundsAssumption == {MaxCommands, MaxStarts} \subseteq Nat
ASSUME NoneAssumption == None \notin Instances

Starts == 1..MaxStarts

VARIABLES
    plugin,     \* PluginHost.plugins of the plugin's name
    fresh,      \* the instances not made yet
    enabled,    \* enabled[i]: i.Enabled
    commands,   \* how many commands have been issued
    process,    \* process[i]: i.Process # nil
    msgQueue,   \* msgQueue[i]: the start that made i.msgQueue, 0 for nil
    decoder,    \* decoder[i]: the start that made i.decoder, 0 for nil
    readers,    \* readers[i]: the starts whose stdout reader runs
    starts,     \* starts[i]: processes started for i
    queue,      \* queue[i][n]: messages in the channel that start n made
    closed,     \* closed[i][n]: that channel is closed
    writer,     \* writer[i][n]: where the outbound writer of that channel is
    plug,       \* plug[i]: the operating system's side, the last process of i
    call,       \* call[c]: the command in progress
    fan,        \* the instance whose mutex SendMessage waits for, or None
    hub         \* where Hub.Run is: in UpdateUserList, or elsewhere

host == <<plugin, fresh, enabled, commands>>
instance == <<process, msgQueue, decoder, readers, starts>>
outbound == <<queue, closed, writer>>
vars == <<host, instance, outbound, plug, call, fan, hub>>

Idle == [at |-> "idle"]

\* live: it runs; garbled: its stdout held something that is not JSON, or ended
\* inside it; pipe: lines it has not read; answered: initializePlugin can read a
\* response to one of them.
NoProcess == [live |-> FALSE, garbled |-> FALSE, pipe |-> 0, answered |-> FALSE]

Init ==
    /\ plugin = None /\ fresh = Instances
    /\ enabled = [i \in Instances |-> TRUE] /\ commands = 0
    /\ process = [i \in Instances |-> FALSE]
    /\ msgQueue = [i \in Instances |-> 0] /\ decoder = [i \in Instances |-> 0]
    /\ readers = [i \in Instances |-> {}] /\ starts = [i \in Instances |-> 0]
    /\ queue = [i \in Instances |-> [n \in Starts |-> 0]]
    /\ closed = [i \in Instances |-> [n \in Starts |-> FALSE]]
    /\ writer = [i \in Instances |-> [n \in Starts |-> "none"]]
    /\ plug = [i \in Instances |-> NoProcess]
    /\ call = [c \in Callers |-> Idle] /\ fan = None /\ hub = "elsewhere"

----------------------------------------------------------------------------
(* The locks. *)

\* PluginHost.mu: Lock has been called and not granted.
LockWanted ==
    hub = "update" \/ \E c \in Callers : call[c].at \in {"load", "unload", "enable", "disable"}

CanLock == fan = None
CanRLock == ~(fan # None /\ LockWanted)

\* PluginInstance.mu: StartPlugin keeps it through the initialization of the
\* plugin, StopPlugin through its shutdown.
Locked(i) ==
    \E c \in Callers :
       /\ call[c].at \in {"init", "initWrite", "initAck", "shutdown", "shutdownWrite", "wait", "ipc"}
       /\ call[c].inst = i

\* PluginInstance.stdinMu.
StdinLocked(i) ==
    \/ \E n \in Starts : writer[i][n] = "write"
    \/ \E c \in Callers :
          call[c].at \in {"initWrite", "shutdownWrite", "commandWrite"} /\ call[c].inst = i

\* Stdin.Write of a line returns: there is room for it, or no process reads the
\* pipe and it fails.
CanWrite(i) == ~plug[i].live \/ plug[i].pipe < PipeCap
Written(i) == [plug EXCEPT ![i].pipe = IF plug[i].live THEN @ + 1 ELSE @]

\* The process is killed, or has exited.
Killed(i) == [plug EXCEPT ![i] = [NoProcess EXCEPT !.garbled = plug[i].garbled]]

Goto(c, at) == call' = [call EXCEPT ![c].at = at]
Return(c) == call' = [call EXCEPT ![c] = Idle]

----------------------------------------------------------------------------
(* The plugin: a process that reads a line and answers it, or does not. *)

PluginReads(i) ==
    /\ plug[i].live /\ plug[i].pipe > 0
    /\ \E answers \in BOOLEAN :
          plug' = [plug EXCEPT ![i].pipe = @ - 1,
                               ![i].answered = @ \/ (answers /\ readers[i] = {})]
    /\ UNCHANGED <<host, instance, outbound, call, fan, hub>>

\* Before there is a reader this is a failure of InitFails.
PluginGarbles(i) ==
    /\ plug[i].live /\ readers[i] # {} /\ plug' = [plug EXCEPT ![i].garbled = TRUE]
    /\ UNCHANGED <<host, instance, outbound, call, fan, hub>>

PluginExits(i) ==
    /\ plug[i].live /\ plug' = [plug EXCEPT ![i].live = FALSE, ![i].pipe = 0]
    /\ UNCHANGED <<host, instance, outbound, call, fan, hub>>

----------------------------------------------------------------------------
(* Commands and LoadPlugin, UnloadPlugin. *)

\* install and uninstall are the manager's, the others the host's.
Begin(c) ==
    /\ call[c] = Idle
    /\ commands < MaxCommands /\ commands' = commands + 1
    /\ \E op \in Ops :
          call' = [call EXCEPT ![c] =
                     [op |-> op, inst |-> None,
                      at |-> CASE op = "install" -> "load"
                               [] op = "uninstall" -> "stop"
                               [] OTHER -> op]]
    /\ UNCHANGED <<plugin, fresh, enabled, instance, outbound, plug, fan, hub>>

\* A new instance takes the name, whatever the one before it is doing.  The
\* download, the manifest or its version may also be refused.
LoadPlugin(c) ==
    /\ call[c].at = "load" /\ CanLock
    /\ \/ Return(c) /\ UNCHANGED host
       \/ \E i \in fresh :
             /\ plugin' = i /\ fresh' = fresh \ {i}
             /\ Goto(c, "start") \/ Goto(c, "unload")
             /\ UNCHANGED <<enabled, commands>>
    /\ UNCHANGED <<instance, outbound, plug, fan, hub>>

UnloadPlugin(c) ==
    /\ call[c].at = "unload" /\ CanLock
    /\ plugin' = None /\ Return(c)
    /\ UNCHANGED <<fresh, enabled, commands, instance, outbound, plug, fan, hub>>

\* EnablePlugin and DisablePlugin before they start or stop the plugin.
SetEnabled(c) ==
    /\ call[c].at \in {"enable", "disable"} /\ CanLock
    /\ IF plugin = None THEN Return(c) /\ UNCHANGED enabled
       ELSE /\ enabled' = [enabled EXCEPT ![plugin] = call[c].op = "enable"]
            /\ Goto(c, IF call[c].op = "enable" THEN "start" ELSE "stop")
    /\ UNCHANGED <<plugin, fresh, commands, instance, outbound, plug, fan, hub>>

\* h.plugins[name] under mu.RLock, in StartPlugin, StopPlugin and ExecuteCommand.
\* The last one reads Enabled and Process without the instance's mutex.
Lookup(c) ==
    /\ call[c].at \in {"start", "stop", "command"} /\ CanRLock
    /\ IF plugin = None \/ (call[c].op = "command" /\ ~(enabled[plugin] /\ process[plugin]))
         THEN Return(c)
         ELSE call' = [call EXCEPT ![c].inst = plugin,
                                   ![c].at = CASE @ = "start" -> "startLock"
                                               [] @ = "stop" -> "check"
                                               [] @ = "command" -> "commandLock"]
    /\ UNCHANGED <<host, instance, outbound, plug, fan, hub>>

ExecuteCommand(c) ==
    LET i == call[c].inst IN
    /\ \/ call[c].at = "commandLock" /\ ~StdinLocked(i) /\ Goto(c, "commandWrite") /\ UNCHANGED plug
       \/ call[c].at = "commandWrite" /\ CanWrite(i) /\ plug' = Written(i) /\ Return(c)
    /\ UNCHANGED <<host, instance, outbound, fan, hub>>

----------------------------------------------------------------------------
(* StartPlugin. *)

\* Under the instance's mutex: the process is made and started.  If it cannot
\* be started, Process stays.
StartProcess(c) ==
    LET i == call[c].inst IN
    /\ call[c].at = "startLock" /\ ~Locked(i)
    /\ \/ Return(c) /\ UNCHANGED <<process, starts, plug>>
       \/ /\ ~process[i] /\ starts[i] < MaxStarts
          /\ process' = [process EXCEPT ![i] = TRUE]
          /\ \/ Return(c) /\ UNCHANGED <<starts, plug>>
             \/ /\ starts' = [starts EXCEPT ![i] = @ + 1]
                /\ plug' = [plug EXCEPT ![i] = [NoProcess EXCEPT !.live = TRUE]]
                /\ Goto(c, "init")
    /\ UNCHANGED <<host, msgQueue, decoder, readers, outbound, fan, hub>>

\* initializePlugin writes the init request and makes the decoder.
WriteInit(c) ==
    LET i == call[c].inst IN
    /\ \/ /\ call[c].at = "init" /\ ~StdinLocked(i) /\ Goto(c, "initWrite")
          /\ UNCHANGED <<plug, decoder>>
       \/ /\ call[c].at = "initWrite" /\ CanWrite(i) /\ plug' = Written(i)
          /\ decoder' = [decoder EXCEPT ![i] = starts[i]] /\ Goto(c, "initAck")
    /\ UNCHANGED <<host, process, msgQueue, readers, starts, outbound, fan, hub>>

\* The first response is a success: the queue, its writer and the readers start.
InitAcked(c) ==
    LET i == call[c].inst
        n == starts[i] IN
    /\ call[c].at = "initAck" /\ plug[i].answered
    /\ msgQueue' = [msgQueue EXCEPT ![i] = n]
    /\ plug' = [plug EXCEPT ![i].answered = FALSE]
    /\ writer' = [writer EXCEPT ![i][n] = "receive"]
    /\ readers' = [readers EXCEPT ![i] = @ \cup {n}]
    /\ Return(c)
    /\ UNCHANGED <<host, process, decoder, starts, queue, closed, fan, hub>>

\* Mutant: the process is left behind.
InitFailsNoKill(c) ==
    LET i == call[c].inst IN
    /\ call[c].at = "initAck"
    /\ process' = [process EXCEPT ![i] = FALSE]
    /\ Return(c)
    /\ UNCHANGED <<host, msgQueue, decoder, readers, starts, outbound, plug, fan, hub>>

\* Mutant: there is no time limit for the response.
InitFailsAtEOF(c) ==
    LET i == call[c].inst IN
    /\ call[c].at = "initAck" /\ ~plug[i].live
    /\ plug' = Killed(i) /\ process' = [process EXCEPT ![i] = FALSE]
    /\ Return(c)
    /\ UNCHANGED <<host, msgQueue, decoder, readers, starts, outbound, fan, hub>>

\* The first response is a failure, stdout ends or 5 s pass: the process is
\* killed.
InitFails(c) ==
    LET i == call[c].inst IN
    /\ call[c].at = "initAck"
    /\ plug' = Killed(i) /\ process' = [process EXCEPT ![i] = FALSE]
    /\ Return(c)
    /\ UNCHANGED <<host, msgQueue, decoder, readers, starts, outbound, fan, hub>>

StartPlugin(c) == StartProcess(c) \/ WriteInit(c) \/ InitAcked(c) \/ InitFails(c)

----------------------------------------------------------------------------
(* StopPlugin.  When it returns, uninstall goes on with UnloadPlugin. *)

Stopped(c) == IF call[c].op = "uninstall" THEN Goto(c, "unload") ELSE Return(c)

CheckRunning(c) ==
    /\ call[c].at = "check" /\ ~Locked(call[c].inst)
    /\ IF process[call[c].inst] THEN Goto(c, "drain") ELSE Stopped(c)
    /\ UNCHANGED <<host, instance, outbound, plug, fan, hub>>

\* Mutant: the queue stays the instance's.
DrainShared(c) ==
    LET i == call[c].inst
        n == msgQueue[i] IN
    /\ call[c].at = "drain" /\ ~Locked(i)
    /\ IF n = 0 THEN Goto(c, "stopLock") ELSE
          call' = [call EXCEPT ![c] =
                     [op |-> @.op, inst |-> i, at |-> "close", chan |-> n]]
    /\ UNCHANGED <<host, instance, outbound, plug, fan, hub>>

\* drainAndWaitPluginOutbound: the queue is taken from the instance under its
\* mutex and then closed.
Drain(c) ==
    LET i == call[c].inst
        n == msgQueue[i] IN
    /\ call[c].at = "drain" /\ ~Locked(i)
    /\ msgQueue' = [msgQueue EXCEPT ![i] = 0]
    /\ IF n = 0 THEN Goto(c, "stopLock") ELSE
          call' = [call EXCEPT ![c] =
                     [op |-> @.op, inst |-> i, at |-> "close", chan |-> n]]
    /\ UNCHANGED <<host, process, decoder, readers, starts, outbound, plug, fan, hub>>

CloseQueue(c) ==
    /\ call[c].at = "close" /\ Goto(c, "drained")
    /\ closed' = [closed EXCEPT ![call[c].inst][call[c].chan] = TRUE]
    /\ UNCHANGED <<host, instance, queue, writer, plug, fan, hub>>

\* The writers have finished, or 2 s have passed.
Drained(c) ==
    /\ call[c].at = "drained"
    /\ call' = [call EXCEPT ![c] = [op |-> @.op, inst |-> @.inst, at |-> "stopLock"]]
    /\ UNCHANGED <<host, instance, outbound, plug, fan, hub>>

StopLocks(c) ==
    /\ call[c].at = "stopLock" /\ ~Locked(call[c].inst)
    /\ IF process[call[c].inst] THEN Goto(c, "shutdown") ELSE Stopped(c)
    /\ UNCHANGED <<host, instance, outbound, plug, fan, hub>>

WriteShutdown(c) ==
    LET i == call[c].inst IN
    /\ \/ call[c].at = "shutdown" /\ ~StdinLocked(i) /\ Goto(c, "shutdownWrite") /\ UNCHANGED plug
       \/ call[c].at = "shutdownWrite" /\ CanWrite(i) /\ plug' = Written(i) /\ Goto(c, "wait")
    /\ UNCHANGED <<host, instance, outbound, fan, hub>>

\* Mutant: the process is not killed.
ProcessExits(c) ==
    /\ call[c].at = "wait" /\ ~plug[call[c].inst].live
    /\ plug' = Killed(call[c].inst) /\ Goto(c, "ipc")
    /\ UNCHANGED <<host, instance, outbound, fan, hub>>

\* The process exits, or is killed after 1 s.
ProcessEnds(c) ==
    /\ call[c].at = "wait" /\ plug' = Killed(call[c].inst) /\ Goto(c, "ipc")
    /\ UNCHANGED <<host, instance, outbound, fan, hub>>

\* Mutant: the readers are not waited for.
ReadersLeft(c) ==
    LET i == call[c].inst IN
    /\ call[c].at = "ipc"
    /\ decoder' = [decoder EXCEPT ![i] = 0] /\ process' = [process EXCEPT ![i] = FALSE]
    /\ Stopped(c)
    /\ UNCHANGED <<host, msgQueue, readers, starts, outbound, plug, fan, hub>>

\* ipcWG.Wait, after which the decoder and the pipes are cleared.
ReadersEnded(c) ==
    LET i == call[c].inst IN
    /\ call[c].at = "ipc" /\ readers[i] = {}
    /\ decoder' = [decoder EXCEPT ![i] = 0] /\ process' = [process EXCEPT ![i] = FALSE]
    /\ Stopped(c)
    /\ UNCHANGED <<host, msgQueue, readers, starts, outbound, plug, fan, hub>>

StopPlugin(c) ==
    \/ CheckRunning(c) \/ Drain(c) \/ CloseQueue(c) \/ Drained(c)
    \/ StopLocks(c) \/ WriteShutdown(c) \/ ProcessEnds(c) \/ ReadersEnded(c)

----------------------------------------------------------------------------
(* The goroutines of an instance. *)

\* handlePluginOutput ends at the end of stdout.  Any other error of the decoder
\* comes back at each call, and so does the loop.
ReaderEnds(i) ==
    /\ ~plug[i].live /\ ~plug[i].garbled
    /\ \E n \in readers[i] : readers' = [readers EXCEPT ![i] = @ \ {n}]
    /\ UNCHANGED <<host, process, msgQueue, decoder, starts, outbound, plug, call, fan, hub>>

\* runPluginOutboundWriter.
WriterTo(i, n, pc) == writer' = [writer EXCEPT ![i][n] = pc]

WriterReceives(i, n) ==
    /\ writer[i][n] = "receive"
    /\ \/ queue[i][n] > 0 /\ queue' = [queue EXCEPT ![i][n] = @ - 1] /\ WriterTo(i, n, "lock")
       \/ queue[i][n] = 0 /\ closed[i][n] /\ WriterTo(i, n, "done") /\ UNCHANGED queue
    /\ UNCHANGED <<host, instance, closed, plug, call, fan, hub>>

WriterLocks(i, n) ==
    /\ writer[i][n] = "lock" /\ ~StdinLocked(i) /\ WriterTo(i, n, "write")
    /\ UNCHANGED <<host, instance, queue, closed, plug, call, fan, hub>>

\* To the stdin the instance has now.
WriterWrites(i, n) ==
    /\ writer[i][n] = "write" /\ CanWrite(i) /\ plug' = Written(i)
    /\ WriterTo(i, n, "receive")
    /\ UNCHANGED <<host, instance, queue, closed, call, fan, hub>>

Writer(i, n) == WriterReceives(i, n) \/ WriterLocks(i, n) \/ WriterWrites(i, n)

----------------------------------------------------------------------------
(* What the hub calls. *)

\* SendMessage, in a goroutine of its own, begins under mu.RLock.
FanOut ==
    /\ fan = None /\ CanRLock /\ plugin # None
    /\ enabled[plugin] /\ process[plugin] /\ fan' = plugin
    /\ UNCHANGED <<host, instance, outbound, plug, call, hub>>

\* enqueuePluginChatMessage under the instance's mutex; a full queue drops.
Enqueue ==
    /\ fan # None /\ ~Locked(fan)
    /\ LET n == msgQueue[fan] IN
       queue' = IF n # 0 /\ queue[fan][n] < QueueCap
                  THEN [queue EXCEPT ![fan][n] = @ + 1] ELSE queue
    /\ fan' = None
    /\ UNCHANGED <<host, instance, closed, writer, plug, call, hub>>

\* UpdateUserList, which Hub.Run calls after it registers or unregisters.
HubUpdates ==
    /\ hub = "elsewhere" /\ hub' = "update"
    /\ UNCHANGED <<host, instance, outbound, plug, call, fan>>

UpdateUserList ==
    /\ hub = "update" /\ CanLock /\ hub' = "elsewhere"
    /\ UNCHANGED <<host, instance, outbound, plug, call, fan>>

----------------------------------------------------------------------------
Command(c) ==
    \/ LoadPlugin(c) \/ UnloadPlugin(c) \/ SetEnabled(c) \/ Lookup(c)
    \/ ExecuteCommand(c) \/ StartPlugin(c) \/ StopPlugin(c)

Next ==
    \/ \E c \in Callers : Begin(c) \/ Command(c)
    \/ \E i \in Instances :
          \/ PluginReads(i) \/ PluginGarbles(i) \/ PluginExits(i)
          \/ ReaderEnds(i) \/ \E n \in Starts : Writer(i, n)
    \/ FanOut \/ Enqueue \/ HubUpdates \/ UpdateUserList

Spec == Init /\ [][Next]_vars

\* Goroutines go on and mutexes are handed over in turn; the timeouts of 5, 2 and
\* 1 s fire.  Nothing is assumed of administrators, of chat, or of the plugin.
Fairness ==
    /\ \A c \in Callers : SF_vars(Command(c))
    /\ \A i \in Instances :
          /\ WF_vars(ReaderEnds(i))
          /\ \A n \in Starts : SF_vars(Writer(i, n))
    /\ SF_vars(Enqueue) /\ SF_vars(UpdateUserList)

FairSpec == Spec /\ Fairness

----------------------------------------------------------------------------
\* The starts of an instance stay apart, whatever starts and stops overlap.  A
\* message is never sent on a closed channel, which would end the server, and no
\* channel is closed twice: the queue of an instance is open, and nobody else is
\* about to close it.  "enable/disable cycles cannot race with a reader that was
\* scheduled late": while a reader runs, the decoder of its start is the instance's.
StartsStayApart ==
    \A i \in Instances :
       /\ msgQueue[i] # 0 =>
             /\ ~closed[i][msgQueue[i]]
             /\ \A c \in Callers : call[c].at = "close" =>
                   <<call[c].inst, call[c].chan>> # <<i, msgQueue[i]>>
       /\ \A n \in readers[i] : decoder[i] = n

\* An instance without a Process, which no later stop would touch, has left no
\* process running.
NothingLeftRunning == \A i \in Instances : ~process[i] => ~plug[i].live

\* Nobody waits for ever, however starts, stops, commands and chat overlap, as
\* long as plugins keep reading their stdin, so that the pipe has room again and
\* again, and write JSON: the hub always comes back from UpdateUserList and every
\* command ends.  No start waits for a stop that waits for it, and no goroutine
\* keeps a mutex.
EverybodyReturns ==
    (\A i \in Instances : []<>CanWrite(i)) =>
        LET broken == \E i \in Instances : plug[i].garbled IN
        []<>(broken \/ (hub = "elsewhere" /\ \A c \in Callers : call[c] = Idle))
=============================================================================
