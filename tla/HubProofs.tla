----------------------------- MODULE HubProofs -----------------------------
(* Proofs about Hub, for any sets of connections, users and rooms and any    *)
(* capacity of the send buffers.                                             *)
EXTENDS Hub, TLAPS

----------------------------------------------------------------------------
(* Type correctness: in particular, no send buffer exceeds its capacity.     *)

LEMMA TypeInit == Init => TypeOK
BY SessionsAssumption, ChannelsAssumption, SendCapAssumption
DEF Init, TypeOK, Waiting, Idle, ServePC, ReaderPC, WriterPC, RunPC, AdminPC

LEMMA TypeStep == TypeOK /\ [Next]_vars => TypeOK'
<1> SUFFICES ASSUME TypeOK, [Next]_vars PROVE TypeOK'
  OBVIOUS
<1> USE SessionsAssumption, ChannelsAssumption, SendCapAssumption, BoundsAssumption
    DEF TypeOK, Waiting, vars, registry, pumps
<1>1. ASSUME NEW s \in Sessions, RejectHandshake(s) PROVE TypeOK'
  BY <1>1 DEF RejectHandshake, ServeTo, Close, ServePC
<1>2. ASSUME NEW s \in Sessions, TryReserveUsername(s) PROVE TypeOK'
  BY <1>2 DEF TryReserveUsername, ServeTo, ServePC
<1>3. ASSUME NEW s \in Sessions, BanCheck(s) PROVE TypeOK'
  BY <1>3 DEF BanCheck, ServeTo, ServePC
<1>4. ASSUME NEW s \in Sessions, RejectBanned(s) PROVE TypeOK'
  BY <1>4 DEF RejectBanned, ServeTo, Close, ServePC
<1>5. ASSUME NEW s \in Sessions, LoadUserChannel(s) PROVE TypeOK'
  <2>1. serve' \in [Sessions -> ServePC]
    BY <1>5 DEF LoadUserChannel, ServeTo, ServePC
  <2>2. channels' \in [Channels -> SUBSET Sessions]
    BY <1>5 DEF LoadUserChannel, Leave
  <2>3. arg' \in [Sessions -> Channels]
    BY <1>5 DEF LoadUserChannel
  <2> QED
    BY <1>5, <2>1, <2>2, <2>3 DEF LoadUserChannel
<1>6. ASSUME NEW s \in Sessions, JoinStored(s) PROVE TypeOK'
  BY <1>6 DEF JoinStored, ServeTo, ServePC, Enter
<1>7. ASSUME NEW s \in Sessions, StartPumps(s) PROVE TypeOK'
  BY <1>7 DEF StartPumps, ServeTo, ServePC, ReaderTo, ReaderPC, WriterPC, TrySend
<1>8. ASSUME NEW s \in Sessions, ReadCommand(s) PROVE TypeOK'
  BY <1>8 DEF ReadCommand, ReaderTo, ReaderPC
<1>9. ASSUME NEW s \in Sessions, ReadRoomMessage(s) PROVE TypeOK'
  BY <1>9 DEF ReadRoomMessage, ReaderTo, ReaderPC, ClientChannel, Rooms
<1>10. ASSUME NEW s \in Sessions, ReadLeaveChannel(s) PROVE TypeOK'
  BY <1>10 DEF ReadLeaveChannel, ReaderTo, ReaderPC, Leave, ClientChannel, Rooms
<1>11. ASSUME NEW s \in Sessions, Reply(s) PROVE TypeOK'
  BY <1>11 DEF Reply, ReaderTo, ReaderPC
<1>12. ASSUME NEW s \in Sessions, JoinChannel(s) PROVE TypeOK'
  BY <1>12 DEF JoinChannel, ReaderTo, ReaderPC, Enter
<1>13. ASSUME NEW s \in Sessions, ReadFails(s) PROVE TypeOK'
  BY <1>13 DEF ReadFails, ReaderTo, ReaderPC
<1>14. ASSUME NEW s \in Sessions, ReaderCloses(s) PROVE TypeOK'
  BY <1>14 DEF ReaderCloses, ReaderTo, ReaderPC, Close
<1>15. ASSUME NEW s \in Sessions, WriteMessage(s) PROVE TypeOK'
  BY <1>15 DEF WriteMessage
<1>16. ASSUME NEW s \in Sessions, PeerCloses(s) PROVE TypeOK'
  BY <1>16 DEF PeerCloses, Close
<1>17. ASSUME NEW s \in Sessions, RecvRegister(s) PROVE TypeOK'
  BY <1>17 DEF RecvRegister, ServeTo, ServePC, RunPC
<1>18. ASSUME NEW s \in Sessions, RecvUnregister(s) PROVE TypeOK'
  BY <1>18 DEF RecvUnregister, ReaderTo, ReaderPC, RunPC
<1>19. ASSUME NEW s \in Sessions, RunBroadcast(s) PROVE TypeOK'
  BY <1>19, SMTT(30) DEF RunBroadcast, Broadcast, ReaderTo, ReaderPC, TrySend, RemoveClients, Close
<1>20. ASSUME NEW s \in Sessions, NEW u \in Users, ReadDM(s, u) PROVE TypeOK'
  BY <1>20 DEF ReadDM, TrySend
<1>21. ASSUME NEW s \in Sessions, NEW c \in Channels, ReadJoinChannel(s, c) PROVE TypeOK'
  BY <1>21 DEF ReadJoinChannel, ReaderTo, ReaderPC, Leave, ClientChannel, Rooms
<1>22. ASSUME NEW s \in Sessions, WriteFails(s) PROVE TypeOK'
  <2>1. send' \in [Sessions -> 0..SendCap]
    BY <1>22 DEF WriteFails
  <2>2. writer' \in [Sessions -> WriterPC]
    BY <1>22 DEF WriteFails, WriterPC
  <2> QED
    BY <1>22, <2>1, <2>2 DEF WriteFails
<1>23. CASE RunRegister
  BY <1>23 DEF RunRegister, TrySend, RunPC
<1>24. CASE RunJoinGeneral
  BY <1>24 DEF RunJoinGeneral, Enter, RunPC
<1>25. CASE RunUnregister
  BY <1>25 DEF RunUnregister, RemoveClients, RunPC
<1>26. CASE RunLeaveAll
  BY <1>26 DEF RunLeaveAll, TrySend, RunPC
<1>27. CASE RunBroadcastAll
  BY <1>27 DEF RunBroadcastAll, Broadcast, TrySend, RemoveClients, Close
<1>28. CASE KickLookup
  BY <1>28 DEF KickLookup, AdminPC, Idle
<1>29. CASE RecordKick
  <2>1. CASE admin' = Idle /\ UNCHANGED banned
    BY <1>29, <2>1 DEF RecordKick, AdminPC, Idle
  <2>2. CASE /\ banned' = banned \cup {admin.user}
             /\ admin' = [admin EXCEPT !.at = "disconnect"]
    <3>1. admin' \in [at : AdminPC, user : Users, target : Sessions \cup {NoSession}]
      BY <2>2 DEF AdminPC
    <3>2. banned' \subseteq Users
      BY <2>2
    <3> QED
      BY <1>29, <3>1, <3>2 DEF RecordKick
  <2> QED
    BY <1>29, <2>1, <2>2 DEF RecordKick
<1>30. CASE DisconnectClient
  <2>1. admin' = Idle /\ Idle \in [at : AdminPC, user : Users, target : Sessions \cup {NoSession}]
    BY <1>30 DEF DisconnectClient, Idle, AdminPC
  <2>2. send' \in [Sessions -> 0..SendCap]
    BY <1>30 DEF DisconnectClient, TrySend
  <2>3. open' \in [Sessions -> BOOLEAN]
    BY <1>30 DEF DisconnectClient, Close
  <2> QED
    BY <1>30, <2>1, <2>2, <2>3 DEF DisconnectClient
<1>31. CASE ForceClose
  <2>1. admin' = Idle /\ Idle \in [at : AdminPC, user : Users, target : Sessions \cup {NoSession}]
    BY <1>31 DEF ForceClose, Idle, AdminPC
  <2>2. send' \in [Sessions -> 0..SendCap]
    BY <1>31 DEF ForceClose, TrySend
  <2>3. open' \in [Sessions -> BOOLEAN]
    BY <1>31 DEF ForceClose, Close
  <2> QED
    BY <1>31, <2>1, <2>2, <2>3 DEF ForceClose
<1>32. CASE SweepPing
  BY <1>32 DEF SweepPing
<1>33. CASE SweepRemove
  BY <1>33 DEF SweepRemove, RemoveClients, Close, TrySend
<1>34. ASSUME NEW u \in Users, BanUser(u) PROVE TypeOK'
  BY <1>34 DEF BanUser, AdminPC
<1>35. ASSUME NEW u \in Users, KickUser(u) PROVE TypeOK'
  BY <1>35 DEF KickUser, AdminPC
<1>36. ASSUME NEW u \in Users, LiftBan(u) PROVE TypeOK'
  BY <1>36 DEF LiftBan
<1>37. ASSUME NEW s \in Sessions, ReadAddressedMessage(s) \/ RunForward(s) PROVE TypeOK'
  <2>1. CASE ReadAddressedMessage(s)
    BY <1>37, <2>1 DEF ReadAddressedMessage, ReaderTo, ReaderPC
  <2>2. CASE RunForward(s)
    <3>1. reader' \in [Sessions -> ReaderPC]
      BY <2>2 DEF RunForward, ReaderTo, ReaderPC
    <3>2. PICK To : To \in {clients} \cup {clients \cap channels[c] : c \in Channels} /\ Broadcast(To)
      BY <2>2 DEF RunForward
    <3>3. /\ clients' \subseteq Sessions /\ usernames' \subseteq Users
          /\ clientsByUsername' \in [Users -> Sessions \cup {NoSession}]
      BY <3>2 DEF Broadcast, RemoveClients
    <3>4. send' \in [Sessions -> 0..SendCap]
      BY <3>2 DEF Broadcast, TrySend
    <3>5. open' \in [Sessions -> BOOLEAN]
      BY <3>2 DEF Broadcast, Close
    <3>. QED
      BY <2>2, <3>1, <3>3, <3>4, <3>5 DEF RunForward
  <2>. QED
    BY <1>37, <2>1, <2>2
<1>38. ASSUME NEW u \in Users, ForceDisconnectUser(u) PROVE TypeOK'
  BY <1>38 DEF ForceDisconnectUser, RemoveClients, AdminPC
<1>39. CASE UNCHANGED vars
  BY <1>39
<1> QED
  BY <1>1, <1>2, <1>3, <1>4, <1>5, <1>6, <1>7, <1>8, <1>9, <1>10, <1>11, <1>12, <1>13,
     <1>14, <1>15, <1>16, <1>17, <1>18, <1>19, <1>20, <1>21, <1>22, <1>23, <1>24, <1>25, <1>26,
     <1>27, <1>28, <1>29, <1>30, <1>31, <1>32, <1>33, <1>34, <1>35, <1>36, <1>37, <1>38, <1>39
  DEF Next, Run, Moderate, Sweep, ServeWs, ReadPump, ReadMessage, WritePump

\* Every variable of the hub keeps its type, whatever the hub, the handlers, the
\* pumps, the moderation calls and the sweep do.
THEOREM TypeCorrect == Spec => []TypeOK
BY TypeInit, TypeStep, PTL DEF Spec

----------------------------------------------------------------------------
(* Names.  NamesHeldOnce is not inductive alone: that releasing the names of *)
(* removed clients takes no name from another connection rests on the index  *)
(* and on where the handlers of registered clients are.                      *)

\* A connection the hub knows has passed its handshake, and the one being
\* registered is not registered yet.
HandlersAgree ==
    \A s \in Sessions :
        /\ s \in clients \/ Running("add", s) => serve[s] \in {"load", "place", "start", "done"}
        /\ Running("add", s) => s \notin clients

Names == NamesHeldOnce /\ IndexAgrees /\ HandlersAgree

LEMMA NamesInit == Init => Names
BY SessionsAssumption
DEF Init, Names, NamesHeldOnce, IndexAgrees, HandlersAgree, Holds, Running, Waiting

\* A step that leaves the registry alone and entitles nobody else keeps Names.
LEMMA NamesKept ==
    ASSUME Names, UNCHANGED registry, \A s \in Sessions : Holds(s)' <=> Holds(s),
           HandlersAgree'
    PROVE  Names'
BY DEF Names, NamesHeldOnce, IndexAgrees, registry

\* ... and so does one that moves neither a handler nor the hub to or from "add".
LEMMA NamesUntouched ==
    ASSUME Names, UNCHANGED registry, UNCHANGED serve,
           \A s \in Sessions : Running("add", s)' <=> Running("add", s)
    PROVE  Names'
<1>1. HandlersAgree'
  BY DEF Names, HandlersAgree, registry
<1>2. \A s \in Sessions : Holds(s)' <=> Holds(s)
  BY DEF Holds, registry
<1> QED
  BY <1>1, <1>2, NamesKept

\* Removing registered clients releases their names and nobody else's.
LEMMA NamesRemoved ==
    ASSUME TypeOK, Names, NEW S \in SUBSET clients, RemoveClients(S), UNCHANGED serve,
           \A s \in Sessions : Running("add", s)' <=> Running("add", s)
    PROVE  Names'
<1> USE SessionsAssumption
<1>1. S \subseteq Sessions
  BY DEF TypeOK
<1>2. \A s \in Sessions : Holds(s)' <=> Holds(s) /\ s \notin S
  BY DEF Holds, RemoveClients, Names, HandlersAgree
<1>3. HandlersAgree'
  BY DEF Names, HandlersAgree, RemoveClients
<1>4. IndexAgrees'
  BY <1>1 DEF Names, IndexAgrees, RemoveClients, TypeOK
<1>5. NamesHeldOnce'
  <2>1. \A s \in S : Holds(s)
    BY DEF Holds
  <2>2. \A s, t \in Sessions :
           Holds(s)' /\ Holds(t)' /\ UserOf[s] = UserOf[t] => s = t
    BY <1>2 DEF Names, NamesHeldOnce
  <2>3. usernames' = {UserOf[s] : s \in {t \in Sessions : Holds(t)}} \ {UserOf[s] : s \in S}
    BY DEF RemoveClients, Names, NamesHeldOnce
  <2>4. usernames' = {UserOf[s] : s \in {t \in Sessions : Holds(t) /\ t \notin S}}
    BY <1>1, <2>1, <2>3 DEF Names, NamesHeldOnce
  <2>5. usernames' = {UserOf[s] : s \in {t \in Sessions : Holds(t)'}}
    BY <1>2, <2>4
  <2> QED
    BY <2>2, <2>5 DEF NamesHeldOnce
<1> QED
  BY <1>3, <1>4, <1>5 DEF Names

LEMMA NamesStep == TypeOK /\ Names /\ [Next]_vars => Names'
<1> SUFFICES ASSUME TypeOK, Names, [Next]_vars PROVE Names'
  OBVIOUS
<1>1. ASSUME NEW s \in Sessions, ReadCommand(s) PROVE Names'
  BY <1>1, NamesUntouched DEF ReadCommand, Running
<1>2. ASSUME NEW s \in Sessions, ReadRoomMessage(s) PROVE Names'
  BY <1>2, NamesUntouched DEF ReadRoomMessage, Running
<1>3. ASSUME NEW s \in Sessions, ReadLeaveChannel(s) PROVE Names'
  BY <1>3, NamesUntouched DEF ReadLeaveChannel, Running
<1>4. ASSUME NEW s \in Sessions, Reply(s) PROVE Names'
  BY <1>4, NamesUntouched DEF Reply, Running
<1>5. ASSUME NEW s \in Sessions, JoinChannel(s) PROVE Names'
  BY <1>5, NamesUntouched DEF JoinChannel, Running
<1>6. ASSUME NEW s \in Sessions, ReadFails(s) PROVE Names'
  BY <1>6, NamesUntouched DEF ReadFails, Running
<1>7. ASSUME NEW s \in Sessions, ReaderCloses(s) PROVE Names'
  BY <1>7, NamesUntouched DEF ReaderCloses, Running
<1>8. ASSUME NEW s \in Sessions, WriteMessage(s) PROVE Names'
  BY <1>8, NamesUntouched DEF WriteMessage, Running
<1>9. ASSUME NEW s \in Sessions, WriteFails(s) PROVE Names'
  BY <1>9, NamesUntouched DEF WriteFails, Running
<1>10. ASSUME NEW s \in Sessions, PeerCloses(s) PROVE Names'
  BY <1>10, NamesUntouched DEF PeerCloses, Running
<1>11. ASSUME NEW s \in Sessions, RecvUnregister(s) PROVE Names'
  BY <1>11, NamesUntouched DEF RecvUnregister, Running, Waiting
<1>12. ASSUME NEW s \in Sessions, NEW u \in Users, ReadDM(s, u) PROVE Names'
  BY <1>12, NamesUntouched DEF ReadDM, Running
<1>13. ASSUME NEW s \in Sessions, NEW c \in Channels, ReadJoinChannel(s, c) PROVE Names'
  BY <1>13, NamesUntouched DEF ReadJoinChannel, Running
<1>14. CASE RunJoinGeneral
  BY <1>14, NamesUntouched DEF RunJoinGeneral, Running, Waiting
<1>15. CASE RunLeaveAll
  BY <1>15, NamesUntouched DEF RunLeaveAll, Running, Waiting
<1>16. CASE KickLookup
  BY <1>16, NamesUntouched DEF KickLookup, Running
<1>17. CASE RecordKick
  BY <1>17, NamesUntouched DEF RecordKick, Running
<1>18. CASE DisconnectClient
  BY <1>18, NamesUntouched DEF DisconnectClient, Running
<1>19. CASE ForceClose
  BY <1>19, NamesUntouched DEF ForceClose, Running
<1>20. CASE SweepPing
  BY <1>20, NamesUntouched DEF SweepPing, Running
<1>21. ASSUME NEW u \in Users, BanUser(u) PROVE Names'
  BY <1>21, NamesUntouched DEF BanUser, Running
<1>22. ASSUME NEW u \in Users, KickUser(u) PROVE Names'
  BY <1>22, NamesUntouched DEF KickUser, Running
<1>23. ASSUME NEW u \in Users, LiftBan(u) PROVE Names'
  BY <1>23, NamesUntouched DEF LiftBan, Running
<1>24. ASSUME NEW s \in Sessions, ReadAddressedMessage(s) \/ RunForward(s) PROVE Names'
  <2>1. CASE ReadAddressedMessage(s)
    BY <2>1, NamesUntouched DEF ReadAddressedMessage, Running
  <2>2. CASE RunForward(s)
    <3>1. PICK To \in {clients} \cup {clients \cap channels[c] : c \in Channels} : Broadcast(To)
      BY <2>2 DEF RunForward
    <3>. DEFINE S == {r \in To : send[r] = SendCap}
    <3>2. S \subseteq clients /\ RemoveClients(S) /\ UNCHANGED serve
      BY <2>2, <3>1 DEF Broadcast, RunForward
    <3>3. \A t \in Sessions : Running("add", t)' <=> Running("add", t)
      BY <2>2 DEF RunForward, Running, Waiting
    <3>. HIDE DEF S
    <3>. QED
      BY <3>2, <3>3, NamesRemoved
  <2>. QED
    BY <1>24, <2>1, <2>2
<1>25. CASE UNCHANGED vars
  BY <1>25, NamesUntouched DEF vars, Running
<1>26. ASSUME NEW s \in Sessions, RejectHandshake(s) PROVE Names'
  <2>1. \A t \in Sessions : Holds(t)' <=> Holds(t)
    BY <1>26 DEF RejectHandshake, ServeTo, Holds, Running, TypeOK, registry
  <2>2. HandlersAgree'
    BY <1>26 DEF RejectHandshake, ServeTo, HandlersAgree, Names, Running, TypeOK, registry
  <2> QED
    BY <1>26, <2>1, <2>2, NamesKept DEF RejectHandshake
<1>27. ASSUME NEW s \in Sessions, BanCheck(s) PROVE Names'
  <2>1. \A t \in Sessions : Holds(t)' <=> Holds(t)
    BY <1>27 DEF BanCheck, ServeTo, Holds, Running, TypeOK, registry
  <2>2. HandlersAgree'
    BY <1>27 DEF BanCheck, ServeTo, HandlersAgree, Names, Running, TypeOK, registry
  <2> QED
    BY <1>27, <2>1, <2>2, NamesKept DEF BanCheck
<1>28. ASSUME NEW s \in Sessions, LoadUserChannel(s) PROVE Names'
  <2>1. \A t \in Sessions : Holds(t)' <=> Holds(t)
    BY <1>28 DEF LoadUserChannel, ServeTo, Holds, Running, TypeOK, registry
  <2>2. HandlersAgree'
    BY <1>28 DEF LoadUserChannel, ServeTo, HandlersAgree, Names, Running, TypeOK, registry
  <2> QED
    BY <1>28, <2>1, <2>2, NamesKept DEF LoadUserChannel
<1>29. ASSUME NEW s \in Sessions, JoinStored(s) PROVE Names'
  <2>1. \A t \in Sessions : Holds(t)' <=> Holds(t)
    BY <1>29 DEF JoinStored, ServeTo, Holds, Running, TypeOK, registry
  <2>2. HandlersAgree'
    BY <1>29 DEF JoinStored, ServeTo, HandlersAgree, Names, Running, TypeOK, registry
  <2> QED
    BY <1>29, <2>1, <2>2, NamesKept DEF JoinStored
<1>30. ASSUME NEW s \in Sessions, StartPumps(s) PROVE Names'
  <2>1. \A t \in Sessions : Holds(t)' <=> Holds(t)
    BY <1>30 DEF StartPumps, ServeTo, Holds, Running, TypeOK, registry
  <2>2. HandlersAgree'
    BY <1>30 DEF StartPumps, ServeTo, HandlersAgree, Names, Running, TypeOK, registry
  <2> QED
    BY <1>30, <2>1, <2>2, NamesKept DEF StartPumps
<1>31. ASSUME NEW s \in Sessions, RecvRegister(s) PROVE Names'
  <2>1. \A t \in Sessions : Holds(t)' <=> Holds(t)
    BY <1>31 DEF RecvRegister, ServeTo, Holds, Running, TypeOK, registry, Waiting
  <2>2. HandlersAgree'
    BY <1>31 DEF RecvRegister, ServeTo, HandlersAgree, Names, Running, TypeOK, registry, Waiting
  <2> QED
    BY <1>31, <2>1, <2>2, NamesKept DEF RecvRegister
<1>32. ASSUME NEW s \in Sessions, TryReserveUsername(s) PROVE Names'
  <2>1. \A t \in Sessions : Holds(t)' <=> Holds(t) \/ t = s
    BY <1>32 DEF TryReserveUsername, ServeTo, Holds, Running, TypeOK
  <2>2. HandlersAgree' /\ IndexAgrees'
    BY <1>32 DEF TryReserveUsername, ServeTo, HandlersAgree, IndexAgrees, Names, Running, TypeOK
  <2>3. NamesHeldOnce'
    BY <1>32, <2>1 DEF TryReserveUsername, Names, NamesHeldOnce
  <2> QED
    BY <2>2, <2>3 DEF Names
<1>33. ASSUME NEW s \in Sessions, RejectBanned(s) PROVE Names'
  <2>1. Holds(s) /\ s \notin clients /\ ~Running("add", s)
    BY <1>33 DEF RejectBanned, Holds, Names, HandlersAgree
  <2>2. \A t \in Sessions : Holds(t)' <=> Holds(t) /\ t # s
    BY <1>33, <2>1 DEF RejectBanned, ServeTo, Holds, Running, TypeOK
  <2>3. HandlersAgree' /\ IndexAgrees'
    BY <1>33 DEF RejectBanned, ServeTo, HandlersAgree, IndexAgrees, Names, Running, TypeOK
  <2>4. NamesHeldOnce'
    BY <1>33, <2>1, <2>2 DEF RejectBanned, Names, NamesHeldOnce
  <2> QED
    BY <2>3, <2>4 DEF Names
<1>34. CASE RunRegister
  <2> DEFINE c == run.client
  <2>1. c \in Sessions /\ Running("add", c) /\ c \notin clients
    BY <1>34 DEF RunRegister, Running, TypeOK, Waiting, Names, HandlersAgree
  <2>2. \A t \in Sessions : Holds(t)' <=> Holds(t)
    BY <1>34, <2>1 DEF RunRegister, Holds, Running, TypeOK, Waiting
  <2>3. HandlersAgree'
    BY <1>34, <2>1 DEF RunRegister, HandlersAgree, Names, Running, TypeOK, Waiting
  <2>4. NamesHeldOnce'
    BY <1>34, <2>2 DEF RunRegister, Names, NamesHeldOnce
  <2>5. \A t \in clients : UserOf[t] # UserOf[c]
    BY <2>1 DEF Names, NamesHeldOnce, Holds, TypeOK
  <2>6. IndexAgrees'
    BY <1>34, <2>1, <2>5, SessionsAssumption DEF RunRegister, IndexAgrees, Names, TypeOK
  <2> QED
    BY <2>3, <2>4, <2>6 DEF Names
<1>35. ASSUME NEW s \in Sessions, RunBroadcast(s) PROVE Names'
  <2> DEFINE S == {r \in clients \cap channels[arg[s]] : send[r] = SendCap}
  <2>1. S \subseteq clients /\ RemoveClients(S) /\ UNCHANGED serve
    BY <1>35 DEF Broadcast, RunBroadcast
  <2>2. \A t \in Sessions : Running("add", t)' <=> Running("add", t)
    BY <1>35 DEF RunBroadcast, Running, Waiting
  <2> HIDE DEF S
  <2> QED
    BY <2>1, <2>2, NamesRemoved
<1>36. CASE RunBroadcastAll
  <2> DEFINE S == {r \in clients : send[r] = SendCap}
  <2>1. S \subseteq clients /\ RemoveClients(S) /\ UNCHANGED serve
    BY <1>36 DEF Broadcast, RunBroadcastAll
  <2>2. \A t \in Sessions : Running("add", t)' <=> Running("add", t)
    BY <1>36 DEF RunBroadcastAll, Running, Waiting
  <2> HIDE DEF S
  <2> QED
    BY <2>1, <2>2, NamesRemoved
<1>37. CASE RunUnregister
  <2> DEFINE S == clients \cap {run.client}
  <2>1. S \subseteq clients /\ RemoveClients(S) /\ UNCHANGED serve
    BY <1>37 DEF RunUnregister
  <2>2. \A t \in Sessions : Running("add", t)' <=> Running("add", t)
    BY <1>37 DEF RunUnregister, Running, Waiting
  <2> HIDE DEF S
  <2> QED
    BY <2>1, <2>2, NamesRemoved
<1>38. CASE SweepRemove
  <2> DEFINE S == stale \cap clients
  <2>1. S \subseteq clients /\ RemoveClients(S) /\ UNCHANGED serve
    BY <1>38 DEF SweepRemove
  <2>2. \A t \in Sessions : Running("add", t)' <=> Running("add", t)
    BY <1>38 DEF SweepRemove, Running, Waiting
  <2> HIDE DEF S
  <2> QED
    BY <2>1, <2>2, NamesRemoved
<1>39. ASSUME NEW u \in Users, ForceDisconnectUser(u) PROVE Names'
  <2> DEFINE S == {clientsByUsername[u]}
  <2>1. S \subseteq clients /\ RemoveClients(S) /\ UNCHANGED serve
    BY <1>39 DEF Names, IndexAgrees, TypeOK, ForceDisconnectUser
  <2>2. \A t \in Sessions : Running("add", t)' <=> Running("add", t)
    BY <1>39 DEF ForceDisconnectUser, Running, Waiting
  <2> HIDE DEF S
  <2> QED
    BY <2>1, <2>2, NamesRemoved
<1> QED
  BY <1>1, <1>2, <1>3, <1>4, <1>5, <1>6, <1>7, <1>8, <1>9, <1>10, <1>11, <1>12, <1>13,
     <1>14, <1>15, <1>16, <1>17, <1>18, <1>19, <1>20, <1>21, <1>22, <1>23, <1>24, <1>25, <1>26,
     <1>27, <1>28, <1>29, <1>30, <1>31, <1>32, <1>33, <1>34, <1>35, <1>36, <1>37, <1>38, <1>39,
     BoundsAssumption
  DEF Next, Run, Moderate, Sweep, ServeWs, ReadPump, ReadMessage, WritePump

\* No name is ever held by two connections, and none stays reserved without a
\* holder or is held without being reserved.
THEOREM NamesAreHeldOnce == Spec => []NamesHeldOnce
<1>1. Init => TypeOK /\ Names
  BY TypeInit, NamesInit
<1>2. TypeOK /\ Names /\ [Next]_vars => TypeOK' /\ Names'
  BY TypeStep, NamesStep
<1>3. Names => NamesHeldOnce
  BY DEF Names
<1> QED
  BY <1>1, <1>2, <1>3, PTL DEF Spec

\* The index by name always lists exactly the registered clients.
THEOREM IndexIsExact == Spec => []IndexAgrees
<1>1. Init => TypeOK /\ Names
  BY TypeInit, NamesInit
<1>2. TypeOK /\ Names /\ [Next]_vars => TypeOK' /\ Names'
  BY TypeStep, NamesStep
<1>3. Names => IndexAgrees
  BY DEF Names
<1> QED
  BY <1>1, <1>2, <1>3, PTL DEF Spec

----------------------------------------------------------------------------
(* Whose socket is closed, who is in a room, and where a message is heard:  *)
(* the kinds of steps that matter.                                          *)

\* A readPump goes on, by itself or because the hub takes its message.
ReaderMoves(s) ==
    \/ ReadCommand(s) \/ ReadAddressedMessage(s) \/ ReadRoomMessage(s) \/ ReadLeaveChannel(s)
    \/ \E c \in Channels : ReadJoinChannel(s, c)
    \/ Reply(s) \/ JoinChannel(s) \/ ReadFails(s) \/ RunBroadcast(s) \/ RunForward(s)

Runs == RunRegister \/ RunJoinGeneral \/ RunUnregister \/ RunLeaveAll

LEMMA KindsOfSteps ==
    ASSUME [Next]_vars
    PROVE  \/ UNCHANGED <<serve, reader, arg, channels, run>>
           \/ Runs
           \/ \E s \in Sessions : ServeWs(s) \/ ReaderMoves(s) \/ RecvRegister(s)
                                  \/ RecvUnregister(s) \/ ReaderCloses(s)
<1>1. CASE Moderate
  BY <1>1 DEF Moderate, BanUser, KickUser, LiftBan, ForceDisconnectUser, KickLookup,
     RecordKick, DisconnectClient, ForceClose, pumps
<1>2. CASE Sweep
  BY <1>2 DEF Sweep, SweepPing, SweepRemove, pumps
<1>3. ASSUME NEW s \in Sessions, WritePump(s) \/ PeerCloses(s)
      PROVE  UNCHANGED <<serve, reader, arg, channels, run>>
  BY <1>3 DEF WritePump, WriteMessage, WriteFails, PeerCloses, pumps
<1>4. ASSUME NEW s \in Sessions, NEW u \in Users, ReadDM(s, u)
      PROVE  UNCHANGED <<serve, reader, arg, channels, run>>
  BY <1>4 DEF ReadDM, pumps
<1>5. CASE RunBroadcastAll
  BY <1>5 DEF RunBroadcastAll, pumps
<1>6. CASE UNCHANGED vars
  BY <1>6 DEF vars, pumps
<1>. QED
  BY <1>1, <1>2, <1>3, <1>4, <1>5, <1>6 DEF Next, Run, Runs, ReadPump, ReadMessage, ReaderMoves

\* What a step of s, or of the hub for s, leaves alone.
OnlyOf(s) ==
    \A t \in Sessions \ {s} :
        /\ serve'[t] = serve[t] /\ reader'[t] = reader[t] /\ arg'[t] = arg[t]
        /\ \A c \in Channels : t \in channels'[c] <=> t \in channels[c]

LEMMA ConnectionSteps ==
    ASSUME TypeOK, NEW s \in Sessions,
           ServeWs(s) \/ ReaderMoves(s) \/ RecvRegister(s) \/ RecvUnregister(s) \/ ReaderCloses(s)
    PROVE  OnlyOf(s)
<1>. USE DEF TypeOK, OnlyOf, pumps
<1>1. CASE ServeWs(s)
  <2>1. CASE LoadUserChannel(s) \/ JoinStored(s)
    BY <2>1 DEF LoadUserChannel, JoinStored, ServeTo, Enter, Leave
  <2>2. CASE ~LoadUserChannel(s) /\ ~JoinStored(s)
    <3>1. channels' = channels /\ arg' = arg
      BY <1>1, <2>2 DEF ServeWs, RejectHandshake, TryReserveUsername, BanCheck, RejectBanned,
         StartPumps
    <3>2. \A t \in Sessions \ {s} : serve'[t] = serve[t] /\ reader'[t] = reader[t]
      BY <1>1, <2>2 DEF ServeWs, RejectHandshake, TryReserveUsername, BanCheck, RejectBanned,
         StartPumps, ServeTo, ReaderTo
    <3>. QED
      BY <3>1, <3>2
  <2>. QED
    BY <2>1, <2>2
<1>2. CASE ReadCommand(s) \/ ReadAddressedMessage(s) \/ ReadRoomMessage(s) \/ Reply(s)
           \/ ReadFails(s) \/ RunBroadcast(s) \/ RunForward(s)
  <2>1. channels' = channels /\ serve' = serve
    BY <1>2 DEF ReadCommand, ReadAddressedMessage, ReadRoomMessage, Reply, ReadFails,
       RunBroadcast, RunForward
  <2>2. \A t \in Sessions \ {s} : reader'[t] = reader[t] /\ arg'[t] = arg[t]
    BY <1>2 DEF ReadCommand, ReadAddressedMessage, ReadRoomMessage, Reply, ReadFails,
       RunBroadcast, RunForward, ReaderTo
  <2>. QED
    BY <2>1, <2>2
<1>3. CASE ReadLeaveChannel(s) \/ JoinChannel(s) \/ \E c \in Channels : ReadJoinChannel(s, c)
  <2>1. serve' = serve /\ \A t \in Sessions \ {s} : reader'[t] = reader[t] /\ arg'[t] = arg[t]
    BY <1>3 DEF ReadLeaveChannel, JoinChannel, ReadJoinChannel, ReaderTo
  <2>2. \A t \in Sessions \ {s}, c \in Channels : t \in channels'[c] <=> t \in channels[c]
    <3>1. \/ UNCHANGED channels
          \/ \E c \in Channels : Enter(s, c) \/ Leave(s, c)
      BY <1>3, ChannelsAssumption
      DEF ReadLeaveChannel, JoinChannel, ReadJoinChannel, ClientChannel, Rooms
    <3>. QED
      BY <3>1 DEF Enter, Leave
  <2>. QED
    BY <2>1, <2>2
<1>4. CASE RecvRegister(s) \/ RecvUnregister(s) \/ ReaderCloses(s)
  BY <1>4 DEF RecvRegister, RecvUnregister, ReaderCloses, ServeTo, ReaderTo
<1>. QED
  BY <1>1, <1>2, <1>3, <1>4 DEF ReaderMoves

LEMMA HubSteps ==
    ASSUME TypeOK, Runs
    PROVE  /\ run.client \in Sessions /\ run.at \in {"add", "join", "remove", "leaveAll"}
           /\ UNCHANGED <<serve, reader, arg>>
           /\ \A t \in Sessions \ {run.client}, c \in Channels :
                 t \in channels'[c] <=> t \in channels[c]
           /\ RunRegister => run' = [run EXCEPT !.at = "join"] /\ channels' = channels
           /\ RunUnregister => run' = [run EXCEPT !.at = "leaveAll"] /\ channels' = channels
           /\ RunJoinGeneral \/ RunLeaveAll => run' = Waiting
BY DEF TypeOK, Runs, RunRegister, RunJoinGeneral, RunUnregister, RunLeaveAll, Waiting, pumps, Enter, RunPC

----------------------------------------------------------------------------
(* The hub and the pumps.                                                   *)

Coming(s) == Running("add", s) \/ Running("join", s)

\* A readPump runs once its handler is done; the hub is not adding a connection
\* whose readPump has given up, and removes none but such a one.
PumpsAgree ==
    \A s \in Sessions :
        /\ serve[s] # "done" => reader[s] = "off"
        /\ Coming(s) => reader[s] \notin {"close", "done"}
        /\ Running("remove", s) \/ Running("leaveAll", s) => reader[s] \in {"close", "done"}

LEMMA PumpsStep == TypeOK /\ PumpsAgree /\ [Next]_vars => PumpsAgree'
<1>. SUFFICES ASSUME TypeOK, PumpsAgree, [Next]_vars PROVE PumpsAgree'
  OBVIOUS
<1>. USE DEF PumpsAgree, Coming, Running
<1>1. CASE UNCHANGED <<serve, reader, arg, channels, run>>
  BY <1>1
<1>2. CASE Runs
  BY <1>2, HubSteps DEF Runs, RunRegister, RunUnregister, Waiting, TypeOK
<1>3. ASSUME NEW s \in Sessions, ServeWs(s)
      PROVE  PumpsAgree'
  <2>1. OnlyOf(s) /\ run' = run
    BY <1>3, ConnectionSteps DEF ServeWs, RejectHandshake, TryReserveUsername, BanCheck,
       RejectBanned, LoadUserChannel, JoinStored, StartPumps
  <2>2. serve[s] # "done"
    BY <1>3 DEF ServeWs, RejectHandshake, TryReserveUsername, BanCheck,
       RejectBanned, LoadUserChannel, JoinStored, StartPumps
  <2>3. reader'[s] = "off" \/ (serve'[s] = "done" /\ reader'[s] = "read")
    BY <1>3, <2>2 DEF ServeWs, RejectHandshake, TryReserveUsername, BanCheck,
       RejectBanned, LoadUserChannel, JoinStored, StartPumps, ServeTo, ReaderTo, pumps, TypeOK
  <2>. QED
    BY <2>1, <2>2, <2>3 DEF OnlyOf
<1>4. ASSUME NEW s \in Sessions, ReaderMoves(s)
      PROVE  PumpsAgree'
  <2>1. OnlyOf(s) /\ run' = run /\ serve' = serve
    BY <1>4, ConnectionSteps DEF ReaderMoves, ReadCommand, ReadAddressedMessage, ReadRoomMessage, ReadLeaveChannel,
       ReadJoinChannel, Reply, JoinChannel, ReadFails, RunBroadcast, RunForward
  <2>2. reader[s] \notin {"off", "close", "done"} /\ reader'[s] \notin {"off", "close", "done"}
    BY <1>4 DEF ReaderMoves, ReadCommand, ReadAddressedMessage, ReadRoomMessage, ReadLeaveChannel,
       ReadJoinChannel, Reply, JoinChannel, ReadFails, RunBroadcast, RunForward, ReaderTo, TypeOK
  <2>. QED
    BY <2>1, <2>2 DEF OnlyOf
<1>5. ASSUME NEW s \in Sessions, RecvRegister(s)
      PROVE  PumpsAgree'
  BY <1>5 DEF RecvRegister, ServeTo, Waiting, pumps, TypeOK
<1>6. ASSUME NEW s \in Sessions, RecvUnregister(s)
      PROVE  PumpsAgree'
  BY <1>6 DEF RecvUnregister, ReaderTo, Waiting, TypeOK
<1>7. ASSUME NEW s \in Sessions, ReaderCloses(s)
      PROVE  PumpsAgree'
  BY <1>7 DEF ReaderCloses, ReaderTo, TypeOK
<1>. QED
  BY <1>1, <1>2, <1>3, <1>4, <1>5, <1>6, <1>7, KindsOfSteps

LEMMA PumpsInit == Init => PumpsAgree
BY DEF Init, PumpsAgree, Coming, Running, Waiting

----------------------------------------------------------------------------
(* Rooms do not keep ghosts.                                                *)

LEMMA GhostsStep == TypeOK /\ PumpsAgree /\ NoGhostMembers /\ [Next]_vars => NoGhostMembers'
<1>. SUFFICES ASSUME TypeOK, PumpsAgree, NoGhostMembers, [Next]_vars,
                     NEW c \in Channels, NEW t \in channels'[c], reader'[t] \in {"close", "done"}
              PROVE  run'.client = t /\ run'.at \in {"remove", "leaveAll"}
  BY DEF NoGhostMembers, Running
<1>0. t \in Sessions
  BY TypeStep DEF TypeOK
<1>. USE DEF Running
<1>1. CASE UNCHANGED <<serve, reader, arg, channels, run>>
  BY <1>1 DEF NoGhostMembers
<1>2. CASE RunRegister \/ RunJoinGeneral
  <2>1. reader' = reader /\ run.at \in {"add", "join"} /\ run.client \in Sessions
    BY <1>2, HubSteps DEF Runs, RunRegister, RunJoinGeneral
  <2>2. t # run.client
    BY <1>0, <2>1 DEF PumpsAgree, Coming
  <2>3. t \in channels[c]
    BY <1>0, <1>2, <2>2, HubSteps DEF Runs
  <2>. QED
    BY <1>0, <2>1, <2>3 DEF NoGhostMembers
<1>3. CASE RunUnregister \/ RunLeaveAll
  <2>1. CASE RunUnregister
    <3>1. reader' = reader /\ run' = [run EXCEPT !.at = "leaveAll"] /\ channels' = channels
      BY <2>1, HubSteps DEF Runs
    <3>2. run'.client = run.client /\ run'.at = "leaveAll" /\ run.at = "remove"
      BY <2>1, <3>1 DEF RunUnregister, TypeOK, Waiting
    <3>. QED
      BY <1>0, <3>1, <3>2 DEF NoGhostMembers
  <2>2. CASE RunLeaveAll
    <3>1. reader' = reader /\ t # run.client /\ t \in channels[c]
      BY <2>2, HubSteps DEF Runs, RunLeaveAll, TypeOK
    <3>. QED
      BY <1>0, <3>1 DEF NoGhostMembers
  <2>. QED
    BY <1>3, <2>1, <2>2
<1>4. ASSUME NEW s \in Sessions, ServeWs(s) \/ ReaderMoves(s)
      PROVE  run'.client = t /\ run'.at \in {"remove", "leaveAll"}
  <2>1. OnlyOf(s) /\ run' = run
    BY <1>4, ConnectionSteps DEF ServeWs, RejectHandshake, TryReserveUsername, BanCheck,
       RejectBanned, LoadUserChannel, JoinStored, StartPumps, ReaderMoves, ReadCommand, ReadAddressedMessage,
       ReadRoomMessage, ReadLeaveChannel, ReadJoinChannel, Reply, JoinChannel, ReadFails,
       RunBroadcast, RunForward
  <2>2. CASE ServeWs(s)
    <3>1. serve[s] # "done"
      BY <2>2 DEF ServeWs, RejectHandshake, TryReserveUsername, BanCheck,
         RejectBanned, LoadUserChannel, JoinStored, StartPumps
    <3>2. reader'[s] \in {"off", "read"}
      BY <2>2, <3>1 DEF ServeWs, RejectHandshake, TryReserveUsername, BanCheck, PumpsAgree,
         RejectBanned, LoadUserChannel, JoinStored, StartPumps, ReaderTo, pumps, TypeOK
    <3>. QED
      BY <1>0, <2>1, <3>2 DEF OnlyOf, NoGhostMembers
  <2>3. CASE ReaderMoves(s)
    <3>1. reader'[s] \notin {"close", "done"}
      BY <2>3 DEF ReaderMoves, ReadCommand, ReadAddressedMessage, ReadRoomMessage, ReadLeaveChannel,
         ReadJoinChannel, Reply, JoinChannel, ReadFails, RunBroadcast, RunForward, ReaderTo, TypeOK
    <3>. QED
      BY <1>0, <2>1, <3>1 DEF OnlyOf, NoGhostMembers
  <2>. QED
    BY <1>4, <2>2, <2>3
<1>5. ASSUME NEW s \in Sessions, RecvRegister(s)
      PROVE  run'.client = t /\ run'.at \in {"remove", "leaveAll"}
  BY <1>5 DEF RecvRegister, Waiting, pumps, NoGhostMembers
<1>6. ASSUME NEW s \in Sessions, RecvUnregister(s)
      PROVE  run'.client = t /\ run'.at \in {"remove", "leaveAll"}
  BY <1>0, <1>6 DEF RecvUnregister, ReaderTo, Waiting, NoGhostMembers, TypeOK
<1>7. ASSUME NEW s \in Sessions, ReaderCloses(s)
      PROVE  run'.client = t /\ run'.at \in {"remove", "leaveAll"}
  BY <1>0, <1>7 DEF ReaderCloses, ReaderTo, NoGhostMembers, TypeOK
<1>. QED
  BY <1>1, <1>2, <1>3, <1>4, <1>5, <1>6, <1>7, KindsOfSteps DEF Runs

\* A connection whose unregistration is finished is in no room, for any number
\* of connections and rooms.
THEOREM RoomsHaveNoGhosts == Spec => []NoGhostMembers
<1>1. Init => NoGhostMembers
  BY DEF Init, NoGhostMembers
<1>. QED
  BY <1>1, TypeInit, TypeStep, PumpsInit, PumpsStep, GhostsStep, PTL DEF Spec

----------------------------------------------------------------------------
(* Senders are in the room they speak in.                                   *)

\* A connection is in a room, or the hub is about to put it in General; what
\* it says goes to such a room.  Between a leave and a join it may be in none.
PlacedAt(s) ==
    /\ serve[s] = "load" => Coming(s) \/ s \in channels[General]
    /\ serve[s] = "start" \/ reader[s] \in {"read", "reply", "broadcast", "forward"} =>
          Coming(s) \/ Rooms(s) # {}
    /\ reader[s] = "broadcast" => s \in channels[arg[s]] \/ (Coming(s) /\ arg[s] = General)

Placed == \A s \in Sessions : PlacedAt(s)

\* A step of s, or of the hub for another connection, leaves others in place.
LEMMA PlacedKept ==
    ASSUME TypeOK, NEW t \in Sessions, PlacedAt(t),
           serve'[t] = serve[t], reader'[t] = reader[t], arg'[t] = arg[t],
           \A c \in Channels : t \in channels'[c] <=> t \in channels[c],
           Coming(t) => Coming(t)'
    PROVE  PlacedAt(t)'
<1>1. Rooms(t)' = Rooms(t)
  BY DEF Rooms
<1>2. General \in Channels /\ arg[t] \in Channels
  BY ChannelsAssumption DEF TypeOK
<1>. QED
  BY <1>1, <1>2 DEF PlacedAt

LEMMA PlacedByHandler ==
    ASSUME TypeOK, PumpsAgree, NEW s \in Sessions, PlacedAt(s), ServeWs(s)
    PROVE  PlacedAt(s)'
<1>0. run' = run /\ General \in Channels
  BY ChannelsAssumption DEF ServeWs, RejectHandshake, TryReserveUsername, BanCheck, RejectBanned,
     LoadUserChannel, JoinStored, StartPumps
<1>1. serve[s] # "done" /\ reader[s] = "off" /\ (Coming(s)' <=> Coming(s))
  BY <1>0 DEF ServeWs, RejectHandshake, TryReserveUsername, BanCheck, RejectBanned,
     LoadUserChannel, JoinStored, StartPumps, PumpsAgree, Coming, Running
<1>2. CASE RejectHandshake(s) \/ TryReserveUsername(s) \/ BanCheck(s) \/ RejectBanned(s)
  <2>1. serve'[s] \in {"banCheck", "register", "rejected"} /\ reader'[s] = "off"
    BY <1>1, <1>2 DEF RejectHandshake, TryReserveUsername, BanCheck, RejectBanned, ServeTo, pumps,
       TypeOK
  <2>. QED
    BY <2>1 DEF PlacedAt
<1>3. CASE LoadUserChannel(s)
  <2>1. serve[s] = "load" /\ reader'[s] = "off" /\ serve'[s] \in {"start", "place"}
        /\ (serve'[s] = "start" => channels' = channels)
    BY <1>1, <1>3 DEF LoadUserChannel, ServeTo, pumps, TypeOK
  <2>2. serve'[s] = "start" => Coming(s)' \/ Rooms(s)' # {}
    BY <1>0, <1>1, <2>1 DEF PlacedAt, Rooms
  <2>. QED
    BY <2>1, <2>2 DEF PlacedAt
<1>4. CASE JoinStored(s)
  <2>1. serve'[s] = "start" /\ reader'[s] = "off" /\ arg[s] \in Channels
        /\ s \in channels'[arg[s]]
    BY <1>1, <1>4 DEF JoinStored, Enter, ServeTo, pumps, TypeOK
  <2>. QED
    BY <2>1 DEF PlacedAt, Rooms
<1>5. CASE StartPumps(s)
  <2>1. serve[s] = "start" /\ serve'[s] = "done" /\ reader'[s] = "read" /\ channels' = channels
    BY <1>5 DEF StartPumps, ServeTo, ReaderTo, TypeOK
  <2>. QED
    BY <1>1, <2>1 DEF PlacedAt, Rooms
<1>. QED
  BY <1>2, <1>3, <1>4, <1>5 DEF ServeWs

LEMMA PlacedByReader ==
    ASSUME TypeOK, PumpsAgree, NEW s \in Sessions, PlacedAt(s), ReaderMoves(s)
    PROVE  PlacedAt(s)'
<1>0. run' = run /\ serve' = serve /\ General \in Channels
  BY ChannelsAssumption DEF ReaderMoves, ReadCommand, ReadAddressedMessage, ReadRoomMessage, ReadLeaveChannel,
     ReadJoinChannel, Reply, JoinChannel, ReadFails, RunBroadcast, RunForward
<1>1. serve[s] = "done" /\ (Coming(s)' <=> Coming(s))
  <2>1. reader[s] # "off"
    BY DEF ReaderMoves, ReadCommand, ReadAddressedMessage, ReadRoomMessage, ReadLeaveChannel, ReadJoinChannel, Reply,
       JoinChannel, ReadFails, RunBroadcast, RunForward
  <2>. QED
    BY <1>0, <2>1 DEF PumpsAgree, Coming, Running
<1>2. CASE ReadCommand(s) \/ ReadAddressedMessage(s) \/ Reply(s) \/ RunBroadcast(s) \/ RunForward(s)
  <2>1. reader[s] \in {"read", "reply", "broadcast", "forward"}
        /\ reader'[s] \in {"read", "reply", "forward"}
        /\ channels' = channels
    BY <1>2 DEF ReadCommand, ReadAddressedMessage, Reply, RunBroadcast, RunForward, ReaderTo, TypeOK
  <2>. QED
    BY <1>0, <1>1, <2>1 DEF PlacedAt, Rooms
<1>3. CASE ReadRoomMessage(s)
  <2>1. reader[s] = "read" /\ channels' = channels /\ arg'[s] \in ClientChannel(s)
        /\ reader'[s] = "broadcast"
    BY <1>3 DEF ReadRoomMessage, ReaderTo, TypeOK
  <2>. QED
    BY <1>0, <1>1, <2>1 DEF PlacedAt, ClientChannel, Rooms
<1>4. CASE ReadLeaveChannel(s) \/ ReadFails(s) \/ \E c \in Channels : ReadJoinChannel(s, c)
  <2>1. reader'[s] \in {"join", "unregister"}
    BY <1>4 DEF ReadLeaveChannel, ReadFails, ReadJoinChannel, ReaderTo, TypeOK
  <2>. QED
    BY <1>0, <1>1, <2>1 DEF PlacedAt
<1>5. CASE JoinChannel(s)
  <2>1. reader'[s] = "reply" /\ arg[s] \in Channels /\ s \in channels'[arg[s]]
    BY <1>5 DEF JoinChannel, Enter, ReaderTo, TypeOK
  <2>. QED
    BY <1>0, <1>1, <2>1 DEF PlacedAt, Rooms
<1>. QED
  BY <1>2, <1>3, <1>4, <1>5 DEF ReaderMoves

LEMMA PlacedByHub ==
    ASSUME TypeOK, PumpsAgree, NEW t \in Sessions, PlacedAt(t), Runs
    PROVE  PlacedAt(t)'
<1>0. UNCHANGED <<serve, reader, arg>> /\ General \in Channels
  BY HubSteps, ChannelsAssumption
<1>1. CASE t # run.client
  <2>1. ~Coming(t)
    BY <1>1 DEF Coming, Running
  <2>. QED
    BY <1>0, <1>1, <2>1, HubSteps, PlacedKept
<1>2. CASE t = run.client /\ RunRegister
  <2>1. channels' = channels /\ Coming(t)'
    <3>1. run'.client = run.client /\ run'.at = "join"
      BY <1>2, HubSteps DEF Runs, RunRegister, TypeOK, Waiting
    <3>. QED
      BY <1>2, <3>1, HubSteps DEF Coming, Running
  <2>. QED
    BY <1>0, <2>1, PlacedKept
<1>3. CASE t = run.client /\ RunJoinGeneral
  <2>1. t \in channels'[General] /\ \A c \in Channels : t \in channels[c] => t \in channels'[c]
    BY <1>0, <1>3 DEF RunJoinGeneral, Enter, TypeOK
  <2>2. arg[t] \in Channels
    BY DEF TypeOK
  <2>. QED
    BY <1>0, <2>1, <2>2 DEF PlacedAt, Rooms
<1>4. CASE t = run.client /\ (RunUnregister \/ RunLeaveAll)
  <2>1. reader[t] \in {"close", "done"} /\ serve[t] = "done"
    BY <1>4 DEF RunUnregister, RunLeaveAll, PumpsAgree, Running
  <2>. QED
    BY <1>0, <2>1 DEF PlacedAt
<1>. QED
  BY <1>1, <1>2, <1>3, <1>4 DEF Runs

LEMMA PlacedStep == TypeOK /\ PumpsAgree /\ Placed /\ [Next]_vars => Placed'
<1>. SUFFICES ASSUME TypeOK, PumpsAgree, Placed, [Next]_vars, NEW t \in Sessions
              PROVE  PlacedAt(t)'
  BY DEF Placed
<1>0. PlacedAt(t)
  BY DEF Placed
<1>1. CASE UNCHANGED <<serve, reader, arg, channels, run>>
  <2>1. Coming(t) => Coming(t)'
    BY <1>1 DEF Coming, Running
  <2>. QED
    BY <1>0, <1>1, <2>1, PlacedKept
<1>2. CASE Runs
  BY <1>0, <1>2, PlacedByHub
<1>3. ASSUME NEW s \in Sessions, ServeWs(s) \/ ReaderMoves(s)
      PROVE  PlacedAt(t)'
  <2>1. CASE t = s
    BY <1>0, <1>3, <2>1, PlacedByHandler, PlacedByReader
  <2>2. CASE t # s
    <3>1. run' = run
      BY <1>3 DEF ServeWs, RejectHandshake, TryReserveUsername, BanCheck,
         RejectBanned, LoadUserChannel, JoinStored, StartPumps, ReaderMoves, ReadCommand, ReadAddressedMessage,
         ReadRoomMessage, ReadLeaveChannel, ReadJoinChannel, Reply, JoinChannel, ReadFails,
         RunBroadcast, RunForward
    <3>2. Coming(t) => Coming(t)'
      BY <3>1 DEF Coming, Running
    <3>3. OnlyOf(s)
      BY <1>3, ConnectionSteps
    <3>. QED
      BY <1>0, <2>2, <3>2, <3>3, PlacedKept DEF OnlyOf
  <2>. QED
    BY <2>1, <2>2
<1>4. ASSUME NEW s \in Sessions, RecvRegister(s)
      PROVE  PlacedAt(t)'
  <2>1. OnlyOf(s) /\ channels' = channels /\ reader' = reader /\ arg' = arg
    BY <1>4, ConnectionSteps DEF RecvRegister, pumps
  <2>2. run = Waiting /\ run'.at = "add" /\ run'.client = s /\ serve[s] = "register"
        /\ serve'[s] = "load"
    BY <1>4 DEF RecvRegister, ServeTo, TypeOK
  <2>3. ~Coming(t)
    BY <2>2 DEF Coming, Running, Waiting
  <2>4. CASE t = s
    <3>1. reader'[s] = "off" /\ Coming(t)'
      BY <2>1, <2>2, <2>4 DEF PumpsAgree, Coming, Running
    <3>. QED
      BY <2>4, <2>2, <3>1 DEF PlacedAt
  <2>5. CASE t # s
    BY <1>0, <2>1, <2>3, <2>5, PlacedKept DEF OnlyOf
  <2>. QED
    BY <2>4, <2>5
<1>5. ASSUME NEW s \in Sessions, RecvUnregister(s) \/ ReaderCloses(s)
      PROVE  PlacedAt(t)'
  <2>1. OnlyOf(s) /\ channels' = channels /\ serve' = serve /\ arg' = arg
    BY <1>5, ConnectionSteps DEF RecvUnregister, ReaderCloses, pumps
  <2>2. reader[s] \in {"unregister", "close"} /\ reader'[s] \in {"close", "done"}
        /\ (run' = run \/ run = Waiting)
    BY <1>5 DEF RecvUnregister, ReaderCloses, ReaderTo, TypeOK
  <2>3. Coming(t) => Coming(t)'
    BY <2>2 DEF Coming, Running, Waiting
  <2>4. CASE t = s
    <3>1. serve'[s] = "done"
      BY <2>1, <2>2 DEF PumpsAgree
    <3>. QED
      BY <2>2, <2>4, <3>1 DEF PlacedAt
  <2>5. CASE t # s
    BY <1>0, <2>1, <2>3, <2>5, PlacedKept DEF OnlyOf
  <2>. QED
    BY <2>4, <2>5
<1>. QED
  BY <1>1, <1>2, <1>3, <1>4, <1>5, KindsOfSteps

LEMMA PlacedInit == Init => Placed
BY DEF Init, Placed, PlacedAt

\* When the hub takes a message that names no recipient, its sender is in the
\* room the message is stamped with, for any number of connections and rooms.
THEOREM SendersAreInTheirRoom == Spec => []SenderInRoom
<1>1. Placed => SenderInRoom
  BY DEF Placed, PlacedAt, SenderInRoom, Coming, Running, Waiting
<1>. QED
  BY <1>1, TypeInit, TypeStep, PumpsInit, PumpsStep, PlacedInit, PlacedStep, PTL DEF Spec

----------------------------------------------------------------------------
(* Who is removed is closed.                                                *)

\* The call that removed s has yet to close it.
CloseIsDue(s) == reader[s] = "close" \/ (admin.at = "close" /\ admin.target = s)

\* RemovedAreClosed for one connection, and what makes it inductive: a readPump
\* that is done has closed its socket.
ClosedAt(s) ==
    /\ Removed(s) => ~open[s] \/ CloseIsDue(s)
    /\ reader[s] = "done" => ~open[s]

Closed == \A s \in Sessions : ClosedAt(s)

\* What a step has to respect for one connection.
LEMMA ClosedKept ==
    ASSUME NEW s \in Sessions, ClosedAt(s), open'[s] => open[s],
           Removed(s)' => Removed(s) \/ ~open'[s] \/ CloseIsDue(s)',
           CloseIsDue(s) => CloseIsDue(s)' \/ ~open'[s],
           reader'[s] = "done" => reader[s] = "done" \/ ~open'[s]
    PROVE  ClosedAt(s)'
BY DEF ClosedAt

LEMMA ClosedByModeration ==
    ASSUME TypeOK, NEW s \in Sessions, ClosedAt(s), Moderate
    PROVE  ClosedAt(s)'
<1>1. UNCHANGED <<serve, reader, run>>
  BY DEF Moderate, BanUser, KickUser, LiftBan, ForceDisconnectUser, KickLookup,
     RecordKick, DisconnectClient, ForceClose, pumps
<1>2. CASE DisconnectClient \/ ForceClose
  <2>1. clients' = clients /\ open' = [t \in Sessions |-> open[t] /\ t # admin.target]
        /\ admin' = Idle
    BY <1>2 DEF DisconnectClient, ForceClose, Close, registry
  <2>2. CloseIsDue(s) => CloseIsDue(s)' \/ ~open'[s]
    BY <1>1, <2>1 DEF CloseIsDue
  <2>. QED
    BY <1>1, <2>1, <2>2, ClosedKept DEF Removed, Running
<1>3. ASSUME NEW u \in Users, ForceDisconnectUser(u)
      PROVE  ClosedAt(s)'
  <2>1. admin.at = "idle" /\ clients' = clients \ {clientsByUsername[u]} /\ open' = open
        /\ admin' = [at |-> "close", user |-> u, target |-> clientsByUsername[u]]
    BY <1>3 DEF ForceDisconnectUser, RemoveClients, Idle
  <2>2. admin'.at = "close" /\ admin'.target = clientsByUsername[u]
    BY <2>1
  <2>3. CloseIsDue(s) => CloseIsDue(s)'
    BY <1>1, <2>1 DEF CloseIsDue
  <2>4. Removed(s)' => Removed(s) \/ CloseIsDue(s)'
    BY <1>1, <2>1, <2>2 DEF Removed, Running, CloseIsDue
  <2>. QED
    BY <1>1, <2>1, <2>3, <2>4, ClosedKept
<1>4. ASSUME ~(DisconnectClient \/ ForceClose), \A u \in Users : ~ForceDisconnectUser(u)
      PROVE  ClosedAt(s)'
  <2>1. clients' = clients /\ open' = open /\ (admin.at = "close" => admin' = admin)
    BY <1>4, BoundsAssumption DEF Moderate, BanUser, KickUser, LiftBan, KickLookup,
       RecordKick, registry, Idle
  <2>2. CloseIsDue(s) => CloseIsDue(s)'
    BY <1>1, <2>1 DEF CloseIsDue
  <2>. QED
    BY <1>1, <2>1, <2>2, ClosedKept DEF Removed, Running
<1>. QED
  BY <1>2, <1>3, <1>4

LEMMA ClosedByRemoval ==
    ASSUME TypeOK, NEW s \in Sessions, ClosedAt(s),
           \/ SweepRemove \/ RunBroadcastAll
           \/ \E t \in Sessions : RunBroadcast(t) \/ RunForward(t)
    PROVE  ClosedAt(s)'
<1>1. serve' = serve /\ run' = run /\ admin' = admin
  BY DEF SweepRemove, RunBroadcastAll, RunBroadcast, RunForward
<1>2. \E gone \in SUBSET Sessions : clients' = clients \ gone /\ Close(gone)
  <2>1. CASE SweepRemove
    BY <2>1 DEF SweepRemove, RemoveClients, TypeOK
  <2>2. ASSUME NEW To \in SUBSET Sessions, Broadcast(To)
        PROVE  \E gone \in SUBSET Sessions : clients' = clients \ gone /\ Close(gone)
    BY <2>2 DEF Broadcast, RemoveClients
  <2>3. CASE RunBroadcastAll
    BY <2>2, <2>3 DEF RunBroadcastAll, TypeOK
  <2>4. ASSUME NEW t \in Sessions, RunBroadcast(t) \/ RunForward(t)
        PROVE  \E To \in SUBSET Sessions : Broadcast(To)
    <3>1. clients \in SUBSET Sessions /\ \A c \in Channels : clients \cap channels[c] \in SUBSET Sessions
      BY DEF TypeOK
    <3>2. clients \cap channels[arg[t]] \in SUBSET Sessions
      BY DEF TypeOK
    <3>. QED
      BY <2>4, <3>1, <3>2 DEF RunBroadcast, RunForward
  <2>. QED
    BY <2>1, <2>2, <2>3, <2>4
<1>3. reader'[s] = reader[s] \/ (reader[s] \in {"broadcast", "forward"} /\ reader'[s] = "read")
  BY DEF SweepRemove, RunBroadcastAll, RunBroadcast, RunForward, ReaderTo, pumps, TypeOK
<1>4. (open'[s] => open[s]) /\ (s \in clients /\ s \notin clients' => ~open'[s])
  BY <1>2 DEF Close
<1>5. CloseIsDue(s) => CloseIsDue(s)'
  BY <1>1, <1>3 DEF CloseIsDue
<1>6. Removed(s)' => Removed(s) \/ ~open'[s]
  BY <1>1, <1>4 DEF Removed, Running
<1>. QED
  BY <1>3, <1>4, <1>5, <1>6, ClosedKept

LEMMA ClosedByConnection ==
    ASSUME TypeOK, PumpsAgree, NEW s \in Sessions, ClosedAt(s),
           ServeWs(s) \/ RecvRegister(s) \/ RecvUnregister(s) \/ ReaderCloses(s)
    PROVE  ClosedAt(s)'
<1>1. clients' = clients /\ admin' = admin
  BY DEF ServeWs, RejectHandshake, TryReserveUsername, BanCheck, RejectBanned, LoadUserChannel,
     JoinStored, StartPumps, RecvRegister, RecvUnregister, ReaderCloses, registry
<1>2. CASE RejectHandshake(s) \/ RejectBanned(s) \/ ReaderCloses(s)
  <2>1. ~open'[s]
    BY <1>2 DEF RejectHandshake, RejectBanned, ReaderCloses, Close
  <2>. QED
    BY <2>1 DEF ClosedAt
<1>3. CASE TryReserveUsername(s) \/ BanCheck(s)
  <2>1. open' = open /\ reader' = reader /\ serve'[s] \in {"banCheck", "register"}
    BY <1>3 DEF TryReserveUsername, BanCheck, ServeTo, pumps, TypeOK
  <2>. QED
    BY <2>1 DEF ClosedAt, Removed
<1>4. CASE LoadUserChannel(s) \/ JoinStored(s) \/ StartPumps(s)
  <2>1. serve[s] \in {"load", "place", "start"} /\ open' = open /\ run' = run
        /\ reader'[s] \in {"off", "read"} /\ reader[s] = "off"
    BY <1>4 DEF LoadUserChannel, JoinStored, StartPumps, PumpsAgree, ReaderTo, pumps, TypeOK
  <2>2. Removed(s)' => Removed(s)
    BY <1>1, <2>1 DEF Removed, Running
  <2>3. CloseIsDue(s) => CloseIsDue(s)'
    BY <1>1, <2>1 DEF CloseIsDue
  <2>. QED
    BY <2>1, <2>2, <2>3, ClosedKept
<1>5. CASE RecvRegister(s)
  <2>1. Running("add", s)' /\ open' = open /\ reader' = reader
    BY <1>5 DEF RecvRegister, Running, pumps
  <2>. QED
    BY <2>1 DEF ClosedAt, Removed
<1>6. CASE RecvUnregister(s)
  <2>1. reader'[s] = "close"
    BY <1>6 DEF RecvUnregister, ReaderTo, TypeOK
  <2>. QED
    BY <2>1 DEF ClosedAt, CloseIsDue
<1>. QED
  BY <1>2, <1>3, <1>4, <1>5, <1>6 DEF ServeWs

LEMMA ClosedByHub ==
    ASSUME TypeOK, PumpsAgree, NEW s \in Sessions, ClosedAt(s), Runs
    PROVE  ClosedAt(s)'
<1>1. UNCHANGED <<serve, reader, open, admin>>
  BY HubSteps DEF Runs, RunRegister, RunJoinGeneral, RunUnregister, RunLeaveAll
<1>2. CloseIsDue(s) => CloseIsDue(s)'
  BY <1>1 DEF CloseIsDue
<1>3. Removed(s)' => Removed(s) \/ ~open'[s] \/ CloseIsDue(s)'
  <2>1. CASE RunRegister
    <3>1. run.at = "add" /\ clients' = clients \cup {run.client}
      BY <2>1 DEF RunRegister
    <3>. QED
      BY <1>1, <3>1 DEF Removed, Running
  <2>2. CASE RunJoinGeneral \/ RunLeaveAll
    <3>1. run.at \in {"join", "leaveAll"} /\ clients' = clients
      BY <2>2 DEF RunJoinGeneral, RunLeaveAll, registry
    <3>. QED
      BY <1>1, <3>1 DEF Removed, Running
  <2>3. CASE RunUnregister
    <3>1. run.at = "remove" /\ clients' = clients \ {run.client}
      BY <2>3 DEF RunUnregister, RemoveClients
    <3>2. s = run.client => reader[s] \in {"close", "done"}
      BY <3>1 DEF PumpsAgree, Running
    <3>. QED
      BY <1>1, <3>1, <3>2 DEF Removed, Running, ClosedAt, CloseIsDue
  <2>. QED
    BY <2>1, <2>2, <2>3 DEF Runs
<1>. QED
  BY <1>1, <1>2, <1>3, ClosedKept

\* Steps that take nobody from the registry and close no connection's readPump.
LEMMA ClosedOtherwise ==
    ASSUME TypeOK, NEW s \in Sessions, ClosedAt(s),
           clients' = clients, admin' = admin, open'[s] => open[s],
           serve'[s] = serve[s], Running("add", s)' <=> Running("add", s),
           reader'[s] = reader[s] \/ (reader[s] # "close" /\ reader'[s] # "done")
    PROVE  ClosedAt(s)'
<1>1. Removed(s)' => Removed(s)
  BY DEF Removed
<1>2. CloseIsDue(s) => CloseIsDue(s)'
  BY DEF CloseIsDue
<1>. QED
  BY <1>1, <1>2, ClosedKept

LEMMA ClosedStep == TypeOK /\ PumpsAgree /\ Closed /\ [Next]_vars => Closed'
<1>. SUFFICES ASSUME TypeOK, PumpsAgree, Closed, [Next]_vars, NEW s \in Sessions
              PROVE  ClosedAt(s)'
  BY DEF Closed
<1>0. ClosedAt(s)
  BY DEF Closed
<1>1. CASE Moderate
  BY <1>0, <1>1, ClosedByModeration
<1>2. CASE SweepRemove \/ RunBroadcastAll \/ \E t \in Sessions : RunBroadcast(t) \/ RunForward(t)
  BY <1>0, <1>2, ClosedByRemoval
<1>3. CASE Runs
  BY <1>0, <1>3, ClosedByHub
<1>4. ASSUME NEW t \in Sessions,
             ServeWs(t) \/ RecvRegister(t) \/ RecvUnregister(t) \/ ReaderCloses(t)
      PROVE  ClosedAt(s)'
  <2>1. CASE t = s
    BY <1>0, <1>4, <2>1, ClosedByConnection
  <2>2. CASE t # s
    <3>1. OnlyOf(t)
      BY <1>4, ConnectionSteps
    <3>2. clients' = clients /\ admin' = admin /\ (open'[s] => open[s])
      BY <1>4 DEF ServeWs, RejectHandshake, TryReserveUsername, BanCheck, RejectBanned,
         LoadUserChannel, JoinStored, StartPumps, RecvRegister, RecvUnregister, ReaderCloses,
         Close, registry
    <3>3. Running("add", s)' <=> Running("add", s)
      <4>1. run' = run \/ (run = Waiting /\ run'.client = t)
        BY <1>4 DEF ServeWs, RejectHandshake, TryReserveUsername, BanCheck, RejectBanned,
           LoadUserChannel, JoinStored, StartPumps, RecvRegister, RecvUnregister, ReaderCloses
      <4>. QED
        BY <2>2, <4>1 DEF Running, Waiting
    <3>. QED
      BY <1>0, <2>2, <3>1, <3>2, <3>3, ClosedOtherwise DEF OnlyOf
  <2>. QED
    BY <2>1, <2>2
<1>5. ASSUME NEW t \in Sessions,
             \/ ReadCommand(t) \/ ReadAddressedMessage(t) \/ ReadRoomMessage(t)
             \/ ReadLeaveChannel(t) \/ Reply(t) \/ JoinChannel(t) \/ ReadFails(t) \/ \E c \in Channels : ReadJoinChannel(t, c)
      PROVE  ClosedAt(s)'
  <2>1. UNCHANGED <<clients, admin, open, serve, run>>
    BY <1>5 DEF ReadCommand, ReadAddressedMessage, ReadRoomMessage, ReadLeaveChannel, ReadJoinChannel, Reply,
       JoinChannel, ReadFails, registry
  <2>2. reader'[s] = reader[s] \/ (reader[s] # "close" /\ reader'[s] # "done")
    BY <1>5 DEF ReadCommand, ReadAddressedMessage, ReadRoomMessage, ReadLeaveChannel, ReadJoinChannel, Reply,
       JoinChannel, ReadFails, ReaderTo, TypeOK
  <2>. QED
    BY <1>0, <2>1, <2>2, ClosedOtherwise DEF Running
<1>6. CASE \/ SweepPing \/ UNCHANGED vars
           \/ \E t \in Sessions : WritePump(t) \/ PeerCloses(t) \/ \E u \in Users : ReadDM(t, u)
  <2>1. UNCHANGED <<clients, admin, serve, reader, run>>
    BY <1>6 DEF SweepPing, vars, WritePump, WriteMessage, WriteFails, PeerCloses, ReadDM, registry,
       pumps
  <2>2. open'[s] => open[s]
    BY <1>6 DEF SweepPing, vars, WritePump, WriteMessage, WriteFails, PeerCloses, ReadDM, Close
  <2>. QED
    BY <1>0, <2>1, <2>2, ClosedOtherwise DEF Running
<1>. QED
  BY <1>1, <1>2, <1>3, <1>4, <1>5, <1>6 DEF Next, Run, Runs, Sweep, ReadPump, ReadMessage

LEMMA ClosedInit == Init => Closed
BY DEF Init, Closed, ClosedAt, Removed

\* Whichever path removes a client, its socket is closed or about to be, for
\* any number of connections.
THEOREM RemovedSocketsAreClosed == Spec => []RemovedAreClosed
<1>1. Closed => RemovedAreClosed
  BY DEF Closed, ClosedAt, RemovedAreClosed, CloseIsDue
<1>. QED
  BY <1>1, TypeInit, TypeStep, PumpsInit, PumpsStep, ClosedInit, ClosedStep, PTL DEF Spec
=============================================================================
