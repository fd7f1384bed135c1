---------------------------- MODULE ServerProofs ----------------------------
(* Proofs about two models of the server's side.  HubLocks, for any set of    *)
(* connections and any size of their buffers: its types, and that a socket    *)
(* never has two writers.  AdminWeb, for any number of tabs, requests and     *)
(* restarts: the rule for sessions, the truth of the list of users, the peak  *)
(* of the metrics that no lock guards, and the limit on wrong keys.           *)
EXTENDS HubLocks, AdminWeb, SequenceTheorems, FiniteSetTheorems, TLAPS

----------------------------------------------------------------------------
(* Where the sweep and the moderation call may be. *)

Sweeps == {NoSweep, [at |-> "remove"]}
          \cup [at : {"pick"}, todo : SUBSET Sessions]
          \cup [at : {"ping"}, todo : SUBSET Sessions, client : Sessions, locked : BOOLEAN]

\* SendCap is a capacity: what TrySend adds stays within it.
LEMMA TrySendKeeps ==
    ASSUME send \in [Sessions -> 0..SendCap], NEW S
    PROVE  TrySend(S) \in [Sessions -> 0..SendCap]
BY SendCapAssumption DEF TrySend

LEMMA LocksTypeInit == LocksInit => TypeOK
BY SendCapAssumption DEF LocksInit, TypeOK, NoSweep, NoMod

\* Steps of the peers and of the pumps.
LEMMA PumpsType ==
    ASSUME TypeOK, NEW s \in Sessions,
           PeerStalls(s) \/ PeerResumes(s) \/ PeerCloses(s) \/ ReadPump(s) \/ WritePump(s)
    PROVE  TypeOK'
<1>1. CASE PeerStalls(s) \/ PeerResumes(s) \/ PeerCloses(s)
  BY <1>1 DEF TypeOK, PeerStalls, PeerResumes, PeerCloses, pumps, runVars, cleanup
<1>2. CASE ReadMessage(s) \/ ReadFails(s) \/ ReaderCloses(s)
  <2>. DEFINE Places == {"read", "reply", "broadcast", "dm", "unregister", "close", "done"}
  <2>1. ASSUME NEW pc \in Places, ReaderTo(s, pc)
        PROVE  reader' \in [Sessions -> Places]
    BY <2>1 DEF ReaderTo, TypeOK
  <2>2. reader' \in [Sessions -> Places]
    BY <1>2, <2>1 DEF ReadMessage, ReadFails, ReaderCloses
  <2>3. open' \in [Sessions -> BOOLEAN]
    BY <1>2 DEF TypeOK, ReadMessage, ReadFails, ReaderCloses, runVars
  <2>. QED
    BY <1>2, <2>2, <2>3 DEF TypeOK, ReadMessage, ReadFails, ReaderCloses, runVars, cleanup
<1>2a. CASE Reply(s)
  BY <1>2a, SendCapAssumption DEF TypeOK, Reply, ReaderTo, runVars, cleanup
<1>3. CASE BroadcastDM(s)
  <2>1. send' \in [Sessions -> 0..SendCap]
    BY <1>3, TrySendKeeps DEF TypeOK, BroadcastDM
  <2>. QED
    BY <1>3, <2>1 DEF TypeOK, BroadcastDM, ReaderTo, runVars, cleanup
<1>4. CASE WriterTakes(s)
  <2>1. send' \in [Sessions -> 0..SendCap]
    BY <1>4, SendCapAssumption DEF TypeOK, WriterTakes
  <2>. QED
    BY <1>4, <2>1 DEF TypeOK, WriterTakes, WriterTo, runVars, cleanup
<1>5. CASE WriterLocks(s) \/ WriterWrites(s) \/ WriterExits(s)
  BY <1>5 DEF TypeOK, WriterLocks, WriterWrites, WriterExits, WriterTo, runVars, cleanup
<1>. QED
  BY <1>1, <1>2, <1>2a, <1>3, <1>4, <1>5 DEF ReadPump, WritePump

\* Steps of Hub.Run.
LEMMA RunType ==
    ASSUME TypeOK, Run
    PROVE  TypeOK'
<1>1. CASE RunBroadcast
  <2>1. send' \in [Sessions -> 0..SendCap]
    BY <1>1, TrySendKeeps DEF TypeOK, RunBroadcast
  <2>. QED
    BY <1>1, <2>1 DEF TypeOK, RunBroadcast, pumps, cleanup
<1>2. CASE RunRemove
  BY <1>2 DEF TypeOK, RunRemove, pumps, cleanup
<1>3. CASE RunUserList
  <2>1. send' \in [Sessions -> 0..SendCap]
    BY <1>3, TrySendKeeps DEF TypeOK, RunUserList
  <2>. QED
    BY <1>3, <2>1 DEF TypeOK, RunUserList, pumps, cleanup
<1>4. ASSUME NEW s \in Sessions, RecvBroadcast(s) \/ RecvUnregister(s)
      PROVE  TypeOK'
  BY <1>4 DEF TypeOK, RecvBroadcast, RecvUnregister, ReaderTo, cleanup
<1>. QED
  BY <1>1, <1>2, <1>3, <1>4 DEF Run

\* Steps of the sweep.
LEMMA SweepType ==
    ASSUME TypeOK, SweepBegins \/ Sweep
    PROVE  TypeOK'
<1>0. sweep \in Sweeps
  BY DEF TypeOK, Sweeps
<1>1. CASE SweepBegins
  <2>1. sweep' \in Sweeps
    BY <1>1 DEF TypeOK, SweepBegins, Sweeps
  <2>. QED
    BY <1>1, <2>1 DEF TypeOK, SweepBegins, Sweeps, pumps, runVars
<1>2. CASE SweepPicks
  <2>1. sweep.todo \in SUBSET Sessions
    BY <1>0, <1>2 DEF SweepPicks, Sweeps, NoSweep
  <2>2. sweep' \in Sweeps
    BY <1>2, <2>1 DEF SweepPicks, Sweeps
  <2>. QED
    BY <1>2, <2>2 DEF TypeOK, SweepPicks, Sweeps, pumps, runVars
<1>3. CASE SweepLocks
  <2>1. sweep \in [at : {"ping"}, todo : SUBSET Sessions, client : Sessions, locked : BOOLEAN]
    BY <1>0, <1>3 DEF SweepLocks, Sweeps, NoSweep
  <2>2. sweep' \in Sweeps
    BY <1>3, <2>1 DEF SweepLocks, Sweeps
  <2>. QED
    BY <1>3, <2>2 DEF TypeOK, SweepLocks, Sweeps, pumps, runVars
<1>4. CASE SweepPinged
  <2>1. sweep \in [at : {"ping"}, todo : SUBSET Sessions, client : Sessions, locked : BOOLEAN]
    BY <1>0, <1>4 DEF SweepPinged, Sweeps, NoSweep
  <2>2. sweep' \in Sweeps /\ stale' \subseteq Sessions
    BY <1>4, <2>1 DEF TypeOK, SweepPinged, Sweeps
  <2>. QED
    BY <1>4, <2>2 DEF TypeOK, SweepPinged, Sweeps, pumps, runVars
<1>5. CASE SweepUnlocks
  <2>1. sweep' \in Sweeps
    BY <1>5 DEF SweepUnlocks, Sweeps
  <2>. QED
    BY <1>5, <2>1 DEF TypeOK, SweepUnlocks, Sweeps, pumps, runVars
<1>6. CASE SweepRemoves
  <2>1. send' \in [Sessions -> 0..SendCap]
    BY <1>6, TrySendKeeps DEF TypeOK, SweepRemoves
  <2>. QED
    BY <1>6, <2>1 DEF TypeOK, SweepRemoves, pumps, runVars
<1>. QED
  BY <1>1, <1>2, <1>3, <1>4, <1>5, <1>6 DEF Sweep

\* Steps of a moderation call.
LEMMA ModerationType ==
    ASSUME TypeOK, Moderation \/ \E s \in Moderated : BanUser(s) \/ KickUser(s) \/ ForceDisconnectUser(s)
    PROVE  TypeOK'
<1>1. ASSUME NEW s \in Moderated, BanUser(s) \/ KickUser(s) \/ ForceDisconnectUser(s)
      PROVE  TypeOK'
  BY <1>1, BoundsAssumption
  DEF TypeOK, BanUser, KickUser, ForceDisconnectUser, Moderate, pumps, runVars, cleanup
<1>2. CASE RecordBan
  <2>1. mod.target \in Sessions
    BY <1>2 DEF TypeOK, RecordBan, NoMod
  <2>. QED
    BY <1>2, <2>1 DEF TypeOK, RecordBan, ModTo, NoMod, pumps, runVars, cleanup
<1>3. CASE Lookup
  <2>1. mod.target \in Sessions
    BY <1>3 DEF TypeOK, Lookup, NoMod
  <2>. QED
    BY <1>3, <2>1 DEF TypeOK, Lookup, ModTo, NoMod, pumps, runVars, cleanup
<1>4. CASE RecordKick
  <2>1. mod.target \in Sessions
    BY <1>4 DEF TypeOK, RecordKick, NoMod
  <2>. QED
    BY <1>4, <2>1 DEF TypeOK, RecordKick, ModTo, NoMod, pumps, runVars, cleanup
<1>5. CASE DisconnectClient
  <2>1. send' \in [Sessions -> 0..SendCap]
    BY <1>5, TrySendKeeps DEF TypeOK, DisconnectClient
  <2>. QED
    BY <1>5, <2>1 DEF TypeOK, DisconnectClient, pumps, runVars, cleanup
<1>6. CASE ForceRemove
  <2>1. send' \in [Sessions -> 0..SendCap]
    BY <1>6, TrySendKeeps DEF TypeOK, ForceRemove
  <2>. QED
    BY <1>6, <2>1 DEF TypeOK, ForceRemove, pumps, runVars, cleanup
<1>. QED
  BY <1>1, <1>2, <1>3, <1>4, <1>5, <1>6 DEF Moderation

LEMMA LocksTypeStep == TypeOK /\ [LocksNext]_lockVars => TypeOK'
<1>. SUFFICES ASSUME TypeOK, [LocksNext]_lockVars PROVE TypeOK'
  OBVIOUS
<1>1. CASE UNCHANGED lockVars
  BY <1>1 DEF TypeOK, lockVars, pumps, runVars, cleanup
<1>2. CASE LocksNext
  BY <1>2, PumpsType, RunType, SweepType, ModerationType DEF LocksNext
<1>. QED
  BY <1>1, <1>2

\* Every variable of HubLocks keeps its type; no buffer exceeds its capacity.
THEOREM LocksTypeCorrect == LocksSpec => []TypeOK
BY LocksTypeInit, LocksTypeStep, PTL DEF LocksSpec

----------------------------------------------------------------------------
(* One writer.  writeMu is held in one place of writePump and one of the    *)
(* sweep, and each is entered only while the other is not held: with the    *)
(* types, that is inductive.                                                *)

LEMMA OneWriterStep == TypeOK /\ OneWriter /\ [LocksNext]_lockVars => OneWriter'
<1>. SUFFICES ASSUME TypeOK, OneWriter, [LocksNext]_lockVars,
                     NEW t \in Sessions, SweepPings(t)', writer'[t] = "write"
              PROVE  FALSE
  BY DEF OneWriter
<1>1. CASE sweep' = sweep
  <2>1. SweepPings(t) /\ writer[t] # "write"
    BY <1>1 DEF OneWriter, SweepPings
  <2>2. PICK s \in Sessions : WritePump(s)
    BY <1>1, <2>1
    DEF LocksNext, lockVars, Run, RunBroadcast, RunRemove, RunUserList, RecvBroadcast, RecvUnregister,
        SweepBegins, Sweep, SweepPicks, SweepLocks, SweepPinged, SweepUnlocks, SweepRemoves,
        Moderation, RecordBan, Lookup, RecordKick, DisconnectClient, ForceRemove,
        PeerStalls, PeerResumes, PeerCloses, ReadPump, ReadMessage, Reply, BroadcastDM, ReadFails,
        ReaderCloses, BanUser, KickUser, ForceDisconnectUser, Moderate, pumps, runVars, cleanup
  <2>. QED
    BY <2>1, <2>2 DEF TypeOK, WritePump, WriterTakes, WriterLocks, WriterWrites, WriterExits, WriterTo
<1>2. CASE sweep' # sweep
  <2>1. SweepLocks
    <3>1. SweepBegins \/ Sweep
      BY <1>2
      DEF LocksNext, lockVars, Run, RunBroadcast, RunRemove, RunUserList, RecvBroadcast, RecvUnregister,
          Moderation, RecordBan, Lookup, RecordKick, DisconnectClient, ForceRemove,
          PeerStalls, PeerResumes, PeerCloses, ReadPump, ReadMessage, Reply, BroadcastDM, ReadFails,
          ReaderCloses, WritePump, WriterTakes, WriterLocks, WriterWrites, WriterExits,
          BanUser, KickUser, ForceDisconnectUser, Moderate, pumps, runVars, cleanup
    <3>. QED
      BY <3>1 DEF SweepPings, SweepBegins, Sweep, SweepPicks, SweepPinged, SweepUnlocks,
                  SweepRemoves, NoSweep
  <2>2. sweep \in [at : {"ping"}, todo : SUBSET Sessions, client : Sessions, locked : BOOLEAN]
    BY <2>1 DEF TypeOK, SweepLocks, NoSweep
  <2>3. sweep'.client = sweep.client /\ writer' = writer
    BY <2>1, <2>2 DEF SweepLocks, pumps
  <2>. QED
    BY <2>1, <2>3 DEF SweepLocks, SweepPings
<1>. QED
  BY <1>1, <1>2

\* "gorilla/websocket allows one writer": for any number of connections the
\* sweep's ping and writePump never write to the same socket at once.
THEOREM SocketHasOneWriter == LocksSpec => []OneWriter
<1>1. LocksInit => OneWriter
  BY DEF LocksInit, OneWriter, SweepPings, NoSweep
<1>. QED
  BY <1>1, LocksTypeInit, LocksTypeStep, OneWriterStep, PTL DEF LocksSpec

----------------------------------------------------------------------------
(* Types.                                                                     *)

Cookies == [secret : Nat, expires : Nat, token : Nat]
Logins == [at : Nat, start : Nat, number : Nat]

Statuses == {"Banned", "Online", "Offline"}

LoginRequest == [at : {"refused", "admitted"}]
Checked == [at : {"denied", "user", "call", "reset", "update", "users"}, due : BOOLEAN]
Measure == [at : {"trim", "slice", "peak", "set"}, due : BOOLEAN, count : Nat]
Listing == [at : {"bans"}, due : BOOLEAN, online : BOOLEAN,
            had : SUBSET Statuses, lifted : BOOLEAN]
TheList == [at : {"listed"}, due : BOOLEAN, status : Statuses,
            had : SUBSET Statuses, lifted : BOOLEAN]

Requests == {Idle} \cup LoginRequest \cup Checked \cup Measure \cup Listing \cup TheList

TypeSession ==
    /\ now \in Nat /\ configured \in BOOLEAN /\ starts \in Nat \ {0}
    /\ cookie \in Cookies \cup {None} /\ login \in Logins \cup {None}
    /\ attempts \in [count : Nat, last : Nat] \cup {None} /\ wrong \in Seq(Nat)
    /\ token \in [Tabs -> Nat \cup {None}] /\ requests \in Nat

TypeMetrics == online \in BOOLEAN /\ held \in BOOLEAN /\ points \in Seq(Nat) /\ peak \in Nat
               /\ overlap \in BOOLEAN

WebTypeOK == TypeSession /\ TypeMetrics /\ req \in [Tabs -> Requests]

LEMMA Kinds ==
    ASSUME NEW r \in Requests
    PROVE  /\ r.at \in {"refused", "admitted"} => r \in LoginRequest
           /\ r.at \in {"denied", "user", "call", "reset", "update", "users"} => r \in Checked
           /\ r.at \in {"trim", "slice", "peak", "set"} => r \in Measure
           /\ r.at = "bans" => r \in Listing
           /\ r.at = "listed" => r \in TheList
           /\ "due" \in DOMAIN r => r \in Checked \cup Measure \cup Listing \cup TheList
<1>1. CASE r = Idle
  BY <1>1 DEF Idle
<1>2. CASE r \in LoginRequest
  BY <1>2 DEF LoginRequest
<1>3. CASE r \in Checked
  BY <1>3 DEF Checked
<1>4. CASE r \in Measure
  BY <1>4 DEF Measure
<1>5. CASE r \in Listing
  BY <1>5 DEF Listing
<1>6. CASE r \in TheList
  BY <1>6 DEF TheList
<1>. QED
  BY <1>1, <1>2, <1>3, <1>4, <1>5, <1>6 DEF Requests

\* The request of a tab changes, those of the others do not.
LEMMA Tos ==
    ASSUME req \in [Tabs -> Requests], NEW t \in Tabs, NEW r \in Requests,
           To(t, r) \/ (Answer(t) /\ r = Idle)
    PROVE  /\ req' \in [Tabs -> Requests] /\ req'[t] = r
           /\ \A u \in Tabs \ {t} : req'[u] = req[u]
BY DEF To, Answer

LEMMA SeenOthers ==
    ASSUME NEW r, NEW on, NEW h, r.at # "bans"
    PROVE  Seen(r, on, h) = r
BY DEF Seen

LEMMA SeenLists ==
    ASSUME NEW r \in Requests, r.at = "bans", NEW on \in BOOLEAN, NEW h \in BOOLEAN
    PROVE  /\ Seen(r, on, h) \in Listing
           /\ Seen(r, on, h).at = "bans"
           /\ Seen(r, on, h).online = r.online /\ Seen(r, on, h).due = r.due
           /\ Seen(r, on, h).had = r.had \cup {Status(on, h)}
           /\ Seen(r, on, h).lifted = (r.lifted \/ (held /\ ~h))
<1>1. r \in Listing
  BY Kinds
<1>2. Seen(r, on, h) = [at |-> "bans", due |-> r.due, online |-> r.online,
                        had |-> r.had \cup {Status(on, h)}, lifted |-> r.lifted \/ (held /\ ~h)]
  BY <1>1 DEF Seen, Listing
<1>3. r.due \in BOOLEAN /\ r.online \in BOOLEAN /\ r.had \cup {Status(on, h)} \in SUBSET Statuses
      /\ (r.lifted \/ (held /\ ~h)) \in BOOLEAN
  BY <1>1 DEF Listing, Status, Statuses
<1>. QED
  BY <1>2, <1>3 DEF Listing

LEMMA SeenKeeps ==
    ASSUME NEW r \in Requests, NEW on \in BOOLEAN, NEW h \in BOOLEAN
    PROVE  Seen(r, on, h) \in Requests /\ Seen(r, on, h).at = r.at
BY SeenOthers, SeenLists DEF Requests

LEMMA TypeInit == Init => WebTypeOK
<1>. SUFFICES ASSUME Init PROVE WebTypeOK
  OBVIOUS
<1>1. TypeSession
  BY DEF Init, TypeSession
<1>2. TypeMetrics
  <2>1. points \in Seq(Nat) /\ peak \in Nat
    BY DEF Init
  <2>2. {online, held, overlap} \subseteq BOOLEAN
    BY DEF Init
  <2>. QED
    BY <2>1, <2>2, Zenon DEF TypeMetrics
<1>3. req \in [Tabs -> Requests]
  BY DEF Init, Requests
<1>. QED
  BY <1>1, <1>2, <1>3 DEF WebTypeOK

\* The requests and answers that change nothing but the sessions.
LEMMA LoginTypes ==
    ASSUME WebTypeOK, NEW t \in Tabs,
           \/ LoginBegins(t) \/ LoginRefused(t) \/ WrongKey(t) \/ BadBody(t) \/ RightKey(t)
           \/ FetchToken(t) \/ Denied(t) \/ OtherAction(t) \/ NoList(t) \/ Listed(t)
    PROVE  WebTypeOK' /\ UNCHANGED metrics /\ UNCHANGED hub
<1>0. TypeSession /\ TypeMetrics /\ req \in [Tabs -> Requests] /\ Life \in Nat
  BY ConstAssumption DEF WebTypeOK
<1>1. TypeMetrics' /\ UNCHANGED metrics /\ UNCHANGED hub
  BY <1>0 DEF LoginBegins, LoginRefused, WrongKey, BadBody, RightKey, FetchToken, Denied, OtherAction,
     NoList, Listed, TypeMetrics, metrics, hub
<1>2. req' \in [Tabs -> Requests]
  <2>1. CASE LoginBegins(t)
    <3>. DEFINE r == [at |-> IF RateLimited THEN "refused" ELSE "admitted"]
    <3>1. r \in Requests
      BY DEF Requests, LoginRequest
    <3>2. To(t, r)
      BY <2>1 DEF LoginBegins
    <3>. QED
      BY <1>0, <3>1, <3>2, Tos
  <2>2. CASE FetchToken(t)
    BY <1>0, <2>2 DEF FetchToken
  <2>3. CASE Answer(t)
    BY <1>0, <2>3, Tos DEF Requests
  <2>. QED
    BY <2>1, <2>2, <2>3 DEF LoginRefused, WrongKey, BadBody, RightKey, Denied, OtherAction, NoList, Listed
<1>3. now' = now /\ configured' = configured /\ starts' = starts /\ requests' \in Nat
  BY <1>0 DEF LoginBegins, Ask, LoginRefused, WrongKey, BadBody, RightKey, FetchToken, Denied,
     OtherAction, NoList, Listed, TypeSession
<1>4. attempts' \in [count : Nat, last : Nat] \cup {None} /\ wrong' \in Seq(Nat)
  <2>1. CASE WrongKey(t)
    <3>1. CASE attempts = None \/ now - attempts.last > Window
      BY <1>0, <2>1, <3>1 DEF WrongKey, RecordFailed, TypeSession
    <3>2. CASE ~(attempts = None \/ now - attempts.last > Window)
      <4>1. attempts.count \in Nat /\ attempts' = [count |-> attempts.count + 1, last |-> now]
        BY <1>0, <2>1, <3>2 DEF WrongKey, RecordFailed, TypeSession
      <4>. QED
        BY <1>0, <2>1, <4>1 DEF WrongKey, TypeSession
    <3>. QED
      BY <3>1, <3>2
  <2>2. CASE RightKey(t)
    BY <2>2 DEF RightKey
  <2>3. CASE UNCHANGED <<attempts, wrong>>
    BY <1>0, <2>3 DEF TypeSession
  <2>. QED
    BY <2>1, <2>2, <2>3 DEF LoginBegins, LoginRefused, BadBody, FetchToken, Denied, OtherAction, NoList, Listed
<1>5. cookie' \in Cookies \cup {None} /\ login' \in Logins \cup {None}
  <2>1. CASE RightKey(t)
    <3>. DEFINE number == IF login = None THEN 1 ELSE login.number + 1
    <3>1. number \in Nat
      BY <1>0 DEF TypeSession, Logins
    <3>2. Secret \in Nat /\ now \in Nat /\ starts \in Nat /\ now + Life \in Nat
      BY <1>0 DEF Secret, TypeSession
    <3>3. /\ login' = [at |-> now, start |-> starts, number |-> number]
          /\ cookie' = [secret |-> Secret, expires |-> now + Life, token |-> number]
      BY <2>1 DEF RightKey
    <3>. HIDE DEF number
    <3>. QED
      BY <3>1, <3>2, <3>3 DEF Cookies, Logins
  <2>2. CASE UNCHANGED session
    BY <1>0, <2>2 DEF session, TypeSession
  <2>. QED
    BY <2>1, <2>2 DEF LoginBegins, LoginRefused, WrongKey, BadBody, FetchToken, Denied, OtherAction, NoList, Listed, session
<1>6. token' \in [Tabs -> Nat \cup {None}]
  <2>1. CASE FetchToken(t)
    <3>1. (IF ValidSession(cookie) THEN cookie.token ELSE None) \in Nat \cup {None}
      BY <1>0 DEF ValidSession, TypeSession, Cookies
    <3>. QED
      BY <1>0, <2>1, <3>1 DEF FetchToken, TypeSession
  <2>2. CASE UNCHANGED token
    BY <1>0, <2>2 DEF TypeSession
  <2>. QED
    BY <2>1, <2>2 DEF LoginBegins, LoginRefused, WrongKey, BadBody, RightKey, Denied, OtherAction, NoList, Listed
<1>7. TypeSession'
  BY <1>0, <1>3, <1>4, <1>5, <1>6 DEF TypeSession
<1>. QED
  BY <1>1, <1>2, <1>7 DEF WebTypeOK

\* The steps on the metrics and on the list.
LEMMA WorkTypes ==
    ASSUME WebTypeOK, NEW t \in Tabs,
           \/ \E op \in {"user", "call", "reset"} : Post(t, op)
           \/ \E op \in {"update", "users"} : Get(t, op)
           \/ AddPoint(t) \/ Trim(t) \/ Slice(t) \/ TestPeak(t) \/ SetPeak(t) \/ ResetMetrics(t)
           \/ ReadClients(t) \/ ReadBans(t)
    PROVE  WebTypeOK' /\ UNCHANGED <<session, now, configured, starts, token>> /\ UNCHANGED hub
<1>0. /\ TypeSession /\ TypeMetrics /\ req \in [Tabs -> Requests] /\ req[t] \in Requests
      /\ MaxPoints \in Nat \ {0}
  BY ConstAssumption DEF WebTypeOK
<1>1. TypeSession' /\ UNCHANGED <<session, now, configured, starts, token>> /\ UNCHANGED hub
  BY <1>0 DEF Post, Get, Ask, AddPoint, Trim, Slice, TestPeak, SetPeak, ResetMetrics, ReadClients,
     ReadBans, TypeSession, session
<1>2. ASSUME NEW op \in {"user", "call", "reset"}, Post(t, op)
      PROVE  req' \in [Tabs -> Requests] /\ TypeMetrics'
  <2>. DEFINE r == [at |-> IF ValidSession(cookie) /\ ValidCSRF(t) THEN op ELSE "denied",
                    due |-> LoggedIn /\ PageIsCurrent(t)]
  <2>1. (LoggedIn /\ PageIsCurrent(t)) \in BOOLEAN
    OBVIOUS
  <2>2. r \in Requests
    BY <2>1 DEF Requests, Checked
  <2>3. To(t, r)
    BY <1>2 DEF Post
  <2>. HIDE DEF r
  <2>4. req' \in [Tabs -> Requests]
    BY <1>0, <2>2, <2>3, Tos
  <2>5. TypeMetrics'
    BY <1>0, <1>2 DEF Post, TypeMetrics, hub, metrics
  <2>. QED
    BY <2>4, <2>5
<1>3. ASSUME NEW op \in {"update", "users"}, Get(t, op)
      PROVE  req' \in [Tabs -> Requests] /\ TypeMetrics'
  <2>. DEFINE r == [at |-> IF ValidSession(cookie) THEN op ELSE "denied", due |-> LoggedIn]
  <2>1. LoggedIn \in BOOLEAN
    BY DEF LoggedIn
  <2>2. r \in Requests
    BY <2>1 DEF Requests, Checked
  <2>3. To(t, r)
    BY <1>3 DEF Get
  <2>. HIDE DEF r
  <2>4. req' \in [Tabs -> Requests]
    BY <1>0, <2>2, <2>3, Tos
  <2>5. TypeMetrics'
    BY <1>0, <1>3 DEF Get, TypeMetrics, hub, metrics
  <2>. QED
    BY <2>4, <2>5
<1>4. CASE AddPoint(t)
  <2>. DEFINE r == [at |-> "trim", due |-> req[t].due, count |-> Count]
  <2>1. req[t] \in Checked /\ Count \in Nat
    BY <1>0, <1>4, Kinds DEF AddPoint, Count
  <2>2. r \in Requests /\ To(t, r)
    BY <1>4, <2>1 DEF AddPoint, Requests, Checked, Measure
  <2>. HIDE DEF r
  <2>3. req' \in [Tabs -> Requests]
    BY <1>0, <2>2, Tos
  <2>4. points' \in Seq(Nat) /\ peak' = peak /\ UNCHANGED hub
    BY <1>0, <1>4, <2>1 DEF AddPoint, TypeMetrics
  <2>5. overlap' \in BOOLEAN
    BY <1>4 DEF AddPoint, Overlaps
  <2>. QED
    BY <1>0, <1>1, <2>3, <2>4, <2>5 DEF WebTypeOK, TypeMetrics, hub
<1>5. CASE Trim(t) \/ TestPeak(t) \/ SetPeak(t)
  <2>1. req[t] \in Measure
    BY <1>0, <1>5, Kinds DEF Trim, TestPeak, SetPeak
  <2>2. PICK r \in Requests : To(t, r) \/ (Answer(t) /\ r = Idle)
    <3>1. \A at \in {"trim", "slice", "peak", "set"} : [req[t] EXCEPT !.at = at] \in Requests
      BY <2>1 DEF Requests, Measure
    <3>2. Idle \in Requests
      BY DEF Requests
    <3>3. CASE Trim(t)
      BY <3>1, <3>3 DEF Trim
    <3>4. CASE TestPeak(t)
      BY <3>1, <3>2, <3>4 DEF TestPeak
    <3>5. CASE SetPeak(t)
      BY <3>2, <3>5 DEF SetPeak
    <3>. QED
      BY <1>5, <3>3, <3>4, <3>5
  <2>3. req' \in [Tabs -> Requests]
    BY <1>0, <2>2, Tos
  <2>4. TypeMetrics'
    BY <1>0, <1>5, <2>1 DEF Trim, TestPeak, SetPeak, TypeMetrics, Measure, hub, metrics
  <2>. QED
    BY <1>1, <2>3, <2>4 DEF WebTypeOK
<1>6. CASE Slice(t)
  <2>1. req[t] \in Measure
    BY <1>0, <1>6, Kinds DEF Slice
  <2>2. [req[t] EXCEPT !.at = "peak"] \in Requests /\ Idle \in Requests
    BY <2>1 DEF Requests, Measure
  <2>3. req' \in [Tabs -> Requests]
    BY <1>0, <1>6, <2>2, Tos DEF Slice
  <2>4. points' \in Seq(Nat)
    <3>1. points \in Seq(Nat) /\ Len(points) \in Nat
      BY <1>0 DEF TypeMetrics
    <3>2. CASE Len(points) >= MaxPoints
      <4>1. points' = SubSeq(points, Len(points) - MaxPoints + 1, Len(points))
        BY <1>6, <3>2 DEF Slice
      <4>2. \A j \in (Len(points) - MaxPoints + 1)..Len(points) : j \in 1..Len(points)
        BY <1>0, <3>1, <3>2
      <4>. QED
        BY <1>0, <3>1, <3>2, <4>1, <4>2
    <3>. QED
      BY <1>6, <3>1, <3>2 DEF Slice
  <2>. QED
    BY <1>0, <1>1, <1>6, <2>3, <2>4 DEF Slice, WebTypeOK, TypeMetrics, hub
<1>7. CASE ResetMetrics(t)
  <2>1. req' \in [Tabs -> Requests]
    BY <1>0, <1>7, Tos DEF ResetMetrics, Requests
  <2>2. points' \in Seq(Nat) /\ peak' \in Nat
    BY <1>7 DEF ResetMetrics
  <2>3. overlap' \in BOOLEAN
    BY <1>7 DEF ResetMetrics, Overlaps
  <2>. QED
    BY <1>0, <1>1, <2>1, <2>2, <2>3 DEF WebTypeOK, TypeMetrics, hub
<1>8. CASE ReadClients(t)
  <2>. DEFINE r == [at |-> "bans", due |-> req[t].due, online |-> online,
                    had |-> {Status(online, held)}, lifted |-> FALSE]
  <2>1. req[t] \in Checked /\ online \in BOOLEAN /\ held \in BOOLEAN
    BY <1>0, <1>8, Kinds DEF ReadClients, TypeMetrics
  <2>2. r \in Requests
    BY <2>1 DEF Requests, Checked, Listing, Status, Statuses
  <2>3. To(t, r)
    BY <1>8 DEF ReadClients
  <2>. HIDE DEF r
  <2>4. req' \in [Tabs -> Requests]
    BY <1>0, <2>2, <2>3, Tos
  <2>5. TypeMetrics'
    BY <1>0, <1>8 DEF ReadClients, TypeMetrics, hub, metrics
  <2>. QED
    BY <1>1, <2>4, <2>5 DEF WebTypeOK
<1>9. CASE ReadBans(t)
  <2>. DEFINE status == Status(req[t].online, held)
              r == [at |-> "listed", due |-> req[t].due, status |-> status,
                    had |-> req[t].had, lifted |-> req[t].lifted]
  <2>1. req[t] \in Listing
    BY <1>0, <1>9, Kinds DEF ReadBans
  <2>2. r \in Requests
    BY <2>1 DEF Requests, Listing, TheList, Status, Statuses
  <2>3. To(t, r)
    BY <1>9 DEF ReadBans, List
  <2>. HIDE DEF r
  <2>4. req' \in [Tabs -> Requests]
    BY <1>0, <2>2, <2>3, Tos
  <2>5. TypeMetrics'
    BY <1>0, <1>9 DEF ReadBans, TypeMetrics, hub, metrics
  <2>. QED
    BY <1>1, <2>4, <2>5 DEF WebTypeOK
<1>. QED
  BY <1>1, <1>2, <1>3, <1>4, <1>5, <1>6, <1>7, <1>8, <1>9 DEF WebTypeOK

LEMMA TypeStep == WebTypeOK /\ [Next]_vars => WebTypeOK'
<1>. SUFFICES ASSUME WebTypeOK, [Next]_vars PROVE WebTypeOK'
  OBVIOUS
<1>0. TypeSession /\ TypeMetrics /\ req \in [Tabs -> Requests]
  BY DEF WebTypeOK
<1>1. ASSUME NEW t \in Tabs, Request(t) \/ Handle(t), ~UserAction(t)
      PROVE  WebTypeOK'
  BY <1>1, LoginTypes, WorkTypes DEF Request, Handle
<1>2. ASSUME UserMoves \/ \E t \in Tabs : UserAction(t)
      PROVE  WebTypeOK'
  <2>1. online' \in BOOLEAN /\ held' \in BOOLEAN
    BY <1>0, <1>2 DEF UserMoves, UserAction, TypeMetrics, hub
  <2>2. req' \in [Tabs -> Requests]
    <3>1. \A u \in Tabs : Seen(req[u], online', held') \in Requests
      BY <1>0, <2>1, SeenKeeps
    <3>. QED
      BY <1>2, <3>1 DEF UserMoves, UserAction, Requests
  <2>3. TypeSession'
    BY <1>0, <1>2 DEF UserMoves, UserAction, TypeSession, session
  <2>. QED
    BY <1>0, <1>2, <2>1, <2>2, <2>3 DEF UserMoves, UserAction, WebTypeOK, TypeMetrics, metrics
<1>3. CASE Cleanup \/ Pass
  <2>1. TypeMetrics'
    BY <1>0, <1>3 DEF Cleanup, Pass, TypeMetrics, hub, metrics
  <2>2. req' = req
    BY <1>3 DEF Cleanup, Pass
  <2>3. TypeSession'
    <3>1. now' \in Nat /\ configured' = configured /\ starts' = starts /\ requests' = requests
          /\ UNCHANGED <<session, token, wrong>>
      BY <1>0, <1>3 DEF Cleanup, Pass, TypeSession
    <3>2. attempts' \in {attempts, None}
      BY <1>3 DEF Cleanup, Pass
    <3>. QED
      BY <1>0, <3>1, <3>2 DEF TypeSession, session
  <2>. QED
    BY <1>0, <2>1, <2>2, <2>3 DEF WebTypeOK
<1>4. CASE Restart
  <2>1. TypeSession'
    BY <1>0, <1>4 DEF Restart, TypeSession, session
  <2>2. points' \in Seq(Nat) /\ peak' \in Nat /\ req' \in [Tabs -> Requests]
    BY <1>4 DEF Restart, Requests
  <2>3. {online', held', overlap'} \subseteq BOOLEAN
    BY <1>0, <1>4 DEF Restart, TypeMetrics
  <2>. QED
    BY <2>1, <2>2, <2>3, Zenon DEF WebTypeOK, TypeMetrics
<1>5. CASE UNCHANGED vars
  BY <1>0, <1>5 DEF vars, WebTypeOK, TypeSession, TypeMetrics, session, hub, metrics
<1>. QED
  BY <1>1, <1>2, <1>3, <1>4, <1>5 DEF Next

\* Every variable keeps its type.
THEOREM TypeCorrect == Spec => []WebTypeOK
BY TypeInit, TypeStep, PTL DEF Spec

----------------------------------------------------------------------------
(* The inductive invariants.                                                  *)

\* The cookie is the one of the last login.
CookieOfLogin ==
    /\ login = None <=> cookie = None
    /\ login # None =>
          /\ cookie.expires = login.at + Life /\ cookie.token = login.number
          /\ cookie.secret = IF configured THEN 0 ELSE login.start

\* Where a request is once it has been checked.
Due == {"denied", "user", "call", "reset", "update", "users", "trim", "slice", "peak", "set",
        "bans", "listed"}

\* What has been checked stays as it was due.
ServedWhenDue ==
    \A t \in Tabs : req[t].at \in Due =>
        (req[t].due <=> req[t].at # "denied")

\* A list being made has seen the present; and of a user who is not banned and
\* has not been freed since, the status of the first read.
SeesList(r) ==
    /\ Status(online, held) \in r.had
    /\ held \/ r.lifted \/ Status(r.online, FALSE) \in r.had

ListSees == \A t \in Tabs : req[t].at = "bans" => SeesList(req[t])

\* As long as no two requests have met: the one that works on the metrics is
\* alone, and will set a peak that covers the point it has added.
AloneOnMetrics ==
    ~overlap =>
        /\ \A t, u \in Updating : t = u
        /\ \A i \in DOMAIN points : points[i] <= peak \/ \E t \in Updating : points[i] <= req[t].count
        /\ \A t \in Tabs : req[t].at = "slice" => Len(points) > MaxPoints
        /\ \A t \in Tabs : req[t].at = "set" => req[t].count > peak

Inv == CookieOfLogin /\ ServedWhenDue /\ ListSees /\ ListIsTrue /\ AloneOnMetrics

LEMMA InvInit == Init => Inv
<1>. SUFFICES ASSUME Init PROVE Inv
  OBVIOUS
<1>1. \A t \in Tabs : req[t].at = "idle"
  BY DEF Init, Idle
<1>2. CookieOfLogin
  BY DEF Init, CookieOfLogin
<1>3. ServedWhenDue /\ ListSees /\ ListIsTrue
  BY <1>1 DEF ServedWhenDue, ListSees, ListIsTrue, Due
<1>4. AloneOnMetrics
  BY <1>1 DEF Init, AloneOnMetrics, Updating
<1>. QED
  BY <1>2, <1>3, <1>4 DEF Inv

----------------------------------------------------------------------------
(* Sessions.                                                                  *)

LEMMA CookieStep == WebTypeOK /\ CookieOfLogin /\ [Next]_vars => CookieOfLogin'
<1>. SUFFICES ASSUME WebTypeOK, CookieOfLogin, [Next]_vars PROVE CookieOfLogin'
  OBVIOUS
<1>0. TypeSession /\ Life \in Nat
  BY ConstAssumption DEF WebTypeOK
<1>1. ASSUME NEW t \in Tabs, RightKey(t)
      PROVE  CookieOfLogin'
  <2>. DEFINE number == IF login = None THEN 1 ELSE login.number + 1
              l == [at |-> now, start |-> starts, number |-> number]
              c == [secret |-> Secret, expires |-> now + Life, token |-> number]
  <2>1. number \in Nat /\ now \in Nat /\ starts \in Nat /\ Secret \in Nat
    BY <1>0 DEF TypeSession, Logins, Secret
  <2>2. login' = l /\ cookie' = c /\ configured' = configured
    BY <1>1 DEF RightKey
  <2>. HIDE DEF number
  <2>3. l # None /\ c # None
    BY <1>0, <2>1, NoneAssumption
  <2>. QED
    BY <2>2, <2>3 DEF CookieOfLogin, Secret
<1>2. CASE UNCHANGED <<session, configured>>
  BY <1>2 DEF CookieOfLogin, session
<1>3. ASSUME NEW t \in Tabs, Request(t) \/ Handle(t), ~RightKey(t)
      PROVE  UNCHANGED <<session, configured>>
  <2>1. CASE \/ LoginBegins(t) \/ FetchToken(t) \/ LoginRefused(t) \/ WrongKey(t) \/ BadBody(t)
             \/ Denied(t) \/ OtherAction(t) \/ NoList(t) \/ Listed(t) \/ UserAction(t)
    BY <2>1 DEF LoginBegins, FetchToken, LoginRefused, WrongKey, BadBody, Denied, OtherAction, Listed,
       NoList, UserAction
  <2>. QED
    BY <1>3, <2>1, WorkTypes DEF Request, Handle
<1>4. ASSUME Cleanup \/ UserMoves \/ Pass \/ Restart \/ UNCHANGED vars
      PROVE  UNCHANGED <<session, configured>>
  BY <1>4 DEF Cleanup, UserMoves, Pass, Restart, vars, session
<1>. QED
  BY <1>1, <1>2, <1>3, <1>4 DEF Next

\* The checks of the server come to the rule.
LEMMA ChecksAreTheRule ==
    ASSUME WebTypeOK, CookieOfLogin, NEW t \in Tabs
    PROVE  /\ ValidSession(cookie) <=> LoggedIn
           /\ ValidSession(cookie) /\ ValidCSRF(t) <=> LoggedIn /\ PageIsCurrent(t)
<1>0. /\ TypeSession /\ token[t] \in Nat \cup {None}
  BY DEF WebTypeOK, TypeSession
<1>1. CASE login = None
  BY <1>1 DEF CookieOfLogin, ValidSession, LoggedIn
<1>2. CASE login # None
  <2>1. /\ cookie # None /\ login \in Logins
        /\ cookie.expires = login.at + Life /\ cookie.token = login.number
        /\ cookie.secret = IF configured THEN 0 ELSE login.start
    BY <1>0, <1>2 DEF CookieOfLogin, TypeSession
  <2>2. cookie.secret = Secret <=> configured \/ login.start = starts
    BY <1>0, <2>1 DEF Secret, TypeSession
  <2>3. ValidSession(cookie) <=> LoggedIn
    BY <1>2, <2>1, <2>2 DEF ValidSession, LoggedIn
  <2>4. ValidCSRF(t) <=> PageIsCurrent(t)
    <3>1. login.number \in Nat
      BY <2>1 DEF Logins
    <3>. QED
      BY <1>2, <2>1, <3>1, NoneAssumption DEF ValidCSRF, PageIsCurrent
  <2>. QED
    BY <2>3, <2>4
<1>. QED
  BY <1>1, <1>2

LEMMA ServedMove ==
    ASSUME WebTypeOK, ServedWhenDue, NEW t \in Tabs, NEW r \in Requests,
           To(t, r) \/ (Answer(t) /\ r = Idle),
           r.at \in Due => (r.due <=> r.at # "denied")
    PROVE  ServedWhenDue'
BY Tos DEF WebTypeOK, ServedWhenDue

LEMMA ServedStep == WebTypeOK /\ CookieOfLogin /\ ServedWhenDue /\ [Next]_vars => ServedWhenDue'
<1>. SUFFICES ASSUME WebTypeOK, CookieOfLogin, ServedWhenDue, [Next]_vars PROVE ServedWhenDue'
  OBVIOUS
<1>0. req \in [Tabs -> Requests] /\ Idle \in Requests /\ Idle.at \notin Due
  BY DEF WebTypeOK, Requests, Idle, Due
<1>1. ASSUME NEW t \in Tabs, Answer(t)
      PROVE  ServedWhenDue'
  BY <1>0, <1>1, ServedMove
<1>2. ASSUME NEW t \in Tabs, LoginBegins(t)
      PROVE  ServedWhenDue'
  <2>. DEFINE r == [at |-> IF RateLimited THEN "refused" ELSE "admitted"]
  <2>1. r \in Requests /\ r.at \notin Due
    BY DEF Requests, LoginRequest, Due
  <2>2. To(t, r)
    BY <1>2 DEF LoginBegins
  <2>. HIDE DEF r
  <2>. QED
    BY <2>1, <2>2, ServedMove
<1>3. ASSUME NEW t \in Tabs, NEW op \in {"user", "call", "reset"}, Post(t, op)
      PROVE  ServedWhenDue'
  <2>. DEFINE r == [at |-> IF ValidSession(cookie) /\ ValidCSRF(t) THEN op ELSE "denied",
                    due |-> LoggedIn /\ PageIsCurrent(t)]
  <2>1. (LoggedIn /\ PageIsCurrent(t)) \in BOOLEAN
    OBVIOUS
  <2>2. r \in Requests
    BY <2>1 DEF Requests, Checked
  <2>3. r.due <=> r.at # "denied"
    BY ChecksAreTheRule
  <2>4. To(t, r)
    BY <1>3 DEF Post
  <2>. HIDE DEF r
  <2>. QED
    BY <2>2, <2>3, <2>4, ServedMove
<1>4. ASSUME NEW t \in Tabs, NEW op \in {"update", "users"}, Get(t, op)
      PROVE  ServedWhenDue'
  <2>. DEFINE r == [at |-> IF ValidSession(cookie) THEN op ELSE "denied", due |-> LoggedIn]
  <2>1. LoggedIn \in BOOLEAN
    BY DEF LoggedIn
  <2>2. r \in Requests
    BY <2>1 DEF Requests, Checked
  <2>3. r.due <=> r.at # "denied"
    BY ChecksAreTheRule
  <2>4. To(t, r)
    BY <1>4 DEF Get
  <2>. HIDE DEF r
  <2>. QED
    BY <2>2, <2>3, <2>4, ServedMove
<1>5. ASSUME NEW t \in Tabs, AddPoint(t)
      PROVE  ServedWhenDue'
  <2>. DEFINE r == [at |-> "trim", due |-> req[t].due, count |-> Count]
  <2>1. req[t] \in Checked /\ Count \in Nat /\ req[t].due
    BY <1>0, <1>5, Kinds DEF AddPoint, Count, ServedWhenDue, Due
  <2>2. r \in Requests /\ r.due /\ r.at = "trim"
    BY <2>1 DEF Requests, Checked, Measure
  <2>3. To(t, r)
    BY <1>5 DEF AddPoint
  <2>. HIDE DEF r
  <2>. QED
    BY <2>2, <2>3, ServedMove
<1>6. ASSUME NEW t \in Tabs, Trim(t) \/ Slice(t) \/ TestPeak(t)
      PROVE  ServedWhenDue'
  <2>1. req[t] \in Measure /\ req[t].due
    BY <1>0, <1>6, Kinds DEF Trim, Slice, TestPeak, ServedWhenDue, Due
  <2>2. ASSUME NEW at \in {"slice", "peak", "set"}, To(t, [req[t] EXCEPT !.at = at])
        PROVE  ServedWhenDue'
    <3>1. [req[t] EXCEPT !.at = at] \in Requests /\ [req[t] EXCEPT !.at = at].due
          /\ [req[t] EXCEPT !.at = at].at = at
      BY <2>1 DEF Requests, Measure
    <3>. QED
      BY <2>2, <3>1, ServedMove
  <2>3. CASE To(t, Idle)
    BY <1>0, <2>3, ServedMove
  <2>. QED
    BY <1>1, <1>6, <2>2, <2>3 DEF Trim, Slice, TestPeak
<1>7. ASSUME NEW t \in Tabs, ReadClients(t)
      PROVE  ServedWhenDue'
  <2>. DEFINE r == [at |-> "bans", due |-> req[t].due, online |-> online,
                    had |-> {Status(online, held)}, lifted |-> FALSE]
  <2>1. req[t] \in Checked /\ online \in BOOLEAN /\ held \in BOOLEAN /\ req[t].due
    BY <1>0, <1>7, Kinds DEF ReadClients, WebTypeOK, TypeMetrics, ServedWhenDue, Due
  <2>2. r \in Requests /\ r.due /\ r.at = "bans"
    BY <2>1 DEF Requests, Checked, Listing, Status, Statuses
  <2>3. To(t, r)
    BY <1>7 DEF ReadClients
  <2>. HIDE DEF r
  <2>. QED
    BY <2>2, <2>3, ServedMove
<1>8. ASSUME NEW t \in Tabs, ReadBans(t)
      PROVE  ServedWhenDue'
  <2>. DEFINE status == Status(req[t].online, held)
              r == [at |-> "listed", due |-> req[t].due, status |-> status,
                    had |-> req[t].had, lifted |-> req[t].lifted]
  <2>1. req[t] \in Listing /\ req[t].due
    BY <1>0, <1>8, Kinds DEF ReadBans, ServedWhenDue, Due
  <2>2. r \in Requests /\ r.due /\ r.at = "listed"
    BY <2>1 DEF Requests, Listing, TheList, Status, Statuses
  <2>3. To(t, r)
    BY <1>8 DEF ReadBans, List
  <2>. HIDE DEF r
  <2>. QED
    BY <2>2, <2>3, ServedMove
<1>9. ASSUME UserMoves \/ \E t \in Tabs : UserAction(t)
      PROVE  ServedWhenDue'
  <2>1. online' \in BOOLEAN /\ held' \in BOOLEAN
    BY <1>9 DEF UserMoves, UserAction, WebTypeOK, TypeMetrics, hub
  <2>2. ASSUME NEW u \in Tabs, Seen(req[u], online', held').at \in Due
        PROVE  Seen(req[u], online', held').due <=> Seen(req[u], online', held').at # "denied"
    <3>1. CASE req[u].at = "bans"
      BY <1>0, <2>1, <3>1, SeenLists DEF ServedWhenDue, Due
    <3>2. CASE req[u].at # "bans"
      BY <2>2, <3>2, SeenOthers DEF ServedWhenDue
    <3>. QED
      BY <3>1, <3>2
  <2>3. \A u \in Tabs : req'[u] \in {Idle, Seen(req[u], online', held')}
    BY <1>9 DEF UserMoves, UserAction
  <2>. QED
    BY <1>0, <2>2, <2>3 DEF ServedWhenDue
<1>10. CASE Restart
  BY <1>0, <1>10 DEF Restart, ServedWhenDue
<1>11. CASE UNCHANGED req
  BY <1>11 DEF ServedWhenDue
<1>12. ASSUME NEW t \in Tabs, Handle(t)
       PROVE  ServedWhenDue'
  BY <1>1, <1>5, <1>6, <1>7, <1>8, <1>9, <1>12 DEF Handle, LoginRefused, WrongKey, BadBody, RightKey,
     Denied, OtherAction, SetPeak, ResetMetrics, NoList, Listed
<1>13. ASSUME NEW t \in Tabs, Request(t)
       PROVE  ServedWhenDue'
  BY <1>2, <1>3, <1>4, <1>11, <1>13 DEF Request, FetchToken
<1>. QED
  BY <1>9, <1>10, <1>11, <1>12, <1>13 DEF Next, Cleanup, Pass, vars

\* A request is served if and only if the last login is less than an hour old,
\* no restart drew another secret and, for an action, the page is of that login.
THEOREM RequestsAreAllowed == Spec => []SessionRule
<1>1. Init => WebTypeOK /\ CookieOfLogin /\ ServedWhenDue
  BY TypeInit, InvInit DEF Inv
<1>2. (WebTypeOK /\ CookieOfLogin /\ ServedWhenDue) /\ [Next]_vars
      => (WebTypeOK /\ CookieOfLogin /\ ServedWhenDue)'
  BY TypeStep, CookieStep, ServedStep
<1>3. WebTypeOK /\ ServedWhenDue => SessionRule
  <2>. SUFFICES ASSUME WebTypeOK, ServedWhenDue, NEW t \in Tabs, "due" \in DOMAIN req[t]
                PROVE  req[t].due <=> req[t].at # "denied"
    BY DEF SessionRule
  <2>1. req[t] \in Checked \cup Measure \cup Listing \cup TheList
    BY Kinds DEF WebTypeOK
  <2>2. req[t].at \in Due
    BY <2>1 DEF Checked, Measure, Listing, TheList, Due
  <2>. QED
    BY <2>2 DEF ServedWhenDue
<1>. QED
  BY <1>1, <1>2, <1>3, PTL DEF Spec

----------------------------------------------------------------------------
(* The list of users.                                                         *)

Truthful(r) == r.status \in r.had \/ r.lifted

LEMMA ListStep == WebTypeOK /\ ListSees /\ ListIsTrue /\ [Next]_vars => (ListSees /\ ListIsTrue)'
<1>. SUFFICES ASSUME WebTypeOK, ListSees, ListIsTrue, [Next]_vars PROVE ListSees' /\ ListIsTrue'
  OBVIOUS
<1>0. req \in [Tabs -> Requests] /\ TypeMetrics
  BY DEF WebTypeOK
<1>1. /\ \A t \in Tabs : req[t].at = "listed" => Truthful(req[t])
      /\ ListIsTrue' <=> \A t \in Tabs : req'[t].at = "listed" => Truthful(req'[t])
  BY DEF ListIsTrue, Truthful
<1>2. ASSUME NEW t \in Tabs, NEW r, req' = [req EXCEPT ![t] = r], UNCHANGED hub,
             r.at = "bans" => SeesList(r),
             r.at = "listed" => Truthful(r)
      PROVE  ListSees' /\ ListIsTrue'
  <2>1. req'[t] = r /\ \A u \in Tabs \ {t} : req'[u] = req[u]
    BY <1>0, <1>2
  <2>2. ListSees'
    BY <1>2, <2>1 DEF ListSees, SeesList, hub
  <2>3. ListIsTrue'
    BY <1>1, <1>2, <2>1
  <2>. QED
    BY <2>2, <2>3
<1>3. ASSUME NEW t \in Tabs, Answer(t), UNCHANGED hub
      PROVE  ListSees' /\ ListIsTrue'
  BY <1>2, <1>3 DEF Answer, Idle
<1>4. ASSUME NEW t \in Tabs, ReadClients(t)
      PROVE  ListSees' /\ ListIsTrue'
  <2>. DEFINE r == [at |-> "bans", due |-> req[t].due, online |-> online,
                    had |-> {Status(online, held)}, lifted |-> FALSE]
  <2>1. req' = [req EXCEPT ![t] = r] /\ UNCHANGED hub
    BY <1>4 DEF ReadClients, To
  <2>2. r.at = "bans" /\ r.online = online /\ r.had = {Status(online, held)} /\ held \in BOOLEAN
    BY <1>0 DEF TypeMetrics
  <2>. HIDE DEF r
  <2>3. SeesList(r)
    BY <2>2 DEF SeesList, Status
  <2>. QED
    BY <1>2, <2>1, <2>2, <2>3
<1>5. ASSUME NEW t \in Tabs, ReadBans(t)
      PROVE  ListSees' /\ ListIsTrue'
  <2>. DEFINE status == Status(req[t].online, held)
              r == [at |-> "listed", due |-> req[t].due, status |-> status,
                    had |-> req[t].had, lifted |-> req[t].lifted]
  <2>1. req' = [req EXCEPT ![t] = r] /\ UNCHANGED hub
    BY <1>5 DEF ReadBans, List, To
  <2>2. held \in BOOLEAN /\ SeesList(req[t])
    BY <1>0, <1>5 DEF ReadBans, TypeMetrics, ListSees
  <2>3. r.at = "listed" /\ r.status = status /\ r.had = req[t].had /\ r.lifted = req[t].lifted
    OBVIOUS
  <2>. HIDE DEF r
  <2>4. Truthful(r)
    BY <2>2, <2>3 DEF Truthful, SeesList, Status
  <2>. QED
    BY <1>2, <2>1, <2>3, <2>4
<1>6. ASSUME UserMoves \/ \E t \in Tabs : UserAction(t)
      PROVE  ListSees' /\ ListIsTrue'
  <2>1. online' \in BOOLEAN /\ held' \in BOOLEAN
    BY <1>0, <1>6 DEF UserMoves, UserAction, TypeMetrics, hub
  <2>2. \A u \in Tabs : req'[u] \in {Idle, Seen(req[u], online', held')}
    BY <1>6 DEF UserMoves, UserAction
  <2>3. ASSUME NEW u \in Tabs
        PROVE  /\ req'[u].at = "bans" => SeesList(req[u])'
               /\ req'[u].at = "listed" => Truthful(req'[u])
    <3>1. CASE req'[u] = Idle
      BY <3>1 DEF Idle
    <3>2. CASE req'[u] = Seen(req[u], online', held') /\ req[u].at = "bans"
      <4>1. /\ req'[u].at = "bans" /\ req'[u].online = req[u].online
            /\ req'[u].had = req[u].had \cup {Status(online', held')}
            /\ req'[u].lifted = (req[u].lifted \/ (held /\ ~held'))
        BY <1>0, <2>1, <3>2, SeenLists
      <4>2. SeesList(req[u])
        BY <3>2 DEF ListSees
      <4>3. SeesList(req[u])'
        BY <2>1, <4>1, <4>2 DEF SeesList, Status
      <4>. QED
        BY <4>1, <4>3
    <3>3. CASE req'[u] = Seen(req[u], online', held') /\ req[u].at # "bans"
      BY <1>1, <3>3, SeenOthers
    <3>. QED
      BY <2>2, <3>1, <3>2, <3>3
  <2>. QED
    BY <1>1, <2>3 DEF ListSees
<1>7. CASE Restart
  BY <1>1, <1>7 DEF Restart, ListSees, Idle
<1>8. CASE UNCHANGED <<req, hub>>
  BY <1>1, <1>8 DEF ListSees, SeesList, hub
<1>9. ASSUME NEW t \in Tabs, Handle(t)
      PROVE  ListSees' /\ ListIsTrue'
  <2>1. CASE AddPoint(t) \/ Trim(t) \/ Slice(t) \/ TestPeak(t)
    <3>1. PICK r : req' = [req EXCEPT ![t] = r] /\ r.at \notin {"bans", "listed"} /\ UNCHANGED hub
      <4>1. CASE AddPoint(t)
        BY <4>1 DEF AddPoint, To
      <4>2. CASE Trim(t) \/ Slice(t) \/ TestPeak(t)
        <5>1. req[t] \in Measure
          BY <1>0, <4>2, Kinds DEF Trim, Slice, TestPeak
        <5>2. \A at \in {"slice", "peak", "set"} : [req[t] EXCEPT !.at = at].at = at
          BY <5>1 DEF Measure
        <5>3. Idle.at \notin {"bans", "listed"}
          BY DEF Idle
        <5>4. \E at \in {"slice", "peak", "set"} :
                 To(t, [req[t] EXCEPT !.at = at]) \/ To(t, Idle)
          BY <4>2 DEF Trim, Slice, TestPeak, Answer, To
        <5>5. UNCHANGED hub
          BY <4>2 DEF Trim, Slice, TestPeak
        <5>. QED
          BY <5>2, <5>3, <5>4, <5>5 DEF To
      <4>. QED
        BY <2>1, <4>1, <4>2
    <3>. QED
      BY <1>2, <3>1
  <2>2. CASE Answer(t) /\ UNCHANGED hub
    BY <1>3, <2>2
  <2>. QED
    BY <1>4, <1>5, <1>6, <1>9, <2>1, <2>2 DEF Handle, LoginRefused, WrongKey, BadBody, RightKey,
       Denied, OtherAction, SetPeak, ResetMetrics, NoList, Listed
<1>10. ASSUME NEW t \in Tabs, Request(t)
       PROVE  ListSees' /\ ListIsTrue'
  <2>1. CASE FetchToken(t)
    BY <1>8, <2>1 DEF FetchToken
  <2>2. CASE LoginBegins(t)
    <3>. DEFINE r == [at |-> IF RateLimited THEN "refused" ELSE "admitted"]
    <3>1. req' = [req EXCEPT ![t] = r] /\ UNCHANGED hub
      BY <2>2 DEF LoginBegins, To
    <3>2. r.at \notin {"bans", "listed"}
      OBVIOUS
    <3>. HIDE DEF r
    <3>. QED
      BY <1>2, <3>1, <3>2
  <2>3. ASSUME NEW op \in {"user", "call", "reset", "update", "users"}, Post(t, op) \/ Get(t, op)
        PROVE  ListSees' /\ ListIsTrue'
    <3>1. CASE Post(t, op)
      <4>. DEFINE r == [at |-> IF ValidSession(cookie) /\ ValidCSRF(t) THEN op ELSE "denied",
                        due |-> LoggedIn /\ PageIsCurrent(t)]
      <4>1. req' = [req EXCEPT ![t] = r] /\ UNCHANGED hub
        BY <3>1 DEF Post, To
      <4>2. r.at \notin {"bans", "listed"}
        OBVIOUS
      <4>. HIDE DEF r
      <4>. QED
        BY <1>2, <4>1, <4>2
    <3>2. CASE Get(t, op)
      <4>. DEFINE r == [at |-> IF ValidSession(cookie) THEN op ELSE "denied", due |-> LoggedIn]
      <4>1. req' = [req EXCEPT ![t] = r] /\ UNCHANGED hub
        BY <3>2 DEF Get, To
      <4>2. r.at \notin {"bans", "listed"}
        OBVIOUS
      <4>. HIDE DEF r
      <4>. QED
        BY <1>2, <4>1, <4>2
    <3>. QED
      BY <2>3, <3>1, <3>2
  <2>. QED
    BY <1>10, <2>1, <2>2, <2>3 DEF Request
<1>11. CASE Cleanup \/ Pass \/ UNCHANGED vars
  <2>1. UNCHANGED <<req, hub>>
    BY <1>11 DEF Cleanup, Pass, vars, hub
  <2>. QED
    BY <1>8, <2>1
<1>. QED
  BY <1>6, <1>7, <1>9, <1>10, <1>11, Zenon DEF Next

\* The list shows a user with a status it had while the list was made, unless a
\* ban was lifted in the meantime.
THEOREM ListTrue == Spec => []ListIsTrue
<1>1. Init => WebTypeOK /\ ListSees /\ ListIsTrue
  BY TypeInit, InvInit DEF Inv
<1>2. (WebTypeOK /\ ListSees /\ ListIsTrue) /\ [Next]_vars => (WebTypeOK /\ ListSees /\ ListIsTrue)'
  BY TypeStep, ListStep
<1>. QED
  BY <1>1, <1>2, PTL DEF Spec

----------------------------------------------------------------------------
(* The metrics.                                                               *)

\* A step that touches neither the metrics nor a request that works on them.
LEMMA MetricsQuiet ==
    ASSUME AloneOnMetrics, UNCHANGED metrics,
           \A u \in Tabs :
              \/ req'[u] = req[u]
              \/ /\ req[u].at \notin {"trim", "slice", "peak", "set"}
                 /\ req'[u].at \notin {"trim", "slice", "peak", "set"}
    PROVE  AloneOnMetrics'
<1>1. Updating' = Updating /\ \A u \in Updating : req'[u] = req[u]
  BY DEF Updating
<1>2. \A u \in Tabs : req'[u].at \in {"slice", "set"} => req'[u] = req[u]
  OBVIOUS
<1>3. UNCHANGED <<points, peak, overlap>>
  BY DEF metrics
<1>. QED
  BY <1>1, <1>2, <1>3 DEF AloneOnMetrics

\* The one request that works on the metrics goes on, or ends.
LEMMA MetricsAlone ==
    ASSUME WebTypeOK, NEW t \in Tabs, \A u \in Tabs \ {t} : req'[u] = req[u],
           ~overlap' => Updating \ {t} = {}
    PROVE  ~overlap' => /\ Updating' \subseteq {t}
                        /\ \A u \in Tabs : req'[u].at \in {"slice", "set"} => u = t
BY DEF Updating

LEMMA AddPointStep ==
    ASSUME WebTypeOK, AloneOnMetrics, NEW t \in Tabs, AddPoint(t)
    PROVE  AloneOnMetrics'
<1>. DEFINE r == [at |-> "trim", due |-> req[t].due, count |-> Count]
<1>1. req \in [Tabs -> Requests] /\ points \in Seq(Nat) /\ Count \in Nat
  BY DEF WebTypeOK, TypeMetrics, Count
<1>2. /\ req' = [req EXCEPT ![t] = r] /\ r.at = "trim" /\ r.count = Count
      /\ points' = Append(points, Count) /\ peak' = peak /\ req[t].at = "update"
      /\ overlap' = (overlap \/ Updating \ {t} # {})
  BY DEF AddPoint, Overlaps, To
<1>. HIDE DEF r
<1>3. SUFFICES ASSUME ~overlap' PROVE AloneOnMetrics'
  BY DEF AloneOnMetrics
<1>4. ~overlap /\ Updating \ {t} = {} /\ t \notin Updating
  BY <1>2, <1>3 DEF Updating
<1>5. req'[t] = r /\ \A u \in Tabs \ {t} : req'[u] = req[u]
  BY <1>1, <1>2
<1>6. Updating' = {t} /\ \A u \in Tabs : req'[u].at \notin {"slice", "set"}
  BY <1>2, <1>4, <1>5 DEF Updating
<1>7. \A i \in DOMAIN points : points[i] <= peak
  BY <1>4 DEF AloneOnMetrics
<1>8. \A i \in DOMAIN points' : points'[i] <= peak \/ points'[i] <= req'[t].count
  <2>1. ASSUME NEW i \in DOMAIN points'
        PROVE  points'[i] <= peak \/ points'[i] = Count
    BY <1>1, <1>2, <1>7
  <2>. QED
    BY <1>1, <1>2, <1>5, <2>1
<1>. QED
  BY <1>2, <1>6, <1>8 DEF AloneOnMetrics

LEMMA MeasureStep ==
    ASSUME WebTypeOK, AloneOnMetrics, NEW t \in Tabs,
           Trim(t) \/ Slice(t) \/ TestPeak(t) \/ SetPeak(t)
    PROVE  AloneOnMetrics'
<1>0. /\ req \in [Tabs -> Requests] /\ points \in Seq(Nat) /\ peak \in Nat
      /\ MaxPoints \in Nat \ {0}
  BY ConstAssumption DEF WebTypeOK, TypeMetrics
<1>1. req[t] \in Measure /\ req[t].count \in Nat
  BY <1>0, Kinds DEF Trim, Slice, TestPeak, SetPeak, Measure
<1>2. overlap' = overlap
  BY DEF Trim, Slice, TestPeak, SetPeak, metrics
<1>3. SUFFICES ASSUME ~overlap PROVE AloneOnMetrics'
  BY <1>2 DEF AloneOnMetrics
<1>4. t \in Updating
  BY DEF Trim, Slice, TestPeak, SetPeak, Updating
<1>5. Updating = {t}
  BY <1>3, <1>4 DEF AloneOnMetrics
<1>6. \A i \in DOMAIN points : points[i] <= peak \/ points[i] <= req[t].count
  BY <1>3, <1>5 DEF AloneOnMetrics
<1>7. \A u \in Tabs \ {t} : req'[u] = req[u]
  BY <1>0 DEF Trim, Slice, TestPeak, SetPeak, To, Answer
<1>8. Updating' \subseteq {t} /\ \A u \in Tabs : req'[u].at \in {"slice", "set"} => u = t
  <2>1. ~overlap' /\ Updating \ {t} = {}
    BY <1>2, <1>3, <1>5
  <2>. QED
    BY <1>7, <2>1, MetricsAlone
<1>9. ASSUME NEW at \in {"trim", "slice", "peak", "set"}, To(t, [req[t] EXCEPT !.at = at])
      PROVE  req'[t].at = at /\ req'[t].count = req[t].count /\ Updating' = {t}
  <2>1. req'[t] = [req[t] EXCEPT !.at = at]
    BY <1>0, <1>9 DEF To
  <2>2. [req[t] EXCEPT !.at = at].at = at /\ [req[t] EXCEPT !.at = at].count = req[t].count
    BY <1>1 DEF Measure
  <2>. QED
    BY <1>8, <2>1, <2>2 DEF Updating
<1>10. ASSUME Answer(t)
       PROVE  req'[t].at = "idle" /\ Updating' = {}
  BY <1>0, <1>8, <1>10 DEF Answer, Idle, Updating
<1>11. CASE Trim(t)
  <2>1. UNCHANGED <<points, peak>>
    BY <1>11 DEF Trim, metrics
  <2>2. PICK at \in {"slice", "peak"} :
           To(t, [req[t] EXCEPT !.at = at]) /\ (at = "slice" => Len(points) > MaxPoints)
    BY <1>11 DEF Trim
  <2>3. req'[t].at = at /\ req'[t].count = req[t].count /\ Updating' = {t}
    BY <1>9, <2>2
  <2>. QED
    BY <1>6, <1>8, <2>1, <2>2, <2>3 DEF AloneOnMetrics
<1>12. CASE Slice(t)
  <2>1. Len(points) > MaxPoints /\ Len(points) \in Nat
    BY <1>0, <1>3, <1>12 DEF Slice, AloneOnMetrics
  <2>2. /\ points' = SubSeq(points, Len(points) - MaxPoints + 1, Len(points))
        /\ To(t, [req[t] EXCEPT !.at = "peak"]) /\ peak' = peak
    BY <1>0, <1>12, <2>1 DEF Slice
  <2>3. req'[t].at = "peak" /\ req'[t].count = req[t].count /\ Updating' = {t}
    BY <1>9, <2>2
  <2>4. \A i \in DOMAIN points' : \E j \in DOMAIN points : points'[i] = points[j]
    <3>1. Len(points) - MaxPoints + 1 \in 1..Len(points) + 1 /\ DOMAIN points = 1..Len(points)
      BY <1>0, <2>1
    <3>. DEFINE m == Len(points) - MaxPoints + 1
                n == Len(points)
    <3>2. /\ m \in Int /\ n \in Int /\ m <= n /\ n - m + 1 = MaxPoints
          /\ \A i \in m..n : points[i] \in Nat
          /\ \A i \in 1..MaxPoints : m + i - 1 \in 1..n
      BY <1>0, <2>1
    <3>3. points' = SubSeq(points, m, n)
      BY <2>2
    <3>. HIDE DEF m, n
    <3>4. n = Len(points)
      BY DEF n
    <3>5. /\ points' \in Seq(Nat) /\ Len(points') = MaxPoints
          /\ \A i \in 1..MaxPoints : points'[i] = points[m + i - 1]
      BY <3>2, <3>3, SubSeqProperties
    <3>6. DOMAIN points' = 1..MaxPoints
      BY <1>0, <3>5
    <3>. QED
      BY <3>1, <3>2, <3>4, <3>5, <3>6
  <2>5. \A i \in DOMAIN points' : points'[i] <= peak \/ points'[i] <= req'[t].count
    BY <1>6, <2>3, <2>4
  <2>. QED
    BY <1>8, <2>2, <2>3, <2>5 DEF AloneOnMetrics
<1>13. CASE TestPeak(t)
  <2>1. UNCHANGED <<points, peak>>
    BY <1>13 DEF TestPeak, metrics
  <2>2. CASE req[t].count > peak
    <3>1. req'[t].at = "set" /\ req'[t].count = req[t].count /\ Updating' = {t}
      BY <1>9, <1>13, <2>2 DEF TestPeak
    <3>. QED
      BY <1>6, <1>8, <2>1, <2>2, <3>1 DEF AloneOnMetrics
  <2>3. CASE ~(req[t].count > peak)
    <3>1. req'[t].at = "idle" /\ Updating' = {}
      BY <1>10, <1>13, <2>3 DEF TestPeak, To, Answer
    <3>2. \A i \in DOMAIN points : points[i] <= peak
      <4>1. \A i \in DOMAIN points : points[i] \in Nat
        BY <1>0
      <4>. QED
        BY <1>0, <1>1, <1>6, <2>3, <4>1
    <3>. QED
      BY <1>8, <2>1, <3>1, <3>2 DEF AloneOnMetrics
  <2>. QED
    BY <2>2, <2>3
<1>14. CASE SetPeak(t)
  <2>1. points' = points /\ peak' = req[t].count
    BY <1>14 DEF SetPeak
  <2>2. req'[t].at = "idle" /\ Updating' = {}
    BY <1>10, <1>14 DEF SetPeak
  <2>3. req[t].count > peak
    BY <1>3, <1>14 DEF SetPeak, AloneOnMetrics
  <2>4. \A i \in DOMAIN points : points[i] <= peak'
    <3>1. \A i \in DOMAIN points : points[i] \in Nat
      BY <1>0
    <3>. QED
      BY <1>0, <1>1, <1>6, <2>1, <2>3, <3>1
  <2>. QED
    BY <1>8, <2>1, <2>2, <2>4 DEF AloneOnMetrics
<1>. QED
  BY <1>11, <1>12, <1>13, <1>14

LEMMA MetricsStep == WebTypeOK /\ AloneOnMetrics /\ [Next]_vars => AloneOnMetrics'
<1>. SUFFICES ASSUME WebTypeOK, AloneOnMetrics, [Next]_vars PROVE AloneOnMetrics'
  OBVIOUS
<1>0. req \in [Tabs -> Requests]
  BY DEF WebTypeOK
\* Requests that begin, and those that work on something else.
<1>1. ASSUME NEW t \in Tabs, NEW r, req' = [req EXCEPT ![t] = r], UNCHANGED metrics,
             req[t].at \notin {"trim", "slice", "peak", "set"},
             r.at \notin {"trim", "slice", "peak", "set"}
      PROVE  AloneOnMetrics'
  <2>1. req'[t] = r /\ \A u \in Tabs \ {t} : req'[u] = req[u]
    BY <1>0, <1>1
  <2>. QED
    BY <1>1, <2>1, MetricsQuiet
<1>2. ASSUME NEW t \in Tabs, Answer(t), UNCHANGED metrics,
             req[t].at \notin {"trim", "slice", "peak", "set"}
      PROVE  AloneOnMetrics'
  BY <1>1, <1>2 DEF Answer, Idle
<1>3. CASE UNCHANGED <<req, metrics>>
  BY <1>3, MetricsQuiet
<1>4. ASSUME UserMoves \/ \E t \in Tabs : UserAction(t)
      PROVE  AloneOnMetrics'
  <2>1. UNCHANGED metrics
    BY <1>4 DEF UserMoves, UserAction
  <2>2. \A u \in Tabs : \/ req[u].at = "user" /\ req'[u] = Idle
                        \/ req'[u] = Seen(req[u], online', held')
    BY <1>4 DEF UserMoves, UserAction
  <2>3. online' \in BOOLEAN /\ held' \in BOOLEAN
    BY <1>4 DEF UserMoves, UserAction, hub, WebTypeOK, TypeMetrics
  <2>4. ASSUME NEW u \in Tabs
        PROVE  \/ req'[u] = req[u]
               \/ /\ req[u].at \notin {"trim", "slice", "peak", "set"}
                  /\ req'[u].at \notin {"trim", "slice", "peak", "set"}
    <3>1. CASE req[u].at = "user" /\ req'[u] = Idle
      BY <3>1 DEF Idle
    <3>2. CASE req'[u] = Seen(req[u], online', held') /\ req[u].at = "bans"
      BY <1>0, <2>3, <3>2, SeenKeeps
    <3>3. CASE req'[u] = Seen(req[u], online', held') /\ req[u].at # "bans"
      BY <3>3, SeenOthers
    <3>. QED
      BY <2>2, <3>1, <3>2, <3>3
  <2>. QED
    BY <2>1, <2>4, MetricsQuiet
<1>5. CASE Restart
  <2>1. points' = <<>> /\ \A u \in Tabs : req'[u].at = "idle"
    BY <1>5 DEF Restart, Idle
  <2>2. Updating' = {} /\ DOMAIN points' = {}
    BY <2>1 DEF Updating
  <2>. QED
    BY <2>1, <2>2 DEF AloneOnMetrics
\* A reset that met no other request leaves nobody at work.
<1>6. ASSUME NEW t \in Tabs, ResetMetrics(t)
      PROVE  AloneOnMetrics'
  <2>1. /\ req' = [req EXCEPT ![t] = Idle] /\ req[t].at = "reset"
        /\ points' = <<>> /\ overlap' = (overlap \/ Updating \ {t} # {})
    BY <1>6 DEF ResetMetrics, Answer, Overlaps
  <2>2. req'[t].at = "idle" /\ \A u \in Tabs \ {t} : req'[u] = req[u]
    BY <1>0, <2>1 DEF Idle
  <2>. SUFFICES ASSUME ~overlap' PROVE AloneOnMetrics'
    BY DEF AloneOnMetrics
  <2>3. \A u \in Tabs : req'[u].at \notin {"trim", "slice", "peak", "set"}
    BY <2>1, <2>2 DEF Updating
  <2>4. Updating' = {} /\ DOMAIN points' = {}
    BY <2>1, <2>3 DEF Updating
  <2>. QED
    BY <2>1, <2>3, <2>4 DEF AloneOnMetrics
<1>7. ASSUME NEW t \in Tabs, ReadClients(t)
      PROVE  AloneOnMetrics'
  <2>. DEFINE r == [at |-> "bans", due |-> req[t].due, online |-> online,
                    had |-> {Status(online, held)}, lifted |-> FALSE]
  <2>1. req' = [req EXCEPT ![t] = r] /\ req[t].at = "users" /\ UNCHANGED metrics
    BY <1>7 DEF ReadClients, To
  <2>2. r.at = "bans"
    OBVIOUS
  <2>. HIDE DEF r
  <2>. QED
    BY <1>1, <2>1, <2>2
<1>8. ASSUME NEW t \in Tabs, ReadBans(t)
      PROVE  AloneOnMetrics'
  <2>. DEFINE r == [at |-> "listed", due |-> req[t].due,
                    status |-> Status(req[t].online, held),
                    had |-> req[t].had, lifted |-> req[t].lifted]
  <2>1. req' = [req EXCEPT ![t] = r] /\ req[t].at = "bans" /\ UNCHANGED metrics
    BY <1>8 DEF ReadBans, List, To
  <2>2. r.at = "listed"
    OBVIOUS
  <2>. HIDE DEF r
  <2>. QED
    BY <1>1, <2>1, <2>2
<1>9. ASSUME NEW t \in Tabs, Handle(t)
      PROVE  AloneOnMetrics'
  <2>1. CASE LoginRefused(t) \/ WrongKey(t) \/ BadBody(t) \/ RightKey(t)
             \/ Denied(t) \/ OtherAction(t) \/ NoList(t) \/ Listed(t)
    <3>1. Answer(t) /\ UNCHANGED metrics /\ req[t].at \notin {"trim", "slice", "peak", "set"}
      BY <2>1 DEF LoginRefused, WrongKey, BadBody, RightKey, Denied, OtherAction, NoList, Listed
    <3>. QED
      BY <1>2, <3>1
  <2>2. CASE AddPoint(t)
    BY <2>2, AddPointStep
  <2>3. CASE Trim(t) \/ Slice(t) \/ TestPeak(t) \/ SetPeak(t)
    BY <2>3, MeasureStep
  <2>. QED
    BY <1>4, <1>6, <1>7, <1>8, <1>9, <2>1, <2>2, <2>3 DEF Handle
<1>10. ASSUME NEW t \in Tabs, Request(t)
       PROVE  AloneOnMetrics'
  <2>1. CASE FetchToken(t)
    BY <1>3, <2>1 DEF FetchToken
  <2>2. CASE LoginBegins(t)
    <3>. DEFINE r == [at |-> IF RateLimited THEN "refused" ELSE "admitted"]
    <3>1. req' = [req EXCEPT ![t] = r] /\ req[t] = Idle /\ UNCHANGED metrics
      BY <2>2 DEF LoginBegins, Ask, To
    <3>2. r.at \in {"refused", "admitted"} /\ Idle.at = "idle"
      BY DEF Idle
    <3>. HIDE DEF r
    <3>. QED
      BY <1>1, <3>1, <3>2
  <2>3. ASSUME NEW op \in {"user", "call", "reset", "update", "users"}, Post(t, op) \/ Get(t, op)
        PROVE  AloneOnMetrics'
    <3>0. req[t] = Idle /\ Idle.at = "idle" /\ UNCHANGED metrics
      BY <2>3 DEF Post, Get, Ask, Idle
    <3>1. CASE Post(t, op)
      <4>. DEFINE r == [at |-> IF ValidSession(cookie) /\ ValidCSRF(t) THEN op ELSE "denied",
                        due |-> LoggedIn /\ PageIsCurrent(t)]
      <4>1. req' = [req EXCEPT ![t] = r]
        BY <3>1 DEF Post, To
      <4>2. r.at \notin {"trim", "slice", "peak", "set"}
        OBVIOUS
      <4>. HIDE DEF r
      <4>. QED
        BY <1>1, <3>0, <4>1, <4>2
    <3>2. CASE Get(t, op)
      <4>. DEFINE r == [at |-> IF ValidSession(cookie) THEN op ELSE "denied", due |-> LoggedIn]
      <4>1. req' = [req EXCEPT ![t] = r]
        BY <3>2 DEF Get, To
      <4>2. r.at \notin {"trim", "slice", "peak", "set"}
        OBVIOUS
      <4>. HIDE DEF r
      <4>. QED
        BY <1>1, <3>0, <4>1, <4>2
    <3>. QED
      BY <2>3, <3>1, <3>2
  <2>. QED
    BY <1>10, <2>1, <2>2, <2>3 DEF Request
<1>11. CASE Cleanup \/ Pass \/ UNCHANGED vars
  <2>1. UNCHANGED <<req, metrics>>
    BY <1>11 DEF Cleanup, Pass, vars, metrics
  <2>. QED
    BY <1>3, <2>1
<1>. QED
  BY <1>4, <1>5, <1>9, <1>10, <1>11, Zenon DEF Next

\* Updates and resets of the metrics that never met leave a peak that covers
\* the whole history, whatever their number and order.
THEOREM PeakCoversAll == Spec => []PeakCovers
<1>1. Init => WebTypeOK /\ AloneOnMetrics
  BY TypeInit, InvInit DEF Inv
<1>2. (WebTypeOK /\ AloneOnMetrics) /\ [Next]_vars => (WebTypeOK /\ AloneOnMetrics)'
  BY TypeStep, MetricsStep
<1>3. AloneOnMetrics => PeakCovers
  BY DEF AloneOnMetrics, PeakCovers
<1>. QED
  BY <1>1, <1>2, <1>3, PTL DEF Spec

----------------------------------------------------------------------------
(* The limit on wrong keys.  The counter of the address stands for the wrong  *)
(* keys that are still in a window that is open now; who has passed the limit *)
(* and not answered yet may add one each; a window that is over has what it   *)
(* had.                                                                       *)

Trying == {t \in Tabs : req[t].at = "admitted"}
Limit == MaxAttempts + Cardinality(Tabs) - 1
Open(i) == now - wrong[i] <= Window
InWindow(i) == {j \in i..Len(wrong) : wrong[j] - wrong[i] <= Window}

\* The counter has missed none of an open window, and is not older.
Counted(i) ==
    /\ attempts # None /\ attempts.last >= wrong[i]
    /\ attempts.count >= Len(wrong) - i + 1

KeysInv ==
    \A i \in DOMAIN wrong :
        /\ wrong[i] <= now
        /\ Open(i) => Counted(i) /\ Len(wrong) - i + 1 + Cardinality(Trying) <= Limit
        /\ Cardinality(InWindow(i)) <= Limit

LEMMA TabsCount ==
    /\ Cardinality(Tabs) \in Nat
    /\ \A S \in SUBSET Tabs : /\ IsFiniteSet(S) /\ Cardinality(S) \in Nat
                              /\ Cardinality(S) <= Cardinality(Tabs)
<1>1. Cardinality(Tabs) \in Nat
  BY TabsAssumption, FS_CardinalityType
<1>2. ASSUME NEW S \in SUBSET Tabs
      PROVE  IsFiniteSet(S) /\ Cardinality(S) \in Nat /\ Cardinality(S) <= Cardinality(Tabs)
  <2>1. IsFiniteSet(S) /\ Cardinality(S) <= Cardinality(Tabs)
    BY TabsAssumption, FS_Subset
  <2>. QED
    BY <2>1, FS_CardinalityType
<1>. QED
  BY <1>1, <1>2

\* Nothing but time and who tries changes: no window grows, fewer are open.
LEMMA KeysCalm ==
    ASSUME WebTypeOK, KeysInv, wrong' = wrong, attempts' = attempts,
           now' \in Nat, now' >= now, Trying' \subseteq Trying
    PROVE  KeysInv'
<1>. SUFFICES ASSUME NEW i \in DOMAIN wrong
              PROVE  /\ wrong[i] <= now'
                     /\ now' - wrong[i] <= Window
                        => Counted(i) /\ Len(wrong) - i + 1 + Cardinality(Trying') <= Limit
                     /\ Cardinality(InWindow(i)) <= Limit
  BY DEF KeysInv, Open, Counted, InWindow, Limit
<1>1. wrong[i] \in Nat /\ now \in Nat /\ Window \in Nat /\ MaxAttempts \in Nat /\ Len(wrong) \in Nat
      /\ i \in Nat
  BY ConstAssumption DEF WebTypeOK, TypeSession
<1>2. Cardinality(Trying') <= Cardinality(Trying) /\ {Cardinality(Trying), Cardinality(Trying')} \subseteq Nat
      /\ Cardinality(Tabs) \in Nat
  <2>1. Trying \subseteq Tabs /\ IsFiniteSet(Trying)
    BY TabsCount DEF Trying
  <2>. QED
    BY <2>1, TabsCount, FS_Subset, FS_CardinalityType
<1>3. wrong[i] <= now /\ Cardinality(InWindow(i)) <= Limit
  BY DEF KeysInv
<1>4. ASSUME now' - wrong[i] <= Window
      PROVE  Counted(i) /\ Len(wrong) - i + 1 + Cardinality(Trying') <= Limit
  <2>1. Open(i)
    BY <1>1, <1>4 DEF Open
  <2>2. Counted(i) /\ Len(wrong) - i + 1 + Cardinality(Trying) <= Limit
    BY <2>1 DEF KeysInv
  <2>. QED
    BY <1>1, <1>2, <2>2 DEF Limit
<1>. QED
  BY <1>1, <1>3, <1>4

\* No wrong key is remembered.
LEMMA KeysForgotten == ASSUME wrong' = <<>> PROVE KeysInv'
BY DEF KeysInv

LEMMA WrongKeyStep ==
    ASSUME WebTypeOK, KeysInv, NEW t \in Tabs, WrongKey(t)
    PROVE  KeysInv'
<1>1. wrong \in Seq(Nat) /\ now \in Nat /\ now' = now /\ wrong' = Append(wrong, now)
      /\ Window \in Nat /\ MaxAttempts \in Nat \ {0}
  BY ConstAssumption DEF WebTypeOK, TypeSession, WrongKey
<1>2. /\ Len(wrong') = Len(wrong) + 1 /\ Len(wrong) \in Nat /\ DOMAIN wrong' = 1..(Len(wrong) + 1)
      /\ \A i \in 1..Len(wrong) : wrong'[i] = wrong[i] /\ wrong[i] \in Nat
      /\ wrong'[Len(wrong) + 1] = now /\ DOMAIN wrong = 1..Len(wrong)
  BY <1>1
<1>. DEFINE n == Len(wrong)
<1>3. /\ Cardinality(Trying') = Cardinality(Trying) - 1
      /\ Cardinality(Trying) \in Nat /\ Cardinality(Trying') \in Nat /\ Cardinality(Tabs) \in Nat
      /\ Cardinality(Trying) <= Cardinality(Tabs)
  <2>1. t \in Trying /\ Trying \subseteq Tabs
    BY DEF WrongKey, Trying
  <2>2. Trying' = Trying \ {t}
    <3>1. req'[t].at # "admitted" /\ \A u \in Tabs \ {t} : req'[u] = req[u]
      BY DEF WrongKey, Answer, Idle, WebTypeOK
    <3>. QED
      BY <3>1 DEF Trying
  <2>3. IsFiniteSet(Trying) /\ Cardinality(Trying \ {t}) = Cardinality(Trying) - 1
    BY <2>1, TabsCount, FS_RemoveElement
  <2>. QED
    BY <2>1, <2>2, <2>3, TabsCount, FS_CardinalityType
<1>4. /\ attempts' # None /\ attempts'.last = now /\ attempts'.count \in Nat \ {0}
      /\ attempts # None /\ now - attempts.last <= Window => attempts'.count = attempts.count + 1
  <2>1. CASE attempts = None \/ now - attempts.last > Window
    <3>1. attempts' = [count |-> 1, last |-> now]
      BY <2>1 DEF WrongKey, RecordFailed
    <3>2. attempts' \in [count : Nat, last : Nat] /\ attempts'.count = 1 /\ attempts'.last = now
      BY <1>1, <3>1
    <3>3. attempts # None /\ now - attempts.last <= Window => FALSE
      BY <1>1, <2>1 DEF WebTypeOK, TypeSession
    <3>. QED
      BY <3>2, <3>3, NoneAssumption
  <2>2. CASE ~(attempts = None \/ now - attempts.last > Window)
    <3>1. attempts' = [count |-> attempts.count + 1, last |-> now] /\ attempts \in [count : Nat, last : Nat]
      BY <2>2 DEF WrongKey, RecordFailed, WebTypeOK, TypeSession
    <3>. QED
      BY <1>1, <3>1, NoneAssumption
  <2>. QED
    BY <2>1, <2>2
<1>5. ASSUME NEW i \in 1..n, now - wrong[i] <= Window
      PROVE  attempts'.count >= n + 1 - i + 1 /\ n + 1 - i + 1 + Cardinality(Trying') <= Limit
  <2>1. Counted(i) /\ n - i + 1 + Cardinality(Trying) <= Limit
    BY <1>2, <1>5 DEF KeysInv, Open
  <2>2. attempts \in [count : Nat, last : Nat]
    BY <2>1 DEF Counted, WebTypeOK, TypeSession
  <2>3. now - attempts.last <= Window
    BY <1>1, <1>2, <1>5, <2>1, <2>2 DEF Counted
  <2>4. attempts'.count = attempts.count + 1 /\ attempts.count \in Nat
    BY <1>4, <2>1, <2>2, <2>3 DEF Counted
  <2>5. attempts.count >= n - i + 1
    BY <2>1 DEF Counted
  <2>6. n \in Nat /\ i \in Nat
    BY <1>2
  <2>7. n + 1 - i + 1 + Cardinality(Trying') = n - i + 1 + Cardinality(Trying)
    BY <1>3, <2>6
  <2>8. attempts'.count >= n + 1 - i + 1
    BY <2>4, <2>5, <2>6
  <2>. QED
    BY <2>1, <2>7, <2>8
<1>6. 1 + Cardinality(Trying') <= Limit
  BY <1>1, <1>3 DEF Limit
<1>. SUFFICES ASSUME NEW i \in DOMAIN wrong'
              PROVE  /\ wrong'[i] <= now'
                     /\ Open(i)' => Counted(i)' /\ (Len(wrong) - i + 1 + Cardinality(Trying) <= Limit)'
                     /\ Cardinality(InWindow(i)') <= Limit
  BY Zenon DEF KeysInv, Limit
<1>. i \in 1..(n + 1)
  BY <1>2
<1>7. wrong'[i] <= now /\ wrong'[i] \in Nat
  BY <1>1, <1>2 DEF KeysInv
<1>8. now - wrong'[i] <= Window =>
         /\ attempts'.count >= n + 1 - i + 1
         /\ n + 1 - i + 1 + Cardinality(Trying') <= Limit
  <2>1. CASE i = n + 1
    BY <1>2, <1>4, <1>6, <2>1
  <2>2. CASE i \in 1..n
    BY <1>2, <1>5, <2>2
  <2>. QED
    BY <1>2, <2>1, <2>2
<1>9. ASSUME now - wrong'[i] > Window
      PROVE  Cardinality(InWindow(i)') <= Limit
  <2>1. i \in 1..n
    BY <1>1, <1>2, <1>9
  <2>2. InWindow(i)' = InWindow(i)
    BY <1>1, <1>2, <1>9, <2>1 DEF InWindow
  <2>. QED
    BY <1>2, <1>7, <1>8, <1>9, <2>1, <2>2 DEF KeysInv
<1>10. ASSUME now - wrong'[i] <= Window
       PROVE  Cardinality(InWindow(i)') <= Limit
  <2>1. InWindow(i)' \subseteq i..(n + 1)
    BY <1>2 DEF InWindow
  <2>2. IsFiniteSet(i..(n + 1)) /\ Cardinality(i..(n + 1)) = n + 1 - i + 1
    BY <1>2, FS_Interval
  <2>3. Cardinality(InWindow(i)') <= n + 1 - i + 1 /\ Cardinality(InWindow(i)') \in Nat
    BY <2>1, <2>2, FS_Subset, FS_CardinalityType
  <2>4. Limit \in Int
    BY <1>1, <1>3 DEF Limit
  <2>. QED
    BY <1>2, <1>3, <1>7, <1>8, <1>10, <2>3, <2>4
<1>11. Open(i)' => Counted(i)'
  BY <1>1, <1>2, <1>4, <1>7, <1>8 DEF Open, Counted
<1>12. Open(i)' => (Len(wrong) - i + 1 + Cardinality(Trying) <= Limit)'
  BY <1>1, <1>2, <1>8 DEF Open, Limit
<1>13. Cardinality(InWindow(i)') <= Limit
  BY <1>1, <1>7, <1>9, <1>10
<1>. QED
  BY <1>1, <1>7, <1>11, <1>12, <1>13

\* Whoever passes the limit finds the counter below it: the open windows have
\* room for one wrong key of every tab.
LEMMA LoginStep ==
    ASSUME WebTypeOK, KeysInv, NEW t \in Tabs, LoginBegins(t)
    PROVE  KeysInv'
<1>1. UNCHANGED <<wrong, attempts, now>>
  BY DEF LoginBegins
<1>2. CASE RateLimited
  <2>1. Trying' \subseteq Trying
    BY <1>2 DEF LoginBegins, To, Trying, WebTypeOK
  <2>. QED
    BY <1>1, <2>1, KeysCalm DEF WebTypeOK, TypeSession
<1>3. CASE ~RateLimited
  <2>1. Cardinality(Trying') <= Cardinality(Tabs) /\ Cardinality(Trying') \in Nat /\ Cardinality(Tabs) \in Nat
    BY TabsCount DEF Trying
  <2>2. ASSUME NEW i \in DOMAIN wrong, Open(i)
        PROVE  Counted(i) /\ Len(wrong) - i + 1 + Cardinality(Trying') <= Limit
    <3>1. Counted(i) /\ wrong[i] \in Nat /\ now \in Nat /\ Window \in Nat /\ MaxAttempts \in Nat
          /\ Len(wrong) \in Nat /\ i \in Nat
      BY <2>2, ConstAssumption DEF KeysInv, WebTypeOK, TypeSession
    <3>2. attempts \in [count : Nat, last : Nat]
      BY <3>1 DEF Counted, WebTypeOK, TypeSession
    <3>3. attempts.count < MaxAttempts
      BY <1>3, <2>2, <3>1, <3>2 DEF RateLimited, Counted, Open
    <3>. QED
      BY <2>1, <3>1, <3>2, <3>3 DEF Counted, Limit
  <2>. QED
    BY <1>1, <2>2 DEF KeysInv, Open, Counted, InWindow, Limit
<1>. QED
  BY <1>2, <1>3

LEMMA KeysStep == WebTypeOK /\ KeysInv /\ [Next]_vars => KeysInv'
<1>. SUFFICES ASSUME WebTypeOK, KeysInv, [Next]_vars PROVE KeysInv'
  OBVIOUS
<1>0. now \in Nat /\ req \in [Tabs -> Requests]
  BY DEF WebTypeOK, TypeSession
<1>1. ASSUME UNCHANGED <<wrong, attempts, now>>, Trying' \subseteq Trying
      PROVE  KeysInv'
  BY <1>0, <1>1, KeysCalm
<1>2. ASSUME NEW t \in Tabs, NEW r, To(t, r), r.at # "admitted"
      PROVE  Trying' \subseteq Trying
  BY <1>0, <1>2 DEF To, Trying
<1>3. ASSUME NEW t \in Tabs, Answer(t)
      PROVE  Trying' \subseteq Trying
  BY <1>0, <1>3 DEF Answer, Idle, Trying
<1>4. ASSUME NEW t \in Tabs, Request(t)
      PROVE  KeysInv'
  <2>1. CASE LoginBegins(t)
    BY <2>1, LoginStep
  <2>2. CASE FetchToken(t)
    BY <1>1, <2>2 DEF FetchToken, Trying
  <2>3. ASSUME NEW op \in {"user", "call", "reset"}, Post(t, op)
        PROVE  KeysInv'
    BY <1>1, <1>2, <2>3 DEF Post
  <2>4. ASSUME NEW op \in {"update", "users"}, Get(t, op)
        PROVE  KeysInv'
    BY <1>1, <1>2, <2>4 DEF Get
  <2>. QED
    BY <1>4, <2>1, <2>2, <2>3, <2>4 DEF Request
<1>5. ASSUME UserMoves \/ \E t \in Tabs : UserAction(t)
      PROVE  KeysInv'
  <2>1. online' \in BOOLEAN /\ held' \in BOOLEAN
    BY <1>5 DEF UserMoves, UserAction, WebTypeOK, TypeMetrics, hub
  <2>2. \A u \in Tabs : Seen(req[u], online', held').at = req[u].at
    BY <1>0, <2>1, SeenKeeps
  <2>3. \A u \in Tabs : req'[u] \in {Idle, Seen(req[u], online', held')}
    BY <1>5 DEF UserMoves, UserAction
  <2>4. Trying' \subseteq Trying
    BY <2>2, <2>3 DEF Trying, Idle
  <2>. QED
    BY <1>1, <1>5, <2>4 DEF UserMoves, UserAction
<1>6. ASSUME NEW t \in Tabs, Handle(t)
      PROVE  KeysInv'
  <2>1. CASE WrongKey(t)
    BY <2>1, WrongKeyStep
  <2>2. CASE RightKey(t)
    BY <2>2, KeysForgotten DEF RightKey
  <2>3. CASE UserAction(t)
    BY <1>5, <2>3
  <2>4. CASE LoginRefused(t) \/ BadBody(t) \/ Denied(t) \/ OtherAction(t) \/ SetPeak(t)
             \/ ResetMetrics(t) \/ NoList(t) \/ Listed(t)
    BY <1>1, <1>3, <2>4 DEF LoginRefused, BadBody, Denied, OtherAction, SetPeak, ResetMetrics, NoList, Listed
  <2>5. CASE AddPoint(t) \/ ReadClients(t) \/ ReadBans(t)
    BY <1>1, <1>2, <2>5 DEF AddPoint, ReadClients, ReadBans, List
  <2>6. CASE Trim(t) \/ Slice(t) \/ TestPeak(t)
    <3>1. req[t] \in Measure
      BY <1>0, <2>6, Kinds DEF Trim, Slice, TestPeak
    <3>2. ASSUME NEW at \in {"slice", "peak", "set"}, To(t, [req[t] EXCEPT !.at = at])
          PROVE  Trying' \subseteq Trying
      BY <1>2, <3>1, <3>2 DEF Measure
    <3>3. ASSUME To(t, Idle) PROVE Trying' \subseteq Trying
      BY <1>2, <3>3 DEF Idle
    <3>4. Trying' \subseteq Trying
      BY <1>3, <2>6, <3>2, <3>3 DEF Trim, Slice, TestPeak
    <3>. QED
      BY <1>1, <2>6, <3>4 DEF Trim, Slice, TestPeak
  <2>. QED
    BY <1>6, <2>1, <2>2, <2>3, <2>4, <2>5, <2>6 DEF Handle
<1>7. CASE Cleanup
  <2>1. attempts \in [count : Nat, last : Nat]
    BY <1>7 DEF Cleanup, WebTypeOK, TypeSession
  <2>2. ASSUME NEW i \in DOMAIN wrong, Open(i) PROVE FALSE
    BY <1>0, <1>7, <2>1, <2>2, ConstAssumption DEF Cleanup, KeysInv, Open, Counted, WebTypeOK, TypeSession
  <2>. QED
    BY <1>7, <2>2 DEF Cleanup, KeysInv, Open, InWindow, Limit
<1>8. CASE Pass
  <2>1. Trying' \subseteq Trying
    BY <1>8 DEF Pass, Trying
  <2>. QED
    BY <1>0, <1>8, <2>1, KeysCalm DEF Pass
<1>9. CASE Restart
  BY <1>9, KeysForgotten DEF Restart
<1>10. CASE UNCHANGED vars
  BY <1>1, <1>10 DEF vars, Trying
<1>. QED
  BY <1>4, <1>5, <1>6, <1>7, <1>8, <1>9, <1>10 DEF Next

\* In no window are more than five wrong keys tried, but for those that passed
\* the limit together: for any limit, window and number of requests at once.
THEOREM WrongKeysStayBounded == Spec => []WrongKeysBounded
<1>1. Init => WebTypeOK /\ KeysInv
  BY TypeInit DEF Init, KeysInv
<1>2. (WebTypeOK /\ KeysInv) /\ [Next]_vars => (WebTypeOK /\ KeysInv)'
  BY TypeStep, KeysStep
<1>3. KeysInv => WrongKeysBounded
  BY DEF KeysInv, WrongKeysBounded, InWindow, Limit
<1>. QED
  BY <1>1, <1>2, <1>3, PTL DEF Spec
=============================================================================
