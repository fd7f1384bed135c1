------------------------------ MODULE AdminWeb ------------------------------
(* The web admin panel (server/admin_web.go): logins with a limit on wrong   *)
(* keys, sessions that live in a signed cookie only, a token in the session  *)
(* that every action has to repeat, and handlers that run concurrently, one  *)
(* goroutine a request, over the hub and over metrics that no lock guards.   *)
(* One browser with several tabs: they share the cookie, each page keeps the *)
(* token it fetched.                                                         *)
EXTENDS Naturals, Sequences, FiniteSets

CONSTANTS
    Tabs,
    MaxAttempts,    \* 5 in the code
    Window,         \* 15 minutes in the code
    Life,           \* a session's hour
    MaxPoints,      \* 100 in the code
    MaxTime,        \* bound: the time
    MaxRequests,    \* bound: requests
    MaxRestarts,    \* bound: restarts of the server
    None

ASSUME TabsAssumption == IsFiniteSet(Tabs)

ASSUME ConstAssumption ==
    /\ MaxAttempts \in Nat \ {0} /\ Window \in Nat /\ Life \in Nat \ {0}
    /\ MaxPoints \in Nat \ {0} /\ MaxTime \in Nat /\ MaxRequests \in Nat /\ MaxRestarts \in Nat

\* None is a value of its own: it stands for nil and for a missing entry.
ASSUME NoneAssumption ==
    /\ None \notin Nat
    /\ None \notin [count : Nat, last : Nat]
    /\ None \notin [secret : Nat, expires : Nat, token : Nat]
    /\ None \notin [at : Nat, start : Nat, number : Nat]

VARIABLES
    now,
    configured,     \* cfg.SessionSecret is set
    starts,         \* starts of the server so far; names the secret drawn at the last one
    attempts,       \* loginAttempts of the address: None or count and time of the last
    cookie,         \* None, or the session: secret, expiry, token
    token,          \* the token each tab's page holds
    req,            \* the request each tab waits for
    online, held,   \* one user of the hub: connected; banned or kicked
    points, peak,   \* metrics.ConnectionHistory and PeakUsers
    wrong,          \* history: times of the wrong keys since a right one, or a start
    login,          \* history: the last right key: time, start, number
    overlap,        \* history: two requests worked on the metrics at once
    requests        \* requests so far

hub == <<online, held>>
metrics == <<points, peak, overlap>>
session == <<cookie, login>>
vars == <<now, configured, starts, attempts, cookie, token, req, online, held,
          points, peak, wrong, login, overlap, requests>>

Idle == [at |-> "idle"]

\* generateSessionSecret, unless one is configured.
Secret == IF configured THEN 0 ELSE starts

Init ==
    /\ now = 0 /\ configured \in BOOLEAN /\ starts = 1
    /\ attempts = None /\ cookie = None
    /\ token = [t \in Tabs |-> None] /\ req = [t \in Tabs |-> Idle]
    /\ online = FALSE /\ held = FALSE
    /\ points = <<>> /\ peak = 0
    /\ wrong = <<>> /\ login = None /\ overlap = FALSE /\ requests = 0

----------------------------------------------------------------------------
(* Sessions. *)

\* Mutant: the signature is not compared.
ValidUnsigned(c) == c # None /\ now < c.expires

\* validateSession
ValidSession(c) == c # None /\ c.secret = Secret /\ now < c.expires

\* validateCSRF: the token of the page is the one inside the session.
ValidCSRF(t) == token[t] # None /\ cookie # None /\ token[t] = cookie.token

Answer(t) == req' = [req EXCEPT ![t] = Idle]
To(t, r) == req' = [req EXCEPT ![t] = r]

Ask(t) ==
    /\ req[t] = Idle
    /\ requests < MaxRequests /\ requests' = requests + 1

----------------------------------------------------------------------------
(* handleLogin.  The limit is read, then the body, then the failure is        *)
(* recorded: requests in between have passed the limit as well.               *)

\* Mutant: off by one.
RateLimitedLate ==
    /\ attempts # None
    /\ now - attempts.last <= Window
    /\ attempts.count > MaxAttempts

\* isRateLimited
RateLimited ==
    /\ attempts # None
    /\ now - attempts.last <= Window
    /\ attempts.count >= MaxAttempts

LoginBegins(t) ==
    /\ Ask(t)
    /\ To(t, [at |-> IF RateLimited THEN "refused" ELSE "admitted"])
    /\ UNCHANGED <<now, configured, starts, attempts, session, token, hub, metrics, wrong>>

LoginRefused(t) ==
    /\ req[t].at = "refused" /\ Answer(t)
    /\ UNCHANGED <<now, configured, starts, attempts, session, token, hub, metrics, wrong, requests>>

RecordFailed ==
    attempts' = IF attempts = None \/ now - attempts.last > Window
                THEN [count |-> 1, last |-> now]
                ELSE [count |-> attempts.count + 1, last |-> now]

WrongKey(t) ==
    /\ req[t].at = "admitted" /\ Answer(t)
    /\ RecordFailed
    /\ wrong' = Append(wrong, now)
    /\ UNCHANGED <<now, configured, starts, session, token, hub, metrics, requests>>

\* A body that cannot be decoded is not counted.
BadBody(t) ==
    /\ req[t].at = "admitted" /\ Answer(t)
    /\ UNCHANGED <<now, configured, starts, attempts, session, token, hub, metrics, wrong, requests>>

RightKey(t) ==
    /\ req[t].at = "admitted" /\ Answer(t)
    /\ attempts' = None /\ wrong' = <<>>
    /\ LET number == IF login = None THEN 1 ELSE login.number + 1
       IN /\ login' = [at |-> now, start |-> starts, number |-> number]
          /\ cookie' = [secret |-> Secret, expires |-> now + Life, token |-> number]
    /\ UNCHANGED <<now, configured, starts, token, hub, metrics, requests>>

\* cleanupRateLimiting
Cleanup ==
    /\ attempts # None /\ now - attempts.last > Window
    /\ attempts' = None
    /\ UNCHANGED <<now, configured, starts, session, token, req, hub, metrics, wrong, requests>>

----------------------------------------------------------------------------
(* auth and authWithCSRF wrap every handler but those of the login.  The      *)
(* outcome of the check is kept with the request, for the property.           *)

\* handleCSRFToken
FetchToken(t) ==
    /\ Ask(t)
    /\ token' = [token EXCEPT ![t] = IF ValidSession(cookie) THEN cookie.token ELSE None]
    /\ UNCHANGED <<now, configured, starts, attempts, session, req, hub, metrics, wrong>>

\* The rule the checks come to: the hour and the server's secret of the last
\* login hold, and the page's token is of that login.
LoggedIn == login # None /\ now < login.at + Life /\ (configured \/ login.start = starts)
PageIsCurrent(t) == login # None /\ token[t] = login.number

Post(t, op) ==
    /\ Ask(t)
    /\ To(t, [at |-> IF ValidSession(cookie) /\ ValidCSRF(t) THEN op ELSE "denied",
              due |-> LoggedIn /\ PageIsCurrent(t)])
    /\ UNCHANGED <<now, configured, starts, attempts, session, token, hub, metrics, wrong>>

Get(t, op) ==
    /\ Ask(t)
    /\ To(t, [at |-> IF ValidSession(cookie) THEN op ELSE "denied", due |-> LoggedIn])
    /\ UNCHANGED <<now, configured, starts, attempts, session, token, hub, metrics, wrong>>

Denied(t) ==
    /\ req[t].at = "denied" /\ Answer(t)
    /\ UNCHANGED <<now, configured, starts, attempts, session, token, hub, metrics, wrong, requests>>

\* The status of a user as the list words it.
Status(on, h) == IF h THEN "Banned" ELSE IF on THEN "Online" ELSE "Offline"

\* History of the requests that are making a list, as the user becomes on and
\* h: the statuses it had since the first read, and whether a ban was lifted.
Seen(r, on, h) ==
    IF r.at = "bans"
    THEN [r EXCEPT !.had = @ \cup {Status(on, h)}, !.lifted = @ \/ (held /\ ~h)]
    ELSE r

\* handleUserAction: ban and kick, unban and allow.  Who is banned while
\* connected leaves the hub a little later.
UserAction(t) ==
    /\ req[t].at = "user"
    /\ \/ held' = ~held /\ UNCHANGED online
       \/ UNCHANGED hub     \* the call fails, make_admin, an unknown action
    /\ req' = [u \in Tabs |-> IF u = t THEN Idle ELSE Seen(req[u], online', held')]
    /\ UNCHANGED <<now, configured, starts, attempts, session, token, metrics, wrong, requests>>

\* handleSystemAction and handlePluginAction call the database and the plugin
\* manager, which other modules describe.
OtherAction(t) ==
    /\ req[t].at = "call" /\ Answer(t)
    /\ UNCHANGED <<now, configured, starts, attempts, session, token, hub, metrics, wrong, requests>>

----------------------------------------------------------------------------
(* Metrics: updateMetrics by handleRefresh and handleMetrics, resetMetrics by *)
(* handleMetricsAction.                                                       *)

Updating == {u \in Tabs : req[u].at \in {"trim", "slice", "peak", "set"}}
Overlaps(t) == overlap' = (overlap \/ Updating \ {t} # {})
Count == IF online THEN 1 ELSE 0

AddPoint(t) ==
    /\ req[t].at = "update"
    /\ points' = Append(points, Count)
    /\ To(t, [at |-> "trim", due |-> req[t].due, count |-> Count])
    /\ Overlaps(t)
    /\ UNCHANGED <<now, configured, starts, attempts, session, token, hub, peak, wrong, requests>>

Trim(t) ==
    /\ req[t].at = "trim"
    /\ To(t, [req[t] EXCEPT !.at = IF Len(points) > MaxPoints THEN "slice" ELSE "peak"])
    /\ UNCHANGED <<now, configured, starts, attempts, session, token, hub, metrics, wrong, requests>>

\* The length is read again: if the history was reset in between the slice
\* panics, and the HTTP server drops the request.
Slice(t) ==
    /\ req[t].at = "slice"
    /\ IF Len(points) >= MaxPoints
       THEN /\ points' = SubSeq(points, Len(points) - MaxPoints + 1, Len(points))
            /\ To(t, [req[t] EXCEPT !.at = "peak"])
       ELSE /\ Answer(t)
            /\ UNCHANGED points
    /\ UNCHANGED <<now, configured, starts, attempts, session, token, hub, peak, overlap, wrong, requests>>

TestPeak(t) ==
    /\ req[t].at = "peak"
    /\ To(t, IF req[t].count > peak THEN [req[t] EXCEPT !.at = "set"] ELSE Idle)
    /\ UNCHANGED <<now, configured, starts, attempts, session, token, hub, metrics, wrong, requests>>

SetPeak(t) ==
    /\ req[t].at = "set"
    /\ peak' = req[t].count /\ Answer(t)
    /\ UNCHANGED <<now, configured, starts, attempts, session, token, hub, points, overlap, wrong, requests>>

\* Mutant: the history is kept.
ResetPeakOnly(t) ==
    /\ req[t].at = "reset" /\ Answer(t)
    /\ peak' = 0
    /\ Overlaps(t)
    /\ UNCHANGED <<now, configured, starts, attempts, session, token, hub, points, wrong, requests>>

ResetMetrics(t) ==
    /\ req[t].at = "reset" /\ Answer(t)
    /\ points' = <<>> /\ peak' = 0
    /\ Overlaps(t)
    /\ UNCHANGED <<now, configured, starts, attempts, session, token, hub, wrong, requests>>

----------------------------------------------------------------------------
(* getUsersData, for a user who has written messages: who has, who is          *)
(* connected, then who is banned.                                             *)

\* The messages cannot be read: an empty list.
NoList(t) ==
    /\ req[t].at = "users" /\ Answer(t)
    /\ UNCHANGED <<now, configured, starts, attempts, session, token, hub, metrics, wrong, requests>>

ReadClients(t) ==
    /\ req[t].at = "users"
    /\ To(t, [at |-> "bans", due |-> req[t].due, online |-> online,
              had |-> {Status(online, held)}, lifted |-> FALSE])
    /\ UNCHANGED <<now, configured, starts, attempts, session, token, hub, metrics, wrong, requests>>

List(t, status) ==
    To(t, [at |-> "listed", due |-> req[t].due, status |-> status,
           had |-> req[t].had, lifted |-> req[t].lifted])

\* Mutant: only a user who is not connected is looked up.
ReadBansOffline(t) ==
    /\ req[t].at = "bans"
    /\ List(t, IF req[t].online THEN "Online" ELSE IF held THEN "Banned" ELSE "Offline")
    /\ UNCHANGED <<now, configured, starts, attempts, session, token, hub, metrics, wrong, requests>>

ReadBans(t) ==
    /\ req[t].at = "bans"
    /\ List(t, Status(req[t].online, held))
    /\ UNCHANGED <<now, configured, starts, attempts, session, token, hub, metrics, wrong, requests>>

Listed(t) ==
    /\ req[t].at = "listed" /\ Answer(t)
    /\ UNCHANGED <<now, configured, starts, attempts, session, token, hub, metrics, wrong, requests>>

----------------------------------------------------------------------------
(* The world. *)

UserMoves ==
    /\ \/ (online \/ ~held) /\ online' = ~online /\ UNCHANGED held
       \/ held' = ~held /\ UNCHANGED online
    /\ req' = [t \in Tabs |-> Seen(req[t], online', held')]
    /\ UNCHANGED <<now, configured, starts, attempts, session, token, metrics, wrong, requests>>

Pass ==
    /\ now < MaxTime /\ now' = now + 1
    /\ UNCHANGED <<configured, starts, attempts, session, token, req, hub, metrics, wrong, requests>>

\* What is in memory goes; the bans and the browser stay.
Restart ==
    /\ starts <= MaxRestarts /\ starts' = starts + 1
    /\ attempts' = None /\ wrong' = <<>>
    /\ points' = <<>> /\ peak' = 0 /\ overlap' = FALSE
    /\ req' = [t \in Tabs |-> Idle] /\ online' = FALSE
    /\ UNCHANGED <<now, configured, session, token, held, requests>>

Request(t) ==
    \/ LoginBegins(t) \/ FetchToken(t)
    \/ \E op \in {"user", "call", "reset"} : Post(t, op)
    \/ \E op \in {"update", "users"} : Get(t, op)

Handle(t) ==
    \/ LoginRefused(t) \/ WrongKey(t) \/ BadBody(t) \/ RightKey(t)
    \/ Denied(t) \/ UserAction(t) \/ OtherAction(t)
    \/ AddPoint(t) \/ Trim(t) \/ Slice(t) \/ TestPeak(t) \/ SetPeak(t) \/ ResetMetrics(t)
    \/ NoList(t) \/ ReadClients(t) \/ ReadBans(t) \/ Listed(t)

Next ==
    \/ \E t \in Tabs : Request(t) \/ Handle(t)
    \/ Cleanup \/ UserMoves \/ Pass \/ Restart

Spec == Init /\ [][Next]_vars

----------------------------------------------------------------------------
(* Properties. *)

\* In no window of 15 minutes are more than five wrong keys tried, but for
\* those that passed the limit together; restarts and right keys start anew.
WrongKeysBounded ==
    \A i \in DOMAIN wrong :
        Cardinality({j \in i..Len(wrong) : wrong[j] - wrong[i] <= Window})
            <= MaxAttempts + Cardinality(Tabs) - 1

\* A request is served if and only if the last login is less than an hour old,
\* no restart drew another secret, and, for an action, the page was loaded
\* after that login.
SessionRule ==
    \A t \in Tabs : "due" \in DOMAIN req[t] => (req[t].due <=> req[t].at # "denied")

\* The list shows the user with a status it had at some moment between the
\* two reads, unless a ban was lifted between them: then the list shows what
\* the connection was at the first read, which it need not have been since.
ListIsTrue ==
    \A t \in Tabs : req[t].at = "listed" => req[t].status \in req[t].had \/ req[t].lifted

\* Requests that met no other, updates and resets in any order, leave a peak
\* that covers every point of the history.
PeakCovers ==
    ~overlap /\ Updating = {} => \A i \in DOMAIN points : points[i] <= peak
=============================================================================
