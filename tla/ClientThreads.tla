---------------------------- MODULE ClientThreads ----------------------------
(* What the client keeps of the messages it was sent (client/main.go): the   *)
(* transcript, the direct-message threads with their unread counts, the file *)
(* dm_state.json that outlives the program, and the read receipts.           *)
(*                                                                           *)
(* The server's side is a log of the messages this user may see; the id of a *)
(* message is its place in the log. The server registers a connection, so    *)
(* that it gets the messages broadcast from then on, before it reads the     *)
(* history it replays: what was stored before the reading and broadcast      *)
(* after the registration is delivered twice, and the client keeps both.     *)
EXTENDS Integers, Sequences, FiniteSets, FiniteSetsExt

CONSTANTS Partners,    \* users with whom direct messages are exchanged
          Names,       \* the ways to type their names
          Fold,        \* normalizeDMUser, EqualFold: the partner a name means
          None,
          MaxLog,      \* bound: messages of the log
          MaxTimers    \* bound: receipt timers running

ASSUME FoldIsTotal ==
    /\ Fold \in [Names -> Partners] /\ None \notin Names \cup Partners
    /\ {MaxLog, MaxTimers} \subseteq Nat

(* The transcript holds the whole log, twice: nothing is cut off its start   *)
(* (the module Delivery has a transcript that is).                           *)
maxMessages == 100
ASSUME LogFits == 2 * MaxLog =< maxMessages

VARIABLES log,         \* the messages the server has for this user
          link,        \* "none", "up", or "broken": writes fail, the reader has not noticed
          base, rp,    \* the replay ends at base and has reached rp
          reg, lv,     \* live messages begin after reg and have reached lv
          msgs,        \* ids in m.messages
          twice,       \* of these, the ids that are there a second time
          thread,      \* activeDMThread, the thread on the screen
          recipient,   \* dmRecipient, where a line is sent
          dm,          \* dmLastSeenID and dmHidden
          file,        \* dm_state.json
          unread,      \* dmUnread
          atBottom,    \* the transcript shows its end
          sentId,      \* lastReadReceiptSentID
          scheduled,   \* readReceiptFlushScheduled
          timers,      \* ticks that will deliver a readReceiptFlushMsg
          jumped,      \* history: the end was reached by a jump, which schedules nothing
          seen,        \* history: messages that were on the screen in their thread
          blurred      \* history: a thread was changed while it was unsettled (below),
                       \* or unread messages were cleared

netVars     == <<log, link, base, rp, reg, lv>>
transcript  == <<msgs, twice>>
dmVars      == <<thread, recipient, dm, file, unread, seen, blurred>>
receiptVars == <<atBottom, sentId, scheduled, timers, jumped>>
threadVars  == <<netVars, transcript, dmVars, receiptVars>>

Messages == [type : {"room"}, with : {None}] \cup [type : {"in", "out"}, with : Partners]

Fresh == [last |-> [p \in Partners |-> 0], hidden |-> {}]

-----------------------------------------------------------------------------
(* Reading the transcript.                                                   *)

(* maxMessageID                                                              *)
Top(ids) == Max(ids \cup {0})

(* dmPartnerForMessage: the messages of p's thread, from either side.        *)
Thread(p, ids) == {i \in ids : log[i].with = p}

Active(p, th) == th # None /\ Fold[th] = p

(* Mutant: what the user wrote himself is counted too.                       *)
CountedAll(ids, again, d, th) ==
    LET beyond(p, is) == {i \in Thread(p, is) : i > d.last[p]}
    IN [p \in Partners |-> IF Active(p, th) THEN 0
                           ELSE Cardinality(beyond(p, ids)) + Cardinality(beyond(p, again))]

(* The messages received from p beyond a mark.                               *)
Beyond(p, ids, mark) == {i \in Thread(p, ids) : log[i].type = "in" /\ i > mark}

(* rebuildDMUnreadCounts                                                     *)
Counted(ids, again, d, th) ==
    [p \in Partners |-> IF Active(p, th) THEN 0
                        ELSE Cardinality(Beyond(p, ids, d.last[p]))
                               + Cardinality(Beyond(p, again, d.last[p]))]

(* markDMThreadRead without its save: the newest message of the transcript,  *)
(* which during a replay may be older than what was read before.             *)
Marked(d, p, ids) ==
    IF Thread(p, ids) = {} THEN d ELSE [d EXCEPT !.last[p] = Top(Thread(p, ids))]

Replaying == rp < base

-----------------------------------------------------------------------------
(* Read receipts (chrome.go).                                                *)

(* scheduleReadReceiptFlush, with the viewport at the end.                   *)
Schedule(ids, sent) ==
    IF link # "none" /\ Top(ids) > sent /\ ~scheduled
    THEN scheduled' = TRUE /\ timers' = timers + 1
    ELSE UNCHANGED <<timers, scheduled>>

(* Mutant: the flag stays set when the tick finds nothing to send.           *)
FlushKeepsFlag ==
    /\ timers > 0 /\ timers' = timers - 1
    /\ IF link # "none" /\ atBottom /\ Top(msgs) > sentId
       THEN /\ scheduled' = FALSE
            /\ sentId' \in (IF link = "up" THEN {Top(msgs)} ELSE {sentId, Top(msgs)})
       ELSE UNCHANGED <<scheduled, sentId>>
    /\ UNCHANGED <<netVars, transcript, dmVars, atBottom, jumped>>

(* readReceiptFlushMsg: the flag is cleared, then flushReadReceipt. A write  *)
(* that fails leaves the receipt unsent and schedules no other.              *)
Flush ==
    /\ timers > 0 /\ timers' = timers - 1
    /\ scheduled' = FALSE
    /\ IF link # "none" /\ atBottom /\ Top(msgs) > sentId
       THEN sentId' \in (IF link = "up" THEN {Top(msgs)} ELSE {sentId, Top(msgs)})
       ELSE UNCHANGED sentId
    /\ UNCHANGED <<netVars, transcript, dmVars, atBottom, jumped>>

(* GotoBottom after a command or a resize.                                   *)
Jump == /\ atBottom' = TRUE
        /\ jumped' = (jumped \/ ~atBottom)
        /\ UNCHANGED <<sentId, scheduled, timers>>

Resize == ~atBottom /\ Jump /\ UNCHANGED <<netVars, transcript, dmVars>>

ScrollUp == /\ atBottom /\ msgs # {}
            /\ atBottom' = FALSE /\ jumped' = FALSE
            /\ UNCHANGED <<netVars, transcript, dmVars, sentId, scheduled, timers>>

(* maybeFlushReadReceipt                                                     *)
ScrollDown ==
    /\ ~atBottom /\ atBottom' = TRUE /\ jumped' = FALSE
    /\ Schedule(msgs, sentId)
    /\ UNCHANGED <<netVars, transcript, dmVars, sentId>>

-----------------------------------------------------------------------------
(* The connection. How it is dialled and lost is the module ClientConn.      *)

Post(m) == /\ Len(log) < MaxLog
           /\ log' = Append(log, m)
           /\ UNCHANGED <<link, base, rp, reg, lv, transcript, dmVars, receiptVars>>

(* wsConnected: the transcript is emptied, the server will replay it. The    *)
(* unread counts stay what they were until the next message.                 *)
WsConnected ==
    /\ link = "none" /\ link' = "up"
    /\ base' = Len(log) /\ rp' = 0
    /\ reg' \in 0..Len(log) /\ lv' = reg'
    /\ msgs' = {} /\ twice' = {}
    /\ sentId' = 0 /\ scheduled' = FALSE
    /\ atBottom' = TRUE
    /\ UNCHANGED <<log, dmVars, timers, jumped>>

Break == link = "up" /\ link' = "broken"
         /\ UNCHANGED <<log, base, rp, reg, lv, transcript, dmVars, receiptVars>>

(* wsErr: closeWebSocket clears the flag; a running tick is not stopped.     *)
Lost ==
    /\ link # "none" /\ link' = "none"
    /\ timers < MaxTimers
    /\ scheduled' = FALSE
    /\ UNCHANGED <<log, base, rp, reg, lv, transcript, dmVars, atBottom, sentId, timers, jumped>>

(* The next message of the replay, or the next one beside it.                *)
Arriving == (IF rp < base THEN {rp + 1} ELSE {}) \cup (IF lv < Len(log) THEN {lv + 1} ELSE {})

(* The case shared.Message of Update: a received direct message brings its   *)
(* thread back to the sidebar, one of the thread on the screen is read. What *)
(* is in the transcript already is appended again.                           *)
Receive(i) ==
    LET p == log[i].with
        ids == msgs \cup {i}
        again == twice \cup (msgs \cap {i})
        here == p # None /\ Active(p, thread)
        back == IF log[i].type = "in" THEN [dm EXCEPT !.hidden = @ \ {p}] ELSE dm
        now == IF here THEN Marked(back, p, ids) ELSE back
    IN /\ link = "up"
       /\ \/ rp < base /\ i = rp + 1 /\ rp' = i /\ lv' = lv
          \/ lv < Len(log) /\ i = lv + 1 /\ lv' = i /\ rp' = rp
       /\ msgs' = ids /\ twice' = again
       /\ dm' = now
       /\ file' = IF here \/ log[i].type = "in" THEN now ELSE file
       /\ unread' = Counted(ids, again, now, thread)
       /\ seen' = IF here THEN seen \cup {i} ELSE seen
       /\ IF atBottom THEN Schedule(ids, sentId) /\ jumped' = FALSE
          ELSE UNCHANGED <<timers, scheduled, jumped>>
       /\ UNCHANGED <<log, link, base, reg, thread, recipient, blurred, atBottom, sentId>>

(* Any other message of the server - an edit, a reaction, a receipt -        *)
(* rebuilds the counts; so does one for the banner, which schedules nothing. *)
Notice ==
    /\ link = "up"
    /\ unread' = Counted(msgs, twice, dm, thread)
    /\ \/ UNCHANGED receiptVars
       \/ atBottom /\ Schedule(msgs, sentId) /\ jumped' = FALSE /\ UNCHANGED <<atBottom, sentId>>
    /\ UNCHANGED <<netVars, transcript, thread, recipient, dm, file, seen, blurred>>

-----------------------------------------------------------------------------
(* The commands that choose what is on the screen.                           *)

(* A thread is left while its older messages are still on their way, or      *)
(* while its mark is behind what was read: a replay took the mark back.      *)
Unsettled == Replaying \/ \E p \in Partners : dm.last[p] < Top(Thread(p, seen))

Blur == blurred' = (blurred \/ Unsettled)

(* The screen goes back to the rooms.                                        *)
Leave == /\ thread' = None /\ recipient' = None
         /\ blurred' = (blurred \/ (thread # None /\ Unsettled))

(* Mutant: only the thread on the screen changes.                            *)
GoScreen(n) ==
    LET now == Marked([dm EXCEPT !.hidden = @ \ {Fold[n]}], Fold[n], msgs)
    IN /\ thread' = n /\ recipient' = recipient
       /\ dm' = now /\ file' = now
       /\ unread' = Counted(msgs, twice, now, n)
       /\ seen' = seen \cup Thread(Fold[n], msgs)
       /\ Blur

(* :dm enters a thread: it is no longer hidden and is read, and both are     *)
(* saved.                                                                    *)
Go(n) ==
    LET now == Marked([dm EXCEPT !.hidden = @ \ {Fold[n]}], Fold[n], msgs)
    IN /\ thread' = n /\ recipient' = n
       /\ dm' = now /\ file' = now
       /\ unread' = Counted(msgs, twice, now, n)
       /\ seen' = seen \cup Thread(Fold[n], msgs)
       /\ Blur

(* :dm <name>: the name that is active already, spelt the same way, leaves.  *)
Dm(n) ==
    /\ IF recipient = n
       THEN Leave /\ unread' = Counted(msgs, twice, dm, None) /\ UNCHANGED <<dm, file, seen>>
       ELSE Go(n)
    /\ Jump /\ UNCHANGED <<netVars, transcript>>

(* A bare :dm rebuilds the counts; :dm off, exit and general do not.         *)
DmOff ==
    /\ Leave
    /\ unread' = Counted(msgs, twice, dm, None) \/ UNCHANGED unread
    /\ Jump /\ UNCHANGED <<netVars, transcript, dm, file, seen>>

(* :dmhide                                                                   *)
Hide(n) ==
    LET now == [dm EXCEPT !.hidden = @ \cup {Fold[n]}]
    IN /\ dm' = now /\ file' = now
       /\ IF Active(Fold[n], thread) THEN Leave ELSE UNCHANGED <<thread, recipient, blurred>>
       /\ Jump /\ UNCHANGED <<netVars, transcript, unread, seen>>

(* :clear and Ctrl+L: only the transcript goes, no count is touched.         *)
Clear ==
    /\ msgs # {} /\ msgs' = {} /\ twice' = {}
    /\ atBottom' = TRUE /\ jumped' = FALSE
    /\ blurred' = (blurred \/ \E p \in Partners : unread[p] > 0)
    /\ UNCHANGED <<netVars, thread, recipient, dm, file, unread, seen, sentId, scheduled, timers>>

(* The program ends, however, and is started again: loadDMUIState.           *)
Restart ==
    /\ link' = "none" /\ msgs' = {} /\ twice' = {}
    /\ base' = 0 /\ rp' = 0 /\ reg' = 0 /\ lv' = 0
    /\ Leave
    /\ dm' = file /\ unread' = [p \in Partners |-> 0]
    /\ atBottom' = TRUE /\ sentId' = 0 /\ scheduled' = FALSE /\ timers' = 0 /\ jumped' = FALSE
    /\ UNCHANGED <<log, file, seen>>

InitThreads ==
    /\ log = <<>> /\ link = "none" /\ base = 0 /\ rp = 0 /\ reg = 0 /\ lv = 0
    /\ msgs = {} /\ twice = {} /\ thread = None /\ recipient = None
    /\ dm = Fresh /\ file = Fresh /\ unread = [p \in Partners |-> 0]
    /\ atBottom = TRUE /\ sentId = 0 /\ scheduled = FALSE /\ timers = 0 /\ jumped = FALSE
    /\ seen = {} /\ blurred = FALSE

-----------------------------------------------------------------------------
(* Properties.                                                               *)

(* The unread count of a thread is the number of its received messages in    *)
(* the transcript that were never on the screen in the thread: what was read *)
(* stays read over reconnections and restarts, and nothing unseen is taken   *)
(* for read, although a newer message may overtake the replay of an older    *)
(* one and the mark of a thread goes back while it is replayed. The code     *)
(* keeps this only while no thread is left, or lost, during its replay.      *)
(* Between a connection and the first message the counts are of before. And  *)
(* a message the transcript has twice is counted twice: these are messages   *)
(* of the moment of connecting, stored before the history was read and       *)
(* broadcast after the registration, and no others. All this while the log   *)
(* fits in the transcript: what is cut off is like what is cleared.          *)
UnreadIsTrue ==
    /\ \A i \in twice : reg < i /\ i <= base
    /\ ~blurred /\ msgs # {} =>
        \A p \in Partners : ~Active(p, thread) =>
            LET unseen(ids) == {i \in Thread(p, ids) : log[i].type = "in"} \ seen
            IN unread[p] = Cardinality(unseen(msgs)) + Cardinality(unseen(twice))

(* As long as the end of the transcript is on the screen of a connected      *)
(* client and the newest message has no receipt, a tick is under way that    *)
(* will send one: no loss of the connection, no tick left over from an       *)
(* earlier one, no scrolling leaves the flag set without a tick. Reaching    *)
(* the end by a command's jump is the exception the code has.                *)
ReceiptIsComing ==
    link = "up" /\ atBottom /\ ~jumped /\ Top(msgs) > sentId => timers > 0
=============================================================================
