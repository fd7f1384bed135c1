-------------------------- MODULE ModerationProofs --------------------------
(* Proofs about Moderation, for any users, any table an older server left    *)
(* and any number of calls, crashes and restarts: the maps and the table     *)
(* agree, the gaps of the history hide what was sent during a ban, and every *)
(* step is one of ModerationAbs or invisible to it.                          *)
EXTENDS Moderation, SequenceTheorems, WellFoundedInduction, TLAPS

----------------------------------------------------------------------------
(* The operators on the rows of a user.                                     *)

\* Ending the open rows changes nothing else.
LEMMA ClosedRows ==
    ASSUME NEW rows \in Seq(Row), now \in Nat
    PROVE  /\ CloseOpen(rows) \in Seq(Row)
           /\ DOMAIN CloseOpen(rows) = DOMAIN rows
           /\ OpenRows(CloseOpen(rows)) = {}
           /\ \A i \in DOMAIN rows :
                 /\ CloseOpen(rows)[i].from = rows[i].from
                 /\ CloseOpen(rows)[i].expires = rows[i].expires
                 /\ CloseOpen(rows)[i].till = IF rows[i].till = Null THEN now ELSE rows[i].till
<1>1. DOMAIN CloseOpen(rows) = DOMAIN rows
  BY DEF CloseOpen
<1>2. ASSUME NEW i \in DOMAIN rows
      PROVE  /\ CloseOpen(rows)[i] \in Row
             /\ CloseOpen(rows)[i].from = rows[i].from
             /\ CloseOpen(rows)[i].expires = rows[i].expires
             /\ CloseOpen(rows)[i].till = IF rows[i].till = Null THEN now ELSE rows[i].till
  <2>1. rows[i] \in Row
    BY ElementOfSeq
  <2>2. CloseOpen(rows)[i] = IF rows[i].till = Null THEN [rows[i] EXCEPT !.till = now] ELSE rows[i]
    BY DEF CloseOpen
  <2>3. rows[i] = [from |-> rows[i].from, till |-> rows[i].till, expires |-> rows[i].expires]
        /\ {rows[i].from, rows[i].till, rows[i].expires} \subseteq Int
    BY <2>1 DEF Row
  <2>4. CASE rows[i].till = Null
    <3>1. CloseOpen(rows)[i] = [from |-> rows[i].from, till |-> now, expires |-> rows[i].expires]
      BY <2>2, <2>3, <2>4
    <3>. QED
      BY <2>3, <2>4, <3>1 DEF Row
  <2>5. CASE rows[i].till # Null
    BY <2>1, <2>2, <2>5
  <2>. QED
    BY <2>4, <2>5
<1>3. CloseOpen(rows) \in Seq(Row)
  <2>1. DOMAIN rows = 1..Len(rows) /\ Len(rows) \in Nat
    OBVIOUS
  <2>2. CloseOpen(rows) \in [1..Len(rows) -> Row]
    BY <1>1, <1>2, <2>1 DEF CloseOpen
  <2>. QED
    BY <2>1, <2>2, SeqDef
<1>4. OpenRows(CloseOpen(rows)) = {}
  BY <1>1, <1>2 DEF OpenRows, Null
<1>. QED
  BY <1>1, <1>2, <1>3, <1>4

\* A recorded event is the only open row, and so the one that counts.
LEMMA RecordedRows ==
    ASSUME NEW rows \in Seq(Row), now \in Nat, NEW expiry \in Int
    PROVE  LET new == RecordBanEvent(rows, expiry)
               last == Len(rows) + 1 IN
           /\ new \in Seq(Row)
           /\ DOMAIN new = DOMAIN rows \cup {last} /\ last \notin DOMAIN rows
           /\ new[last] = [from |-> now, till |-> Null, expires |-> expiry]
           /\ \A i \in DOMAIN rows : new[i] = CloseOpen(rows)[i]
           /\ OpenRows(new) = {last}
           /\ CurrentRow(new).expires = expiry
<1>. DEFINE row == [from |-> now, till |-> Null, expires |-> expiry]
            new == RecordBanEvent(rows, expiry)
            last == Len(rows) + 1
<1>1. row \in Row /\ row.till = Null /\ row.expires = expiry
  BY DEF Row, Null
<1>2. CloseOpen(rows) \in Seq(Row) /\ Len(CloseOpen(rows)) = Len(rows)
  BY ClosedRows
<1>3. /\ new \in Seq(Row) /\ DOMAIN new = 1..last
      /\ new[last] = row /\ \A i \in 1..Len(rows) : new[i] = CloseOpen(rows)[i]
  BY <1>1, <1>2 DEF RecordBanEvent
<1>4. OpenRows(new) = {last}
  <2>1. \A i \in 1..Len(rows) : CloseOpen(rows)[i].till # Null
    BY ClosedRows DEF OpenRows
  <2>. QED
    BY <1>1, <1>3, <2>1 DEF OpenRows
<1>5. CurrentRow(new) = row
  <2>1. (CHOOSE i \in OpenRows(new) : \A j \in OpenRows(new) : j <= i) = last
    BY <1>4
  <2>. QED
    BY <1>3, <2>1 DEF CurrentRow
<1>. QED
  BY <1>1, <1>3, <1>4, <1>5

\* Of several open rows there is a newest one.
LEMMA CurrentIsOpen ==
    ASSUME NEW rows \in Seq(Row), OpenRows(rows) # {}
    PROVE  \E i \in OpenRows(rows) :
              /\ \A j \in OpenRows(rows) : j <= i
              /\ CurrentRow(rows) = rows[i] /\ CurrentRow(rows) \in Row
<1>. DEFINE T == {n \in Nat : Len(rows) - n \in OpenRows(rows)}
<1>1. Len(rows) \in Nat /\ OpenRows(rows) \subseteq 1..Len(rows)
  BY DEF OpenRows
<1>2. PICK j \in OpenRows(rows) : TRUE
  OBVIOUS
<1>3. Len(rows) - (Len(rows) - j) = j /\ Len(rows) - j \in Nat
  BY <1>1, <1>2
<1>4. T \subseteq Nat /\ Len(rows) - j \in T
  BY <1>2, <1>3
<1>5. PICK n \in T : \A m \in T : ~(<<m, n>> \in OpToRel(<, Nat))
  BY <1>4, NatLessThanWellFounded, WFMin
<1>6. \A m \in T : m >= n
  <2>1. ASSUME NEW m \in T, m < n
        PROVE  <<m, n>> \in OpToRel(<, Nat)
    <3>1. <<m, n>> \in Nat \X Nat /\ <<m, n>>[1] < <<m, n>>[2]
      BY <1>4, <2>1
    <3>. QED
      BY <3>1, Zenon DEF OpToRel
  <2>2. \A m \in T : ~(m < n)
    BY <1>5, <2>1, Zenon
  <2>3. n \in Nat /\ \A m \in T : m \in Nat
    BY <1>4
  <2>. HIDE DEF T
  <2>. QED
    BY <2>2, <2>3
<1>7. \A k \in OpenRows(rows) : k <= Len(rows) - n
  <2>1. ASSUME NEW k \in OpenRows(rows)
        PROVE  k <= Len(rows) - n
    <3>1. k \in 1..Len(rows) /\ Len(rows) - (Len(rows) - k) = k /\ Len(rows) - k \in Nat
      BY <1>1
    <3>2. Len(rows) - k \in T
      BY <3>1
    <3>3. n \in Nat /\ Len(rows) - k >= n
      BY <1>4, <1>6, <3>2
    <3>. QED
      BY <1>1, <3>1, <3>3
  <2>. QED
    BY <2>1
<1>. DEFINE i == CHOOSE k \in OpenRows(rows) : \A l \in OpenRows(rows) : l <= k
<1>8. i \in OpenRows(rows) /\ \A l \in OpenRows(rows) : l <= i
  <2>1. Len(rows) - n \in OpenRows(rows)
    OBVIOUS
  <2>. QED
    BY <1>7, <2>1
<1>9. rows[i] \in Row
  BY <1>8, ElementOfSeq DEF OpenRows
<1>. QED
  BY <1>8, <1>9 DEF CurrentRow

----------------------------------------------------------------------------
(* Types.                                                                   *)

LEMMA TypeInit == Init => TypeOK
<1>. SUFFICES ASSUME Init PROVE TypeOK
  OBVIOUS
<1>1. \A u \in Users : history[u] \in Seq(Row)
  BY LegacyAssumption DEF Init
<1>2. \A u \in Users : \A i \in DOMAIN history[u] :
         /\ history[u][i].from <= 0
         /\ history[u][i].expires = Null \/ history[u][i].expires > history[u][i].from
  BY LegacyAssumption DEF Init
<1>3. history \in [Users -> Seq(Row)]
  BY <1>1 DEF Init
<1>4. tempKicks \in [Users -> Int] /\ now = 0
  BY DEF Init, Null
<1>5. \A u \in Users : \A i \in DOMAIN history[u] :
         LET row == history[u][i] IN
         row.from <= now /\ (row.expires = Null \/ row.expires > row.from)
  BY <1>2, <1>4
<1>6. \A m \in messages : m.at \in Nat /\ m.banned \cup m.free \subseteq Users
  BY DEF Init
<1>7. bans \subseteq Users /\ messageState \subseteq Users /\ up \in BOOLEAN /\ now \in Nat
      /\ call \in {NoCall}
  BY DEF Init
<1>. QED
  BY <1>3, <1>4, <1>5, <1>6, <1>7 DEF TypeOK

\* What the rows of a user have to be.
RowsFit(rows, t) ==
    /\ rows \in Seq(Row)
    /\ \A i \in DOMAIN rows :
          rows[i].from <= t /\ (rows[i].expires = Null \/ rows[i].expires > rows[i].from)

LEMMA RowsStayFit ==
    ASSUME NEW rows, now \in Nat, RowsFit(rows, now)
    PROVE  /\ RowsFit(CloseOpen(rows), now)
           /\ \A expiry \in Int : expiry = Null \/ expiry > now =>
                 RowsFit(RecordBanEvent(rows, expiry), now)
<1>1. RowsFit(CloseOpen(rows), now)
  BY ClosedRows DEF RowsFit
<1>2. ASSUME NEW expiry \in Int, expiry = Null \/ expiry > now
      PROVE  RowsFit(RecordBanEvent(rows, expiry), now)
  <2>. DEFINE new == RecordBanEvent(rows, expiry)
  <2>1. new \in Seq(Row) /\ DOMAIN new = DOMAIN rows \cup {Len(rows) + 1}
    BY RecordedRows DEF RowsFit
  <2>2. \A i \in DOMAIN rows : new[i].from <= now
                             /\ (new[i].expires = Null \/ new[i].expires > new[i].from)
    <3>1. \A i \in DOMAIN rows : new[i] = CloseOpen(rows)[i]
      BY RecordedRows DEF RowsFit
    <3>. QED
      BY <1>1, <3>1, ClosedRows DEF RowsFit
  <2>3. new[Len(rows) + 1].from = now /\ new[Len(rows) + 1].expires = expiry
    <3>1. new[Len(rows) + 1] = [from |-> now, till |-> Null, expires |-> expiry]
      BY RecordedRows DEF RowsFit
    <3>. QED
      BY <3>1
  <2>. HIDE DEF new
  <2>4. RowsFit(new, now)
    BY <1>2, <2>1, <2>2, <2>3 DEF RowsFit
  <2>. QED
    BY <2>4 DEF new
<1>. QED
  BY <1>1, <1>2

\* What a call records of its user.
LEMMA CallsRecord ==
    ASSUME TypeOK, NEW u \in Users, Call(u)
    PROVE  /\ up /\ call = NoCall /\ UNCHANGED <<bans, tempKicks, now, up, messages>>
           /\ \E at \in {"ban", "kick", "unban", "allow"}, expiry \in Int :
                 /\ call' = [at |-> at, user |-> u, expiry |-> expiry]
                 /\ at = "ban" => expiry = Null
                 /\ at = "kick" => expiry = now + KickTime /\ u \notin bans
                 /\ at = "unban" => u \in bans
                 /\ at = "allow" => tempKicks[u] # Null
                 /\ history' = [history EXCEPT ![u] =
                       IF at \in {"ban", "kick"} THEN RecordBanEvent(history[u], expiry)
                       ELSE CloseOpen(history[u])]
<1>. Null \in Int /\ now + KickTime \in Int
  BY KickTimeAssumption DEF TypeOK, Null
<1>. USE DEF Begin
<1>1. CASE BanUser(u)
  BY <1>1 DEF BanUser
<1>2. CASE KickUser(u)
  BY <1>2 DEF KickUser
<1>3. CASE UnbanUser(u)
  BY <1>3 DEF UnbanUser
<1>4. CASE AllowUser(u)
  BY <1>4 DEF AllowUser
<1>. QED
  BY <1>1, <1>2, <1>3, <1>4 DEF Call

LEMMA TypeStep == TypeOK /\ [Next]_vars => TypeOK'
<1>. SUFFICES ASSUME TypeOK, [Next]_vars PROVE TypeOK'
  OBVIOUS
<1>0. \A u \in Users : RowsFit(history[u], now)
  BY DEF TypeOK, RowsFit
<1>1. ASSUME NEW u \in Users, Call(u)
      PROVE  TypeOK'
  <2>1. PICK at \in {"ban", "kick", "unban", "allow"}, expiry \in Int :
           /\ call' = [at |-> at, user |-> u, expiry |-> expiry]
           /\ at \in {"ban", "kick"} => expiry = Null \/ expiry > now
           /\ history' = [history EXCEPT ![u] =
                 IF at \in {"ban", "kick"} THEN RecordBanEvent(history[u], expiry)
                 ELSE CloseOpen(history[u])]
    BY <1>1, CallsRecord, KickTimeAssumption DEF TypeOK
  <2>2. RowsFit(history'[u], now) /\ \A v \in Users \ {u} : history'[v] = history[v]
    BY <1>0, <2>1, RowsStayFit DEF TypeOK
  <2>3. /\ history' \in [Users -> Seq(Row)]
        /\ \A v \in Users : RowsFit(history'[v], now)
    BY <1>0, <2>1, <2>2 DEF RowsFit, TypeOK
  <2>4. messageState' \subseteq Users
    BY <1>1 DEF Call, BanUser, KickUser, UnbanUser, AllowUser, ClearMessageState, TypeOK
  <2>5. call' \in [at : {"ban", "kick", "unban", "allow"}, user : Users, expiry : Int]
    BY <2>1
  <2>. QED
    BY <1>1, <2>3, <2>4, <2>5, CallsRecord DEF TypeOK, RowsFit
<1>2. ASSUME NEW u \in Users, TouchUserLastSeen(u)
      PROVE  TypeOK'
  BY <1>2 DEF TouchUserLastSeen, TypeOK
<1>3. CASE UpdateMaps
  <2>1. call \in [at : {"ban", "kick", "unban", "allow"}, user : Users, expiry : Int]
    BY <1>3 DEF UpdateMaps, TypeOK, NoCall
  <2>2. bans' \subseteq Users /\ tempKicks' \in [Users -> Int] /\ call' \in {NoCall}
    BY <1>3, <2>1 DEF UpdateMaps, TypeOK, Null
  <2>. QED
    BY <1>3, <2>2 DEF UpdateMaps, TypeOK
<1>4. CASE CleanupExpiredBans
  BY <1>4 DEF CleanupExpiredBans, TypeOK, Null
<1>5. CASE Crash
  <2>1. bans' = {} /\ tempKicks' \in [Users -> Int] /\ call' \in {NoCall}
    BY <1>5 DEF Crash, Null
  <2>. QED
    BY <1>5, <2>1 DEF Crash, TypeOK
<1>6. CASE Restart
  <2>1. ASSUME NEW u \in Users, KickedByRows(history[u])
        PROVE  CurrentRow(history[u]).expires \in Int
    BY <2>1, CurrentIsOpen DEF KickedByRows, TypeOK, Row
  <2>2. tempKicks' \in [Users -> Int]
    BY <1>6, <2>1 DEF Restart, Null
  <2>. QED
    BY <1>6, <2>2 DEF Restart, TypeOK
<1>7. CASE Tick
  <2>1. now' \in Nat /\ now' > now
    BY <1>7 DEF Tick, TypeOK
  <2>2. \A u \in Users : \A i \in DOMAIN history[u] : history[u][i].from <= now'
    <3>1. ASSUME NEW u \in Users, NEW i \in DOMAIN history[u]
          PROVE  history[u][i].from <= now'
      <4>1. history[u] \in Seq(Row)
        BY DEF TypeOK
      <4>2. history[u][i].from \in Int /\ history[u][i].from <= now
        <5>1. history[u][i] \in Row
          BY <4>1, ElementOfSeq
        <5>. QED
          BY <5>1 DEF TypeOK, Row
      <4>. QED
        BY <2>1, <4>2 DEF TypeOK
    <3>. QED
      BY <1>7, <3>1 DEF Tick
  <2>. QED
    BY <1>7, <2>1, <2>2 DEF Tick, TypeOK
<1>8. CASE SendMessage
  BY <1>8 DEF SendMessage, TypeOK
<1>9. CASE UNCHANGED vars
  BY <1>9 DEF vars, TypeOK
<1>. QED
  BY <1>1, <1>2, <1>3, <1>4, <1>5, <1>6, <1>7, <1>8, <1>9 DEF Next

\* Every variable keeps its type, and no event of the table lies in the future.
THEOREM TypeCorrect == Spec => []TypeOK
BY TypeInit, TypeStep, PTL DEF Spec

----------------------------------------------------------------------------
(* The maps and the table.                                                  *)

\* What the two say of a user no call is half done for.  An expired entry may
\* still be in the map; so is its row still open.
Agree(u) ==
    /\ u \in bans <=> BannedByRows(history[u])
    /\ tempKicks[u] # Null =>
          OpenRows(history[u]) # {} /\ CurrentRow(history[u]).expires = tempKicks[u]
    /\ KickedByRows(history[u]) => tempKicks[u] # Null

Memory == \A u \in Users : Settled(u) => Agree(u)

\* What a call has recorded and what it found, until the maps follow.
CallFits ==
    call.at # "none" =>
        LET u == call.user
            rows == history[u] IN
        /\ up
        /\ call.at \in {"ban", "kick"} =>
              OpenRows(rows) # {} /\ CurrentRow(rows).expires = call.expiry
        /\ call.at = "ban" <=> call.at \in {"ban", "kick"} /\ call.expiry = Null
        /\ call.at \in {"unban", "allow"} => OpenRows(rows) = {}
        /\ call.at \in {"kick", "allow"} => u \notin bans
        /\ call.at = "unban" => tempKicks[u] = Null

Inv == Memory /\ CallFits

LEMMA InvInit == Init => Inv
BY DEF Init, NoCall, Inv, Memory, CallFits, Settled

\* Nothing that the agreement about a user depends on has changed.
LEMMA SameAgree ==
    ASSUME NEW u, Agree(u), UNCHANGED now, history'[u] = history[u],
           tempKicks'[u] = tempKicks[u], u \in bans' <=> u \in bans
    PROVE  Agree(u)'
BY DEF Agree, BannedByRows, KickedByRows

\* A call begins when the maps and the table agree about everybody; what it
\* records is what its second half will put in the maps.
LEMMA CallKeepsInv ==
    ASSUME TypeOK, Inv, NEW u \in Users, Call(u)
    PROVE  Inv'
<1>1. up /\ call = NoCall /\ UNCHANGED <<bans, tempKicks, now, up>>
  BY CallsRecord
<1>2. PICK at \in {"ban", "kick", "unban", "allow"}, expiry \in Int :
         /\ call' = [at |-> at, user |-> u, expiry |-> expiry]
         /\ at = "ban" => expiry = Null
         /\ at = "kick" => expiry = now + KickTime /\ u \notin bans
         /\ at = "unban" => u \in bans
         /\ at = "allow" => tempKicks[u] # Null
         /\ history' = [history EXCEPT ![u] =
               IF at \in {"ban", "kick"} THEN RecordBanEvent(history[u], expiry)
               ELSE CloseOpen(history[u])]
  BY CallsRecord
<1>3. /\ call'.at = at /\ call'.user = u /\ call'.expiry = expiry /\ at # "none"
      /\ call.at = "none"
  BY <1>1, <1>2 DEF NoCall
<1>4. history \in [Users -> Seq(Row)] /\ now \in Nat /\ history[u] \in Seq(Row)
  BY DEF TypeOK
<1>5. Agree(u)
  BY <1>1, <1>3 DEF Inv, Memory, Settled
<1>6. Memory'
  <2>1. ASSUME NEW v \in Users, Settled(v)'
        PROVE  Agree(v)'
    <3>1. v # u
      BY <1>3, <2>1 DEF Settled
    <3>2. Agree(v) /\ history'[v] = history[v]
      BY <1>1, <1>2, <1>3, <1>4, <3>1 DEF Inv, Memory, Settled
    <3>. QED
      BY <1>1, <3>2, SameAgree
  <2>. QED
    BY <2>1 DEF Memory
<1>7. CASE at \in {"ban", "kick"}
  <2>1. history'[u] = RecordBanEvent(history[u], expiry)
    BY <1>2, <1>4, <1>7
  <2>2. OpenRows(history'[u]) # {} /\ CurrentRow(history'[u]).expires = expiry
    <3>. DEFINE new == RecordBanEvent(history[u], expiry)
    <3>1. OpenRows(new) = {Len(history[u]) + 1} /\ CurrentRow(new).expires = expiry
      BY <1>4, RecordedRows
    <3>. HIDE DEF new
    <3>2. OpenRows(new) # {} /\ CurrentRow(new).expires = expiry
      BY <3>1
    <3>3. history'[u] = new
      BY <2>1 DEF new
    <3>. QED
      BY <3>2, <3>3
  <2>3. at = "kick" => expiry # Null
    BY <1>2, <1>4, KickTimeAssumption DEF Null
  <2>. QED
    BY <1>1, <1>2, <1>3, <1>6, <1>7, <2>2, <2>3 DEF Inv, CallFits
<1>8. CASE at \in {"unban", "allow"}
  <2>1. OpenRows(history'[u]) = {}
    BY <1>2, <1>4, <1>8, ClosedRows
  <2>2. at = "unban" => tempKicks[u] = Null
    BY <1>2, <1>5 DEF Agree, BannedByRows
  <2>3. at = "allow" => u \notin bans
    BY <1>2, <1>5 DEF Agree, BannedByRows
  <2>. QED
    BY <1>1, <1>2, <1>3, <1>6, <1>8, <2>1, <2>2, <2>3 DEF Inv, CallFits
<1>. QED
  BY <1>7, <1>8

LEMMA UpdateKeepsInv ==
    ASSUME TypeOK, Inv, UpdateMaps
    PROVE  Inv'
<1>1. PICK u \in Users :
         call.user = u /\ call.at \in {"ban", "kick", "unban", "allow"}
  BY DEF TypeOK, UpdateMaps, NoCall
<1>. DEFINE rows == history[u]
<1>2. call'.at = "none"
  BY DEF UpdateMaps, NoCall
<1>3. up /\ up' /\ UNCHANGED <<history, now>> /\ tempKicks \in [Users -> Int]
  BY <1>1 DEF UpdateMaps, Inv, CallFits, TypeOK
<1>4. ASSUME NEW v \in Users, v # u
      PROVE  Agree(v)'
  <2>1. Agree(v)
    BY <1>1, <1>3, <1>4 DEF Inv, Memory, Settled
  <2>2. tempKicks'[v] = tempKicks[v] /\ (v \in bans' <=> v \in bans)
    BY <1>1, <1>3, <1>4 DEF UpdateMaps
  <2>. QED
    BY <1>3, <2>1, <2>2, SameAgree
<1>5. Agree(u)'
  <2>1. CASE call.at = "ban"
    <3>1. OpenRows(rows) # {} /\ CurrentRow(rows).expires = Null
      BY <1>1, <2>1 DEF Inv, CallFits
    <3>2. u \in bans' /\ tempKicks'[u] = Null
      BY <1>1, <1>3, <2>1 DEF UpdateMaps
    <3>. QED
      BY <1>3, <3>1, <3>2 DEF Agree, BannedByRows, KickedByRows
  <2>2. CASE call.at = "kick"
    <3>1. OpenRows(rows) # {} /\ CurrentRow(rows).expires = call.expiry
          /\ call.expiry # Null /\ u \notin bans
      BY <1>1, <2>2 DEF Inv, CallFits
    <3>2. u \notin bans' /\ tempKicks'[u] = call.expiry
      BY <1>1, <1>3, <2>2, <3>1 DEF UpdateMaps
    <3>. QED
      BY <1>3, <3>1, <3>2 DEF Agree, BannedByRows, KickedByRows
  <2>3. CASE call.at \in {"unban", "allow"}
    <3>1. OpenRows(rows) = {}
      BY <1>1, <2>3 DEF Inv, CallFits
    <3>2. u \notin bans' /\ tempKicks'[u] = Null
      BY <1>1, <1>3, <2>3 DEF UpdateMaps, Inv, CallFits
    <3>. QED
      BY <1>3, <3>1, <3>2 DEF Agree, BannedByRows, KickedByRows
  <2>. QED
    BY <1>1, <2>1, <2>2, <2>3
<1>. QED
  BY <1>2, <1>4, <1>5 DEF Inv, Memory, CallFits

\* A start takes the maps from the table.
LEMMA RestartKeepsInv ==
    ASSUME TypeOK, Inv, Restart
    PROVE  Inv'
<1>1. call.at = "none" /\ call' = call /\ up' /\ UNCHANGED <<history, now>>
  BY DEF Restart, Inv, CallFits
<1>2. ASSUME NEW u \in Users
      PROVE  Agree(u)'
  <2>1. u \in bans' <=> BannedByRows(history[u])
    BY DEF Restart
  <2>2. tempKicks'[u] = IF KickedByRows(history[u]) THEN CurrentRow(history[u]).expires ELSE Null
    BY DEF Restart
  <2>. QED
    BY <1>1, <2>1, <2>2 DEF Agree, BannedByRows, KickedByRows
<1>. QED
  BY <1>1, <1>2 DEF Inv, Memory, CallFits

\* The clean-up drops an entry only when its row has no effect any more.
LEMMA CleanupKeepsInv ==
    ASSUME TypeOK, Inv, CleanupExpiredBans
    PROVE  Inv'
<1>1. call.at = "none" /\ call' = call /\ up /\ up' /\ UNCHANGED <<bans, history, now>>
  BY DEF CleanupExpiredBans, NoCall
<1>2. ASSUME NEW u \in Users
      PROVE  Agree(u)'
  <2>1. Agree(u)
    BY <1>1 DEF Inv, Memory, Settled
  <2>2. tempKicks'[u] = IF tempKicks[u] # Null /\ now > tempKicks[u] THEN Null ELSE tempKicks[u]
    BY DEF CleanupExpiredBans
  <2>3. CASE tempKicks[u] # Null /\ now > tempKicks[u]
    <3>1. ~KickedByRows(history[u])
      BY <2>1, <2>3 DEF Agree, KickedByRows, TypeOK
    <3>. QED
      BY <1>1, <2>1, <2>2, <2>3, <3>1 DEF Agree, BannedByRows, KickedByRows
  <2>4. CASE ~(tempKicks[u] # Null /\ now > tempKicks[u])
    BY <1>1, <2>1, <2>2, <2>4, SameAgree
  <2>. QED
    BY <2>3, <2>4
<1>. QED
  BY <1>1, <1>2 DEF Inv, Memory, CallFits

\* As time passes kicks end, in the map and in the table alike.
LEMMA TickKeepsInv ==
    ASSUME TypeOK, Inv, Tick
    PROVE  Inv'
<1>1. UNCHANGED <<bans, tempKicks, history, up, call>> /\ now \in Nat /\ now' = now + 1
  BY DEF Tick, TypeOK
<1>2. ASSUME NEW u \in Users, Agree(u)
      PROVE  Agree(u)'
  <2>1. KickedByRows(history[u])' => KickedByRows(history[u])
    <3>1. SUFFICES ASSUME OpenRows(history[u]) # {}
                   PROVE  CurrentRow(history[u]).expires \in Int
      BY <1>1 DEF KickedByRows
    <3>2. CurrentRow(history[u]) \in Row
      BY <3>1, CurrentIsOpen DEF TypeOK
    <3>. QED
      BY <3>2 DEF Row
  <2>. QED
    BY <1>1, <1>2, <2>1 DEF Agree, BannedByRows
<1>. QED
  BY <1>1, <1>2 DEF Inv, Memory, CallFits, Settled

LEMMA InvStep == TypeOK /\ Inv /\ [Next]_vars => Inv'
<1>. SUFFICES ASSUME TypeOK, Inv, [Next]_vars PROVE Inv'
  OBVIOUS
<1>1. CASE Crash
  BY <1>1 DEF Crash, NoCall, Inv, Memory, CallFits, Settled
<1>2. CASE UNCHANGED <<bans, tempKicks, history, now, up, call>>
  <2>1. Memory'
    BY <1>2, SameAgree DEF Inv, Memory, Settled
  <2>2. CallFits'
    BY <1>2 DEF Inv, CallFits
  <2>. QED
    BY <2>1, <2>2 DEF Inv
<1>. QED
  BY <1>1, <1>2, CallKeepsInv, UpdateKeepsInv, RestartKeepsInv, CleanupKeepsInv, TickKeepsInv
     DEF Next, TouchUserLastSeen, SendMessage, vars

\* The maps and the table agree about every user no call is half done for, after
\* whatever number of calls, crashes and restarts: what the server enforces is
\* what it would read back.
THEOREM RestartChangesNothing == Spec => []MemoryAgreesWithHistory
<1>1. Init => TypeOK /\ Inv
  BY TypeInit, InvInit
<1>2. (TypeOK /\ Inv) /\ [Next]_vars => (TypeOK /\ Inv)'
  BY TypeStep, InvStep
<1>3. TypeOK /\ Inv => MemoryAgreesWithHistory
  <2>1. SUFFICES ASSUME TypeOK, NEW u \in Users, Agree(u)
                 PROVE  /\ u \in bans <=> BannedByRows(history[u])
                        /\ tempKicks[u] # Null /\ now < tempKicks[u] <=> KickedByRows(history[u])
    BY DEF Inv, Memory, MemoryAgreesWithHistory
  <2>2. CASE tempKicks[u] # Null
    BY <2>1, <2>2 DEF Agree, KickedByRows
  <2>3. CASE tempKicks[u] = Null
    BY <2>1, <2>3 DEF Agree, KickedByRows
  <2>. QED
    BY <2>1, <2>2, <2>3 DEF Agree
<1>. QED
  BY <1>1, <1>2, <1>3, PTL DEF Spec

----------------------------------------------------------------------------
(* The gaps.                                                                *)

\* A row that was open at the moment a message was sent.
OpenAt(row, t) == row.from <= t /\ (row.till = Null \/ t <= row.till)

\* Who is banned when a message is sent has such a row, and keeps it for good.
Covered ==
    \A m \in messages :
        m.at <= now /\ \A u \in m.banned : \E i \in DOMAIN history[u] : OpenAt(history[u][i], m.at)

\* No call forgets a period of a user.
LEMMA CallKeepsPeriods ==
    ASSUME TypeOK, NEW u \in Users, Call(u), NEW v \in Users, NEW t \in Nat, t <= now,
           NEW i \in DOMAIN history[v], OpenAt(history[v][i], t)
    PROVE  i \in DOMAIN history'[v] /\ OpenAt(history'[v][i], t)
<1>1. history \in [Users -> Seq(Row)] /\ now \in Nat /\ history[u] \in Seq(Row)
  BY DEF TypeOK
<1>2. PICK expiry \in Int :
         \/ history' = [history EXCEPT ![u] = RecordBanEvent(history[u], expiry)]
         \/ history' = [history EXCEPT ![u] = CloseOpen(history[u])]
  BY CallsRecord
<1>3. CASE v # u
  BY <1>1, <1>2, <1>3
<1>4. CASE v = u
  <2>. DEFINE rows == history[u]
  <2>1. i \in DOMAIN CloseOpen(rows) /\ OpenAt(CloseOpen(rows)[i], t)
    <3>1. /\ CloseOpen(rows)[i].from = rows[i].from
          /\ CloseOpen(rows)[i].till = IF rows[i].till = Null THEN now ELSE rows[i].till
      BY <1>1, <1>4, ClosedRows
    <3>. QED
      BY <1>1, <1>4, <3>1, ClosedRows DEF OpenAt
  <2>2. i \in DOMAIN RecordBanEvent(rows, expiry)
        /\ RecordBanEvent(rows, expiry)[i] = CloseOpen(rows)[i]
    <3>1. /\ DOMAIN RecordBanEvent(rows, expiry) = DOMAIN rows \cup {Len(rows) + 1}
          /\ \A k \in DOMAIN rows : RecordBanEvent(rows, expiry)[k] = CloseOpen(rows)[k]
      BY <1>1, RecordedRows
    <3>. QED
      BY <1>4, <3>1
  <2>3. history'[u] \in {RecordBanEvent(rows, expiry), CloseOpen(rows)}
    BY <1>1, <1>2
  <2>. QED
    BY <1>4, <2>1, <2>2, <2>3
<1>. QED
  BY <1>3, <1>4

LEMMA CoveredStep == TypeOK /\ Inv /\ Covered /\ [Next]_vars => Covered'
<1>. SUFFICES ASSUME TypeOK, Inv, Covered, [Next]_vars PROVE Covered'
  OBVIOUS
<1>0. now \in Nat /\ \A m \in messages : m.at \in Nat /\ m.banned \subseteq Users
  BY DEF TypeOK
<1>1. ASSUME NEW u \in Users, Call(u)
      PROVE  Covered'
  <2>1. UNCHANGED <<messages, now>>
    BY <1>1, CallsRecord
  <2>2. ASSUME NEW m \in messages, NEW v \in m.banned
        PROVE  \E i \in DOMAIN history'[v] : OpenAt(history'[v][i], m.at)
    <3>1. PICK i \in DOMAIN history[v] : OpenAt(history[v][i], m.at)
      BY DEF Covered
    <3>2. v \in Users /\ m.at \in Nat /\ m.at <= now
      BY <1>0 DEF Covered
    <3>. QED
      BY <1>1, <3>1, <3>2, CallKeepsPeriods
  <2>. QED
    BY <2>1, <2>2 DEF Covered, OpenAt
<1>2. CASE Tick
  BY <1>0, <1>2 DEF Tick, Covered, OpenAt
<1>3. CASE SendMessage
  <2>. DEFINE settled == {u \in Users : call.at = "none" \/ call.user # u}
              banned == {u \in settled : IsUserBanned(u)}
              sent == [at |-> now, banned |-> banned, free |-> settled \ banned]
  <2>1. up /\ messages' = messages \cup {sent} /\ UNCHANGED <<history, now>>
    BY <1>3 DEF SendMessage
  <2>2. ASSUME NEW u \in banned
        PROVE  \E i \in DOMAIN history[u] : OpenAt(history[u][i], now)
    <3>1. Agree(u) /\ u \in Users /\ IsUserBanned(u)
      BY <2>1 DEF Inv, Memory, Settled
    <3>2. PICK i \in OpenRows(history[u]) : TRUE
      BY <3>1 DEF Agree, BannedByRows, IsUserBanned
    <3>3. i \in DOMAIN history[u] /\ history[u][i].till = Null
      BY DEF OpenRows
    <3>4. history[u][i].from <= now
      BY <3>1, <3>3 DEF TypeOK
    <3>. QED
      BY <3>3, <3>4 DEF OpenAt
  <2>3. sent.at = now /\ sent.banned = banned
    OBVIOUS
  <2>. HIDE DEF sent, banned
  <2>4. ASSUME NEW m \in messages'
        PROVE  m.at <= now /\ \A u \in m.banned : \E i \in DOMAIN history[u] : OpenAt(history[u][i], m.at)
    <3>1. CASE m \in messages
      BY <3>1 DEF Covered
    <3>2. CASE m = sent
      BY <1>0, <2>2, <2>3, <3>2
    <3>. QED
      BY <2>1, <3>1, <3>2
  <2>. QED
    BY <2>1, <2>4 DEF Covered, OpenAt
<1>4. CASE UNCHANGED <<history, messages, now>>
  BY <1>4 DEF Covered, OpenAt
<1>. QED
  BY <1>1, <1>2, <1>3, <1>4 DEF Next, UpdateMaps, TouchUserLastSeen, CleanupExpiredBans, Crash, Restart, vars

\* With ban history gaps, a message sent while a user was banned is not replayed
\* to them, ever, except one of the very second in which a ban was ended.
THEOREM GapsHide == Spec => []GapsHideBanPeriods
<1>1. Init => TypeOK /\ Inv /\ Covered
  BY TypeInit, InvInit DEF Init, Covered
<1>2. (TypeOK /\ Inv /\ Covered) /\ [Next]_vars => (TypeOK /\ Inv /\ Covered)'
  BY TypeStep, InvStep, CoveredStep
<1>3. TypeOK /\ Covered => GapsHideBanPeriods
  <2>. SUFFICES ASSUME TypeOK, Covered, NEW m \in messages, NEW u \in m.banned
                 PROVE  \/ Hidden(u, m.at)
                        \/ \E i \in DOMAIN history[u] : history[u][i].till = m.at
    BY DEF GapsHideBanPeriods
  <2>2. u \in Users /\ m.at \in Nat /\ history[u] \in Seq(Row)
    <3>1. m.at \in Nat /\ m.banned \subseteq Users
      BY DEF TypeOK
    <3>. QED
      BY <3>1 DEF TypeOK
  <2>3. PICK i \in DOMAIN history[u] : OpenAt(history[u][i], m.at)
    BY DEF Covered
  <2>4. history[u][i].till \in Int
    <3>1. history[u][i] \in Row
      BY <2>2, ElementOfSeq
    <3>. QED
      BY <3>1 DEF Row
  <2>. QED
    BY <2>2, <2>3, <2>4 DEF OpenAt, Hidden
<1>. QED
  BY <1>1, <1>2, <1>3, PTL DEF Spec

----------------------------------------------------------------------------
(* The promise.                                                             *)

\* The status is as the newest open row says.
LEMMA StatusOfUser ==
    ASSUME NEW u \in Users
    PROVE  /\ Status[u].kind = "free" <=> OpenRows(history[u]) = {}
           /\ Status[u].kind = "banned" <=> BannedByRows(history[u])
           /\ Status[u].kind = "kicked" <=>
                OpenRows(history[u]) # {} /\ CurrentRow(history[u]).expires # Null
           /\ BannedByRows(history[u]) => Status[u] = [kind |-> "banned", until |-> 0]
<1>1. Status[u] = StatusOf(history[u])
  BY DEF Status
<1>2. CASE OpenRows(history[u]) = {}
  <2>1. Status[u] = [kind |-> "free", until |-> 0]
    BY <1>1, <1>2 DEF StatusOf
  <2>2. Status[u].kind = "free"
    BY <2>1
  <2>. QED
    BY <1>2, <2>2 DEF BannedByRows
<1>3. CASE BannedByRows(history[u])
  <2>1. Status[u] = [kind |-> "banned", until |-> 0]
    BY <1>1, <1>3 DEF StatusOf, BannedByRows
  <2>2. Status[u].kind = "banned"
    BY <2>1
  <2>. QED
    BY <1>3, <2>1, <2>2 DEF BannedByRows
<1>4. CASE OpenRows(history[u]) # {} /\ ~BannedByRows(history[u])
  <2>1. Status[u] = [kind |-> "kicked", until |-> CurrentRow(history[u]).expires]
    BY <1>1, <1>4 DEF StatusOf, BannedByRows
  <2>2. Status[u].kind = "kicked"
    BY <2>1
  <2>. QED
    BY <1>4, <2>2 DEF BannedByRows
<1>. QED
  BY <1>2, <1>3, <1>4

\* A call does to the status of its user what ModerationAbs says, and nothing to
\* that of another.
LEMMA CallImplements ==
    ASSUME TypeOK, Inv, NEW u \in Users, Call(u)
    PROVE  Abs!Ban(u) \/ Abs!Kick(u) \/ Abs!Unban(u) \/ Abs!Allow(u)
<1>1. up /\ call = NoCall /\ now' = now
  BY CallsRecord
<1>2. PICK at \in {"ban", "kick", "unban", "allow"}, expiry \in Int :
         /\ at = "ban" => expiry = Null
         /\ at = "kick" => expiry = now + KickTime /\ u \notin bans
         /\ at = "unban" => u \in bans
         /\ at = "allow" => tempKicks[u] # Null
         /\ history' = [history EXCEPT ![u] =
               IF at \in {"ban", "kick"} THEN RecordBanEvent(history[u], expiry)
               ELSE CloseOpen(history[u])]
  BY CallsRecord
<1>3. history \in [Users -> Seq(Row)] /\ now \in Nat /\ history[u] \in Seq(Row)
  BY DEF TypeOK
<1>4. Agree(u)
  BY <1>1 DEF Inv, Memory, Settled, NoCall
<1>5. Status' = [Status EXCEPT ![u] = StatusOf(history'[u])]
  <2>1. \A v \in Users \ {u} : history'[v] = history[v]
    BY <1>2, <1>3
  <2>2. Status' = [v \in Users |-> StatusOf(history'[v])]
    BY DEF Status
  <2>3. Status = [v \in Users |-> StatusOf(history[v])]
    BY DEF Status
  <2>. HIDE DEF Status
  <2>. QED
    BY <2>1, <2>2, <2>3
<1>6. CASE at \in {"ban", "kick"}
  <2>. DEFINE new == RecordBanEvent(history[u], expiry)
  <2>1. OpenRows(new) = {Len(history[u]) + 1} /\ CurrentRow(new).expires = expiry
    BY <1>3, RecordedRows
  <2>2. history'[u] = new
    BY <1>2, <1>3, <1>6
  <2>. HIDE DEF new
  <2>3. StatusOf(history'[u]) = IF expiry = Null THEN [kind |-> "banned", until |-> 0]
                                ELSE [kind |-> "kicked", until |-> expiry]
    BY <2>1, <2>2 DEF StatusOf
  <2>4. CASE at = "ban"
    <3>1. Abs!Ban(u)
      BY <1>1, <1>2, <1>5, <2>3, <2>4 DEF Abs!Ban, Abs!Banned
    <3>. QED
      BY <3>1
  <2>5. CASE at = "kick"
    <3>1. expiry = now + KickTime /\ expiry # Null
      BY <1>2, <1>3, <2>5, KickTimeAssumption DEF Null
    <3>2. Status[u] # [kind |-> "banned", until |-> 0]
      BY <1>2, <1>4, <2>5, StatusOfUser DEF Agree
    <3>3. Abs!Kick(u)
      BY <1>1, <1>5, <2>3, <3>1, <3>2 DEF Abs!Kick, Abs!Banned, Abs!Kicked
    <3>. QED
      BY <3>3
  <2>. QED
    BY <1>6, <2>4, <2>5
<1>7. CASE at \in {"unban", "allow"}
  <2>1. history'[u] = CloseOpen(history[u])
    BY <1>2, <1>3, <1>7
  <2>2. StatusOf(history'[u]) = [kind |-> "free", until |-> 0]
    BY <1>3, <2>1, ClosedRows DEF StatusOf
  <2>3. CASE at = "unban"
    <3>1. Status[u] = [kind |-> "banned", until |-> 0]
      BY <1>2, <1>4, <2>3, StatusOfUser DEF Agree
    <3>2. Abs!Unban(u)
      BY <1>1, <1>5, <2>2, <3>1 DEF Abs!Unban, Abs!Banned, Abs!Free
    <3>. QED
      BY <3>2
  <2>4. CASE at = "allow"
    <3>1. Status[u].kind = "kicked"
      BY <1>2, <1>4, <2>4, StatusOfUser DEF Agree
    <3>2. Abs!Allow(u)
      BY <1>1, <1>5, <2>2, <3>1 DEF Abs!Allow, Abs!Free
    <3>. QED
      BY <3>2
  <2>. QED
    BY <1>7, <2>3, <2>4
<1>. QED
  BY <1>6, <1>7

\* Moderation implements ModerationAbs: each call changes the status of its user
\* at once, and nothing else ever does, neither a crash, nor a restart, nor the
\* clean-up of expired kicks.
THEOREM Implements == Spec => ImplementsAbs
<1>1. Init => TypeOK /\ Inv
  BY TypeInit, InvInit
<1>2. (TypeOK /\ Inv) /\ [Next]_vars => (TypeOK /\ Inv)'
  BY TypeStep, InvStep
<1>3. (TypeOK /\ Inv) /\ [Next]_vars => [Abs!Next]_<<Status, now>>
  <2>. SUFFICES ASSUME TypeOK, Inv, [Next]_vars PROVE [Abs!Next]_<<Status, now>>
    OBVIOUS
  <2>1. ASSUME NEW u \in Users, Call(u)
        PROVE  Abs!Next
    BY <2>1, CallImplements DEF Abs!Next
  <2>2. CASE Tick
    BY <2>2 DEF Tick, Abs!Next, Abs!Tick, Status
  <2>3. CASE UNCHANGED <<history, now>>
    BY <2>3 DEF Status
  <2>. QED
    BY <2>1, <2>2, <2>3 DEF Next, UpdateMaps, TouchUserLastSeen, CleanupExpiredBans, Crash,
       Restart, SendMessage, vars
<1>. QED
  BY <1>1, <1>2, <1>3, PTL DEF Spec, ImplementsAbs, Abs!Spec
=============================================================================
