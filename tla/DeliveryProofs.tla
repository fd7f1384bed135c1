---------------------------- MODULE DeliveryProofs ----------------------------
(* Proofs about Delivery, for any sessions, users, messages and limits: how    *)
(* many messages the table keeps, who is shown a direct message, that nothing  *)
(* brings a deleted message back, and that transcripts agree with the table.   *)
EXTENDS Delivery, FiniteSetTheorems, WellFoundedInduction, TLAPS

----------------------------------------------------------------------------
(* Types.                                                                     *)

People == Users \cup {Nobody}
Kinds == {"msg", "edit", "delete", "react", "note"}
Events == [k : Kinds, id : 0..MaxId, body : Nat, who : Users, to : People]
Rows == [sender : Users, to : People, body : Nat, deleted : BOOLEAN,
         numbered : BOOLEAN, at : Nat]
Places == {"insert", "number", "retain", "send", "notice", "pin"}
Works == [at : Places, ev : Events, time : Nat]
Copies == [body : Nat, deleted : BOOLEAN]

TypeTable ==
    /\ rows \in [Ids -> Rows \cup {NoRow}] /\ nextId \in 1..MaxId + 1
    /\ pins \subseteq Ids
    /\ reactions \subseteq Ids \X Users /\ IsFiniteSet(reactions)

\* What a readPump is about to store has no number yet; what it has stored has.
TypeWork ==
    /\ work \in [Sessions -> Works \cup {Free}]
    /\ \A s \in Sessions : work[s].at \in {"number", "retain"} => work[s].ev.id \in Ids

TypeSession ==
    /\ conn \in [Sessions -> {"off", "fetch", "rows", "reactions"}]
    /\ hist \in [Sessions -> Seq(Events)] /\ send \in [Sessions -> Seq(Events)]
    /\ window \in [Sessions -> SUBSET Ids]

TypeClient == shown \in [Users -> [0..MaxId -> Seq(Copies)]]

TypeOK ==
    /\ TypeTable /\ TypeWork /\ TypeSession /\ TypeClient
    /\ ops \in Nat /\ connects \in Nat /\ stamp \in Nat

LEMMA TypeInit == Init => TypeOK
<1>. SUFFICES ASSUME Init PROVE TypeOK
  OBVIOUS
<1>1. TypeTable
  BY FS_EmptySet, DeliveryAssumption DEF Init, TypeTable, Ids
<1>2. TypeWork
  BY DEF Init, TypeWork, Free
<1>3. TypeSession
  BY DEF Init, TypeSession
<1>4. TypeClient
  BY DEF Init, TypeClient
<1>. QED
  BY <1>1, <1>2, <1>3, <1>4 DEF Init, TypeOK

\* An event with parts of the right types.
LEMMA EventType ==
    ASSUME NEW k \in Kinds, NEW i \in 0..MaxId, NEW b \in Nat, NEW u \in Users, NEW to \in People
    PROVE  Ev(k, i, b, u, to) \in Events
BY DEF Ev, Events

LEMMA BusyType ==
    ASSUME TypeOK, NEW s \in Sessions, NEW at \in Places, NEW e \in Events,
           WorkTo(s, Busy(at, e)), at \in {"number", "retain"} => e.id \in Ids
    PROVE  TypeWork'
<1>1. Busy(at, e) \in Works /\ Busy(at, e).at = at /\ Busy(at, e).ev = e
  BY DEF Busy, Works, TypeOK
<1>2. work' = [work EXCEPT ![s] = Busy(at, e)] /\ work \in [Sessions -> Works \cup {Free}]
  BY DEF WorkTo, TypeOK, TypeWork
<1>. QED
  BY <1>1, <1>2 DEF TypeOK, TypeWork

LEMMA FreeType ==
    ASSUME TypeOK, NEW s \in Sessions, WorkTo(s, Free)
    PROVE  TypeWork'
BY DEF WorkTo, TypeOK, TypeWork, Free

\* A readPump goes on with the same event.
LEMMA GoOnType ==
    ASSUME TypeOK, NEW s \in Sessions, work[s] # Free, NEW at \in Places,
           WorkTo(s, [work[s] EXCEPT !.at = at]), at \in {"number", "retain"} => work[s].ev.id \in Ids
    PROVE  TypeWork'
<1>1. work[s] \in Works
  BY DEF TypeOK, TypeWork
<1>2. /\ [work[s] EXCEPT !.at = at] \in Works /\ [work[s] EXCEPT !.at = at].at = at
      /\ [work[s] EXCEPT !.at = at].ev = work[s].ev
  BY <1>1 DEF Works
<1>. QED
  BY <1>2 DEF WorkTo, TypeOK, TypeWork

\* What a step can do to the rows of the table: a new row gets the next
\* number, and a row that stays keeps whom it is from and for, and its deletion.
RowsKept ==
    /\ nextId' \in {nextId, nextId + 1}
    /\ \A i \in Ids : rows'[i] # NoRow =>
          \/ i = nextId /\ nextId' = nextId + 1
          \/ /\ rows[i] # NoRow
             /\ rows'[i].sender = rows[i].sender /\ rows'[i].to = rows[i].to
             /\ rows[i].deleted => rows'[i].deleted

LEMMA InsertRow ==
    ASSUME TypeOK, NEW s \in Sessions, Insert(s)
    PROVE  /\ TypeTable' /\ TypeWork' /\ RowsKept
           /\ nextId \in Ids /\ nextId' = nextId + 1 /\ work[s] \in Works
           /\ rows'[nextId].sender = work[s].ev.who /\ rows'[nextId].to = work[s].ev.to
           /\ \A i \in Ids \ {nextId} : rows'[i] = rows[i]
           /\ work'[s].ev = [work[s].ev EXCEPT !.id = nextId]
           /\ \A t \in Sessions \ {s} : work'[t] = work[t]
<1>. DEFINE e == work[s].ev
            r == [sender |-> e.who, to |-> e.to, body |-> 0, deleted |-> FALSE,
                  numbered |-> FALSE, at |-> work[s].time]
            w == [work[s] EXCEPT !.at = "number", !.ev = [e EXCEPT !.id = nextId]]
<1>1. work[s] \in Works /\ nextId \in Ids /\ nextId' = nextId + 1
  BY DeliveryAssumption DEF Insert, TypeOK, TypeWork, TypeTable, Free, Ids
<1>2. rows' = [rows EXCEPT ![nextId] = r] /\ work' = [work EXCEPT ![s] = w] /\ pins' = pins
      /\ reactions' = reactions
  BY DEF Insert, WorkTo
<1>3. r \in Rows /\ r.sender = e.who /\ r.to = e.to
  BY <1>1 DEF Works, Events, Rows
<1>4. w \in Works /\ w.ev = [e EXCEPT !.id = nextId] /\ w.ev.id = nextId
  <2>1. e \in Events /\ work[s].time \in Nat /\ nextId \in 0..MaxId
    BY <1>1 DEF Works, Ids
  <2>2. [e EXCEPT !.id = nextId] \in Events /\ [e EXCEPT !.id = nextId].id = nextId
    BY <2>1 DEF Events
  <2>3. ASSUME NEW f \in Events
        PROVE  LET v == [work[s] EXCEPT !.at = "number", !.ev = f] IN v \in Works /\ v.ev = f
    BY <1>1 DEF Works, Places
  <2>. HIDE DEF e
  <2>. QED
    BY <2>2, <2>3
<1>. HIDE DEF r, w
<1>5. rows'[nextId] = r /\ \A i \in Ids \ {nextId} : rows'[i] = rows[i]
  BY <1>1, <1>2 DEF TypeOK, TypeTable
<1>6. work'[s] = w /\ \A t \in Sessions \ {s} : work'[t] = work[t]
  BY <1>2 DEF TypeOK, TypeWork
<1>7. TypeTable'
  BY <1>1, <1>2, <1>3, DeliveryAssumption DEF TypeOK, TypeTable, Ids
<1>8. TypeWork'
  <2>1. work' \in [Sessions -> Works \cup {Free}]
    BY <1>2, <1>4 DEF TypeOK, TypeWork
  <2>2. \A t \in Sessions : work'[t].at \in {"number", "retain"} => work'[t].ev.id \in Ids
    BY <1>1, <1>4, <1>6 DEF TypeOK, TypeWork
  <2>. QED
    BY <2>1, <2>2 DEF TypeWork
<1>9. RowsKept
  BY <1>1, <1>5 DEF RowsKept
<1>. QED
  BY <1>1, <1>3, <1>4, <1>5, <1>6, <1>7, <1>8, <1>9

\* The steps that only change rows that are there, or remove some.
LEMMA RowUpdates ==
    ASSUME TypeOK, NEW s \in Sessions,
           \/ Number(s) \/ Retain(s) \/ PinWrite(s) \/ ClearMessages(s)
           \/ \E i \in Ids : Edit(s, i) \/ Delete(s, i)
    PROVE  TypeTable' /\ TypeWork' /\ RowsKept
<1>0. /\ rows \in [Ids -> Rows \cup {NoRow}] /\ pins \subseteq Ids /\ NoRow \notin Rows
      /\ nextId \in 1..MaxId + 1 /\ UserOf[s] \in Users /\ {MaxId, MaxVersion} \subseteq Nat
      /\ Ids = 1..MaxId /\ Nobody \in People
  BY DeliveryAssumption DEF TypeOK, TypeTable, NoRow, Rows, Ids, People
<1>1. ASSUME NEW i \in Ids, NEW r \in Rows, rows[i] # NoRow, rows' = [rows EXCEPT ![i] = r],
             r.sender = rows[i].sender, r.to = rows[i].to, rows[i].deleted => r.deleted,
             UNCHANGED <<nextId, pins, reactions>>
      PROVE  TypeTable' /\ RowsKept
  <2>1. rows'[i] = r /\ \A j \in Ids \ {i} : rows'[j] = rows[j]
    BY <1>0, <1>1
  <2>2. RowsKept
    BY <1>1, <2>1 DEF RowsKept
  <2>3. TypeTable'
    BY <1>0, <1>1 DEF TypeOK, TypeTable
  <2>. QED
    BY <2>2, <2>3
<1>2. ASSUME NEW Stay \in SUBSET Ids, rows' = [i \in Ids |-> IF i \in Stay THEN rows[i] ELSE NoRow],
             pins' \subseteq pins, UNCHANGED <<nextId, reactions>>
      PROVE  TypeTable' /\ RowsKept
  <2>1. \A i \in Ids : rows'[i] \in {rows[i], NoRow}
    BY <1>2
  <2>2. RowsKept
    BY <1>2, <2>1 DEF RowsKept
  <2>3. rows' \in [Ids -> Rows \cup {NoRow}]
    BY <1>0, <1>2
  <2>. QED
    BY <1>0, <1>2, <2>2, <2>3 DEF TypeOK, TypeTable
<1>3. CASE Number(s)
  <2>. DEFINE i == work[s].ev.id
  <2>1. work[s] \in Works /\ i \in Ids /\ work[s] # Free
    BY <1>3 DEF Number, TypeOK, TypeWork, Free
  <2>2. TypeWork'
    BY <1>3, <2>1, GoOnType DEF Number, Places
  <2>3. UNCHANGED <<nextId, pins, reactions>>
    BY <1>3 DEF Number
  <2>4. CASE rows[i] = NoRow \/ rows' = rows
    <3>1. rows' = rows
      BY <1>0, <1>3, <2>1, <2>4 DEF Number
    <3>. QED
      BY <2>2, <2>3, <3>1 DEF TypeOK, TypeTable, RowsKept
  <2>5. CASE rows[i] # NoRow /\ rows' # rows
    <3>. DEFINE r == [rows[i] EXCEPT !.numbered = TRUE]
    <3>1. rows' = [rows EXCEPT ![i] = r]
      BY <1>0, <1>3, <2>1, <2>5 DEF Number
    <3>2. r \in Rows /\ r.sender = rows[i].sender /\ r.to = rows[i].to /\ r.deleted = rows[i].deleted
      BY <1>0, <2>1, <2>5 DEF Rows
    <3>. HIDE DEF r, i
    <3>. QED
      BY <1>1, <2>1, <2>2, <2>3, <2>5, <3>1, <3>2
  <2>. QED
    BY <2>4, <2>5
<1>4. CASE Retain(s)
  <2>1. work[s] # Free
    BY <1>4 DEF Retain, Free
  <2>2. TypeWork'
    BY <1>4, <2>1, GoOnType DEF Retain, Places
  <2>3. Newest(Present, Retention) \in SUBSET Ids
    BY DEF Newest, Present
  <2>4. UNCHANGED <<nextId, reactions>> /\ pins' \subseteq pins
        /\ rows' = [i \in Ids |-> IF i \in Newest(Present, Retention) THEN rows[i] ELSE NoRow]
    BY <1>4 DEF Retain
  <2>. QED
    BY <1>2, <2>2, <2>3, <2>4
<1>5. CASE PinWrite(s)
  <2>1. work[s] # Free
    BY <1>5 DEF PinWrite, Free
  <2>2. TypeWork'
    BY <1>5, <2>1, GoOnType DEF PinWrite, Places
  <2>3. UNCHANGED <<rows, nextId, reactions>> /\ pins' \subseteq pins \cup Present
    BY <1>5 DEF PinWrite
  <2>4. TypeTable'
    BY <1>0, <2>3 DEF TypeOK, TypeTable, Present
  <2>5. RowsKept
    BY <2>3 DEF RowsKept
  <2>. QED
    BY <2>2, <2>4, <2>5
<1>6. CASE ClearMessages(s)
  <2>. DEFINE e == Ev("note", 0, 0, UserOf[s], Nobody)
  <2>1. e \in Events
    BY <1>0, EventType DEF Kinds
  <2>2. WorkTo(s, Busy("send", e))
    BY <1>6 DEF ClearMessages
  <2>. HIDE DEF e
  <2>3. TypeWork'
    BY <2>1, <2>2, BusyType DEF Places
  <2>4. UNCHANGED <<nextId, reactions>> /\ pins' = {} /\ rows' = [i \in Ids |-> NoRow]
    BY <1>6 DEF ClearMessages
  <2>5. TypeTable'
    BY <2>4 DEF TypeOK, TypeTable
  <2>6. RowsKept
    BY <2>4 DEF RowsKept
  <2>. QED
    BY <2>3, <2>5, <2>6
<1>7. ASSUME NEW i \in Ids, Edit(s, i)
      PROVE  TypeTable' /\ TypeWork' /\ RowsKept
  <2>. DEFINE r == [rows[i] EXCEPT !.body = @ + 1]
              e == Ev("edit", i, rows'[i].body, UserOf[s], Nobody)
  <2>1. rows[i] \in Rows /\ rows[i] # NoRow
    BY <1>0, <1>7 DEF Edit, ById, Present
  <2>2. r \in Rows /\ r.sender = rows[i].sender /\ r.to = rows[i].to /\ r.deleted = rows[i].deleted
        /\ r.body \in Nat
    BY <2>1 DEF Rows
  <2>3. rows' = [rows EXCEPT ![i] = r] /\ UNCHANGED <<nextId, pins, reactions>>
    BY <1>0, <1>7 DEF Edit
  <2>4. WorkTo(s, Busy("send", e))
    BY <1>7 DEF Edit
  <2>. HIDE DEF r
  <2>5. rows'[i].body \in Nat
    BY <1>0, <2>2, <2>3
  <2>6. e \in Events
    BY <1>0, <2>5, EventType DEF Kinds
  <2>. HIDE DEF e
  <2>7. TypeWork'
    BY <2>4, <2>6, BusyType DEF Places
  <2>. QED
    BY <1>1, <2>1, <2>2, <2>3, <2>7
<1>8. ASSUME NEW i \in Ids, Delete(s, i)
      PROVE  TypeTable' /\ TypeWork' /\ RowsKept
  <2>. DEFINE r == [rows[i] EXCEPT !.deleted = TRUE]
              e == Ev("delete", i, 0, UserOf[s], Nobody)
  <2>1. rows[i] \in Rows /\ rows[i] # NoRow
    BY <1>0, <1>8 DEF Delete, ById, Present
  <2>2. r \in Rows /\ r.sender = rows[i].sender /\ r.to = rows[i].to /\ r.deleted
    BY <2>1 DEF Rows
  <2>3. rows' = [rows EXCEPT ![i] = r] /\ UNCHANGED <<nextId, pins, reactions>>
    BY <1>0, <1>8 DEF Delete
  <2>4. WorkTo(s, Busy("send", e))
    BY <1>8 DEF Delete
  <2>. HIDE DEF r
  <2>5. e \in Events
    BY <1>0, EventType DEF Kinds
  <2>. HIDE DEF e
  <2>6. TypeWork'
    BY <2>4, <2>5, BusyType DEF Places
  <2>. QED
    BY <1>1, <2>1, <2>2, <2>3, <2>6
<1>. QED
  BY <1>3, <1>4, <1>5, <1>6, <1>7, <1>8

\* The other steps of a readPump that change nothing but its place, and its bounds.
LEMMA OtherWork ==
    ASSUME TypeOK, NEW s \in Sessions,
           \/ \E to \in (Users \ {UserOf[s]}) \cup {Nobody} : ReadText(s, to)
           \/ \E i \in Ids : PinRead(s, i)
           \/ \E i \in Ids, on \in 0..1 : React(s, i, on) \/ ReactUnstored(s, i, on)
           \/ ReadTyping(s) \/ ReadReceipt(s) \/ ReadFile(s) \/ Search(s)
           \/ InsertFails(s)
    PROVE  /\ TypeTable' /\ TypeWork' /\ RowsKept /\ UNCHANGED <<rows, nextId>>
           /\ \A t \in Sessions \ {s} : work'[t] = work[t]
           /\ \/ work'[s].ev.k # "msg" \/ work'[s].ev.id = 0
              \/ work[s] \in Works /\ work'[s].ev = work[s].ev
<1>0. /\ work \in [Sessions -> Works \cup {Free}] /\ UserOf[s] \in Users
      /\ Users \subseteq People /\ Nobody \in People /\ MaxId \in Nat
      /\ Ids \subseteq 0..MaxId /\ 0 \in 0..MaxId
  BY DeliveryAssumption DEF TypeOK, TypeWork, People, Ids
<1>1. ASSUME NEW at \in Places \ {"number", "retain"}, NEW k \in Kinds, NEW i \in 0..MaxId, NEW b \in Nat,
             NEW to \in People, WorkTo(s, Busy(at, Ev(k, i, b, UserOf[s], to))), k = "msg" => i = 0
      PROVE  TypeWork' /\ (work'[s].ev.k = "msg" => work'[s].ev.id = 0)
  <2>. DEFINE e == Ev(k, i, b, UserOf[s], to)
  <2>1. e \in Events
    BY <1>0, EventType
  <2>2. e.k = k /\ e.id = i
    BY DEF Ev
  <2>3. WorkTo(s, Busy(at, e))
    BY <1>1
  <2>. HIDE DEF e
  <2>4. TypeWork'
    BY <2>1, <2>3, BusyType
  <2>5. work'[s] = Busy(at, e) /\ Busy(at, e).ev = e
    BY <1>0, <2>3 DEF WorkTo, Busy
  <2>. QED
    BY <1>1, <2>2, <2>4, <2>5
<1>2. ASSUME NEW to \in (Users \ {UserOf[s]}) \cup {Nobody}, ReadText(s, to)
      PROVE  TypeWork' /\ (work'[s].ev.k = "msg" => work'[s].ev.id = 0)
  BY <1>0, <1>1, <1>2 DEF ReadText, Kinds, Places
<1>3. ASSUME NEW i \in Ids, PinRead(s, i)
      PROVE  TypeWork' /\ (work'[s].ev.k = "msg" => work'[s].ev.id = 0)
  <2>1. (IF i \in pins THEN 1 ELSE 0) \in Nat /\ i \in 0..MaxId
    BY <1>0
  <2>. QED
    BY <1>0, <1>1, <1>3, <2>1 DEF PinRead, Kinds, Places
<1>4. ASSUME NEW i \in Ids, NEW on \in 0..1, React(s, i, on) \/ ReactUnstored(s, i, on)
      PROVE  TypeWork' /\ (work'[s].ev.k = "msg" => work'[s].ev.id = 0)
  <2>1. on \in Nat /\ i \in 0..MaxId
    BY <1>0
  <2>. QED
    BY <1>0, <1>1, <1>4, <2>1 DEF React, ReactUnstored, Kinds, Places
<1>5. ASSUME NEW at \in {"send", "notice"}, Say(s, at)
      PROVE  TypeWork' /\ (work'[s].ev.k = "msg" => work'[s].ev.id = 0)
  BY <1>0, <1>1, <1>5 DEF Say, Kinds, Places
<1>6. ASSUME InsertFails(s)
      PROVE  TypeWork' /\ work[s] \in Works /\ work'[s].ev = work[s].ev
  <2>1. work[s] # Free /\ work[s] \in Works
    BY <1>0, <1>6 DEF InsertFails, Free
  <2>2. TypeWork'
    BY <1>6, <2>1, GoOnType DEF InsertFails, Places
  <2>. QED
    BY <1>0, <1>6, <2>1, <2>2 DEF InsertFails, WorkTo, Works
<1>7. /\ TypeWork'
      /\ \/ work'[s].ev.k # "msg" \/ work'[s].ev.id = 0
         \/ work[s] \in Works /\ work'[s].ev = work[s].ev
  <2>1. CASE InsertFails(s)
    BY <1>6, <2>1
  <2>2. CASE ~InsertFails(s)
    <3>1. TypeWork' /\ (work'[s].ev.k = "msg" => work'[s].ev.id = 0)
      BY <1>2, <1>3, <1>4, <1>5, <2>2 DEF ReadTyping, ReadReceipt, ReadFile, Search
    <3>. QED
      BY <3>1
  <2>. QED
    BY <2>1, <2>2
<1>8. UNCHANGED <<rows, nextId, pins>> /\ \A t \in Sessions \ {s} : work'[t] = work[t]
  BY <1>0 DEF ReadText, PinRead, React, ReactUnstored, ReadTyping, ReadReceipt, ReadFile, Search, Say,
     InsertFails, WorkTo, table
<1>9. reactions' \subseteq Ids \X Users /\ IsFiniteSet(reactions')
  <2>1. reactions \subseteq Ids \X Users /\ IsFiniteSet(reactions)
    BY DEF TypeOK, TypeTable
  <2>2. ASSUME NEW i \in Ids
        PROVE  /\ reactions \cup {<<i, UserOf[s]>>} \subseteq Ids \X Users
               /\ reactions \ {<<i, UserOf[s]>>} \subseteq Ids \X Users
               /\ IsFiniteSet(reactions \cup {<<i, UserOf[s]>>})
               /\ IsFiniteSet(reactions \ {<<i, UserOf[s]>>})
    BY <1>0, <2>1, FS_AddElement, FS_RemoveElement
  <2>3. \/ reactions' = reactions
        \/ \E i \in Ids : reactions' \in {reactions \cup {<<i, UserOf[s]>>}, reactions \ {<<i, UserOf[s]>>}}
    BY DEF ReadText, PinRead, React, ReactUnstored, ReadTyping, ReadReceipt, ReadFile, Search, Say, InsertFails, table
  <2>. QED
    BY <2>1, <2>2, <2>3
<1>10. TypeTable'
  BY <1>8, <1>9 DEF TypeOK, TypeTable
<1>11. RowsKept
  BY <1>8 DEF RowsKept
<1>. QED
  BY <1>7, <1>8, <1>10, <1>11

----------------------------------------------------------------------------
(* Who is sent what.  An event that carries a message names, while the row is  *)
(* there, the sender and the recipient of the row, and what is in the buffers  *)
(* of a session is for the user of the session.                                *)

Sound(e) ==
    e.k = "msg" /\ e.id # 0 =>
        /\ e.id < nextId
        /\ rows[e.id] # NoRow => rows[e.id].sender = e.who /\ rows[e.id].to = e.to

For(u, e) == e.k = "msg" => e.to = Nobody \/ u \in {e.who, e.to}

Fit(s) == {e \in Events : Sound(e) /\ For(UserOf[s], e)}

MayKnow(u, i) ==
    i < nextId /\ (rows[i] # NoRow => rows[i].to = Nobody \/ u \in {rows[i].sender, rows[i].to})

Addressed ==
    /\ \A i \in Ids : i >= nextId => rows[i] = NoRow
    /\ \A s \in Sessions : work[s] # Free => Sound(work[s].ev)
    /\ \A s \in Sessions : hist[s] \in Seq(Fit(s)) /\ send[s] \in Seq(Fit(s))
    /\ \A u \in Users, i \in Ids : shown[u][i] # <<>> => MayKnow(u, i)

LEMMA AddressedInit == Init => Addressed
<1>. SUFFICES ASSUME Init PROVE Addressed
  OBVIOUS
<1>1. (\A i \in Ids : rows[i] = NoRow) /\ \A s \in Sessions : work[s] = Free
  BY DEF Init
<1>2. \A s \in Sessions : hist[s] \in Seq(Fit(s)) /\ send[s] \in Seq(Fit(s))
  BY DEF Init
<1>3. \A u \in Users, i \in Ids : shown[u][i] = <<>>
  BY DeliveryAssumption DEF Init, Ids
<1>. QED
  BY <1>1, <1>2, <1>3 DEF Addressed

\* What the table does to its rows changes nothing of it.
LEMMA FitKept ==
    ASSUME TypeOK, RowsKept, Addressed
    PROVE  /\ \A e \in Events : Sound(e) => Sound(e)'
           /\ \A s \in Sessions : Seq(Fit(s)) \subseteq Seq(Fit(s)')
           /\ \A u \in Users, i \in Ids : MayKnow(u, i) => MayKnow(u, i)'
           /\ \A i \in Ids : i >= nextId' => rows'[i] = NoRow
<1>0. nextId \in Nat /\ nextId' \in Nat /\ nextId' >= nextId /\ MaxId \in Nat
  BY DeliveryAssumption DEF TypeOK, TypeTable, RowsKept
<1>1. ASSUME NEW e \in Events, Sound(e)
      PROVE  Sound(e)'
  <2>. SUFFICES ASSUME e.k = "msg", e.id # 0
               PROVE  e.id < nextId' /\ (rows'[e.id] # NoRow =>
                         rows'[e.id].sender = e.who /\ rows'[e.id].to = e.to)
    BY DEF Sound
  <2>1. e.id \in Ids /\ e.id < nextId
    BY <1>0, <1>1 DEF Sound, Events, Ids
  <2>2. rows[e.id] # NoRow => rows[e.id].sender = e.who /\ rows[e.id].to = e.to
    BY <1>1 DEF Sound
  <2>3. rows'[e.id] # NoRow => /\ rows[e.id] # NoRow
                              /\ rows'[e.id].sender = rows[e.id].sender /\ rows'[e.id].to = rows[e.id].to
    BY <1>0, <2>1 DEF RowsKept
  <2>. QED
    BY <1>0, <2>1, <2>2, <2>3 DEF Ids
<1>2. ASSUME NEW s \in Sessions
      PROVE  Seq(Fit(s)) \subseteq Seq(Fit(s)')
  <2>1. Fit(s) \subseteq Fit(s)'
    BY <1>1 DEF Fit, For
  <2>. QED
    BY <2>1
<1>3. ASSUME NEW u \in Users, NEW i \in Ids, MayKnow(u, i)
      PROVE  MayKnow(u, i)'
  BY <1>0, <1>3 DEF MayKnow, RowsKept, Ids
<1>4. ASSUME NEW i \in Ids, i >= nextId'
      PROVE  rows'[i] = NoRow
  BY <1>0, <1>4 DEF Addressed, RowsKept, Ids
<1>. QED
  BY <1>1, <1>2, <1>3, <1>4

\* The steps of a readPump that work on the table.
LEMMA TableStep ==
    ASSUME TypeOK, Addressed, NEW s \in Sessions,
           \/ Dispatch(s) \/ Insert(s) \/ InsertFails(s) \/ Number(s) \/ Retain(s) \/ PinWrite(s)
    PROVE  TypeTable' /\ TypeWork' /\ RowsKept /\ Addressed' /\ UNCHANGED <<session, client, window>>
<1>1. UNCHANGED <<session, client, window>>
  BY DEF Dispatch, ReadText, Edit, Delete, PinRead, React, ReactUnstored, ClearMessages,
     ReadTyping, ReadReceipt,
     ReadFile, Search, Say, Insert, InsertFails, Number, Retain, PinWrite, Store, ghost
<1>2. ASSUME TypeTable', TypeWork', RowsKept, (\A t \in Sessions : work[t] # Free => Sound(work[t].ev))'
      PROVE  TypeTable' /\ TypeWork' /\ RowsKept /\ Addressed'
  BY <1>1, <1>2, FitKept DEF Addressed, session, client
<1>3. \A t \in Sessions : work[t] # Free => work[t].ev \in Events /\ Sound(work[t].ev)
  BY DEF TypeOK, TypeWork, Works, Addressed
<1>4. CASE Insert(s)
  <2>1. /\ TypeTable' /\ TypeWork' /\ RowsKept /\ nextId \in Ids /\ nextId' = nextId + 1
        /\ work[s] \in Works /\ rows'[nextId].sender = work[s].ev.who /\ rows'[nextId].to = work[s].ev.to
        /\ work'[s].ev = [work[s].ev EXCEPT !.id = nextId]
        /\ \A t \in Sessions \ {s} : work'[t] = work[t]
    BY <1>4, InsertRow
  <2>2. /\ work'[s].ev.id = nextId /\ work'[s].ev.who = work[s].ev.who
        /\ work'[s].ev.to = work[s].ev.to
    BY <2>1 DEF Works, Events
  <2>3. Sound(work[s].ev)'
    BY <2>1, <2>2 DEF Sound, Ids
  <2>4. \A t \in Sessions \ {s} : (work[t] # Free => Sound(work[t].ev))'
    BY <1>3, <2>1, FitKept
  <2>. QED
    BY <1>1, <1>2, <2>1, <2>3, <2>4
<1>5. ASSUME \/ Number(s) \/ Retain(s) \/ PinWrite(s) \/ ClearMessages(s)
             \/ \E i \in Ids : Edit(s, i) \/ Delete(s, i)
      PROVE  TypeTable' /\ TypeWork' /\ RowsKept /\ Addressed'
  <2>1. TypeTable' /\ TypeWork' /\ RowsKept
    BY <1>5, RowUpdates
  <2>2. \A t \in Sessions \ {s} : work'[t] = work[t]
    BY <1>5 DEF Number, Retain, PinWrite, ClearMessages, Edit, Delete, WorkTo, TypeOK, TypeWork
  <2>3. Sound(work[s].ev)'
    <3>1. CASE Number(s) \/ Retain(s) \/ PinWrite(s)
      <4>1. work[s] \in Works /\ work[s] # Free
        BY <3>1 DEF Number, Retain, PinWrite, TypeOK, TypeWork, Free
      <4>2. work'[s].ev = work[s].ev
        BY <3>1, <4>1 DEF Number, Retain, PinWrite, WorkTo, TypeOK, TypeWork, Works
      <4>. QED
        BY <1>3, <2>1, <4>1, <4>2, FitKept
    <3>2. CASE ClearMessages(s) \/ \E i \in Ids : Edit(s, i) \/ Delete(s, i)
      <4>1. work'[s].ev.k # "msg"
        BY <3>2 DEF ClearMessages, Edit, Delete, WorkTo, Busy, Ev, TypeOK, TypeWork
      <4>. QED
        BY <4>1 DEF Sound
    <3>. QED
      BY <1>5, <3>1, <3>2
  <2>4. \A t \in Sessions \ {s} : (work[t] # Free => Sound(work[t].ev))'
    BY <1>3, <2>1, <2>2, FitKept
  <2>. QED
    BY <1>2, <2>1, <2>3, <2>4
<1>6. ASSUME \/ \E to \in (Users \ {UserOf[s]}) \cup {Nobody} : ReadText(s, to)
             \/ \E i \in Ids : PinRead(s, i)
             \/ \E i \in Ids, on \in 0..1 : React(s, i, on) \/ ReactUnstored(s, i, on)
             \/ ReadTyping(s) \/ ReadReceipt(s) \/ ReadFile(s) \/ Search(s)
             \/ InsertFails(s)
      PROVE  TypeTable' /\ TypeWork' /\ RowsKept /\ Addressed'
  <2>1. /\ TypeTable' /\ TypeWork' /\ RowsKept
        /\ \A t \in Sessions \ {s} : work'[t] = work[t]
        /\ \/ work'[s].ev.k # "msg" \/ work'[s].ev.id = 0
           \/ work[s] \in Works /\ work'[s].ev = work[s].ev
    BY <1>6, OtherWork
  <2>2. Sound(work[s].ev)'
    <3>1. CASE work'[s].ev.k # "msg" \/ work'[s].ev.id = 0
      BY <3>1 DEF Sound
    <3>2. CASE work[s] \in Works /\ work'[s].ev = work[s].ev
      BY <1>3, <2>1, <3>2, FitKept DEF Works, Free
    <3>. QED
      BY <2>1, <3>1, <3>2
  <2>3. \A t \in Sessions \ {s} : (work[t] # Free => Sound(work[t].ev))'
    BY <1>3, <2>1, FitKept
  <2>. QED
    BY <1>2, <2>1, <2>2, <2>3
<1>. QED
  BY <1>1, <1>4, <1>5, <1>6 DEF Dispatch

\* The steps of hub, handshakes and clients leave the table alone.
Sane ==
    /\ UNCHANGED table
    /\ hist' = [t \in Sessions |-> hist'[t]] /\ send' = [t \in Sessions |-> send'[t]]
    /\ conn' = [t \in Sessions |-> conn'[t]] /\ window' = [t \in Sessions |-> window'[t]]
    /\ work' = [t \in Sessions |-> work'[t]]
    /\ \A t \in Sessions :
          /\ hist'[t] \in Seq(Fit(t)) /\ send'[t] \in Seq(Fit(t))
          /\ conn'[t] \in {"off", "fetch", "rows", "reactions"} /\ window'[t] \subseteq Ids
          /\ \/ work'[t] = work[t]
             \/ work'[t] = Free /\ work[t].at \in {"send", "notice"}
    /\ shown' \in [Users -> [0..MaxId -> Seq(Copies)]]
    /\ \A u \in Users, i \in Ids : shown'[u][i] # <<>> => MayKnow(u, i)
    /\ ops' \in Nat /\ connects' \in Nat /\ stamp' \in Nat

LEMMA SaneStep ==
    ASSUME TypeOK, Addressed, Sane
    PROVE  TypeOK' /\ Addressed' /\ RowsKept
<1>1. TypeTable' /\ RowsKept /\ rows' = rows /\ nextId' = nextId
  BY DEF Sane, table, TypeOK, TypeTable, RowsKept
<1>2. TypeWork'
  <2>1. \A t \in Sessions : work'[t] = work[t] \/ work'[t] = Free
    BY DEF Sane
  <2>2. \A t \in Sessions : work'[t] \in Works \cup {Free}
    BY <2>1 DEF TypeOK, TypeWork
  <2>3. work' \in [Sessions -> Works \cup {Free}]
    BY <2>2 DEF Sane
  <2>4. \A t \in Sessions : work'[t].at \in {"number", "retain"} => work'[t].ev.id \in Ids
    BY <2>1 DEF TypeOK, TypeWork, Free
  <2>. QED
    BY <2>3, <2>4 DEF TypeWork
<1>3. \A t \in Sessions : Fit(t)' = Fit(t)
  BY <1>1 DEF Fit, Sound, For
<1>4. \A t \in Sessions : Seq(Fit(t)) \subseteq Seq(Events)
  BY DEF Fit
<1>5. TypeSession'
  BY <1>4 DEF Sane, TypeSession
<1>6. Addressed'
  <2>1. \A i \in Ids : i >= nextId' => rows'[i] = NoRow
    BY <1>1 DEF Addressed
  <2>2. ASSUME NEW t \in Sessions
        PROVE  (work[t] # Free => Sound(work[t].ev))'
    <3>1. work'[t] # Free => work'[t] = work[t]
      BY DEF Sane
    <3>. QED
      BY <1>1, <3>1 DEF Addressed, Sound
  <2>3. \A t \in Sessions : (hist[t] \in Seq(Fit(t)) /\ send[t] \in Seq(Fit(t)))'
    BY <1>3 DEF Sane
  <2>4. \A u \in Users, i \in Ids : (shown[u][i] # <<>> => MayKnow(u, i))'
    BY <1>1 DEF Sane, MayKnow
  <2>. QED
    BY <2>1, <2>2, <2>3, <2>4 DEF Addressed
<1>. QED
  BY <1>1, <1>2, <1>5, <1>6 DEF Sane, TypeOK, TypeClient

\* What stays as it was is sane.
LEMMA SameSane ==
    ASSUME TypeOK, Addressed
    PROVE  /\ hist = [t \in Sessions |-> hist[t]] /\ send = [t \in Sessions |-> send[t]]
           /\ conn = [t \in Sessions |-> conn[t]] /\ window = [t \in Sessions |-> window[t]]
           /\ work = [t \in Sessions |-> work[t]]
           /\ \A t \in Sessions :
                 /\ hist[t] \in Seq(Fit(t)) /\ send[t] \in Seq(Fit(t))
                 /\ conn[t] \in {"off", "fetch", "rows", "reactions"} /\ window[t] \subseteq Ids
           /\ shown \in [Users -> [0..MaxId -> Seq(Copies)]]
           /\ \A u \in Users, i \in Ids : shown[u][i] # <<>> => MayKnow(u, i)
           /\ ops \in Nat /\ connects \in Nat /\ stamp \in Nat
           /\ \A t \in Sessions : <<>> \in Seq(Fit(t))
BY DEF TypeOK, TypeSession, TypeWork, TypeClient, Addressed

LEMMA PutFits ==
    ASSUME TypeOK, Addressed, NEW To, NEW e \in Events, Sound(e),
           \A t \in To \cap Sessions : For(UserOf[t], e)
    PROVE  \A t \in Sessions : Put(To, e)[t] \in Seq(Fit(t))
<1>. TAKE t \in Sessions
<1>1. send[t] \in Seq(Fit(t))
  BY DEF Addressed
<1>2. Put(To, e)[t] = send[t] \/ (t \in To /\ Put(To, e)[t] = Append(send[t], e))
  BY DEF Put
<1>3. t \in To => e \in Fit(t)
  BY DEF Fit
<1>4. e \in Fit(t) => Append(send[t], e) \in Seq(Fit(t))
  BY <1>1
<1>. QED
  BY <1>1, <1>2, <1>3, <1>4

LEMMA WorkEvent ==
    ASSUME TypeOK, Addressed, NEW s \in Sessions, work[s] # Free
    PROVE  work[s].ev \in Events /\ Sound(work[s].ev)
BY DEF TypeOK, TypeWork, Works, Addressed

LEMMA NoticeStep == ASSUME TypeOK, Addressed, NEW s \in Sessions, Notice(s) PROVE Sane
<1>. DEFINE e == Ev("note", 0, 0, UserOf[s], Nobody)
<1>1. e \in Events
  BY EventType, DeliveryAssumption DEF Kinds, People
<1>2. Sound(e) /\ \A t \in Sessions : For(UserOf[t], e)
  BY DEF Ev, Sound, For
<1>3. send' = Put({s} \cap Live, e) /\ UNCHANGED <<table, conn, hist, shown, ops, connects, stamp, window>>
      /\ work' = [work EXCEPT ![s] = Free]
  BY DEF Notice, WorkTo, client, ghost
<1>. HIDE DEF e
<1>4. send' = [t \in Sessions |-> send'[t]]
  BY <1>3 DEF Put
<1>5. \A t \in Sessions : send'[t] \in Seq(Fit(t))
  BY <1>1, <1>2, <1>3, PutFits
<1>6. work' = [t \in Sessions |-> work'[t]] /\ \A t \in Sessions \ {s} : work'[t] = work[t]
  BY <1>3, SameSane
<1>7. work'[s] = Free /\ work[s].at = "notice"
  BY <1>3, SameSane DEF Notice
<1>. QED
  BY <1>3, <1>4, <1>5, <1>6, <1>7, SameSane DEF Sane

LEMMA BroadcastStep == ASSUME TypeOK, Addressed, NEW s \in Sessions, Broadcast(s) PROVE Sane
<1>. DEFINE e == work[s].ev
            dropped == {t \in Live : Full(t)}
<1>1. e \in Events /\ Sound(e)
  BY WorkEvent DEF Broadcast, Free
<1>2. \A t \in Sessions : For(UserOf[t], e)
  BY DEF Broadcast, For
<1>3. /\ send' = [t \in Sessions |-> IF t \in dropped THEN <<>> ELSE Put(Live, e)[t]]
      /\ conn' = [t \in Sessions |-> IF t \in dropped THEN "off" ELSE conn[t]]
      /\ hist' = [t \in Sessions |-> IF t \in dropped THEN <<>> ELSE hist[t]]
      /\ window' = [t \in Sessions |-> IF t \in dropped THEN {} ELSE window[t]]
      /\ work' = [work EXCEPT ![s] = Free]
      /\ UNCHANGED <<table, shown, ops, connects, stamp>>
  BY DEF Broadcast, End, WorkTo, client
<1>. HIDE DEF dropped, e
<1>4. \A t \in Sessions : Put(Live, e)[t] \in Seq(Fit(t))
  BY <1>1, <1>2, PutFits
<1>5. /\ send' = [t \in Sessions |-> send'[t]] /\ conn' = [t \in Sessions |-> conn'[t]]
      /\ hist' = [t \in Sessions |-> hist'[t]] /\ window' = [t \in Sessions |-> window'[t]]
  BY <1>3
<1>6. \A t \in Sessions :
          /\ hist'[t] \in Seq(Fit(t)) /\ send'[t] \in Seq(Fit(t))
          /\ conn'[t] \in {"off", "fetch", "rows", "reactions"} /\ window'[t] \subseteq Ids
  BY <1>3, <1>4, SameSane
<1>7. work' = [t \in Sessions |-> work'[t]] /\ \A t \in Sessions \ {s} : work'[t] = work[t]
  BY <1>3, SameSane
<1>8. work'[s] = Free /\ work[s].at = "send"
  BY <1>3, SameSane DEF Broadcast
<1>. QED
  BY <1>3, <1>5, <1>6, <1>7, <1>8, SameSane DEF Sane

LEMMA BroadcastDMStep == ASSUME TypeOK, Addressed, NEW s \in Sessions, BroadcastDM(s) PROVE Sane
<1>. DEFINE e == work[s].ev
<1>1. e \in Events /\ Sound(e) /\ e.to # Nobody
  BY WorkEvent DEF BroadcastDM, Free
<1>2. \A t \in Audience(e) \cap Sessions : For(UserOf[t], e)
  BY <1>1 DEF Audience, For
<1>3. /\ send' = Put(Audience(e), e) /\ work' = [work EXCEPT ![s] = Free]
      /\ UNCHANGED <<table, conn, hist, shown, ops, connects, stamp, window>>
  BY DEF BroadcastDM, WorkTo, client
<1>. HIDE DEF e
<1>4. send' = [t \in Sessions |-> send'[t]]
  BY <1>3 DEF Put
<1>5. \A t \in Sessions : send'[t] \in Seq(Fit(t))
  BY <1>1, <1>2, <1>3, PutFits
<1>6. work' = [t \in Sessions |-> work'[t]] /\ \A t \in Sessions \ {s} : work'[t] = work[t]
  BY <1>3, SameSane
<1>7. work'[s] = Free /\ work[s].at = "send"
  BY <1>3, SameSane DEF BroadcastDM
<1>. QED
  BY <1>3, <1>4, <1>5, <1>6, <1>7, SameSane DEF Sane

LEMMA ConnectStep == ASSUME TypeOK, Addressed, NEW s \in Sessions, Connect(s) PROVE Sane
<1>1. /\ conn' = [conn EXCEPT ![s] = "fetch"] /\ send' = [send EXCEPT ![s] = <<>>]
      /\ shown' = [shown EXCEPT ![UserOf[s]] = [i \in 0..MaxId |-> <<>>]]
      /\ connects' = connects + 1
      /\ UNCHANGED <<table, work, hist, ops, stamp, window>>
  BY DEF Connect, Joins
<1>2. /\ send' = [t \in Sessions |-> send'[t]] /\ conn' = [t \in Sessions |-> conn'[t]]
      /\ \A t \in Sessions : send'[t] \in Seq(Fit(t)) /\ conn'[t] \in {"off", "fetch", "rows", "reactions"}
  BY <1>1, SameSane
<1>3. shown' \in [Users -> [0..MaxId -> Seq(Copies)]]
  <2>1. [i \in 0..MaxId |-> <<>>] \in [0..MaxId -> Seq(Copies)]
    OBVIOUS
  <2>. QED
    BY <1>1, <2>1, SameSane
<1>4. \A u \in Users, i \in Ids : shown'[u][i] # <<>> => MayKnow(u, i)
  BY <1>1, SameSane, DeliveryAssumption DEF Ids
<1>5. connects' \in Nat
  BY <1>1, SameSane
<1>6. UNCHANGED <<table, work, hist, ops, stamp, window>>
  BY <1>1
<1>. QED
  BY <1>2, <1>3, <1>4, <1>5, <1>6, SameSane DEF Sane

LEMMA DisconnectStep == ASSUME TypeOK, Addressed, NEW s \in Sessions, Disconnect(s) PROVE Sane
<1>1. /\ conn' = [t \in Sessions |-> IF t \in {s} THEN "off" ELSE conn[t]]
      /\ hist' = [t \in Sessions |-> IF t \in {s} THEN <<>> ELSE hist[t]]
      /\ window' = [t \in Sessions |-> IF t \in {s} THEN {} ELSE window[t]]
      /\ send' = [send EXCEPT ![s] = <<>>]
      /\ UNCHANGED <<table, work, shown, ops, connects, stamp>>
  BY DEF Disconnect, End, client
<1>2. /\ send' = [t \in Sessions |-> send'[t]] /\ conn' = [t \in Sessions |-> conn'[t]]
      /\ hist' = [t \in Sessions |-> hist'[t]] /\ window' = [t \in Sessions |-> window'[t]]
      /\ \A t \in Sessions :
            /\ hist'[t] \in Seq(Fit(t)) /\ send'[t] \in Seq(Fit(t))
            /\ conn'[t] \in {"off", "fetch", "rows", "reactions"} /\ window'[t] \subseteq Ids
  BY <1>1, SameSane
<1>. QED
  BY <1>1, <1>2, SameSane DEF Sane

----------------------------------------------------------------------------
(* The replay.                                                                *)

\* A listing of a finite set, event by event, fills a buffer.
LEMMA ListsFill ==
    ASSUME NEW S, IsFiniteSet(S), NEW f \in Lists(S)
    PROVE  Cardinality(S) \in Nat /\ DOMAIN f = 1..Cardinality(S) /\ \A n \in DOMAIN f : f[n] \in S
BY FS_CardinalityType DEF Lists

LEMMA RecentIsFinite ==
    ASSUME NEW u
    PROVE  Recent(u) \subseteq Visible(u) /\ Visible(u) \subseteq Present /\ Present \subseteq Ids
           /\ IsFiniteSet(Recent(u)) /\ IsFiniteSet(Present)
<1>1. Recent(u) \subseteq Visible(u) /\ Visible(u) \subseteq Present /\ Present \subseteq Ids
  BY DEF Recent, Visible, Present
<1>2. IsFiniteSet(Ids)
  BY FS_Interval, DeliveryAssumption DEF Ids
<1>. QED
  BY <1>1, <1>2, FS_Subset

LEMMA FetchStep == ASSUME TypeOK, Addressed, NEW s \in Sessions, Fetch(s) PROVE Sane
<1>. DEFINE got == Recent(UserOf[s])
<1>1. PICK list \in Lists(got) : hist' = [hist EXCEPT ![s] = [n \in DOMAIN list |-> AsEvent(list[n])]]
  BY DEF Fetch
<1>2. /\ conn' = [conn EXCEPT ![s] = "rows"] /\ window' = [window EXCEPT ![s] = got]
      /\ UNCHANGED <<table, work, send, shown, ops, connects, stamp>>
  BY DEF Fetch, client
<1>3. got \subseteq Visible(UserOf[s]) /\ got \subseteq Ids /\ got \subseteq Present /\ IsFiniteSet(got)
  BY RecentIsFinite
<1>4. Cardinality(got) \in Nat /\ DOMAIN list = 1..Cardinality(got) /\ \A n \in DOMAIN list : list[n] \in got
  BY <1>3, ListsFill
<1>5. ASSUME NEW i \in got
      PROVE  AsEvent(i) \in Fit(s)
  <2>1. rows[i] \in Rows /\ rows[i] # NoRow /\ i \in Ids
    BY <1>3 DEF Present, TypeOK, TypeTable
  <2>2. i < nextId
    BY <2>1, DeliveryAssumption DEF Addressed, TypeOK, TypeTable, Ids
  <2>3. rows[i].to = Nobody \/ UserOf[s] \in {rows[i].sender, rows[i].to}
    BY <1>3 DEF Visible
  <2>4. PICK n \in {0, i}, k \in {"msg", "delete"}, b \in Nat :
           AsEvent(i) = Ev(k, n, b, rows[i].sender, rows[i].to)
    <3>1. rows[i].body \in Nat /\ 0 \in Nat
      BY <2>1 DEF Rows
    <3>. QED
      BY <3>1 DEF AsEvent
  <2>5. n \in 0..MaxId /\ rows[i].sender \in Users /\ rows[i].to \in People
    BY <2>1, DeliveryAssumption DEF Ids, Rows
  <2>6. AsEvent(i) \in Events
    BY <2>4, <2>5, EventType DEF Kinds
  <2>7. Sound(AsEvent(i)) /\ For(UserOf[s], AsEvent(i))
    BY <2>2, <2>3, <2>4 DEF Ev, Sound, For
  <2>. QED
    BY <2>6, <2>7 DEF Fit
<1>. HIDE DEF got
<1>6. [n \in DOMAIN list |-> AsEvent(list[n])] \in Seq(Fit(s))
  BY <1>4, <1>5
<1>7. /\ hist' = [t \in Sessions |-> hist'[t]] /\ conn' = [t \in Sessions |-> conn'[t]]
      /\ window' = [t \in Sessions |-> window'[t]]
      /\ \A t \in Sessions :
            /\ hist'[t] \in Seq(Fit(t)) /\ conn'[t] \in {"off", "fetch", "rows", "reactions"}
            /\ window'[t] \subseteq Ids
  BY <1>1, <1>2, <1>3, <1>6, SameSane
<1>. QED
  BY <1>2, <1>7, SameSane DEF Sane

LEMMA ReplayStep == ASSUME TypeOK, Addressed, NEW s \in Sessions, Replay(s) PROVE Sane
<1>1. /\ send' = Put({s}, Head(hist[s])) /\ hist' = [hist EXCEPT ![s] = Tail(@)] /\ hist[s] # <<>>
      /\ UNCHANGED <<table, work, conn, shown, ops, connects, stamp, window>>
  BY DEF Replay, client
<1>2. Head(hist[s]) \in Fit(s) /\ Tail(hist[s]) \in Seq(Fit(s))
  BY <1>1, SameSane
<1>3. \A t \in Sessions : send'[t] \in Seq(Fit(t))
  BY <1>1, <1>2, PutFits DEF Fit
<1>4. send' = [t \in Sessions |-> send'[t]]
  BY <1>1 DEF Put
<1>5. hist' = [t \in Sessions |-> hist'[t]] /\ \A t \in Sessions : hist'[t] \in Seq(Fit(t))
  BY <1>1, <1>2, SameSane
<1>6. UNCHANGED <<table, work, conn, shown, ops, connects, stamp, window>>
  BY <1>1
<1>. QED
  BY <1>3, <1>4, <1>5, <1>6, SameSane DEF Sane

LEMMA LoadReactionsStep == ASSUME TypeOK, Addressed, NEW s \in Sessions, LoadReactions(s) PROVE Sane
<1>. DEFINE of == {r \in reactions : r[1] \in window[s]}
<1>1. PICK list \in Lists(of) : hist' = [hist EXCEPT ![s] = [n \in DOMAIN list |->
                                    Ev("react", list[n][1], 1, list[n][2], Nobody)]]
  BY DEF LoadReactions
<1>2. conn' = [conn EXCEPT ![s] = "reactions"]
      /\ UNCHANGED <<table, work, send, shown, ops, connects, stamp, window>>
  BY DEF LoadReactions, client, ghost
<1>3. IsFiniteSet(of) /\ of \subseteq Ids \X Users
  BY FS_Subset DEF TypeOK, TypeTable
<1>4. Cardinality(of) \in Nat /\ DOMAIN list = 1..Cardinality(of) /\ \A n \in DOMAIN list : list[n] \in of
  BY <1>3, ListsFill
<1>5. ASSUME NEW r \in of
      PROVE  Ev("react", r[1], 1, r[2], Nobody) \in Fit(s)
  <2>1. r[1] \in 0..MaxId /\ r[2] \in Users
    BY <1>3, DeliveryAssumption DEF Ids
  <2>2. Ev("react", r[1], 1, r[2], Nobody) \in Events
    BY <2>1, EventType DEF Kinds, People
  <2>. QED
    BY <2>2 DEF Fit, Sound, For, Ev
<1>. HIDE DEF of
<1>6. [n \in DOMAIN list |-> Ev("react", list[n][1], 1, list[n][2], Nobody)] \in Seq(Fit(s))
  BY <1>4, <1>5
<1>7. /\ hist' = [t \in Sessions |-> hist'[t]] /\ conn' = [t \in Sessions |-> conn'[t]]
      /\ \A t \in Sessions :
            hist'[t] \in Seq(Fit(t)) /\ conn'[t] \in {"off", "fetch", "rows", "reactions"}
  BY <1>1, <1>2, <1>6, SameSane
<1>. QED
  BY <1>2, <1>7, SameSane DEF Sane

----------------------------------------------------------------------------
(* The client.                                                                *)

\* What is left of the transcript of u once it has been trimmed.
Trims(u, T) ==
    /\ T \in [0..MaxId -> Seq(Copies)]
    /\ \A i \in 0..MaxId : T[i] = shown[u][i] \/ (shown[u][i] # <<>> /\ T[i] = Tail(shown[u][i]))

LEMMA TrimmedTrims ==
    ASSUME TypeOK, NEW u \in Users, NEW T \in Trimmed(shown[u]) \cup {shown[u]}
    PROVE  Trims(u, T)
<1>. DEFINE old == shown[u]
<1>1. old \in [0..MaxId -> Seq(Copies)]
  BY DEF TypeOK, TypeClient
<1>. HIDE DEF old
<1>2. CASE T = old
  BY <1>1, <1>2 DEF Trims, old
<1>3. ASSUME NEW j \in 0..MaxId, old[j] # <<>>, T = [old EXCEPT ![j] = Tail(@)]
      PROVE  Trims(u, T)
  <2>1. old[j] \in Seq(Copies) /\ Tail(old[j]) \in Seq(Copies)
    BY <1>1, <1>3
  <2>2. T \in [0..MaxId -> Seq(Copies)] /\ T[j] = Tail(old[j]) /\ \A i \in 0..MaxId \ {j} : T[i] = old[i]
    BY <1>1, <1>3, <2>1
  <2>. QED
    BY <1>3, <2>2 DEF Trims, old
<1>. QED
  BY <1>2, <1>3 DEF Trimmed, old

\* The parts of a merge: the transcript is trimmed, to T, and becomes new.
LEMMA MergeParts ==
    ASSUME TypeOK, NEW u \in Users, NEW e \in Events, Merge(u, e)
    PROVE  \E T, new :
              /\ Trims(u, T) /\ new \in Shows(T, e) /\ shown' = [shown EXCEPT ![u] = new]
              /\ disturbed' = disturbed \cup ({u} \X {i \in Ids : T[i] # shown[u][i]})
              /\ e.k \notin {"msg", "note"} => T = shown[u]
<1>1. PICK T \in Before(u, e) :
         /\ \E shows \in Shows(T, e) : shown' = [shown EXCEPT ![u] = shows]
         /\ disturbed' = disturbed \cup ({u} \X {i \in Ids : T[i] # shown[u][i]})
  BY DEF Merge
<1>2. T \in Trimmed(shown[u]) \cup {shown[u]} /\ (e.k \notin {"msg", "note"} => T = shown[u])
  BY DEF Before
<1>3. Trims(u, T)
  BY <1>2, TrimmedTrims
<1>. QED
  BY <1>1, <1>2, <1>3

\* A copy that is changed keeps its place, and the transcript its length.
LEMMA FirstCopy ==
    ASSUME NEW q \in Seq(Copies), q # <<>>, NEW c \in Copies
    PROVE  LET p == [q EXCEPT ![1] = c] IN
           p \in Seq(Copies) /\ Len(p) = Len(q) /\ p # <<>> /\ p[1] = c
<1>. DEFINE p == [q EXCEPT ![1] = c]
<1>1. Len(q) \in Nat /\ Len(q) > 0 /\ DOMAIN q = 1..Len(q)
  OBVIOUS
<1>2. p \in Seq(Copies) /\ Len(p) = Len(q) /\ p[1] = c
  OBVIOUS
<1>3. p # <<>>
  BY <1>1, <1>2
<1>. QED
  BY <1>2, <1>3

\* What an event makes of a transcript: one message at most changes, a message
\* gets a copy, or its first copy a new text or the mark of a deletion.
ShowsAs(T, e, new) ==
    /\ new \in [0..MaxId -> Seq(Copies)]
    /\ \A i \in Ids \ {e.id} : new[i] = T[i]
    /\ e.k \in {"react", "note"} => \A i \in Ids : new[i] = T[i]
    /\ e.k = "msg" =>
          /\ Len(new[e.id]) = Len(T[e.id]) + 1
          /\ T[e.id] = <<>> => new[e.id] = <<[body |-> e.body, deleted |-> FALSE]>>
    /\ e.k \in {"edit", "delete"} /\ e.id \in Ids =>
          Len(new[e.id]) = Len(T[e.id]) /\ (new[e.id] = <<>> <=> T[e.id] = <<>>)
    /\ e.k = "edit" /\ e.id \in Ids /\ T[e.id] # <<>> =>
          new[e.id][1].body = e.body /\ new[e.id][1].deleted = T[e.id][1].deleted
    /\ e.k = "delete" /\ e.id \in Ids /\ T[e.id] # <<>> =>
          new[e.id][1].body = T[e.id][1].body /\ new[e.id][1].deleted

LEMMA ShowsKinds ==
    ASSUME NEW T \in [0..MaxId -> Seq(Copies)], NEW e \in Events, NEW new \in Shows(T, e)
    PROVE  ShowsAs(T, e, new)
<1>0. /\ e.id \in 0..MaxId /\ T[e.id] \in Seq(Copies) /\ e.body \in Nat /\ e.k \in Kinds
      /\ Ids \subseteq 0..MaxId /\ 0 \notin Ids /\ 0 \in 0..MaxId
  <2>1. e.id \in 0..MaxId /\ e.body \in Nat /\ e.k \in Kinds
    BY DEF Events
  <2>2. Ids \subseteq 0..MaxId /\ 0 \notin Ids /\ 0 \in 0..MaxId
    BY DeliveryAssumption DEF Ids
  <2>. QED
    BY <2>1, <2>2
<1>1. CASE e.k = "msg"
  <2>. DEFINE c == [body |-> e.body, deleted |-> FALSE]
              old == T[e.id]
  <2>1. PICK copies \in Appended(old, c) : new = [T EXCEPT ![e.id] = copies]
    BY <1>1 DEF Shows
  <2>2. c \in Copies /\ old \in Seq(Copies)
    BY <1>0 DEF Copies
  <2>. HIDE DEF c, old
  <2>3. copies \in Seq(Copies) /\ Len(copies) = Len(old) + 1 /\ (old = <<>> => copies = <<c>>)
    <3>0. <<c>> \in Seq(Copies) /\ Len(<<c>>) = 1
      BY <2>2
    <3>1. CASE copies = Append(old, c)
      <4>1. Append(old, c) \in Seq(Copies) /\ Len(Append(old, c)) = Len(old) + 1
        BY <2>2
      <4>2. old = <<>> => Append(old, c) = <<c>>
        OBVIOUS
      <4>. QED
        BY <3>1, <4>1, <4>2
    <3>2. CASE copies = <<c>> \o old
      <4>1. <<c>> \o old \in Seq(Copies) /\ Len(<<c>> \o old) = Len(old) + 1
        BY <2>2, <3>0
      <4>2. old = <<>> => <<c>> \o old = <<c>>
        BY <3>0
      <4>. QED
        BY <3>2, <4>1, <4>2
    <3>. QED
      BY <2>1, <3>1, <3>2 DEF Appended
  <2>4. /\ new \in [0..MaxId -> Seq(Copies)] /\ new[e.id] = copies
        /\ \A i \in 0..MaxId \ {e.id} : new[i] = T[i]
    BY <1>0, <2>1, <2>3
  <2>. QED
    BY <1>0, <1>1, <2>3, <2>4 DEF ShowsAs, c, old
<1>2. CASE e.k = "edit"
  <2>1. new = OnFirst(T, e.id, "body", e.body)
    BY <1>2 DEF Shows
  <2>2. CASE e.id = 0 \/ T[e.id] = <<>>
    <3>1. new = T
      BY <1>0, <2>1, <2>2 DEF OnFirst
    <3>. QED
      BY <1>0, <1>2, <2>2, <3>1 DEF ShowsAs
  <2>3. CASE ~(e.id = 0 \/ T[e.id] = <<>>)
    <3>. DEFINE q == T[e.id]
                c == [q[1] EXCEPT !.body = e.body]
                r == [q EXCEPT ![1] = c]
    <3>0. q[1] \in Copies /\ q \in Seq(Copies) /\ q # <<>>
      BY <1>0, <2>3
    <3>1. c \in Copies /\ c.body = e.body /\ c.deleted = q[1].deleted
      BY <1>0, <3>0 DEF Copies
    <3>2. new = [T EXCEPT ![e.id] = r]
      BY <1>0, <2>1, <2>3 DEF OnFirst
    <3>. HIDE DEF c, q
    <3>3. r \in Seq(Copies) /\ Len(r) = Len(q) /\ r # <<>> /\ r[1] = c
      BY <3>0, <3>1, FirstCopy
    <3>. HIDE DEF r
    <3>4. /\ new \in [0..MaxId -> Seq(Copies)] /\ new[e.id] = r
          /\ \A i \in 0..MaxId \ {e.id} : new[i] = T[i]
      BY <1>0, <3>2, <3>3
    <3>. QED
      BY <1>0, <1>2, <3>0, <3>1, <3>3, <3>4 DEF ShowsAs, q
  <2>. QED
    BY <2>2, <2>3
<1>3. CASE e.k = "delete"
  <2>1. new = OnFirst(T, e.id, "deleted", TRUE)
    BY <1>3 DEF Shows
  <2>2. CASE e.id = 0 \/ T[e.id] = <<>>
    <3>1. new = T
      BY <1>0, <2>1, <2>2 DEF OnFirst
    <3>. QED
      BY <1>0, <1>3, <2>2, <3>1 DEF ShowsAs
  <2>3. CASE ~(e.id = 0 \/ T[e.id] = <<>>)
    <3>. DEFINE q == T[e.id]
                c == [q[1] EXCEPT !.deleted = TRUE]
                r == [q EXCEPT ![1] = c]
    <3>0. q[1] \in Copies /\ q \in Seq(Copies) /\ q # <<>>
      BY <1>0, <2>3
    <3>1. c \in Copies /\ c.body = q[1].body /\ c.deleted
      BY <3>0 DEF Copies
    <3>2. new = [T EXCEPT ![e.id] = r]
      BY <1>0, <2>1, <2>3 DEF OnFirst
    <3>. HIDE DEF c, q
    <3>3. r \in Seq(Copies) /\ Len(r) = Len(q) /\ r # <<>> /\ r[1] = c
      BY <3>0, <3>1, FirstCopy
    <3>. HIDE DEF r
    <3>4. /\ new \in [0..MaxId -> Seq(Copies)] /\ new[e.id] = r
          /\ \A i \in 0..MaxId \ {e.id} : new[i] = T[i]
      BY <1>0, <3>2, <3>3
    <3>. QED
      BY <1>0, <1>3, <3>0, <3>1, <3>3, <3>4 DEF ShowsAs, q
  <2>. QED
    BY <2>2, <2>3
<1>4. CASE e.k \in {"react", "note"}
  <2>. DEFINE line == [body |-> 0, deleted |-> FALSE]
  <2>1. new = T \/ new = [T EXCEPT ![0] = Append(T[0], line)]
    BY <1>4 DEF Shows
  <2>2. line \in Copies /\ T[0] \in Seq(Copies)
    BY <1>0 DEF Copies
  <2>. HIDE DEF line
  <2>3. Append(T[0], line) \in Seq(Copies)
    BY <2>2
  <2>4. new \in [0..MaxId -> Seq(Copies)] /\ \A i \in Ids : new[i] = T[i]
    BY <1>0, <2>1, <2>3
  <2>. QED
    BY <1>4, <2>4 DEF ShowsAs
<1>. QED
  BY <1>0, <1>1, <1>2, <1>3, <1>4 DEF Kinds

\* What a client makes of an event: a message that the transcript has not lost a
\* copy of is as it was, or the event is about it and it gets a copy, or keeps
\* what is shown of it as deleted.
MergesAs(u, e) ==
    /\ shown' \in [Users -> [0..MaxId -> Seq(Copies)]]
    /\ disturbed \subseteq disturbed'
    /\ \A v \in Users \ {u} : shown'[v] = shown[v]
    /\ \A i \in Ids :
          \/ shown'[u][i] = shown[u][i]
          \/ shown[u][i] # <<>> /\ <<u, i>> \in disturbed'
          \/ e.id = i /\ e.k = "msg" /\ Len(shown'[u][i]) = Len(shown[u][i]) + 1
          \/ /\ shown[u][i] # <<>> /\ Len(shown'[u][i]) = Len(shown[u][i])
             /\ shown[u][i][1].deleted => shown'[u][i][1].deleted

LEMMA MergeKinds ==
    ASSUME TypeOK, NEW u \in Users, NEW e \in Events, Merge(u, e)
    PROVE  MergesAs(u, e)
<1>1. PICK T, new :
         /\ Trims(u, T) /\ new \in Shows(T, e) /\ shown' = [shown EXCEPT ![u] = new]
         /\ disturbed' = disturbed \cup ({u} \X {i \in Ids : T[i] # shown[u][i]})
  BY MergeParts
<1>2. shown \in [Users -> [0..MaxId -> Seq(Copies)]] /\ Ids \subseteq 0..MaxId
  BY DeliveryAssumption DEF TypeOK, TypeClient, Ids
<1>3. ShowsAs(T, e, new)
  BY <1>1, ShowsKinds DEF Trims
<1>4. /\ shown' \in [Users -> [0..MaxId -> Seq(Copies)]] /\ shown'[u] = new
      /\ \A v \in Users \ {u} : shown'[v] = shown[v]
  BY <1>1, <1>2, <1>3 DEF ShowsAs
<1>5. ASSUME NEW i \in Ids
      PROVE  \/ new[i] = shown[u][i]
             \/ shown[u][i] # <<>> /\ <<u, i>> \in disturbed'
             \/ e.id = i /\ e.k = "msg" /\ Len(new[i]) = Len(shown[u][i]) + 1
             \/ /\ shown[u][i] # <<>> /\ Len(new[i]) = Len(shown[u][i])
                /\ shown[u][i][1].deleted => new[i][1].deleted
  <2>1. CASE T[i] # shown[u][i]
    BY <1>1, <1>2, <2>1 DEF Trims
  <2>2. CASE T[i] = shown[u][i] /\ e.id # i
    BY <1>3, <2>2 DEF ShowsAs
  <2>3. CASE T[i] = shown[u][i] /\ e.id = i /\ e.k \in {"react", "note", "msg"}
    BY <1>3, <2>3 DEF ShowsAs
  <2>4. CASE T[i] = shown[u][i] /\ e.id = i /\ e.k \in {"edit", "delete"}
    <3>1. CASE T[i] = <<>>
      BY <1>3, <2>4, <3>1 DEF ShowsAs
    <3>2. CASE T[i] # <<>>
      BY <1>3, <2>4, <3>2 DEF ShowsAs
    <3>. QED
      BY <3>1, <3>2
  <2>. QED
    BY <2>1, <2>2, <2>3, <2>4 DEF Events, Kinds
<1>. QED
  BY <1>1, <1>4, <1>5 DEF MergesAs

LEMMA DeliverStep == ASSUME TypeOK, Addressed, NEW s \in Sessions, Deliver(s) PROVE Sane
<1>. DEFINE e == Head(send[s])
            u == UserOf[s]
<1>1. /\ Merge(u, e) /\ send[s] # <<>> /\ send' = [send EXCEPT ![s] = Tail(@)]
      /\ UNCHANGED <<table, work, conn, hist, ops, connects, stamp, window>>
  BY DEF Deliver, ghost
<1>2. e \in Fit(s) /\ Tail(send[s]) \in Seq(Fit(s)) /\ u \in Users
  BY <1>1, SameSane, DeliveryAssumption
<1>3. MergesAs(u, e)
  BY <1>1, <1>2, MergeKinds DEF Fit
<1>4. e.id \in 0..MaxId /\ Sound(e) /\ For(u, e)
  BY <1>2 DEF Fit, Events
<1>. HIDE DEF e, u
<1>5. send' = [t \in Sessions |-> send'[t]] /\ \A t \in Sessions : send'[t] \in Seq(Fit(t))
  BY <1>1, <1>2, SameSane
<1>6. shown' \in [Users -> [0..MaxId -> Seq(Copies)]]
  BY <1>3 DEF MergesAs
<1>7. ASSUME NEW v \in Users, NEW i \in Ids, shown'[v][i] # <<>>
      PROVE  MayKnow(v, i)
  <2>1. CASE shown'[v][i] = shown[v][i]
    BY <1>7, <2>1, SameSane
  <2>2. CASE shown'[v][i] # shown[v][i]
    <3>1. v = u /\ ((e.k = "msg" /\ e.id = i) \/ shown[u][i] # <<>>)
      BY <1>3, <2>2 DEF MergesAs
    <3>2. CASE e.k = "msg" /\ e.id = i
      BY <1>4, <3>1, <3>2, DeliveryAssumption DEF Sound, For, MayKnow, Ids
    <3>3. CASE shown[u][i] # <<>>
      BY <3>1, <3>3, SameSane
    <3>. QED
      BY <3>1, <3>2, <3>3
  <2>. QED
    BY <2>1, <2>2
<1>8. UNCHANGED <<table, work, conn, hist, ops, connects, stamp, window>>
  BY <1>1
<1>. QED
  BY <1>5, <1>6, <1>7, <1>8, SameSane DEF Sane

\* The steps of hub, handshakes and clients.
Serves(s) ==
    \/ Notice(s) \/ Broadcast(s) \/ BroadcastDM(s) \/ Handshake(s) \/ Deliver(s) \/ Disconnect(s)

Stores(s) == Dispatch(s) \/ Insert(s) \/ InsertFails(s) \/ Number(s) \/ Retain(s) \/ PinWrite(s)

LEMMA ServesStep == ASSUME TypeOK, Addressed, NEW s \in Sessions, Serves(s) PROVE Sane
BY NoticeStep, BroadcastStep, BroadcastDMStep, ConnectStep, FetchStep, ReplayStep, LoadReactionsStep,
   DeliverStep, DisconnectStep DEF Serves, Handshake

LEMMA NextParts ==
    ASSUME [Next]_vars
    PROVE  (\E s \in Sessions : Serves(s) \/ Stores(s)) \/ UNCHANGED vars
BY DEF Next, Work, Serves, Stores

\* What a step keeps of the counters of the bounds.
LEMMA StoresBounds ==
    ASSUME TypeOK, NEW s \in Sessions, Stores(s)
    PROVE  ops' \in Nat /\ connects' \in Nat /\ stamp' \in Nat
<1>0. ops \in Nat /\ connects \in Nat /\ stamp \in Nat
  BY DEF TypeOK
<1>1. connects' = connects
  BY DEF Stores, Dispatch, ReadText, Edit, Delete, PinRead, React, ReactUnstored, ClearMessages, ReadTyping,
     ReadReceipt, ReadFile, Search, Say, Insert, InsertFails, Number, Retain, PinWrite
<1>2. ops' \in {ops, ops + 1}
  BY DEF Stores, Dispatch, ReadText, Edit, Delete, PinRead, React, ReactUnstored, ClearMessages, ReadTyping,
     ReadReceipt, ReadFile, Search, Say, Operate, Insert, InsertFails, Number, Retain, PinWrite
<1>3. stamp' \in {stamp, stamp + 1}
  BY DEF Stores, Dispatch, ReadText, Edit, Delete, PinRead, React, ReactUnstored, ClearMessages, ReadTyping,
     ReadReceipt, ReadFile, Search, Say, Insert, InsertFails, Number, Retain, PinWrite
<1>. QED
  BY <1>0, <1>1, <1>2, <1>3

LEMMA InvStep == TypeOK /\ Addressed /\ [Next]_vars => TypeOK' /\ Addressed' /\ RowsKept
<1>. SUFFICES ASSUME TypeOK, Addressed, [Next]_vars PROVE TypeOK' /\ Addressed' /\ RowsKept
  OBVIOUS
<1>1. ASSUME NEW s \in Sessions, Serves(s)
      PROVE  TypeOK' /\ Addressed' /\ RowsKept
  BY <1>1, ServesStep, SaneStep
<1>2. ASSUME NEW s \in Sessions, Stores(s)
      PROVE  TypeOK' /\ Addressed' /\ RowsKept
  <2>1. TypeTable' /\ TypeWork' /\ RowsKept /\ Addressed' /\ UNCHANGED <<session, client, window>>
    BY <1>2, TableStep DEF Stores
  <2>2. TypeSession' /\ TypeClient'
    BY <2>1 DEF TypeOK, TypeSession, TypeClient, session, client
  <2>3. ops' \in Nat /\ connects' \in Nat /\ stamp' \in Nat
    BY <1>2, StoresBounds
  <2>. QED
    BY <2>1, <2>2, <2>3 DEF TypeOK
<1>3. CASE UNCHANGED vars
  <2>1. Sane
    BY <1>3, SameSane DEF vars, session, client, ghost, Sane
  <2>. QED
    BY <2>1, SaneStep
<1>. QED
  BY <1>1, <1>2, <1>3, NextParts

\* Table, work, buffers and transcripts keep their types, and an event in a
\* buffer is for the user of the buffer and names whom its row is from and for.
THEOREM TypeCorrect == Spec => [](TypeOK /\ Addressed)
<1>1. Init => TypeOK /\ Addressed
  BY TypeInit, AddressedInit
<1>. QED
  BY <1>1, InvStep, PTL DEF Spec

\* A direct message, live or replayed, gets into the buffers and the transcripts
\* of its sender and its recipient only.
THEOREM Private == Spec => []DirectIsPrivate
<1>1. ASSUME TypeOK, Addressed, NEW s \in Live, NEW e \in Contents(send[s]) \cup Contents(hist[s]),
             e.k = "msg"
      PROVE  e.to = Nobody \/ UserOf[s] \in {e.who, e.to}
  <2>1. send[s] \in Seq(Fit(s)) /\ hist[s] \in Seq(Fit(s))
    BY <1>1 DEF Addressed, Live
  <2>2. e \in Fit(s)
    BY <1>1, <2>1 DEF Contents
  <2>. QED
    BY <1>1, <2>2 DEF Fit, For
<1>2. ASSUME TypeOK, Addressed, NEW u \in Users, NEW i \in Present, shown[u][i] # <<>>
      PROVE  rows[i].to = Nobody \/ u \in {rows[i].sender, rows[i].to}
  BY <1>2 DEF Addressed, MayKnow, Present
<1>3. TypeOK /\ Addressed => DirectIsPrivate
  BY <1>1, <1>2 DEF DirectIsPrivate
<1>. QED
  BY <1>3, TypeCorrect, PTL

----------------------------------------------------------------------------
(* Deleted messages.                                                          *)

\* No transcript of a user who is connected loses the mark of a deletion.
MarksKept ==
    \A s \in Live, i \in Ids :
        LET u == UserOf[s] IN
        shown[u][i] # <<>> /\ shown[u][i][1].deleted
        /\ Len(shown'[u][i]) = 1 => shown'[u][i][1].deleted \/ <<u, i>> \in disturbed'

LEMMA ServesKeepsMarks == ASSUME TypeOK, Addressed, NEW s \in Sessions, Serves(s) PROVE MarksKept
<1>1. CASE Notice(s) \/ Broadcast(s) \/ BroadcastDM(s) \/ Fetch(s) \/ Replay(s) \/ LoadReactions(s)
           \/ Disconnect(s)
  <2>1. shown' = shown
    BY <1>1 DEF Notice, Broadcast, BroadcastDM, Fetch, Replay, LoadReactions, Disconnect, client
  <2>. QED
    BY <2>1 DEF MarksKept
<1>2. CASE Connect(s)
  <2>1. \A t \in Live : UserOf[t] # UserOf[s] /\ UserOf[t] \in Users
    BY <1>2, DeliveryAssumption DEF Connect, Live
  <2>2. shown' = [shown EXCEPT ![UserOf[s]] = [i \in 0..MaxId |-> <<>>]]
    BY <1>2 DEF Connect
  <2>3. \A t \in Live : shown'[UserOf[t]] = shown[UserOf[t]]
    BY <2>1, <2>2, SameSane
  <2>. QED
    BY <2>3 DEF MarksKept
<1>3. CASE Deliver(s)
  <2>. DEFINE e == Head(send[s])
              v == UserOf[s]
  <2>1. Merge(v, e) /\ send[s] # <<>>
    BY <1>3 DEF Deliver
  <2>2. e \in Events /\ v \in Users
    <3>1. send[s] \in Seq(Events)
      BY DEF TypeOK, TypeSession
    <3>. QED
      BY <2>1, <3>1, DeliveryAssumption
  <2>3. MergesAs(v, e) /\ e.id \in 0..MaxId
    BY <2>1, <2>2, MergeKinds DEF Events
  <2>. HIDE DEF e, v
  <2>4. ASSUME NEW t \in Live, NEW i \in Ids, shown[UserOf[t]][i] # <<>>,
               shown[UserOf[t]][i][1].deleted, Len(shown'[UserOf[t]][i]) = 1
        PROVE  shown'[UserOf[t]][i][1].deleted \/ <<UserOf[t], i>> \in disturbed'
    <3>. DEFINE u == UserOf[t]
    <3>1. u \in Users /\ i \in 0..MaxId
      BY DeliveryAssumption DEF Live, Ids
    <3>2. shown[u][i] \in Seq(Copies) /\ shown[u][i] # <<>>
      BY <2>4, <3>1, SameSane
    <3>3. Len(shown[u][i]) \in Nat /\ Len(shown[u][i]) > 0
      BY <3>2
    <3>4. CASE u # v
      BY <2>3, <2>4, <3>1, <3>4 DEF MergesAs
    <3>5. CASE u = v
      <4>1. \/ shown'[u][i] = shown[u][i]
            \/ <<u, i>> \in disturbed'
            \/ Len(shown'[u][i]) = Len(shown[u][i]) + 1
            \/ shown[u][i][1].deleted => shown'[u][i][1].deleted
        BY <2>3, <3>5 DEF MergesAs
      <4>. QED
        BY <2>4, <3>3, <4>1
    <3>. QED
      BY <3>4, <3>5
  <2>. QED
    BY <2>4 DEF MarksKept
<1>. QED
  BY <1>1, <1>2, <1>3 DEF Serves, Handshake

\* A deleted row stays deleted, and the copy of it in a transcript stays
\* marked as long as the connection lasts, whatever edits, insertions,
\* replays and broadcasts overlap.
THEOREM StaysDeleted == Spec => DeletedStaysDeleted
<1>1. ASSUME TypeOK, Addressed, [Next]_vars
      PROVE  /\ \A i \in Present : rows[i].deleted /\ rows'[i] # NoRow => rows'[i].deleted
             /\ MarksKept
  <2>1. RowsKept
    BY <1>1, InvStep
  <2>2. ASSUME NEW i \in Present, rows[i].deleted, rows'[i] # NoRow
        PROVE  rows'[i].deleted
    <3>1. i \in Ids /\ rows[i] # NoRow /\ i # nextId
      BY <1>1, DeliveryAssumption DEF Present, Addressed, Ids, TypeOK, TypeTable
    <3>. QED
      BY <2>1, <2>2, <3>1 DEF RowsKept
  <2>3. MarksKept
    <3>1. CASE shown' = shown
      BY <3>1 DEF MarksKept
    <3>2. ASSUME NEW s \in Sessions, Stores(s)
          PROVE  shown' = shown
      BY <1>1, <3>2, TableStep DEF Stores, client
    <3>. QED
      BY <1>1, <3>1, <3>2, NextParts, ServesKeepsMarks DEF vars, client
  <2>. QED
    BY <2>2, <2>3
<1>2. TypeOK /\ Addressed /\ [Next]_vars =>
         [/\ \A i \in Present : rows[i].deleted /\ rows'[i] # NoRow => rows'[i].deleted
          /\ MarksKept]_vars
  BY <1>1
<1>3. Spec => [][/\ \A i \in Present : rows[i].deleted /\ rows'[i] # NoRow => rows'[i].deleted
                 /\ MarksKept]_vars
  BY <1>2, TypeCorrect, PTL DEF Spec
<1>. QED
  BY <1>3 DEF DeletedStaysDeleted, MarksKept

----------------------------------------------------------------------------
(* Retention.                                                                 *)

\* A set of numbers that is not empty has a least one.
LEMMA Least ==
    ASSUME NEW T \in SUBSET Nat, T # {}
    PROVE  \E n \in T : \A m \in T : n <= m
<1>1. PICK n \in T : \A m \in T : ~(<<m, n>> \in OpToRel(<, Nat))
  BY NatLessThanWellFounded, WFMin
<1>2. ASSUME NEW m \in T, m < n
      PROVE  FALSE
  <2>1. <<m, n>> \in OpToRel(<, Nat)
    <3>1. m \in Nat /\ n \in Nat
      OBVIOUS
    <3>. QED
      BY <1>2, <3>1, Zenon DEF OpToRel
  <2>. QED
    BY <1>1, <2>1
<1>3. \A m \in T : n <= m
  BY <1>2
<1>. QED
  BY <1>3

\* The n newest of some messages are n at most.
LEMMA NewestBound ==
    ASSUME NEW S \in SUBSET Ids, NEW n \in Nat
    PROVE  IsFiniteSet(Newest(S, n)) /\ Cardinality(Newest(S, n)) <= n
<1>. DEFINE T == Newest(S, n)
<1>1. IsFiniteSet(S) /\ S \subseteq Nat
  <2>0. MaxId \in Nat
    BY DeliveryAssumption
  <2>1. IsFiniteSet(Ids) /\ Ids \subseteq Nat
    BY <2>0, FS_Interval DEF Ids
  <2>2. IsFiniteSet(S)
    BY <2>1, FS_Subset
  <2>. QED
    BY <2>1, <2>2
<1>2. T \subseteq S /\ IsFiniteSet(T) /\ Cardinality(T) \in Nat
  BY <1>1, FS_Subset, FS_CardinalityType DEF Newest
<1>3. CASE T = {}
  BY <1>2, <1>3, FS_EmptySet
<1>4. CASE T # {}
  <2>1. PICK m \in T : \A j \in T : m <= j
    BY <1>1, <1>2, <1>4, Least
  <2>. DEFINE Above == {j \in S : j > m}
  <2>2. Cardinality(Above) < n
    BY <2>1 DEF Newest
  <2>3. IsFiniteSet(Above) /\ Cardinality(Above) \in Nat
    BY <1>1, FS_Subset, FS_CardinalityType
  <2>4. T \ {m} \subseteq Above
    <3>1. ASSUME NEW j \in T \ {m}
          PROVE  j \in S /\ j > m
      <4>1. j \in Nat /\ m \in Nat /\ j \in S /\ m <= j /\ j # m
        BY <1>1, <1>2, <2>1
      <4>. QED
        BY <4>1
    <3>. QED
      BY <3>1
  <2>5. Cardinality(T \ {m}) <= Cardinality(Above)
    BY <2>3, <2>4, FS_Subset
  <2>6. Cardinality(T \ {m}) = Cardinality(T) - 1
    BY <1>2, <2>1, FS_RemoveElement
  <2>. HIDE DEF T, Above
  <2>7. Cardinality(T) <= n
    BY <1>2, <2>2, <2>3, <2>5, <2>6
  <2>. QED
    BY <1>2, <2>7 DEF T
<1>. QED
  BY <1>3, <1>4

\* While nobody is between an insertion and its clean-up the table keeps its limit.
Kept ==
    (\A s \in Sessions : work[s].at \notin {"number", "retain"}) => Cardinality(Present) <= Retention

LEMMA KeptStep == TypeOK /\ Addressed /\ Kept /\ [Next]_vars => Kept'
<1>. SUFFICES ASSUME TypeOK, Addressed, Kept, [Next]_vars,
                     (\A s \in Sessions : work[s].at \notin {"number", "retain"})'
              PROVE  Cardinality(Present') <= Retention
  BY DEF Kept
<1>0. /\ IsFiniteSet(Present) /\ Present \in SUBSET Ids /\ Retention \in Nat
      /\ Cardinality(Present) \in Nat
  BY RecentIsFinite, FS_CardinalityType, DeliveryAssumption
<1>1. ASSUME \A s \in Sessions : work[s].at \notin {"number", "retain"}, Present' \subseteq Present
      PROVE  Cardinality(Present') <= Retention
  <2>1. Cardinality(Present') <= Cardinality(Present) /\ Cardinality(Present') \in Nat
    BY <1>0, <1>1, FS_Subset, FS_CardinalityType
  <2>. QED
    BY <1>0, <1>1, <2>1 DEF Kept
<1>2. ASSUME NEW s \in Sessions, Serves(s)
      PROVE  Cardinality(Present') <= Retention
  <2>1. Sane
    BY <1>2, ServesStep
  <2>2. Present' = Present
    BY <2>1 DEF Sane, table, Present
  <2>3. \A t \in Sessions : work[t].at \notin {"number", "retain"}
    BY <2>1 DEF Sane
  <2>. QED
    BY <1>1, <2>2, <2>3
<1>3. ASSUME NEW s \in Sessions, Retain(s)
      PROVE  Cardinality(Present') <= Retention
  <2>1. Present' \subseteq Newest(Present, Retention)
    BY <1>3 DEF Retain, Present
  <2>2. /\ IsFiniteSet(Newest(Present, Retention)) /\ Cardinality(Newest(Present, Retention)) <= Retention
        /\ Cardinality(Newest(Present, Retention)) \in Nat
    BY <1>0, NewestBound, FS_CardinalityType
  <2>3. /\ Cardinality(Present') <= Cardinality(Newest(Present, Retention))
        /\ Cardinality(Present') \in Nat
    BY <2>1, <2>2, FS_Subset, FS_CardinalityType
  <2>. QED
    BY <1>0, <2>2, <2>3
<1>4. ASSUME NEW s \in Sessions, Insert(s) \/ Number(s)
      PROVE  FALSE
  <2>1. work[s] \in Works
    BY <1>4 DEF Insert, Number, TypeOK, TypeWork, Free
  <2>2. work'[s].at \in {"number", "retain"}
    <3>1. work \in [Sessions -> Works \cup {Free}]
      BY DEF TypeOK, TypeWork
    <3>2. CASE Insert(s)
      BY <2>1, <3>1, <3>2 DEF Insert, WorkTo, Works
    <3>3. CASE Number(s)
      BY <2>1, <3>1, <3>3 DEF Number, WorkTo, Works
    <3>. QED
      BY <1>4, <3>2, <3>3
  <2>. QED
    BY <2>2
<1>5. ASSUME NEW s \in Sessions, Dispatch(s) \/ InsertFails(s) \/ PinWrite(s)
      PROVE  Cardinality(Present') <= Retention
  <2>1. work[s].at \notin {"number", "retain"}
    BY <1>5 DEF Dispatch, ReadText, Edit, Delete, PinRead, React, ReactUnstored, ClearMessages,
     ReadTyping, ReadReceipt,
       ReadFile, Search, Say, Operate, Listening, Free, InsertFails, PinWrite
  <2>2. \A t \in Sessions \ {s} : work'[t] = work[t]
    BY <1>5 DEF Dispatch, ReadText, Edit, Delete, PinRead, React, ReactUnstored, ClearMessages,
     ReadTyping, ReadReceipt,
       ReadFile, Search, Say, InsertFails, PinWrite, WorkTo, TypeOK, TypeWork
  <2>3. RowsKept /\ nextId' = nextId
    <3>1. RowsKept
      BY InvStep
    <3>. QED
      BY <1>5, <3>1 DEF Dispatch, ReadText, Edit, Delete, PinRead, React, ReactUnstored, ClearMessages, ReadTyping,
         ReadReceipt, ReadFile, Search, Say, InsertFails, PinWrite, table
  <2>4. Present' \subseteq Present
    BY <2>3, DeliveryAssumption DEF RowsKept, Present, TypeOK, TypeTable
  <2>. QED
    BY <1>1, <2>1, <2>2, <2>4
<1>6. CASE UNCHANGED vars
  <2>1. Present' = Present /\ work' = work
    BY <1>6 DEF vars, table, Present
  <2>. QED
    BY <1>1, <2>1
<1>. QED
  BY <1>2, <1>3, <1>4, <1>5, <1>6, NextParts DEF Stores

\* However insertions, deletions and clean-ups of any number of senders
\* overlap, the table is at its limit again once the last of them is over.
THEOREM RetentionIsKept == Spec => []RetentionHolds
<1>1. Init => Kept
  <2>. SUFFICES ASSUME Init PROVE Kept
    OBVIOUS
  <2>1. Present = {}
    BY DEF Init, Present
  <2>. QED
    BY <2>1, FS_EmptySet, DeliveryAssumption DEF Kept
<1>2. Kept => RetentionHolds
  BY DEF Kept, RetentionHolds, Free
<1>. QED
  BY <1>1, <1>2, KeptStep, TypeCorrect, PTL DEF Spec

----------------------------------------------------------------------------
(* Buffers.  Of the events of a set K a buffer has none (Nothing), one at most  *)
(* (Single), or some of which the last is one of V (Ends).                      *)

Nothing(q, K) == \A n \in 1..Len(q) : q[n] \notin K
Ends(q, K, V) == \E n \in 1..Len(q) : q[n] \in V /\ \A m \in 1..Len(q) : m > n => q[m] \notin K
Single(q, K) == \A m, n \in 1..Len(q) : q[m] \in K /\ q[n] \in K => m = n

LEMMA AppendQueue ==
    ASSUME NEW q \in Seq(Events), NEW e \in Events, NEW K, NEW V, V \subseteq K
    PROVE  /\ Nothing(Append(q, e), K) <=> e \notin K /\ Nothing(q, K)
           /\ Ends(Append(q, e), K, V) <=> e \in V \/ (e \notin K /\ Ends(q, K, V))
           /\ Single(q, K) /\ (e \notin K \/ Nothing(q, K)) => Single(Append(q, e), K)
<1>. DEFINE p == Append(q, e)
<1>1. /\ Len(p) = Len(q) + 1 /\ Len(q) \in Nat /\ p[Len(q) + 1] = e
      /\ \A n \in 1..Len(q) : p[n] = q[n]
  OBVIOUS
<1>. HIDE DEF p
<1>2. \A n \in 1..Len(p) : n \in 1..Len(q) \/ n = Len(q) + 1
  BY <1>1
<1>3. Nothing(p, K) <=> e \notin K /\ Nothing(q, K)
  BY <1>1, <1>2 DEF Nothing
<1>4. Ends(p, K, V) <=> e \in V \/ (e \notin K /\ Ends(q, K, V))
  <2>1. ASSUME e \in V
        PROVE  Ends(p, K, V)
    BY <1>1, <2>1 DEF Ends
  <2>2. ASSUME e \notin K, Ends(q, K, V)
        PROVE  Ends(p, K, V)
    <3>1. PICK n \in 1..Len(q) : q[n] \in V /\ \A m \in 1..Len(q) : m > n => q[m] \notin K
      BY <2>2 DEF Ends
    <3>2. n \in 1..Len(p) /\ p[n] \in V /\ \A m \in 1..Len(p) : m > n => p[m] \notin K
      BY <1>1, <1>2, <2>2, <3>1
    <3>. QED
      BY <3>2 DEF Ends
  <2>3. ASSUME Ends(p, K, V), e \notin V
        PROVE  e \notin K /\ Ends(q, K, V)
    <3>1. PICK n \in 1..Len(p) : p[n] \in V /\ \A m \in 1..Len(p) : m > n => p[m] \notin K
      BY <2>3 DEF Ends
    <3>2. n \in 1..Len(q) /\ n # Len(q) + 1
      BY <1>1, <1>2, <2>3, <3>1
    <3>3. e \notin K
      BY <1>1, <3>1, <3>2
    <3>4. q[n] \in V /\ \A m \in 1..Len(q) : m > n => q[m] \notin K
      BY <1>1, <3>1, <3>2
    <3>. QED
      BY <3>2, <3>3, <3>4 DEF Ends
  <2>. QED
    BY <2>1, <2>2, <2>3
<1>5. Single(q, K) /\ (e \notin K \/ Nothing(q, K)) => Single(p, K)
  BY <1>1, <1>2 DEF Single, Nothing
<1>. QED
  BY <1>3, <1>4, <1>5 DEF p

LEMMA TailQueue ==
    ASSUME NEW q \in Seq(Events), q # <<>>, NEW K, NEW V, V \subseteq K
    PROVE  /\ Nothing(q, K) <=> Head(q) \notin K /\ Nothing(Tail(q), K)
           /\ Ends(q, K, V) <=> \/ Ends(Tail(q), K, V)
                                \/ Head(q) \in V /\ Nothing(Tail(q), K)
           /\ Single(q, K) => Single(Tail(q), K) /\ (Head(q) \in K => Nothing(Tail(q), K))
<1>. DEFINE p == Tail(q)
            e == Head(q)
<1>1. /\ Len(q) = Len(p) + 1 /\ Len(p) \in Nat /\ q[1] = e
      /\ \A n \in 1..Len(p) : p[n] = q[n + 1]
  OBVIOUS
<1>. HIDE DEF p, e
<1>2. /\ \A n \in 1..Len(q) : n = 1 \/ (n - 1 \in 1..Len(p) /\ q[n] = p[n - 1])
      /\ \A n \in 1..Len(p) : n + 1 \in 1..Len(q)
      /\ 1 \in 1..Len(q)
  BY <1>1
<1>3. Nothing(q, K) <=> e \notin K /\ Nothing(p, K)
  BY <1>1, <1>2 DEF Nothing
<1>4. Ends(q, K, V) <=> Ends(p, K, V) \/ (e \in V /\ Nothing(p, K))
  <2>1. ASSUME e \in V, Nothing(p, K)
        PROVE  Ends(q, K, V)
    <3>1. \A m \in 1..Len(q) : m > 1 => q[m] \notin K
      BY <1>2, <2>1 DEF Nothing
    <3>. QED
      BY <1>1, <1>2, <2>1, <3>1 DEF Ends
  <2>2. ASSUME Ends(p, K, V)
        PROVE  Ends(q, K, V)
    <3>1. PICK n \in 1..Len(p) : p[n] \in V /\ \A m \in 1..Len(p) : m > n => p[m] \notin K
      BY <2>2 DEF Ends
    <3>2. n + 1 \in 1..Len(q) /\ q[n + 1] \in V
      BY <1>1, <1>2, <3>1
    <3>3. ASSUME NEW m \in 1..Len(q), m > n + 1
          PROVE  q[m] \notin K
      <4>1. m - 1 \in 1..Len(p) /\ q[m] = p[m - 1] /\ m - 1 > n
        BY <1>1, <1>2, <3>3
      <4>. QED
        BY <3>1, <4>1
    <3>. QED
      BY <3>2, <3>3 DEF Ends
  <2>3. ASSUME Ends(q, K, V), ~Ends(p, K, V)
        PROVE  e \in V /\ Nothing(p, K)
    <3>1. PICK n \in 1..Len(q) : q[n] \in V /\ \A m \in 1..Len(q) : m > n => q[m] \notin K
      BY <2>3 DEF Ends
    <3>2. ASSUME NEW m \in 1..Len(p), m + 1 > n
          PROVE  p[m] \notin K
      BY <1>1, <1>2, <3>1, <3>2
    <3>3. CASE n = 1
      BY <1>1, <3>1, <3>2, <3>3 DEF Nothing
    <3>4. CASE n # 1
      <4>1. n - 1 \in 1..Len(p) /\ p[n - 1] \in V
        BY <1>1, <1>2, <3>1, <3>4
      <4>2. \A m \in 1..Len(p) : m > n - 1 => p[m] \notin K
        BY <1>1, <3>2
      <4>. QED
        BY <2>3, <4>1, <4>2 DEF Ends
    <3>. QED
      BY <3>3, <3>4
  <2>. QED
    BY <2>1, <2>2, <2>3
<1>5. Single(q, K) => Single(p, K) /\ (e \in K => Nothing(p, K))
  <2>. SUFFICES ASSUME Single(q, K) PROVE Single(p, K) /\ (e \in K => Nothing(p, K))
    OBVIOUS
  <2>1. ASSUME NEW m \in 1..Len(p), NEW n \in 1..Len(p), p[m] \in K, p[n] \in K
        PROVE  m = n
    <3>1. m + 1 \in 1..Len(q) /\ n + 1 \in 1..Len(q) /\ q[m + 1] \in K /\ q[n + 1] \in K
      BY <1>1, <1>2, <2>1
    <3>2. m + 1 = n + 1
      BY <3>1 DEF Single
    <3>. QED
      BY <1>1, <3>2
  <2>2. ASSUME e \in K, NEW n \in 1..Len(p), p[n] \in K
        PROVE  FALSE
    <3>1. n + 1 \in 1..Len(q) /\ q[n + 1] \in K /\ q[1] \in K /\ 1 \in 1..Len(q)
      BY <1>1, <1>2, <2>2
    <3>2. n + 1 = 1
      BY <3>1 DEF Single
    <3>. QED
      BY <1>1, <3>2
  <2>. QED
    BY <2>1, <2>2 DEF Single, Nothing
<1>. QED
  BY <1>3, <1>4, <1>5 DEF p, e

LEMMA EndsSome ==
    ASSUME NEW q \in Seq(Events), NEW K, NEW V, V \subseteq K
    PROVE  /\ Ends(q, K, V) => ~Nothing(q, K)
           /\ ~Nothing(q, K) /\ Nothing(q, K \ V) => Ends(q, K, V)
<1>1. Ends(q, K, V) => ~Nothing(q, K)
  BY DEF Ends, Nothing
<1>2. ASSUME ~Nothing(q, K), Nothing(q, K \ V)
      PROVE  Ends(q, K, V)
  <2>. DEFINE L == Len(q)
              T == {d \in 0..L : L - d \in 1..L /\ q[L - d] \in K}
  <2>0. L \in Nat
    OBVIOUS
  <2>. HIDE DEF L
  <2>1. PICK n \in 1..L : q[n] \in K
    BY <1>2 DEF Nothing, L
  <2>2. L - n \in T
    <3>1. L - n \in 0..L /\ L - (L - n) = n
      BY <2>0, <2>1
    <3>. QED
      BY <2>1, <3>1
  <2>3. PICK d \in T : \A c \in T : d <= c
    <3>1. T \subseteq Nat
      BY <2>0
    <3>2. T # {}
      BY <2>2
    <3>. HIDE DEF T
    <3>. QED
      BY <3>1, <3>2, Least
  <2>4. L - d \in 1..L /\ q[L - d] \in K /\ d \in 0..L
    BY <2>3
  <2>5. ASSUME NEW m \in 1..L, m > L - d
        PROVE  q[m] \notin K
    <3>1. L - m \in 0..L /\ L - (L - m) = m /\ ~(d <= L - m)
      BY <2>0, <2>4, <2>5
    <3>. QED
      BY <2>3, <3>1
  <2>6. q[L - d] \in V
    BY <1>2, <2>4 DEF Nothing, L
  <2>. QED
    BY <2>4, <2>5, <2>6 DEF Ends, L
<1>. QED
  BY <1>1, <1>2

----------------------------------------------------------------------------
(* The transcript.  What a client will show of message i once all that waits   *)
(* for it is merged is said by the last event in its buffer that is about the   *)
(* text of i, about its deletion or about a reaction to it, and, without one,   *)
(* by the transcript as it is.                                                *)

AboutOf(i) == {e \in Events : e.id = i /\ e.k # "note"}
MsgOf(i) == {e \in Events : e.k = "msg" /\ e.id = i}
TextOf(i) == {e \in Events : e.k \in {"msg", "edit"} /\ e.id = i}
TextAs(i, b) == {e \in TextOf(i) : e.body = b}
LifeOf(i) == {e \in Events : e.k \in {"msg", "delete"} /\ e.id = i}
DelOf(i) == {e \in Events : e.k = "delete" /\ e.id = i}
MarksOf(i) == {e \in Events : e.k = "react" /\ e.id = i}
MarkOf(i, w) == {e \in MarksOf(i) : e.who = w}
MarkAs(i, w) == {e \in MarkOf(i, w) : e.body = 1}

\* What is shown of i, and what will be: its reactions, its text and its end.
Copy(s, i) == shown[UserOf[s]][i]
Marked(s, i, w) == <<i, w>> \in marks[UserOf[s]]
MarkComes(s, i, w) ==
    \/ Ends(send[s], MarkOf(i, w), MarkAs(i, w))
    \/ Nothing(send[s], MarkOf(i, w)) /\ Marked(s, i, w)
TextComes(s, i, b) ==
    \/ Ends(send[s], TextOf(i), TextAs(i, b))
    \/ Nothing(send[s], TextOf(i)) /\ Copy(s, i) # <<>> /\ Copy(s, i)[1].body = b
EndComes(s, i) ==
    \/ Ends(send[s], LifeOf(i), DelOf(i))
    \/ Nothing(send[s], LifeOf(i)) /\ (Copy(s, i) = <<>> \/ Copy(s, i)[1].deleted)

\* Session t has stored an operation on i, or i itself, and not handed it over.
Doing(t, k, i) == work[t] # Free /\ work[t].ev.k = k /\ work[t].ev.id = i
Nowhere(k, i) == \A t \in Sessions : ~Doing(t, k, i)
Past(s) == conn[s] \in {"rows", "reactions"}
Undisturbed(s, i) == <<UserOf[s], i>> \notin disturbed

\* One session at most reacts to i, and its reaction is stored.
ReactsRight(i) ==
    \A t \in Sessions : Doing(t, "react", i) =>
        /\ work[t].ev.body = 1 <=> <<i, work[t].ev.who>> \in reactions
        /\ \A t2 \in Sessions : Doing(t2, "react", i) => t2 = t

\* A reaction that is not under way will be shown as it is stored; until the
\* reactions of the window are read, those shown are stored.
MarkRight(s, i, w) ==
    (\A t \in Sessions : Doing(t, "react", i) => work[t].ev.who # w) =>
        IF conn[s] = "fetch" \/ (conn[s] = "rows" /\ i \in window[s])
        THEN MarkComes(s, i, w) => <<i, w>> \in reactions
        ELSE MarkComes(s, i, w) \/ ~Nothing(hist[s], MarkOf(i, w)) <=> <<i, w>> \in reactions

\* There is one copy of i: with its sender, in the replay, in the buffer or
\* in the transcript.
Counted(s, i) ==
    /\ Len(Copy(s, i)) <= 1 /\ Single(send[s], MsgOf(i))
    /\ Copy(s, i) # <<>> => Nothing(send[s], MsgOf(i))
    /\ ~Nowhere("msg", i) \/ ~Nothing(hist[s], MsgOf(i)) =>
          Copy(s, i) = <<>> /\ Nothing(send[s], MsgOf(i))
    /\ ~Nowhere("msg", i) => Nothing(hist[s], MsgOf(i))

\* One edit at most is under way, and no edit or deletion while i itself is.
Alone(i) ==
    /\ \A t1, t2 \in Sessions : Doing(t1, "edit", i) /\ Doing(t2, "edit", i) => t1 = t2
    /\ ~Nowhere("msg", i) => Nowhere("edit", i) /\ Nowhere("delete", i)

\* Unless an edit is under way the text that will be shown is the stored one.
BodyRight(s, i) ==
    /\ \A t \in Sessions : Doing(t, "edit", i) \/ Doing(t, "msg", i) => work[t].ev.body = rows[i].body
    /\ Nowhere("edit", i) =>
          /\ Nothing(hist[s], MsgOf(i) \ TextAs(i, rows[i].body))
          /\ Copy(s, i) # <<>> \/ ~Nothing(send[s], MsgOf(i)) => TextComes(s, i, rows[i].body)

\* Unless a deletion is under way i will be shown deleted if and only if it is.
LifeRight(s, i) ==
    Nowhere("delete", i) =>
        IF ~Nowhere("msg", i) \/ ~Nothing(hist[s], MsgOf(i)) THEN ~rows[i].deleted
        ELSE rows[i].deleted <=> EndComes(s, i)

\* Before the replay is read the client has nothing of i.
Early(s, i) == Copy(s, i) = <<>> /\ Nothing(send[s], MsgOf(i))

MarksRight(s, i) == \A w \in Users : MarkRight(s, i, w)

Followed(s, i) ==
    /\ Counted(s, i) /\ Alone(i)
    /\ i \in Present => BodyRight(s, i)
    /\ i \in Visible(UserOf[s]) => LifeRight(s, i)

\* The inductive invariant, for one client and one message that no two operations
\* overlapped on: its parts hold as far as the handshake has come.
Right(s, i) ==
    /\ ReactsRight(i)
    /\ conn[s] = "fetch" => Early(s, i)
    /\ conn[s] = "fetch" \/ (Past(s) /\ i \in Covered(s)) => MarksRight(s, i)
    /\ Past(s) /\ i \in Covered(s) => Followed(s, i)

AllRight == \A s \in Live, i \in Ids : Undisturbed(s, i) => Right(s, i)

----------------------------------------------------------------------------
(* What the argument needs to know of sessions, numbers and buffers.          *)

\* Clients know reactions by message and user.
TypeMarks == marks \in [Users -> SUBSET ((0..MaxId) \X Users)]

\* A user is connected once: the hub refuses a second session of the name.
OneClient == \A s, t \in Live : UserOf[s] = UserOf[t] => s = t

\* A session whose handshake goes on, has read nothing yet.
Patient == \A s \in Live : ~On(s) => work[s] = Free

\* What a readPump is at says what it has stored.
WorkShape ==
    \A t \in Sessions : work[t] # Free =>
        LET e == work[t].ev IN
        /\ work[t].at = "insert" => e.k = "msg" /\ e.id = 0 /\ e.body = 0
        /\ work[t].at = "notice" => e.id = 0
        /\ work[t].at = "pin" => e.k = "note"
        /\ work[t].at \in {"number", "retain"} \/ e.to # Nobody => e.k = "msg"

\* A number is given to one insertion.
OneInsert ==
    \A t1, t2 \in Sessions, i \in Ids : Doing(t1, "msg", i) /\ Doing(t2, "msg", i) => t1 = t2

\* Nobody has heard of a number before it is given.
Heard(e) == e.id < nextId

\* The row of a deletion is gone or marked.
DelTrue(e) == e.k = "delete" /\ e.id # 0 => rows[e.id] = NoRow \/ rows[e.id].deleted

\* What may be under way: an event about a number that was given, and a deletion
\* only of what is deleted.
Fresh == {e \in Events : Heard(e) /\ DelTrue(e)}

\* All that is under way or shown is about numbers that were given, and the
\* window of a replay is older than what came since the client registered.
Known ==
    /\ \A s \in Sessions : work[s] # Free => work[s].ev \in Fresh
    /\ \A s \in Sessions : send[s] \in Seq(Fresh) /\ hist[s] \in Seq(Fresh)
    /\ \A r \in reactions : r[1] < nextId
    /\ \A u \in Users : \A r \in marks[u] : r[1] < nextId
    /\ since \in [Sessions -> 1..nextId] /\ \A s \in Sessions : \A i \in window[s] : i < since[s]

\* The replay is of the window: first the messages, each once, then the reactions.
HistOf(s) ==
    /\ ~Past(s) => hist[s] = <<>>
    /\ \A n \in 1..Len(hist[s]) : hist[s][n].id \in window[s] \cup {0}
    /\ conn[s] = "rows" =>
          /\ \A n \in 1..Len(hist[s]) : hist[s][n].k \in {"msg", "delete"}
          /\ \A i \in Ids : Single(hist[s], AboutOf(i))
    /\ conn[s] = "reactions" => \A n \in 1..Len(hist[s]) : hist[s][n].k = "react" /\ hist[s][n].body = 1

HistShape == \A s \in Sessions : HistOf(s)

\* What the argument about a message takes for granted, whoever is disturbed.
Base == TypeOK /\ Addressed /\ TypeMarks /\ OneClient /\ Patient /\ WorkShape /\ OneInsert /\ Known /\ HistShape

LEMMA Sets ==
    ASSUME NEW i, NEW w, NEW b
    PROVE  /\ MsgOf(i) \subseteq TextOf(i) /\ MsgOf(i) \subseteq LifeOf(i)
           /\ MsgOf(i) \ TextAs(i, b) \subseteq TextOf(i)
           /\ TextAs(i, b) \subseteq TextOf(i) /\ DelOf(i) \subseteq LifeOf(i)
           /\ MarkAs(i, w) \subseteq MarkOf(i, w) /\ MarkOf(i, w) \subseteq MarksOf(i)
           /\ MsgOf(i) \subseteq AboutOf(i) /\ TextOf(i) \subseteq AboutOf(i)
           /\ LifeOf(i) \subseteq AboutOf(i) /\ MarksOf(i) \subseteq AboutOf(i)
BY DEF MsgOf, TextOf, TextAs, LifeOf, DelOf, MarksOf, MarkOf, MarkAs, AboutOf

\* A buffer gains or loses nothing of K.
Beside(q, p, K) ==
    \/ p = q
    \/ \E e \in Events \ K : p = Append(q, e)
    \/ q # <<>> /\ Head(q) \notin K /\ p = Tail(q)

LEMMA BesideKeeps ==
    ASSUME NEW q \in Seq(Events), NEW p, NEW K, Beside(q, p, K),
           NEW K1, K1 \subseteq K, NEW V, V \subseteq K1
    PROVE  /\ Nothing(p, K1) <=> Nothing(q, K1)
           /\ Ends(p, K1, V) <=> Ends(q, K1, V)
           /\ Single(q, K1) => Single(p, K1)
<1>1. CASE p = q
  BY <1>1
<1>2. ASSUME NEW e \in Events \ K, p = Append(q, e)
      PROVE  /\ Nothing(p, K1) <=> Nothing(q, K1)
             /\ Ends(p, K1, V) <=> Ends(q, K1, V)
             /\ Single(q, K1) => Single(p, K1)
  <2>1. e \in Events /\ e \notin K1 /\ e \notin V
    OBVIOUS
  <2>. QED
    BY <1>2, <2>1, AppendQueue
<1>3. CASE q # <<>> /\ Head(q) \notin K /\ p = Tail(q)
  <2>1. Head(q) \notin K1 /\ Head(q) \notin V
    BY <1>3
  <2>. QED
    BY <1>3, <2>1, TailQueue
<1>. QED
  BY <1>1, <1>2, <1>3 DEF Beside

\* Steps that leave alone what a part of the invariant is about.
SameDoing(k, i) ==
    \A t \in Sessions : /\ Doing(t, k, i)' <=> Doing(t, k, i)
                        /\ Doing(t, k, i) => work'[t].ev = work[t].ev
SameMarks(i) == \A w \in Users : <<i, w>> \in reactions' <=> <<i, w>> \in reactions
SameStage(s) == conn'[s] = conn[s] /\ window'[s] = window[s] /\ since'[s] = since[s]
SameBuffers(s, K) == Beside(send[s], send'[s], K) /\ Beside(hist[s], hist'[s], K)

LEMMA KeepReacts ==
    ASSUME TypeOK, NEW i \in Ids, SameDoing("react", i), SameMarks(i), ReactsRight(i)
    PROVE  ReactsRight(i)'
<1>1. \A t \in Sessions : Doing(t, "react", i) => work[t].ev.who \in Users
  BY DEF Doing, TypeOK, TypeWork, Works, Events
<1>2. ASSUME NEW t \in Sessions, Doing(t, "react", i)'
      PROVE  /\ Doing(t, "react", i) /\ work'[t].ev = work[t].ev /\ work[t].ev.who \in Users
             /\ <<i, work[t].ev.who>> \in reactions' <=> <<i, work[t].ev.who>> \in reactions
  BY <1>1, <1>2 DEF SameDoing, SameMarks
<1>. QED
  BY <1>2 DEF ReactsRight, SameDoing

LEMMA KeepMarks ==
    ASSUME TypeOK, NEW s \in Sessions, NEW i \in Ids, SameDoing("react", i), SameMarks(i), SameStage(s),
           SameBuffers(s, MarksOf(i)), \A w \in Users : Marked(s, i, w)' <=> Marked(s, i, w),
           MarksRight(s, i)
    PROVE  MarksRight(s, i)'
<1>. SUFFICES ASSUME NEW w \in Users PROVE MarkRight(s, i, w)'
  BY DEF MarksRight
<1>1. (\A t \in Sessions : Doing(t, "react", i) => work[t].ev.who # w)'
         => \A t \in Sessions : Doing(t, "react", i) => work[t].ev.who # w
  BY DEF SameDoing
<1>2. send[s] \in Seq(Events) /\ hist[s] \in Seq(Events)
  BY DEF TypeOK, TypeSession
<1>3. /\ Nothing(send'[s], MarkOf(i, w)) <=> Nothing(send[s], MarkOf(i, w))
      /\ Ends(send'[s], MarkOf(i, w), MarkAs(i, w)) <=> Ends(send[s], MarkOf(i, w), MarkAs(i, w))
      /\ Nothing(hist'[s], MarkOf(i, w)) <=> Nothing(hist[s], MarkOf(i, w))
  <2>1. /\ Beside(send[s], send'[s], MarksOf(i)) /\ Beside(hist[s], hist'[s], MarksOf(i))
        /\ MarkOf(i, w) \subseteq MarksOf(i) /\ MarkAs(i, w) \subseteq MarkOf(i, w)
    BY Sets DEF SameBuffers
  <2>. QED
    BY <1>2, <2>1, BesideKeeps
<1>4. MarkComes(s, i, w)' <=> MarkComes(s, i, w)
  BY <1>3 DEF MarkComes
<1>5. MarkRight(s, i, w)
  BY DEF MarksRight
<1>. QED
  BY <1>1, <1>3, <1>4, <1>5 DEF MarkRight, SameStage, SameMarks

LEMMA KeepCounted ==
    ASSUME TypeOK, NEW s \in Sessions, NEW i \in Ids, Nowhere("msg", i)' <=> Nowhere("msg", i),
           SameBuffers(s, MsgOf(i)), Copy(s, i)' = Copy(s, i), Counted(s, i)
    PROVE  Counted(s, i)'
<1>1. send[s] \in Seq(Events) /\ hist[s] \in Seq(Events)
  BY DEF TypeOK, TypeSession
<1>2. /\ Nothing(send'[s], MsgOf(i)) <=> Nothing(send[s], MsgOf(i))
      /\ Nothing(hist'[s], MsgOf(i)) <=> Nothing(hist[s], MsgOf(i))
      /\ Single(send[s], MsgOf(i)) => Single(send'[s], MsgOf(i))
  BY <1>1, BesideKeeps DEF SameBuffers
<1>. QED
  BY <1>2 DEF Counted

LEMMA KeepAlone ==
    ASSUME NEW i \in Ids, SameDoing("msg", i), SameDoing("edit", i), SameDoing("delete", i), Alone(i)
    PROVE  Alone(i)'
BY DEF SameDoing, Alone, Nowhere

LEMMA KeepBody ==
    ASSUME TypeOK, NEW s \in Sessions, NEW i \in Ids, SameDoing("msg", i), SameDoing("edit", i),
           rows'[i].body = rows[i].body,
           SameBuffers(s, TextOf(i)), Copy(s, i)' = Copy(s, i), BodyRight(s, i)
    PROVE  BodyRight(s, i)'
<1>. DEFINE b == rows[i].body
<1>1. send[s] \in Seq(Events) /\ hist[s] \in Seq(Events)
  BY DEF TypeOK, TypeSession
<1>2. /\ Nothing(send'[s], MsgOf(i)) <=> Nothing(send[s], MsgOf(i))
      /\ Nothing(send'[s], TextOf(i)) <=> Nothing(send[s], TextOf(i))
      /\ Ends(send'[s], TextOf(i), TextAs(i, b)) <=> Ends(send[s], TextOf(i), TextAs(i, b))
      /\ Nothing(hist'[s], MsgOf(i) \ TextAs(i, b)) <=> Nothing(hist[s], MsgOf(i) \ TextAs(i, b))
  <2>. DEFINE M == MsgOf(i) \ TextAs(i, b)
  <2>1. /\ Beside(send[s], send'[s], TextOf(i)) /\ Beside(hist[s], hist'[s], TextOf(i))
        /\ MsgOf(i) \subseteq TextOf(i) /\ TextAs(i, b) \subseteq TextOf(i) /\ M \subseteq TextOf(i)
    BY Sets DEF SameBuffers
  <2>. HIDE DEF M, b
  <2>2. Nothing(hist'[s], M) <=> Nothing(hist[s], M)
    BY <1>1, <2>1, BesideKeeps
  <2>3. /\ Nothing(send'[s], TextOf(i)) <=> Nothing(send[s], TextOf(i))
        /\ Ends(send'[s], TextOf(i), TextAs(i, b)) <=> Ends(send[s], TextOf(i), TextAs(i, b))
    BY <1>1, <2>1, BesideKeeps
  <2>4. Nothing(send'[s], MsgOf(i)) <=> Nothing(send[s], MsgOf(i))
    BY <1>1, <2>1, BesideKeeps
  <2>. QED
    BY <2>2, <2>3, <2>4 DEF M
<1>3. TextComes(s, i, b)' <=> TextComes(s, i, b)
  BY <1>2 DEF TextComes
<1>4. Nowhere("edit", i)' <=> Nowhere("edit", i)
  BY DEF Nowhere, SameDoing
<1>5. \A t \in Sessions : (Doing(t, "edit", i) \/ Doing(t, "msg", i))' => work'[t].ev.body = rows'[i].body
  BY DEF BodyRight, SameDoing
<1>. QED
  BY <1>2, <1>3, <1>4, <1>5 DEF BodyRight

LEMMA KeepLife ==
    ASSUME TypeOK, NEW s \in Sessions, NEW i \in Ids, SameDoing("msg", i), SameDoing("delete", i),
           rows'[i].deleted = rows[i].deleted,
           SameBuffers(s, LifeOf(i)), Copy(s, i)' = Copy(s, i), LifeRight(s, i)
    PROVE  LifeRight(s, i)'
<1>1. send[s] \in Seq(Events) /\ hist[s] \in Seq(Events)
  BY DEF TypeOK, TypeSession
<1>2. /\ Nothing(hist'[s], MsgOf(i)) <=> Nothing(hist[s], MsgOf(i))
      /\ Nothing(send'[s], LifeOf(i)) <=> Nothing(send[s], LifeOf(i))
      /\ Ends(send'[s], LifeOf(i), DelOf(i)) <=> Ends(send[s], LifeOf(i), DelOf(i))
  <2>1. /\ Beside(send[s], send'[s], LifeOf(i)) /\ Beside(hist[s], hist'[s], LifeOf(i))
        /\ MsgOf(i) \subseteq LifeOf(i) /\ DelOf(i) \subseteq LifeOf(i)
    BY Sets DEF SameBuffers
  <2>2. /\ Nothing(send'[s], LifeOf(i)) <=> Nothing(send[s], LifeOf(i))
        /\ Ends(send'[s], LifeOf(i), DelOf(i)) <=> Ends(send[s], LifeOf(i), DelOf(i))
    BY <1>1, <2>1, BesideKeeps
  <2>3. Nothing(hist'[s], MsgOf(i)) <=> Nothing(hist[s], MsgOf(i))
    BY <1>1, <2>1, BesideKeeps
  <2>. QED
    BY <2>2, <2>3
<1>3. EndComes(s, i)' <=> EndComes(s, i)
  BY <1>2 DEF EndComes
<1>4. (Nowhere("delete", i)' <=> Nowhere("delete", i)) /\ (Nowhere("msg", i)' <=> Nowhere("msg", i))
  BY DEF Nowhere, SameDoing
<1>. QED
  BY <1>2, <1>3, <1>4 DEF LifeRight

\* A step that is about another message, or about other clients.
Elsewhere(s, i) ==
    /\ \A k \in Kinds \ {"note"} : SameDoing(k, i)
    /\ SameMarks(i)
    /\ rows'[i] # NoRow =>
          /\ rows[i] # NoRow /\ rows'[i].body = rows[i].body /\ rows'[i].deleted = rows[i].deleted
          /\ rows'[i].sender = rows[i].sender /\ rows'[i].to = rows[i].to
    /\ SameStage(s) /\ SameBuffers(s, AboutOf(i)) /\ Copy(s, i)' = Copy(s, i)
    /\ \A w \in Users : Marked(s, i, w)' <=> Marked(s, i, w)

LEMMA FewerBeside ==
    ASSUME NEW s, NEW K, SameBuffers(s, K), NEW K1, K1 \subseteq K
    PROVE  SameBuffers(s, K1)
BY DEF SameBuffers, Beside

LEMMA ElsewhereRight ==
    ASSUME TypeOK, NEW s \in Sessions, NEW i \in Ids, Elsewhere(s, i), Right(s, i)
    PROVE  Right(s, i)'
<1>1. SameDoing("msg", i) /\ SameDoing("edit", i) /\ SameDoing("delete", i) /\ SameDoing("react", i)
  BY DEF Elsewhere, Kinds
<1>2. /\ SameBuffers(s, MsgOf(i)) /\ SameBuffers(s, TextOf(i)) /\ SameBuffers(s, LifeOf(i))
      /\ SameBuffers(s, MarksOf(i))
  BY FewerBeside, Sets DEF Elsewhere
<1>3. Nowhere("msg", i)' <=> Nowhere("msg", i)
  BY <1>1 DEF SameDoing, Nowhere
<1>4. /\ SameMarks(i) /\ SameStage(s) /\ Copy(s, i)' = Copy(s, i)
      /\ \A w \in Users : Marked(s, i, w)' <=> Marked(s, i, w)
      /\ i \in Present' => /\ i \in Present /\ rows'[i].body = rows[i].body
                           /\ rows'[i].deleted = rows[i].deleted
      /\ i \in Visible(UserOf[s])' => i \in Visible(UserOf[s])
      /\ Visible(UserOf[s])' \subseteq Present'
  BY DEF Elsewhere, Present, Visible
<1>5. ReactsRight(i)'
  BY <1>1, <1>4, KeepReacts DEF Right
<1>6. Early(s, i) => Early(s, i)'
  <2>1. send[s] \in Seq(Events)
    BY DEF TypeOK, TypeSession
  <2>2. Nothing(send'[s], MsgOf(i)) <=> Nothing(send[s], MsgOf(i))
    BY <1>2, <2>1, BesideKeeps DEF SameBuffers
  <2>. QED
    BY <1>4, <2>2 DEF Early
<1>7. MarksRight(s, i) => MarksRight(s, i)'
  BY <1>1, <1>2, <1>4, KeepMarks
<1>8. Followed(s, i) => Followed(s, i)'
  <2>. SUFFICES ASSUME Followed(s, i) PROVE Followed(s, i)'
    OBVIOUS
  <2>1. Counted(s, i)' /\ Alone(i)'
    BY <1>1, <1>2, <1>3, <1>4, KeepCounted, KeepAlone DEF Followed
  <2>2. i \in Present' => BodyRight(s, i)'
    BY <1>1, <1>2, <1>4, KeepBody DEF Followed
  <2>3. i \in Visible(UserOf[s])' => LifeRight(s, i)'
    BY <1>1, <1>2, <1>4, KeepLife DEF Followed
  <2>. QED
    BY <2>1, <2>2, <2>3 DEF Followed
<1>9. conn'[s] = conn[s] /\ (Past(s)' <=> Past(s)) /\ Covered(s)' = Covered(s)
  BY <1>4 DEF SameStage, Past, Covered
<1>. QED
  BY <1>5, <1>6, <1>7, <1>8, <1>9 DEF Right

----------------------------------------------------------------------------
(* Steps that keep the base of the argument.                                  *)

LEMMA StoresFrame ==
    ASSUME TypeOK, NEW s \in Sessions, Stores(s)
    PROVE  /\ UNCHANGED <<conn, hist, send, shown, marks, window, since>>
           /\ \A t \in Sessions \ {s} : work'[t] = work[t]
           /\ disturbed \subseteq disturbed'
           /\ s \in Live => On(s)' \/ work[s] # Free
<1>1. UNCHANGED <<conn, hist, send, shown, marks, window, since>> /\ disturbed \subseteq disturbed'
  BY DEF Stores, Dispatch, ReadText, Edit, Delete, PinRead, React, ReactUnstored, ClearMessages,
     ReadTyping, ReadReceipt,
     ReadFile, Search, Say, Insert, InsertFails, Number, Retain, PinWrite, Store, ghost, session, client
<1>2. \A t \in Sessions \ {s} : work'[t] = work[t]
  BY DEF Stores, Dispatch, ReadText, Edit, Delete, PinRead, React, ReactUnstored, ClearMessages,
     ReadTyping, ReadReceipt,
     ReadFile, Search, Say, Insert, InsertFails, Number, Retain, PinWrite, WorkTo, TypeOK, TypeWork
<1>3. On(s) \/ work[s] # Free
  BY DEF Stores, Dispatch, ReadText, Edit, Delete, PinRead, React, ReactUnstored, ClearMessages,
     ReadTyping, ReadReceipt,
     ReadFile, Search, Say, Operate, Listening, Insert, InsertFails, Number, Retain, PinWrite, Free
<1>. QED
  BY <1>1, <1>2, <1>3 DEF On

LEMMA ServesFrame ==
    ASSUME TypeOK, Addressed, NEW s \in Sessions, Serves(s)
    PROVE  /\ UNCHANGED table
           /\ \A t \in Sessions : work'[t] \in {work[t], Free}
           /\ \A t \in Sessions : t \in Live' => t \in Live \/ (t = s /\ Connect(s))
           /\ \A t \in Live : t \in Live' /\ On(t) => On(t)'
<1>1. Sane
  BY ServesStep
<1>2. \A t \in Sessions : conn[t] \in {"off", "fetch", "rows", "reactions"}
  BY DEF TypeOK, TypeSession
<1>3. ASSUME NEW t \in Sessions
      PROVE  /\ conn'[t] # "off" => conn[t] # "off" \/ (t = s /\ Connect(s))
             /\ conn[t] # "off" /\ conn'[t] # "off" /\ On(t) => On(t)'
  <2>0. conn \in [Sessions -> {"off", "fetch", "rows", "reactions"}] /\ hist \in [Sessions -> Seq(Events)]
    BY DEF TypeOK, TypeSession
  <2>1. CASE Notice(s) \/ BroadcastDM(s) \/ Deliver(s)
    BY <2>1 DEF Notice, BroadcastDM, Deliver, On
  <2>2. CASE Broadcast(s) \/ Disconnect(s)
    <3>1. PICK S : End(S)
      BY <2>2 DEF Broadcast, Disconnect
    <3>. QED
      BY <2>0, <3>1 DEF End, On
  <2>3. CASE Connect(s)
    BY <2>0, <2>3 DEF Connect, On
  <2>4. CASE Fetch(s)
    BY <2>0, <2>4 DEF Fetch, On
  <2>5. CASE Replay(s)
    BY <2>0, <2>5 DEF Replay, On
  <2>6. CASE LoadReactions(s)
    BY <2>0, <2>6 DEF LoadReactions, On
  <2>. QED
    BY <2>1, <2>2, <2>3, <2>4, <2>5, <2>6 DEF Serves, Handshake
<1>. QED
  BY <1>1, <1>3 DEF Sane, Live

LEMMA ServesWork ==
    ASSUME Base, NEW s \in Sessions, Serves(s)
    PROVE  OneClient' /\ Patient' /\ WorkShape' /\ OneInsert'
<1>1. /\ \A t \in Sessions : work'[t] \in {work[t], Free}
      /\ \A t \in Sessions : t \in Live' => t \in Live \/ (t = s /\ Connect(s))
      /\ \A t \in Live : t \in Live' /\ On(t) => On(t)'
  BY ServesFrame DEF Base
<1>2. OneClient'
  <2>1. ASSUME NEW t \in Live', NEW r \in Live', UserOf[t] = UserOf[r]
        PROVE  t = r
    <3>1. t \in Sessions /\ r \in Sessions
      BY DEF Live
    <3>. QED
      BY <1>1, <2>1, <3>1 DEF Base, OneClient, Connect
  <2>. QED
    BY <2>1 DEF OneClient
<1>3. Patient'
  <2>1. ASSUME NEW t \in Live', ~On(t)'
        PROVE  work'[t] = Free
    <3>1. t \in Sessions
      BY DEF Live
    <3>2. CASE t \in Live
      BY <1>1, <2>1, <3>1, <3>2 DEF Base, Patient
    <3>3. CASE t = s /\ Connect(s)
      BY <3>3 DEF Connect
    <3>. QED
      BY <1>1, <3>1, <3>2, <3>3
  <2>. QED
    BY <2>1 DEF Patient
<1>4. WorkShape'
  <2>1. \A t \in Sessions : work'[t] # Free => work'[t] = work[t]
    BY <1>1
  <2>. QED
    BY <2>1 DEF Base, WorkShape
<1>5. OneInsert'
  <2>1. \A t \in Sessions, i \in Ids : Doing(t, "msg", i)' => Doing(t, "msg", i)
    BY <1>1 DEF Doing
  <2>. QED
    BY <2>1 DEF Base, OneInsert
<1>. QED
  BY <1>2, <1>3, <1>4, <1>5

LEMMA Begins ==
    ASSUME TypeOK, NEW s \in Sessions, NEW at \in Places, NEW e, WorkTo(s, Busy(at, e))
    PROVE  work'[s] # Free /\ work'[s].at = at /\ work'[s].ev = e
<1>1. work'[s] = Busy(at, e)
  BY DEF WorkTo, TypeOK, TypeWork
<1>2. Busy(at, e).at = at /\ Busy(at, e).ev = e /\ Free.at = "read" /\ at # "read"
  BY DEF Busy, Free, Places
<1>. QED
  BY <1>1, <1>2

LEMMA GoesOn ==
    ASSUME TypeOK, NEW s \in Sessions, work[s] # Free, NEW at \in Places,
           WorkTo(s, [work[s] EXCEPT !.at = at])
    PROVE  work'[s] # Free /\ work'[s].at = at /\ work'[s].ev = work[s].ev
<1>1. work[s] \in Works
  BY DEF TypeOK, TypeWork
<1>2. work'[s] = [work[s] EXCEPT !.at = at]
  BY DEF WorkTo, TypeOK, TypeWork
<1>3. work'[s].at = at /\ work'[s].ev = work[s].ev
  BY <1>1, <1>2 DEF Works
<1>. QED
  BY <1>3 DEF Free, Places

\* The steps of a readPump that store nothing about a message that others could
\* know of.
Passes(s) ==
    \/ \E to \in (Users \ {UserOf[s]}) \cup {Nobody} : ReadText(s, to)
    \/ \E i \in Ids : PinRead(s, i)
    \/ ClearMessages(s) \/ ReadTyping(s) \/ ReadReceipt(s) \/ ReadFile(s) \/ Search(s)
    \/ InsertFails(s) \/ Number(s) \/ Retain(s) \/ PinWrite(s)

LEMMA StoresParts ==
    ASSUME NEW s \in Sessions, Stores(s)
    PROVE  \/ Passes(s) \/ Insert(s)
           \/ \E i \in Ids : Edit(s, i) \/ Delete(s, i)
           \/ \E i \in Ids, on \in 0..1 : React(s, i, on) \/ ReactUnstored(s, i, on)
BY DEF Stores, Dispatch, Passes

\* What a readPump does next.
LEMMA PassesEvent ==
    ASSUME TypeOK, Addressed, WorkShape, NEW s \in Sessions, Passes(s)
    PROVE  /\ work'[s] # Free
           /\ \/ /\ work[s] # Free /\ work'[s].ev = work[s].ev
                 /\ <<work[s].at, work'[s].at>> \in {<<"insert", "notice">>, <<"number", "retain">>,
                                                     <<"retain", "send">>, <<"pin", "send">>}
              \/ /\ work[s] = Free /\ work'[s].at = "insert"
                 /\ work'[s].ev.k = "msg" /\ work'[s].ev.id = 0 /\ work'[s].ev.body = 0
              \/ /\ work[s] = Free /\ work'[s].at \in {"send", "notice", "pin"}
                 /\ work'[s].ev.k = "note" /\ work'[s].ev.to = Nobody
                 /\ work'[s].ev.id < nextId /\ (work'[s].at = "notice" => work'[s].ev.id = 0)
<1>0. nextId \in Nat /\ 0 < nextId
  BY DeliveryAssumption DEF TypeOK, TypeTable
<1>1. ASSUME NEW to \in (Users \ {UserOf[s]}) \cup {Nobody}, ReadText(s, to)
      PROVE  /\ work'[s] # Free /\ work[s] = Free /\ work'[s].at = "insert"
             /\ work'[s].ev.k = "msg" /\ work'[s].ev.id = 0 /\ work'[s].ev.body = 0
  <2>. DEFINE e == Ev("msg", 0, 0, UserOf[s], to)
  <2>1. WorkTo(s, Busy("insert", e)) /\ work[s] = Free
    BY <1>1 DEF ReadText, Listening
  <2>2. e.k = "msg" /\ e.id = 0 /\ e.body = 0
    BY DEF Ev
  <2>. HIDE DEF e
  <2>3. work'[s] # Free /\ work'[s].at = "insert" /\ work'[s].ev = e
    BY <2>1, Begins DEF Places
  <2>. QED
    BY <2>1, <2>2, <2>3
<1>2. ASSUME NEW i \in 0..MaxId, i < nextId, NEW at \in {"send", "notice", "pin"}, NEW b,
             at = "notice" => i = 0,
             WorkTo(s, Busy(at, Ev("note", i, b, UserOf[s], Nobody))), work[s] = Free
      PROVE  /\ work'[s] # Free /\ work[s] = Free /\ work'[s].at \in {"send", "notice", "pin"}
             /\ work'[s].ev.k = "note" /\ work'[s].ev.to = Nobody
             /\ work'[s].ev.id < nextId /\ (work'[s].at = "notice" => work'[s].ev.id = 0)
  <2>. DEFINE e == Ev("note", i, b, UserOf[s], Nobody)
  <2>1. WorkTo(s, Busy(at, e))
    BY <1>2
  <2>2. e.k = "note" /\ e.id = i /\ e.to = Nobody
    BY DEF Ev
  <2>. HIDE DEF e
  <2>3. work'[s] # Free /\ work'[s].at = at /\ work'[s].ev = e
    BY <2>1, Begins DEF Places
  <2>. QED
    BY <1>2, <2>2, <2>3
<1>3. ASSUME NEW i \in Ids, PinRead(s, i)
      PROVE  \E b \in {0, 1} :
                /\ i \in 0..MaxId /\ i < nextId /\ work[s] = Free
                /\ WorkTo(s, Busy("pin", Ev("note", i, b, UserOf[s], Nobody)))
  BY <1>3, DeliveryAssumption DEF PinRead, Operate, Listening, ById, Present, Addressed, Ids, TypeOK, TypeTable
<1>4. ASSUME ClearMessages(s) \/ ReadTyping(s) \/ ReadReceipt(s) \/ ReadFile(s) \/ Search(s)
      PROVE  \E at \in {"send", "notice"} :
                /\ 0 \in 0..MaxId /\ work[s] = Free
                /\ WorkTo(s, Busy(at, Ev("note", 0, 0, UserOf[s], Nobody)))
  BY <1>4, DeliveryAssumption DEF ClearMessages, ReadTyping, ReadReceipt, ReadFile, Search, Say, Operate, Listening
<1>5. ASSUME InsertFails(s) \/ Number(s) \/ Retain(s) \/ PinWrite(s)
      PROVE  /\ work'[s] # Free /\ work[s] # Free /\ work'[s].ev = work[s].ev
             /\ <<work[s].at, work'[s].at>> \in {<<"insert", "notice">>, <<"number", "retain">>,
                                                 <<"retain", "send">>, <<"pin", "send">>}
  <2>1. CASE InsertFails(s)
    <3>1. /\ work[s].at = "insert" /\ work[s] # Free /\ "notice" \in Places
          /\ WorkTo(s, [work[s] EXCEPT !.at = "notice"])
      BY <2>1 DEF InsertFails, Places, Free
    <3>. QED
      BY <3>1, GoesOn
  <2>2. CASE Number(s)
    <3>1. /\ work[s].at = "number" /\ work[s] # Free /\ "retain" \in Places
          /\ WorkTo(s, [work[s] EXCEPT !.at = "retain"])
      BY <2>2 DEF Number, Places, Free
    <3>. QED
      BY <3>1, GoesOn
  <2>3. CASE Retain(s)
    <3>1. /\ work[s].at = "retain" /\ work[s] # Free /\ "send" \in Places
          /\ WorkTo(s, [work[s] EXCEPT !.at = "send"])
      BY <2>3 DEF Retain, Places, Free
    <3>. QED
      BY <3>1, GoesOn
  <2>4. CASE PinWrite(s)
    <3>1. /\ work[s].at = "pin" /\ work[s] # Free /\ "send" \in Places
          /\ WorkTo(s, [work[s] EXCEPT !.at = "send"])
      BY <2>4 DEF PinWrite, Places, Free
    <3>. QED
      BY <3>1, GoesOn
  <2>. QED
    BY <1>5, <2>1, <2>2, <2>3, <2>4
<1>6. CASE \E to \in (Users \ {UserOf[s]}) \cup {Nobody} : ReadText(s, to)
  BY <1>1, <1>6
<1>7. CASE \E i \in Ids : PinRead(s, i)
  <2>1. PICK i \in Ids, b \in {0, 1} :
                /\ i \in 0..MaxId /\ i < nextId /\ work[s] = Free
                /\ WorkTo(s, Busy("pin", Ev("note", i, b, UserOf[s], Nobody)))
    BY <1>3, <1>7
  <2>2. /\ work'[s] # Free /\ work[s] = Free /\ work'[s].at \in {"send", "notice", "pin"}
        /\ work'[s].ev.k = "note" /\ work'[s].ev.to = Nobody
        /\ work'[s].ev.id < nextId /\ (work'[s].at = "notice" => work'[s].ev.id = 0)
    BY <1>2, <2>1
  <2>. QED
    BY <2>2
<1>8. CASE ClearMessages(s) \/ ReadTyping(s) \/ ReadReceipt(s) \/ ReadFile(s) \/ Search(s)
  <2>1. PICK at \in {"send", "notice"} :
                /\ 0 \in 0..MaxId /\ work[s] = Free
                /\ WorkTo(s, Busy(at, Ev("note", 0, 0, UserOf[s], Nobody)))
    BY <1>4, <1>8
  <2>2. /\ work'[s] # Free /\ work[s] = Free /\ work'[s].at \in {"send", "notice", "pin"}
        /\ work'[s].ev.k = "note" /\ work'[s].ev.to = Nobody
        /\ work'[s].ev.id < nextId /\ (work'[s].at = "notice" => work'[s].ev.id = 0)
    BY <1>0, <1>2, <2>1
  <2>. QED
    BY <2>2
<1>9. CASE InsertFails(s) \/ Number(s) \/ Retain(s) \/ PinWrite(s)
  BY <1>5, <1>9
<1>. QED
  BY <1>6, <1>7, <1>8, <1>9 DEF Passes

\* Nobody else has a message under way that gets its number now.
LEMMA InsertEvent ==
    ASSUME TypeOK, WorkShape, NEW s \in Sessions, Insert(s)
    PROVE  /\ work'[s] # Free /\ work'[s].at = "number" /\ work'[s].ev = [work[s].ev EXCEPT !.id = nextId]
           /\ work'[s].ev.k = "msg" /\ work'[s].ev.id = nextId /\ work'[s].ev.body = 0
           /\ work[s] # Free /\ work[s].ev.id = 0 /\ work[s].ev.k = "msg"
           /\ nextId \in Ids /\ nextId' = nextId + 1 /\ rows'[nextId].body = 0
           /\ ~rows'[nextId].deleted /\ \A i \in Ids \ {nextId} : rows'[i] = rows[i]
<1>1. work[s] \in Works /\ work[s] # Free /\ work[s].at = "insert"
  BY DEF Insert, TypeOK, TypeWork, Free
<1>2. work[s].ev.id = 0 /\ work[s].ev.k = "msg" /\ work[s].ev.body = 0 /\ work[s].ev \in Events
  BY <1>1 DEF WorkShape, Works
<1>3. nextId \in Ids /\ nextId' = nextId + 1
  BY DeliveryAssumption DEF Insert, Ids, TypeOK, TypeTable
<1>. DEFINE e == [work[s].ev EXCEPT !.id = nextId]
<1>4. e.k = "msg" /\ e.id = nextId /\ e.body = 0
  BY <1>2 DEF Events
<1>5. work'[s] = [work[s] EXCEPT !.at = "number", !.ev = e]
  BY DEF Insert, WorkTo, TypeOK, TypeWork
<1>. HIDE DEF e
<1>6. work'[s].at = "number" /\ work'[s].ev = e
  BY <1>1, <1>5 DEF Works
<1>7. /\ rows'[nextId].body = 0 /\ ~rows'[nextId].deleted
      /\ \A i \in Ids \ {nextId} : rows'[i] = rows[i]
  BY <1>3 DEF Insert, TypeOK, TypeTable
<1>. QED
  BY <1>1, <1>2, <1>3, <1>4, <1>6, <1>7 DEF Free, e

\* An edit, a deletion or a reaction is stored at once and then under way.
Operates(s, i) ==
    /\ work[s] = Free /\ work'[s] # Free /\ work'[s].at = "send"
    /\ work'[s].ev.id = i /\ work'[s].ev.to = Nobody /\ i < nextId

LEMMA OperationEvent ==
    ASSUME TypeOK, NEW s \in Sessions, NEW i \in Ids, i < nextId, work[s] = Free,
           NEW k, NEW b, WorkTo(s, Busy("send", Ev(k, i, b, UserOf[s], Nobody)))
    PROVE  /\ Operates(s, i)
           /\ work'[s].ev.k = k /\ work'[s].ev.body = b /\ work'[s].ev.who = UserOf[s]
<1>. DEFINE e == Ev(k, i, b, UserOf[s], Nobody)
<1>1. e.k = k /\ e.id = i /\ e.body = b /\ e.who = UserOf[s] /\ e.to = Nobody
  BY DEF Ev
<1>2. WorkTo(s, Busy("send", e))
  OBVIOUS
<1>. HIDE DEF e
<1>3. work'[s] # Free /\ work'[s].at = "send" /\ work'[s].ev = e
  BY <1>2, Begins DEF Places
<1>. QED
  BY <1>1, <1>3 DEF Operates

LEMMA ByIdKnown ==
    ASSUME TypeOK, Addressed, NEW i \in Ids, ById(i)
    PROVE  i < nextId /\ rows[i] \in Rows
<1>1. rows[i] # NoRow /\ rows[i] \in Rows
  BY DEF ById, Present, TypeOK, TypeTable
<1>2. i \in Nat /\ nextId \in Nat
  BY DeliveryAssumption DEF TypeOK, TypeTable, Ids
<1>. QED
  BY <1>1, <1>2 DEF Addressed

LEMMA EditEvent ==
    ASSUME TypeOK, Addressed, NEW s \in Sessions, NEW i \in Ids, Edit(s, i)
    PROVE  /\ Operates(s, i) /\ work'[s].ev.k = "edit" /\ work'[s].ev.body = rows'[i].body
           /\ UNCHANGED <<nextId, reactions>>
           /\ rows' = [rows EXCEPT ![i] = rows'[i]] /\ rows'[i] = [rows[i] EXCEPT !.body = @ + 1]
<1>1. i < nextId /\ work[s] = Free
  BY ByIdKnown DEF Edit, Operate, Listening
<1>2. WorkTo(s, Busy("send", Ev("edit", i, rows'[i].body, UserOf[s], Nobody)))
  BY DEF Edit
<1>3. /\ UNCHANGED <<nextId, reactions>>
      /\ rows' = [rows EXCEPT ![i] = rows'[i]] /\ rows'[i] = [rows[i] EXCEPT !.body = @ + 1]
  BY DEF Edit, TypeOK, TypeTable
<1>5. /\ Operates(s, i)
      /\ work'[s].ev.k = "edit" /\ work'[s].ev.body = rows'[i].body /\ work'[s].ev.who = UserOf[s]
  BY <1>1, <1>2, OperationEvent
<1>. QED
  BY <1>3, <1>5

LEMMA DeleteEvent ==
    ASSUME TypeOK, Addressed, NEW s \in Sessions, NEW i \in Ids, Delete(s, i)
    PROVE  /\ Operates(s, i) /\ work'[s].ev.k = "delete"
           /\ UNCHANGED <<nextId, reactions>>
           /\ rows' = [rows EXCEPT ![i] = rows'[i]] /\ rows'[i] = [rows[i] EXCEPT !.deleted = TRUE]
           /\ rows'[i].deleted
<1>1. i < nextId /\ work[s] = Free /\ rows[i] \in Rows
  BY ByIdKnown DEF Delete, Operate, Listening
<1>2. WorkTo(s, Busy("send", Ev("delete", i, 0, UserOf[s], Nobody)))
  BY DEF Delete
<1>3. /\ UNCHANGED <<nextId, reactions>>
      /\ rows' = [rows EXCEPT ![i] = rows'[i]] /\ rows'[i] = [rows[i] EXCEPT !.deleted = TRUE]
  BY DEF Delete, TypeOK, TypeTable
<1>4. rows'[i].deleted
  BY <1>1, <1>3 DEF Rows
<1>5. /\ Operates(s, i)
      /\ work'[s].ev.k = "delete" /\ work'[s].ev.body = 0 /\ work'[s].ev.who = UserOf[s]
  BY <1>1, <1>2, OperationEvent
<1>. QED
  BY <1>3, <1>4, <1>5

LEMMA ReactEvent ==
    ASSUME TypeOK, NEW s \in Sessions, NEW i \in Ids, NEW on \in 0..1,
           React(s, i, on) \/ ReactUnstored(s, i, on)
    PROVE  /\ Operates(s, i) /\ work'[s].ev.k = "react" /\ work'[s].ev.body = on
           /\ work'[s].ev.who = UserOf[s] /\ UNCHANGED <<nextId, rows>>
<1>1. i < nextId /\ work[s] = Free
  BY DEF React, ReactUnstored, Operate, Listening
<1>2. WorkTo(s, Busy("send", Ev("react", i, on, UserOf[s], Nobody)))
  BY DEF React, ReactUnstored
<1>3. UNCHANGED <<nextId, rows>>
  BY DEF React, ReactUnstored, table
<1>5. /\ Operates(s, i)
      /\ work'[s].ev.k = "react" /\ work'[s].ev.body = on /\ work'[s].ev.who = UserOf[s]
  BY <1>1, <1>2, OperationEvent
<1>. QED
  BY <1>3, <1>5

LEMMA StoresWork ==
    ASSUME Base, NEW s \in Sessions, Stores(s)
    PROVE  OneClient' /\ Patient' /\ WorkShape' /\ OneInsert'
<1>0. TypeOK /\ Addressed /\ WorkShape /\ OneInsert /\ Known
  BY DEF Base
<1>1. /\ UNCHANGED <<conn, hist>> /\ (\A t \in Sessions \ {s} : work'[t] = work[t])
      /\ s \in Live => On(s)' \/ work[s] # Free
  BY <1>0, StoresFrame
<1>2. OneClient'
  BY <1>1 DEF Base, OneClient, Live
<1>3. Patient'
  <2>1. ASSUME NEW t \in Live, ~On(t)
        PROVE  work'[t] = Free
    <3>1. t \in Sessions /\ work[t] = Free
      BY <2>1 DEF Base, Patient, Live
    <3>. QED
      BY <1>1, <2>1, <3>1 DEF On
  <2>. QED
    BY <1>1, <2>1 DEF Patient, Live, On
<1>4. /\ WorkShape'
      /\ \A i \in Ids : Doing(s, "msg", i)' => Doing(s, "msg", i) \/ \A t \in Sessions : ~Doing(t, "msg", i)
  <2>1. ASSUME /\ work'[s].at = "insert" =>
                     work'[s].ev.k = "msg" /\ work'[s].ev.id = 0 /\ work'[s].ev.body = 0
               /\ work'[s].at = "notice" => work'[s].ev.id = 0
               /\ work'[s].at = "pin" => work'[s].ev.k = "note"
               /\ work'[s].at \in {"number", "retain"} \/ work'[s].ev.to # Nobody => work'[s].ev.k = "msg"
        PROVE  WorkShape'
    BY <1>0, <1>1, <2>1 DEF WorkShape
  <2>2. CASE Passes(s)
    <3>1. /\ work'[s] # Free
          /\ \/ /\ work[s] # Free /\ work'[s].ev = work[s].ev
                /\ <<work[s].at, work'[s].at>> \in {<<"insert", "notice">>, <<"number", "retain">>,
                                                    <<"retain", "send">>, <<"pin", "send">>}
             \/ /\ work[s] = Free /\ work'[s].at = "insert"
                /\ work'[s].ev.k = "msg" /\ work'[s].ev.id = 0 /\ work'[s].ev.body = 0
             \/ /\ work[s] = Free /\ work'[s].at \in {"send", "notice", "pin"}
                /\ work'[s].ev.k = "note" /\ work'[s].ev.to = Nobody
                /\ work'[s].ev.id < nextId /\ (work'[s].at = "notice" => work'[s].ev.id = 0)
      BY <1>0, <2>2, PassesEvent
    <3>2. WorkShape'
      <4>1. CASE work[s] = Free
        BY <2>1, <3>1, <4>1
      <4>2. CASE work[s] # Free
        <5>1. /\ work[s].at = "insert" => work[s].ev.k = "msg" /\ work[s].ev.id = 0
              /\ work[s].at \in {"number", "retain"} \/ work[s].ev.to # Nobody => work[s].ev.k = "msg"
          BY <1>0, <4>2 DEF WorkShape
        <5>. QED
          BY <2>1, <3>1, <4>2, <5>1
      <4>. QED
        BY <4>1, <4>2
    <3>3. \A i \in Ids : Doing(s, "msg", i)' => Doing(s, "msg", i)
      BY <3>1 DEF Doing, Ids
    <3>. QED
      BY <3>2, <3>3
  <2>3. CASE Insert(s)
    <3>1. /\ work'[s] # Free /\ work'[s].at = "number" /\ work'[s].ev.k = "msg" /\ work'[s].ev.id = nextId
      BY <1>0, <2>3, InsertEvent
    <3>2. \A t \in Sessions : ~Doing(t, "msg", nextId)
      <4>1. \A t \in Sessions : work[t] # Free => work[t].ev.id < nextId
        BY <1>0 DEF Known, Fresh, Heard
      <4>. QED
        BY <1>0, <4>1 DEF Doing, TypeOK, TypeTable
    <3>3. WorkShape'
      BY <2>1, <3>1
    <3>. QED
      BY <3>1, <3>2, <3>3 DEF Doing
  <2>4. ASSUME NEW i \in Ids, NEW on \in 0..1,
               Edit(s, i) \/ Delete(s, i) \/ React(s, i, on) \/ ReactUnstored(s, i, on)
        PROVE  WorkShape' /\ work'[s].ev.k # "msg"
    <3>1. Operates(s, i) /\ work'[s].ev.k # "msg"
      BY <1>0, <2>4, EditEvent, DeleteEvent, ReactEvent
    <3>. QED
      BY <2>1, <3>1 DEF Operates
  <2>5. 0 \in 0..1
    OBVIOUS
  <2>. QED
    BY <2>2, <2>3, <2>4, <2>5, StoresParts DEF Doing
<1>5. OneInsert'
  <2>1. ASSUME NEW t1 \in Sessions, NEW t2 \in Sessions, NEW i \in Ids,
               Doing(t1, "msg", i)', Doing(t2, "msg", i)'
        PROVE  t1 = t2
    <3>1. \A t \in Sessions \ {s} : Doing(t, "msg", i)' => Doing(t, "msg", i)
      BY <1>1 DEF Doing
    <3>. QED
      BY <1>0, <1>4, <2>1, <3>1 DEF OneInsert
  <2>. QED
    BY <2>1 DEF OneInsert
<1>. QED
  BY <1>2, <1>3, <1>4, <1>5

LEMMA FreshKept ==
    ASSUME TypeOK, Addressed, RowsKept
    PROVE  Fresh \subseteq Fresh' /\ Seq(Fresh) \subseteq Seq(Fresh)'
<1>0. nextId \in Nat /\ nextId' \in Nat /\ nextId' >= nextId /\ MaxId \in Nat
  BY DeliveryAssumption DEF TypeOK, TypeTable, RowsKept
<1>1. ASSUME NEW e \in Events, Heard(e), DelTrue(e)
      PROVE  Heard(e)' /\ DelTrue(e)'
  <2>1. e.id \in 0..MaxId /\ e.id < nextId
    BY <1>1 DEF Heard, Events
  <2>2. e.id # 0 => e.id \in Ids
    BY <1>0, <2>1 DEF Ids
  <2>3. e.id # 0 /\ rows'[e.id] # NoRow =>
           rows[e.id] # NoRow /\ (rows[e.id].deleted => rows'[e.id].deleted)
    BY <1>0, <2>1, <2>2 DEF RowsKept
  <2>4. Heard(e)'
    BY <1>0, <2>1 DEF Heard
  <2>5. DelTrue(e)'
    BY <1>1, <2>3 DEF DelTrue
  <2>. QED
    BY <2>4, <2>5
<1>2. Fresh \subseteq Fresh'
  BY <1>1 DEF Fresh
<1>. QED
  BY <1>2

LEMMA StoresKnown ==
    ASSUME Base, NEW s \in Sessions, Stores(s)
    PROVE  Known' /\ TypeMarks' /\ HistShape'
<1>0. TypeOK /\ Addressed /\ WorkShape /\ Known
  BY DEF Base
<1>1. /\ UNCHANGED <<conn, hist, send, shown, marks, window, since>>
      /\ \A t \in Sessions \ {s} : work'[t] = work[t]
  BY <1>0, StoresFrame
<1>2. TypeMarks' /\ HistShape'
  BY <1>1 DEF Base, TypeMarks, HistShape, HistOf, Past
<1>3. RowsKept /\ TypeOK'
  <2>1. [Next]_vars
    BY DEF Next, Work, Stores
  <2>. QED
    BY <1>0, <2>1, InvStep
<1>4. Fresh \subseteq Fresh' /\ (\A t \in Sessions : send'[t] \in Seq(Fresh)' /\ hist'[t] \in Seq(Fresh)')
  BY <1>0, <1>1, <1>3, FreshKept DEF Known
<1>5. nextId \in Nat /\ nextId' \in Nat /\ nextId' >= nextId
  BY <1>0, <1>3, DeliveryAssumption DEF TypeOK, TypeTable, RowsKept
<1>6. work'[s].ev \in Fresh'
  <2>0. work'[s] # Free => work'[s].ev \in Events
    BY <1>3 DEF TypeOK, TypeWork, Works
  <2>1. ASSUME work'[s] # Free, work'[s].ev.k # "delete", work'[s].ev.id < nextId'
        PROVE  work'[s].ev \in Fresh'
    BY <2>0, <2>1 DEF Fresh, Heard, DelTrue
  <2>2. CASE Passes(s)
    <3>1. /\ work'[s] # Free
          /\ \/ work[s] # Free /\ work'[s].ev = work[s].ev
             \/ work'[s].ev.k = "msg" /\ work'[s].ev.id = 0
             \/ work'[s].ev.k = "note" /\ work'[s].ev.id < nextId
      BY <1>0, <2>2, PassesEvent
    <3>2. CASE work[s] # Free /\ work'[s].ev = work[s].ev
      BY <1>0, <1>4, <3>2 DEF Known
    <3>3. CASE work'[s].ev.k \in {"msg", "note"} /\ work'[s].ev.id < nextId'
      BY <2>1, <3>1, <3>3
    <3>4. work'[s].ev.id = 0 \/ work'[s].ev.id < nextId => work'[s].ev.id < nextId'
      <4>1. work'[s].ev.id \in Nat /\ nextId > 0
        BY <1>0, <2>0, <3>1, DeliveryAssumption DEF Events, TypeOK, TypeTable
      <4>. QED
        BY <1>5, <4>1
    <3>. QED
      BY <3>1, <3>2, <3>3, <3>4
  <2>3. CASE Insert(s)
    <3>1. /\ work'[s] # Free /\ work'[s].ev.k = "msg" /\ work'[s].ev.id = nextId
          /\ nextId' = nextId + 1
      BY <1>0, <2>3, InsertEvent
    <3>. QED
      BY <1>5, <2>1, <3>1
  <2>4. ASSUME NEW i \in Ids, Edit(s, i)
        PROVE  work'[s].ev \in Fresh'
    BY <1>0, <1>5, <2>1, <2>4, EditEvent DEF Operates
  <2>5. ASSUME NEW i \in Ids, NEW on \in 0..1, React(s, i, on) \/ ReactUnstored(s, i, on)
        PROVE  work'[s].ev \in Fresh'
    BY <1>0, <1>5, <2>1, <2>5, ReactEvent DEF Operates
  <2>6. ASSUME NEW i \in Ids, Delete(s, i)
        PROVE  work'[s].ev \in Fresh'
    <3>1. Operates(s, i) /\ nextId' = nextId /\ rows'[i].deleted
      BY <1>0, <2>6, DeleteEvent
    <3>. QED
      BY <2>0, <3>1 DEF Operates, Fresh, Heard, DelTrue
  <2>. QED
    BY <2>2, <2>3, <2>4, <2>5, <2>6, StoresParts
<1>7. \A r \in reactions' : r[1] < nextId'
  <2>1. \A r \in reactions : r[1] < nextId'
    <3>1. \A r \in reactions : r[1] \in Nat /\ r[1] < nextId
      BY <1>0, DeliveryAssumption DEF Known, TypeOK, TypeTable, Ids
    <3>. QED
      BY <1>5, <3>1
  <2>2. ASSUME NEW i \in Ids, NEW on \in 0..1, React(s, i, on)
        PROVE  \A r \in reactions' : r[1] < nextId'
    <3>1. i < nextId' /\ reactions' \subseteq reactions \cup {<<i, UserOf[s]>>}
      <4>1. i < nextId'
        BY <1>0, <2>2, ReactEvent DEF Operates
      <4>. QED
        BY <2>2, <4>1 DEF React
    <3>. QED
      BY <2>1, <3>1
  <2>3. (\A i \in Ids, on \in 0..1 : ~React(s, i, on)) => reactions' = reactions
    BY StoresParts DEF Passes, Edit, Delete, ReactUnstored, Insert, ReadText, PinRead, ClearMessages, ReadTyping, ReadReceipt,
       ReadFile, Search, Say, InsertFails, Number, Retain, PinWrite, table
  <2>. QED
    BY <2>1, <2>2, <2>3
<1>8. \A u \in Users : \A r \in marks[u] : r[1] < nextId'
  <2>1. \A u \in Users : \A r \in marks[u] : r[1] \in Nat /\ r[1] < nextId
    BY <1>0, DeliveryAssumption DEF Base, TypeMarks, Known
  <2>. QED
    BY <1>5, <2>1
<1>9. since \in [Sessions -> 1..nextId'] /\ \A t \in Sessions : \A i \in window[t] : i < since[t]
  BY <1>0, <1>5 DEF Known
<1>10. \A t \in Sessions : work'[t] # Free => work'[t].ev \in Fresh'
  BY <1>0, <1>1, <1>4, <1>6 DEF Known
<1>. QED
  BY <1>1, <1>2, <1>4, <1>7, <1>8, <1>9, <1>10 DEF Known

\* What the steps of hub, handshakes and clients must leave of the buffers.
LEMMA KeepsKnown ==
    ASSUME Base, NEW s \in Sessions, Serves(s),
           \A t \in Sessions : send'[t] \in Seq(Fresh) /\ hist'[t] \in Seq(Fresh),
           \A u \in Users : \A r \in marks'[u] : r[1] < nextId,
           since' \in [Sessions -> 1..nextId] /\ \A t \in Sessions : \A i \in window'[t] : i < since'[t]
    PROVE  Known'
<1>1. UNCHANGED table /\ \A t \in Sessions : work'[t] \in {work[t], Free}
  BY ServesFrame DEF Base
<1>2. Fresh' = Fresh /\ nextId' = nextId /\ reactions' = reactions
  BY <1>1 DEF table, Fresh, Heard, DelTrue
<1>. QED
  BY <1>1, <1>2 DEF Base, Known

\* A session as it was, or one that has ended.
LEMMA KeepsHist ==
    ASSUME HistShape, NEW t \in Sessions,
           \/ conn'[t] = conn[t] /\ hist'[t] = hist[t] /\ window'[t] = window[t]
           \/ conn'[t] \in {"off", "fetch"} /\ hist'[t] = <<>>
    PROVE  HistOf(t)'
<1>1. CASE conn'[t] = conn[t] /\ hist'[t] = hist[t] /\ window'[t] = window[t]
  BY <1>1 DEF HistShape, HistOf, Past
<1>2. CASE conn'[t] \in {"off", "fetch"} /\ hist'[t] = <<>>
  BY <1>2 DEF HistOf, Past
<1>. QED
  BY <1>1, <1>2

LEMMA PutKnown ==
    ASSUME Known, NEW To, NEW e \in Fresh
    PROVE  \A t \in Sessions : Put(To, e)[t] \in Seq(Fresh)
<1>1. \A t \in Sessions : send[t] \in Seq(Fresh) /\ Append(send[t], e) \in Seq(Fresh)
  BY DEF Known
<1>. QED
  BY <1>1 DEF Put

LEMMA SameKnown ==
    ASSUME Base
    PROVE  /\ \A t \in Sessions : send[t] \in Seq(Fresh) /\ hist[t] \in Seq(Fresh)
           /\ \A u \in Users : \A r \in marks[u] : r[1] < nextId
           /\ since \in [Sessions -> 1..nextId] /\ \A t \in Sessions : \A i \in window[t] : i < since[t]
           /\ send = [t \in Sessions |-> send[t]] /\ hist = [t \in Sessions |-> hist[t]]
           /\ nextId \in 1..nextId /\ 1 \in 1..nextId /\ <<>> \in Seq(Fresh)
BY DeliveryAssumption DEF Base, Known, TypeOK, TypeTable, TypeSession

LEMMA FanOutKnown ==
    ASSUME Base, NEW s \in Sessions, Notice(s) \/ Broadcast(s) \/ BroadcastDM(s) \/ Disconnect(s)
    PROVE  Known' /\ TypeMarks' /\ HistShape'
<1>1. Serves(s)
  BY DEF Serves
<1>2. marks' = marks
  BY DEF Notice, Broadcast, BroadcastDM, Disconnect, client
<1>3. TypeMarks'
  BY <1>2 DEF Base, TypeMarks
<1>4. work[s] # Free => work[s].ev \in Fresh
  BY DEF Base, Known
<1>5. Ev("note", 0, 0, UserOf[s], Nobody) \in Fresh
  <2>1. Ev("note", 0, 0, UserOf[s], Nobody) \in Events
    BY EventType, DeliveryAssumption DEF Kinds, People
  <2>. QED
    BY <2>1, SameKnown DEF Fresh, Heard, DelTrue, Ev
<1>6. \A t \in Sessions : send'[t] \in Seq(Fresh)
  <2>1. CASE Notice(s)
    BY <1>5, <2>1, PutKnown DEF Notice, Base
  <2>2. CASE Broadcast(s)
    <3>1. work[s] # Free
      BY <2>2 DEF Broadcast, Free
    <3>2. \A t \in Sessions : Put(Live, work[s].ev)[t] \in Seq(Fresh)
      BY <1>4, <3>1, PutKnown DEF Base
    <3>. QED
      BY <2>2, <3>2, SameKnown DEF Broadcast
  <2>3. CASE BroadcastDM(s)
    <3>1. work[s] # Free
      BY <2>3 DEF BroadcastDM, Free
    <3>. QED
      BY <1>4, <2>3, <3>1, PutKnown DEF BroadcastDM, Base
  <2>4. CASE Disconnect(s)
    BY <2>4, SameKnown DEF Disconnect
  <2>. QED
    BY <2>1, <2>2, <2>3, <2>4
<1>7. \A t \in Sessions :
         \/ conn'[t] = conn[t] /\ hist'[t] = hist[t] /\ window'[t] = window[t] /\ since'[t] = since[t]
         \/ conn'[t] = "off" /\ hist'[t] = <<>> /\ window'[t] = {} /\ since'[t] = 1
  <2>1. CASE Notice(s) \/ BroadcastDM(s)
    BY <2>1 DEF Notice, BroadcastDM, ghost
  <2>2. CASE Broadcast(s) \/ Disconnect(s)
    BY <2>2 DEF Broadcast, Disconnect, End
  <2>. QED
    BY <2>1, <2>2
<1>8. HistShape'
  BY <1>7, KeepsHist DEF HistShape, Base
<1>9. \A t \in Sessions : hist'[t] \in Seq(Fresh)
  BY <1>7, SameKnown
<1>10. since' \in [Sessions -> 1..nextId] /\ \A t \in Sessions : \A i \in window'[t] : i < since'[t]
  <2>1. since' = [t \in Sessions |-> since'[t]]
    BY SameKnown DEF Notice, Broadcast, BroadcastDM, Disconnect, End, ghost
  <2>. QED
    BY <1>7, <2>1, SameKnown
<1>11. \A u \in Users : \A r \in marks'[u] : r[1] < nextId
  BY <1>2, SameKnown
<1>. QED
  BY <1>1, <1>3, <1>6, <1>8, <1>9, <1>10, <1>11, KeepsKnown

LEMMA ConnectKnown ==
    ASSUME Base, NEW s \in Sessions, Connect(s)
    PROVE  Known' /\ TypeMarks' /\ HistShape'
<1>1. Serves(s)
  BY DEF Serves, Handshake
<1>2. /\ conn' = [conn EXCEPT ![s] = "fetch"] /\ send' = [send EXCEPT ![s] = <<>>]
      /\ marks' = [marks EXCEPT ![UserOf[s]] = {}] /\ UNCHANGED <<hist, window, since>> /\ conn[s] = "off"
  BY DEF Connect, Joins
<1>3. marks \in [Users -> SUBSET ((0..MaxId) \X Users)]
  BY DEF Base, TypeMarks
<1>4. TypeMarks' /\ \A u \in Users : \A r \in marks'[u] : r[1] < nextId
  BY <1>2, <1>3, SameKnown DEF TypeMarks
<1>5. HistShape'
  <2>1. hist[s] = <<>>
    BY <1>2 DEF Base, HistShape, HistOf, Past
  <2>2. conn \in [Sessions -> {"off", "fetch", "rows", "reactions"}]
    BY DEF Base, TypeOK, TypeSession
  <2>. QED
    BY <1>2, <2>1, <2>2, KeepsHist DEF HistShape, Base
<1>6. \A t \in Sessions : send'[t] \in Seq(Fresh) /\ hist'[t] \in Seq(Fresh)
  BY <1>2, SameKnown
<1>7. since' \in [Sessions -> 1..nextId] /\ \A t \in Sessions : \A i \in window'[t] : i < since'[t]
  BY <1>2, SameKnown
<1>. QED
  BY <1>1, <1>4, <1>5, <1>6, <1>7, KeepsKnown

\* A row is replayed as a message or a deletion, with its number or without.
LEMMA AsEventIs ==
    ASSUME TypeOK, Addressed, NEW i \in Present
    PROVE  /\ AsEvent(i) \in Fresh /\ AsEvent(i).id = (IF rows[i].numbered THEN i ELSE 0)
           /\ AsEvent(i).k = (IF rows[i].deleted THEN "delete" ELSE "msg")
           /\ ~rows[i].deleted => AsEvent(i).body = rows[i].body
           /\ i \in Ids /\ i < nextId
<1>1. rows[i] \in Rows /\ i \in Ids /\ i < nextId
  <2>1. rows[i] # NoRow /\ rows[i] \in Rows /\ i \in Ids
    BY DEF Present, TypeOK, TypeTable
  <2>2. i \in Nat /\ nextId \in Nat
    BY <2>1, DeliveryAssumption DEF TypeOK, TypeTable, Ids
  <2>. QED
    BY <2>1, <2>2 DEF Addressed
<1>. DEFINE n == IF rows[i].numbered THEN i ELSE 0
<1>2. n \in 0..MaxId /\ n \in {0, i} /\ n < nextId /\ rows[i].sender \in Users /\ rows[i].to \in People
      /\ rows[i].body \in Nat /\ rows[i].deleted \in BOOLEAN
  BY <1>1, DeliveryAssumption DEF Rows, Ids, TypeOK, TypeTable
<1>. HIDE DEF n
<1>3. CASE rows[i].deleted
  <2>1. AsEvent(i) = Ev("delete", n, 0, rows[i].sender, rows[i].to)
    BY <1>3 DEF AsEvent, n
  <2>2. AsEvent(i) \in Events
    BY <1>2, <2>1, EventType DEF Kinds
  <2>3. AsEvent(i).id = n /\ AsEvent(i).k = "delete"
    BY <2>1 DEF Ev
  <2>4. AsEvent(i) \in Fresh
    BY <1>2, <1>3, <2>2, <2>3 DEF Fresh, Heard, DelTrue
  <2>. QED
    BY <1>1, <1>3, <2>3, <2>4 DEF n
<1>4. CASE ~rows[i].deleted
  <2>1. AsEvent(i) = Ev("msg", n, rows[i].body, rows[i].sender, rows[i].to)
    BY <1>4 DEF AsEvent, n
  <2>2. AsEvent(i) \in Events
    BY <1>2, <2>1, EventType DEF Kinds
  <2>3. AsEvent(i).id = n /\ AsEvent(i).k = "msg" /\ AsEvent(i).body = rows[i].body
    BY <2>1 DEF Ev
  <2>4. AsEvent(i) \in Fresh
    BY <1>2, <2>2, <2>3 DEF Fresh, Heard, DelTrue
  <2>. QED
    BY <1>1, <1>4, <2>3, <2>4 DEF n
<1>. QED
  BY <1>3, <1>4

LEMMA FetchKnown ==
    ASSUME Base, NEW s \in Sessions, Fetch(s)
    PROVE  Known' /\ TypeMarks' /\ HistShape'
<1>. DEFINE got == Recent(UserOf[s])
<1>0. TypeOK /\ Addressed /\ Serves(s)
  BY DEF Base, Serves, Handshake
<1>1. PICK list \in Lists(got) : hist' = [hist EXCEPT ![s] = [n \in DOMAIN list |-> AsEvent(list[n])]]
  BY DEF Fetch
<1>2. /\ conn' = [conn EXCEPT ![s] = "rows"] /\ window' = [window EXCEPT ![s] = got]
      /\ since' = [since EXCEPT ![s] = nextId] /\ UNCHANGED <<send, marks>>
  BY DEF Fetch, client
<1>3. got \subseteq Present /\ IsFiniteSet(got)
  BY RecentIsFinite
<1>4. /\ Cardinality(got) \in Nat /\ DOMAIN list = 1..Cardinality(got) /\ \A n \in DOMAIN list : list[n] \in got
      /\ \A m, n \in DOMAIN list : list[m] = list[n] => m = n
  BY <1>3, ListsFill DEF Lists
<1>5. \A i \in got : /\ AsEvent(i) \in Fresh /\ AsEvent(i).id \in {0, i} /\ AsEvent(i).k \in {"msg", "delete"}
                     /\ i < nextId
  BY <1>0, <1>3, AsEventIs
<1>. HIDE DEF got
<1>. DEFINE L == [n \in DOMAIN list |-> AsEvent(list[n])]
<1>6. /\ L \in Seq(Fresh) /\ Len(L) = Cardinality(got)
      /\ \A n \in 1..Len(L) : L[n] = AsEvent(list[n]) /\ list[n] \in got
  BY <1>4, <1>5
<1>7. \A m, n \in 1..Len(L) : list[m] = list[n] => m = n
  BY <1>4, <1>6
<1>. HIDE DEF L
<1>8. conn'[s] = "rows" /\ hist'[s] = L /\ window'[s] = got /\ since'[s] = nextId
  BY <1>0, <1>1, <1>2, SameKnown DEF TypeOK, TypeSession, L
<1>9. \A t \in Sessions \ {s} : /\ conn'[t] = conn[t] /\ hist'[t] = hist[t] /\ window'[t] = window[t]
                                /\ since'[t] = since[t]
  BY <1>0, <1>1, <1>2 DEF TypeOK, TypeSession
<1>10. HistOf(s)'
  <2>1. \A i \in Ids : Single(L, AboutOf(i))
    <3>1. ASSUME NEW i \in Ids, NEW m \in 1..Len(L), NEW n \in 1..Len(L), L[m] \in AboutOf(i), L[n] \in AboutOf(i)
          PROVE  m = n
      <4>1. i # 0 /\ L[m].id = i /\ L[n].id = i
        BY <3>1 DEF AboutOf, Ids
      <4>2. list[m] = i /\ list[n] = i
        BY <1>5, <1>6, <4>1
      <4>. QED
        BY <1>7, <4>2
    <3>. QED
      BY <3>1 DEF Single
  <2>2. \A n \in 1..Len(L) : L[n].id \in got \cup {0} /\ L[n].k \in {"msg", "delete"}
    BY <1>5, <1>6
  <2>. QED
    BY <1>8, <2>1, <2>2 DEF HistOf, Past
<1>11. HistShape'
  BY <1>9, <1>10, KeepsHist DEF HistShape, Base
<1>12. TypeMarks'
  BY <1>2 DEF Base, TypeMarks
<1>13. \A t \in Sessions : send'[t] \in Seq(Fresh) /\ hist'[t] \in Seq(Fresh)
  BY <1>2, <1>6, <1>8, <1>9, SameKnown
<1>14. since' \in [Sessions -> 1..nextId] /\ \A t \in Sessions : \A i \in window'[t] : i < since'[t]
  <2>1. since' \in [Sessions -> 1..nextId]
    BY <1>2, SameKnown
  <2>. QED
    BY <1>5, <1>8, <1>9, <2>1, SameKnown
<1>15. \A u \in Users : \A r \in marks'[u] : r[1] < nextId
  BY <1>2, SameKnown
<1>. QED
  BY <1>0, <1>11, <1>12, <1>13, <1>14, <1>15, KeepsKnown

LEMMA ReplayKnown ==
    ASSUME Base, NEW s \in Sessions, Replay(s)
    PROVE  Known' /\ TypeMarks' /\ HistShape'
<1>0. TypeOK /\ Serves(s) /\ hist[s] \in Seq(Fresh) /\ hist[s] # <<>> /\ hist[s] \in Seq(Events)
  BY DEF Base, Serves, Handshake, Known, Replay, TypeOK, TypeSession
<1>1. /\ hist' = [hist EXCEPT ![s] = Tail(hist[s])] /\ send' = Put({s}, Head(hist[s]))
      /\ UNCHANGED <<conn, window, since, marks>>
  BY DEF Replay, client
<1>2. Head(hist[s]) \in Fresh /\ Tail(hist[s]) \in Seq(Fresh)
  BY <1>0
<1>3. \A t \in Sessions : send'[t] \in Seq(Fresh) /\ hist'[t] \in Seq(Fresh)
  BY <1>1, <1>2, PutKnown, SameKnown DEF Base
<1>4. hist'[s] = Tail(hist[s]) /\ \A t \in Sessions \ {s} : hist'[t] = hist[t]
  BY <1>0, <1>1 DEF TypeOK, TypeSession
<1>5. HistOf(s)'
  <2>. DEFINE p == Tail(hist[s])
  <2>1. /\ Len(hist[s]) = Len(p) + 1 /\ Len(p) \in Nat
        /\ \A n \in 1..Len(p) : n + 1 \in 1..Len(hist[s]) /\ p[n] = hist[s][n + 1]
    BY <1>0
  <2>2. \A i \in Ids : Single(hist[s], AboutOf(i)) => Single(p, AboutOf(i))
    BY <1>0, TailQueue
  <2>. HIDE DEF p
  <2>3. Past(s) /\ HistOf(s)
    BY DEF Base, HistShape, Replay, Past
  <2>4. hist'[s] = p /\ conn'[s] = conn[s] /\ window'[s] = window[s]
    BY <1>1, <1>4 DEF p
  <2>. QED
    BY <2>1, <2>2, <2>3, <2>4 DEF HistOf, Past
<1>6. HistShape'
  BY <1>1, <1>4, <1>5, KeepsHist DEF HistShape, Base
<1>7. TypeMarks'
  BY <1>1 DEF Base, TypeMarks
<1>. QED
  BY <1>0, <1>1, <1>3, <1>6, <1>7, SameKnown, KeepsKnown

LEMMA LoadReactionsKnown ==
    ASSUME Base, NEW s \in Sessions, LoadReactions(s)
    PROVE  Known' /\ TypeMarks' /\ HistShape'
<1>. DEFINE of == {r \in reactions : r[1] \in window[s]}
<1>0. TypeOK /\ Serves(s)
  BY DEF Base, Serves, Handshake
<1>1. PICK list \in Lists(of) : hist' = [hist EXCEPT ![s] = [n \in DOMAIN list |->
                                    Ev("react", list[n][1], 1, list[n][2], Nobody)]]
  BY DEF LoadReactions
<1>2. conn' = [conn EXCEPT ![s] = "reactions"] /\ UNCHANGED <<send, marks, window, since>>
  BY DEF LoadReactions, client, ghost
<1>3. IsFiniteSet(of) /\ of \subseteq Ids \X Users
  BY <1>0, FS_Subset DEF TypeOK, TypeTable
<1>4. Cardinality(of) \in Nat /\ DOMAIN list = 1..Cardinality(of) /\ \A n \in DOMAIN list : list[n] \in of
  BY <1>3, ListsFill
<1>5. ASSUME NEW r \in of
      PROVE  /\ Ev("react", r[1], 1, r[2], Nobody) \in Fresh
             /\ Ev("react", r[1], 1, r[2], Nobody).id = r[1]
             /\ Ev("react", r[1], 1, r[2], Nobody).k = "react"
             /\ Ev("react", r[1], 1, r[2], Nobody).body = 1
             /\ r[1] \in window[s]
  <2>1. r[1] \in 0..MaxId /\ r[2] \in Users /\ r[1] < nextId
    BY <1>3, DeliveryAssumption DEF Ids, Base, Known
  <2>2. Ev("react", r[1], 1, r[2], Nobody) \in Events
    BY <2>1, EventType DEF Kinds, People
  <2>. QED
    BY <2>1, <2>2 DEF Fresh, Heard, DelTrue, Ev
<1>. HIDE DEF of
<1>. DEFINE L == [n \in DOMAIN list |-> Ev("react", list[n][1], 1, list[n][2], Nobody)]
<1>6. L \in Seq(Fresh)
  BY <1>4, <1>5
<1>7. \A n \in 1..Len(L) : L[n].id \in window[s] /\ L[n].k = "react" /\ L[n].body = 1
  <2>1. Len(L) = Cardinality(of)
    BY <1>4
  <2>2. ASSUME NEW n \in 1..Len(L)
        PROVE  list[n] \in of /\ L[n] = Ev("react", list[n][1], 1, list[n][2], Nobody)
    BY <1>4, <2>1
  <2>. HIDE DEF L
  <2>. QED
    BY <1>5, <2>2
<1>. HIDE DEF L
<1>8. conn'[s] = "reactions" /\ hist'[s] = L /\ window'[s] = window[s]
  BY <1>0, <1>1, <1>2 DEF TypeOK, TypeSession, L
<1>9. \A t \in Sessions \ {s} : conn'[t] = conn[t] /\ hist'[t] = hist[t] /\ window'[t] = window[t]
  BY <1>0, <1>1, <1>2 DEF TypeOK, TypeSession
<1>10. HistOf(s)'
  BY <1>7, <1>8 DEF HistOf, Past
<1>11. HistShape'
  BY <1>9, <1>10, KeepsHist DEF HistShape, Base
<1>12. TypeMarks'
  BY <1>2 DEF Base, TypeMarks
<1>13. \A t \in Sessions : send'[t] \in Seq(Fresh) /\ hist'[t] \in Seq(Fresh)
  BY <1>2, <1>6, <1>8, <1>9, SameKnown
<1>. QED
  BY <1>0, <1>2, <1>11, <1>12, <1>13, SameKnown, KeepsKnown

\* What a client makes of an event that is about reactions, and of one that is not.
LEMMA MergeMarks ==
    ASSUME TypeOK, TypeMarks, NEW u \in Users, NEW e \in Events, Merge(u, e)
    PROVE  /\ e.k # "react" => marks' = marks
           /\ e.k = "react" =>
                 /\ shown' = shown
                 /\ marks' = [marks EXCEPT ![u] = IF e.body = 1 THEN marks[u] \cup {<<e.id, e.who>>}
                                                                ELSE marks[u] \ {<<e.id, e.who>>}]
<1>1. marks' = [marks EXCEPT ![u] = Marks(u, e)] /\ marks \in [Users -> SUBSET ((0..MaxId) \X Users)]
  BY DEF Merge, TypeMarks
<1>2. CASE e.k = "react"
  <2>1. PICK T, new : new \in Shows(T, e) /\ shown' = [shown EXCEPT ![u] = new] /\ T = shown[u]
    BY <1>2, MergeParts
  <2>2. new = shown[u]
    BY <1>2, <2>1 DEF Shows
  <2>3. shown' = shown
    BY <2>1, <2>2 DEF TypeOK, TypeClient
  <2>. QED
    BY <1>1, <1>2, <2>3 DEF Marks
<1>3. CASE e.k # "react"
  BY <1>1, <1>3 DEF Marks
<1>. QED
  BY <1>2, <1>3

LEMMA DeliverKnown ==
    ASSUME Base, NEW s \in Sessions, Deliver(s)
    PROVE  Known' /\ TypeMarks' /\ HistShape'
<1>. DEFINE e == Head(send[s])
            u == UserOf[s]
<1>0. TypeOK /\ TypeMarks /\ Serves(s) /\ send[s] \in Seq(Fresh) /\ send[s] # <<>> /\ u \in Users
  BY DeliveryAssumption DEF Base, Serves, Known, Deliver
<1>1. /\ Merge(u, e) /\ send' = [send EXCEPT ![s] = Tail(send[s])] /\ UNCHANGED <<conn, hist, window, since>>
  BY DEF Deliver, ghost
<1>2. e \in Fresh /\ Tail(send[s]) \in Seq(Fresh)
  BY <1>0
<1>3. e \in Events /\ e.id < nextId /\ e.id \in 0..MaxId /\ e.who \in Users
  BY <1>2 DEF Fresh, Heard, Events
<1>. HIDE DEF e, u
<1>4. TypeMarks' /\ \A v \in Users : \A r \in marks'[v] : r[1] < nextId
  <2>1. \A v \in Users : \A r \in marks[v] : r[1] < nextId
    BY DEF Base, Known
  <2>2. CASE e.k # "react"
    <3>1. marks' = marks
      BY <1>0, <1>1, <1>3, <2>2, MergeMarks
    <3>. QED
      BY <1>0, <2>1, <3>1 DEF TypeMarks
  <2>3. CASE e.k = "react"
    <3>. DEFINE new == IF e.body = 1 THEN marks[u] \cup {<<e.id, e.who>>} ELSE marks[u] \ {<<e.id, e.who>>}
    <3>1. marks' = [marks EXCEPT ![u] = new]
      BY <1>0, <1>1, <1>3, <2>3, MergeMarks
    <3>2. new \subseteq marks[u] \cup {<<e.id, e.who>>} /\ marks[u] \in SUBSET ((0..MaxId) \X Users)
      BY <1>0 DEF TypeMarks
    <3>3. new \in SUBSET ((0..MaxId) \X Users) /\ \A r \in new : r[1] < nextId
      BY <1>0, <1>3, <2>1, <3>2
    <3>. HIDE DEF new
    <3>. QED
      BY <1>0, <2>1, <3>1, <3>3 DEF TypeMarks
  <2>. QED
    BY <2>2, <2>3
<1>5. HistShape'
  BY <1>1 DEF Base, HistShape, HistOf, Past
<1>6. \A t \in Sessions : send'[t] \in Seq(Fresh) /\ hist'[t] \in Seq(Fresh)
  BY <1>1, <1>2, SameKnown
<1>. QED
  BY <1>0, <1>1, <1>4, <1>5, <1>6, SameKnown, KeepsKnown

LEMMA BaseInit == Init => Base
<1>. SUFFICES ASSUME Init PROVE Base
  OBVIOUS
<1>0. TypeOK /\ Addressed
  BY TypeInit, AddressedInit
<1>1. /\ nextId = 1 /\ reactions = {} /\ marks = [u \in Users |-> {}]
      /\ \A s \in Sessions : /\ work[s] = Free /\ conn[s] = "off" /\ hist[s] = <<>> /\ send[s] = <<>>
                             /\ window[s] = {}
      /\ since = [s \in Sessions |-> 1]
  BY DEF Init
<1>2. TypeMarks /\ OneClient /\ Patient /\ WorkShape /\ OneInsert
  BY <1>1 DEF TypeMarks, OneClient, Patient, WorkShape, OneInsert, Live, Doing
<1>3. Known
  <2>1. since \in [Sessions -> 1..nextId] /\ \A s \in Sessions : \A i \in window[s] : i < since[s]
    BY <1>1
  <2>2. \A u \in Users : \A r \in marks[u] : r[1] < nextId
    BY <1>1
  <2>3. \A s \in Sessions : send[s] \in Seq(Fresh) /\ hist[s] \in Seq(Fresh)
    BY DEF Init
  <2>. QED
    BY <1>1, <2>1, <2>2, <2>3 DEF Known
<1>4. HistShape
  BY <1>1 DEF HistShape, HistOf, Past
<1>. QED
  BY <1>0, <1>2, <1>3, <1>4 DEF Base

LEMMA BaseStep == Base /\ [Next]_vars => Base'
<1>. SUFFICES ASSUME Base, [Next]_vars PROVE Base'
  OBVIOUS
<1>0. TypeOK' /\ Addressed'
  BY InvStep DEF Base
<1>1. ASSUME NEW s \in Sessions, Stores(s)
      PROVE  Base'
  BY <1>0, <1>1, StoresWork, StoresKnown DEF Base
<1>2. ASSUME NEW s \in Sessions, Serves(s)
      PROVE  Base'
  <2>1. Known' /\ TypeMarks' /\ HistShape'
    BY <1>2, FanOutKnown, ConnectKnown, FetchKnown, ReplayKnown, LoadReactionsKnown, DeliverKnown
       DEF Serves, Handshake
  <2>2. OneClient' /\ Patient' /\ WorkShape' /\ OneInsert'
    BY <1>2, ServesWork
  <2>. QED
    BY <1>0, <2>1, <2>2 DEF Base
<1>3. CASE UNCHANGED vars
  <2>1. UNCHANGED <<rows, nextId, reactions, work, conn, hist, send, marks, window, since>>
    BY <1>3 DEF vars, table, session, client, ghost
  <2>2. TypeMarks' /\ OneClient' /\ Patient' /\ WorkShape' /\ OneInsert'
    BY <2>1 DEF Base, TypeMarks, OneClient, Patient, WorkShape, OneInsert, Live, Doing, On
  <2>3. Known' /\ HistShape'
    BY <2>1 DEF Base, Known, Fresh, Heard, DelTrue, HistShape, HistOf, Past
  <2>. QED
    BY <1>0, <2>2, <2>3 DEF Base
<1>. QED
  BY <1>1, <1>2, <1>3, NextParts

----------------------------------------------------------------------------
(* What a readPump stores.                                                    *)

LEMMA NothingOf ==
    ASSUME NEW q, NEW K, Nothing(q, K), NEW K1, K1 \subseteq K, NEW V, V \subseteq K1
    PROVE  Nothing(q, K1) /\ ~Ends(q, K1, V) /\ Single(q, K1)
BY DEF Nothing, Ends, Single

\* Of a number that is not given yet there is nothing.
LEMMA Unheard ==
    ASSUME Base, NEW s \in Sessions, NEW i \in Ids, ~(i < nextId)
    PROVE  /\ Nothing(send[s], AboutOf(i)) /\ Nothing(hist[s], AboutOf(i)) /\ Copy(s, i) = <<>>
           /\ \A w : ~Marked(s, i, w) /\ <<i, w>> \notin reactions
           /\ \A k : Nowhere(k, i)
           /\ rows[i] = NoRow
<1>1. \A e \in Fresh : e \notin AboutOf(i)
  BY DEF Fresh, Heard, AboutOf
<1>2. send[s] \in Seq(Fresh) /\ hist[s] \in Seq(Fresh)
  BY DEF Base, Known
<1>3. Nothing(send[s], AboutOf(i)) /\ Nothing(hist[s], AboutOf(i))
  BY <1>1, <1>2 DEF Nothing
<1>4. UserOf[s] \in Users /\ i \in Nat /\ nextId \in Nat
  BY DeliveryAssumption DEF Base, TypeOK, TypeTable, Ids
<1>5. Copy(s, i) = <<>>
  BY <1>4 DEF Base, Addressed, MayKnow, Copy
<1>6. \A w : ~Marked(s, i, w) /\ <<i, w>> \notin reactions
  BY <1>4 DEF Base, Known, Marked
<1>7. \A k : Nowhere(k, i)
  BY DEF Base, Known, Fresh, Heard, Nowhere, Doing
<1>8. rows[i] = NoRow
  BY <1>4 DEF Base, Addressed
<1>. QED
  BY <1>3, <1>5, <1>6, <1>7, <1>8

LEMMA UnheardOf ==
    ASSUME Base, NEW s \in Sessions, NEW i \in Ids, ~(i < nextId),
           NEW K, K \subseteq AboutOf(i), NEW V, V \subseteq K
    PROVE  /\ Nothing(send[s], K) /\ ~Ends(send[s], K, V) /\ Single(send[s], K)
           /\ Nothing(hist[s], K)
<1>1. Nothing(send[s], AboutOf(i)) /\ Nothing(hist[s], AboutOf(i))
  BY Unheard
<1>. QED
  BY <1>1, NothingOf

\* Work on another message.
LEMMA StoresElsewhere ==
    ASSUME Base, NEW s0 \in Sessions, Stores(s0), NEW s \in Sessions, NEW i \in Ids, SameMarks(i),
           work[s0] # Free /\ work[s0].ev.id = i => work'[s0] # Free /\ work'[s0].ev = work[s0].ev,
           work'[s0] # Free /\ work'[s0].ev.id = i /\ work'[s0].ev.k # "note" =>
              work[s0] # Free /\ work'[s0].ev = work[s0].ev,
           rows'[i] # NoRow =>
              /\ rows[i] # NoRow /\ rows'[i].body = rows[i].body /\ rows'[i].deleted = rows[i].deleted
              /\ rows'[i].sender = rows[i].sender /\ rows'[i].to = rows[i].to
    PROVE  Elsewhere(s, i)
<1>1. /\ UNCHANGED <<conn, hist, send, shown, marks, window, since>>
      /\ \A t \in Sessions \ {s0} : work'[t] = work[t]
  BY StoresFrame DEF Base
<1>2. ASSUME NEW k \in Kinds \ {"note"}
      PROVE  SameDoing(k, i)
  BY <1>1 DEF SameDoing, Doing
<1>3. SameStage(s) /\ SameBuffers(s, AboutOf(i)) /\ Copy(s, i)' = Copy(s, i)
      /\ \A w \in Users : Marked(s, i, w)' <=> Marked(s, i, w)
  BY <1>1 DEF SameStage, SameBuffers, Beside, Copy, Marked
<1>. QED
  BY <1>2, <1>3 DEF Elsewhere

LEMMA PassesRight ==
    ASSUME Base, NEW s0 \in Sessions, Passes(s0), NEW s \in Sessions, NEW i \in Ids, Right(s, i)
    PROVE  Right(s, i)'
<1>0. TypeOK /\ Addressed /\ WorkShape
  BY DEF Base
<1>1. Stores(s0)
  BY DEF Passes, Stores, Dispatch
<1>2. /\ work'[s0] # Free
      /\ \/ work[s0] # Free /\ work'[s0].ev = work[s0].ev
         \/ work[s0] = Free /\ work'[s0].ev.id = 0
         \/ work[s0] = Free /\ work'[s0].ev.k = "note"
  BY <1>0, PassesEvent
<1>3. reactions' = reactions
  BY DEF Passes, ReadText, PinRead, ClearMessages, ReadTyping, ReadReceipt, ReadFile, Search, Say, InsertFails,
     Number, Retain, PinWrite, table
<1>4. rows'[i] # NoRow =>
         /\ rows[i] # NoRow /\ rows'[i].body = rows[i].body /\ rows'[i].deleted = rows[i].deleted
         /\ rows'[i].sender = rows[i].sender /\ rows'[i].to = rows[i].to
  <2>0. rows \in [Ids -> Rows \cup {NoRow}]
    BY <1>0 DEF TypeOK, TypeTable
  <2>1. CASE Number(s0)
    <3>. DEFINE j == work[s0].ev.id
    <3>1. rows' \in {rows, [rows EXCEPT ![j] = IF @ = NoRow THEN @ ELSE [@ EXCEPT !.numbered = TRUE]]}
      BY <2>1 DEF Number
    <3>2. CASE rows[i] = NoRow
      BY <2>0, <3>1, <3>2
    <3>3. CASE rows[i] # NoRow
      <4>1. rows[i] \in Rows
        BY <2>0, <3>3
      <4>2. rows'[i] \in {rows[i], [rows[i] EXCEPT !.numbered = TRUE]}
        BY <2>0, <3>1, <3>3
      <4>. QED
        BY <3>3, <4>1, <4>2 DEF Rows
    <3>. QED
      BY <3>2, <3>3
  <2>2. CASE Retain(s0) \/ ClearMessages(s0)
    <3>1. rows'[i] \in {rows[i], NoRow}
      BY <2>2 DEF Retain, ClearMessages
    <3>. QED
      BY <3>1
  <2>3. CASE ~Number(s0) /\ ~Retain(s0) /\ ~ClearMessages(s0)
    <3>1. rows' = rows
      BY <2>3 DEF Passes, ReadText, PinRead, ReadTyping, ReadReceipt, ReadFile, Search, Say, InsertFails,
         PinWrite, table
    <3>. QED
      BY <3>1
  <2>. QED
    BY <2>1, <2>2, <2>3
<1>5. Elsewhere(s, i)
  <2>1. SameMarks(i) /\ i # 0
    BY <1>3 DEF SameMarks, Ids
  <2>. QED
    BY <1>1, <1>2, <1>4, <2>1, StoresElsewhere
<1>. QED
  BY <1>0, <1>5, ElsewhereRight

LEMMA InsertRight ==
    ASSUME Base, NEW s0 \in Sessions, Insert(s0), NEW s \in Sessions, NEW i \in Ids, Right(s, i)
    PROVE  Right(s, i)'
<1>0. TypeOK /\ Addressed /\ WorkShape /\ Stores(s0)
  BY DEF Base, Stores
<1>1. /\ work'[s0] # Free /\ work'[s0].ev.k = "msg" /\ work'[s0].ev.id = nextId /\ work'[s0].ev.body = 0
      /\ work[s0] # Free /\ work[s0].ev.id = 0
      /\ nextId \in Ids /\ rows'[nextId].body = 0
      /\ ~rows'[nextId].deleted /\ \A j \in Ids \ {nextId} : rows'[j] = rows[j]
  BY <1>0, InsertEvent
<1>2. reactions' = reactions
  BY DEF Insert
<1>3. /\ UNCHANGED <<conn, hist, send, shown, marks, window, since>>
      /\ \A t \in Sessions \ {s0} : work'[t] = work[t]
  BY <1>0, StoresFrame
<1>4. CASE i # nextId
  <2>1. Elsewhere(s, i)
    <3>1. SameMarks(i) /\ i # 0 /\ rows'[i] = rows[i]
      BY <1>1, <1>2, <1>4 DEF SameMarks, Ids
    <3>. QED
      BY <1>0, <1>1, <1>4, <3>1, StoresElsewhere
  <2>. QED
    BY <1>0, <2>1, ElsewhereRight
<1>5. CASE i = nextId
  <2>0. ~(i < nextId)
    BY <1>0, <1>5 DEF TypeOK, TypeTable
  <2>1. /\ Copy(s, i) = <<>> /\ (\A w : ~Marked(s, i, w) /\ <<i, w>> \notin reactions)
        /\ \A k : Nowhere(k, i)
    BY <2>0, Unheard
  <2>2. /\ Nothing(send[s], MsgOf(i)) /\ Single(send[s], MsgOf(i)) /\ Nothing(hist[s], MsgOf(i))
        /\ \A b : Nothing(hist[s], MsgOf(i) \ TextAs(i, b))
        /\ \A w : /\ Nothing(hist[s], MarkOf(i, w)) /\ ~Ends(send[s], MarkOf(i, w), MarkAs(i, w))
    <3>1. MsgOf(i) \subseteq AboutOf(i)
      BY Sets
    <3>2. Nothing(send[s], MsgOf(i)) /\ Single(send[s], MsgOf(i)) /\ Nothing(hist[s], MsgOf(i))
      BY <2>0, <3>1, UnheardOf
    <3>3. ASSUME NEW w
          PROVE  Nothing(hist[s], MarkOf(i, w)) /\ ~Ends(send[s], MarkOf(i, w), MarkAs(i, w))
      <4>1. MarkOf(i, w) \subseteq AboutOf(i) /\ MarkAs(i, w) \subseteq MarkOf(i, w)
        BY Sets
      <4>. QED
        BY <2>0, <4>1, UnheardOf
    <3>4. \A b : Nothing(hist[s], MsgOf(i) \ TextAs(i, b))
      BY <3>2 DEF Nothing
    <3>. QED
      BY <3>2, <3>3, <3>4
  <2>3. \A t \in Sessions : \A k : Doing(t, k, i)' => t = s0 /\ k = "msg"
    BY <1>1, <1>3, <2>1 DEF Nowhere, Doing
  <2>4. Doing(s0, "msg", i)'
    BY <1>1, <1>5 DEF Doing
  <2>5. ReactsRight(i)'
    BY <2>3 DEF ReactsRight
  <2>6. MarksRight(s, i)'
    <3>. SUFFICES ASSUME NEW w \in Users PROVE MarkRight(s, i, w)'
      BY DEF MarksRight
    <3>1. ~MarkComes(s, i, w)'
      BY <1>3, <2>1, <2>2 DEF MarkComes, Marked
    <3>. QED
      BY <1>2, <1>3, <2>1, <2>2, <3>1 DEF MarkRight
  <2>7. Early(s, i)'
    BY <1>3, <2>1, <2>2 DEF Early, Copy
  <2>8. Counted(s, i)'
    <3>1. Copy(s, i)' = <<>> /\ Len(<<>>) = 0
      BY <1>3, <2>1 DEF Copy
    <3>. QED
      BY <1>3, <2>2, <3>1 DEF Counted
  <2>9. Alone(i)'
    BY <2>3 DEF Alone, Nowhere
  <2>10. BodyRight(s, i)'
    <3>1. \A t \in Sessions : (Doing(t, "edit", i) \/ Doing(t, "msg", i))' => work'[t].ev.body = rows'[i].body
      BY <1>1, <1>5, <2>3
    <3>2. Copy(s, i)' = <<>>
      BY <1>3, <2>1 DEF Copy
    <3>. QED
      BY <1>3, <2>2, <3>1, <3>2 DEF BodyRight
  <2>11. LifeRight(s, i)'
    BY <1>1, <1>5, <2>4 DEF LifeRight, Nowhere
  <2>. QED
    BY <2>5, <2>6, <2>7, <2>8, <2>9, <2>10, <2>11 DEF Right, Followed
<1>. QED
  BY <1>4, <1>5

\* Whoever is connected and undisturbed by an operation knows of no other one.
LEMMA StoreAlone ==
    ASSUME NEW s0 \in Sessions, NEW i \in Ids, work[s0] = Free, Store(s0, i), NEW s \in Live,
           Undisturbed(s, i)'
    PROVE  \A k : Nowhere(k, i)
<1>1. ~Pending(i, s0)
  BY DEF Store, Undisturbed, Live
<1>. QED
  BY <1>1 DEF Pending, Nowhere, Doing

LEMMA OperatesElsewhere ==
    ASSUME Base, NEW s0 \in Sessions, Stores(s0), NEW j \in Ids, Operates(s0, j),
           NEW s \in Sessions, NEW i \in Ids \ {j}, SameMarks(i), rows'[i] = rows[i], Right(s, i)
    PROVE  Right(s, i)'
<1>1. Elsewhere(s, i)
  BY StoresElsewhere DEF Operates
<1>. QED
  BY <1>1, ElsewhereRight DEF Base

\* What an operation on i leaves alone.
LEMMA OperatesFrame ==
    ASSUME Base, NEW s0 \in Sessions, Stores(s0), NEW i \in Ids, Operates(s0, i),
           \A k : Nowhere(k, i), NEW s \in Sessions
    PROVE  /\ \A t \in Sessions : \A k : Doing(t, k, i)' <=> t = s0 /\ k = work'[s0].ev.k
           /\ \A k : k # work'[s0].ev.k => SameDoing(k, i)
           /\ SameStage(s) /\ (\A K : SameBuffers(s, K)) /\ Copy(s, i)' = Copy(s, i)
           /\ \A w \in Users : Marked(s, i, w)' <=> Marked(s, i, w)
           /\ (Early(s, i) => Early(s, i)')
           /\ conn'[s] = conn[s] /\ (Past(s)' <=> Past(s)) /\ Covered(s)' = Covered(s)
<1>1. /\ UNCHANGED <<conn, hist, send, shown, marks, window, since>>
      /\ \A t \in Sessions \ {s0} : work'[t] = work[t]
  BY StoresFrame DEF Base
<1>2. \A t \in Sessions : \A k : Doing(t, k, i)' <=> t = s0 /\ k = work'[s0].ev.k
  BY <1>1 DEF Operates, Nowhere, Doing
<1>3. \A k : k # work'[s0].ev.k => SameDoing(k, i)
  BY <1>2 DEF SameDoing, Nowhere
<1>4. /\ SameStage(s) /\ (\A K : SameBuffers(s, K)) /\ Copy(s, i)' = Copy(s, i)
      /\ \A w \in Users : Marked(s, i, w)' <=> Marked(s, i, w)
  BY <1>1 DEF SameStage, SameBuffers, Beside, Copy, Marked
<1>5. Early(s, i) => Early(s, i)'
  BY <1>1 DEF Early, Copy
<1>6. conn'[s] = conn[s] /\ (Past(s)' <=> Past(s)) /\ Covered(s)' = Covered(s)
  BY <1>1 DEF Past, Covered
<1>. QED
  BY <1>2, <1>3, <1>4, <1>5, <1>6

LEMMA EditRight ==
    ASSUME Base, NEW s0 \in Sessions, NEW j \in Ids, Edit(s0, j), NEW s \in Live, NEW i \in Ids,
           Undisturbed(s, i)', Right(s, i)
    PROVE  Right(s, i)'
<1>0. TypeOK /\ Addressed /\ s \in Sessions /\ Stores(s0)
  BY DEF Base, Live, Stores, Dispatch
<1>1. /\ Operates(s0, j) /\ work'[s0].ev.k = "edit" /\ work'[s0].ev.body = rows'[j].body
      /\ UNCHANGED <<nextId, reactions>>
      /\ rows' = [rows EXCEPT ![j] = rows'[j]] /\ rows'[j] = [rows[j] EXCEPT !.body = @ + 1]
  BY <1>0, EditEvent
<1>2. SameMarks(i)
  BY <1>1 DEF SameMarks
<1>3. CASE i # j
  <2>1. rows'[i] = rows[i]
    BY <1>0, <1>1, <1>3 DEF TypeOK, TypeTable
  <2>. QED
    BY <1>0, <1>1, <1>2, <1>3, <2>1, OperatesElsewhere
<1>4. CASE i = j
  <2>1. \A k : Nowhere(k, i)
    BY <1>4, StoreAlone DEF Edit, Operate, Listening
  <2>2. /\ \A t \in Sessions : \A k : Doing(t, k, i)' <=> t = s0 /\ k = "edit"
        /\ SameDoing("react", i) /\ SameDoing("msg", i) /\ SameDoing("delete", i)
        /\ SameStage(s) /\ (\A K : SameBuffers(s, K)) /\ Copy(s, i)' = Copy(s, i)
        /\ \A w \in Users : Marked(s, i, w)' <=> Marked(s, i, w)
        /\ (Early(s, i) => Early(s, i)')
        /\ conn'[s] = conn[s] /\ (Past(s)' <=> Past(s)) /\ Covered(s)' = Covered(s)
    BY <1>0, <1>1, <1>4, <2>1, OperatesFrame
  <2>3. /\ rows[i] # NoRow /\ rows'[i].deleted = rows[i].deleted /\ rows'[i].sender = rows[i].sender
        /\ rows'[i].to = rows[i].to
    <3>1. rows[i] \in Rows /\ rows[i] # NoRow
      BY <1>0, <1>4, ByIdKnown DEF Edit, ById, Present
    <3>. QED
      BY <1>1, <1>4, <3>1 DEF Rows
  <2>4. ReactsRight(i)'
    BY <1>0, <1>2, <2>2, KeepReacts DEF Right
  <2>5. MarksRight(s, i) => MarksRight(s, i)'
    BY <1>0, <1>2, <2>2, KeepMarks
  <2>6. Followed(s, i) => Followed(s, i)'
    <3>. SUFFICES ASSUME Followed(s, i) PROVE Followed(s, i)'
      OBVIOUS
    <3>1. Counted(s, i)'
      <4>1. Nowhere("msg", i)' <=> Nowhere("msg", i)
        BY <2>2 DEF SameDoing, Nowhere
      <4>. QED
        BY <1>0, <2>2, <4>1, KeepCounted DEF Followed
    <3>2. Alone(i)'
      BY <2>2 DEF Alone, Nowhere
    <3>3. BodyRight(s, i)'
      <4>1. \A t \in Sessions : (Doing(t, "edit", i) \/ Doing(t, "msg", i))' => work'[t].ev.body = rows'[i].body
        BY <1>1, <1>4, <2>2
      <4>2. ~Nowhere("edit", i)'
        BY <2>2 DEF Nowhere
      <4>. QED
        BY <4>1, <4>2 DEF BodyRight
    <3>4. i \in Visible(UserOf[s])' => LifeRight(s, i)'
      <4>1. i \in Visible(UserOf[s])' => i \in Visible(UserOf[s])
        BY <2>3 DEF Visible, Present
      <4>. QED
        BY <1>0, <2>2, <2>3, <4>1, KeepLife DEF Followed
    <3>. QED
      BY <3>1, <3>2, <3>3, <3>4 DEF Followed
  <2>. QED
    BY <2>2, <2>4, <2>5, <2>6 DEF Right
<1>. QED
  BY <1>3, <1>4

LEMMA DeleteRight ==
    ASSUME Base, NEW s0 \in Sessions, NEW j \in Ids, Delete(s0, j), NEW s \in Live, NEW i \in Ids,
           Undisturbed(s, i)', Right(s, i)
    PROVE  Right(s, i)'
<1>0. TypeOK /\ Addressed /\ s \in Sessions /\ Stores(s0)
  BY DEF Base, Live, Stores, Dispatch
<1>1. /\ Operates(s0, j) /\ work'[s0].ev.k = "delete"
      /\ UNCHANGED <<nextId, reactions>>
      /\ rows' = [rows EXCEPT ![j] = rows'[j]] /\ rows'[j] = [rows[j] EXCEPT !.deleted = TRUE]
  BY <1>0, DeleteEvent
<1>2. SameMarks(i)
  BY <1>1 DEF SameMarks
<1>3. CASE i # j
  <2>1. rows'[i] = rows[i]
    BY <1>0, <1>1, <1>3 DEF TypeOK, TypeTable
  <2>. QED
    BY <1>0, <1>1, <1>2, <1>3, <2>1, OperatesElsewhere
<1>4. CASE i = j
  <2>1. \A k : Nowhere(k, i)
    BY <1>4, StoreAlone DEF Delete, Operate, Listening
  <2>2. /\ \A t \in Sessions : \A k : Doing(t, k, i)' <=> t = s0 /\ k = "delete"
        /\ SameDoing("react", i) /\ SameDoing("msg", i) /\ SameDoing("edit", i)
        /\ SameStage(s) /\ (\A K : SameBuffers(s, K)) /\ Copy(s, i)' = Copy(s, i)
        /\ \A w \in Users : Marked(s, i, w)' <=> Marked(s, i, w)
        /\ (Early(s, i) => Early(s, i)')
        /\ conn'[s] = conn[s] /\ (Past(s)' <=> Past(s)) /\ Covered(s)' = Covered(s)
    BY <1>0, <1>1, <1>4, <2>1, OperatesFrame
  <2>3. rows[i] # NoRow /\ rows'[i].body = rows[i].body
    <3>1. rows[i] \in Rows /\ rows[i] # NoRow
      BY <1>0, <1>4, ByIdKnown DEF Delete, ById, Present
    <3>. QED
      BY <1>1, <1>4, <3>1 DEF Rows
  <2>4. ReactsRight(i)'
    BY <1>0, <1>2, <2>2, KeepReacts DEF Right
  <2>5. MarksRight(s, i) => MarksRight(s, i)'
    BY <1>0, <1>2, <2>2, KeepMarks
  <2>6. Followed(s, i) => Followed(s, i)'
    <3>. SUFFICES ASSUME Followed(s, i) PROVE Followed(s, i)'
      OBVIOUS
    <3>1. Counted(s, i)'
      <4>1. Nowhere("msg", i)' <=> Nowhere("msg", i)
        BY <2>2 DEF SameDoing, Nowhere
      <4>. QED
        BY <1>0, <2>2, <4>1, KeepCounted DEF Followed
    <3>2. Alone(i)'
      BY <2>2 DEF Alone, Nowhere
    <3>3. BodyRight(s, i)'
      BY <1>0, <2>2, <2>3, KeepBody DEF Followed, Present
    <3>4. LifeRight(s, i)'
      BY <2>2 DEF LifeRight, Nowhere
    <3>. QED
      BY <3>1, <3>2, <3>3, <3>4 DEF Followed
  <2>. QED
    BY <2>2, <2>4, <2>5, <2>6 DEF Right
<1>. QED
  BY <1>3, <1>4

LEMMA ReactRight ==
    ASSUME Base, NEW s0 \in Sessions, NEW j \in Ids, NEW on \in 0..1, React(s0, j, on), NEW s \in Live,
           NEW i \in Ids, Undisturbed(s, i)', Right(s, i)
    PROVE  Right(s, i)'
<1>0. TypeOK /\ Addressed /\ s \in Sessions /\ Stores(s0)
  BY DEF Base, Live, Stores, Dispatch
<1>1. /\ Operates(s0, j) /\ work'[s0].ev.k = "react" /\ work'[s0].ev.body = on
      /\ work'[s0].ev.who = UserOf[s0] /\ rows' = rows
  BY <1>0, ReactEvent
<1>2. reactions' = IF on = 1 THEN reactions \cup {<<j, UserOf[s0]>>} ELSE reactions \ {<<j, UserOf[s0]>>}
  BY DEF React
<1>3. CASE i # j
  <2>1. SameMarks(i)
    BY <1>2, <1>3 DEF SameMarks
  <2>. QED
    BY <1>0, <1>1, <1>3, <2>1, OperatesElsewhere
<1>4. CASE i = j
  <2>1. \A k : Nowhere(k, i)
    BY <1>4, StoreAlone DEF React, Operate, Listening
  <2>2. /\ \A t \in Sessions : \A k : Doing(t, k, i)' <=> t = s0 /\ k = "react"
        /\ SameDoing("edit", i) /\ SameDoing("msg", i) /\ SameDoing("delete", i)
        /\ SameStage(s) /\ (\A K : SameBuffers(s, K)) /\ Copy(s, i)' = Copy(s, i)
        /\ \A w \in Users : Marked(s, i, w)' <=> Marked(s, i, w)
        /\ (Early(s, i) => Early(s, i)')
        /\ conn'[s] = conn[s] /\ (Past(s)' <=> Past(s)) /\ Covered(s)' = Covered(s)
    BY <1>0, <1>1, <1>4, <2>1, OperatesFrame
  <2>3. on = 1 <=> <<i, UserOf[s0]>> \in reactions'
    BY <1>2, <1>4
  <2>4. ReactsRight(i)'
    BY <1>1, <2>2, <2>3 DEF ReactsRight
  <2>5. MarksRight(s, i) => MarksRight(s, i)'
    <3>. SUFFICES ASSUME MarksRight(s, i), NEW w \in Users,
                         (\A t \in Sessions : Doing(t, "react", i) => work[t].ev.who # w)'
                  PROVE  MarkRight(s, i, w)'
      BY DEF MarksRight, MarkRight
    <3>1. w # UserOf[s0]
      BY <1>1, <2>2
    <3>2. <<i, w>> \in reactions' <=> <<i, w>> \in reactions
      BY <1>2, <3>1
    <3>3. MarkRight(s, i, w) /\ (\A t \in Sessions : Doing(t, "react", i) => work[t].ev.who # w)
      BY <2>1 DEF MarksRight, Nowhere
    <3>4. UNCHANGED <<conn, hist, send, shown, marks, window, since>>
      BY <1>0, StoresFrame
    <3>5. MarkComes(s, i, w)' <=> MarkComes(s, i, w)
      BY <3>4 DEF MarkComes, Marked
    <3>. QED
      BY <3>2, <3>3, <3>4, <3>5 DEF MarkRight
  <2>6. Followed(s, i) => Followed(s, i)'
    <3>. SUFFICES ASSUME Followed(s, i) PROVE Followed(s, i)'
      OBVIOUS
    <3>1. Counted(s, i)'
      <4>1. Nowhere("msg", i)' <=> Nowhere("msg", i)
        BY <2>2 DEF SameDoing, Nowhere
      <4>. QED
        BY <1>0, <2>2, <4>1, KeepCounted DEF Followed
    <3>2. Alone(i)'
      BY <2>2 DEF Alone, Nowhere
    <3>3. i \in Present' => BodyRight(s, i)'
      <4>1. Present' = Present
        BY <1>1 DEF Present
      <4>. QED
        BY <1>0, <1>1, <2>2, <4>1, KeepBody DEF Followed
    <3>4. i \in Visible(UserOf[s])' => LifeRight(s, i)'
      <4>1. i \in Visible(UserOf[s])' => i \in Visible(UserOf[s])
        BY <1>1 DEF Visible, Present
      <4>. QED
        BY <1>0, <1>1, <2>2, <4>1, KeepLife DEF Followed
    <3>. QED
      BY <3>1, <3>2, <3>3, <3>4 DEF Followed
  <2>. QED
    BY <2>2, <2>4, <2>5, <2>6 DEF Right
<1>. QED
  BY <1>3, <1>4

\* A reaction that was not stored disturbs everybody who is connected.
LEMMA UnstoredRight ==
    ASSUME Base, NEW s0 \in Sessions, NEW j \in Ids, NEW on \in 0..1, ReactUnstored(s0, j, on),
           NEW s \in Live, NEW i \in Ids, Undisturbed(s, i)', Right(s, i)
    PROVE  Right(s, i)'
<1>0. TypeOK /\ Addressed /\ s \in Sessions /\ Stores(s0)
  BY DEF Base, Live, Stores, Dispatch
<1>1. /\ Operates(s0, j) /\ work'[s0].ev.k = "react" /\ work'[s0].ev.body = on
      /\ work'[s0].ev.who = UserOf[s0] /\ rows' = rows
  BY <1>0, ReactEvent
<1>2. i # j
  BY DEF ReactUnstored, Undisturbed
<1>3. SameMarks(i)
  BY DEF ReactUnstored, SameMarks, table
<1>. QED
  BY <1>0, <1>1, <1>2, <1>3, OperatesElsewhere

LEMMA StoresRight ==
    ASSUME Base, AllRight, NEW s0 \in Sessions, Stores(s0)
    PROVE  AllRight'
<1>1. UNCHANGED conn /\ disturbed \subseteq disturbed'
  BY StoresFrame DEF Base
<1>2. ASSUME NEW s \in Live, NEW i \in Ids, Undisturbed(s, i)'
      PROVE  Right(s, i)'
  <2>1. Right(s, i) /\ s \in Sessions
    BY <1>1, <1>2 DEF AllRight, Undisturbed, Live
  <2>. QED
    BY <1>2, <2>1, StoresParts, PassesRight, InsertRight, EditRight, DeleteRight, ReactRight,
       UnstoredRight
<1>. QED
  BY <1>1, <1>2 DEF AllRight, Live

----------------------------------------------------------------------------
(* What the hub fans out.                                                     *)

LEMMA ServesElsewhere ==
    ASSUME Base, UNCHANGED table, NEW s \in Sessions, NEW i \in Ids,
           \A t \in Sessions : \/ work'[t] = work[t]
                               \/ work'[t] = Free /\ (work[t] # Free => work[t].ev \notin AboutOf(i)),
           SameStage(s), SameBuffers(s, AboutOf(i)), Copy(s, i)' = Copy(s, i),
           \A w \in Users : Marked(s, i, w)' <=> Marked(s, i, w), Right(s, i)
    PROVE  Right(s, i)'
<1>1. \A t \in Sessions : work[t] # Free => work[t].ev \in Events
  BY DEF Base, TypeOK, TypeWork, Works
<1>2. ASSUME NEW k \in Kinds \ {"note"}
      PROVE  SameDoing(k, i)
  <2>1. ASSUME NEW t \in Sessions, Doing(t, k, i)
        PROVE  work'[t] = work[t]
    BY <1>1, <2>1 DEF Doing, AboutOf
  <2>2. \A t \in Sessions : Doing(t, k, i)' => work'[t] = work[t]
    BY DEF Doing
  <2>. QED
    BY <2>1, <2>2 DEF SameDoing, Doing
<1>3. SameMarks(i) /\ rows' = rows
  BY DEF SameMarks, table
<1>4. Elsewhere(s, i)
  BY <1>2, <1>3 DEF Elsewhere
<1>. QED
  BY <1>4, ElsewhereRight DEF Base

\* The replay to s is over, or has nothing of i.
LEMMA NotOvertaken ==
    ASSUME Base, NEW s \in Live, NEW e, NEW i \in Ids, e.id = i, <<UserOf[s], i>> \notin Overtakes(e)
    PROVE  /\ conn[s] = "fetch" => e.k # "msg"
           /\ Past(s) /\ i \in Covered(s) =>
                 /\ Nothing(hist[s], AboutOf(i))
                 /\ ~(conn[s] = "fetch" \/ (conn[s] = "rows" /\ i \in window[s]))
<1>1. s \in Sessions
  BY DEF Live
<1>2. /\ ~(conn[s] # "fetch" /\ ~On(s) /\ i \in window[s])
      /\ ~(conn[s] = "fetch" /\ e.k = "msg")
  BY DEF Overtakes
<1>3. ASSUME Past(s), i \in window[s]
      PROVE  hist[s] = <<>> /\ conn[s] = "reactions"
  BY <1>2, <1>3 DEF Past, On
<1>4. ASSUME i \notin window[s]
      PROVE  Nothing(hist[s], AboutOf(i))
  BY <1>1, <1>4 DEF Base, HistShape, HistOf, Nothing, AboutOf, Ids
<1>5. hist[s] = <<>> => Nothing(hist[s], AboutOf(i))
  BY DEF Nothing
<1>. QED
  BY <1>2, <1>3, <1>4, <1>5 DEF Past

\* The hub takes what s0 has stored about i.
Takes(s0, s, i) ==
    /\ work[s0] # Free /\ work[s0].ev \in AboutOf(i)
    /\ work'[s0] = Free /\ \A t \in Sessions \ {s0} : work'[t] = work[t]
    /\ UNCHANGED table
    /\ SameStage(s) /\ hist'[s] = hist[s] /\ Copy(s, i)' = Copy(s, i)
    /\ \A w \in Users : Marked(s, i, w)' <=> Marked(s, i, w)
    /\ <<UserOf[s], i>> \notin Overtakes(work[s0].ev)

LEMMA TakesFrame ==
    ASSUME Base, NEW s0 \in Sessions, NEW s \in Live, NEW i \in Ids, Takes(s0, s, i), Right(s, i)
    PROVE  /\ s \in Sessions /\ work[s0].ev \in Events /\ work[s0].ev.id = i
           /\ work[s0].ev.k \in {"msg", "edit", "delete", "react"}
           /\ \A t \in Sessions : \A k : Doing(t, k, i)' <=> t # s0 /\ Doing(t, k, i)
           /\ \A k : Doing(s0, k, i) <=> k = work[s0].ev.k
           /\ \A k : k # work[s0].ev.k => SameDoing(k, i)
           /\ ReactsRight(i)' /\ SameMarks(i)
           /\ rows' = rows /\ Present' = Present /\ Visible(UserOf[s])' = Visible(UserOf[s])
           /\ conn'[s] = conn[s] /\ (Past(s)' <=> Past(s)) /\ Covered(s)' = Covered(s)
<1>1. /\ s \in Sessions /\ work[s0].ev \in Events /\ work[s0].ev.id = i
      /\ work[s0].ev.k \in {"msg", "edit", "delete", "react"}
  BY DEF Live, Takes, AboutOf, Events, Kinds
<1>2. /\ \A t \in Sessions : \A k : Doing(t, k, i)' <=> t # s0 /\ Doing(t, k, i)
      /\ \A k : Doing(s0, k, i) <=> k = work[s0].ev.k
  BY <1>1 DEF Takes, Doing
<1>3. \A k : k # work[s0].ev.k => SameDoing(k, i)
  BY <1>2 DEF Takes, SameDoing
<1>4. rows' = rows /\ reactions' = reactions
  BY DEF Takes, table
<1>5. ReactsRight(i)'
  <2>1. ReactsRight(i)
    BY DEF Right
  <2>2. \A t \in Sessions : Doing(t, "react", i)' => Doing(t, "react", i) /\ work'[t] = work[t]
    BY <1>2 DEF Takes
  <2>. QED
    BY <1>4, <2>1, <2>2 DEF ReactsRight
<1>6. SameMarks(i) /\ Present' = Present /\ Visible(UserOf[s])' = Visible(UserOf[s])
  BY <1>4 DEF SameMarks, Present, Visible
<1>7. conn'[s] = conn[s] /\ (Past(s)' <=> Past(s)) /\ Covered(s)' = Covered(s)
  BY DEF Takes, SameStage, Past, Covered
<1>. QED
  BY <1>1, <1>2, <1>3, <1>4, <1>5, <1>6, <1>7

LEMMA TakesMessage ==
    ASSUME Base, NEW s0 \in Sessions, NEW s \in Live, NEW i \in Ids, Takes(s0, s, i), Right(s, i),
           work[s0].ev.k = "msg",
           \/ send'[s] = Append(send[s], work[s0].ev)
           \/ send'[s] = send[s] /\ i \notin Visible(UserOf[s])
    PROVE  Right(s, i)'
<1>. DEFINE e == work[s0].ev
<1>0. TypeOK /\ s \in Sessions /\ send[s] \in Seq(Events) /\ e \in Events /\ e.id = i
  BY TakesFrame DEF Base, TypeOK, TypeSession
<1>1. /\ \A t \in Sessions : \A k : Doing(t, k, i)' <=> t # s0 /\ Doing(t, k, i)
      /\ \A k : Doing(s0, k, i) <=> k = e.k
      /\ SameDoing("react", i) /\ SameDoing("edit", i) /\ SameDoing("delete", i)
      /\ ReactsRight(i)' /\ SameMarks(i)
      /\ rows' = rows /\ Present' = Present /\ Visible(UserOf[s])' = Visible(UserOf[s])
      /\ conn'[s] = conn[s] /\ (Past(s)' <=> Past(s)) /\ Covered(s)' = Covered(s)
  BY TakesFrame
<1>2. /\ SameStage(s) /\ hist'[s] = hist[s] /\ Copy(s, i)' = Copy(s, i)
      /\ \A w \in Users : Marked(s, i, w)' <=> Marked(s, i, w)
      /\ <<UserOf[s], i>> \notin Overtakes(e)
  BY DEF Takes
<1>3. e.k = "msg"
  OBVIOUS
<1>4. send'[s] = Append(send[s], e) \/ (send'[s] = send[s] /\ i \notin Visible(UserOf[s]))
  OBVIOUS
<1>. HIDE DEF e
<1>5. conn[s] # "fetch"
  <2>1. e.id = i /\ <<UserOf[s], i>> \notin Overtakes(e)
    BY <1>0, <1>2
  <2>2. conn[s] = "fetch" => e.k # "msg"
    BY <2>1, NotOvertaken
  <2>. QED
    BY <1>3, <2>2
<1>6. MarksRight(s, i) => MarksRight(s, i)'
  <2>1. e \notin MarksOf(i)
    BY <1>3 DEF MarksOf
  <2>2. SameBuffers(s, MarksOf(i))
    BY <1>0, <1>2, <1>4, <2>1 DEF SameBuffers, Beside
  <2>3. /\ SameDoing("react", i) /\ SameMarks(i) /\ SameStage(s) /\ SameBuffers(s, MarksOf(i))
        /\ \A w \in Users : Marked(s, i, w)' <=> Marked(s, i, w)
    BY <1>1, <1>2, <2>2
  <2>. QED
    BY <1>0, <2>3, KeepMarks
<1>7. ASSUME Past(s), i \in Covered(s), Followed(s, i)
      PROVE  Followed(s, i)'
  <2>1. ~Nowhere("msg", i) /\ Nowhere("msg", i)'
    <3>1. Doing(s0, "msg", i)
      BY <1>1, <1>3
    <3>2. \A t \in Sessions : Doing(t, "msg", i) => t = s0
      BY <3>1 DEF Base, OneInsert
    <3>. QED
      BY <1>1, <3>1, <3>2 DEF Nowhere
  <2>2. /\ Copy(s, i) = <<>> /\ Nothing(send[s], MsgOf(i)) /\ Nothing(hist[s], MsgOf(i))
        /\ Nowhere("edit", i) /\ Nowhere("delete", i)
    BY <1>7, <2>1 DEF Followed, Counted, Alone
  <2>3. Nowhere("edit", i)' /\ Nowhere("delete", i)'
    BY <1>1, <2>2 DEF Nowhere
  <2>4. e \in MsgOf(i) /\ e \in TextOf(i) /\ e \in LifeOf(i) /\ e \notin DelOf(i)
    BY <1>0, <1>3 DEF MsgOf, TextOf, LifeOf, DelOf
  <2>5. Single(send[s], MsgOf(i)) /\ Single(send'[s], MsgOf(i))
    <3>1. Single(send[s], MsgOf(i))
      BY <2>2 DEF Nothing, Single
    <3>2. Single(Append(send[s], e), MsgOf(i))
      BY <1>0, <2>2, <3>1, AppendQueue
    <3>. QED
      BY <1>4, <3>1, <3>2
  <2>6. Counted(s, i)'
    <3>1. Copy(s, i)' = <<>> /\ Len(<<>>) = 0
      BY <1>2, <2>2
    <3>. QED
      BY <1>2, <2>1, <2>2, <2>5, <3>1 DEF Counted
  <2>7. Alone(i)'
    BY <2>1, <2>3 DEF Alone, Nowhere
  <2>8. ASSUME i \in Present
        PROVE  BodyRight(s, i)'
    <3>. DEFINE b == rows[i].body
    <3>1. \A t \in Sessions : ~(Doing(t, "edit", i) \/ Doing(t, "msg", i))'
      BY <2>1, <2>3 DEF Nowhere
    <3>2. Nothing(hist'[s], MsgOf(i) \ TextAs(i, b))
      BY <1>2, <2>2 DEF Nothing
    <3>3. e.body = b
      <4>1. Doing(s0, "msg", i)
        BY <1>1, <1>3
      <4>. QED
        BY <1>7, <2>8, <4>1 DEF Followed, BodyRight, e
    <3>4. (Copy(s, i) # <<>> \/ ~Nothing(send[s], MsgOf(i)))' => TextComes(s, i, b)'
      <4>1. CASE send'[s] = send[s]
        BY <1>2, <2>2, <4>1
      <4>2. CASE send'[s] = Append(send[s], e)
        <5>1. e \in TextAs(i, b) /\ TextAs(i, b) \subseteq TextOf(i)
          BY <2>4, <3>3, Sets DEF TextAs
        <5>. HIDE DEF b
        <5>2. Ends(Append(send[s], e), TextOf(i), TextAs(i, b))
          BY <1>0, <5>1, AppendQueue
        <5>. QED
          BY <4>2, <5>2, <1>1 DEF TextComes, b
      <4>. QED
        BY <1>4, <4>1, <4>2
    <3>. QED
      BY <1>1, <3>1, <3>2, <3>4 DEF BodyRight
  <2>9. ASSUME i \in Visible(UserOf[s])
        PROVE  LifeRight(s, i)'
    <3>1. ~rows[i].deleted
      BY <1>7, <2>1, <2>2, <2>9 DEF Followed, LifeRight
    <3>2. send'[s] = Append(send[s], e)
      BY <1>4, <2>9
    <3>3. ~Ends(send'[s], LifeOf(i), DelOf(i)) /\ ~Nothing(send'[s], LifeOf(i))
      <4>. DEFINE K == LifeOf(i)
                  V == DelOf(i)
      <4>1. V \subseteq K /\ e \in K /\ e \notin V
        BY <2>4, Sets
      <4>. HIDE DEF K, V
      <4>2. /\ Nothing(Append(send[s], e), K) <=> e \notin K /\ Nothing(send[s], K)
            /\ Ends(Append(send[s], e), K, V) <=> e \in V \/ (e \notin K /\ Ends(send[s], K, V))
        BY <1>0, <4>1, AppendQueue
      <4>3. ~Ends(send'[s], K, V) /\ ~Nothing(send'[s], K)
        BY <3>2, <4>1, <4>2
      <4>. QED
        BY <4>3 DEF K, V
    <3>. QED
      BY <1>1, <1>2, <2>1, <2>2, <3>1, <3>3 DEF LifeRight, EndComes
  <2>. QED
    BY <1>1, <2>6, <2>7, <2>8, <2>9 DEF Followed
<1>. QED
  BY <1>1, <1>5, <1>6, <1>7 DEF Right

\* What the hub takes is no message, and the client is connected.
LEMMA TakesOther ==
    ASSUME Base, NEW s0 \in Sessions, NEW s \in Live, NEW i \in Ids, Takes(s0, s, i), Right(s, i),
           work[s0].ev.k # "msg", send'[s] = Append(send[s], work[s0].ev)
    PROVE  /\ TypeOK /\ send[s] \in Seq(Events)
           /\ \A K : work[s0].ev \notin K => SameBuffers(s, K)
           /\ Early(s, i) => Early(s, i)'
           /\ Past(s) /\ i \in Covered(s) =>
                 /\ Nothing(hist[s], AboutOf(i)) /\ Nothing(hist'[s], AboutOf(i))
                 /\ ~(conn[s] = "fetch" \/ (conn[s] = "rows" /\ i \in window[s]))
           /\ Nowhere("msg", i)' <=> Nowhere("msg", i)
           /\ Counted(s, i) => Counted(s, i)'
           /\ SameStage(s) /\ hist'[s] = hist[s] /\ Copy(s, i)' = Copy(s, i)
           /\ \A w \in Users : Marked(s, i, w)' <=> Marked(s, i, w)
<1>. DEFINE e == work[s0].ev
<1>0. /\ TypeOK /\ s \in Sessions /\ send[s] \in Seq(Events) /\ e \in Events /\ e.id = i
      /\ SameDoing("msg", i)
  BY TakesFrame DEF Base, TypeOK, TypeSession
<1>2. /\ SameStage(s) /\ hist'[s] = hist[s] /\ Copy(s, i)' = Copy(s, i)
      /\ \A w \in Users : Marked(s, i, w)' <=> Marked(s, i, w)
      /\ <<UserOf[s], i>> \notin Overtakes(e)
  BY DEF Takes
<1>3. e.k # "msg" /\ send'[s] = Append(send[s], e)
  OBVIOUS
<1>. HIDE DEF e
<1>4. ASSUME NEW K, e \notin K
      PROVE  SameBuffers(s, K)
  BY <1>0, <1>2, <1>3, <1>4 DEF SameBuffers, Beside
<1>5. e \notin MsgOf(i)
  BY <1>3 DEF MsgOf
<1>6. Nowhere("msg", i)' <=> Nowhere("msg", i)
  BY <1>0 DEF SameDoing, Nowhere
<1>7. Early(s, i) => Early(s, i)'
  <2>. DEFINE K == MsgOf(i)
              V == {}
  <2>0. V \subseteq K /\ e \notin K
    BY <1>5
  <2>. HIDE DEF K, V
  <2>1. Nothing(Append(send[s], e), K) <=> Nothing(send[s], K)
    BY <1>0, <2>0, AppendQueue
  <2>. QED
    BY <1>2, <1>3, <2>1 DEF Early, K
<1>8. Past(s) /\ i \in Covered(s) =>
         /\ Nothing(hist[s], AboutOf(i)) /\ Nothing(hist'[s], AboutOf(i))
         /\ ~(conn[s] = "fetch" \/ (conn[s] = "rows" /\ i \in window[s]))
  <2>1. e.id = i /\ <<UserOf[s], i>> \notin Overtakes(e)
    BY <1>0, <1>2
  <2>2. Past(s) /\ i \in Covered(s) =>
           /\ Nothing(hist[s], AboutOf(i))
           /\ ~(conn[s] = "fetch" \/ (conn[s] = "rows" /\ i \in window[s]))
    BY <2>1, NotOvertaken
  <2>. QED
    BY <1>2, <2>2
<1>9. Counted(s, i) => Counted(s, i)'
  <2>1. SameBuffers(s, MsgOf(i))
    BY <1>4, <1>5
  <2>. QED
    BY <1>0, <1>2, <1>6, <2>1, KeepCounted
<1>10. \A K : e \notin K => SameBuffers(s, K)
  BY <1>4
<1>. QED
  BY <1>0, <1>2, <1>6, <1>7, <1>8, <1>9, <1>10 DEF e

LEMMA TakesEdit ==
    ASSUME Base, NEW s0 \in Sessions, NEW s \in Live, NEW i \in Ids, Takes(s0, s, i), Right(s, i),
           work[s0].ev.k = "edit", send'[s] = Append(send[s], work[s0].ev)
    PROVE  Right(s, i)'
<1>. DEFINE e == work[s0].ev
<1>0. TypeOK /\ s \in Sessions /\ e \in Events /\ e.id = i /\ e.k = "edit" /\ send'[s] = Append(send[s], e)
  BY TakesFrame DEF Base
<1>1. /\ \A t \in Sessions : \A k : Doing(t, k, i)' <=> t # s0 /\ Doing(t, k, i)
      /\ \A k : Doing(s0, k, i) <=> k = e.k
      /\ SameDoing("react", i) /\ SameDoing("msg", i) /\ SameDoing("delete", i)
      /\ ReactsRight(i)' /\ SameMarks(i)
      /\ rows' = rows /\ Present' = Present /\ Visible(UserOf[s])' = Visible(UserOf[s])
      /\ conn'[s] = conn[s] /\ (Past(s)' <=> Past(s)) /\ Covered(s)' = Covered(s)
  BY TakesFrame
<1>2. /\ send[s] \in Seq(Events)
      /\ \A K : e \notin K => SameBuffers(s, K)
      /\ Early(s, i) => Early(s, i)'
      /\ Past(s) /\ i \in Covered(s) =>
            /\ Nothing(hist[s], AboutOf(i)) /\ Nothing(hist'[s], AboutOf(i))
            /\ ~(conn[s] = "fetch" \/ (conn[s] = "rows" /\ i \in window[s]))
      /\ Nowhere("msg", i)' <=> Nowhere("msg", i)
      /\ Counted(s, i) => Counted(s, i)'
      /\ SameStage(s) /\ hist'[s] = hist[s] /\ Copy(s, i)' = Copy(s, i)
      /\ \A w \in Users : Marked(s, i, w)' <=> Marked(s, i, w)
  BY TakesOther
<1>3. e \in TextOf(i)
  BY <1>0 DEF TextOf
<1>4. SameBuffers(s, MarksOf(i)) /\ SameBuffers(s, LifeOf(i))
  <2>1. e \notin MarksOf(i) /\ e \notin LifeOf(i)
    BY <1>0 DEF MarksOf, LifeOf
  <2>. QED
    BY <1>2, <2>1
<1>5. MarksRight(s, i) => MarksRight(s, i)'
  <2>1. /\ SameDoing("react", i) /\ SameMarks(i) /\ SameStage(s) /\ SameBuffers(s, MarksOf(i))
        /\ \A w \in Users : Marked(s, i, w)' <=> Marked(s, i, w)
    BY <1>1, <1>2, <1>4
  <2>. QED
    BY <1>0, <2>1, KeepMarks
<1>6. Doing(s0, "edit", i)
  BY <1>0, <1>1
<1>7. ASSUME Past(s), i \in Covered(s), Followed(s, i)
      PROVE  Followed(s, i)'
  <2>1. Nowhere("edit", i)'
    <3>1. \A t \in Sessions : Doing(t, "edit", i) => t = s0
      BY <1>6, <1>7 DEF Followed, Alone
    <3>. QED
      BY <1>1, <3>1 DEF Nowhere
  <2>2. Nowhere("msg", i) /\ Nowhere("msg", i)'
    BY <1>2, <1>6, <1>7 DEF Followed, Alone, Nowhere
  <2>3. Counted(s, i)'
    BY <1>2, <1>7 DEF Followed
  <2>4. Alone(i)'
    BY <2>1, <2>2 DEF Alone, Nowhere
  <2>5. ASSUME i \in Present
        PROVE  BodyRight(s, i)'
    <3>. DEFINE b == rows[i].body
    <3>1. \A t \in Sessions : ~(Doing(t, "edit", i) \/ Doing(t, "msg", i))'
      BY <2>1, <2>2 DEF Nowhere
    <3>2. Nothing(hist'[s], MsgOf(i) \ TextAs(i, b))
      <4>1. MsgOf(i) \subseteq AboutOf(i) /\ Nothing(hist'[s], AboutOf(i))
        BY <1>2, <1>7, Sets
      <4>. QED
        BY <4>1 DEF Nothing
    <3>3. e.body = b
      BY <1>6, <1>7, <2>5 DEF Followed, BodyRight
    <3>4. e \in TextAs(i, b) /\ TextAs(i, b) \subseteq TextOf(i)
      BY <1>3, <3>3, Sets DEF TextAs
    <3>. HIDE DEF b, e
    <3>5. Ends(Append(send[s], e), TextOf(i), TextAs(i, b))
      BY <1>0, <1>2, <3>4, AppendQueue
    <3>6. TextComes(s, i, b)'
      BY <1>0, <1>1, <3>5 DEF TextComes, b
    <3>. QED
      BY <1>1, <3>1, <3>2, <3>6 DEF BodyRight, b
  <2>6. ASSUME i \in Visible(UserOf[s])
        PROVE  LifeRight(s, i)'
    BY <1>0, <1>1, <1>2, <1>4, <1>7, <2>6, KeepLife DEF Followed
  <2>. QED
    BY <1>1, <2>3, <2>4, <2>5, <2>6 DEF Followed
<1>. QED
  BY <1>1, <1>2, <1>5, <1>7 DEF Right

LEMMA TakesDelete ==
    ASSUME Base, NEW s0 \in Sessions, NEW s \in Live, NEW i \in Ids, Takes(s0, s, i), Right(s, i),
           work[s0].ev.k = "delete", send'[s] = Append(send[s], work[s0].ev)
    PROVE  Right(s, i)'
<1>. DEFINE e == work[s0].ev
<1>0. TypeOK /\ s \in Sessions /\ e \in Events /\ e.id = i /\ e.k = "delete" /\ send'[s] = Append(send[s], e)
  BY TakesFrame DEF Base
<1>1. /\ \A t \in Sessions : \A k : Doing(t, k, i)' <=> t # s0 /\ Doing(t, k, i)
      /\ \A k : Doing(s0, k, i) <=> k = e.k
      /\ SameDoing("react", i) /\ SameDoing("msg", i) /\ SameDoing("edit", i)
      /\ ReactsRight(i)' /\ SameMarks(i)
      /\ rows' = rows /\ Present' = Present /\ Visible(UserOf[s])' = Visible(UserOf[s])
      /\ conn'[s] = conn[s] /\ (Past(s)' <=> Past(s)) /\ Covered(s)' = Covered(s)
  BY TakesFrame
<1>2. /\ send[s] \in Seq(Events)
      /\ \A K : e \notin K => SameBuffers(s, K)
      /\ Early(s, i) => Early(s, i)'
      /\ Past(s) /\ i \in Covered(s) =>
            /\ Nothing(hist[s], AboutOf(i)) /\ Nothing(hist'[s], AboutOf(i))
            /\ ~(conn[s] = "fetch" \/ (conn[s] = "rows" /\ i \in window[s]))
      /\ Nowhere("msg", i)' <=> Nowhere("msg", i)
      /\ Counted(s, i) => Counted(s, i)'
      /\ SameStage(s) /\ hist'[s] = hist[s] /\ Copy(s, i)' = Copy(s, i)
      /\ \A w \in Users : Marked(s, i, w)' <=> Marked(s, i, w)
  BY TakesOther
<1>3. e \in LifeOf(i) /\ e \in DelOf(i)
  BY <1>0 DEF LifeOf, DelOf
<1>4. SameBuffers(s, MarksOf(i)) /\ SameBuffers(s, TextOf(i))
  <2>1. e \notin MarksOf(i) /\ e \notin TextOf(i)
    BY <1>0 DEF MarksOf, TextOf
  <2>. QED
    BY <1>2, <2>1
<1>5. MarksRight(s, i) => MarksRight(s, i)'
  <2>1. /\ SameDoing("react", i) /\ SameMarks(i) /\ SameStage(s) /\ SameBuffers(s, MarksOf(i))
        /\ \A w \in Users : Marked(s, i, w)' <=> Marked(s, i, w)
    BY <1>1, <1>2, <1>4
  <2>. QED
    BY <1>0, <2>1, KeepMarks
<1>6. Doing(s0, "delete", i)
  BY <1>0, <1>1
<1>7. ASSUME Past(s), i \in Covered(s), Followed(s, i)
      PROVE  Followed(s, i)'
  <2>2. Nowhere("msg", i) /\ Nowhere("msg", i)'
    BY <1>2, <1>6, <1>7 DEF Followed, Alone, Nowhere
  <2>3. Counted(s, i)'
    BY <1>2, <1>7 DEF Followed
  <2>4. Alone(i)'
    BY <1>1, <1>7, <2>2 DEF Followed, Alone
  <2>5. i \in Present => BodyRight(s, i)'
    BY <1>0, <1>1, <1>2, <1>4, <1>7, KeepBody DEF Followed
  <2>6. ASSUME i \in Visible(UserOf[s])
        PROVE  LifeRight(s, i)'
    <3>1. rows[i].deleted
      <4>1. e \in Fresh /\ rows[i] # NoRow /\ i # 0
        <5>1. work[s0] # Free
          BY DEF Takes
        <5>. QED
          BY <2>6, <5>1 DEF Base, Known, Visible, Present, Ids
      <4>. QED
        BY <1>0, <4>1 DEF Fresh, DelTrue
    <3>2. Nothing(hist'[s], MsgOf(i))
      <4>1. MsgOf(i) \subseteq AboutOf(i) /\ Nothing(hist'[s], AboutOf(i))
        BY <1>2, <1>7, Sets
      <4>. QED
        BY <4>1 DEF Nothing
    <3>3. DelOf(i) \subseteq LifeOf(i)
      BY Sets
    <3>. HIDE DEF e
    <3>4. Ends(Append(send[s], e), LifeOf(i), DelOf(i))
      BY <1>0, <1>2, <1>3, <3>3, AppendQueue
    <3>5. EndComes(s, i)'
      BY <1>0, <3>4 DEF EndComes
    <3>. QED
      BY <1>1, <2>2, <3>1, <3>2, <3>5 DEF LifeRight
  <2>. QED
    BY <1>1, <2>3, <2>4, <2>5, <2>6 DEF Followed
<1>. QED
  BY <1>1, <1>2, <1>5, <1>7 DEF Right

LEMMA TakesReact ==
    ASSUME Base, NEW s0 \in Sessions, NEW s \in Live, NEW i \in Ids, Takes(s0, s, i), Right(s, i),
           work[s0].ev.k = "react", send'[s] = Append(send[s], work[s0].ev)
    PROVE  Right(s, i)'
<1>. DEFINE e == work[s0].ev
<1>0. TypeOK /\ s \in Sessions /\ e \in Events /\ e.id = i /\ e.k = "react" /\ send'[s] = Append(send[s], e)
  BY TakesFrame DEF Base
<1>1. /\ \A t \in Sessions : \A k : Doing(t, k, i)' <=> t # s0 /\ Doing(t, k, i)
      /\ \A k : Doing(s0, k, i) <=> k = e.k
      /\ SameDoing("edit", i) /\ SameDoing("msg", i) /\ SameDoing("delete", i)
      /\ ReactsRight(i)' /\ SameMarks(i)
      /\ rows' = rows /\ Present' = Present /\ Visible(UserOf[s])' = Visible(UserOf[s])
      /\ conn'[s] = conn[s] /\ (Past(s)' <=> Past(s)) /\ Covered(s)' = Covered(s)
  BY TakesFrame
<1>2. /\ send[s] \in Seq(Events)
      /\ \A K : e \notin K => SameBuffers(s, K)
      /\ Early(s, i) => Early(s, i)'
      /\ Past(s) /\ i \in Covered(s) =>
            /\ Nothing(hist[s], AboutOf(i)) /\ Nothing(hist'[s], AboutOf(i))
            /\ ~(conn[s] = "fetch" \/ (conn[s] = "rows" /\ i \in window[s]))
      /\ Counted(s, i) => Counted(s, i)'
      /\ SameStage(s) /\ hist'[s] = hist[s] /\ Copy(s, i)' = Copy(s, i)
      /\ \A w \in Users : Marked(s, i, w)' <=> Marked(s, i, w)
  BY TakesOther
<1>4. SameBuffers(s, LifeOf(i)) /\ SameBuffers(s, TextOf(i))
  <2>1. e \notin LifeOf(i) /\ e \notin TextOf(i)
    BY <1>0 DEF LifeOf, TextOf
  <2>. QED
    BY <1>2, <2>1
<1>5. /\ \A t \in Sessions : Doing(t, "react", i) => t = s0
      /\ e.body = 1 <=> <<i, e.who>> \in reactions
  <2>1. Doing(s0, "react", i) /\ ReactsRight(i)
    BY <1>0, <1>1 DEF Right
  <2>. QED
    BY <2>1 DEF ReactsRight
<1>6. ASSUME MarksRight(s, i), conn[s] = "fetch" \/ (Past(s) /\ i \in Covered(s)), NEW w \in Users
      PROVE  MarkRight(s, i, w)'
  <2>. DEFINE K == MarkOf(i, w)
              V == MarkAs(i, w)
  <2>1. /\ <<i, w>> \in reactions' <=> <<i, w>> \in reactions
        /\ conn'[s] = conn[s] /\ window'[s] = window[s] /\ hist'[s] = hist[s]
    BY <1>1, <1>2 DEF SameMarks, SameStage
  <2>2. Past(s) => Nothing(hist[s], K)
    <3>1. K \subseteq AboutOf(i)
      BY Sets
    <3>2. Past(s) => Nothing(hist[s], AboutOf(i))
      BY <1>2, <1>6 DEF Past
    <3>. QED
      BY <3>1, <3>2 DEF Nothing
  <2>3. V \subseteq K
    BY Sets
  <2>4. /\ e \in K <=> e.who = w
        /\ e \in V <=> e.who = w /\ e.body = 1
    BY <1>0 DEF MarkOf, MarksOf, MarkAs
  <2>. HIDE DEF K, V, e
  <2>5. /\ Nothing(Append(send[s], e), K) <=> e \notin K /\ Nothing(send[s], K)
        /\ Ends(Append(send[s], e), K, V) <=> e \in V \/ (e \notin K /\ Ends(send[s], K, V))
    BY <1>0, <1>2, <2>3, AppendQueue
  <2>6. CASE w = e.who
    <3>1. MarkComes(s, i, w)' <=> <<i, w>> \in reactions
      BY <1>0, <1>5, <2>4, <2>5, <2>6 DEF MarkComes, K, V
    <3>. QED
      BY <1>6, <2>1, <2>2, <3>1 DEF MarkRight, K
  <2>7. CASE w # e.who
    <3>1. MarkComes(s, i, w)' <=> MarkComes(s, i, w)
      BY <1>0, <1>2, <2>4, <2>5, <2>7 DEF MarkComes, K, V
    <3>2. \A t \in Sessions : Doing(t, "react", i) => work[t].ev.who # w
      BY <1>5, <2>7 DEF e
    <3>3. MarkRight(s, i, w)
      BY <1>6 DEF MarksRight
    <3>. QED
      BY <2>1, <3>1, <3>2, <3>3 DEF MarkRight
  <2>. QED
    BY <2>6, <2>7
<1>7. ASSUME Followed(s, i)
      PROVE  Followed(s, i)'
  <2>1. Counted(s, i)'
    BY <1>2, <1>7 DEF Followed
  <2>2. Alone(i)'
    BY <1>1, <1>7, KeepAlone DEF Followed
  <2>3. i \in Present => BodyRight(s, i)'
    BY <1>0, <1>1, <1>2, <1>4, <1>7, KeepBody DEF Followed
  <2>4. i \in Visible(UserOf[s]) => LifeRight(s, i)'
    BY <1>0, <1>1, <1>2, <1>4, <1>7, KeepLife DEF Followed
  <2>. QED
    BY <1>1, <2>1, <2>2, <2>3, <2>4 DEF Followed
<1>8. conn[s] = "fetch" \/ (Past(s) /\ i \in Covered(s)) => (MarksRight(s, i) => MarksRight(s, i)')
  BY <1>6 DEF MarksRight
<1>. QED
  BY <1>1, <1>2, <1>7, <1>8 DEF Right

LEMMA TakesRight ==
    ASSUME Base, NEW s0 \in Sessions, NEW s \in Live, NEW i \in Ids, work[s0] # Free,
           work'[s0] = Free, \A t \in Sessions \ {s0} : work'[t] = work[t], UNCHANGED table,
           SameStage(s), hist'[s] = hist[s], Copy(s, i)' = Copy(s, i),
           \A w \in Users : Marked(s, i, w)' <=> Marked(s, i, w),
           <<UserOf[s], i>> \notin Overtakes(work[s0].ev), Right(s, i),
           \/ send'[s] = Append(send[s], work[s0].ev)
           \/ /\ send'[s] = send[s]
              /\ work[s0].ev.id = i => work[s0].ev.k = "msg" /\ i \notin Visible(UserOf[s])
    PROVE  Right(s, i)'
<1>. DEFINE e == work[s0].ev
<1>1. e \in Events /\ s \in Sessions
  BY DEF Base, TypeOK, TypeWork, Works, Live
<1>2. CASE e \in AboutOf(i)
  <2>1. Takes(s0, s, i)
    BY <1>2 DEF Takes
  <2>2. e.id = i /\ e.k \in {"msg", "edit", "delete", "react"}
    BY <1>1, <1>2 DEF AboutOf, Events, Kinds
  <2>. QED
    BY <2>1, <2>2, TakesMessage, TakesEdit, TakesDelete, TakesReact
<1>3. CASE e \notin AboutOf(i)
  <2>1. SameBuffers(s, AboutOf(i))
    BY <1>1, <1>3 DEF SameBuffers, Beside
  <2>2. \A t \in Sessions : \/ work'[t] = work[t]
                            \/ work'[t] = Free /\ (work[t] # Free => work[t].ev \notin AboutOf(i))
    BY <1>3
  <2>. QED
    BY <1>1, <2>1, <2>2, ServesElsewhere
<1>. QED
  BY <1>2, <1>3

LEMMA NoticeRight ==
    ASSUME Base, AllRight, NEW s0 \in Sessions, Notice(s0), NEW s \in Live', NEW i \in Ids, Undisturbed(s, i)'
    PROVE  Right(s, i)'
<1>. DEFINE e == Ev("note", 0, 0, UserOf[s0], Nobody)
<1>1. /\ s \in Live /\ s \in Sessions /\ Right(s, i)
      /\ UNCHANGED <<table, conn, hist, shown, marks, window, since>>
      /\ send' = Put({s0} \cap Live, e)
  BY DEF Notice, client, ghost, Live, AllRight, Undisturbed
<1>2. work[s0].at = "notice" /\ work[s0] # Free /\ work' = [work EXCEPT ![s0] = Free]
  BY DEF Notice, WorkTo, Free
<1>3. work[s0].ev \notin AboutOf(i)
  BY <1>2 DEF Base, WorkShape, AboutOf, Ids
<1>4. e \in Events /\ e \notin AboutOf(i)
  <2>1. e \in Events
    BY EventType, DeliveryAssumption DEF Kinds, People
  <2>2. e.k = "note"
    BY DEF Ev
  <2>. QED
    BY <2>1, <2>2 DEF AboutOf
<1>. HIDE DEF e
<1>5. SameStage(s) /\ SameBuffers(s, AboutOf(i)) /\ Copy(s, i)' = Copy(s, i)
  BY <1>1, <1>4 DEF SameStage, SameBuffers, Beside, Put, Copy
<1>6. \A w \in Users : Marked(s, i, w)' <=> Marked(s, i, w)
  BY <1>1 DEF Marked
<1>7. \A t \in Sessions : \/ work'[t] = work[t]
                          \/ work'[t] = Free /\ (work[t] # Free => work[t].ev \notin AboutOf(i))
  BY <1>2, <1>3 DEF Base, TypeOK, TypeWork
<1>. QED
  BY <1>1, <1>5, <1>6, <1>7, ServesElsewhere

\* Who is dropped takes its user along.
LEMMA EndFrame ==
    ASSUME Base, NEW S, S \subseteq Live, End(S), NEW D, disturbed' = Without(S, D), NEW s \in Live'
    PROVE  /\ s \in Live /\ s \in Sessions /\ s \notin S /\ SameStage(s) /\ hist'[s] = hist[s]
           /\ \A i : Undisturbed(s, i)' => <<UserOf[s], i>> \notin D
<1>1. s \in Sessions
  BY DEF Live
<1>2. s \notin S /\ conn'[s] = conn[s] /\ hist'[s] = hist[s] /\ window'[s] = window[s] /\ since'[s] = since[s]
  BY <1>1 DEF End, Live
<1>3. s \in Live
  BY <1>1, <1>2 DEF Live
<1>4. \A t \in S : UserOf[t] # UserOf[s]
  BY <1>2, <1>3 DEF Base, OneClient
<1>5. \A i : Undisturbed(s, i)' => <<UserOf[s], i>> \notin D
  BY <1>4 DEF Undisturbed, Without
<1>. QED
  BY <1>1, <1>2, <1>3, <1>5 DEF SameStage

LEMMA BroadcastRight ==
    ASSUME Base, AllRight, NEW s0 \in Sessions, Broadcast(s0), NEW s \in Live', NEW i \in Ids, Undisturbed(s, i)'
    PROVE  Right(s, i)'
<1>. DEFINE e == work[s0].ev
            dropped == {t \in Live : Full(t)}
<1>1. /\ send' = [t \in Sessions |-> IF t \in dropped THEN <<>> ELSE Put(Live, e)[t]]
      /\ End(dropped) /\ disturbed' = Without(dropped, disturbed \cup Overtakes(e))
      /\ work' = [work EXCEPT ![s0] = Free] /\ work[s0] # Free
      /\ UNCHANGED <<table, shown, marks>>
  BY DEF Broadcast, WorkTo, client, Free
<1>2. dropped \subseteq Live
  OBVIOUS
<1>3. \A t \in Live : t \notin dropped => ~Full(t)
  OBVIOUS
<1>. HIDE DEF e, dropped
<1>4. /\ s \in Live /\ s \in Sessions /\ s \notin dropped /\ SameStage(s) /\ hist'[s] = hist[s]
      /\ <<UserOf[s], i>> \notin disturbed /\ <<UserOf[s], i>> \notin Overtakes(e)
  BY <1>1, <1>2, EndFrame
<1>5. send'[s] = Append(send[s], e)
  BY <1>1, <1>3, <1>4 DEF Put
<1>6. Right(s, i)
  BY <1>4 DEF AllRight, Undisturbed
<1>7. Copy(s, i)' = Copy(s, i) /\ (\A w \in Users : Marked(s, i, w)' <=> Marked(s, i, w))
  BY <1>1 DEF Copy, Marked
<1>8. work'[s0] = Free /\ \A t \in Sessions \ {s0} : work'[t] = work[t]
  BY <1>1 DEF Base, TypeOK, TypeWork
<1>. QED
  BY <1>1, <1>4, <1>5, <1>6, <1>7, <1>8, TakesRight DEF e

LEMMA BroadcastDMRight ==
    ASSUME Base, AllRight, NEW s0 \in Sessions, BroadcastDM(s0), NEW s \in Live', NEW i \in Ids, Undisturbed(s, i)'
    PROVE  Right(s, i)'
<1>. DEFINE e == work[s0].ev
<1>1. /\ send' = Put(Audience(e), e) /\ e.to # Nobody
      /\ disturbed' = disturbed \cup Overtakes(e) \cup {<<UserOf[t], e.id>> : t \in {t \in Audience(e) : Full(t)}}
      /\ work' = [work EXCEPT ![s0] = Free] /\ work[s0] # Free
      /\ UNCHANGED <<table, conn, hist, shown, marks, window, since>>
  BY DEF BroadcastDM, WorkTo, client, Free
<1>2. e.k = "msg" /\ Sound(e)
  BY <1>1, WorkEvent DEF Base, WorkShape
<1>. HIDE DEF e
<1>4. /\ s \in Live /\ s \in Sessions /\ SameStage(s) /\ hist'[s] = hist[s]
      /\ <<UserOf[s], i>> \notin disturbed /\ <<UserOf[s], i>> \notin Overtakes(e)
      /\ ~(s \in Audience(e) /\ Full(s) /\ e.id = i)
  BY <1>1 DEF Live, SameStage, Undisturbed
<1>5. \/ send'[s] = Append(send[s], e)
      \/ send'[s] = send[s] /\ (e.id = i => i \notin Visible(UserOf[s]))
  <2>1. CASE s \in Audience(e) /\ ~Full(s)
    BY <1>1, <1>4, <2>1 DEF Put
  <2>2. CASE s \notin Audience(e) \/ Full(s)
    <3>1. send'[s] = send[s]
      BY <1>1, <1>4, <2>2 DEF Put
    <3>2. ASSUME e.id = i
          PROVE  i \notin Visible(UserOf[s])
      <4>1. UserOf[s] \notin {e.who, e.to}
        BY <1>1, <1>4, <2>2, <3>2 DEF Audience
      <4>2. rows[i] # NoRow => rows[i].sender = e.who /\ rows[i].to = e.to
        BY <1>2, <3>2 DEF Sound, Ids
      <4>. QED
        BY <1>1, <4>1, <4>2 DEF Visible, Present
    <3>. QED
      BY <3>1, <3>2
  <2>. QED
    BY <2>1, <2>2
<1>6. Right(s, i)
  BY <1>4 DEF AllRight, Undisturbed
<1>7. Copy(s, i)' = Copy(s, i) /\ (\A w \in Users : Marked(s, i, w)' <=> Marked(s, i, w))
  BY <1>1 DEF Copy, Marked
<1>8. work'[s0] = Free /\ \A t \in Sessions \ {s0} : work'[t] = work[t]
  BY <1>1 DEF Base, TypeOK, TypeWork
<1>. QED
  BY <1>1, <1>2, <1>4, <1>5, <1>6, <1>7, <1>8, TakesRight DEF e

LEMMA DisconnectRight ==
    ASSUME Base, AllRight, NEW s0 \in Sessions, Disconnect(s0), NEW s \in Live', NEW i \in Ids, Undisturbed(s, i)'
    PROVE  Right(s, i)'
<1>1. /\ {s0} \subseteq Live /\ End({s0}) /\ disturbed' = Without({s0}, disturbed)
      /\ send' = [send EXCEPT ![s0] = <<>>] /\ UNCHANGED <<table, work, shown, marks>>
  BY DEF Disconnect, Live, client
<1>2. /\ s \in Live /\ s \in Sessions /\ s \notin {s0} /\ SameStage(s) /\ hist'[s] = hist[s]
      /\ <<UserOf[s], i>> \notin disturbed
  BY <1>1, EndFrame
<1>3. send'[s] = send[s]
  BY <1>1, <1>2 DEF Base, TypeOK, TypeSession
<1>4. /\ SameBuffers(s, AboutOf(i)) /\ Copy(s, i)' = Copy(s, i)
      /\ \A w \in Users : Marked(s, i, w)' <=> Marked(s, i, w)
  BY <1>1, <1>2, <1>3 DEF SameBuffers, Beside, Copy, Marked
<1>5. Right(s, i)
  BY <1>2 DEF AllRight, Undisturbed
<1>. QED
  BY <1>1, <1>2, <1>4, <1>5, ServesElsewhere

----------------------------------------------------------------------------
(* The handshake.                                                              *)

\* A session the step leaves alone, except for the mark of a disturbance.
LEMMA BystanderRight ==
    ASSUME Base, AllRight, UNCHANGED <<table, work>>, NEW s \in Live, NEW i \in Ids, SameStage(s),
           send'[s] = send[s], hist'[s] = hist[s], Copy(s, i)' = Copy(s, i),
           \A w \in Users : Marked(s, i, w)' <=> Marked(s, i, w), Undisturbed(s, i)
    PROVE  Right(s, i)'
<1>1. s \in Sessions /\ Right(s, i)
  BY DEF Live, AllRight
<1>2. SameBuffers(s, AboutOf(i))
  BY DEF SameBuffers, Beside
<1>. QED
  BY <1>1, <1>2, ServesElsewhere

LEMMA ConnectRight ==
    ASSUME Base, AllRight, NEW s0 \in Sessions, Connect(s0), NEW s \in Live', NEW i \in Ids, Undisturbed(s, i)'
    PROVE  Right(s, i)'
<1>. DEFINE joined == {UserOf[s0]} \X
                         {j \in Ids : \E t \in Sessions :
                             work[t] # Free /\ work[t].ev.k = "react" /\ work[t].ev.id = j}
<1>1. /\ conn[s0] = "off" /\ \A t \in Live : UserOf[t] # UserOf[s0]
      /\ conn' = [conn EXCEPT ![s0] = "fetch"] /\ send' = [send EXCEPT ![s0] = <<>>]
      /\ shown' = [shown EXCEPT ![UserOf[s0]] = [j \in 0..MaxId |-> <<>>]]
      /\ marks' = [marks EXCEPT ![UserOf[s0]] = {}]
      /\ disturbed' = disturbed \cup joined /\ UNCHANGED <<table, work, hist, window, since>>
  BY DEF Connect, Joins
<1>2. s \in Sessions /\ conn'[s] # "off"
  BY DEF Live
<1>3. /\ conn \in [Sessions -> {"off", "fetch", "rows", "reactions"}] /\ send \in [Sessions -> Seq(Events)]
      /\ shown \in [Users -> [0..MaxId -> Seq(Copies)]] /\ marks \in [Users -> SUBSET ((0..MaxId) \X Users)]
      /\ UserOf \in [Sessions -> Users] /\ i \in 0..MaxId
  BY DeliveryAssumption DEF Base, TypeOK, TypeSession, TypeClient, TypeMarks, Ids
<1>4. CASE s = s0
  <2>1. conn'[s] = "fetch" /\ send'[s] = <<>> /\ Copy(s, i)' = <<>> /\ \A w : ~Marked(s, i, w)'
    BY <1>1, <1>3, <1>4 DEF Copy, Marked
  <2>2. \A t \in Sessions : ~Doing(t, "react", i)'
    BY <1>1, <1>4 DEF Undisturbed, Doing
  <2>3. ReactsRight(i)'
    BY <2>2 DEF ReactsRight
  <2>4. Early(s, i)'
    BY <2>1 DEF Early, Nothing
  <2>5. \A w : ~MarkComes(s, i, w)'
    BY <2>1 DEF MarkComes, Ends
  <2>6. MarksRight(s, i)'
    BY <2>1, <2>5 DEF MarksRight, MarkRight
  <2>. QED
    BY <2>1, <2>3, <2>4, <2>6 DEF Right, Past
<1>5. CASE s # s0
  <2>1. s \in Live /\ UserOf[s] # UserOf[s0] /\ Undisturbed(s, i)
    BY <1>1, <1>2, <1>3, <1>5 DEF Live, Undisturbed
  <2>2. SameStage(s) /\ send'[s] = send[s] /\ hist'[s] = hist[s]
    BY <1>1, <1>2, <1>3, <1>5 DEF SameStage
  <2>3. Copy(s, i)' = Copy(s, i) /\ \A w \in Users : Marked(s, i, w)' <=> Marked(s, i, w)
    BY <1>1, <1>2, <1>3, <2>1 DEF Copy, Marked
  <2>. QED
    BY <1>1, <2>1, <2>2, <2>3, BystanderRight
<1>. QED
  BY <1>4, <1>5

LEMMA ListsOnto ==
    ASSUME NEW S, IsFiniteSet(S), NEW f \in Lists(S), NEW x \in S
    PROVE  \E n \in DOMAIN f : f[n] = x
<1>. DEFINE N == 1..Cardinality(S)
<1>1. Cardinality(S) \in Nat /\ IsFiniteSet(N) /\ Cardinality(N) = Cardinality(S)
  BY FS_CardinalityType, FS_Interval
<1>2. f \in [N -> S] /\ \A m, n \in N : f[m] = f[n] => m = n
  BY DEF Lists
<1>. HIDE DEF N
<1>3. f \in Injection(N, S)
  BY <1>2 DEF Injection, IsInjective
<1>4. f \in Surjection(N, S)
  BY <1>1, <1>3, FS_Injection
<1>. QED
  BY <1>2, <1>4 DEF Surjection

\* What the rows that Fetch has read say.
LEMMA FetchReads ==
    ASSUME Base, NEW s \in Sessions, Fetch(s), NEW i \in Ids
    PROVE  /\ hist'[s] \in Seq(Events) /\ window'[s] = Recent(UserOf[s]) /\ since'[s] = nextId
           /\ conn'[s] = "rows" /\ UNCHANGED <<table, work, send, shown, marks>>
           /\ \A t \in Sessions \ {s} : SameStage(t) /\ hist'[t] = hist[t]
           /\ \A w : Nothing(hist'[s], MarkOf(i, w))
           /\ i \notin window'[s] => Nothing(hist'[s], AboutOf(i))
           /\ i \in window'[s] /\ rows[i].numbered =>
                 /\ i \in Visible(UserOf[s])
                 /\ rows[i].deleted => Nothing(hist'[s], MsgOf(i))
                 /\ ~rows[i].deleted => ~Nothing(hist'[s], MsgOf(i))
                 /\ Nothing(hist'[s], MsgOf(i) \ TextAs(i, rows[i].body))
<1>. DEFINE got == Recent(UserOf[s])
<1>0. TypeOK /\ Addressed /\ HistShape' /\ Known'
  BY FetchKnown DEF Base
<1>1. PICK list \in Lists(got) : hist' = [hist EXCEPT ![s] = [n \in DOMAIN list |-> AsEvent(list[n])]]
  BY DEF Fetch
<1>2. /\ conn' = [conn EXCEPT ![s] = "rows"] /\ window' = [window EXCEPT ![s] = got]
      /\ since' = [since EXCEPT ![s] = nextId] /\ UNCHANGED <<table, work, send, shown, marks>>
  BY DEF Fetch, client
<1>3. got \subseteq Visible(UserOf[s]) /\ Visible(UserOf[s]) \subseteq Present /\ IsFiniteSet(got)
  BY RecentIsFinite
<1>4. Cardinality(got) \in Nat /\ DOMAIN list = 1..Cardinality(got) /\ \A n \in DOMAIN list : list[n] \in got
  BY <1>3, ListsFill
<1>5. \A x \in got : \E n \in DOMAIN list : list[n] = x
  BY <1>3, ListsOnto
<1>. HIDE DEF got
<1>6. /\ conn'[s] = "rows" /\ window'[s] = got /\ since'[s] = nextId
      /\ hist'[s] = [n \in DOMAIN list |-> AsEvent(list[n])]
      /\ \A t \in Sessions \ {s} : SameStage(t) /\ hist'[t] = hist[t]
  BY <1>0, <1>1, <1>2 DEF TypeOK, TypeSession, SameStage, Base, Known
<1>7. hist'[s] \in Seq(Events)
  <2>1. Fresh' \subseteq Events
    BY DEF Fresh, Events
  <2>. QED
    BY <1>0, <2>1 DEF Known
<1>8. /\ Len(hist'[s]) = Cardinality(got)
      /\ \A n \in 1..Len(hist'[s]) : n \in DOMAIN list /\ hist'[s][n] = AsEvent(list[n])
  BY <1>4, <1>6
<1>9. HistOf(s)'
  BY <1>0 DEF HistShape
<1>10. \A w : Nothing(hist'[s], MarkOf(i, w))
  BY <1>6, <1>9 DEF HistOf, Nothing, MarkOf, MarksOf
<1>11. i \notin window'[s] => Nothing(hist'[s], AboutOf(i))
  BY <1>9 DEF HistOf, Nothing, AboutOf, Ids
<1>12. ASSUME i \in window'[s], rows[i].numbered
       PROVE  /\ i \in Visible(UserOf[s])
              /\ rows[i].deleted => Nothing(hist'[s], MsgOf(i))
              /\ ~rows[i].deleted => ~Nothing(hist'[s], MsgOf(i))
              /\ Nothing(hist'[s], MsgOf(i) \ TextAs(i, rows[i].body))
  <2>1. PICK n \in 1..Len(hist'[s]) : hist'[s][n] = AsEvent(i)
    <3>1. PICK n \in DOMAIN list : list[n] = i
      BY <1>5, <1>6, <1>12
    <3>. QED
      BY <1>4, <1>8, <3>1
  <2>2. i \in Visible(UserOf[s]) /\ i \in Present
    BY <1>3, <1>6, <1>12
  <2>3. /\ AsEvent(i) \in Events /\ AsEvent(i).id = i
        /\ AsEvent(i).k = (IF rows[i].deleted THEN "delete" ELSE "msg")
        /\ ~rows[i].deleted => AsEvent(i).body = rows[i].body
    BY <1>0, <1>12, <2>2, AsEventIs DEF Fresh
  <2>4. AsEvent(i) \in AboutOf(i) /\ MsgOf(i) \subseteq AboutOf(i)
    BY <2>3, Sets DEF AboutOf
  <2>5. \A m \in 1..Len(hist'[s]) : hist'[s][m] \in AboutOf(i) => m = n
    BY <1>6, <1>9, <2>1, <2>4 DEF HistOf, Single
  <2>6. \A m \in 1..Len(hist'[s]) : hist'[s][m] \in MsgOf(i) => hist'[s][m] = AsEvent(i)
    BY <2>1, <2>4, <2>5
  <2>7. rows[i].deleted => Nothing(hist'[s], MsgOf(i))
    <3>1. rows[i].deleted => AsEvent(i) \notin MsgOf(i)
      BY <2>3 DEF MsgOf
    <3>. QED
      BY <2>6, <3>1 DEF Nothing
  <2>8. ~rows[i].deleted => AsEvent(i) \in MsgOf(i) /\ AsEvent(i) \in TextAs(i, rows[i].body)
    BY <2>3 DEF MsgOf, TextAs, TextOf
  <2>9. ~rows[i].deleted => ~Nothing(hist'[s], MsgOf(i))
    BY <2>1, <2>8 DEF Nothing
  <2>10. Nothing(hist'[s], MsgOf(i) \ TextAs(i, rows[i].body))
    BY <2>6, <2>7, <2>8 DEF Nothing
  <2>. QED
    BY <2>2, <2>7, <2>9, <2>10
<1>. QED
  BY <1>2, <1>6, <1>7, <1>10, <1>11, <1>12 DEF got

LEMMA FetchRight ==
    ASSUME Base, AllRight, NEW s0 \in Sessions, Fetch(s0), NEW s \in Live', NEW i \in Ids, Undisturbed(s, i)'
    PROVE  Right(s, i)'
<1>0. s \in Sessions /\ TypeOK
  BY DEF Live, Base
<1>1. /\ window'[s0] = Recent(UserOf[s0]) /\ since'[s0] = nextId
      /\ conn'[s0] = "rows" /\ UNCHANGED <<table, work, send, shown, marks>>
      /\ \A t \in Sessions \ {s0} : SameStage(t) /\ hist'[t] = hist[t]
      /\ \A w : Nothing(hist'[s0], MarkOf(i, w))
      /\ i \notin window'[s0] => Nothing(hist'[s0], AboutOf(i))
      /\ i \in window'[s0] /\ rows[i].numbered =>
            /\ i \in Visible(UserOf[s0])
            /\ rows[i].deleted => Nothing(hist'[s0], MsgOf(i))
            /\ ~rows[i].deleted => ~Nothing(hist'[s0], MsgOf(i))
            /\ Nothing(hist'[s0], MsgOf(i) \ TextAs(i, rows[i].body))
  BY FetchReads
<1>2. /\ conn[s0] = "fetch" /\ s0 \in Live
      /\ disturbed' = disturbed \cup ({UserOf[s0]} \X
            {j \in Ids : Pending(j, s0) \/ (j \in Present /\ ~rows[j].numbered)})
  BY DEF Fetch, Live
<1>3. Copy(s, i)' = Copy(s, i) /\ \A w : Marked(s, i, w)' <=> Marked(s, i, w)
  BY <1>1 DEF Copy, Marked
<1>4. Undisturbed(s, i)
  BY <1>2 DEF Undisturbed
<1>5. CASE s # s0
  <2>1. s \in Live
    BY <1>0, <1>1, <1>5 DEF Live, SameStage
  <2>2. SameStage(s) /\ hist'[s] = hist[s] /\ send'[s] = send[s]
    BY <1>0, <1>1, <1>5
  <2>. QED
    BY <1>1, <1>3, <1>4, <2>1, <2>2, BystanderRight
<1>6. CASE s = s0
  <2>1. Right(s, i)
    BY <1>2, <1>4, <1>6 DEF AllRight
  <2>2. ReactsRight(i) /\ Copy(s, i) = <<>> /\ Nothing(send[s], MsgOf(i)) /\ MarksRight(s, i)
    BY <1>2, <1>6, <2>1 DEF Right, Early
  <2>3. \A k : Nowhere(k, i)
    <3>1. work[s] = Free
      BY <1>2, <1>6 DEF Base, Patient, On
    <3>2. ~Pending(i, s)
      BY <1>2, <1>6 DEF Undisturbed
    <3>. QED
      BY <3>1, <3>2 DEF Pending, Nowhere, Doing
  <2>4. i \in Present => rows[i].numbered
    BY <1>2, <1>6 DEF Undisturbed
  <2>5. \A k : Nowhere(k, i)'
    BY <1>1, <2>3 DEF Nowhere, Doing
  <2>6. ReactsRight(i)'
    BY <2>5 DEF ReactsRight, Nowhere
  <2>7. /\ send'[s] = send[s] /\ send[s] \in Seq(Events)
        /\ conn'[s] = "rows" /\ rows' = rows /\ reactions' = reactions
    BY <1>0, <1>1, <1>6 DEF TypeOK, TypeSession, table
  <2>8. \A w : MarkComes(s, i, w)' <=> MarkComes(s, i, w)
    BY <1>3, <2>7 DEF MarkComes
  <2>9. ASSUME i \in window'[s]
        PROVE  Right(s, i)'
    <3>1. i \in Visible(UserOf[s]) /\ i \in Present
      <4>1. i \in Present
        BY <1>1, <1>6, <2>9, RecentIsFinite
      <4>. QED
        BY <1>1, <1>6, <2>4, <2>9, <4>1
    <3>2. /\ rows[i].deleted => Nothing(hist'[s], MsgOf(i))
          /\ ~rows[i].deleted => ~Nothing(hist'[s], MsgOf(i))
          /\ Nothing(hist'[s], MsgOf(i) \ TextAs(i, rows[i].body))
      BY <1>1, <1>6, <2>4, <2>9, <3>1
    <3>3. MarksRight(s, i)'
      <4>1. \A w \in Users : MarkComes(s, i, w) => <<i, w>> \in reactions
        <5>1. \A w : \A t \in Sessions : Doing(t, "react", i) => work[t].ev.who # w
          BY <2>3 DEF Nowhere
        <5>. QED
          BY <1>2, <1>6, <2>2, <5>1 DEF MarksRight, MarkRight
      <4>. QED
        BY <2>7, <2>8, <2>9, <4>1 DEF MarksRight, MarkRight
    <3>4. Counted(s, i)'
      <4>1. Len(<<>>) = 0 /\ Single(send[s], MsgOf(i))
        BY <2>2 DEF Single, Nothing
      <4>. QED
        BY <1>3, <2>2, <2>5, <2>7, <4>1 DEF Counted
    <3>5. Alone(i)'
      BY <2>5 DEF Alone, Nowhere
    <3>6. BodyRight(s, i)'
      BY <1>3, <2>2, <2>5, <2>7, <3>2 DEF BodyRight, Nowhere
    <3>7. LifeRight(s, i)'
      <4>1. EndComes(s, i)
        <5>. DEFINE K == LifeOf(i)
                    V == DelOf(i)
        <5>1. V \subseteq K /\ K \ V = MsgOf(i)
          BY DEF LifeOf, DelOf, MsgOf
        <5>. HIDE DEF K, V
        <5>2. Nothing(send[s], K \ V)
          BY <2>2, <5>1
        <5>3. Nothing(send[s], K) \/ Ends(send[s], K, V)
          BY <2>7, <5>1, <5>2, EndsSome
        <5>. QED
          BY <2>2, <5>3 DEF EndComes, K, V
      <4>2. EndComes(s, i)'
        BY <1>3, <2>7, <4>1 DEF EndComes
      <4>. QED
        BY <2>5, <2>7, <3>2, <4>2 DEF LifeRight
    <3>. QED
      BY <2>6, <2>7, <3>3, <3>4, <3>5, <3>6, <3>7 DEF Right, Followed
  <2>10. ASSUME i \in Covered(s)', i \notin window'[s]
         PROVE  Right(s, i)'
    <3>1. ~(i < nextId)
      <4>1. i >= nextId
        BY <1>1, <1>6, <2>10 DEF Covered
      <4>2. i \in Nat /\ nextId \in Nat
        BY <1>0, DeliveryAssumption DEF Ids, TypeOK, TypeTable
      <4>. QED
        BY <4>1, <4>2
    <3>2. /\ Nothing(send[s], AboutOf(i)) /\ Copy(s, i) = <<>>
          /\ \A w : ~Marked(s, i, w) /\ <<i, w>> \notin reactions
          /\ rows[i] = NoRow
      BY <1>0, <3>1, Unheard
    <3>3. Nothing(hist'[s], AboutOf(i)) /\ \A w : Nothing(hist'[s], MarkOf(i, w))
      BY <1>1, <1>6, <2>10
    <3>4. i \notin Present' /\ i \notin Visible(UserOf[s])'
      BY <2>7, <3>2 DEF Present, Visible
    <3>5. MarksRight(s, i)'
      <4>1. \A w : ~MarkComes(s, i, w)
        <5>1. \A w : MarkAs(i, w) \subseteq AboutOf(i)
          BY Sets
        <5>. QED
          BY <3>2, <5>1 DEF MarkComes, Ends, Nothing
      <4>. QED
        BY <2>7, <2>8, <2>10, <3>2, <3>3, <4>1 DEF MarksRight, MarkRight
    <3>6. Counted(s, i)'
      <4>1. Len(<<>>) = 0 /\ Single(send[s], MsgOf(i))
        BY <2>2 DEF Single, Nothing
      <4>. QED
        BY <1>3, <2>2, <2>5, <2>7, <4>1 DEF Counted
    <3>7. Alone(i)'
      BY <2>5 DEF Alone, Nowhere
    <3>. QED
      BY <2>6, <2>7, <3>4, <3>5, <3>6, <3>7 DEF Right, Followed
  <2>11. ASSUME i \notin Covered(s)'
         PROVE  Right(s, i)'
    BY <2>6, <2>7, <2>11 DEF Right
  <2>. QED
    BY <2>9, <2>10, <2>11
<1>. QED
  BY <1>5, <1>6

\* What the handler puts into the buffer is about i.
Replays(s, i) ==
    /\ Past(s) /\ hist[s] # <<>> /\ Head(hist[s]) \in AboutOf(i)
    /\ send'[s] = Append(send[s], Head(hist[s])) /\ hist'[s] = Tail(hist[s])
    /\ UNCHANGED <<table, work>> /\ SameStage(s) /\ Copy(s, i)' = Copy(s, i)
    /\ \A w \in Users : Marked(s, i, w)' <=> Marked(s, i, w)

LEMMA ReplaysFrame ==
    ASSUME Base, NEW s \in Sessions, NEW i \in Ids, Replays(s, i), Right(s, i)
    PROVE  /\ TypeOK /\ send[s] \in Seq(Events) /\ hist[s] \in Seq(Events) /\ Head(hist[s]) \in Fresh
           /\ Head(hist[s]) \in Events /\ Head(hist[s]).id = i
           /\ i \in window[s] /\ i \in Covered(s) /\ MarksRight(s, i) /\ Followed(s, i)
           /\ \A k : SameDoing(k, i) /\ (Nowhere(k, i)' <=> Nowhere(k, i))
           /\ SameMarks(i) /\ ReactsRight(i)' /\ Alone(i)'
           /\ rows' = rows /\ reactions' = reactions /\ Present' = Present
           /\ Visible(UserOf[s])' = Visible(UserOf[s])
           /\ conn'[s] = conn[s] /\ window'[s] = window[s] /\ Covered(s)' = Covered(s) /\ Past(s)'
           /\ \A K : Head(hist[s]) \notin K => SameBuffers(s, K)
           /\ conn[s] = "rows" => /\ Head(hist[s]).k \in {"msg", "delete"}
                                  /\ Nothing(Tail(hist[s]), AboutOf(i))
           /\ conn[s] = "reactions" => Head(hist[s]).k = "react" /\ Head(hist[s]).body = 1
<1>. DEFINE e == Head(hist[s])
<1>1. /\ TypeOK /\ send[s] \in Seq(Events) /\ hist[s] \in Seq(Events) /\ hist[s] \in Seq(Fresh)
      /\ hist[s] # <<>> /\ HistOf(s) /\ e \in AboutOf(i) /\ Past(s)
  BY DEF Base, Known, HistShape, TypeOK, TypeSession, Replays
<1>2. e \in Fresh /\ e \in Events /\ e = hist[s][1] /\ 1 \in 1..Len(hist[s])
  BY <1>1
<1>3. e.id = i
  BY <1>1 DEF AboutOf
<1>4. i \in window[s] /\ i \in Covered(s)
  BY <1>1, <1>2, <1>3 DEF HistOf, Covered, Ids
<1>5. UNCHANGED <<table, work>> /\ SameStage(s)
  BY DEF Replays
<1>6. \A k : SameDoing(k, i) /\ (Nowhere(k, i)' <=> Nowhere(k, i))
  BY <1>5 DEF SameDoing, Doing, Nowhere
<1>7. /\ SameMarks(i) /\ rows' = rows /\ reactions' = reactions /\ Present' = Present
      /\ Visible(UserOf[s])' = Visible(UserOf[s])
      /\ conn'[s] = conn[s] /\ window'[s] = window[s] /\ Covered(s)' = Covered(s) /\ Past(s)'
  BY <1>1, <1>5 DEF SameMarks, table, Present, Visible, SameStage, Covered, Past
<1>8. MarksRight(s, i) /\ Followed(s, i) /\ ReactsRight(i)
  BY <1>1, <1>4 DEF Right
<1>9. ReactsRight(i)'
  BY <1>1, <1>6, <1>7, <1>8, KeepReacts
<1>10. Alone(i)'
  BY <1>6, <1>8, KeepAlone DEF Followed
<1>11. \A K : e \notin K => SameBuffers(s, K)
  <2>1. send'[s] = Append(send[s], e) /\ hist'[s] = Tail(hist[s])
    BY DEF Replays
  <2>. QED
    BY <1>1, <1>2, <2>1 DEF SameBuffers, Beside
<1>12. conn[s] = "rows" => e.k \in {"msg", "delete"} /\ Nothing(Tail(hist[s]), AboutOf(i))
  <2>1. conn[s] = "rows" => e.k \in {"msg", "delete"} /\ Single(hist[s], AboutOf(i))
    BY <1>1, <1>2 DEF HistOf
  <2>. DEFINE K == AboutOf(i)
              V == {}
  <2>2. V \subseteq K /\ e \in K
    BY <1>1
  <2>. HIDE DEF K, V
  <2>3. Single(hist[s], K) => Nothing(Tail(hist[s]), K)
    BY <1>1, <2>2, TailQueue
  <2>. QED
    BY <2>1, <2>3 DEF K
<1>13. conn[s] = "reactions" => e.k = "react" /\ e.body = 1
  BY <1>1, <1>2 DEF HistOf
<1>. QED
  BY <1>1, <1>2, <1>3, <1>4, <1>6, <1>7, <1>8, <1>9, <1>10, <1>11, <1>12, <1>13

LEMMA ReplaysMessage ==
    ASSUME Base, NEW s \in Sessions, NEW i \in Ids, Replays(s, i), Right(s, i), Head(hist[s]).k = "msg"
    PROVE  Right(s, i)'
<1>. DEFINE e == Head(hist[s])
            b == rows[i].body
<1>0. /\ TypeOK /\ send[s] \in Seq(Events) /\ hist[s] \in Seq(Events) /\ hist[s] # <<>> /\ e.k = "msg"
      /\ e \in Events /\ e.id = i /\ send'[s] = Append(send[s], e) /\ hist'[s] = Tail(hist[s])
      /\ Copy(s, i)' = Copy(s, i) /\ SameStage(s)
      /\ \A w \in Users : Marked(s, i, w)' <=> Marked(s, i, w)
  BY ReplaysFrame DEF Replays
<1>1. /\ MarksRight(s, i) /\ Followed(s, i)
      /\ \A k : SameDoing(k, i) /\ (Nowhere(k, i)' <=> Nowhere(k, i))
      /\ SameMarks(i) /\ ReactsRight(i)' /\ Alone(i)'
      /\ rows' = rows /\ Present' = Present /\ Visible(UserOf[s])' = Visible(UserOf[s])
      /\ conn'[s] = conn[s] /\ Past(s)'
      /\ \A K : Head(hist[s]) \notin K => SameBuffers(s, K)
      /\ conn[s] = "rows" => Nothing(Tail(hist[s]), AboutOf(i))
      /\ conn[s] = "reactions" => Head(hist[s]).k = "react"
  BY ReplaysFrame
<1>2. conn[s] = "rows"
  BY <1>0, <1>1 DEF Replays, Past
<1>3. e \in MsgOf(i) /\ e \in TextOf(i) /\ e \in LifeOf(i) /\ e \notin DelOf(i) /\ e \notin MarksOf(i)
  BY <1>0 DEF MsgOf, TextOf, LifeOf, DelOf, MarksOf
<1>4. ~Nothing(hist[s], MsgOf(i)) /\ Nothing(hist'[s], MsgOf(i))
      /\ (Nothing(hist[s], MsgOf(i) \ TextAs(i, b)) => e \in TextAs(i, b))
  <2>1. e = hist[s][1] /\ 1 \in 1..Len(hist[s])
    BY <1>0
  <2>2. MsgOf(i) \subseteq AboutOf(i)
    BY Sets
  <2>. QED
    BY <1>0, <1>1, <1>2, <1>3, <2>1, <2>2 DEF Nothing
<1>. HIDE DEF e, b
<1>5. Copy(s, i) = <<>> /\ Nothing(send[s], MsgOf(i)) /\ Nowhere("msg", i)
  BY <1>1, <1>4 DEF Followed, Counted
<1>6. MarksRight(s, i)'
  <2>1. SameBuffers(s, MarksOf(i))
    BY <1>1, <1>3 DEF e
  <2>. QED
    BY <1>0, <1>1, <2>1, KeepMarks
<1>7. Counted(s, i)'
  <2>1. Single(send[s], MsgOf(i)) /\ Len(<<>>) = 0
    BY <1>5 DEF Single, Nothing
  <2>2. Single(Append(send[s], e), MsgOf(i))
    <3>. DEFINE K == MsgOf(i)
                V == {}
    <3>1. V \subseteq K /\ Nothing(send[s], K) /\ Single(send[s], K)
      BY <1>5, <2>1
    <3>. HIDE DEF K, V
    <3>2. Single(Append(send[s], e), K)
      BY <1>0, <3>1, AppendQueue
    <3>. QED
      BY <3>2 DEF K
  <2>. QED
    BY <1>0, <1>1, <1>4, <1>5, <2>1, <2>2 DEF Counted
<1>8. ASSUME i \in Present
      PROVE  BodyRight(s, i)'
  <2>1. BodyRight(s, i)
    BY <1>1, <1>8 DEF Followed
  <2>2. \A t \in Sessions : (Doing(t, "edit", i) \/ Doing(t, "msg", i))' => work'[t].ev.body = b
    BY <1>1, <2>1 DEF BodyRight, SameDoing, b
  <2>3. Nothing(hist'[s], MsgOf(i) \ TextAs(i, b))
    BY <1>4 DEF Nothing
  <2>4. ASSUME Nowhere("edit", i)
        PROVE  Ends(send'[s], TextOf(i), TextAs(i, b))
    <3>1. e \in TextAs(i, b) /\ TextAs(i, b) \subseteq TextOf(i)
      BY <1>4, <2>1, <2>4, Sets DEF BodyRight, b
    <3>2. Ends(Append(send[s], e), TextOf(i), TextAs(i, b))
      BY <1>0, <3>1, AppendQueue
    <3>. QED
      BY <1>0, <3>2
  <2>5. rows'[i].body = b
    BY <1>1 DEF b
  <2>. QED
    BY <1>1, <2>2, <2>3, <2>4, <2>5 DEF BodyRight, TextComes
<1>9. ASSUME i \in Visible(UserOf[s])
      PROVE  LifeRight(s, i)'
  <2>. DEFINE K == LifeOf(i)
              V == DelOf(i)
  <2>1. V \subseteq K /\ e \in K /\ e \notin V
    BY <1>3, Sets
  <2>. HIDE DEF K, V
  <2>2. ~Nothing(Append(send[s], e), K) /\ ~Ends(Append(send[s], e), K, V)
    BY <1>0, <2>1, AppendQueue
  <2>3. ~EndComes(s, i)'
    BY <1>0, <2>2 DEF EndComes, K, V
  <2>4. LifeRight(s, i)
    BY <1>1, <1>9 DEF Followed
  <2>. QED
    BY <1>1, <1>4, <1>5, <2>3, <2>4 DEF LifeRight
<1>. QED
  BY <1>1, <1>2, <1>6, <1>7, <1>8, <1>9 DEF Right, Followed

LEMMA ReplaysDelete ==
    ASSUME Base, NEW s \in Sessions, NEW i \in Ids, Replays(s, i), Right(s, i), Head(hist[s]).k = "delete"
    PROVE  Right(s, i)'
<1>. DEFINE e == Head(hist[s])
<1>0. /\ TypeOK /\ send[s] \in Seq(Events) /\ e \in Events /\ e.id = i /\ e.k = "delete" /\ e \in Fresh
      /\ send'[s] = Append(send[s], e) /\ Copy(s, i)' = Copy(s, i) /\ SameStage(s)
      /\ \A w \in Users : Marked(s, i, w)' <=> Marked(s, i, w)
  BY ReplaysFrame DEF Replays
<1>1. /\ MarksRight(s, i) /\ Followed(s, i)
      /\ \A k : SameDoing(k, i) /\ (Nowhere(k, i)' <=> Nowhere(k, i))
      /\ SameMarks(i) /\ ReactsRight(i)' /\ Alone(i)'
      /\ rows' = rows /\ Present' = Present /\ Visible(UserOf[s])' = Visible(UserOf[s])
      /\ conn'[s] = conn[s] /\ Past(s)
      /\ \A K : Head(hist[s]) \notin K => SameBuffers(s, K)
  BY ReplaysFrame DEF Replays
<1>2. /\ SameBuffers(s, MsgOf(i)) /\ SameBuffers(s, TextOf(i)) /\ SameBuffers(s, MarksOf(i))
      /\ e \in DelOf(i) /\ DelOf(i) \subseteq LifeOf(i)
  <2>1. e \notin MsgOf(i) /\ e \notin TextOf(i) /\ e \notin MarksOf(i) /\ e \in DelOf(i)
    BY <1>0 DEF MsgOf, TextOf, MarksOf, DelOf
  <2>. QED
    BY <1>1, <2>1, Sets
<1>3. MarksRight(s, i)'
  BY <1>0, <1>1, <1>2, KeepMarks
<1>4. Counted(s, i)'
  BY <1>0, <1>1, <1>2, KeepCounted DEF Followed
<1>5. i \in Present => BodyRight(s, i)'
  BY <1>0, <1>1, <1>2, KeepBody DEF Followed
<1>6. ASSUME i \in Visible(UserOf[s])
      PROVE  LifeRight(s, i)'
  <2>1. rows[i].deleted
    BY <1>0, <1>6 DEF Fresh, DelTrue, Visible, Present, Ids
  <2>. HIDE DEF e
  <2>2. Ends(Append(send[s], e), LifeOf(i), DelOf(i))
    BY <1>0, <1>2, AppendQueue
  <2>3. EndComes(s, i)'
    BY <1>0, <2>2 DEF EndComes
  <2>4. LifeRight(s, i)
    BY <1>1, <1>6 DEF Followed
  <2>5. Nothing(hist'[s], MsgOf(i)) <=> Nothing(hist[s], MsgOf(i))
    <3>. DEFINE K == MsgOf(i)
                V == {}
    <3>1. V \subseteq K /\ K \subseteq K /\ Beside(hist[s], hist'[s], K) /\ hist[s] \in Seq(Events)
      BY <1>0, <1>2 DEF SameBuffers, TypeOK, TypeSession
    <3>. HIDE DEF K, V
    <3>2. Nothing(hist'[s], K) <=> Nothing(hist[s], K)
      BY <3>1, BesideKeeps
    <3>. QED
      BY <3>2 DEF K
  <2>. QED
    BY <1>1, <2>1, <2>3, <2>4, <2>5 DEF LifeRight
<1>. QED
  BY <1>1, <1>3, <1>4, <1>5, <1>6 DEF Right, Followed, Past

LEMMA ReplaysReaction ==
    ASSUME Base, NEW s \in Sessions, NEW i \in Ids, Replays(s, i), Right(s, i), Head(hist[s]).k = "react"
    PROVE  Right(s, i)'
<1>. DEFINE e == Head(hist[s])
<1>0. /\ TypeOK /\ send[s] \in Seq(Events) /\ hist[s] \in Seq(Events) /\ hist[s] # <<>>
      /\ e \in Events /\ e.id = i /\ e.k = "react"
      /\ send'[s] = Append(send[s], e) /\ hist'[s] = Tail(hist[s])
      /\ Copy(s, i)' = Copy(s, i) /\ SameStage(s)
      /\ \A w \in Users : Marked(s, i, w)' <=> Marked(s, i, w)
  BY ReplaysFrame DEF Replays
<1>1. /\ MarksRight(s, i) /\ Followed(s, i)
      /\ \A k : SameDoing(k, i) /\ (Nowhere(k, i)' <=> Nowhere(k, i))
      /\ SameMarks(i) /\ ReactsRight(i)' /\ Alone(i)'
      /\ rows' = rows /\ Present' = Present /\ Visible(UserOf[s])' = Visible(UserOf[s])
      /\ conn'[s] = conn[s] /\ Past(s)
      /\ \A K : Head(hist[s]) \notin K => SameBuffers(s, K)
      /\ conn[s] = "rows" => Head(hist[s]).k \in {"msg", "delete"}
      /\ conn[s] = "reactions" => Head(hist[s]).body = 1
  BY ReplaysFrame DEF Replays
<1>2. conn[s] = "reactions" /\ e.body = 1
  BY <1>0, <1>1 DEF Past
<1>3. SameBuffers(s, MsgOf(i)) /\ SameBuffers(s, TextOf(i)) /\ SameBuffers(s, LifeOf(i))
  <2>1. e \notin MsgOf(i) /\ e \notin TextOf(i) /\ e \notin LifeOf(i)
    BY <1>0 DEF MsgOf, TextOf, LifeOf
  <2>. QED
    BY <1>1, <2>1
<1>4. Counted(s, i)'
  BY <1>0, <1>1, <1>3, KeepCounted DEF Followed
<1>5. i \in Present => BodyRight(s, i)'
  BY <1>0, <1>1, <1>3, KeepBody DEF Followed
<1>6. i \in Visible(UserOf[s]) => LifeRight(s, i)'
  BY <1>0, <1>1, <1>3, KeepLife DEF Followed
<1>7. ASSUME NEW w \in Users
      PROVE  MarkRight(s, i, w)'
  <2>. DEFINE K == MarkOf(i, w)
              V == MarkAs(i, w)
  <2>1. V \subseteq K /\ (e \in K <=> e.who = w) /\ (e \in V <=> e.who = w)
    BY <1>0, <1>2, Sets DEF MarkOf, MarksOf, MarkAs
  <2>. HIDE DEF K, V, e
  <2>2. /\ Nothing(Append(send[s], e), K) <=> e \notin K /\ Nothing(send[s], K)
        /\ Ends(Append(send[s], e), K, V) <=> e \in V \/ (e \notin K /\ Ends(send[s], K, V))
    BY <1>0, <2>1, AppendQueue
  <2>3. Nothing(hist[s], K) <=> e \notin K /\ Nothing(hist'[s], K)
    <3>1. Nothing(hist[s], K) <=> Head(hist[s]) \notin K /\ Nothing(Tail(hist[s]), K)
      BY <1>0, <2>1, TailQueue
    <3>. QED
      BY <1>0, <3>1 DEF e
  <2>4. (MarkComes(s, i, w) \/ ~Nothing(hist[s], K)) <=> (MarkComes(s, i, w)' \/ ~Nothing(hist'[s], K))
    <3>1. CASE e.who = w
      BY <1>0, <2>1, <2>2, <2>3, <3>1 DEF MarkComes, K, V
    <3>2. CASE e.who # w
      BY <1>0, <2>1, <2>2, <2>3, <3>2 DEF MarkComes, K, V
    <3>. QED
      BY <3>1, <3>2
  <2>5. MarkRight(s, i, w)
    BY <1>1 DEF MarksRight
  <2>6. <<i, w>> \in reactions' <=> <<i, w>> \in reactions
    BY <1>1 DEF SameMarks
  <2>7. (\A t \in Sessions : Doing(t, "react", i) => work[t].ev.who # w)'
           => \A t \in Sessions : Doing(t, "react", i) => work[t].ev.who # w
    BY <1>1 DEF SameDoing
  <2>. QED
    BY <1>1, <1>2, <2>4, <2>5, <2>6, <2>7 DEF MarkRight, K
<1>8. MarksRight(s, i)'
  BY <1>7 DEF MarksRight
<1>. QED
  BY <1>1, <1>2, <1>4, <1>5, <1>6, <1>8 DEF Right, Followed

LEMMA ReplayRight ==
    ASSUME Base, AllRight, NEW s0 \in Sessions, Replay(s0), NEW s \in Live', NEW i \in Ids, Undisturbed(s, i)'
    PROVE  Right(s, i)'
<1>. DEFINE e == Head(hist[s0])
<1>1. /\ Past(s0) /\ hist[s0] # <<>> /\ send' = Put({s0}, e) /\ hist' = [hist EXCEPT ![s0] = Tail(hist[s0])]
      /\ disturbed' = disturbed \cup (IF Full(s0) THEN {<<UserOf[s0], e.id>>} ELSE {})
      /\ UNCHANGED <<table, work, conn, shown, marks, window, since>>
  BY DEF Replay, client, Past
<1>2. s \in Sessions /\ s \in Live /\ Undisturbed(s, i) /\ Right(s, i) /\ SameStage(s)
      /\ hist \in [Sessions -> Seq(Events)] /\ e \in Events
  <2>1. s \in Sessions /\ s \in Live /\ Undisturbed(s, i) /\ SameStage(s)
    BY <1>1 DEF Live, Undisturbed, SameStage
  <2>2. hist \in [Sessions -> Seq(Events)]
    BY DEF Base, TypeOK, TypeSession
  <2>3. e \in Events
    BY <1>1, <2>2
  <2>. QED
    BY <2>1, <2>2, <2>3 DEF AllRight
<1>3. /\ Copy(s, i)' = Copy(s, i) /\ \A w \in Users : Marked(s, i, w)' <=> Marked(s, i, w)
  BY <1>1 DEF Copy, Marked
<1>4. CASE s # s0
  <2>1. send'[s] = send[s] /\ hist'[s] = hist[s]
    BY <1>1, <1>2, <1>4 DEF Put
  <2>. QED
    BY <1>1, <1>2, <1>3, <2>1, BystanderRight
<1>5. CASE s = s0 /\ e \notin AboutOf(i)
  <2>1. hist'[s] = Tail(hist[s]) /\ (send'[s] = send[s] \/ send'[s] = Append(send[s], e))
    BY <1>1, <1>2, <1>5 DEF Put
  <2>2. SameBuffers(s, AboutOf(i))
    BY <1>1, <1>2, <1>5, <2>1 DEF SameBuffers, Beside
  <2>. QED
    BY <1>1, <1>2, <1>3, <2>2, ServesElsewhere
<1>6. CASE s = s0 /\ e \in AboutOf(i)
  <2>1. ~Full(s0)
    BY <1>1, <1>6 DEF Undisturbed, AboutOf
  <2>2. hist'[s] = Tail(hist[s]) /\ send'[s] = Append(send[s], e)
    BY <1>1, <1>2, <1>6, <2>1 DEF Put
  <2>3. Replays(s, i)
    BY <1>1, <1>2, <1>3, <1>6, <2>2 DEF Replays
  <2>4. e.k \in {"msg", "delete", "react"}
    BY <1>1, <1>2, <1>6, <2>3, ReplaysFrame DEF Past
  <2>. QED
    BY <1>2, <1>6, <2>3, <2>4, ReplaysMessage, ReplaysDelete, ReplaysReaction
<1>. QED
  BY <1>4, <1>5, <1>6

\* What the reactions that LoadReactions has read say.
LEMMA LoadReactionsReads ==
    ASSUME Base, NEW s \in Sessions, LoadReactions(s), NEW i \in Ids
    PROVE  /\ Past(s) /\ conn[s] = "rows" /\ conn'[s] = "reactions" /\ hist[s] = <<>>
           /\ UNCHANGED <<table, work, send, shown, marks, window, since, disturbed>>
           /\ \A t \in Sessions \ {s} : SameStage(t) /\ hist'[t] = hist[t]
           /\ Nothing(hist'[s], AboutOf(i) \ MarksOf(i))
           /\ \A w \in Users : ~Nothing(hist'[s], MarkOf(i, w)) <=> i \in window[s] /\ <<i, w>> \in reactions
<1>. DEFINE of == {r \in reactions : r[1] \in window[s]}
<1>0. TypeOK /\ HistShape'
  BY LoadReactionsKnown DEF Base
<1>1. PICK list \in Lists(of) : hist' = [hist EXCEPT ![s] = [n \in DOMAIN list |->
                                    Ev("react", list[n][1], 1, list[n][2], Nobody)]]
  BY DEF LoadReactions
<1>2. /\ conn[s] = "rows" /\ hist[s] = <<>> /\ conn' = [conn EXCEPT ![s] = "reactions"]
      /\ UNCHANGED <<table, work, send, shown, marks, window, since, disturbed>>
  BY DEF LoadReactions, client, ghost
<1>3. IsFiniteSet(of) /\ of \subseteq Ids \X Users
  BY <1>0, FS_Subset DEF TypeOK, TypeTable
<1>4. Cardinality(of) \in Nat /\ DOMAIN list = 1..Cardinality(of) /\ \A n \in DOMAIN list : list[n] \in of
  BY <1>3, ListsFill
<1>5. \A x \in of : \E n \in DOMAIN list : list[n] = x
  BY <1>3, ListsOnto
<1>6. /\ conn'[s] = "reactions"
      /\ hist'[s] = [n \in DOMAIN list |-> Ev("react", list[n][1], 1, list[n][2], Nobody)]
      /\ \A t \in Sessions \ {s} : SameStage(t) /\ hist'[t] = hist[t]
  BY <1>0, <1>1, <1>2 DEF TypeOK, TypeSession, SameStage
<1>7. /\ \A r : r \in of <=> r \in reactions /\ r[1] \in window[s]
      /\ \A w : <<i, w>>[1] = i
  OBVIOUS
<1>. HIDE DEF of
<1>8. Len(hist'[s]) = Cardinality(of)
      /\ \A n \in 1..Len(hist'[s]) :
            n \in DOMAIN list /\ hist'[s][n] = Ev("react", list[n][1], 1, list[n][2], Nobody)
  BY <1>4, <1>6
<1>9. HistOf(s)'
  BY <1>0 DEF HistShape
<1>10. Nothing(hist'[s], AboutOf(i) \ MarksOf(i))
  BY <1>6, <1>9 DEF HistOf, Nothing, AboutOf, MarksOf
<1>11. ASSUME NEW w \in Users
       PROVE  ~Nothing(hist'[s], MarkOf(i, w)) <=> i \in window[s] /\ <<i, w>> \in reactions
  <2>1. ASSUME NEW n \in 1..Len(hist'[s]), hist'[s][n] \in MarkOf(i, w)
        PROVE  i \in window[s] /\ <<i, w>> \in reactions
    <3>1. list[n] \in of /\ hist'[s][n] = Ev("react", list[n][1], 1, list[n][2], Nobody)
      BY <1>4, <1>8
    <3>2. list[n][1] = i /\ list[n][2] = w
      BY <2>1, <3>1 DEF Ev, MarkOf, MarksOf
    <3>3. list[n] = <<list[n][1], list[n][2]>>
      BY <1>3, <3>1
    <3>. QED
      BY <1>7, <3>1, <3>2, <3>3
  <2>2. ASSUME i \in window[s], <<i, w>> \in reactions
        PROVE  ~Nothing(hist'[s], MarkOf(i, w))
    <3>1. <<i, w>> \in of
      BY <1>7, <2>2
    <3>2. PICK n \in DOMAIN list : list[n] = <<i, w>>
      BY <1>5, <3>1
    <3>. DEFINE e == Ev("react", i, 1, w, Nobody)
    <3>3. n \in 1..Len(hist'[s]) /\ hist'[s][n] = e
      BY <1>4, <1>8, <3>2
    <3>4. e \in MarkOf(i, w)
      <4>1. i \in 0..MaxId
        BY DeliveryAssumption DEF Ids
      <4>2. e \in Events
        BY <4>1, EventType DEF Kinds, People
      <4>. QED
        BY <4>2 DEF MarkOf, MarksOf, Ev
    <3>. QED
      BY <3>3, <3>4 DEF Nothing
  <2>. QED
    BY <2>1, <2>2 DEF Nothing
<1>. QED
  BY <1>2, <1>6, <1>10, <1>11 DEF Past

LEMMA LoadReactionsRight ==
    ASSUME Base, AllRight, NEW s0 \in Sessions, LoadReactions(s0), NEW s \in Live', NEW i \in Ids,
           Undisturbed(s, i)'
    PROVE  Right(s, i)'
<1>0. s \in Sessions /\ TypeOK
  BY DEF Live, Base
<1>1. /\ Past(s0) /\ conn[s0] = "rows" /\ conn'[s0] = "reactions" /\ hist[s0] = <<>>
      /\ UNCHANGED <<table, work, send, shown, marks, window, since, disturbed>>
      /\ \A t \in Sessions \ {s0} : SameStage(t) /\ hist'[t] = hist[t]
      /\ Nothing(hist'[s0], AboutOf(i) \ MarksOf(i))
      /\ \A w \in Users : ~Nothing(hist'[s0], MarkOf(i, w)) <=> i \in window[s0] /\ <<i, w>> \in reactions
  BY LoadReactionsReads
<1>2. Copy(s, i)' = Copy(s, i) /\ \A w : Marked(s, i, w)' <=> Marked(s, i, w)
  BY <1>1 DEF Copy, Marked
<1>3. Undisturbed(s, i) /\ s \in Live
  BY <1>0, <1>1 DEF Undisturbed, Live, SameStage
<1>4. CASE s # s0
  <2>1. SameStage(s) /\ hist'[s] = hist[s] /\ send'[s] = send[s]
    BY <1>0, <1>1, <1>4
  <2>. QED
    BY <1>1, <1>2, <1>3, <2>1, BystanderRight
<1>5. CASE s = s0
  <2>1. Right(s, i) /\ Past(s) /\ hist[s] = <<>> /\ conn[s] = "rows"
    BY <1>1, <1>3, <1>5 DEF AllRight
  <2>2. /\ conn'[s] = "reactions" /\ Covered(s)' = Covered(s) /\ rows' = rows /\ reactions' = reactions
        /\ send'[s] = send[s] /\ Present' = Present /\ Visible(UserOf[s])' = Visible(UserOf[s])
    BY <1>1, <1>5 DEF Covered, table, Present, Visible
  <2>3. \A k : SameDoing(k, i) /\ (Nowhere(k, i)' <=> Nowhere(k, i))
    BY <1>1 DEF SameDoing, Doing, Nowhere
  <2>4. SameMarks(i) /\ ReactsRight(i)'
    <3>1. SameMarks(i)
      BY <2>2 DEF SameMarks
    <3>. QED
      BY <1>0, <2>1, <2>3, <3>1, KeepReacts DEF Right
  <2>5. ASSUME i \in Covered(s)
        PROVE  MarksRight(s, i)' /\ Followed(s, i)'
    <3>1. MarksRight(s, i) /\ Followed(s, i)
      BY <2>1, <2>5 DEF Right
    <3>2. Nothing(hist[s], MsgOf(i)) /\ Nothing(hist'[s], MsgOf(i)) /\ \A w : Nothing(hist[s], MarkOf(i, w))
      <4>1. MsgOf(i) \subseteq AboutOf(i) \ MarksOf(i)
        BY DEF MsgOf, AboutOf, MarksOf
      <4>. QED
        BY <1>1, <1>5, <2>1, <4>1 DEF Nothing
    <3>3. ASSUME NEW w \in Users
          PROVE  MarkRight(s, i, w)'
      <4>1. MarkRight(s, i, w)
        BY <3>1 DEF MarksRight
      <4>2. MarkComes(s, i, w)' <=> MarkComes(s, i, w)
        BY <1>2, <2>2 DEF MarkComes
      <4>3. (\A t \in Sessions : Doing(t, "react", i) => work[t].ev.who # w)'
               => \A t \in Sessions : Doing(t, "react", i) => work[t].ev.who # w
        BY <2>3 DEF SameDoing
      <4>4. ~Nothing(hist'[s], MarkOf(i, w)) <=> i \in window[s] /\ <<i, w>> \in reactions
        BY <1>1, <1>5
      <4>. QED
        BY <2>1, <2>2, <3>2, <4>1, <4>2, <4>3, <4>4 DEF MarkRight
    <3>4. Counted(s, i)'
      BY <1>2, <2>2, <2>3, <3>1, <3>2 DEF Followed, Counted
    <3>5. Alone(i)'
      BY <2>3, <3>1, KeepAlone DEF Followed
    <3>6. ASSUME i \in Present
          PROVE  BodyRight(s, i)'
      <4>1. BodyRight(s, i)
        BY <3>1, <3>6 DEF Followed
      <4>2. Nothing(hist'[s], MsgOf(i) \ TextAs(i, rows[i].body))
        BY <3>2 DEF Nothing
      <4>3. TextComes(s, i, rows[i].body)' <=> TextComes(s, i, rows[i].body)
        BY <1>2, <2>2 DEF TextComes
      <4>4. \A t \in Sessions : (Doing(t, "edit", i) \/ Doing(t, "msg", i))' => work'[t].ev.body = rows[i].body
        BY <2>3, <4>1 DEF BodyRight, SameDoing
      <4>. QED
        BY <1>2, <2>2, <2>3, <4>1, <4>2, <4>3, <4>4 DEF BodyRight
    <3>7. ASSUME i \in Visible(UserOf[s])
          PROVE  LifeRight(s, i)'
      <4>1. LifeRight(s, i)
        BY <3>1, <3>7 DEF Followed
      <4>2. EndComes(s, i)' <=> EndComes(s, i)
        BY <1>2, <2>2 DEF EndComes
      <4>. QED
        BY <2>2, <2>3, <3>2, <4>1, <4>2 DEF LifeRight
    <3>. QED
      BY <2>2, <3>3, <3>4, <3>5, <3>6, <3>7 DEF MarksRight, Followed
  <2>. QED
    BY <2>2, <2>4, <2>5 DEF Right
<1>. QED
  BY <1>4, <1>5

----------------------------------------------------------------------------
(* The client.                                                                *)

\* What an event does to the transcript of i, unless i is trimmed.
LEMMA MergeShown ==
    ASSUME TypeOK, NEW u \in Users, NEW e \in Events, Merge(u, e), NEW i \in Ids, <<u, i>> \notin disturbed'
    PROVE  LET old == shown[u][i] IN
           /\ e.id # i \/ e.k \in {"react", "note"} => shown'[u][i] = old
           /\ e.id = i /\ e.k = "msg" /\ old = <<>> => shown'[u][i] = <<[body |-> e.body, deleted |-> FALSE]>>
           /\ e.id = i /\ e.k \in {"edit", "delete"} =>
                 Len(shown'[u][i]) = Len(old) /\ (shown'[u][i] = <<>> <=> old = <<>>)
           /\ e.id = i /\ e.k = "edit" /\ old # <<>> =>
                 shown'[u][i][1].body = e.body /\ shown'[u][i][1].deleted = old[1].deleted
           /\ e.id = i /\ e.k = "delete" /\ old # <<>> =>
                 shown'[u][i][1].body = old[1].body /\ shown'[u][i][1].deleted
<1>1. PICK T, new :
         /\ Trims(u, T) /\ new \in Shows(T, e) /\ shown' = [shown EXCEPT ![u] = new]
         /\ disturbed' = disturbed \cup ({u} \X {j \in Ids : T[j] # shown[u][j]})
  BY MergeParts
<1>2. ShowsAs(T, e, new)
  BY <1>1, ShowsKinds DEF Trims
<1>3. T[i] = shown[u][i] /\ shown'[u][i] = new[i]
  BY <1>1 DEF TypeOK, TypeClient
<1>4. e.id # i \/ e.k \in {"react", "note"} => new[i] = T[i]
  BY <1>2 DEF ShowsAs
<1>5. e.id = i /\ e.k = "msg" /\ T[i] = <<>> => new[i] = <<[body |-> e.body, deleted |-> FALSE]>>
  BY <1>2 DEF ShowsAs
<1>6. e.id = i /\ e.k \in {"edit", "delete"} => Len(new[i]) = Len(T[i]) /\ (new[i] = <<>> <=> T[i] = <<>>)
  BY <1>2 DEF ShowsAs
<1>7. e.id = i /\ e.k = "edit" /\ T[i] # <<>> => new[i][1].body = e.body /\ new[i][1].deleted = T[i][1].deleted
  BY <1>2 DEF ShowsAs
<1>8. e.id = i /\ e.k = "delete" /\ T[i] # <<>> => new[i][1].body = T[i][1].body /\ new[i][1].deleted
  BY <1>2 DEF ShowsAs
<1>. QED
  BY <1>3, <1>4, <1>5, <1>6, <1>7, <1>8

\* The client merges an event about i.
Merges(s, i) ==
    /\ send[s] # <<>> /\ Head(send[s]) \in AboutOf(i)
    /\ send'[s] = Tail(send[s]) /\ hist'[s] = hist[s]
    /\ Merge(UserOf[s], Head(send[s])) /\ <<UserOf[s], i>> \notin disturbed'
    /\ UNCHANGED <<table, work>> /\ SameStage(s)

LEMMA MergesFrame ==
    ASSUME Base, NEW s \in Sessions, NEW i \in Ids, Merges(s, i), Right(s, i)
    PROVE  /\ TypeOK /\ send[s] \in Seq(Events)
           /\ Head(send[s]) \in Events /\ Head(send[s]).id = i
           /\ Head(send[s]).k \in {"msg", "edit", "delete", "react"}
           /\ Head(send[s]).k # "react" => marks' = marks
           /\ \A k : SameDoing(k, i) /\ (Nowhere(k, i)' <=> Nowhere(k, i))
           /\ SameMarks(i) /\ ReactsRight(i)' /\ (Alone(i) => Alone(i)')
           /\ rows' = rows /\ reactions' = reactions /\ Present' = Present
           /\ Visible(UserOf[s])' = Visible(UserOf[s])
           /\ conn'[s] = conn[s] /\ window'[s] = window[s] /\ Covered(s)' = Covered(s) /\ (Past(s)' <=> Past(s))
           /\ \A K : Head(send[s]) \notin K => SameBuffers(s, K)
<1>. DEFINE e == Head(send[s])
<1>1. /\ TypeOK /\ TypeMarks /\ send[s] \in Seq(Events) /\ send[s] # <<>>
      /\ e \in AboutOf(i) /\ UserOf[s] \in Users
  BY DeliveryAssumption DEF Base, TypeOK, TypeSession, Merges
<1>2. e \in Events
  BY <1>1
<1>3. e.id = i /\ e.k \in {"msg", "edit", "delete", "react"}
  BY <1>1, <1>2 DEF AboutOf, Events, Kinds
<1>4. e.k # "react" => marks' = marks
  BY <1>1, <1>2, MergeMarks DEF Merges
<1>5. UNCHANGED <<table, work>> /\ SameStage(s)
  BY DEF Merges
<1>6. \A k : SameDoing(k, i) /\ (Nowhere(k, i)' <=> Nowhere(k, i))
  BY <1>5 DEF SameDoing, Doing, Nowhere
<1>7. /\ SameMarks(i) /\ rows' = rows /\ reactions' = reactions /\ Present' = Present
      /\ Visible(UserOf[s])' = Visible(UserOf[s])
      /\ conn'[s] = conn[s] /\ window'[s] = window[s] /\ Covered(s)' = Covered(s) /\ (Past(s)' <=> Past(s))
  BY <1>5 DEF SameMarks, table, Present, Visible, SameStage, Covered, Past
<1>8. ReactsRight(i)'
  BY <1>1, <1>6, <1>7, KeepReacts DEF Right
<1>9. Alone(i) => Alone(i)'
  BY <1>6, KeepAlone
<1>10. \A K : e \notin K => SameBuffers(s, K)
  <2>1. send'[s] = Tail(send[s]) /\ hist'[s] = hist[s]
    BY DEF Merges
  <2>. QED
    BY <1>1, <2>1 DEF SameBuffers, Beside
<1>. QED
  BY <1>1, <1>2, <1>3, <1>4, <1>6, <1>7, <1>8, <1>9, <1>10

LEMMA MergesMessage ==
    ASSUME Base, NEW s \in Sessions, NEW i \in Ids, Merges(s, i), Right(s, i), Head(send[s]).k = "msg"
    PROVE  Right(s, i)'
<1>. DEFINE e == Head(send[s])
            q == Tail(send[s])
            c == [body |-> e.body, deleted |-> FALSE]
<1>0. /\ TypeOK /\ send[s] \in Seq(Events) /\ send[s] # <<>> /\ e \in Events /\ e.id = i /\ e.k = "msg"
      /\ marks' = marks /\ send'[s] = q /\ hist'[s] = hist[s] /\ SameStage(s) /\ UserOf[s] \in Users
  BY MergesFrame, DeliveryAssumption DEF Merges
<1>1. /\ \A k : SameDoing(k, i) /\ (Nowhere(k, i)' <=> Nowhere(k, i))
      /\ SameMarks(i) /\ ReactsRight(i)' /\ (Alone(i) => Alone(i)')
      /\ rows' = rows /\ Present' = Present /\ Visible(UserOf[s])' = Visible(UserOf[s])
      /\ conn'[s] = conn[s] /\ Covered(s)' = Covered(s) /\ (Past(s)' <=> Past(s))
      /\ \A K : Head(send[s]) \notin K => SameBuffers(s, K)
  BY MergesFrame
<1>2. Copy(s, i) = <<>> => Copy(s, i)' = <<c>>
  <2>1. Merge(UserOf[s], e) /\ <<UserOf[s], i>> \notin disturbed'
    BY DEF Merges
  <2>. QED
    BY <1>0, <2>1, MergeShown DEF Copy
<1>3. e \in MsgOf(i) /\ e \in TextOf(i) /\ e \in LifeOf(i) /\ e \notin DelOf(i) /\ e \notin MarksOf(i)
  BY <1>0 DEF MsgOf, TextOf, LifeOf, DelOf, MarksOf
<1>4. MarksRight(s, i) => MarksRight(s, i)'
  <2>1. SameBuffers(s, MarksOf(i)) /\ \A w \in Users : Marked(s, i, w)' <=> Marked(s, i, w)
    BY <1>0, <1>1, <1>3 DEF Marked
  <2>. QED
    BY <1>0, <1>1, <2>1, KeepMarks
<1>. HIDE DEF e
<1>5. /\ ~Nothing(send[s], MsgOf(i)) /\ ~Nothing(send[s], TextOf(i)) /\ ~Nothing(send[s], LifeOf(i))
      /\ Single(send[s], MsgOf(i)) => Single(q, MsgOf(i)) /\ Nothing(q, MsgOf(i))
      /\ Ends(send[s], LifeOf(i), DelOf(i)) <=> Ends(q, LifeOf(i), DelOf(i))
  <2>1. send[s][1] = e /\ 1 \in 1..Len(send[s])
    BY <1>0 DEF e
  <2>2. ~Nothing(send[s], MsgOf(i)) /\ ~Nothing(send[s], TextOf(i)) /\ ~Nothing(send[s], LifeOf(i))
    BY <1>3, <2>1 DEF Nothing
  <2>. HIDE DEF q
  <2>3. Single(send[s], MsgOf(i)) => Single(q, MsgOf(i)) /\ Nothing(q, MsgOf(i))
    <3>. DEFINE K == MsgOf(i)
                V == {}
    <3>1. V \subseteq K /\ e \in K
      BY <1>3
    <3>. HIDE DEF K, V
    <3>2. Single(send[s], K) => Single(Tail(send[s]), K) /\ Nothing(Tail(send[s]), K)
      BY <1>0, <3>1, TailQueue DEF e
    <3>. QED
      BY <3>2 DEF K, q
  <2>4. Ends(send[s], LifeOf(i), DelOf(i)) <=> Ends(q, LifeOf(i), DelOf(i))
    <3>. DEFINE K == LifeOf(i)
                V == DelOf(i)
    <3>1. V \subseteq K /\ e \notin V
      BY <1>3, Sets
    <3>. HIDE DEF K, V
    <3>2. Ends(send[s], K, V) <=> Ends(Tail(send[s]), K, V)
      BY <1>0, <3>1, TailQueue DEF e
    <3>. QED
      BY <3>2 DEF K, V, q
  <2>. QED
    BY <2>2, <2>3, <2>4
<1>6. \A b : Ends(send[s], TextOf(i), TextAs(i, b)) =>
                Ends(q, TextOf(i), TextAs(i, b)) \/ (e.body = b /\ Nothing(q, TextOf(i)))
  <2>. TAKE b
  <2>. DEFINE K == TextOf(i)
              V == TextAs(i, b)
  <2>1. V \subseteq K /\ (e \in V => e.body = b)
    BY DEF TextAs
  <2>. HIDE DEF K, V
  <2>2. Ends(send[s], K, V) => Ends(Tail(send[s]), K, V) \/ (e \in V /\ Nothing(Tail(send[s]), K))
    BY <1>0, <2>1, TailQueue DEF e
  <2>. QED
    BY <2>1, <2>2 DEF K, V
<1>. HIDE DEF q
<1>7. conn[s] # "fetch"
  BY <1>5 DEF Right, Early
<1>8. ASSUME Followed(s, i)
      PROVE  Followed(s, i)'
  <2>1. /\ Copy(s, i) = <<>> /\ Single(q, MsgOf(i)) /\ Nothing(q, MsgOf(i))
        /\ Nowhere("msg", i) /\ Nothing(hist[s], MsgOf(i)) /\ Alone(i)'
    BY <1>1, <1>5, <1>8 DEF Followed, Counted
  <2>2. Copy(s, i)' = <<c>> /\ Len(<<c>>) = 1 /\ <<c>> # <<>> /\ <<c>>[1].body = e.body /\ ~<<c>>[1].deleted
    BY <1>2, <2>1
  <2>. HIDE DEF c
  <2>3. Counted(s, i)'
    BY <1>0, <1>1, <2>1, <2>2 DEF Counted
  <2>4. ASSUME i \in Present
        PROVE  BodyRight(s, i)'
    <3>1. BodyRight(s, i)
      BY <1>8, <2>4 DEF Followed
    <3>2. \A t \in Sessions : (Doing(t, "edit", i) \/ Doing(t, "msg", i))' => work'[t].ev.body = rows[i].body
      BY <1>1, <3>1 DEF BodyRight, SameDoing
    <3>3. Nowhere("edit", i) => Ends(send[s], TextOf(i), TextAs(i, rows[i].body))
      BY <1>5, <3>1 DEF BodyRight, TextComes
    <3>4. Nowhere("edit", i) => TextComes(s, i, rows[i].body)'
      BY <1>0, <1>1, <1>6, <2>2, <3>3 DEF TextComes
    <3>. QED
      BY <1>0, <1>1, <3>1, <3>2, <3>4 DEF BodyRight
  <2>5. ASSUME i \in Visible(UserOf[s])
        PROVE  LifeRight(s, i)'
    <3>1. LifeRight(s, i)
      BY <1>8, <2>5 DEF Followed
    <3>2. EndComes(s, i)' <=> EndComes(s, i)
      BY <1>0, <1>5, <2>1, <2>2 DEF EndComes
    <3>. QED
      BY <1>0, <1>1, <3>1, <3>2 DEF LifeRight
  <2>. QED
    BY <1>1, <2>1, <2>3, <2>4, <2>5 DEF Followed
<1>. QED
  BY <1>1, <1>4, <1>7, <1>8 DEF Right

LEMMA MergesEdit ==
    ASSUME Base, NEW s \in Sessions, NEW i \in Ids, Merges(s, i), Right(s, i), Head(send[s]).k = "edit"
    PROVE  Right(s, i)'
<1>. DEFINE e == Head(send[s])
            q == Tail(send[s])
<1>0. /\ TypeOK /\ send[s] \in Seq(Events) /\ send[s] # <<>> /\ e \in Events /\ e.id = i /\ e.k = "edit"
      /\ marks' = marks /\ send'[s] = q /\ hist'[s] = hist[s] /\ SameStage(s) /\ UserOf[s] \in Users
  BY MergesFrame, DeliveryAssumption DEF Merges
<1>1. /\ \A k : SameDoing(k, i) /\ (Nowhere(k, i)' <=> Nowhere(k, i))
      /\ SameMarks(i) /\ ReactsRight(i)' /\ (Alone(i) => Alone(i)')
      /\ rows' = rows /\ Present' = Present /\ Visible(UserOf[s])' = Visible(UserOf[s])
      /\ conn'[s] = conn[s] /\ Covered(s)' = Covered(s) /\ (Past(s)' <=> Past(s))
      /\ \A K : Head(send[s]) \notin K => SameBuffers(s, K)
  BY MergesFrame
<1>2. /\ Len(Copy(s, i)') = Len(Copy(s, i)) /\ (Copy(s, i)' = <<>> <=> Copy(s, i) = <<>>)
      /\ Copy(s, i) # <<>> => Copy(s, i)'[1].body = e.body /\ Copy(s, i)'[1].deleted = Copy(s, i)[1].deleted
  <2>. DEFINE old == shown[UserOf[s]][i]
              new == shown'[UserOf[s]][i]
  <2>1. /\ Merge(UserOf[s], e) /\ e.k = "edit" /\ e.k \in {"edit", "delete"} /\ e.id = i
        /\ <<UserOf[s], i>> \notin disturbed' /\ TypeOK /\ UserOf[s] \in Users /\ e \in Events
    BY <1>0 DEF Merges
  <2>. HIDE DEF e
  <2>2. /\ Len(new) = Len(old) /\ (new = <<>> <=> old = <<>>)
        /\ old # <<>> => new[1].body = e.body /\ new[1].deleted = old[1].deleted
    BY <2>1, MergeShown
  <2>. QED
    BY <2>2 DEF Copy
<1>3. e \notin MsgOf(i) /\ e \in TextOf(i) /\ e \notin LifeOf(i) /\ e \notin MarksOf(i)
  BY <1>0 DEF MsgOf, TextOf, LifeOf, MarksOf
<1>4. MarksRight(s, i) => MarksRight(s, i)'
  <2>1. SameBuffers(s, MarksOf(i)) /\ \A w \in Users : Marked(s, i, w)' <=> Marked(s, i, w)
    BY <1>0, <1>1, <1>3 DEF Marked
  <2>. QED
    BY <1>0, <1>1, <2>1, KeepMarks
<1>. HIDE DEF e
<1>5. /\ ~Nothing(send[s], TextOf(i))
      /\ Nothing(send[s], MsgOf(i)) <=> Nothing(q, MsgOf(i))
      /\ Single(send[s], MsgOf(i)) => Single(q, MsgOf(i))
      /\ Nothing(send[s], LifeOf(i)) <=> Nothing(q, LifeOf(i))
      /\ Ends(send[s], LifeOf(i), DelOf(i)) <=> Ends(q, LifeOf(i), DelOf(i))
      /\ Nothing(q, TextOf(i)) => Nothing(q, MsgOf(i))
  <2>1. send[s][1] = e /\ 1 \in 1..Len(send[s])
    BY <1>0 DEF e
  <2>2. ~Nothing(send[s], TextOf(i))
    BY <1>3, <2>1 DEF Nothing
  <2>. HIDE DEF q
  <2>3. /\ Nothing(send[s], MsgOf(i)) <=> Nothing(q, MsgOf(i))
        /\ Single(send[s], MsgOf(i)) => Single(q, MsgOf(i))
    <3>. DEFINE K == MsgOf(i)
                V == {}
    <3>1. V \subseteq K /\ e \notin K
      BY <1>3
    <3>. HIDE DEF K, V
    <3>2. /\ Nothing(send[s], K) <=> Nothing(Tail(send[s]), K)
          /\ Single(send[s], K) => Single(Tail(send[s]), K)
      BY <1>0, <3>1, TailQueue DEF e
    <3>. QED
      BY <3>2 DEF K, q
  <2>4. /\ Nothing(send[s], LifeOf(i)) <=> Nothing(q, LifeOf(i))
        /\ Ends(send[s], LifeOf(i), DelOf(i)) <=> Ends(q, LifeOf(i), DelOf(i))
    <3>. DEFINE K == LifeOf(i)
                V == DelOf(i)
    <3>1. V \subseteq K /\ e \notin V /\ e \notin K
      BY <1>3, Sets
    <3>. HIDE DEF K, V
    <3>2. /\ Nothing(send[s], K) <=> Nothing(Tail(send[s]), K)
          /\ Ends(send[s], K, V) <=> Ends(Tail(send[s]), K, V)
      BY <1>0, <3>1, TailQueue DEF e
    <3>. QED
      BY <3>2 DEF K, V, q
  <2>5. Nothing(q, TextOf(i)) => Nothing(q, MsgOf(i))
    BY Sets DEF Nothing
  <2>. QED
    BY <2>2, <2>3, <2>4, <2>5
<1>6. \A b : Ends(send[s], TextOf(i), TextAs(i, b)) =>
                Ends(q, TextOf(i), TextAs(i, b)) \/ (e.body = b /\ Nothing(q, TextOf(i)))
  <2>. TAKE b
  <2>. DEFINE K == TextOf(i)
              V == TextAs(i, b)
  <2>1. V \subseteq K /\ (e \in V => e.body = b)
    BY DEF TextAs
  <2>. HIDE DEF K, V
  <2>2. Ends(send[s], K, V) => Ends(Tail(send[s]), K, V) \/ (e \in V /\ Nothing(Tail(send[s]), K))
    BY <1>0, <2>1, TailQueue DEF e
  <2>. QED
    BY <2>1, <2>2 DEF K, V
<1>. HIDE DEF q
<1>7. Early(s, i) => Early(s, i)'
  BY <1>0, <1>2, <1>5 DEF Early
<1>8. ASSUME Followed(s, i)
      PROVE  Followed(s, i)'
  <2>1. Counted(s, i)'
    BY <1>0, <1>1, <1>2, <1>5, <1>8 DEF Followed, Counted
  <2>2. Alone(i)'
    BY <1>1, <1>8 DEF Followed
  <2>3. ASSUME i \in Present
        PROVE  BodyRight(s, i)'
    <3>1. BodyRight(s, i)
      BY <1>8, <2>3 DEF Followed
    <3>2. \A t \in Sessions : (Doing(t, "edit", i) \/ Doing(t, "msg", i))' => work'[t].ev.body = rows[i].body
      BY <1>1, <3>1 DEF BodyRight, SameDoing
    <3>3. Nowhere("edit", i) /\ (Copy(s, i) # <<>> \/ ~Nothing(send[s], MsgOf(i)))
             => Ends(send[s], TextOf(i), TextAs(i, rows[i].body))
      BY <1>5, <3>1 DEF BodyRight, TextComes
    <3>4. Nowhere("edit", i) /\ (Copy(s, i)' # <<>> \/ ~Nothing(q, MsgOf(i))) => TextComes(s, i, rows[i].body)'
      BY <1>0, <1>1, <1>2, <1>5, <1>6, <3>3 DEF TextComes
    <3>. QED
      BY <1>0, <1>1, <3>1, <3>2, <3>4 DEF BodyRight
  <2>4. ASSUME i \in Visible(UserOf[s])
        PROVE  LifeRight(s, i)'
    <3>1. LifeRight(s, i)
      BY <1>8, <2>4 DEF Followed
    <3>2. EndComes(s, i)' <=> EndComes(s, i)
      BY <1>0, <1>2, <1>5 DEF EndComes
    <3>. QED
      BY <1>0, <1>1, <3>1, <3>2 DEF LifeRight
  <2>. QED
    BY <1>1, <2>1, <2>2, <2>3, <2>4 DEF Followed
<1>. QED
  BY <1>1, <1>4, <1>7, <1>8 DEF Right

LEMMA MergesDelete ==
    ASSUME Base, NEW s \in Sessions, NEW i \in Ids, Merges(s, i), Right(s, i), Head(send[s]).k = "delete"
    PROVE  Right(s, i)'
<1>. DEFINE e == Head(send[s])
            q == Tail(send[s])
<1>0. /\ TypeOK /\ send[s] \in Seq(Events) /\ send[s] # <<>> /\ e \in Events /\ e.id = i /\ e.k = "delete"
      /\ marks' = marks /\ send'[s] = q /\ hist'[s] = hist[s] /\ SameStage(s) /\ UserOf[s] \in Users
  BY MergesFrame, DeliveryAssumption DEF Merges
<1>1. /\ \A k : SameDoing(k, i) /\ (Nowhere(k, i)' <=> Nowhere(k, i))
      /\ SameMarks(i) /\ ReactsRight(i)' /\ (Alone(i) => Alone(i)')
      /\ rows' = rows /\ Present' = Present /\ Visible(UserOf[s])' = Visible(UserOf[s])
      /\ conn'[s] = conn[s] /\ Covered(s)' = Covered(s) /\ (Past(s)' <=> Past(s))
      /\ \A K : Head(send[s]) \notin K => SameBuffers(s, K)
  BY MergesFrame
<1>2. /\ Len(Copy(s, i)') = Len(Copy(s, i)) /\ (Copy(s, i)' = <<>> <=> Copy(s, i) = <<>>)
      /\ Copy(s, i) # <<>> => Copy(s, i)'[1].body = Copy(s, i)[1].body /\ Copy(s, i)'[1].deleted
  <2>. DEFINE old == shown[UserOf[s]][i]
              new == shown'[UserOf[s]][i]
  <2>1. /\ Merge(UserOf[s], e) /\ e.k \in {"edit", "delete"} /\ e.k # "edit"
        /\ <<UserOf[s], i>> \notin disturbed'
    BY <1>0 DEF Merges
  <2>2. /\ Len(new) = Len(old) /\ (new = <<>> <=> old = <<>>)
        /\ old # <<>> => new[1].body = old[1].body /\ new[1].deleted
    BY <1>0, <2>1, MergeShown
  <2>. QED
    BY <2>2 DEF Copy
<1>3. e \notin MsgOf(i) /\ e \notin TextOf(i) /\ e \in LifeOf(i) /\ e \in DelOf(i) /\ e \notin MarksOf(i)
  BY <1>0 DEF MsgOf, TextOf, LifeOf, DelOf, MarksOf
<1>4. MarksRight(s, i) => MarksRight(s, i)'
  <2>1. SameBuffers(s, MarksOf(i)) /\ \A w \in Users : Marked(s, i, w)' <=> Marked(s, i, w)
    BY <1>0, <1>1, <1>3 DEF Marked
  <2>. QED
    BY <1>0, <1>1, <2>1, KeepMarks
<1>. HIDE DEF e
<1>5. /\ Nothing(send[s], MsgOf(i)) <=> Nothing(q, MsgOf(i))
      /\ Single(send[s], MsgOf(i)) => Single(q, MsgOf(i))
      /\ ~Nothing(send[s], LifeOf(i))
      /\ Ends(send[s], LifeOf(i), DelOf(i)) <=> Ends(q, LifeOf(i), DelOf(i)) \/ Nothing(q, LifeOf(i))
      /\ Nothing(send[s], TextOf(i)) <=> Nothing(q, TextOf(i))
      /\ \A b : Ends(send[s], TextOf(i), TextAs(i, b)) <=> Ends(q, TextOf(i), TextAs(i, b))
  <2>. HIDE DEF q
  <2>3. /\ Nothing(send[s], MsgOf(i)) <=> Nothing(q, MsgOf(i))
        /\ Single(send[s], MsgOf(i)) => Single(q, MsgOf(i))
    <3>. DEFINE K == MsgOf(i)
                V == {}
    <3>1. V \subseteq K /\ e \notin K
      BY <1>3
    <3>. HIDE DEF K, V
    <3>2. /\ Nothing(send[s], K) <=> Nothing(Tail(send[s]), K)
          /\ Single(send[s], K) => Single(Tail(send[s]), K)
      BY <1>0, <3>1, TailQueue DEF e
    <3>. QED
      BY <3>2 DEF K, q
  <2>4. /\ ~Nothing(send[s], LifeOf(i))
        /\ Ends(send[s], LifeOf(i), DelOf(i)) <=> Ends(q, LifeOf(i), DelOf(i)) \/ Nothing(q, LifeOf(i))
    <3>. DEFINE K == LifeOf(i)
                V == DelOf(i)
    <3>1. V \subseteq K /\ e \in V /\ e \in K
      BY <1>3, Sets
    <3>. HIDE DEF K, V
    <3>2. /\ ~Nothing(send[s], K)
          /\ Ends(send[s], K, V) <=> Ends(Tail(send[s]), K, V) \/ Nothing(Tail(send[s]), K)
      BY <1>0, <3>1, TailQueue DEF e
    <3>. QED
      BY <3>2 DEF K, V, q
  <2>5. ASSUME NEW b
        PROVE  /\ Nothing(send[s], TextOf(i)) <=> Nothing(q, TextOf(i))
               /\ Ends(send[s], TextOf(i), TextAs(i, b)) <=> Ends(q, TextOf(i), TextAs(i, b))
    <3>. DEFINE K == TextOf(i)
                V == TextAs(i, b)
    <3>1. V \subseteq K /\ e \notin V /\ e \notin K
      BY <1>3, Sets
    <3>. HIDE DEF K, V
    <3>2. /\ Nothing(send[s], K) <=> Nothing(Tail(send[s]), K)
          /\ Ends(send[s], K, V) <=> Ends(Tail(send[s]), K, V)
      BY <1>0, <3>1, TailQueue DEF e
    <3>. QED
      BY <3>2 DEF K, V, q
  <2>. QED
    BY <2>3, <2>4, <2>5
<1>. HIDE DEF q
<1>7. Early(s, i) => Early(s, i)'
  BY <1>0, <1>2, <1>5 DEF Early
<1>8. ASSUME Followed(s, i)
      PROVE  Followed(s, i)'
  <2>1. Counted(s, i)'
    BY <1>0, <1>1, <1>2, <1>5, <1>8 DEF Followed, Counted
  <2>2. Alone(i)'
    BY <1>1, <1>8 DEF Followed
  <2>3. ASSUME i \in Present
        PROVE  BodyRight(s, i)'
    <3>1. BodyRight(s, i)
      BY <1>8, <2>3 DEF Followed
    <3>2. \A t \in Sessions : (Doing(t, "edit", i) \/ Doing(t, "msg", i))' => work'[t].ev.body = rows[i].body
      BY <1>1, <3>1 DEF BodyRight, SameDoing
    <3>3. TextComes(s, i, rows[i].body)' <=> TextComes(s, i, rows[i].body)
      BY <1>0, <1>1, <1>2, <1>5 DEF TextComes
    <3>. QED
      BY <1>0, <1>1, <1>2, <1>5, <3>1, <3>2, <3>3 DEF BodyRight
  <2>4. ASSUME i \in Visible(UserOf[s])
        PROVE  LifeRight(s, i)'
    <3>1. LifeRight(s, i)
      BY <1>8, <2>4 DEF Followed
    <3>2. EndComes(s, i)' <=> EndComes(s, i)
      BY <1>0, <1>2, <1>5 DEF EndComes
    <3>. QED
      BY <1>0, <1>1, <3>1, <3>2 DEF LifeRight
  <2>. QED
    BY <1>1, <2>1, <2>2, <2>3, <2>4 DEF Followed
<1>. QED
  BY <1>1, <1>4, <1>7, <1>8 DEF Right

LEMMA MergesReaction ==
    ASSUME Base, NEW s \in Sessions, NEW i \in Ids, Merges(s, i), Right(s, i), Head(send[s]).k = "react"
    PROVE  Right(s, i)'
<1>. DEFINE e == Head(send[s])
<1>0. /\ TypeOK /\ send[s] \in Seq(Events) /\ send[s] # <<>> /\ e \in Events /\ e.id = i /\ e.k = "react"
      /\ send'[s] = Tail(send[s]) /\ hist'[s] = hist[s] /\ SameStage(s) /\ UserOf[s] \in Users
      /\ Merge(UserOf[s], e) /\ TypeMarks
  BY MergesFrame, DeliveryAssumption DEF Merges, Base
<1>1. /\ \A k : SameDoing(k, i) /\ (Nowhere(k, i)' <=> Nowhere(k, i))
      /\ SameMarks(i) /\ ReactsRight(i)' /\ (Alone(i) => Alone(i)')
      /\ rows' = rows /\ Present' = Present /\ Visible(UserOf[s])' = Visible(UserOf[s])
      /\ conn'[s] = conn[s] /\ window'[s] = window[s] /\ Covered(s)' = Covered(s) /\ (Past(s)' <=> Past(s))
      /\ \A K : Head(send[s]) \notin K => SameBuffers(s, K)
  BY MergesFrame
<1>2. /\ shown' = shown
      /\ marks' = [marks EXCEPT ![UserOf[s]] = IF e.body = 1 THEN marks[UserOf[s]] \cup {<<e.id, e.who>>}
                                               ELSE marks[UserOf[s]] \ {<<e.id, e.who>>}]
  BY <1>0, MergeMarks
<1>3. /\ Copy(s, i)' = Copy(s, i)
      /\ \A w : Marked(s, i, w)' <=> IF w = e.who THEN e.body = 1 ELSE Marked(s, i, w)
  BY <1>0, <1>2 DEF Copy, Marked, TypeMarks
<1>4. SameBuffers(s, MsgOf(i)) /\ SameBuffers(s, TextOf(i)) /\ SameBuffers(s, LifeOf(i))
  <2>1. e \notin MsgOf(i) /\ e \notin TextOf(i) /\ e \notin LifeOf(i)
    BY <1>0 DEF MsgOf, TextOf, LifeOf
  <2>. QED
    BY <1>1, <2>1
<1>5. Early(s, i) => Early(s, i)'
  <2>. DEFINE K == MsgOf(i)
              V == {}
  <2>1. V \subseteq K /\ K \subseteq K /\ Beside(send[s], send'[s], K)
    BY <1>4 DEF SameBuffers
  <2>. HIDE DEF K, V
  <2>2. Nothing(send'[s], K) <=> Nothing(send[s], K)
    BY <1>0, <2>1, BesideKeeps
  <2>. QED
    BY <1>3, <2>2 DEF Early, K
<1>6. ASSUME MarksRight(s, i), NEW w \in Users
      PROVE  MarkRight(s, i, w)'
  <2>. DEFINE K == MarkOf(i, w)
              V == MarkAs(i, w)
  <2>1. /\ V \subseteq K /\ (e \in K <=> e.who = w)
        /\ e \in V <=> e.who = w /\ e.body = 1
    BY <1>0, Sets DEF MarkOf, MarksOf, MarkAs
  <2>. HIDE DEF K, V
  <2>2. /\ Nothing(send[s], K) <=> e \notin K /\ Nothing(Tail(send[s]), K)
        /\ Ends(send[s], K, V) <=> \/ Ends(Tail(send[s]), K, V)
                                   \/ e \in V /\ Nothing(Tail(send[s]), K)
    BY <1>0, <2>1, TailQueue
  <2>. HIDE DEF e
  <2>3. MarkComes(s, i, w)' <=> MarkComes(s, i, w)
    <3>1. CASE w = e.who
      BY <1>0, <1>3, <2>1, <2>2, <3>1 DEF MarkComes, K, V
    <3>2. CASE w # e.who
      BY <1>0, <1>3, <2>1, <2>2, <3>2 DEF MarkComes, K, V
    <3>. QED
      BY <3>1, <3>2
  <2>4. MarkRight(s, i, w) /\ (<<i, w>> \in reactions' <=> <<i, w>> \in reactions)
    BY <1>1, <1>6 DEF MarksRight, SameMarks
  <2>5. (\A t \in Sessions : Doing(t, "react", i) => work[t].ev.who # w)'
           => \A t \in Sessions : Doing(t, "react", i) => work[t].ev.who # w
    BY <1>1 DEF SameDoing
  <2>. QED
    BY <1>0, <1>1, <2>3, <2>4, <2>5 DEF MarkRight
<1>7. ASSUME Followed(s, i)
      PROVE  Followed(s, i)'
  <2>1. Counted(s, i)'
    BY <1>0, <1>1, <1>3, <1>4, <1>7, KeepCounted DEF Followed
  <2>2. Alone(i)'
    BY <1>1, <1>7 DEF Followed
  <2>3. i \in Present => BodyRight(s, i)'
    BY <1>0, <1>1, <1>3, <1>4, <1>7, KeepBody DEF Followed
  <2>4. i \in Visible(UserOf[s]) => LifeRight(s, i)'
    BY <1>0, <1>1, <1>3, <1>4, <1>7, KeepLife DEF Followed
  <2>. QED
    BY <1>1, <2>1, <2>2, <2>3, <2>4 DEF Followed
<1>8. MarksRight(s, i) => MarksRight(s, i)'
  BY <1>6 DEF MarksRight
<1>. QED
  BY <1>1, <1>5, <1>7, <1>8 DEF Right

LEMMA DeliverRight ==
    ASSUME Base, AllRight, NEW s0 \in Sessions, Deliver(s0), NEW s \in Live', NEW i \in Ids, Undisturbed(s, i)'
    PROVE  Right(s, i)'
<1>. DEFINE e == Head(send[s0])
<1>1. /\ Merge(UserOf[s0], e) /\ send[s0] # <<>> /\ send' = [send EXCEPT ![s0] = Tail(send[s0])] /\ s0 \in Live
      /\ UNCHANGED <<table, work, conn, hist, window, since>>
  BY DEF Deliver, ghost, Live
<1>0. disturbed \subseteq disturbed' /\ \A v \in Users \ {UserOf[s0]} : shown'[v] = shown[v]
  <2>1. e \in Events /\ UserOf[s0] \in Users /\ TypeOK
    <3>1. send[s0] \in Seq(Events) /\ TypeOK
      BY DEF Base, TypeOK, TypeSession
    <3>. QED
      BY <1>1, <3>1, DeliveryAssumption
  <2>. QED
    BY <1>1, <2>1, MergeKinds DEF MergesAs
<1>2. /\ s \in Sessions /\ s \in Live /\ Undisturbed(s, i) /\ SameStage(s) /\ TypeOK /\ TypeMarks
      /\ send \in [Sessions -> Seq(Events)] /\ UserOf \in [Sessions -> Users]
  BY <1>0, <1>1, DeliveryAssumption DEF Live, Undisturbed, SameStage, Base, TypeOK, TypeSession
<1>3. e \in Events /\ UserOf[s0] \in Users /\ UserOf[s] \in Users /\ Right(s, i)
  BY <1>1, <1>2 DEF AllRight
<1>4. CASE s # s0
  <2>1. UserOf[s] # UserOf[s0]
    BY <1>1, <1>2, <1>4 DEF Base, OneClient
  <2>2. Copy(s, i)' = Copy(s, i)
    BY <1>0, <1>3, <2>1 DEF Copy
  <2>3. marks'[UserOf[s]] = marks[UserOf[s]]
    <3>1. CASE e.k = "react"
      <4>1. PICK new : marks' = [marks EXCEPT ![UserOf[s0]] = new]
        BY <1>1, <1>2, <1>3, <3>1, MergeMarks
      <4>. QED
        BY <1>2, <1>3, <2>1, <4>1 DEF TypeMarks
    <3>2. CASE e.k # "react"
      BY <1>1, <1>2, <1>3, <3>2, MergeMarks
    <3>. QED
      BY <3>1, <3>2
  <2>4. \A w \in Users : Marked(s, i, w)' <=> Marked(s, i, w)
    BY <2>3 DEF Marked
  <2>5. send'[s] = send[s] /\ hist'[s] = hist[s]
    BY <1>1, <1>2, <1>4
  <2>. QED
    BY <1>1, <1>2, <2>2, <2>4, <2>5, BystanderRight
<1>5. CASE s = s0 /\ e \in AboutOf(i)
  <2>1. Merges(s, i)
    BY <1>1, <1>2, <1>5 DEF Merges, Undisturbed
  <2>2. e.k \in {"msg", "edit", "delete", "react"}
    BY <1>2, <1>3, <1>5, <2>1, MergesFrame
  <2>. QED
    BY <1>2, <1>3, <1>5, <2>1, <2>2, MergesMessage, MergesEdit, MergesDelete, MergesReaction
<1>6. CASE s = s0 /\ e \notin AboutOf(i)
  <2>1. e.id # i \/ e.k = "note"
    BY <1>3, <1>6 DEF AboutOf
  <2>2. Copy(s, i)' = Copy(s, i)
    <3>1. e.id # i \/ e.k \in {"react", "note"}
      BY <2>1
    <3>2. <<UserOf[s0], i>> \notin disturbed'
      BY <1>6 DEF Undisturbed
    <3>. HIDE DEF e
    <3>3. shown'[UserOf[s0]][i] = shown[UserOf[s0]][i]
      BY <1>1, <1>2, <1>3, <3>1, <3>2, MergeShown
    <3>. QED
      BY <1>6, <3>3 DEF Copy
  <2>3. \A w \in Users : Marked(s, i, w)' <=> Marked(s, i, w)
    <3>1. CASE e.k = "react"
      <4>1. e.id # i
        BY <2>1, <3>1
      <4>2. marks' = [marks EXCEPT ![UserOf[s0]] = IF e.body = 1 THEN marks[UserOf[s0]] \cup {<<e.id, e.who>>}
                                                   ELSE marks[UserOf[s0]] \ {<<e.id, e.who>>}]
        BY <1>1, <1>2, <1>3, <3>1, MergeMarks
      <4>. QED
        BY <1>2, <1>3, <1>6, <4>1, <4>2 DEF TypeMarks, Marked
    <3>2. CASE e.k # "react"
      <4>1. marks' = marks
        BY <1>1, <1>2, <1>3, <3>2, MergeMarks
      <4>. QED
        BY <4>1 DEF Marked
    <3>. QED
      BY <3>1, <3>2
  <2>4. SameBuffers(s, AboutOf(i))
    BY <1>1, <1>2, <1>6 DEF SameBuffers, Beside
  <2>. QED
    BY <1>1, <1>2, <1>3, <2>2, <2>3, <2>4, ServesElsewhere
<1>. QED
  BY <1>4, <1>5, <1>6

----------------------------------------------------------------------------
(* The transcript agrees with the table.                                       *)

LEMMA RightInit == Init => AllRight
BY DEF Init, AllRight, Live

LEMMA RightStep == Base /\ AllRight /\ [Next]_vars => AllRight'
<1>. SUFFICES ASSUME Base, AllRight, [Next]_vars PROVE AllRight'
  OBVIOUS
<1>1. ASSUME NEW s0 \in Sessions, Stores(s0)
      PROVE  AllRight'
  BY <1>1, StoresRight
<1>2. ASSUME NEW s0 \in Sessions, Serves(s0), NEW s \in Live', NEW i \in Ids, Undisturbed(s, i)'
      PROVE  Right(s, i)'
  BY <1>2, NoticeRight, BroadcastRight, BroadcastDMRight, ConnectRight, FetchRight, ReplayRight,
     LoadReactionsRight, DeliverRight, DisconnectRight DEF Serves, Handshake
<1>3. ASSUME UNCHANGED vars, NEW s \in Live', NEW i \in Ids, Undisturbed(s, i)'
      PROVE  Right(s, i)'
  <2>1. s \in Live /\ Undisturbed(s, i) /\ SameStage(s) /\ send'[s] = send[s] /\ hist'[s] = hist[s]
        /\ UNCHANGED <<table, work>>
    BY <1>3 DEF vars, session, ghost, Live, Undisturbed, SameStage
  <2>2. Copy(s, i)' = Copy(s, i) /\ \A w \in Users : Marked(s, i, w)' <=> Marked(s, i, w)
    BY <1>3 DEF vars, client, Copy, Marked
  <2>. QED
    BY <2>1, <2>2, BystanderRight
<1>. QED
  BY <1>1, <1>2, <1>3, NextParts DEF AllRight

LEMMA OneCopy ==
    ASSUME NEW q \in Seq(Copies), q # <<>>, Len(q) <= 1
    PROVE  Len(q) = 1 /\ q[1] \in Copies /\ q = <<q[1]>>
<1>1. Len(q) \in Nat /\ Len(q) # 0
  OBVIOUS
<1>2. Len(q) = 1
  BY <1>1
<1>3. q[1] \in Copies
  BY <1>2
<1>4. q = [n \in 1..1 |-> q[1]] /\ <<q[1]>> = [n \in 1..1 |-> q[1]]
  BY <1>2
<1>. QED
  BY <1>2, <1>3, <1>4

LEMMA RightConverges == Base /\ AllRight => Converges
<1>. SUFFICES ASSUME Base, AllRight, NEW s \in Sessions, Quiet(s),
                     NEW i \in Covered(s) \cap Visible(UserOf[s]), <<UserOf[s], i>> \notin disturbed
              PROVE  LET copies == shown[UserOf[s]][i] IN
                     /\ IF rows[i].deleted
                        THEN copies = <<>> \/ (Len(copies) = 1 /\ copies[1].deleted)
                        ELSE copies = <<[body |-> rows[i].body, deleted |-> FALSE]>>
                     /\ {r \in marks[UserOf[s]] : r[1] = i} = {r \in reactions : r[1] = i}
  BY DEF Converges
<1>1. /\ s \in Live /\ Past(s) /\ conn[s] = "reactions" /\ hist[s] = <<>> /\ send[s] = <<>>
      /\ \A k, j : Nowhere(k, j)
  BY DEF Quiet, On, Live, Past, Nowhere, Doing
<1>2. i \in Ids /\ i \in Present /\ i \in Covered(s) /\ Undisturbed(s, i) /\ i \in Visible(UserOf[s])
  BY DEF Visible, Present, Undisturbed
<1>3. MarksRight(s, i) /\ Counted(s, i) /\ BodyRight(s, i) /\ LifeRight(s, i)
  BY <1>1, <1>2 DEF AllRight, Right, Followed
<1>4. \A K, V : Nothing(send[s], K) /\ ~Ends(send[s], K, V) /\ Nothing(hist[s], K)
  BY <1>1 DEF Nothing, Ends
<1>. DEFINE copies == shown[UserOf[s]][i]
<1>5. copies \in Seq(Copies) /\ copies = Copy(s, i) /\ UserOf[s] \in Users
  <2>1. UserOf[s] \in Users /\ i \in 0..MaxId
    BY <1>2, DeliveryAssumption DEF Ids
  <2>. QED
    BY <2>1 DEF Base, TypeOK, TypeClient, Copy
<1>. HIDE DEF copies
<1>6. /\ Len(copies) <= 1
      /\ rows[i].deleted <=> copies = <<>> \/ copies[1].deleted
      /\ copies # <<>> => copies[1].body = rows[i].body
  BY <1>1, <1>3, <1>4, <1>5 DEF Counted, BodyRight, TextComes, LifeRight, EndComes
<1>7. IF rows[i].deleted
      THEN copies = <<>> \/ (Len(copies) = 1 /\ copies[1].deleted)
      ELSE copies = <<[body |-> rows[i].body, deleted |-> FALSE]>>
  <2>1. copies # <<>> => Len(copies) = 1 /\ copies[1] \in Copies /\ copies = <<copies[1]>>
    BY <1>5, <1>6, OneCopy
  <2>2. ASSUME ~rows[i].deleted
        PROVE  copies[1] = [body |-> rows[i].body, deleted |-> FALSE]
    <3>0. copies # <<>> /\ ~copies[1].deleted
      BY <1>6, <2>2
    <3>1. copies[1] \in Copies /\ copies[1].body = rows[i].body /\ ~copies[1].deleted
      BY <1>6, <2>1, <3>0
    <3>. QED
      BY <3>1 DEF Copies
  <2>. QED
    BY <1>6, <2>1, <2>2
<1>8. {r \in marks[UserOf[s]] : r[1] = i} = {r \in reactions : r[1] = i}
  <2>1. \A w \in Users : Marked(s, i, w) <=> <<i, w>> \in reactions
    BY <1>1, <1>3, <1>4 DEF MarksRight, MarkRight, MarkComes, Nowhere
  <2>2. marks[UserOf[s]] \subseteq (0..MaxId) \X Users /\ reactions \subseteq Ids \X Users
    BY <1>5 DEF Base, TypeMarks, TypeOK, TypeTable
  <2>3. \A r \in marks[UserOf[s]] \cup reactions : r[1] = i => r = <<i, r[2]>> /\ r[2] \in Users
    BY <2>2
  <2>. QED
    BY <2>1, <2>3 DEF Marked
<1>. QED
  BY <1>7, <1>8 DEF copies

\* Converges.  Once nothing is under way for a client, its transcript and its
\* reactions are those of the table, whatever was inserted, edited, deleted and
\* reacted to, sent, replayed and dropped in between, if no two operations
\* overlapped on the message.
THEOREM TranscriptsConverge == Spec => []Converges
<1>1. Init => Base /\ AllRight
  BY BaseInit, RightInit
<1>2. Base /\ AllRight /\ [Next]_vars => (Base /\ AllRight)'
  BY BaseStep, RightStep
<1>3. Base /\ AllRight => Converges
  BY RightConverges
<1>. QED
  BY <1>1, <1>2, <1>3, PTL DEF Spec
=============================================================================
