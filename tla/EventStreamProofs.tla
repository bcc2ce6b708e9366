------------------------- MODULE EventStreamProofs -------------------------
(***************************************************************************)
(* Proofs about studio-events, for every number of replicas, events,       *)
(* failures and restarts, and for the browser's stream beside them.        *)
(*                                                                         *)
(* The tables: a number is never used twice, an event is written at most   *)
(* once, and the window of the last Backlog numbers is kept.  An event is  *)
(* in one place at a time -- in one queue, with one writer, or under one   *)
(* number -- and a number is with one writer or written, and never above   *)
(* the cursor (TableInv).                                                  *)
(*                                                                         *)
(* The stream: what a broadcaster sends goes up to its watermark           *)
(* (ServerInv), what the consumer is handed goes up to its cursor          *)
(* (StreamInv), so types and order hold whatever happens.  That nothing is *)
(* passed over needs a subscription served in order (Served); then a       *)
(* replay and the frames held beside it meet without a hole (PassInv),     *)
(* through restarts and reconnections to other replicas.                   *)
(***************************************************************************)
EXTENDS EventStream, FiniteSetTheorems, TLAPS

\* What the tables and the way to them depend on: all that is not the poller,
\* the broadcaster or the browser.
tableVars == <<published, queue, writing, cursor, rows, written>>

Waits(r, i)  == i \in DOMAIN queue[r]
Appending(r) == writing[r] # Idle

TableTypes ==
  /\ published \in Nat
  /\ cursor \in Nat
  /\ queue \in [Replicas -> Seq(Nat)]
  /\ writing \in [Replicas -> [event : Nat, seq : Nat]]
  /\ written = [s \in DOMAIN written |-> written[s]]
  /\ \A s \in DOMAIN written : s \in Nat /\ written[s] \in Nat

\* A number is with one writer or written, and the cursor has passed it.
NumbersOnce ==
  /\ \A s \in DOMAIN written : s <= cursor
  /\ \A r \in Replicas : Appending(r) =>
       /\ writing[r].seq <= cursor
       /\ writing[r].seq \notin DOMAIN written
  /\ \A r, q \in Replicas :
       Appending(r) /\ Appending(q) /\ r # q => writing[r].seq # writing[q].seq

\* No event is ahead of the producers.
Published ==
  /\ \A r \in Replicas, i \in Nat : Waits(r, i) => queue[r][i] <= published
  /\ \A r \in Replicas : Appending(r) => writing[r].event <= published
  /\ \A s \in DOMAIN written : written[s] <= published

\* An event waits in one place, or is being written by one writer, or is written.
WaitsOnce ==
  \A r, q \in Replicas, i, j \in Nat :
    Waits(r, i) /\ Waits(q, j) /\ (r # q \/ i # j) => queue[r][i] # queue[q][j]
WaitsOnly ==
  \A r \in Replicas, i \in Nat : Waits(r, i) =>
    /\ \A q \in Replicas : Appending(q) => queue[r][i] # writing[q].event
    /\ \A s \in DOMAIN written : queue[r][i] # written[s]
AppendedOnce ==
  /\ \A r, q \in Replicas :
       Appending(r) /\ Appending(q) /\ r # q => writing[r].event # writing[q].event
  /\ \A r \in Replicas, s \in DOMAIN written :
       Appending(r) => writing[r].event # written[s]
WrittenOnce ==
  \A s, t \in DOMAIN written : s # t => written[s] # written[t]

EventsOnce == Published /\ WaitsOnce /\ WaitsOnly /\ AppendedOnce /\ WrittenOnce

TableInv == TableTypes /\ NumbersOnce /\ EventsOnce /\ WindowIsKept

-----------------------------------------------------------------------------
\* Every step of the server and the browser is a step on the tables or leaves
\* them alone.
LEMMA TableSteps ==
  ASSUME [Next]_vars
  PROVE  \/ \E r \in Replicas : \/ Publish(r) \/ TakeSeq(r) \/ InsertRow(r)
                                \/ Prune(r) \/ Restart(r)
         \/ UNCHANGED tableVars
<1>1. CASE ServerStep
  BY <1>1 DEF ServerStep, Works, Align, Deliver, tableVars
<1>2. CASE \E r \in Replicas : RestartUnder(r)
  BY <1>2 DEF RestartUnder
<1>3. CASE \/ \E r \in Replicas : Connect(r)
           \/ ReadCursor \/ Refused \/ Receive \/ EndOfBody \/ Break
  BY <1>3 DEF Connect, ReadCursor, Refused, Receive, EndOfBody, Break, channelVars, tableVars
<1>4. CASE \E p \in replays : ReadPage(p) \/ PageArrives(p) \/ ReplayFails(p)
  BY <1>4 DEF ReadPage, PageArrives, ReplayFails, channelVars, tableVars
<1>5. CASE UNCHANGED vars
  BY <1>5 DEF vars, channelVars, tableVars
<1> QED BY <1>1, <1>2, <1>3, <1>4, <1>5 DEF Next

\* What a type says of an event wherever it is.
LEMMA EventsAreNumbers ==
  ASSUME TableTypes
  PROVE  /\ \A q \in Replicas, i \in Nat : Waits(q, i) => queue[q][i] \in Nat
         /\ \A q \in Replicas : writing[q].event \in Nat /\ writing[q].seq \in Nat
         /\ \A s \in DOMAIN written : s \in Nat /\ written[s] \in Nat
BY SMTT(90) DEF TableTypes, Waits

LEMMA TableInit == Init => TableInv
<1> SUFFICES ASSUME Init PROVE TableInv
  OBVIOUS
<1>1. /\ published = 0 /\ cursor = 0 /\ rows = {} /\ written = <<>>
      /\ queue = [r \in Replicas |-> <<>>] /\ writing = [r \in Replicas |-> Idle]
  BY DEF Init, ChannelInit
<1>2. DOMAIN written = {}
  BY <1>1
<1>3. \A r \in Replicas : DOMAIN queue[r] = {}
  BY <1>1
<1>4. TableTypes
  BY <1>1, <1>2 DEF TableTypes, Idle
<1>5. \A r \in Replicas : ~Appending(r)
  BY <1>1 DEF Appending
<1> QED BY <1>2, <1>3, <1>4, <1>5
        DEF TableInv, NumbersOnce, EventsOnce, Published, WaitsOnce, WaitsOnly,
            AppendedOnce, WrittenOnce, WindowIsKept, Waits

\* A new event is one no queue, writer or row has.
LEMMA PublishKeeps ==
  ASSUME TableInv, NEW r \in Replicas, Publish(r)
  PROVE  TableInv'
<1> USE DEF TableInv
<1>1. /\ published' = published + 1
      /\ UNCHANGED <<writing, cursor, rows, written>>
  BY DEF Publish
<1>2. queue' \in [Replicas -> Seq(Nat)]
  BY DEF Publish, TableTypes
<1>3. \A q \in Replicas, i \in Nat : Waits(q, i)' =>
        \/ Waits(q, i) /\ queue'[q][i] = queue[q][i]
        \/ q = r /\ i = Len(queue[r]) + 1 /\ queue'[q][i] = published + 1
  BY SMTT(90) DEF Publish, Waits, TableTypes
<1>4. TableTypes'
  BY <1>1, <1>2 DEF TableTypes
<1>5. NumbersOnce' /\ AppendedOnce' /\ WrittenOnce' /\ WindowIsKept'
  BY <1>1 DEF NumbersOnce, AppendedOnce, WrittenOnce, WindowIsKept, EventsOnce, Appending
<1>6. Published'
  <2>1. published \in Nat /\ published' \in Nat /\ published <= published'
    BY <1>1 DEF TableTypes
  <2>2. \A q \in Replicas, i \in Nat : Waits(q, i)' => queue'[q][i] <= published'
    BY <1>1, <1>3, <2>1, EventsAreNumbers DEF Published, EventsOnce
  <2> QED BY <1>1, <2>1, <2>2, EventsAreNumbers DEF Published, EventsOnce, Appending
<1>7. WaitsOnce'
  <2>1. \A q \in Replicas, i \in Nat : Waits(q, i) => queue[q][i] # published + 1
    BY SMTT(90), EventsAreNumbers DEF Published, EventsOnce, TableTypes
  <2> QED BY <1>3, <2>1 DEF WaitsOnce, EventsOnce
<1>8. WaitsOnly'
  <2>1. /\ \A q \in Replicas : Appending(q) => writing[q].event # published + 1
        /\ \A s \in DOMAIN written : written[s] # published + 1
    BY SMTT(90), EventsAreNumbers DEF Published, EventsOnce, TableTypes
  <2> QED BY <1>1, <1>3, <2>1 DEF WaitsOnly, EventsOnce, Appending
<1> QED BY <1>4, <1>5, <1>6, <1>7, <1>8 DEF EventsOnce

\* The oldest of a queue leaves it, and takes a number no one else has.
LEMMA TakeSeqKeeps ==
  ASSUME TableInv, NEW r \in Replicas, TakeSeq(r)
  PROVE  TableInv'
<1> USE DEF TableInv
<1>1. /\ ~Appending(r) /\ queue[r] # <<>>
      /\ queue' = [queue EXCEPT ![r] = Tail(@)]
      /\ UNCHANGED <<published, rows, written>>
  BY DEF TakeSeq, Appending
<1>2. /\ queue[r] \in Seq(Nat) /\ Waits(r, 1) /\ Head(queue[r]) = queue[r][1]
      /\ Head(queue[r]) \in Nat
  BY <1>1 DEF TableTypes, Waits
<1>3. \A q \in Replicas, i \in Nat : Waits(q, i)' =>
        \/ q # r /\ Waits(q, i) /\ queue'[q][i] = queue[q][i]
        \/ q = r /\ i # 0 /\ Waits(r, i + 1) /\ queue'[r][i] = queue[r][i + 1]
  BY SMTT(90), <1>1, <1>2 DEF Waits, TableTypes
<1>4. queue' \in [Replicas -> Seq(Nat)]
  BY <1>1, <1>2 DEF TableTypes
<1>5. \/ /\ cursor' = cursor + 1
         /\ writing' = [writing EXCEPT ![r] = [event |-> Head(queue[r]), seq |-> cursor + 1]]
      \/ UNCHANGED <<cursor, writing>>
  BY DEF TakeSeq, NextSeq
<1>6. TableTypes'
  <2>1. writing' \in [Replicas -> [event : Nat, seq : Nat]] /\ cursor' \in Nat
    <3>1. cursor + 1 \in Nat /\ Head(queue[r]) \in Nat
      BY <1>2 DEF TableTypes
    <3>2. [event |-> Head(queue[r]), seq |-> cursor + 1] \in [event : Nat, seq : Nat]
      BY <3>1
    <3> QED BY <1>5, <3>1, <3>2 DEF TableTypes
  <2> QED BY <1>1, <1>4, <2>1 DEF TableTypes
<1>7. \A q \in Replicas : Appending(q)' =>
        \/ Appending(q) /\ writing'[q] = writing[q]
        \/ /\ q = r /\ cursor' = cursor + 1
           /\ writing'[q].event = queue[r][1] /\ writing'[q].seq = cursor + 1
  BY SMTT(90), <1>2, <1>5 DEF Appending, TableTypes
<1>8. cursor' \in Nat /\ cursor <= cursor'
  BY <1>5 DEF TableTypes
<1>9. NumbersOnce'
  <2>1. \A s \in DOMAIN written : s <= cursor' /\ s # cursor + 1
    BY <1>8, EventsAreNumbers DEF NumbersOnce, TableTypes
  <2>2. \A q \in Replicas : Appending(q) =>
          /\ writing[q].seq <= cursor' /\ writing[q].seq # cursor + 1
          /\ writing[q].seq \notin DOMAIN written
    BY <1>8, EventsAreNumbers DEF NumbersOnce, TableTypes
  <2>3. cursor' = cursor + 1 => cursor + 1 <= cursor'
    BY <1>8
  <2> QED BY <1>1, <1>7, <2>1, <2>2, <2>3 DEF NumbersOnce
<1>10. WindowIsKept'
  BY SMTT(90), <1>1, <1>8, ChannelAssumption DEF WindowIsKept, TableTypes
<1>11. Published'
  <2>1. \A q \in Replicas, i \in Nat : Waits(q, i)' => queue'[q][i] <= published
    BY <1>3 DEF Published, EventsOnce
  <2>2. \A q \in Replicas : Appending(q)' => writing'[q].event <= published
    BY <1>2, <1>7 DEF Published, EventsOnce
  <2> QED BY <1>1, <2>1, <2>2 DEF Published, EventsOnce
<1>12. WaitsOnce'
  BY <1>3 DEF WaitsOnce, EventsOnce
<1>13. WaitsOnly'
  <2>1. written' = written
    BY <1>1
  <2>2. \A p \in Replicas, i \in Nat : i \in DOMAIN queue'[p] =>
          \E j \in Nat : Waits(p, j) /\ queue'[p][i] = queue[p][j] /\ (p # r \/ j # 1)
    BY <1>3 DEF Waits
  <2>3. \A p \in Replicas, j \in Nat : Waits(p, j) /\ (p # r \/ j # 1) =>
          /\ \A q \in Replicas : writing'[q] # Idle => queue[p][j] # writing'[q].event
          /\ \A s \in DOMAIN written : queue[p][j] # written[s]
    BY <1>2, <1>7 DEF WaitsOnce, WaitsOnly, EventsOnce, Appending
  <2> HIDE DEF TableInv
  <2>4. ASSUME NEW p \in Replicas, NEW i \in Nat, i \in DOMAIN queue'[p]
        PROVE  /\ \A q \in Replicas : writing'[q] # Idle => queue'[p][i] # writing'[q].event
               /\ \A s \in DOMAIN written : queue'[p][i] # written[s]
    <3>1. PICK j \in Nat : Waits(p, j) /\ queue'[p][i] = queue[p][j] /\ (p # r \/ j # 1)
      BY <2>2, <2>4
    <3> QED BY <2>3, <3>1
  <2> QED BY <2>1, <2>4 DEF WaitsOnly, Waits, Appending
<1>14. AppendedOnce'
  BY SMTT(90), <1>1, <1>2, <1>7 DEF AppendedOnce, WaitsOnly, EventsOnce
<1>15. WrittenOnce'
  BY <1>1 DEF WrittenOnce, EventsOnce
<1> QED BY <1>6, <1>9, <1>10, <1>11, <1>12, <1>13, <1>14, <1>15 DEF EventsOnce

\* The row takes the writer's number and event, or both are lost.
LEMMA InsertRowKeeps ==
  ASSUME TableInv, NEW r \in Replicas, InsertRow(r)
  PROVE  TableInv'
<1> USE DEF TableInv
<1>1. /\ Appending(r)
      /\ writing' = [writing EXCEPT ![r] = Idle]
      /\ UNCHANGED <<published, queue, cursor>>
  BY DEF InsertRow, Appending
<1>2. /\ writing[r] \in [event : Nat, seq : Nat]
      /\ \A q \in Replicas : Appending(q)' => q # r /\ Appending(q) /\ writing'[q] = writing[q]
  BY <1>1 DEF Appending, TableTypes
<1>3. CASE UNCHANGED <<rows, written>>
  <2>1. TableTypes'
    BY <1>1, <1>2, <1>3 DEF TableTypes, Idle
  <2>2. NumbersOnce' /\ WindowIsKept'
    BY <1>1, <1>2, <1>3 DEF NumbersOnce, WindowIsKept
  <2>3. Published' /\ AppendedOnce' /\ WrittenOnce'
    BY <1>1, <1>2, <1>3 DEF Published, AppendedOnce, WrittenOnce, EventsOnce, Waits
  <2>4. WaitsOnce' /\ WaitsOnly'
    BY <1>1, <1>2, <1>3 DEF WaitsOnce, WaitsOnly, EventsOnce, Waits
  <2> QED BY <2>1, <2>2, <2>3, <2>4 DEF EventsOnce
<1>4. CASE /\ rows' = rows \union {writing[r].seq}
           /\ written' = [s \in DOMAIN written \union {writing[r].seq} |->
                            IF s = writing[r].seq THEN writing[r].event ELSE written[s]]
  <2>1. /\ DOMAIN written' = DOMAIN written \union {writing[r].seq}
        /\ writing[r].seq \notin DOMAIN written
        /\ written'[writing[r].seq] = writing[r].event
        /\ \A s \in DOMAIN written : written'[s] = written[s]
    BY <1>1, <1>4 DEF NumbersOnce
  <2>2. written' = [s \in DOMAIN written' |-> written'[s]]
    BY <1>4
  <2>3. TableTypes'
    BY <1>1, <1>2, <2>1, <2>2 DEF TableTypes, Idle
  <2>4. NumbersOnce'
    BY <1>1, <1>2, <2>1 DEF NumbersOnce
  <2>5. WindowIsKept'
    BY <1>1, <1>4, <2>1 DEF WindowIsKept
  <2>6. Published'
    BY <1>1, <1>2, <2>1 DEF Published, EventsOnce, Waits
  <2>7. WaitsOnce'
    BY <1>1 DEF WaitsOnce, EventsOnce, Waits
  <2>8. WaitsOnly'
    BY <1>1, <1>2, <2>1 DEF WaitsOnly, EventsOnce, Waits
  <2>9. AppendedOnce' /\ WrittenOnce'
    BY <1>1, <1>2, <2>1 DEF AppendedOnce, WrittenOnce, EventsOnce
  <2> QED BY <2>3, <2>4, <2>5, <2>6, <2>7, <2>8, <2>9 DEF EventsOnce
<1> QED BY <1>3, <1>4 DEF InsertRow

\* A prune deletes rows at or below the floor, and nothing else.
LEMMA PruneKeeps ==
  ASSUME TableInv, NEW r \in Replicas, Prune(r)
  PROVE  TableInv'
<1> USE DEF TableInv
<1>1. /\ rows' = {s \in rows : s > cursor - Backlog}
      /\ UNCHANGED <<published, queue, writing, cursor, written>>
  BY DEF Prune, Floor
<1>2. WindowIsKept'
  BY SMTT(90), <1>1, ChannelAssumption DEF WindowIsKept, TableTypes
<1>3. TableTypes' /\ NumbersOnce'
  BY <1>1 DEF TableTypes, NumbersOnce, Appending
<1>4. EventsOnce'
  BY <1>1 DEF EventsOnce, Published, WaitsOnce, WaitsOnly, AppendedOnce, WrittenOnce,
              Waits, Appending
<1> QED BY <1>2, <1>3, <1>4

\* What a process held is gone, the tables are not.
LEMMA RestartKeeps ==
  ASSUME TableInv, NEW r \in Replicas, Restart(r)
  PROVE  TableInv'
<1> USE DEF TableInv
<1>1. /\ queue' = [queue EXCEPT ![r] = <<>>]
      /\ writing' = [writing EXCEPT ![r] = Idle]
      /\ UNCHANGED <<published, cursor, rows, written>>
  BY DEF Restart
<1>2. /\ \A q \in Replicas, i \in Nat :
           Waits(q, i)' => Waits(q, i) /\ queue'[q][i] = queue[q][i]
      /\ \A q \in Replicas : Appending(q)' => Appending(q) /\ writing'[q] = writing[q]
  BY <1>1 DEF Waits, Appending, TableTypes
<1>3. TableTypes'
  BY <1>1 DEF TableTypes, Idle
<1>4. NumbersOnce' /\ WindowIsKept'
  BY <1>1, <1>2 DEF NumbersOnce, WindowIsKept
<1>5. Published' /\ WaitsOnce' /\ WaitsOnly'
  BY <1>1, <1>2 DEF Published, WaitsOnce, WaitsOnly, EventsOnce
<1>6. AppendedOnce' /\ WrittenOnce'
  BY <1>1, <1>2 DEF AppendedOnce, WrittenOnce, EventsOnce
<1> QED BY <1>3, <1>4, <1>5, <1>6 DEF EventsOnce

LEMMA TableInvKept ==
  ASSUME TableInv, [Next]_vars
  PROVE  TableInv'
<1>1. CASE UNCHANGED tableVars
  BY <1>1 DEF tableVars, TableInv, TableTypes, NumbersOnce, EventsOnce, Published, WaitsOnce,
              WaitsOnly, AppendedOnce, WrittenOnce, WindowIsKept, Waits, Appending
<1> QED BY <1>1, TableSteps, PublishKeeps, TakeSeqKeeps, InsertRowKeeps, PruneKeeps, RestartKeeps

\* The tables keep their invariant through every failure, restart and stream.
THEOREM Tables == Spec => []TableInv
<1>1. Init => TableInv
  BY TableInit
<1>2. TableInv /\ [Next]_vars => TableInv'
  BY TableInvKept
<1> QED BY <1>1, <1>2, PTL DEF Spec

\* An event is written at most once and never above the cursor, and two writers
\* never hold one number (store.rs append).
THEOREM OnceBelowTheMark == Spec => []WrittenOnceBelowTheMark
<1>1. TableInv => WrittenOnceBelowTheMark
  BY DEF TableInv, NumbersOnce, EventsOnce, WrittenOnce, WrittenOnceBelowTheMark, Appending
<1> QED BY <1>1, Tables, PTL

\* Nothing within Backlog of the cursor is ever pruned (store.rs prune).
THEOREM Window == Spec => []WindowIsKept
<1>1. TableInv => WindowIsKept
  BY DEF TableInv
<1> QED BY <1>1, Tables, PTL

\* What is written under a number stays the one thing ever written under it, on
\* whichever replica and after whichever restart (store.rs append).
THEOREM NumberIsForever == Spec => NumberNamesOneEvent
<1>1. ASSUME TableInv, [Next]_vars
      PROVE  [\A s \in DOMAIN written : s \in DOMAIN written' /\ written'[s] = written[s]]_written
  <2>1. CASE \E r \in Replicas : InsertRow(r)
    <3>1. PICK r \in Replicas : InsertRow(r)
      BY <2>1
    <3>2. writing[r].seq \notin DOMAIN written
      BY <3>1, <1>1 DEF InsertRow, TableInv, NumbersOnce, Appending
    <3> QED BY <3>1, <3>2 DEF InsertRow
  <2>2. CASE UNCHANGED written
    BY <2>2
  <2> QED BY <1>1, <2>1, <2>2, TableSteps DEF Publish, TakeSeq, Prune, Restart, tableVars
<1> QED BY <1>1, Tables, PTL DEF Spec, NumberNamesOneEvent

-----------------------------------------------------------------------------
(* What a page and what the consumer is handed are made of.                *)

\* A set of numbers is listed whole, each number once, oldest first: the number
\* with i - 1 below it is the i-th, and counting what is below tells any two
\* numbers apart.
LEMMA Ascends ==
  ASSUME NEW S, S \subseteq Nat, IsFiniteSet(S)
  PROVE  /\ Ascending(S) \in Seq(Nat)
         /\ Len(Ascending(S)) = Cardinality(S)
         /\ \A i \in 1..Len(Ascending(S)) : Ascending(S)[i] \in S
         /\ \A i, j \in 1..Len(Ascending(S)) : i < j => Ascending(S)[i] < Ascending(S)[j]
         /\ \A s \in S : \E i \in 1..Len(Ascending(S)) : Ascending(S)[i] = s
<1> DEFINE n == Cardinality(S)
           Rank(s) == Cardinality(Below(S, s))
           rank == [s \in S |-> Rank(s)]
<1>1. n \in Nat /\ \A s \in S : s \in Nat
  BY FS_CardinalityType
<1>2. \A s \in S : IsFiniteSet(Below(S, s)) /\ Rank(s) \in 0..(n - 1)
  <2> SUFFICES ASSUME NEW s \in S
               PROVE  IsFiniteSet(Below(S, s)) /\ Rank(s) \in 0..(n - 1)
    OBVIOUS
  <2>1. IsFiniteSet(S \ {s}) /\ Cardinality(S \ {s}) = n - 1
    BY FS_RemoveElement
  <2>2. Below(S, s) \in SUBSET (S \ {s})
    BY DEF Below
  <2>3. IsFiniteSet(Below(S, s)) /\ Rank(s) <= Cardinality(S \ {s})
    BY <2>1, <2>2, FS_Subset
  <2>4. Rank(s) \in Nat
    BY <2>3, FS_CardinalityType
  <2> QED BY <1>1, <2>1, <2>3, <2>4
<1>3. \A s, t \in S : s < t => Rank(s) < Rank(t)
  <2> SUFFICES ASSUME NEW s \in S, NEW t \in S, s < t PROVE Rank(s) < Rank(t)
    OBVIOUS
  <2>1. /\ IsFiniteSet(Below(S, s) \union {s})
        /\ Cardinality(Below(S, s) \union {s}) = Rank(s) + 1
    <3>1. s \notin Below(S, s)
      BY <1>1 DEF Below
    <3> QED BY <1>2, <3>1, FS_AddElement
  <2>2. Below(S, s) \union {s} \in SUBSET Below(S, t)
    <3>1. \A u \in S : u < s => u < t
      BY <1>1
    <3> QED BY <3>1 DEF Below
  <2>3. Cardinality(Below(S, s) \union {s}) <= Rank(t)
    BY <1>2, <2>2, FS_Subset
  <2> QED BY <1>1, <1>2, <2>1, <2>3
<1>4. \A i \in 1..n : \E s \in S : Rank(s) = i - 1
  <2>1. rank \in Injection(S, 0..(n - 1))
    <3>1. rank \in [S -> 0..(n - 1)]
      BY <1>2
    <3>2. \A s, t \in S : rank[s] = rank[t] => s = t
      BY <1>1, <1>2, <1>3
    <3> HIDE DEF rank
    <3> QED BY <3>1, <3>2 DEF Injection, IsInjective
  <2>2. IsFiniteSet(0..(n - 1)) /\ Cardinality(0..(n - 1)) = n
    <3> HIDE DEF n
    <3>1. 0 \in Int /\ n - 1 \in Int
      BY <1>1
    <3>2. Cardinality(0..(n - 1)) = IF 0 > n - 1 THEN 0 ELSE n - 1 - 0 + 1
      BY <3>1, FS_Interval
    <3> QED BY <1>1, <3>1, <3>2, FS_Interval
  <2>3. rank \in Surjection(S, 0..(n - 1))
    BY <2>1, <2>2, FS_Injection
  <2>4. \A k \in 0..(n - 1) : \E s \in S : rank[s] = k
    BY <2>3 DEF Surjection
  <2> QED BY <1>1, <2>4
<1> DEFINE list == Ascending(S)
<1>5. \A i \in 1..n : list[i] \in S /\ Rank(list[i]) = i - 1
  BY <1>4 DEF Ascending
<1>6. list = [i \in 1..n |-> list[i]]
  BY DEF Ascending
<1> HIDE DEF list
<1>7. list \in Seq(Nat) /\ Len(list) = n /\ \A i \in 1..n : list[i] \in S
  BY SMTT(90), <1>1, <1>5, <1>6
<1>8. \A i, j \in 1..n : i < j => list[i] < list[j]
  <2> HIDE DEF Rank, n
  <2> SUFFICES ASSUME NEW i \in 1..n, NEW j \in 1..n, i < j PROVE list[i] < list[j]
    OBVIOUS
  <2>1. PICK s \in S, t \in S :
          s = list[i] /\ t = list[j] /\ Rank(s) = i - 1 /\ Rank(t) = j - 1
    BY <1>5
  <2>2. s = t \/ s < t \/ t < s
    BY <1>1
  <2>3. Rank(s) \in Nat /\ Rank(t) \in Nat
    BY <1>2
  <2>4. i - 1 < j - 1
    BY <1>1
  <2>5. s < t
    BY <1>3, <2>1, <2>2, <2>3, <2>4
  <2> QED BY <2>1, <2>5
<1>9. \A s \in S : \E i \in 1..n : list[i] = s
  <2> SUFFICES ASSUME NEW s \in S PROVE \E i \in 1..n : list[i] = s
    OBVIOUS
  <2>1. Rank(s) + 1 \in 1..n
    BY <1>1, <1>2
  <2>2. Rank(list[Rank(s) + 1]) = Rank(s) /\ list[Rank(s) + 1] \in S
    BY <1>1, <1>2, <1>5, <2>1
  <2> HIDE DEF Rank, n
  <2>3. list[Rank(s) + 1] = s
    <3> DEFINE t == list[Rank(s) + 1]
    <3> HIDE DEF t
    <3>1. t \in S /\ Rank(t) = Rank(s) /\ Rank(s) \in Nat
      BY <1>2, <2>2 DEF t
    <3>2. t = s \/ t < s \/ s < t
      BY <1>1, <3>1
    <3>3. (t < s => Rank(t) < Rank(s)) /\ (s < t => Rank(s) < Rank(t))
      BY <1>3, <3>1
    <3>4. t = s
      BY <3>1, <3>2, <3>3
    <3> QED BY <3>4 DEF t
  <2> QED BY <2>1, <2>3
<1> QED BY <1>7, <1>8, <1>9 DEF list

\* A list of numbers goes up.
Ordered(list) == \A i, j \in 1..Len(list) : i < j => list[i] < list[j]

\* Two lists that go up, the second above the first, go up as one.
LEMMA OrderedJoin ==
  ASSUME NEW a \in Seq(Nat), NEW b \in Seq(Nat), Ordered(a), Ordered(b),
         \A i \in 1..Len(a), j \in 1..Len(b) : a[i] < b[j]
  PROVE  a \o b \in Seq(Nat) /\ Ordered(a \o b)
<1>1. /\ a \o b \in Seq(Nat) /\ Len(a) \in Nat /\ Len(b) \in Nat
      /\ Len(a \o b) = Len(a) + Len(b)
  OBVIOUS
<1>2. \A i \in 1..Len(a \o b) :
        \/ (i \in 1..Len(a) /\ (a \o b)[i] = a[i])
        \/ (i - Len(a) \in 1..Len(b) /\ (a \o b)[i] = b[i - Len(a)])
  BY <1>1
<1> SUFFICES ASSUME NEW i \in 1..Len(a \o b), NEW j \in 1..Len(a \o b), i < j
             PROVE  (a \o b)[i] < (a \o b)[j]
  BY <1>1 DEF Ordered
<1>3. CASE i \in 1..Len(a) /\ (a \o b)[i] = a[i]
  <2>1. CASE j \in 1..Len(a) /\ (a \o b)[j] = a[j]
    BY <1>3, <2>1 DEF Ordered
  <2>2. CASE j - Len(a) \in 1..Len(b) /\ (a \o b)[j] = b[j - Len(a)]
    BY <1>3, <2>2
  <2> QED BY <1>2, <2>1, <2>2
<1>4. CASE i - Len(a) \in 1..Len(b) /\ (a \o b)[i] = b[i - Len(a)]
  <2>1. j - Len(a) \in 1..Len(b) /\ (a \o b)[j] = b[j - Len(a)] /\ i - Len(a) < j - Len(a)
    BY <1>1, <1>2, <1>4
  <2> QED BY <1>4, <2>1 DEF Ordered
<1> QED BY <1>2, <1>3, <1>4

\* A list that goes up is no longer than what it is drawn from.
LEMMA OrderedLength ==
  ASSUME NEW m \in Nat, NEW list \in Seq(1..m), Ordered(list)
  PROVE  Len(list) <= m
<1>1. Len(list) \in Nat /\ \A i \in 1..Len(list) : list[i] \in 1..m
  OBVIOUS
<1> DEFINE f == [i \in 1..Len(list) |-> list[i]]
<1>2. f \in [1..Len(list) -> 1..m]
  BY <1>1
<1>3. \A i, j \in 1..Len(list) : f[i] = f[j] => i = j
  <2> SUFFICES ASSUME NEW i \in 1..Len(list), NEW j \in 1..Len(list), list[i] = list[j]
               PROVE  i = j
    OBVIOUS
  <2>1. i < j \/ i = j \/ j < i
    BY <1>1
  <2>2. ~(list[i] < list[j]) /\ ~(list[j] < list[i])
    BY <1>1
  <2> QED BY <2>1, <2>2 DEF Ordered
<1> HIDE DEF f
<1>4. f \in Injection(1..Len(list), 1..m)
  BY <1>2, <1>3 DEF Injection, IsInjective
<1>5. 1 \in Int /\ m \in Int /\ Len(list) \in Int
  BY <1>1
<1>6. /\ IsFiniteSet(1..m) /\ Cardinality(1..m) = IF 1 > m THEN 0 ELSE m - 1 + 1
      /\ Cardinality(1..Len(list)) = IF 1 > Len(list) THEN 0 ELSE Len(list) - 1 + 1
  BY <1>5, FS_Interval
<1>7. Cardinality(1..Len(list)) <= Cardinality(1..m)
  BY <1>4, <1>6, FS_Injection
<1> QED BY <1>1, <1>6, <1>7

\* What is handed out goes up from n: it is each frame higher than n and than all
\* that came before it.
LEMMA HandedAscends ==
  ASSUME NEW frames \in Seq(Nat), NEW n \in Nat
  PROVE  LET out == Handed(frames, n) IN
         /\ out \in Seq(Nat)
         /\ Ordered(out)
         /\ \A i \in 1..Len(out) : \E k \in 1..Len(frames) : /\ out[i] = frames[k] /\ frames[k] > n
         /\ \A k \in 1..Len(frames) :
              (frames[k] > n /\ \A j \in 1..(k - 1) : frames[j] < frames[k])
                => \E i \in 1..Len(out) : out[i] = frames[k]
<1> DEFINE higher == {i \in DOMAIN frames : /\ frames[i] > n
                                            /\ \A j \in 1..(i - 1) : frames[j] < frames[i]}
           S == {frames[i] : i \in higher}
           f == [i \in higher |-> frames[i]]
<1>1. /\ Len(frames) \in Nat /\ DOMAIN frames = 1..Len(frames)
      /\ \A i \in 1..Len(frames) : frames[i] \in Nat
  OBVIOUS
<1>2. IsFiniteSet(higher)
  <2>1. 1 \in Int /\ Len(frames) \in Int
    BY <1>1
  <2>2. IsFiniteSet(1..Len(frames))
    BY <2>1, FS_Interval
  <2>3. higher \in SUBSET (1..Len(frames))
    BY <1>1
  <2> HIDE DEF higher
  <2> QED BY <2>2, <2>3, FS_Subset
<1>3. S \subseteq Nat /\ IsFiniteSet(S)
  <2>1. f \in Surjection(higher, S)
    <3> HIDE DEF higher
    <3> QED BY DEF Surjection
  <2> HIDE DEF f, S
  <2>2. IsFiniteSet(S)
    <3> HIDE DEF higher
    <3> QED BY <1>2, <2>1, FS_Surjection
  <2>3. S \subseteq Nat
    BY <1>1 DEF S
  <2> QED BY <2>2, <2>3
<1>4. Handed(frames, n) = Ascending(S)
  BY DEF Handed
<1>5. /\ \A s \in S : \E k \in 1..Len(frames) : s = frames[k] /\ frames[k] > n
      /\ \A k \in 1..Len(frames) :
           (frames[k] > n /\ \A j \in 1..(k - 1) : frames[j] < frames[k]) => frames[k] \in S
  BY <1>1
<1> DEFINE out == Ascending(S)
<1> HIDE DEF S
<1>6. /\ out \in Seq(Nat) /\ \A i \in 1..Len(out) : out[i] \in S
      /\ \A i, j \in 1..Len(out) : i < j => out[i] < out[j]
      /\ \A s \in S : \E i \in 1..Len(out) : out[i] = s
  BY <1>3, Ascends
<1> HIDE DEF out
<1>8. Ordered(out)
  BY <1>6 DEF Ordered
<1>9. \A i \in 1..Len(out) : \E k \in 1..Len(frames) : out[i] = frames[k] /\ frames[k] > n
  BY <1>5, <1>6
<1>10. \A k \in 1..Len(frames) :
         (frames[k] > n /\ \A j \in 1..(k - 1) : frames[j] < frames[k])
           => \E i \in 1..Len(out) : out[i] = frames[k]
  BY <1>5, <1>6
<1> QED BY <1>4, <1>6, <1>8, <1>9, <1>10 DEF out

LEMMA Narrow ==
  ASSUME NEW S, NEW list \in Seq(Nat), \A i \in 1..Len(list) : list[i] \in S
  PROVE  list \in Seq(S)
<1>1. Len(list) \in Nat /\ list = [i \in 1..Len(list) |-> list[i]]
  OBVIOUS
<1> QED BY <1>1

LEMMA Widen ==
  ASSUME NEW m \in Nat, NEW list \in Seq(1..m)
  PROVE  list \in Seq(Nat)
<1>1. /\ Len(list) \in Nat /\ list = [i \in 1..Len(list) |-> list[i]]
      /\ \A i \in 1..Len(list) : list[i] \in Nat
  OBVIOUS
<1> QED BY <1>1

\* A page holds the rows past n, oldest first, and no row it passes over; it is
\* empty only when there are none.
LEMMA PageAscends ==
  ASSUME rows \subseteq Numbers, NEW n \in Int
  PROVE  /\ After(n) \in Seq(Numbers)
         /\ Ordered(After(n))
         /\ \A i \in 1..Len(After(n)) : After(n)[i] \in rows /\ After(n)[i] > n
         /\ After(n) = <<>> => \A s \in rows : s <= n
         /\ \A s \in rows, i \in 1..Len(After(n)) :
              (n < s /\ s <= After(n)[i]) => \E j \in 1..Len(After(n)) : After(n)[j] = s
<1> DEFINE P == Past(n)
           page == {s \in P : Cardinality(Below(P, s)) < PageSize}
<1>1. \A s \in rows : s \in 1..MaxEvents /\ s \in Nat
  BY ChannelAssumption DEF Numbers
<1>2. P \subseteq Nat /\ IsFiniteSet(P) /\ \A s \in P : s \in rows /\ s > n
  <2>1. P \in SUBSET (1..MaxEvents) /\ P \subseteq Nat /\ \A s \in P : s \in rows /\ s > n
    BY <1>1 DEF Past
  <2>2. 1 \in Int /\ MaxEvents \in Int
    BY ChannelAssumption
  <2>3. IsFiniteSet(1..MaxEvents)
    BY <2>2, FS_Interval
  <2> HIDE DEF P
  <2>4. IsFiniteSet(P)
    BY <2>1, <2>3, FS_Subset
  <2> QED BY <2>1, <2>4
<1>3. \A s \in rows : s > n => s \in P
  BY DEF Past
<1> HIDE DEF P
<1>4. page \in SUBSET P /\ page \subseteq Nat
  BY <1>2
<1>5. IsFiniteSet(page)
  <2> HIDE DEF page
  <2> QED BY <1>2, <1>4, FS_Subset
<1> DEFINE list == Ascending(page)
<1>6. After(n) = list
  BY DEF After, P
<1>7. \A s \in P, t \in page : s <= t => s \in page
  <2> SUFFICES ASSUME NEW s \in P, NEW t \in page, s <= t PROVE s \in page
    OBVIOUS
  <2>1. t \in P /\ Cardinality(Below(P, t)) < PageSize
    OBVIOUS
  <2>2. Below(P, t) \in SUBSET P
    BY DEF Below
  <2>3. IsFiniteSet(Below(P, t))
    BY <1>2, <2>2, FS_Subset
  <2>4. Below(P, s) \in SUBSET Below(P, t)
    <3>1. \A u \in P : u < s => u < t
      BY <1>2, <2>1
    <3> QED BY <3>1 DEF Below
  <2>5. IsFiniteSet(Below(P, s)) /\ Cardinality(Below(P, s)) <= Cardinality(Below(P, t))
    BY <2>3, <2>4, FS_Subset
  <2>6. Cardinality(Below(P, s)) \in Nat /\ Cardinality(Below(P, t)) \in Nat
    BY <2>3, <2>5, FS_CardinalityType
  <2> QED BY <2>1, <2>5, <2>6, ChannelAssumption
<1>8. page = {} => P = {}
  <2> SUFFICES ASSUME P # {} PROVE page # {}
    OBVIOUS
  <2> DEFINE all == Ascending(P)
  <2>1. /\ all \in Seq(Nat) /\ \A i \in 1..Len(all) : all[i] \in P
        /\ \A i, j \in 1..Len(all) : i < j => all[i] < all[j]
        /\ \A s \in P : \E i \in 1..Len(all) : all[i] = s
    BY <1>2, Ascends
  <2> HIDE DEF all
  <2>2. 1 \in 1..Len(all) /\ all[1] \in P
    BY <2>1
  <2>3. \A s \in P : ~(s < all[1])
    <3> SUFFICES ASSUME NEW s \in P, s < all[1] PROVE FALSE
      OBVIOUS
    <3>1. PICK i \in 1..Len(all) : all[i] = s
      BY <2>1
    <3>2. i # 1 => 1 < i
      BY <2>1
    <3>3. all[1] \in Nat /\ s \in Nat
      BY <1>2, <2>2
    <3>4. i # 1 => all[1] < s
      BY <2>1, <2>2, <3>1, <3>2
    <3> QED BY <3>1, <3>3, <3>4
  <2>4. Below(P, all[1]) = {}
    BY <2>3 DEF Below
  <2>5. Cardinality(Below(P, all[1])) < PageSize
    BY <2>4, FS_EmptySet, ChannelAssumption
  <2> QED BY <2>2, <2>5
<1> HIDE DEF page
<1>9. /\ list \in Seq(Nat) /\ \A i \in 1..Len(list) : list[i] \in page
      /\ \A i, j \in 1..Len(list) : i < j => list[i] < list[j]
      /\ \A s \in page : \E i \in 1..Len(list) : list[i] = s
  BY <1>4, <1>5, Ascends
<1> HIDE DEF list
<1>10. \A i \in 1..Len(list) : list[i] \in rows /\ list[i] > n /\ list[i] \in Numbers
  BY <1>2, <1>4, <1>9 DEF Numbers
<1>11. list \in Seq(Numbers)
  BY <1>9, <1>10, Narrow
<1>12. list = <<>> => \A s \in rows : s <= n
  <2> SUFFICES ASSUME list = <<>>, NEW s \in rows PROVE s <= n
    OBVIOUS
  <2>1. page = {}
    BY <1>9
  <2> QED BY <1>1, <1>3, <1>8, <2>1
<1>13. \A s \in rows, i \in 1..Len(list) :
         (n < s /\ s <= list[i]) => \E j \in 1..Len(list) : list[j] = s
  <2> SUFFICES ASSUME NEW s \in rows, NEW i \in 1..Len(list), n < s, s <= list[i]
               PROVE  \E j \in 1..Len(list) : list[j] = s
    OBVIOUS
  <2>1. s \in P
    BY <1>1, <1>3
  <2>2. s \in page
    BY <1>7, <1>9, <2>1
  <2> QED BY <1>9, <2>2
<1> QED BY <1>6, <1>9, <1>10, <1>11, <1>12, <1>13 DEF Ordered

-----------------------------------------------------------------------------
(* The server: every number taken was an event that waited, and what a       *)
(* broadcaster was sent goes up to its watermark.                            *)

Queued == {e \in Nat : \E r \in Replicas, i \in Nat : Waits(r, i) /\ queue[r][i] = e}

\* The events numbered and those that still wait are no more than were published.
Counted == cursor + Cardinality(Queued) <= published

LiveGoesUp ==
  \A r \in Replicas : /\ Ordered(live[r])
                      /\ \A i \in 1..Len(live[r]) : live[r][i] <= mark[r]

ServerInv == ChannelTypeOK /\ Counted /\ LiveGoesUp

LEMMA QueuedIsFinite ==
  ASSUME TableTypes, Published
  PROVE  IsFiniteSet(Queued) /\ Cardinality(Queued) \in Nat
<1>1. \A e \in Queued : e <= published
  BY DEF Queued, Published
<1>2. Queued \in SUBSET Nat /\ published \in Nat
  BY DEF Queued, TableTypes
<1>3. IsFiniteSet(Queued)
  BY <1>1, <1>2, FS_BoundedSetOfNaturals
<1> QED BY <1>3, FS_CardinalityType

\* What a step of anyone does to the server.
LEMMA ChannelSteps ==
  ASSUME [Next]_vars
  PROVE  \/ \E r \in Replicas : \/ Publish(r) \/ TakeSeq(r) \/ InsertRow(r)
                                \/ Align(r) \/ Deliver(r) \/ Prune(r) \/ Restart(r)
                                \/ /\ mark' = Opened(r)
                                   /\ UNCHANGED <<published, queue, writing, cursor, rows,
                                                  written, live, failures, restarts>>
         \/ /\ Fails
            /\ UNCHANGED <<published, queue, writing, cursor, rows, written, mark, live, restarts>>
         \/ UNCHANGED channelVars
<1>1. CASE ServerStep
  BY <1>1 DEF ServerStep, Works
<1>2. CASE \E r \in Replicas : RestartUnder(r)
  BY <1>2 DEF RestartUnder
<1>3. CASE \E r \in Replicas : Connect(r)
  BY <1>3 DEF Connect
<1>4. CASE ReadCursor \/ Refused \/ Receive \/ EndOfBody \/ Break
  BY <1>4 DEF ReadCursor, Refused, Receive, EndOfBody, Break
<1>5. CASE \E p \in replays : ReadPage(p) \/ PageArrives(p) \/ ReplayFails(p)
  BY <1>5 DEF ReadPage, PageArrives, ReplayFails
<1>6. CASE UNCHANGED vars
  BY <1>6 DEF vars
<1> QED BY <1>1, <1>2, <1>3, <1>4, <1>5, <1>6 DEF Next

LEMMA ServerInit == Init => ServerInv
<1> SUFFICES ASSUME Init PROVE ServerInv
  OBVIOUS
<1>1. /\ published = 0 /\ cursor = 0 /\ rows = {} /\ written = <<>>
      /\ queue = [r \in Replicas |-> <<>>] /\ writing = [r \in Replicas |-> Idle]
      /\ mark = [r \in Replicas |-> IF Warm THEN 0 ELSE NoChannel]
      /\ live = [r \in Replicas |-> <<>>] /\ failures = 0 /\ restarts = 0
  BY DEF Init, ChannelInit
<1>2. DOMAIN written = {}
  BY <1>1
<1>3. ChannelTypeOK
  BY <1>1, <1>2, ChannelAssumption DEF ChannelTypeOK, Numbers
<1>4. Queued = {}
  BY <1>1 DEF Queued, Waits
<1>5. Counted
  BY <1>1, <1>4, FS_EmptySet DEF Counted
<1>6. LiveGoesUp
  BY <1>1 DEF LiveGoesUp, Ordered
<1> QED BY <1>3, <1>5, <1>6 DEF ServerInv

\* What a step does to the events that wait, and to the cursor.
LEMMA CountedKept ==
  ASSUME TableInv, TableInv', Counted, [Next]_vars
  PROVE  Counted'
<1>1. /\ IsFiniteSet(Queued) /\ Cardinality(Queued) \in Nat
      /\ IsFiniteSet(Queued') /\ Cardinality(Queued') \in Nat
  <2>1. IsFiniteSet(Queued) /\ Cardinality(Queued) \in Nat
    BY QueuedIsFinite DEF TableInv, EventsOnce
  <2>2. (IsFiniteSet(Queued) /\ Cardinality(Queued) \in Nat)'
    <3>1. TableTypes' /\ Published'
      BY DEF TableInv, EventsOnce
    <3>2. \A e \in Queued' : e <= published'
      BY <3>1 DEF Queued, Published
    <3>3. Queued' \in SUBSET Nat /\ published' \in Nat
      BY <3>1 DEF Queued, TableTypes
    <3>4. IsFiniteSet(Queued')
      BY <3>2, <3>3, FS_BoundedSetOfNaturals
    <3> QED BY <3>4, FS_CardinalityType
  <2> QED BY <2>1, <2>2
<1>2. published \in Nat /\ published' \in Nat /\ cursor \in Nat /\ cursor' \in Nat
  BY DEF TableInv, TableTypes
<1>3. ASSUME Queued' \subseteq Queued, cursor' = cursor, published' = published
      PROVE  Counted'
  <2>1. Cardinality(Queued') <= Cardinality(Queued)
    BY <1>1, <1>3, FS_Subset
  <2> QED BY <1>1, <1>2, <1>3, <2>1 DEF Counted
<1>4. ASSUME NEW r \in Replicas, Publish(r) PROVE Counted'
  <2>1. published' = published + 1 /\ cursor' = cursor
    BY <1>4 DEF Publish
  <2>2. \A q \in Replicas, i \in Nat : Waits(q, i)' =>
          \/ (Waits(q, i) /\ queue'[q][i] = queue[q][i])
          \/ queue'[q][i] = published + 1
    BY SMTT(90), <1>4 DEF Publish, Waits, TableInv, TableTypes
  <2>3. Queued' \in SUBSET (Queued \union {published + 1})
    BY <2>2 DEF Queued
  <2>4. /\ IsFiniteSet(Queued \union {published + 1})
        /\ Cardinality(Queued \union {published + 1}) <= Cardinality(Queued) + 1
    <3> DEFINE new == published + 1
    <3> HIDE DEF new
    <3>1. /\ IsFiniteSet(Queued \union {new})
          /\ Cardinality(Queued \union {new}) =
               IF new \in Queued THEN Cardinality(Queued) ELSE Cardinality(Queued) + 1
      BY <1>1, FS_AddElement
    <3>2. Cardinality(Queued \union {new}) <= Cardinality(Queued) + 1
      BY <1>1, <3>1
    <3> QED BY <3>1, <3>2 DEF new
  <2>5. /\ Cardinality(Queued') <= Cardinality(Queued \union {published + 1})
        /\ Cardinality(Queued \union {published + 1}) \in Nat
    BY <2>3, <2>4, FS_Subset, FS_CardinalityType
  <2> QED BY <1>1, <1>2, <2>1, <2>4, <2>5 DEF Counted
<1>5. ASSUME NEW r \in Replicas, TakeSeq(r) PROVE Counted'
  <2> DEFINE head == queue[r][1]
  <2>1. /\ queue[r] # <<>> /\ queue' = [queue EXCEPT ![r] = Tail(@)]
        /\ published' = published /\ (cursor' = cursor + 1 \/ cursor' = cursor)
    BY <1>5 DEF TakeSeq, NextSeq
  <2>2. queue[r] \in Seq(Nat) /\ Waits(r, 1) /\ head \in Nat
    BY <2>1 DEF TableInv, TableTypes, Waits
  <2>3. head \in Queued
    BY <2>2 DEF Queued
  <2>4. \A q \in Replicas, i \in Nat : Waits(q, i)' =>
          \/ (q # r /\ Waits(q, i) /\ queue'[q][i] = queue[q][i])
          \/ (q = r /\ i # 0 /\ Waits(r, i + 1) /\ queue'[r][i] = queue[r][i + 1])
    BY SMTT(90), <2>1, <2>2 DEF Waits, TableInv, TableTypes
  <2>5. \A q \in Replicas, i \in Nat : Waits(q, i)' =>
          /\ queue'[q][i] # head
          /\ \E j \in Nat : Waits(q, j) /\ queue'[q][i] = queue[q][j]
    <3> SUFFICES ASSUME NEW q \in Replicas, NEW i \in Nat, Waits(q, i)'
                 PROVE  /\ queue'[q][i] # head
                        /\ \E j \in Nat : Waits(q, j) /\ queue'[q][i] = queue[q][j]
      OBVIOUS
    <3>1. PICK j \in Nat : Waits(q, j) /\ queue'[q][i] = queue[q][j] /\ (q # r \/ j # 1)
      BY <2>4
    <3> QED BY <2>2, <3>1 DEF WaitsOnce, TableInv, EventsOnce
  <2>6. Queued' \in SUBSET (Queued \ {head})
    BY <2>5 DEF Queued
  <2>7. /\ IsFiniteSet(Queued \ {head})
        /\ Cardinality(Queued \ {head}) = Cardinality(Queued) - 1
    BY <1>1, <2>3, FS_RemoveElement
  <2>8. Cardinality(Queued') <= Cardinality(Queued \ {head})
    BY <2>6, <2>7, FS_Subset
  <2> QED BY <1>1, <1>2, <2>1, <2>7, <2>8 DEF Counted
<1>6. ASSUME NEW r \in Replicas, Restart(r) PROVE Counted'
  <2>1. Queued' \subseteq Queued
    BY <1>6 DEF Restart, Queued, Waits, TableInv, TableTypes
  <2> QED BY <1>3, <1>6, <2>1 DEF Restart
<1>7. ASSUME UNCHANGED <<published, queue, cursor>> PROVE Counted'
  BY <1>7 DEF Counted, Queued, Waits
<1> QED BY <1>4, <1>5, <1>6, <1>7, TableSteps DEF InsertRow, Prune, tableVars

LEMMA MarkIsAnInteger ==
  ASSUME ChannelTypeOK
  PROVE  \A r \in Replicas : mark[r] \in Int
<1>1. \A r \in Replicas : mark[r] \in {NoChannel, Unaligned} \union (0..MaxEvents)
  BY DEF ChannelTypeOK
<1>2. NoChannel \in Int /\ Unaligned \in Int /\ 0..MaxEvents \subseteq Int
  BY DEF NoChannel, Unaligned
<1> QED BY <1>1, <1>2

\* Types of the server's state, one step at a time.
LEMMA ServerInvKept ==
  ASSUME TableInv, TableInv', ServerInv, [Next]_vars
  PROVE  ServerInv'
<1> USE DEF ServerInv
<1>1. Counted'
  BY CountedKept
<1>2. \A r \in Replicas : mark[r] \in Int
  BY MarkIsAnInteger
<1>3. rows \subseteq Numbers
  BY DEF ChannelTypeOK
<1>4. ASSUME UNCHANGED <<live, mark>> PROVE LiveGoesUp'
  BY <1>4 DEF LiveGoesUp
<1>5. ASSUME NEW r \in Replicas, Publish(r) PROVE ServerInv'
  <2>1. /\ published < MaxEvents /\ published' = published + 1 /\ published \in Nat
        /\ queue' = queue \/ queue' = [queue EXCEPT ![r] = Append(@, published + 1)]
    BY <1>5, ChannelAssumption DEF Publish, ChannelTypeOK
  <2>2. published + 1 \in Numbers /\ published' \in 0..MaxEvents
    BY <2>1, ChannelAssumption DEF Numbers
  <2>3. queue' \in [Replicas -> Seq(Numbers)]
    <3>1. queue[r] \in Seq(Numbers) /\ queue \in [Replicas -> Seq(Numbers)]
      BY DEF ChannelTypeOK
    <3>2. Append(queue[r], published + 1) \in Seq(Numbers)
      BY <2>2, <3>1
    <3> QED BY <2>1, <3>1, <3>2
  <2>4. ChannelTypeOK'
    BY <1>5, <2>2, <2>3 DEF Publish, ChannelTypeOK
  <2> QED BY <1>1, <1>4, <1>5, <2>4 DEF Publish
<1>6. ASSUME NEW r \in Replicas, TakeSeq(r) PROVE ServerInv'
  <2>1. /\ queue[r] # <<>> /\ queue' = [queue EXCEPT ![r] = Tail(@)]
        /\ queue[r] \in Seq(Numbers)
    BY <1>6 DEF TakeSeq, ChannelTypeOK
  <2>2. Head(queue[r]) \in Numbers /\ queue' \in [Replicas -> Seq(Numbers)]
    BY <2>1 DEF ChannelTypeOK
  <2>3. cursor' \in 0..MaxEvents
    <3>1. IsFiniteSet(Queued') /\ Cardinality(Queued') \in Nat
      <4>1. TableTypes' /\ Published'
        BY DEF TableInv, EventsOnce
      <4>2. \A e \in Queued' : e <= published'
        BY <4>1 DEF Queued, Published
      <4>3. Queued' \in SUBSET Nat /\ published' \in Nat
        BY <4>1 DEF Queued, TableTypes
      <4>4. IsFiniteSet(Queued')
        BY <4>2, <4>3, FS_BoundedSetOfNaturals
      <4> QED BY <4>4, FS_CardinalityType
    <3>2. cursor' \in Nat /\ published' = published /\ published \in 0..MaxEvents
      BY <1>6 DEF TakeSeq, TableInv, TableTypes, ChannelTypeOK
    <3> QED BY <1>1, <3>1, <3>2, ChannelAssumption DEF Counted
  <2>4. \/ /\ cursor' = cursor + 1
           /\ writing' = [writing EXCEPT ![r] = [event |-> Head(queue[r]), seq |-> cursor + 1]]
           /\ failures' = failures
        \/ /\ Fails
           /\ UNCHANGED <<cursor, writing>>
    BY <1>6 DEF TakeSeq, NextSeq
  <2>5. writing' \in [Replicas -> {Idle} \union [event : Numbers, seq : Numbers]]
    <3>1. CASE UNCHANGED writing
      BY <3>1 DEF ChannelTypeOK
    <3>2. CASE /\ cursor' = cursor + 1
               /\ writing' = [writing EXCEPT ![r] = [event |-> Head(queue[r]), seq |-> cursor + 1]]
      <4>1. cursor + 1 \in Numbers
        BY <2>3, <3>2, ChannelAssumption DEF ChannelTypeOK, Numbers
      <4>2. [event |-> Head(queue[r]), seq |-> cursor + 1] \in [event : Numbers, seq : Numbers]
        BY <2>2, <4>1
      <4> QED BY <3>2, <4>2 DEF ChannelTypeOK
    <3> QED BY <2>4, <3>1, <3>2
  <2>6. failures' \in 0..MaxFailures
    BY <2>4, ChannelAssumption DEF Fails, ChannelTypeOK
  <2>7. ChannelTypeOK'
    BY <1>6, <2>2, <2>3, <2>5, <2>6 DEF TakeSeq, ChannelTypeOK
  <2> QED BY <1>1, <1>4, <1>6, <2>7 DEF TakeSeq
<1>7. ASSUME NEW r \in Replicas, InsertRow(r) PROVE ServerInv'
  <2>1. /\ writing[r] \in [event : Numbers, seq : Numbers]
        /\ writing' = [writing EXCEPT ![r] = Idle]
        /\ UNCHANGED <<published, queue, cursor, mark, live, restarts>>
    BY <1>7 DEF InsertRow, ChannelTypeOK
  <2>2. /\ rows' \subseteq DOMAIN written' /\ DOMAIN written' \subseteq Numbers
        /\ \A s \in DOMAIN written' : written'[s] \in Numbers
        /\ failures' \in 0..MaxFailures
    <3>1. CASE Fails /\ UNCHANGED <<rows, written>>
      BY <3>1, ChannelAssumption DEF Fails, ChannelTypeOK
    <3>2. CASE /\ rows' = rows \union {writing[r].seq}
               /\ written' = [s \in DOMAIN written \union {writing[r].seq} |->
                                IF s = writing[r].seq THEN writing[r].event ELSE written[s]]
               /\ failures' = failures
      BY <2>1, <3>2 DEF ChannelTypeOK
    <3> QED BY <1>7, <3>1, <3>2 DEF InsertRow
  <2>3. ChannelTypeOK'
    BY <2>1, <2>2 DEF ChannelTypeOK
  <2> QED BY <1>1, <1>4, <2>1, <2>3
<1>8. ASSUME NEW r \in Replicas, Align(r) PROVE ServerInv'
  <2>1. /\ mark[r] = Unaligned /\ mark' = [mark EXCEPT ![r] = cursor]
        /\ UNCHANGED <<published, queue, writing, cursor, rows, written, live, failures, restarts>>
    BY <1>8 DEF Align
  <2>2. ChannelTypeOK'
    BY <2>1 DEF ChannelTypeOK
  <2>3. \A i \in 1..Len(live[r]) : live[r][i] \in Numbers /\ live[r][i] <= Unaligned
    BY <2>1 DEF LiveGoesUp, ChannelTypeOK
  <2>4. \A i \in 1..Len(live[r]) : FALSE
    BY <2>3, ChannelAssumption DEF Unaligned, Numbers
  <2>5. LiveGoesUp'
    BY <2>1, <2>4 DEF LiveGoesUp, ChannelTypeOK
  <2> QED BY <1>1, <2>2, <2>5
<1>9. ASSUME NEW r \in Replicas, Deliver(r) PROVE ServerInv'
  <2> DEFINE page == After(mark[r])
  <2>1. /\ page \in Seq(Numbers) /\ Ordered(page)
        /\ \A i \in 1..Len(page) : page[i] \in rows /\ page[i] > mark[r]
    BY <1>2, <1>3, PageAscends
  <2>2. /\ page # <<>> /\ live' = [live EXCEPT ![r] = @ \o page]
        /\ mark' = [mark EXCEPT ![r] = Last(page)]
        /\ UNCHANGED <<published, queue, writing, cursor, rows, written, failures, restarts>>
    BY <1>9 DEF Deliver
  <2> HIDE DEF page
  <2>3. /\ Len(page) \in 1..Len(page) /\ Last(page) = page[Len(page)]
        /\ Last(page) \in Numbers
    BY <2>1, <2>2 DEF Last
  <2>4. \A i \in 1..Len(page) : page[i] <= Last(page) /\ page[i] \in Numbers
    <3> SUFFICES ASSUME NEW i \in 1..Len(page) PROVE page[i] <= Last(page) /\ page[i] \in Numbers
      OBVIOUS
    <3>1. page[i] \in Numbers /\ page[i] \in Nat /\ Len(page) \in Nat
      BY <2>1, ChannelAssumption DEF Numbers
    <3>2. CASE i = Len(page)
      BY <2>3, <3>1, <3>2
    <3>3. CASE i < Len(page)
      <4>1. page[i] < page[Len(page)]
        BY <2>1, <2>3, <3>3 DEF Ordered
      <4>2. Last(page) \in Nat
        BY <2>3, ChannelAssumption DEF Numbers
      <4> QED BY <2>3, <3>1, <4>1, <4>2
    <3> QED BY <3>1, <3>2, <3>3
  <2>5. /\ live[r] \in Seq(Numbers) /\ Ordered(live[r])
        /\ \A i \in 1..Len(live[r]) : live[r][i] <= mark[r] /\ live[r][i] \in Numbers
    BY DEF LiveGoesUp, ChannelTypeOK
  <2>6. live[r] \in Seq(Nat) /\ page \in Seq(Nat) /\ \A k \in Numbers : k \in Nat
    BY <2>1, <2>5, ChannelAssumption, Widen DEF Numbers
  <2>7. \A i \in 1..Len(live[r]), j \in 1..Len(page) : live[r][i] < page[j]
    <3> SUFFICES ASSUME NEW i \in 1..Len(live[r]), NEW j \in 1..Len(page)
                 PROVE  live[r][i] < page[j]
      OBVIOUS
    <3>1. live[r][i] <= mark[r] /\ live[r][i] \in Nat
      BY <2>5, <2>6
    <3>2. page[j] > mark[r] /\ page[j] \in Nat
      BY <2>1, <2>4, <2>6
    <3>3. mark[r] \in Int
      BY <1>2
    <3> QED BY <3>1, <3>2, <3>3
  <2>8. Ordered(live[r] \o page)
    BY <2>1, <2>5, <2>6, <2>7, OrderedJoin
  <2>9. /\ live[r] \o page \in Seq(Numbers)
        /\ \A i \in 1..Len(live[r] \o page) : (live[r] \o page)[i] <= Last(page)
    <3>1. \A i \in 1..Len(live[r]) : live[r][i] <= Last(page)
      <4>1. \A i \in 1..Len(live[r]) : live[r][i] < Last(page) /\ live[r][i] \in Nat
        BY <2>3, <2>5, <2>6, <2>7
      <4>2. Last(page) \in Nat
        BY <2>3, <2>6
      <4> QED BY <4>1, <4>2
    <3>2. \A i \in 1..Len(live[r] \o page) :
            \/ (i \in 1..Len(live[r]) /\ (live[r] \o page)[i] = live[r][i])
            \/ (i - Len(live[r]) \in 1..Len(page)
                /\ (live[r] \o page)[i] = page[i - Len(live[r])])
      BY <2>6
    <3> QED BY <2>1, <2>4, <2>5, <3>1, <3>2
  <2>10. ChannelTypeOK'
    <3>1. mark' \in [Replicas -> {NoChannel, Unaligned} \union (0..MaxEvents)]
      BY <2>2, <2>3, ChannelAssumption DEF ChannelTypeOK, Numbers
    <3>2. live' \in [Replicas -> Seq(Numbers)]
      BY <2>2, <2>9 DEF ChannelTypeOK
    <3> QED BY <2>2, <3>1, <3>2 DEF ChannelTypeOK
  <2>11. LiveGoesUp'
    <3>1. live'[r] = live[r] \o page /\ mark'[r] = Last(page)
      BY <2>2 DEF ChannelTypeOK
    <3>2. \A q \in Replicas : q # r => live'[q] = live[q] /\ mark'[q] = mark[q]
      BY <2>2 DEF ChannelTypeOK
    <3> QED BY <2>8, <2>9, <3>1, <3>2 DEF LiveGoesUp
  <2> QED BY <1>1, <2>10, <2>11
<1>10. ASSUME NEW r \in Replicas, Prune(r) PROVE ServerInv'
  BY <1>1, <1>4, <1>10 DEF Prune, ChannelTypeOK
<1>11. ASSUME NEW r \in Replicas, Restart(r) PROVE ServerInv'
  <2>1. ChannelTypeOK'
    BY <1>11, ChannelAssumption DEF Restart, ChannelTypeOK
  <2>2. LiveGoesUp'
    <3>1. live'[r] = <<>> /\ \A q \in Replicas : q # r => live'[q] = live[q] /\ mark'[q] = mark[q]
      BY <1>11 DEF Restart, ChannelTypeOK
    <3>2. Len(live'[r]) = 0
      BY <3>1
    <3>3. Ordered(live'[r]) /\ \A i \in 1..Len(live'[r]) : live'[r][i] <= mark'[r]
      BY <3>2 DEF Ordered
    <3> QED BY <3>1, <3>3 DEF LiveGoesUp
  <2> QED BY <1>1, <2>1, <2>2
<1>12. ASSUME NEW r \in Replicas, mark' = Opened(r),
              UNCHANGED <<published, queue, writing, cursor, rows, written, live, failures, restarts>>
       PROVE  ServerInv'
  <2>1. ChannelTypeOK'
    BY <1>12 DEF Opened, ChannelTypeOK
  <2>2. \A q \in Replicas : mark[q] <= mark'[q]
    BY <1>2, <1>12 DEF Opened, ChannelTypeOK, NoChannel, Unaligned
  <2>3. LiveGoesUp'
    <3>1. \A q \in Replicas : \A i \in 1..Len(live[q]) : live[q][i] \in Numbers
      BY DEF ChannelTypeOK
    <3>2. \A q \in Replicas : mark'[q] \in Int
      <4>1. \A q \in Replicas : mark'[q] \in {NoChannel, Unaligned} \union (0..MaxEvents)
        BY <2>1 DEF ChannelTypeOK
      <4>2. NoChannel \in Int /\ Unaligned \in Int /\ 0..MaxEvents \subseteq Int
        BY DEF NoChannel, Unaligned
      <4> QED BY <4>1, <4>2
    <3>3. \A q \in Replicas : \A i \in 1..Len(live[q]) : live[q][i] <= mark'[q]
      BY <1>2, <2>2, <3>1, <3>2, ChannelAssumption DEF LiveGoesUp, Numbers
    <3> QED BY <1>12, <3>3 DEF LiveGoesUp
  <2> QED BY <1>1, <2>1, <2>3
<1>13. ASSUME Fails,
              UNCHANGED <<published, queue, writing, cursor, rows, written, mark, live, restarts>>
       PROVE  ServerInv'
  BY <1>1, <1>4, <1>13, ChannelAssumption DEF Fails, ChannelTypeOK
<1>14. ASSUME UNCHANGED channelVars PROVE ServerInv'
  BY <1>1, <1>4, <1>14 DEF channelVars, ChannelTypeOK
<1> QED BY <1>5, <1>6, <1>7, <1>8, <1>9, <1>10, <1>11, <1>12, <1>13, <1>14, ChannelSteps

-----------------------------------------------------------------------------
(* The browser: what was handed out goes up, and no further than the cursor   *)
(* it resumes from.                                                           *)

StreamTypes ==
  /\ link \in {"starting", "connecting", "open", "closed"}
  /\ at \in Replicas
  /\ read \in 0..MaxEvents
  /\ connections \in 0..MaxConnections
  /\ seen \in 0..MaxEvents
  /\ from \in 0..MaxEvents
  /\ held \in {NotHolding} \union Seq(Numbers)
  /\ replays \subseteq Replays
  /\ got \in Seq(Numbers)

GotGoesUp ==
  /\ Ordered(got)
  /\ \A i \in 1..Len(got) : got[i] <= seen

\* Before it knows where it starts, a stream has asked for nothing.
Untouched == link = "starting" => got = <<>> /\ replays = {} /\ held = NotHolding

StreamInv == StreamTypes /\ GotGoesUp /\ Untouched

\* The frames held, or none.
Parked == IF held = NotHolding THEN <<>> ELSE held

LEMMA ParkedIsFrames ==
  ASSUME StreamTypes
  PROVE  Parked \in Seq(Numbers)
BY DEF StreamTypes, Parked

\* Handing out frames keeps what was handed out going up to the cursor.
LEMMA HandKeeps ==
  ASSUME StreamTypes, GotGoesUp, NEW frames \in Seq(Numbers), Hand(frames)
  PROVE  /\ got' \in Seq(Numbers) /\ seen' \in 0..MaxEvents
         /\ GotGoesUp'
         /\ seen <= seen'
<1> DEFINE out == Handed(frames, seen)
<1>1. frames \in Seq(Nat) /\ seen \in Nat /\ got \in Seq(Nat) /\ MaxEvents \in Nat
  BY ChannelAssumption, Widen DEF StreamTypes, Numbers
<1>2. \A k \in 1..Len(frames) : frames[k] \in Numbers
  OBVIOUS
<1>3. /\ out \in Seq(Nat) /\ Ordered(out)
      /\ \A i \in 1..Len(out) : \E k \in 1..Len(frames) : out[i] = frames[k] /\ frames[k] > seen
  BY <1>1, HandedAscends
<1>4. got' = got \o out /\ seen' = IF out = <<>> THEN seen ELSE Last(out)
  BY DEF Hand
<1> HIDE DEF out
<1>5. \A i \in 1..Len(out) : out[i] \in Numbers /\ out[i] > seen
  BY <1>2, <1>3
<1>6. out \in Seq(Numbers)
  BY <1>3, <1>5, Narrow
<1>7. got' \in Seq(Numbers)
  BY <1>4, <1>6 DEF StreamTypes
<1>8. \A i \in 1..Len(got), j \in 1..Len(out) : got[i] < out[j]
  <2> SUFFICES ASSUME NEW i \in 1..Len(got), NEW j \in 1..Len(out) PROVE got[i] < out[j]
    OBVIOUS
  <2>1. got[i] <= seen
    BY DEF GotGoesUp
  <2>2. out[j] > seen
    BY <1>5
  <2>3. got[i] \in Nat /\ out[j] \in Nat
    BY SMTT(90), <1>1, <1>3
  <2> QED BY <1>1, <2>1, <2>2, <2>3
<1>9. Ordered(got')
  BY <1>1, <1>3, <1>4, <1>8, OrderedJoin DEF GotGoesUp
<1>10. CASE out = <<>>
  <2>1. got' = got /\ seen' = seen
    BY <1>1, <1>4, <1>10
  <2> QED BY <1>1, <1>7, <2>1 DEF GotGoesUp, StreamTypes
<1>11. CASE out # <<>>
  <2>1. Len(out) \in 1..Len(out) /\ seen' = out[Len(out)]
    BY <1>3, <1>4, <1>11 DEF Last
  <2>2. seen' \in Numbers /\ seen' > seen
    BY <1>5, <2>1
  <2>3. \A i \in 1..Len(out) : out[i] <= seen'
    <3>1. \A i \in 1..Len(out) : i = Len(out) \/ i < Len(out)
      BY <1>3
    <3>2. \A i \in 1..Len(out) : out[i] \in Nat
      BY <1>3
    <3>3. \A i \in 1..Len(out) : i < Len(out) => out[i] < out[Len(out)]
      BY <1>3, <2>1 DEF Ordered
    <3>4. \A i \in 1..Len(out) : i = Len(out) => out[i] = out[Len(out)]
      OBVIOUS
    <3> QED BY <2>1, <3>1, <3>2, <3>3, <3>4
  <2>4. \A i \in 1..Len(got) : got[i] <= seen'
    <3>1. \A i \in 1..Len(got) : got[i] < seen'
      BY <1>8, <2>1
    <3> QED BY <1>1, <2>2, <3>1 DEF Numbers
  <2>5. \A i \in 1..Len(got') : \/ (i \in 1..Len(got) /\ got'[i] = got[i])
                                \/ (i - Len(got) \in 1..Len(out) /\ got'[i] = out[i - Len(got)])
    BY <1>1, <1>3, <1>4
  <2>6. \A i \in 1..Len(got') : got'[i] <= seen'
    BY <2>3, <2>4, <2>5
  <2> QED BY <1>1, <1>7, <1>9, <2>2, <2>6 DEF GotGoesUp, Numbers
<1> QED BY <1>10, <1>11

LEMMA StreamInit == Init => StreamInv
<1> SUFFICES ASSUME Init PROVE StreamInv
  OBVIOUS
<1>1. /\ link \in {"starting", "connecting"} /\ at \in Replicas /\ read = 0 /\ connections = 0
      /\ seen = 0 /\ from = 0 /\ held = NotHolding /\ replays = {} /\ got = <<>>
  BY DEF Init
<1>2. StreamTypes
  BY <1>1, ChannelAssumption, StreamAssumption DEF StreamTypes
<1>3. GotGoesUp
  BY <1>1 DEF GotGoesUp, Ordered
<1> QED BY <1>1, <1>2, <1>3 DEF StreamInv, Untouched

\* No broadcaster was ever sent more frames than there are numbers.
LEMMA LiveIsShort ==
  ASSUME ServerInv, NEW r \in Replicas
  PROVE  /\ live[r] \in Seq(Numbers) /\ Len(live[r]) \in 0..MaxEvents
         /\ \A i \in 1..Len(live[r]) : live[r][i] \in Numbers
<1>1. live[r] \in Seq(1..MaxEvents) /\ Ordered(live[r]) /\ MaxEvents \in Nat
  BY ChannelAssumption DEF ServerInv, ChannelTypeOK, LiveGoesUp, Numbers
<1>2. Len(live[r]) <= MaxEvents
  BY <1>1, OrderedLength
<1> QED BY <1>1, <1>2 DEF Numbers

\* The end of a replay.
LEMMA SettleKeeps ==
  ASSUME StreamInv, NEW p \in replays, NEW frames \in Seq(Numbers),
         \/ Settle(p, frames) \/ GiveUp(p),
         UNCHANGED <<at, read, connections, from>>
  PROVE  StreamInv'
<1> USE DEF StreamInv
<1>1. link # "starting" /\ link' # "starting"
  BY DEF Untouched, Settle, GiveUp
<1>2. /\ replays' = replays \ {p} /\ held' = NotHolding
      /\ link' \in {link, "closed"}
  BY DEF Settle, GiveUp
<1>3. Parked \in Seq(Numbers) /\ frames \o Parked \in Seq(Numbers)
  BY ParkedIsFrames
<1>4. \/ \E f \in Seq(Numbers) : Hand(f)
      \/ UNCHANGED <<seen, got>>
  BY <1>3 DEF Settle, GiveUp, Parked
<1>5. got' \in Seq(Numbers) /\ seen' \in 0..MaxEvents /\ GotGoesUp'
  <2>1. CASE UNCHANGED <<seen, got>>
    BY <2>1 DEF StreamTypes, GotGoesUp
  <2> QED BY <1>4, <2>1, HandKeeps
<1>6. StreamTypes'
  BY <1>2, <1>5 DEF StreamTypes
<1> QED BY <1>1, <1>5, <1>6 DEF Untouched

LEMMA StreamInvKept ==
  ASSUME ServerInv, StreamInv, [Next]_vars
  PROVE  StreamInv'
<1> USE DEF StreamInv
<1>1. ASSUME UNCHANGED streamVars PROVE StreamInv'
  BY <1>1 DEF streamVars, StreamTypes, GotGoesUp, Untouched
<1>2. ASSUME NEW r \in Replicas, RestartUnder(r) PROVE StreamInv'
  BY <1>2 DEF RestartUnder, StreamTypes, GotGoesUp, Untouched
<1>3. ASSUME NEW r \in Replicas, Connect(r) PROVE StreamInv'
  <2>1. /\ link = "connecting" /\ link' = "open" /\ at' = r /\ read' = Len(live[r])
        /\ connections < MaxConnections /\ connections' = connections + 1
        /\ UNCHANGED <<seen, from, got>>
    BY <1>3 DEF Connect
  <2>2. connections' \in 0..MaxConnections /\ connections + 1 \in 1..MaxConnections
    BY <2>1, StreamAssumption DEF StreamTypes
  <2>3. read' \in 0..MaxEvents
    BY <2>1, LiveIsShort
  <2>4. held' \in {NotHolding} \union Seq(Numbers) /\ replays' \subseteq Replays
    <3>1. [conn |-> connections + 1, after |-> seen, upto |-> None, events |-> <<>>,
           page |-> Asked] \in Replays
      BY <2>2 DEF Replays, StreamTypes
    <3>2. <<>> \in Seq(Numbers)
      OBVIOUS
    <3>3. CASE UNCHANGED <<held, replays>>
      BY <3>3 DEF StreamTypes
    <3>4. CASE /\ held' = <<>>
               /\ replays' = replays \union
                    {[conn |-> connections + 1, after |-> seen, upto |-> None,
                      events |-> <<>>, page |-> Asked]}
      BY <3>1, <3>2, <3>4 DEF StreamTypes
    <3> QED BY <1>3, <3>3, <3>4 DEF Connect
  <2> QED BY <2>1, <2>2, <2>3, <2>4 DEF StreamTypes, GotGoesUp, Untouched
<1>4. ASSUME ReadCursor PROVE StreamInv'
  <2>1. /\ link' = "connecting" /\ seen' = cursor /\ from' = cursor /\ got = <<>>
        /\ UNCHANGED <<at, read, connections, held, replays, got>>
    BY <1>4 DEF ReadCursor, Untouched
  <2>2. StreamTypes'
    BY <2>1 DEF StreamTypes, ServerInv, ChannelTypeOK
  <2> QED BY <2>1, <2>2 DEF GotGoesUp, Untouched, Ordered
<1>5. ASSUME Refused PROVE StreamInv'
  BY <1>5 DEF Refused, StreamTypes, GotGoesUp, Untouched
<1>6. ASSUME Receive PROVE StreamInv'
  <2>1. /\ link = "open" /\ read < Len(live[at]) /\ read' = NextFrame
        /\ UNCHANGED <<link, at, connections, from, replays>>
    BY <1>6 DEF Receive
  <2>2. /\ live[at] \in Seq(Numbers) /\ Len(live[at]) \in 0..MaxEvents
        /\ \A i \in 1..Len(live[at]) : live[at][i] \in Numbers
    BY LiveIsShort DEF StreamTypes
  <2>3. NextFrame \in 1..Len(live[at]) /\ NextFrame \in 0..MaxEvents
    BY SMTT(90), <2>1, <2>2, ChannelAssumption, StreamAssumption DEF NextFrame, StreamTypes
  <2>4. live[at][NextFrame] \in Numbers
    BY <2>2, <2>3
  <2>5. CASE held # NotHolding /\ held' = Append(held, live[at][NextFrame]) /\ UNCHANGED <<seen, got>>
    <3>1. held \in Seq(Numbers) /\ held' \in Seq(Numbers)
      BY <2>4, <2>5 DEF StreamTypes
    <3> QED BY <2>1, <2>3, <2>5, <3>1 DEF StreamTypes, GotGoesUp, Untouched
  <2>6. CASE Hand(<<live[at][NextFrame]>>) /\ UNCHANGED held
    <3>1. got' \in Seq(Numbers) /\ seen' \in 0..MaxEvents /\ GotGoesUp'
      <4>1. <<live[at][NextFrame]>> \in Seq(Numbers)
        BY <2>4
      <4> QED BY <2>6, <4>1, HandKeeps
    <3> QED BY <2>1, <2>3, <2>6, <3>1 DEF StreamTypes, Untouched
  <2> QED BY <1>6, <2>5, <2>6 DEF Receive
<1>7. ASSUME EndOfBody \/ Break PROVE StreamInv'
  BY <1>7 DEF EndOfBody, Break, StreamTypes, GotGoesUp, Untouched
<1>8. ASSUME NEW p \in replays, ReadPage(p) PROVE StreamInv'
  <2> DEFINE q == [p EXCEPT !.page = After(p.after), !.upto = IF @ = None THEN cursor ELSE @]
  <2>1. /\ replays' = (replays \ {p}) \union {q}
        /\ UNCHANGED <<link, at, read, connections, seen, from, held, got>>
    BY <1>8 DEF ReadPage
  <2>2. p \in Replays /\ p.after \in Int
    BY DEF StreamTypes, Replays
  <2>3. After(p.after) \in Seq(Numbers)
    BY <2>2, PageAscends DEF ServerInv, ChannelTypeOK
  <2>4. q \in Replays
    BY <2>2, <2>3 DEF Replays, ServerInv, ChannelTypeOK
  <2> HIDE DEF q
  <2> QED BY <2>1, <2>4 DEF StreamTypes, GotGoesUp, Untouched
<1>9. ASSUME NEW p \in replays, PageArrives(p) PROVE StreamInv'
  <2>1. /\ p \in Replays /\ p.page \in Seq(Numbers) /\ p.events \in Seq(Numbers)
        /\ UNCHANGED <<at, read, connections, from>>
    BY <1>9 DEF PageArrives, StreamTypes, Replays
  <2>2. CASE GiveUp(p)
    BY <2>1, <2>2, SettleKeeps
  <2>3. CASE Settle(p, p.events \o p.page)
    <3>1. p.events \o p.page \in Seq(Numbers)
      BY <2>1
    <3> QED BY <2>1, <2>3, <3>1, SettleKeeps
  <2> DEFINE q == [p EXCEPT !.after = Last(p.page), !.events = @ \o p.page, !.page = Asked]
  <2>4. CASE /\ ~IsLast(p, p.page)
             /\ replays' = (replays \ {p}) \union {q}
             /\ UNCHANGED <<link, seen, held, got>>
    <3>1. Last(p.page) \in Numbers
      BY <2>1, <2>4 DEF IsLast, Last
    <3>2. Last(p.page) \in 0..MaxEvents
      BY <3>1 DEF Numbers
    <3>3. p.events \o p.page \in Seq(Numbers)
      BY <2>1
    <3>4. q \in Replays
      BY <2>1, <3>2, <3>3 DEF Replays
    <3> HIDE DEF q
    <3> QED BY <2>1, <2>4, <3>4 DEF StreamTypes, GotGoesUp, Untouched
  <2> QED BY <1>9, <2>2, <2>3, <2>4 DEF PageArrives
<1>10. ASSUME NEW p \in replays, ReplayFails(p) PROVE StreamInv'
  <2>1. <<>> \in Seq(Numbers) /\ GiveUp(p) /\ UNCHANGED <<at, read, connections, from>>
    BY <1>10 DEF ReplayFails
  <2> QED BY <2>1, SettleKeeps
<1> QED BY <1>1, <1>2, <1>3, <1>4, <1>5, <1>6, <1>7, <1>8, <1>9, <1>10
        DEF Next, ServerStep, vars

\* Every value is of its type, for every number of replicas and every bound.
THEOREM StreamTypeCorrect == Spec => []TypeOK
<1>1. TableInv /\ ServerInv /\ StreamInv /\ [Next]_vars => (ServerInv /\ StreamInv)'
  BY ServerInvKept, StreamInvKept, TableInvKept
<1>2. ServerInv /\ StreamInv => TypeOK
  BY DEF ServerInv, StreamInv, StreamTypes, TypeOK
<1> QED BY <1>1, <1>2, ServerInit, StreamInit, Tables, PTL DEF Spec

\* What the consumer is handed is strictly ascending, through restarts, broken
\* connections, failed replays and frames held while one is in flight
\* (FetchEventSource.ts, deliverMessage and deliverParsed).
THEOREM HandedInOrder == Spec => []InOrderOnce
<1>1. TableInv /\ ServerInv /\ StreamInv /\ [Next]_vars => (ServerInv /\ StreamInv)'
  BY ServerInvKept, StreamInvKept, TableInvKept
<1>2. StreamInv => InOrderOnce
  BY DEF StreamInv, StreamTypes, GotGoesUp, Ordered, InOrderOnce
<1> QED BY <1>1, <1>2, ServerInit, StreamInit, Tables, PTL DEF Spec

-----------------------------------------------------------------------------
(* Nothing is passed over, as long as the subscription is served in order:    *)
(* every reconnection, replica, restart, failure and prune included.  Without *)
(* any one of the four parts an event can be passed over.                     *)

\* The subscription has lost no frame to the broadcaster's bound.
KeptUp == link = "open" => Len(live[at]) - read <= Buffer

\* The channel is aligned before the replay beside it has its first page.
AlignedFirst == (link = "open" /\ mark[at] < 0) => \E p \in replays : p.upto = None

\* No replay outlives its connection.
NoneBehind == \A p \in replays : link = "open" /\ p.conn = connections

\* A number that is being appended is above every number written, and above what
\* the broadcaster has passed.
NoneLate ==
  \A r \in Replicas : Appending(r) =>
    /\ \A s \in DOMAIN written : s < writing[r].seq
    /\ link = "open" => mark[at] < writing[r].seq

Served == KeptUp /\ AlignedFirst /\ NoneBehind /\ NoneLate

In(s, list) == \E i \in 1..Len(list) : list[i] = s

SentAreWritten ==
  \A r \in Replicas : \A i \in 1..Len(live[r]) : live[r][i] \in DOMAIN written

\* The number is in a frame the subscription has yet to read.
Ahead(s) == \E i \in 1..Len(live[at]) : i > read /\ live[at][i] = s

\* Neither ahead nor held, a row the broadcaster has passed is the replay's.
Owed(s) == s <= mark[at] /\ ~Ahead(s) /\ ~In(s, held)

\* What was broadcast before the frames now held.
Earlier == read - Len(held)

\* The frames held are the last ones read.
HeldIsLast ==
  /\ Len(held) <= read
  /\ \A i \in 1..Len(held) : held[i] = live[at][Earlier + i]

\* A replay has every row up to the number it has read to; its page every row from
\* there to its last; and the mark it reads up to is no lower than what it owes.
Replaying(p) ==
  /\ Ordered(p.events)
  /\ \A i \in 1..Len(p.events) : p.events[i] <= p.after /\ p.events[i] \in DOMAIN written
  /\ p.after = seen \/ p.after \in DOMAIN written
  /\ \A s \in rows : (seen < s /\ s <= p.after) => In(s, p.events)
  /\ p.upto # None => \A s \in rows : Owed(s) => s <= p.upto
  /\ p.page # Asked =>
       /\ p.upto # None
       /\ Ordered(p.page)
       /\ \A i \in 1..Len(p.page) : p.page[i] > p.after /\ p.page[i] \in DOMAIN written
       /\ \A s \in rows, i \in 1..Len(p.page) : (p.after < s /\ s <= p.page[i]) => In(s, p.page)
       /\ p.page = <<>> => \A s \in rows : Owed(s) => s <= p.after

Following ==
  \/ /\ held = NotHolding /\ replays = {}
     /\ \A s \in rows : s <= mark[at] => s <= seen \/ Ahead(s)
  \/ /\ held # NotHolding
     /\ HeldIsLast
     /\ \E p \in replays : replays = {p} /\ Replaying(p)

PassInv ==
  /\ SentAreWritten
  /\ seen = from \/ seen \in DOMAIN written
  /\ link # "open" => held = NotHolding /\ replays = {}
  /\ link = "open" => read <= Len(live[at]) /\ Following
  /\ link # "closed" => \A s \in rows : (from < s /\ s <= seen) => In(s, got)

\* What a step does to what was written: a new row is above every number written,
\* and above what the broadcaster has passed.
Grows ==
  /\ \A s \in DOMAIN written : s \in DOMAIN written'
  /\ \A s \in rows' : s \in rows \/ /\ \A t \in DOMAIN written : t < s
                                    /\ link = "open" => mark[at] < s

\* What is in two sequences joined, and where.
LEMMA InJoin ==
  ASSUME NEW a \in Seq(Nat), NEW b \in Seq(Nat)
  PROVE  /\ a \o b \in Seq(Nat) /\ Len(a) \in Nat /\ Len(b) \in Nat
         /\ Len(a \o b) = Len(a) + Len(b)
         /\ \A s : In(s, a \o b) <=> In(s, a) \/ In(s, b)
         /\ \A i \in 1..Len(a) : i \in 1..Len(a \o b) /\ (a \o b)[i] = a[i]
         /\ \A i \in 1..Len(b) : Len(a) + i \in 1..Len(a \o b) /\ (a \o b)[Len(a) + i] = b[i]
         /\ \A i \in 1..Len(a \o b) :
              \/ (i \in 1..Len(a) /\ (a \o b)[i] = a[i])
              \/ (i - Len(a) \in 1..Len(b) /\ (a \o b)[i] = b[i - Len(a)])
<1>1. /\ a \o b \in Seq(Nat) /\ Len(a) \in Nat /\ Len(b) \in Nat
      /\ Len(a \o b) = Len(a) + Len(b)
  OBVIOUS
<1>2. \A i \in 1..Len(a) : i \in 1..Len(a \o b) /\ (a \o b)[i] = a[i]
  BY <1>1
<1>3. \A i \in 1..Len(b) : Len(a) + i \in 1..Len(a \o b) /\ (a \o b)[Len(a) + i] = b[i]
  BY <1>1
<1>4. \A i \in 1..Len(a \o b) :
        \/ (i \in 1..Len(a) /\ (a \o b)[i] = a[i])
        \/ (i - Len(a) \in 1..Len(b) /\ (a \o b)[i] = b[i - Len(a)])
  BY <1>1
<1>5. \A s : In(s, a \o b) => In(s, a) \/ In(s, b)
  BY <1>4 DEF In
<1>6. \A s : In(s, a) \/ In(s, b) => In(s, a \o b)
  BY <1>2, <1>3 DEF In
<1> QED BY <1>1, <1>2, <1>3, <1>4, <1>5, <1>6

LEMMA LiveLength ==
  ASSUME ServerInv
  PROVE  \A r \in Replicas : live[r] \in Seq(Nat) /\ Len(live[r]) \in Nat
<1>1. \A r \in Replicas : live[r] \in Seq(1..MaxEvents)
  BY DEF ServerInv, ChannelTypeOK, Numbers
<1> QED BY <1>1, Widen, ChannelAssumption

\* A broadcaster is sent the page past its watermark, whole.
LEMMA DeliverSends ==
  ASSUME ServerInv, NEW r \in Replicas, Deliver(r)
  PROVE  /\ UNCHANGED <<rows, written>>
         /\ \A q \in Replicas : q # r => live'[q] = live[q] /\ mark'[q] = mark[q]
         /\ Len(live'[r]) \in Nat /\ Len(live[r]) <= Len(live'[r])
         /\ \A i \in 1..Len(live[r]) : i \in 1..Len(live'[r]) /\ live'[r][i] = live[r][i]
         /\ \A i \in 1..Len(live'[r]) : i \in 1..Len(live[r]) \/ live'[r][i] \in rows
         /\ \A s \in rows : s <= mark'[r] =>
              s <= mark[r] \/ \E i \in 1..Len(live'[r]) : i > Len(live[r]) /\ live'[r][i] = s
<1> DEFINE page == After(mark[r])
<1>1. mark[r] \in Int /\ rows \subseteq Numbers /\ live[r] \in Seq(Nat)
  BY MarkIsAnInteger, LiveLength DEF ServerInv, ChannelTypeOK
<1>2. /\ page \in Seq(Numbers)
      /\ \A i \in 1..Len(page) : page[i] \in rows /\ page[i] > mark[r]
      /\ \A s \in rows, i \in 1..Len(page) : (mark[r] < s /\ s <= page[i]) => In(s, page)
  BY <1>1, PageAscends DEF In
<1>3. page \in Seq(Nat)
  BY <1>2, Widen, ChannelAssumption DEF Numbers
<1>4. /\ page # <<>> /\ live' = [live EXCEPT ![r] = @ \o page]
      /\ mark' = [mark EXCEPT ![r] = Last(page)]
      /\ UNCHANGED <<rows, written>>
  BY DEF Deliver
<1> HIDE DEF page
<1>5. /\ live'[r] = live[r] \o page /\ mark'[r] = Last(page)
      /\ \A q \in Replicas : q # r => live'[q] = live[q] /\ mark'[q] = mark[q]
  BY <1>4 DEF ServerInv, ChannelTypeOK
<1>6. mark'[r] = page[Len(page)] /\ Len(page) \in 1..Len(page)
  BY <1>3, <1>4, <1>5 DEF Last
<1> PICK a \in Seq(Nat), b \in Seq(Nat) : a = live[r] /\ b = page
  BY <1>1, <1>3
<1>7. /\ a \o b \in Seq(Nat) /\ Len(a) \in Nat /\ Len(b) \in Nat
      /\ Len(a \o b) = Len(a) + Len(b)
      /\ \A i \in 1..Len(a) : i \in 1..Len(a \o b) /\ (a \o b)[i] = a[i]
      /\ \A i \in 1..Len(b) : Len(a) + i \in 1..Len(a \o b) /\ (a \o b)[Len(a) + i] = b[i]
      /\ \A i \in 1..Len(a \o b) :
           \/ (i \in 1..Len(a) /\ (a \o b)[i] = a[i])
           \/ (i - Len(a) \in 1..Len(b) /\ (a \o b)[i] = b[i - Len(a)])
  BY ZenonT(90), InJoin
<1>8. live'[r] = a \o b /\ live[r] = a /\ page = b
  BY <1>5
<1>9. /\ Len(live'[r]) \in Nat /\ Len(live[r]) <= Len(live'[r])
      /\ \A i \in 1..Len(live[r]) : i \in 1..Len(live'[r]) /\ live'[r][i] = live[r][i]
  <2>1. Len(a \o b) \in Nat /\ Len(a) <= Len(a \o b)
    BY <1>7
  <2> QED BY <1>7, <1>8, <2>1
<1>10. \A i \in 1..Len(live'[r]) : i \in 1..Len(live[r]) \/ live'[r][i] \in rows
  BY <1>2, <1>7, <1>8
<1>11. ASSUME NEW s \in rows, s <= mark'[r], mark[r] < s
       PROVE  \E i \in 1..Len(live'[r]) : i > Len(live[r]) /\ live'[r][i] = s
  <2>1. PICK k \in 1..Len(b) : b[k] = s
    BY <1>2, <1>6, <1>8, <1>11 DEF In
  <2>2. Len(a) + k \in 1..Len(a \o b) /\ (a \o b)[Len(a) + k] = s /\ Len(a) + k > Len(a)
    BY <1>7, <2>1
  <2> QED BY <1>8, <2>2
<1>12. \A s \in rows : s <= mark[r] \/ mark[r] < s
  BY <1>1, ChannelAssumption DEF Numbers
<1> QED BY <1>4, <1>5, <1>9, <1>10, <1>11, <1>12

LEMMA GrowsKept ==
  ASSUME TableInv, ServerInv, StreamTypes, NoneLate, SentAreWritten, [Next]_vars
  PROVE  SentAreWritten' /\ Grows
<1>1. ASSUME UNCHANGED <<rows, written, live>> PROVE SentAreWritten' /\ Grows
  BY <1>1 DEF SentAreWritten, Grows
<1>2. ASSUME NEW r \in Replicas, InsertRow(r) PROVE SentAreWritten' /\ Grows
  <2>1. Appending(r) /\ live' = live
    BY <1>2 DEF InsertRow, Appending
  <2>2. CASE UNCHANGED <<rows, written>>
    BY <1>1, <2>1, <2>2
  <2>3. CASE /\ rows' = rows \union {writing[r].seq}
             /\ DOMAIN written' = DOMAIN written \union {writing[r].seq}
    <3>1. /\ \A t \in DOMAIN written : t < writing[r].seq
          /\ link = "open" => mark[at] < writing[r].seq
      BY <2>1 DEF NoneLate
    <3> QED BY <2>1, <2>3, <3>1 DEF SentAreWritten, Grows
  <2> QED BY <1>2, <2>2, <2>3 DEF InsertRow
<1>3. ASSUME NEW r \in Replicas, Deliver(r) PROVE SentAreWritten' /\ Grows
  <2>1. rows \subseteq DOMAIN written
    BY DEF ServerInv, ChannelTypeOK
  <2>2. UNCHANGED <<rows, written>>
    BY <1>3, DeliverSends
  <2>3. ASSUME NEW q \in Replicas, NEW i \in 1..Len(live'[q]) PROVE live'[q][i] \in DOMAIN written
    <3>1. CASE q = r
      <4>1. i \in 1..Len(live[r]) \/ live'[r][i] \in rows
        BY <1>3, <2>3, <3>1, DeliverSends
      <4>2. i \in 1..Len(live[r]) => live'[r][i] = live[r][i]
        BY <1>3, DeliverSends
      <4> QED BY <2>1, <3>1, <4>1, <4>2 DEF SentAreWritten
    <3>2. CASE q # r
      <4>1. live'[q] = live[q]
        BY <1>3, <3>2, DeliverSends
      <4> QED BY <2>3, <4>1 DEF SentAreWritten
    <3> QED BY <3>1, <3>2
  <2> QED BY <2>2, <2>3 DEF SentAreWritten, Grows
<1>4. ASSUME NEW r \in Replicas, Prune(r) PROVE SentAreWritten' /\ Grows
  <2>1. rows' \subseteq rows /\ UNCHANGED <<written, live>>
    BY <1>4 DEF Prune
  <2> QED BY <2>1 DEF SentAreWritten, Grows
<1>5. ASSUME NEW r \in Replicas, Restart(r) PROVE SentAreWritten' /\ Grows
  <2>1. UNCHANGED <<rows, written>> /\ live' = [live EXCEPT ![r] = <<>>]
    BY <1>5 DEF Restart
  <2>2. \A q \in Replicas : live'[q] = live[q] \/ Len(live'[q]) = 0
    BY <2>1 DEF ServerInv, ChannelTypeOK
  <2>3. \A q \in Replicas : \A i \in 1..Len(live'[q]) :
          i \in 1..Len(live[q]) /\ live'[q][i] = live[q][i]
    BY <2>2
  <2> QED BY <2>1, <2>3 DEF SentAreWritten, Grows
<1>6. ASSUME NEW r \in Replicas, Publish(r) \/ TakeSeq(r) \/ Align(r)
      PROVE  SentAreWritten' /\ Grows
  BY <1>1, <1>6 DEF Publish, TakeSeq, Align
<1> QED BY <1>1, <1>2, <1>3, <1>4, <1>5, <1>6, ChannelSteps DEF channelVars

\* What a step of a server does to the subscription of an aligned channel: what it
\* passes is ahead of the reader.
Sends ==
  /\ Len(live'[at]) \in Nat /\ Len(live[at]) <= Len(live'[at])
  /\ \A i \in 1..Len(live[at]) : i \in 1..Len(live'[at]) /\ live'[at][i] = live[at][i]
  /\ \A s \in rows' : (mark[at] >= 0 /\ s <= mark'[at]) =>
       \/ s \in rows /\ s <= mark[at]
       \/ \E i \in 1..Len(live'[at]) : i > Len(live[at]) /\ live'[at][i] = s

\* A step that neither restarts the subscription's replica nor is the browser's.
ServesOn ==
  /\ UNCHANGED streamVars
  /\ \/ \E r \in Replicas : Works(r)
     \/ \E r \in Replicas \ {at} : Restart(r)
     \/ UNCHANGED channelVars

LEMMA ServerSends ==
  ASSUME ServerInv, ServerInv', StreamTypes, Grows, link = "open", ServesOn
  PROVE  Sends
<1>1. at \in Replicas /\ mark[at] \in Int /\ Len(live[at]) \in Nat
  BY MarkIsAnInteger, LiveLength DEF StreamTypes, ServerInv
<1>2. \A s \in rows' : s \in Int
  BY ChannelAssumption DEF ServerInv, ChannelTypeOK, Numbers
<1>3. \A s \in rows' : s \in rows \/ mark[at] < s
  BY DEF Grows
<1>4. \A s \in rows' : s <= mark[at] => s \in rows
  BY <1>1, <1>2, <1>3
<1>5. ASSUME live'[at] = live[at], mark[at] >= 0 => mark'[at] = mark[at] PROVE Sends
  BY <1>1, <1>4, <1>5 DEF Sends
<1>6. ASSUME UNCHANGED <<mark, live>> PROVE Sends
  BY <1>5, <1>6
<1>7. ASSUME NEW r \in Replicas, Publish(r) \/ TakeSeq(r) \/ InsertRow(r) \/ Prune(r) PROVE Sends
  BY <1>6, <1>7 DEF Publish, TakeSeq, InsertRow, Prune
<1>8. ASSUME NEW r \in Replicas, Align(r) PROVE Sends
  <2>1. mark[r] = -1 /\ mark' = [mark EXCEPT ![r] = cursor] /\ live' = live
    BY <1>8 DEF Align, Unaligned
  <2>2. mark[at] >= 0 => r # at
    BY <2>1
  <2>3. r # at => mark'[at] = mark[at]
    BY <2>1 DEF ServerInv, ChannelTypeOK
  <2> QED BY <1>5, <2>1, <2>2, <2>3
<1>9. ASSUME NEW r \in Replicas, Deliver(r) PROVE Sends
  <2>1. CASE r # at
    BY <1>1, <1>5, <1>9, <2>1, DeliverSends
  <2>2. CASE r = at
    <3>1. UNCHANGED rows
      BY <1>9, DeliverSends
    <3>2. /\ Len(live'[r]) \in Nat /\ Len(live[r]) <= Len(live'[r])
          /\ \A i \in 1..Len(live[r]) : i \in 1..Len(live'[r]) /\ live'[r][i] = live[r][i]
          /\ \A s \in rows : s <= mark'[r] =>
               s <= mark[r] \/ \E i \in 1..Len(live'[r]) : i > Len(live[r]) /\ live'[r][i] = s
      BY <1>9, DeliverSends
    <3> QED BY <2>2, <3>1, <3>2 DEF Sends
  <2> QED BY <2>1, <2>2
<1>10. ASSUME NEW r \in Replicas \ {at}, Restart(r) PROVE Sends
  <2>1. mark'[at] = mark[at] /\ live'[at] = live[at]
    BY <1>1, <1>10 DEF Restart, ServerInv, ChannelTypeOK
  <2> QED BY <1>5, <2>1
<1> QED BY <1>6, <1>7, <1>8, <1>9, <1>10 DEF ServesOn, Works, channelVars

\* A row at or below a number already written is not a new one.
LEMMA NoRowBelow ==
  ASSUME TableInv, ServerInv', Grows
  PROVE  \A s \in rows', t \in DOMAIN written : s <= t => s \in rows
<1>1. \A s \in rows' : s \in Nat
  BY ChannelAssumption DEF ServerInv, ChannelTypeOK, Numbers
<1>2. \A t \in DOMAIN written : t \in Nat
  BY DEF TableInv, TableTypes
<1> SUFFICES ASSUME NEW s \in rows', NEW t \in DOMAIN written, s <= t, s \notin rows
             PROVE  FALSE
  OBVIOUS
<1>3. t < s
  BY DEF Grows
<1> QED BY <1>1, <1>2, <1>3

LEMMA StreamNumbers ==
  ASSUME StreamTypes
  PROVE  /\ read \in Nat /\ seen \in Nat /\ from \in Nat /\ connections \in Nat
         /\ held \in Seq(Nat) /\ Len(held) \in Nat /\ Earlier \in Int
         /\ Parked \in Seq(Numbers) /\ got \in Seq(Nat)
         /\ \A p \in replays : /\ p.after \in Nat /\ p.events \in Seq(Numbers)
                               /\ p.events \in Seq(Nat) /\ Len(p.events) \in Nat
                               /\ p.page \in Seq(Nat) /\ Len(p.page) \in Nat
                               /\ p.upto \in Int
<1>1. MaxEvents \in Nat /\ NotHolding \in Seq(Nat) /\ Asked \in Seq(Nat) /\ None \in Int
  BY ChannelAssumption DEF NotHolding, Asked, None
<1>2. \A list \in Seq(Numbers) : list \in Seq(Nat)
  BY <1>1, Widen DEF Numbers
<1>3. read \in Nat /\ seen \in Nat /\ from \in Nat /\ connections \in Nat
  BY DEF StreamTypes
<1>4. held \in Seq(Nat) /\ got \in Seq(Nat)
  BY <1>1, <1>2 DEF StreamTypes
<1>5. ASSUME NEW p \in replays
      PROVE  /\ p.after \in Nat /\ p.events \in Seq(Numbers) /\ p.events \in Seq(Nat)
             /\ p.page \in Seq(Nat) /\ p.upto \in Int
  <2>1. p \in Replays
    BY DEF StreamTypes
  <2>2. /\ p.after \in 0..MaxEvents /\ p.events \in Seq(Numbers)
        /\ p.page \in {Asked} \union Seq(Numbers) /\ p.upto \in {None} \union (0..MaxEvents)
    BY <2>1 DEF Replays
  <2> QED BY <1>1, <1>2, <2>2
<1>6. Len(held) \in Nat /\ Earlier \in Int
  BY <1>3, <1>4 DEF Earlier
<1>7. \A p \in replays : Len(p.events) \in Nat /\ Len(p.page) \in Nat
  BY <1>5
<1> QED BY <1>3, <1>4, <1>5, <1>6, <1>7, ParkedIsFrames

\* What is owed after a step of the server was owed before it.
LEMMA NoMoreOwed ==
  ASSUME StreamTypes, ServerInv, read <= Len(live[at]), mark[at] >= 0, Sends,
         UNCHANGED <<at, read, held>>
  PROVE  \A s \in rows' : /\ s <= mark'[at] => Ahead(s)' \/ (s \in rows /\ s <= mark[at])
                          /\ Ahead(s) => Ahead(s)'
                          /\ Owed(s)' => s \in rows /\ Owed(s)
<1>1. read \in Nat /\ Len(live[at]) \in Nat
  BY StreamNumbers, LiveLength DEF StreamTypes
<1>2. \A s : Ahead(s) => Ahead(s)'
  <2> SUFFICES ASSUME NEW s, Ahead(s) PROVE Ahead(s)'
    OBVIOUS
  <2>1. PICK i \in 1..Len(live[at]) : i > read /\ live[at][i] = s
    BY DEF Ahead
  <2>2. i \in 1..Len(live'[at]) /\ live'[at][i] = s
    BY <2>1 DEF Sends
  <2> QED BY <2>1, <2>2 DEF Ahead
<1>3. ASSUME NEW s \in rows', s <= mark'[at]
      PROVE  Ahead(s)' \/ (s \in rows /\ s <= mark[at])
  <2>1. CASE \E i \in 1..Len(live'[at]) : i > Len(live[at]) /\ live'[at][i] = s
    <3>1. PICK i \in 1..Len(live'[at]) : i > Len(live[at]) /\ live'[at][i] = s
      BY <2>1
    <3>2. i > read
      BY <1>1, <3>1 DEF Sends
    <3> QED BY <3>1, <3>2 DEF Ahead
  <2> QED BY <1>3, <2>1 DEF Sends
<1> QED BY <1>2, <1>3 DEF Owed

\* A replay in flight is as good after a step of the server.
LEMMA ReplayingKept ==
  ASSUME TableInv, ServerInv, ServerInv', StreamTypes, Grows, Sends,
         read <= Len(live[at]), HeldIsLast, AlignedFirst, link = "open",
         NEW p \in replays, replays = {p}, Replaying(p),
         UNCHANGED <<at, read, held, seen, connections>>
  PROVE  Replaying(p)' /\ HeldIsLast'
<1>1. \A s \in rows', t \in DOMAIN written : s <= t => s \in rows
  BY NoRowBelow
<1>2. /\ read \in Nat /\ seen \in Nat /\ Len(held) \in Nat /\ Len(live[at]) \in Nat
      /\ p.after \in Nat /\ mark[at] \in Int
  BY StreamNumbers, LiveLength, MarkIsAnInteger DEF StreamTypes, ServerInv
<1>3. HeldIsLast'
  <2>1. Earlier' = Earlier /\ Earlier \in Nat /\ Earlier + Len(held) = read
    BY <1>2 DEF Earlier, HeldIsLast
  <2>2. \A i \in 1..Len(held) : Earlier + i \in 1..Len(live[at])
    BY <1>2, <2>1
  <2>3. \A i \in 1..Len(held) : live'[at][Earlier + i] = live[at][Earlier + i]
    BY <2>2 DEF Sends
  <2> QED BY <2>1, <2>3 DEF HeldIsLast
<1>4. \A s \in rows' : s \in Nat
  BY ChannelAssumption DEF ServerInv, ChannelTypeOK, Numbers
<1>5. \A s \in rows' : (seen < s /\ s <= p.after) => In(s, p.events)
  <2>1. \A s \in rows' : (seen < s /\ s <= p.after) => s \in rows
    BY <1>1, <1>2, <1>4 DEF Replaying
  <2> QED BY <2>1 DEF Replaying
<1>6. p.page # Asked => \A s \in rows', i \in 1..Len(p.page) :
        (p.after < s /\ s <= p.page[i]) => In(s, p.page)
  <2>1. p.page # Asked => \A s \in rows', i \in 1..Len(p.page) : s <= p.page[i] => s \in rows
    BY <1>1 DEF Replaying
  <2> QED BY <2>1 DEF Replaying
<1>7. p.upto # None => \A s \in rows' : Owed(s)' => s \in rows /\ Owed(s)
  <2>1. p.upto # None => mark[at] >= 0
    BY <1>2 DEF AlignedFirst
  <2> QED BY <2>1, NoMoreOwed
<1>8. Replaying(p)'
  <2>1. p.upto # None => \A s \in rows' : Owed(s)' => s <= p.upto
    BY <1>7 DEF Replaying
  <2>2. p.page # Asked => (p.page = <<>> => \A s \in rows' : Owed(s)' => s <= p.after)
    BY <1>7 DEF Replaying
  <2>3. /\ Ordered(p.events)
        /\ \A i \in 1..Len(p.events) : p.events[i] <= p.after /\ p.events[i] \in DOMAIN written'
        /\ p.after = seen \/ p.after \in DOMAIN written'
        /\ p.page # Asked => /\ p.upto # None /\ Ordered(p.page)
                             /\ \A i \in 1..Len(p.page) : /\ p.page[i] > p.after
                                                          /\ p.page[i] \in DOMAIN written'
    BY DEF Replaying, Grows
  <2> QED BY <1>5, <1>6, <2>1, <2>2, <2>3 DEF Replaying, In, Ordered
<1> QED BY <1>3, <1>8

\* What was delivered stays whole when the cursor does not move.
LEMMA NothingBelowSeen ==
  ASSUME TableInv, ServerInv', StreamTypes, Grows, PassInv, UNCHANGED <<seen, from, got>>
  PROVE  /\ seen' = from' \/ seen' \in DOMAIN written'
         /\ link # "closed" => \A s \in rows' : (from' < s /\ s <= seen') => In(s, got')
<1>1. \A s \in rows', t \in DOMAIN written : s <= t => s \in rows
  BY NoRowBelow
<1>2. \A s \in rows' : s \in Nat
  BY ChannelAssumption DEF ServerInv, ChannelTypeOK, Numbers
<1>3. seen \in Nat /\ from \in Nat
  BY StreamNumbers
<1>4. seen = from \/ seen \in DOMAIN written
  BY DEF PassInv
<1>5. \A s \in rows' : (from < s /\ s <= seen) => s \in rows
  BY <1>1, <1>2, <1>3, <1>4
<1>6. link # "closed" => \A s \in rows' : (from < s /\ s <= seen) => In(s, got)
  BY <1>5 DEF PassInv
<1> QED BY <1>4, <1>6 DEF Grows, In

\* A step of the server passes nothing over.
LEMMA ServerPasses ==
  ASSUME TableInv, ServerInv, ServerInv', StreamTypes, Grows, SentAreWritten', PassInv,
         AlignedFirst, ServesOn
  PROVE  PassInv'
<1>1. UNCHANGED <<link, at, read, connections, seen, from, held, replays, got>>
  BY DEF ServesOn, streamVars
<1>2. /\ seen' = from' \/ seen' \in DOMAIN written'
      /\ link # "closed" => \A s \in rows' : (from' < s /\ s <= seen') => In(s, got')
  BY <1>1, NothingBelowSeen
<1>3. ASSUME link = "open" PROVE read <= Len(live'[at]) /\ Following'
  <2>1. read <= Len(live[at]) /\ Following
    BY <1>3 DEF PassInv
  <2>2. Sends
    BY <1>3, ServerSends
  <2>3. read <= Len(live'[at])
    <3>1. read \in Nat /\ Len(live[at]) \in Nat
      BY StreamNumbers, LiveLength DEF StreamTypes
    <3> QED BY <2>1, <2>2, <3>1 DEF Sends
  <2>4. CASE /\ held = NotHolding /\ replays = {}
             /\ \A s \in rows : s <= mark[at] => s <= seen \/ Ahead(s)
    <3>1. mark[at] >= 0
      <4>1. mark[at] \in Int /\ ~(mark[at] < 0)
        BY <1>3, <2>4, MarkIsAnInteger DEF AlignedFirst, StreamTypes, ServerInv
      <4> QED BY <4>1
    <3>2. \A s \in rows' : /\ s <= mark'[at] => Ahead(s)' \/ (s \in rows /\ s <= mark[at])
                           /\ Ahead(s) => Ahead(s)'
      BY <1>1, <2>1, <2>2, <3>1, NoMoreOwed
    <3>3. \A s \in rows' : s <= mark'[at] => s <= seen \/ Ahead(s)'
      BY <2>4, <3>2
    <3> QED BY <1>1, <2>3, <2>4, <3>3 DEF Following
  <2>5. CASE /\ held # NotHolding
             /\ HeldIsLast
             /\ \E p \in replays : replays = {p} /\ Replaying(p)
    <3>1. PICK p \in replays : replays = {p} /\ Replaying(p)
      BY <2>5
    <3>2. Replaying(p)' /\ HeldIsLast'
      BY <1>1, <1>3, <2>1, <2>2, <2>5, <3>1, ReplayingKept
    <3> QED BY <1>1, <2>3, <2>5, <3>1, <3>2 DEF Following
  <2> QED BY <2>1, <2>4, <2>5 DEF Following
<1> QED BY <1>1, <1>2, <1>3 DEF PassInv

\* The connection is gone, and its replay with it.
LEMMA CutPasses ==
  ASSUME TableInv, ServerInv', StreamTypes, Grows, SentAreWritten', PassInv, NoneBehind',
         link = "open", link' = "connecting",
         UNCHANGED <<at, read, connections, seen, from, held, replays, got>>
  PROVE  PassInv'
<1>1. /\ seen' = from' \/ seen' \in DOMAIN written'
      /\ \A s \in rows' : (from' < s /\ s <= seen') => In(s, got')
  BY NothingBelowSeen
<1>2. replays = {}
  <2>1. \A p \in replays : FALSE
    BY DEF NoneBehind
  <2> QED BY <2>1
<1>3. held = NotHolding
  BY <1>2 DEF PassInv, Following
<1> QED BY <1>1, <1>2, <1>3 DEF PassInv

\* What is handed out is added to what was, and a frame above all before it is.
LEMMA HandGives ==
  ASSUME StreamTypes, GotGoesUp, NEW frames \in Seq(Numbers), Hand(frames)
  PROVE  /\ \A s : In(s, got) => In(s, got')
         /\ \A k \in 1..Len(frames) :
              (frames[k] > seen /\ \A j \in 1..(k - 1) : frames[j] < frames[k])
                => In(frames[k], got') /\ frames[k] <= seen'
         /\ seen' = seen \/ In(seen', frames)
<1> DEFINE out == Handed(frames, seen)
<1>1. frames \in Seq(Nat) /\ seen \in Nat /\ got \in Seq(Nat)
  BY StreamNumbers, Widen, ChannelAssumption DEF Numbers
<1>2. /\ out \in Seq(Nat)
      /\ \A i \in 1..Len(out) : \E k \in 1..Len(frames) : out[i] = frames[k] /\ frames[k] > seen
      /\ \A k \in 1..Len(frames) :
           (frames[k] > seen /\ \A j \in 1..(k - 1) : frames[j] < frames[k])
             => \E i \in 1..Len(out) : out[i] = frames[k]
  BY <1>1, HandedAscends
<1>3. got' = got \o out /\ seen' = IF out = <<>> THEN seen ELSE Last(out)
  BY DEF Hand
<1>4. GotGoesUp'
  BY HandKeeps
<1> HIDE DEF out
<1>5. /\ \A i \in 1..Len(got) : i \in 1..Len(got') /\ got'[i] = got[i]
      /\ \A i \in 1..Len(out) : Len(got) + i \in 1..Len(got') /\ got'[Len(got) + i] = out[i]
  <2> PICK g \in Seq(Nat), o \in Seq(Nat) : g = got /\ o = out
    BY <1>1, <1>2
  <2>1. /\ \A i \in 1..Len(g) : i \in 1..Len(g \o o) /\ (g \o o)[i] = g[i]
        /\ \A i \in 1..Len(o) : Len(g) + i \in 1..Len(g \o o) /\ (g \o o)[Len(g) + i] = o[i]
    BY ZenonT(90), InJoin
  <2>2. got' = g \o o
    BY <1>3
  <2> QED BY <2>1, <2>2
<1>6. \A s : In(s, got) => In(s, got')
  BY <1>5 DEF In
<1>7. \A i \in 1..Len(out) : In(out[i], got') /\ out[i] <= seen'
  BY <1>4, <1>5 DEF In, GotGoesUp
<1>8. seen' = seen \/ In(seen', frames)
  <2>1. out # <<>> => Len(out) \in 1..Len(out) /\ seen' = out[Len(out)]
    BY <1>2, <1>3 DEF Last
  <2> QED BY <1>2, <1>3, <2>1 DEF In
<1>9. \A k \in 1..Len(frames) :
        (frames[k] > seen /\ \A j \in 1..(k - 1) : frames[j] < frames[k])
          => In(frames[k], got') /\ frames[k] <= seen'
  <2> SUFFICES ASSUME NEW k \in 1..Len(frames), frames[k] > seen,
                      \A j \in 1..(k - 1) : frames[j] < frames[k]
               PROVE  In(frames[k], got') /\ frames[k] <= seen'
    OBVIOUS
  <2>1. PICK i \in 1..Len(out) : out[i] = frames[k]
    BY <1>2
  <2> QED BY <1>7, <2>1
<1> QED BY <1>6, <1>8, <1>9

\* What the browser's steps leave as it is.
TablesStand == UNCHANGED <<at, rows, written, mark, live>>

LEMMA CursorReadPasses ==
  ASSUME ServerInv, StreamTypes', SentAreWritten', PassInv, ReadCursor, TablesStand
  PROVE  PassInv'
<1>1. /\ link' = "connecting" /\ seen' = from' /\ held = NotHolding /\ replays = {}
      /\ UNCHANGED <<held, replays>>
  BY DEF ReadCursor, PassInv
<1>2. seen' \in Nat /\ rows' = rows /\ \A s \in rows : s \in Nat
  BY ChannelAssumption DEF StreamTypes, TablesStand, ServerInv, ChannelTypeOK, Numbers
<1>3. \A s \in rows' : ~(from' < s /\ s <= seen')
  BY <1>1, <1>2
<1> QED BY <1>1, <1>3 DEF PassInv

\* A connection starts a replay from the cursor, and holds what comes.
LEMMA ConnectPasses ==
  ASSUME FromGiven, ServerInv, StreamTypes, SentAreWritten', PassInv, NEW r \in Replicas, Connect(r)
  PROVE  PassInv'
<1> PICK p : p = [conn |-> connections + 1, after |-> seen, upto |-> None, events |-> <<>>,
                  page |-> Asked]
  OBVIOUS
<1>1. /\ link = "connecting" /\ link' = "open" /\ at' = r /\ read' = Len(live[r])
      /\ held' = <<>> /\ replays' = replays \union {p}
      /\ UNCHANGED <<rows, written, live, seen, from, got>>
  BY DEF Connect
<1>2. held = NotHolding /\ replays = {}
  BY <1>1 DEF PassInv
<1>3. Len(live[r]) \in Nat /\ seen \in Nat
  BY LiveLength, StreamNumbers
<1>4. held' # NotHolding
  BY <1>1 DEF NotHolding
<1>5. HeldIsLast'
  BY <1>1, <1>3 DEF HeldIsLast
<1>6. Replaying(p)'
  <2>1. p.after = seen' /\ p.upto = None /\ p.page = Asked /\ p.events = <<>>
    BY <1>1
  <2>2. \A s \in rows : ~(seen < s /\ s <= seen)
    <3>1. \A s \in rows : s \in Nat
      BY ChannelAssumption DEF ServerInv, ChannelTypeOK, Numbers
    <3> QED BY <1>3, <3>1
  <2>3. Len(p.events) = 0
    BY <2>1
  <2>4. Ordered(p.events) /\ \A i \in 1..Len(p.events) : FALSE
    BY <2>3 DEF Ordered
  <2> QED BY <1>1, <2>1, <2>2, <2>4 DEF Replaying
<1>7. replays' = {p}
  BY <1>1, <1>2
<1>8. \E q \in replays' : replays' = {q} /\ Replaying(q)'
  BY <1>6, <1>7
<1>9. Following'
  BY <1>4, <1>5, <1>8 DEF Following
<1>10. read' <= Len(live'[at'])
  BY <1>1, <1>3
<1> QED BY <1>1, <1>9, <1>10 DEF PassInv

\* The next frame is the one after the last.
LEMMA FrameIsNext ==
  ASSUME ServerInv, StreamTypes, KeptUp, Receive
  PROVE  /\ NextFrame = read + 1 /\ NextFrame \in 1..Len(live[at]) /\ read' = read + 1
         /\ live[at][read + 1] \in Numbers /\ live[at] \in Seq(Nat) /\ Len(live[at]) \in Nat
<1>1. read \in Nat /\ Len(live[at]) \in Nat /\ Buffer \in Nat /\ live[at] \in Seq(Nat)
  BY StreamNumbers, LiveLength, StreamAssumption DEF StreamTypes
<1>2. NextFrame = read + 1 /\ read < Len(live[at]) /\ read' = NextFrame
  BY <1>1 DEF NextFrame, KeptUp, Receive
<1>3. \A i \in 1..Len(live[at]) : live[at][i] \in Numbers
  BY LiveIsShort DEF StreamTypes
<1> QED BY <1>1, <1>2, <1>3

LEMMA HeldFramePasses ==
  ASSUME ServerInv, StreamTypes, SentAreWritten', PassInv, KeptUp, Receive, held # NotHolding,
         TablesStand
  PROVE  PassInv'
<1>1. /\ link = "open" /\ held' = Append(held, live[at][read + 1])
      /\ UNCHANGED <<link, at, rows, written, mark, live, from, replays, seen, got>>
  BY FrameIsNext DEF Receive, TablesStand
<1>2. /\ read' = read + 1 /\ read + 1 \in 1..Len(live[at]) /\ live[at][read + 1] \in Numbers
      /\ live[at] \in Seq(Nat) /\ Len(live[at]) \in Nat
  BY FrameIsNext
<1>3. HeldIsLast /\ \E p \in replays : replays = {p} /\ Replaying(p)
  BY <1>1 DEF PassInv, Following
<1>4. /\ held \in Seq(Nat) /\ Len(held) \in Nat /\ Len(held') = Len(held) + 1 /\ read \in Nat
      /\ \A i \in 1..Len(held) : held'[i] = held[i]
      /\ held'[Len(held) + 1] = live[at][read + 1]
  BY <1>1, <1>2, StreamNumbers DEF Numbers
<1>5. Earlier' = Earlier /\ Earlier \in Int /\ Earlier + (Len(held) + 1) = read + 1
  BY <1>2, <1>4 DEF Earlier
<1>6. HeldIsLast'
  <2>1. Len(held') <= read'
    BY <1>2, <1>3, <1>4 DEF HeldIsLast
  <2>2. \A i \in 1..Len(held') : i \in 1..Len(held) \/ i = Len(held) + 1
    BY <1>4
  <2>3. \A i \in 1..Len(held') : held'[i] = live[at][Earlier + i]
    BY <1>3, <1>4, <1>5, <2>2 DEF HeldIsLast
  <2> QED BY <1>1, <1>5, <2>1, <2>3 DEF HeldIsLast
<1>7. held' # NotHolding
  <2>1. held \in Seq(Numbers)
    BY DEF StreamTypes
  <2>2. held' \in Seq(Numbers)
    BY <1>1, <1>2, <2>1
  <2>3. held' # <<>> /\ held'[1] \in Numbers
    BY <1>4, <2>2
  <2> QED BY <2>3 DEF NotHolding, Numbers
<1>8. PICK p \in replays : replays = {p} /\ Replaying(p)
  BY <1>3
<1>9. \A s : Owed(s)' => Owed(s)
  <2>1. ASSUME NEW s, Ahead(s) PROVE Ahead(s)' \/ In(s, held')
    <3>1. PICK i \in 1..Len(live[at]) : i > read /\ live[at][i] = s
      BY <2>1 DEF Ahead
    <3>2. CASE i = read + 1
      <4>1. held'[Len(held) + 1] = s /\ Len(held) + 1 \in 1..Len(held')
        BY <1>4, <3>1, <3>2
      <4> QED BY <4>1 DEF In
    <3>3. CASE i > read + 1
      BY <1>1, <1>2, <3>1, <3>3 DEF Ahead
    <3> QED BY <1>2, <1>4, <3>1, <3>2, <3>3
  <2>2. ASSUME NEW s, In(s, held) PROVE In(s, held')
    <3>1. PICK i \in 1..Len(held) : held[i] = s
      BY <2>2 DEF In
    <3>2. i \in 1..Len(held') /\ held'[i] = s
      BY <1>4, <3>1
    <3> QED BY <3>2 DEF In
  <2> QED BY <1>1, <2>1, <2>2 DEF Owed
<1>10. Replaying(p)'
  BY <1>1, <1>8, <1>9 DEF Replaying
<1>11. Following'
  BY <1>1, <1>6, <1>7, <1>8, <1>10 DEF Following
<1> QED BY <1>1, <1>2, <1>11 DEF PassInv

LEMMA LiveFramePasses ==
  ASSUME ServerInv, StreamTypes, StreamTypes', GotGoesUp, SentAreWritten', PassInv, KeptUp,
         Receive, held = NotHolding, TablesStand
  PROVE  PassInv'
<1> DEFINE f == live[at][read + 1]
<1>1. /\ link = "open" /\ Hand(<<f>>)
      /\ UNCHANGED <<link, at, rows, written, mark, live, from, replays, held>>
  BY FrameIsNext DEF Receive, TablesStand
<1>2. /\ read' = read + 1 /\ read + 1 \in 1..Len(live[at]) /\ f \in Numbers
      /\ live[at] \in Seq(Nat) /\ Len(live[at]) \in Nat
  BY FrameIsNext
<1>3. /\ replays = {} /\ \A s \in rows : s <= mark[at] => s <= seen \/ Ahead(s)
      /\ read <= Len(live[at])
  BY <1>1 DEF PassInv, Following
<1>4. read \in Nat /\ seen \in Nat /\ seen' \in Nat /\ from \in Nat /\ f \in Nat
  <2>1. read \in Nat /\ seen \in Nat /\ from \in Nat
    BY StreamNumbers
  <2>2. seen' \in Nat
    BY ChannelAssumption DEF StreamTypes
  <2>3. f \in Nat
    <3>1. f \in Numbers
      BY <1>2
    <3> QED BY <3>1, ChannelAssumption DEF Numbers
  <2> QED BY <2>1, <2>2, <2>3
<1>5. Ordered(live[at]) /\ f <= mark[at] /\ mark[at] \in Int /\ f \in DOMAIN written
  <2>1. at \in Replicas
    BY DEF StreamTypes
  <2>2. \A i \in 1..Len(live[at]) : live[at][i] <= mark[at] /\ live[at][i] \in DOMAIN written
    BY <2>1 DEF ServerInv, LiveGoesUp, PassInv, SentAreWritten
  <2> QED BY <1>2, <2>1, <2>2, MarkIsAnInteger DEF ServerInv, LiveGoesUp
<1>6. \A s \in rows : s \in Nat
  BY ChannelAssumption DEF ServerInv, ChannelTypeOK, Numbers
<1>7. ASSUME NEW i \in 1..Len(live[at]), i > read
      PROVE  i = read + 1 \/ (i > read + 1 /\ f < live[at][i])
  <2>1. i = read + 1 \/ read + 1 < i
    BY <1>2, <1>4, <1>7
  <2> QED BY <1>2, <1>4, <1>5, <2>1 DEF Ordered
<1>8. \A s \in rows : Ahead(s) => s = f \/ (Ahead(s)' /\ f < s)
  BY <1>1, <1>2, <1>7 DEF Ahead
<1> HIDE DEF f
<1>9. <<f>> \in Seq(Numbers) /\ Len(<<f>>) = 1 /\ <<f>>[1] = f
  BY <1>2
<1>10. /\ \A s : In(s, got) => In(s, got')
       /\ f > seen => In(f, got') /\ f <= seen'
       /\ seen' = seen \/ seen' = f
       /\ seen <= seen'
  <2>1. /\ \A s : In(s, got) => In(s, got')
        /\ \A k \in 1..Len(<<f>>) :
              (<<f>>[k] > seen /\ \A j \in 1..(k - 1) : <<f>>[j] < <<f>>[k])
                => In(<<f>>[k], got') /\ <<f>>[k] <= seen'
        /\ seen' = seen \/ In(seen', <<f>>)
    BY <1>1, <1>9, HandGives
  <2>2. seen <= seen'
    BY <1>1, <1>9, HandKeeps
  <2>3. f > seen => In(f, got') /\ f <= seen'
    BY <1>9, <2>1
  <2>4. In(seen', <<f>>) => seen' = f
    BY <1>9 DEF In
  <2> QED BY <2>1, <2>2, <2>3, <2>4
<1>11. \A s \in rows : s <= f => s <= seen \/ s = f
  <2> SUFFICES ASSUME NEW s \in rows, s <= f PROVE s <= seen \/ s = f
    OBVIOUS
  <2>1. s <= mark[at]
    BY <1>4, <1>5, <1>6
  <2>2. ~(f < s)
    BY <1>4, <1>6
  <2> QED BY <1>3, <1>8, <2>1, <2>2
<1>12. \A s \in rows : (from < s /\ s <= seen') => In(s, got')
  <2> SUFFICES ASSUME NEW s \in rows, from < s, s <= seen' PROVE In(s, got')
    OBVIOUS
  <2>1. CASE s <= seen
    BY <1>1, <1>10, <2>1 DEF PassInv
  <2>2. CASE seen < s
    <3>1. seen' = f
      BY <1>4, <1>6, <1>10, <2>2
    <3>2. s = f
      BY <1>4, <1>6, <1>11, <2>2, <3>1
    <3> QED BY <1>10, <2>2, <3>2, <1>4
  <2> QED BY <1>4, <1>6, <2>1, <2>2
<1>13. \A s \in rows : s <= mark[at] => s <= seen' \/ Ahead(s)'
  <2> SUFFICES ASSUME NEW s \in rows, s <= mark[at], ~Ahead(s)' PROVE s <= seen'
    OBVIOUS
  <2>1. s <= seen \/ s = f
    BY <1>3, <1>8
  <2> QED BY <1>4, <1>6, <1>10, <2>1
<1>14. seen' = from' \/ seen' \in DOMAIN written'
  BY <1>1, <1>5, <1>10 DEF PassInv
<1>15. Following' /\ read' <= Len(live'[at'])
  BY <1>1, <1>2, <1>3, <1>13 DEF Following
<1> QED BY <1>1, <1>12, <1>14, <1>15 DEF PassInv

\* A page is read: it has every row past the number it was asked for.
LEMMA PageReadPasses ==
  ASSUME TableInv, ServerInv, StreamTypes, SentAreWritten', PassInv,
         NEW p \in replays, ReadPage(p), TablesStand
  PROVE  PassInv'
<1> PICK q : q = [p EXCEPT !.page = After(p.after), !.upto = IF @ = None THEN cursor ELSE @]
  OBVIOUS
<1>1. /\ replays' = (replays \ {p}) \union {q}
      /\ UNCHANGED <<link, at, read, seen, from, held, got, rows, written, mark, live>>
  BY DEF ReadPage, TablesStand
<1>2. /\ link = "open" /\ held # NotHolding /\ HeldIsLast
      /\ replays = {p} /\ Replaying(p)
  BY DEF PassInv, Following
<1>3. p \in Replays
  BY DEF StreamTypes
<1>4. /\ q.page = After(p.after) /\ q.upto = IF p.upto = None THEN cursor ELSE p.upto
      /\ q.after = p.after /\ q.events = p.events
  BY <1>3 DEF Replays
<1>5. /\ Ordered(q.page)
      /\ \A i \in 1..Len(q.page) : q.page[i] > p.after /\ q.page[i] \in DOMAIN written
      /\ q.page = <<>> => \A s \in rows : s <= p.after
      /\ \A s \in rows, i \in 1..Len(q.page) : (p.after < s /\ s <= q.page[i]) => In(s, q.page)
  <2>1. p.after \in Int /\ rows \subseteq Numbers /\ rows \subseteq DOMAIN written
    BY StreamNumbers DEF ServerInv, ChannelTypeOK
  <2> QED BY <1>4, <2>1, PageAscends DEF In
<1>6. q.upto # None /\ \A s \in rows : Owed(s) => s <= q.upto
  <2>1. cursor \in Nat /\ None \notin Nat
    BY DEF TableInv, TableTypes, None
  <2>2. \A s \in rows : s <= cursor
    BY DEF TableInv, NumbersOnce, ServerInv, ChannelTypeOK
  <2>3. CASE p.upto = None
    BY <1>4, <2>1, <2>2, <2>3
  <2>4. CASE p.upto # None
    BY <1>2, <1>4, <2>4 DEF Replaying
  <2> QED BY <2>3, <2>4
<1>7. \A s : Owed(s)' <=> Owed(s)
  BY <1>1 DEF Owed, Ahead
<1>8. Replaying(q)'
  BY <1>1, <1>2, <1>4, <1>5, <1>6, <1>7 DEF Replaying
<1>9. HeldIsLast'
  BY <1>1, <1>2 DEF HeldIsLast, Earlier
<1>10. replays' = {q}
  BY <1>1, <1>2
<1>11. Following'
  BY <1>1, <1>2, <1>8, <1>9, <1>10 DEF Following
<1> QED BY <1>1, <1>2, <1>11 DEF PassInv

\* With its page a replay has, in order, every row up to the page's last.
LEMMA PageJoins ==
  ASSUME ServerInv, StreamTypes, NEW p \in replays, Replaying(p), p.page # Asked
  PROVE  LET eg == p.events \o p.page IN
         /\ Ordered(eg)
         /\ \A i \in 1..Len(eg) : eg[i] \in DOMAIN written
         /\ \A s \in rows : (seen < s /\ s <= p.after) => In(s, eg)
         /\ \A s \in rows, i \in 1..Len(p.page) : (seen < s /\ s <= p.page[i]) => In(s, eg)
         /\ \A s \in rows, i \in 1..Len(eg) : (seen < s /\ s <= eg[i]) => In(s, eg)
<1> DEFINE e == p.events
           g == p.page
           eg == e \o g
<1>1. e \in Seq(Nat) /\ g \in Seq(Nat) /\ p.after \in Nat
  BY StreamNumbers
<1>2. \A s \in rows : s \in Nat
  BY ChannelAssumption DEF ServerInv, ChannelTypeOK, Numbers
<1>3. /\ Ordered(e) /\ Ordered(g)
      /\ \A i \in 1..Len(e) : e[i] <= p.after /\ e[i] \in DOMAIN written
      /\ \A i \in 1..Len(g) : g[i] > p.after /\ g[i] \in DOMAIN written
      /\ \A s \in rows : (seen < s /\ s <= p.after) => In(s, e)
      /\ \A s \in rows, i \in 1..Len(g) : (p.after < s /\ s <= g[i]) => In(s, g)
  BY DEF Replaying
<1> HIDE DEF e, g
<1>4. \A i \in 1..Len(e) : e[i] \in Nat
  BY <1>1
<1>5. \A j \in 1..Len(g) : g[j] \in Nat
  BY <1>1
<1>6. \A i \in 1..Len(e), j \in 1..Len(g) : e[i] < g[j]
  BY SMTT(90), <1>1, <1>3, <1>4, <1>5
<1>7. Ordered(eg)
  BY <1>1, <1>3, <1>6, OrderedJoin
<1>8. /\ \A s : In(s, eg) <=> In(s, e) \/ In(s, g)
      /\ \A i \in 1..Len(eg) : \/ (i \in 1..Len(e) /\ eg[i] = e[i])
                               \/ (i - Len(e) \in 1..Len(g) /\ eg[i] = g[i - Len(e)])
  BY <1>1, InJoin
<1> HIDE DEF eg
<1>9. \A i \in 1..Len(eg) : eg[i] \in DOMAIN written
  BY <1>3, <1>8
<1>10. \A s \in rows : (seen < s /\ s <= p.after) => In(s, eg)
  BY <1>3, <1>8
<1>11. \A s \in rows, i \in 1..Len(g) : (seen < s /\ s <= g[i]) => In(s, eg)
  <2> SUFFICES ASSUME NEW s \in rows, NEW i \in 1..Len(g), seen < s, s <= g[i] PROVE In(s, eg)
    OBVIOUS
  <2>1. s <= p.after \/ p.after < s
    BY <1>1, <1>2
  <2> QED BY <1>3, <1>8, <2>1
<1>12. \A s \in rows, i \in 1..Len(eg) : (seen < s /\ s <= eg[i]) => In(s, eg)
  <2> SUFFICES ASSUME NEW s \in rows, NEW i \in 1..Len(eg), seen < s, s <= eg[i] PROVE In(s, eg)
    OBVIOUS
  <2>1. CASE i \in 1..Len(e) /\ eg[i] = e[i]
    <3>1. s <= p.after
      BY <1>1, <1>2, <1>3, <1>4, <2>1
    <3> QED BY <1>10, <3>1
  <2>2. CASE i - Len(e) \in 1..Len(g) /\ eg[i] = g[i - Len(e)]
    BY <1>11, <2>2
  <2> QED BY <1>8, <2>1, <2>2
<1> QED BY <1>7, <1>9, <1>10, <1>11, <1>12 DEF eg, e, g

LEMMA LastIsHighest ==
  ASSUME NEW a \in Seq(Nat), NEW b \in Seq(Nat), Ordered(a \o b), b # <<>>
  PROVE  /\ Len(b) \in 1..Len(b) /\ Last(b) = b[Len(b)]
         /\ \A i \in 1..Len(a \o b) : (a \o b)[i] <= Last(b)
<1> DEFINE c == a \o b
<1>1. /\ c \in Seq(Nat) /\ Len(a) \in Nat /\ Len(b) \in Nat /\ Len(c) = Len(a) + Len(b)
      /\ \A i \in 1..Len(b) : Len(a) + i \in 1..Len(c) /\ c[Len(a) + i] = b[i]
  BY InJoin
<1> HIDE DEF c
<1>2. Len(b) \in 1..Len(b) /\ Last(b) = b[Len(b)]
  BY <1>1 DEF Last
<1>3. Len(c) \in 1..Len(c) /\ c[Len(c)] = Last(b)
  BY <1>1, <1>2
<1>4. \A i \in 1..Len(c) : c[i] \in Nat /\ (i = Len(c) \/ i < Len(c))
  BY <1>1
<1>5. \A i \in 1..Len(c) : i < Len(c) => c[i] < c[Len(c)]
  BY <1>3 DEF Ordered, c
<1>6. \A i \in 1..Len(c) : c[i] <= Last(b)
  <2> SUFFICES ASSUME NEW i \in 1..Len(c) PROVE c[i] <= Last(b)
    OBVIOUS
  <2>1. CASE i = Len(c)
    BY <1>3, <1>4, <2>1
  <2>2. CASE i < Len(c)
    BY SMTT(90), <1>3, <1>4, <1>5, <2>2
  <2> QED BY <1>4, <2>1, <2>2
<1> QED BY <1>2, <1>6 DEF c

\* A page that is not the last is added to the replay.
LEMMA NextPagePasses ==
  ASSUME ServerInv, StreamTypes, SentAreWritten', PassInv,
         NEW p \in replays, p.page # Asked, ~IsLast(p, p.page), TablesStand,
         replays' = (replays \ {p}) \union
           {[p EXCEPT !.after = Last(p.page), !.events = @ \o p.page, !.page = Asked]},
         UNCHANGED <<link, seen, held, got, read, from>>
  PROVE  PassInv'
<1> PICK q : q = [p EXCEPT !.after = Last(p.page), !.events = @ \o p.page, !.page = Asked]
  OBVIOUS
<1>1. /\ replays' = (replays \ {p}) \union {q}
      /\ UNCHANGED <<link, at, read, seen, from, held, got, rows, written, mark, live>>
  BY DEF TablesStand
<1>2. /\ link = "open" /\ held # NotHolding /\ HeldIsLast
      /\ replays = {p} /\ Replaying(p)
  BY DEF PassInv, Following
<1>3. p \in Replays /\ p.events \in Seq(Nat) /\ p.page \in Seq(Nat) /\ p.page # <<>>
  BY StreamNumbers DEF StreamTypes, IsLast
<1> PICK eg : eg = p.events \o p.page
  OBVIOUS
<1>4. q.after = Last(p.page) /\ q.events = eg /\ q.page = Asked /\ q.upto = p.upto
  BY <1>3 DEF Replays
<1>5. /\ Ordered(eg)
      /\ \A i \in 1..Len(eg) : eg[i] \in DOMAIN written
      /\ \A s \in rows, i \in 1..Len(p.page) : (seen < s /\ s <= p.page[i]) => In(s, eg)
  BY <1>2, PageJoins
<1>6. /\ Len(p.page) \in 1..Len(p.page) /\ Last(p.page) = p.page[Len(p.page)]
      /\ \A i \in 1..Len(eg) : eg[i] <= Last(p.page)
  BY <1>3, <1>5, LastIsHighest
<1>7. Last(p.page) \in DOMAIN written
  BY <1>2, <1>6 DEF Replaying
<1>8. \A s \in rows : (seen < s /\ s <= Last(p.page)) => In(s, eg)
  BY <1>5, <1>6
<1>9. \A s : Owed(s)' <=> Owed(s)
  BY <1>1 DEF Owed, Ahead
<1>10. Replaying(q)'
  <2>1. q.upto # None => \A s \in rows : Owed(s) => s <= q.upto
    BY <1>2, <1>4 DEF Replaying
  <2> QED BY <1>1, <1>4, <1>5, <1>6, <1>7, <1>8, <1>9, <2>1 DEF Replaying
<1>11. HeldIsLast'
  BY <1>1, <1>2 DEF HeldIsLast, Earlier
<1>12. replays' = {q}
  BY <1>1, <1>2
<1>13. Following'
  BY <1>1, <1>2, <1>10, <1>11, <1>12 DEF Following
<1> QED BY <1>1, <1>2, <1>13 DEF PassInv

\* When its last page is there, a replay has every row it owes.
LEMMA OwedIsReplayed ==
  ASSUME ServerInv, StreamTypes, NEW p \in replays, Replaying(p), p.page # Asked,
         IsLast(p, p.page), NEW s \in rows, seen < s, Owed(s)
  PROVE  In(s, p.events \o p.page)
<1>1. p.page \in Seq(Nat) /\ p.upto \in Int /\ s \in Nat
  <2>1. p.page \in Seq(Nat) /\ p.upto \in Int
    BY StreamNumbers
  <2>2. s \in Nat
    BY ChannelAssumption DEF ServerInv, ChannelTypeOK, Numbers
  <2> QED BY <2>1, <2>2
<1>2. s <= p.upto /\ (p.page = <<>> => s <= p.after)
  BY DEF Replaying
<1>3. CASE p.page = <<>>
  BY <1>2, <1>3, PageJoins
<1>4. CASE p.page # <<>> /\ Last(p.page) >= p.upto
  <2>1. Len(p.page) \in 1..Len(p.page) /\ Last(p.page) = p.page[Len(p.page)]
        /\ Last(p.page) \in Nat
    BY <1>1, <1>4 DEF Last
  <2>2. s <= p.page[Len(p.page)]
    BY <1>1, <1>2, <1>4, <2>1
  <2> QED BY <2>1, <2>2, PageJoins
<1> QED BY <1>3, <1>4 DEF IsLast

LEMMA Within ==
  ASSUME NEW x \in Nat, NEW y \in Nat, NEW k \in 1..y, NEW j \in 1..(x + k - 1)
  PROVE  j \in 1..(x + y) /\ j < x + k
OBVIOUS

\* Two lists that go up, of which the second has s only if it goes to s or beyond
\* and the first does not have it.
GoesOn(a, h, s) ==
  /\ Ordered(a) /\ Ordered(h)
  /\ \A i \in 1..Len(a) : s <= a[i] => In(s, a)
  /\ \A i \in 1..Len(h) : s <= h[i] => In(s, h) \/ In(s, a)

\* If f reaches s or beyond, s is in f, above all that comes before it.
Comes(f, s) ==
  \A n \in 1..Len(f) : s <= f[n] =>
    \E k \in 1..Len(f) : f[k] = s /\ \A j \in 1..(k - 1) : f[j] < f[k]

\* A number one of two such lists reaches is in them joined, above all before it.
LEMMA HigherThanBefore ==
  ASSUME NEW a \in Seq(Nat), NEW h \in Seq(Nat), NEW s \in Nat, GoesOn(a, h, s)
  PROVE  Comes(a \o h, s)
<1> SUFFICES ASSUME NEW n \in 1..Len(a \o h), s <= (a \o h)[n]
             PROVE  \E k \in 1..Len(a \o h) :
                      (a \o h)[k] = s /\ \A j \in 1..(k - 1) : (a \o h)[j] < (a \o h)[k]
  BY DEF Comes
<1>0. /\ Ordered(a) /\ Ordered(h)
      /\ \A i \in 1..Len(a) : s <= a[i] => In(s, a)
      /\ \A i \in 1..Len(h) : s <= h[i] => In(s, h) \/ In(s, a)
  BY DEF GoesOn
<1> DEFINE f == a \o h
<1>1. /\ f \in Seq(Nat) /\ Len(a) \in Nat /\ Len(h) \in Nat /\ Len(f) = Len(a) + Len(h)
      /\ \A i \in 1..Len(a) : i \in 1..Len(f) /\ f[i] = a[i]
      /\ \A i \in 1..Len(h) : Len(a) + i \in 1..Len(f) /\ f[Len(a) + i] = h[i]
      /\ \A i \in 1..Len(f) : \/ (i \in 1..Len(a) /\ f[i] = a[i])
                              \/ (i - Len(a) \in 1..Len(h) /\ f[i] = h[i - Len(a)])
  BY InJoin
<1>2. \A i \in 1..Len(a) : a[i] \in Nat
  OBVIOUS
<1>3. Len(a) \in Nat /\ Len(h) \in Nat /\ Len(f) = Len(a) + Len(h)
  BY <1>1
<1>4. n \in 1..Len(f) /\ s <= f[n]
  OBVIOUS
<1> HIDE DEF f
<1>5. CASE In(s, a)
  <2>1. PICK k \in 1..Len(a) : a[k] = s
    BY <1>5 DEF In
  <2>2. k \in 1..Len(f) /\ f[k] = s
    BY <1>1, <2>1
  <2>3. ASSUME NEW j \in 1..(k - 1) PROVE f[j] < f[k]
    <3>1. j \in 1..Len(a) /\ j < k
      BY <1>3, <2>1, <2>3
    <3>2. a[j] < a[k]
      BY <1>0, <3>1 DEF Ordered
    <3> QED BY <1>1, <2>1, <2>2, <3>1, <3>2
  <2> QED BY <2>2, <2>3 DEF f
<1>6. CASE ~In(s, a)
  <2>1. \A i \in 1..Len(a) : a[i] < s
    <3> SUFFICES ASSUME NEW i \in 1..Len(a) PROVE a[i] < s
      OBVIOUS
    <3>1. ~(s <= a[i]) /\ a[i] \in Nat
      BY <1>0, <1>2, <1>6
    <3> QED BY <3>1
  <2>2. n - Len(a) \in 1..Len(h) /\ s <= h[n - Len(a)]
    <3>1. ~(n \in 1..Len(a) /\ f[n] = a[n])
      BY <1>0, <1>4, <1>6
    <3> QED BY <1>1, <1>4, <3>1
  <2>3. PICK k \in 1..Len(h) : h[k] = s
    BY <1>0, <1>6, <2>2 DEF In
  <2>4. Len(a) + k \in 1..Len(f) /\ f[Len(a) + k] = s
    BY <1>1, <2>3
  <2>5. ASSUME NEW j \in 1..(Len(a) + k - 1) PROVE f[j] < s
    <3>1. j \in 1..Len(f) /\ j < Len(a) + k
      <4>1. j \in 1..(Len(a) + Len(h)) /\ j < Len(a) + k
        BY <1>3, <2>5, Within
      <4> QED BY <1>3, <4>1
    <3>2. CASE j \in 1..Len(a) /\ f[j] = a[j]
      BY <2>1, <3>2
    <3>3. CASE j - Len(a) \in 1..Len(h) /\ f[j] = h[j - Len(a)]
      <4>1. PICK l \in 1..Len(h) : l = j - Len(a) /\ f[j] = h[l]
        BY <3>3
      <4>2. l < k
        BY <1>3, <3>1, <4>1
      <4>3. h[l] < h[k]
        BY <1>0, <4>2 DEF Ordered
      <4> QED BY <2>3, <4>1, <4>3
    <3> QED BY <1>1, <3>1, <3>2, <3>3
  <2>6. PICK d \in 1..Len(f) : d = Len(a) + k
    BY <2>4
  <2>7. f[d] = s
    BY <2>4, <2>6
  <2>8. ASSUME NEW j \in 1..(d - 1) PROVE f[j] < f[d]
    <3>1. j \in 1..(Len(a) + k - 1)
      BY <2>6, <2>8
    <3> QED BY <2>5, <2>7, <3>1
  <2> QED BY <2>7, <2>8 DEF f
<1> QED BY <1>5, <1>6

\* The frames held go up, no higher than the watermark and below what is ahead.
LEMMA HeldGoesUp ==
  ASSUME ServerInv, StreamTypes, SentAreWritten, read <= Len(live[at]), HeldIsLast
  PROVE  /\ Ordered(held)
         /\ \A i \in 1..Len(held) : held[i] <= mark[at] /\ held[i] \in DOMAIN written
         /\ \A i \in 1..Len(held) : \A s : Ahead(s) => held[i] < s
<1>1. at \in Replicas /\ read \in Nat /\ Len(held) \in Nat /\ Len(live[at]) \in Nat
  BY StreamNumbers, LiveLength DEF StreamTypes
<1>2. /\ Earlier \in Nat /\ Earlier + Len(held) = read
      /\ \A i \in 1..Len(held) : held[i] = live[at][Earlier + i]
  BY <1>1 DEF HeldIsLast, Earlier
<1>3. \A i \in 1..Len(held) : Earlier + i \in 1..Len(live[at]) /\ Earlier + i <= read
  BY <1>1, <1>2
<1>4. /\ Ordered(live[at])
      /\ \A i \in 1..Len(live[at]) : live[at][i] <= mark[at] /\ live[at][i] \in DOMAIN written
  BY <1>1 DEF ServerInv, LiveGoesUp, SentAreWritten
<1>5. Ordered(held)
  <2> SUFFICES ASSUME NEW i \in 1..Len(held), NEW j \in 1..Len(held), i < j
               PROVE  held[i] < held[j]
    BY DEF Ordered
  <2>1. Earlier + i < Earlier + j
    BY <1>1, <1>2
  <2>2. live[at][Earlier + i] < live[at][Earlier + j]
    BY <1>3, <1>4, <2>1 DEF Ordered
  <2> QED BY <1>2, <2>2
<1>6. ASSUME NEW i \in 1..Len(held), NEW s, Ahead(s) PROVE held[i] < s
  <2>1. PICK j \in 1..Len(live[at]) : j > read /\ live[at][j] = s
    BY <1>6 DEF Ahead
  <2>2. Earlier + i < j
    BY <1>1, <1>2, <1>3, <2>1
  <2>3. live[at][Earlier + i] < live[at][j]
    BY <1>3, <1>4, <2>2 DEF Ordered
  <2> QED BY <1>2, <2>1, <2>3
<1> QED BY <1>2, <1>3, <1>4, <1>5, <1>6

\* What goes out when a replay settles is in order as far as rows go: a row among
\* the frames is above all that comes before it.
LEMMA RowIsAmongFrames ==
  ASSUME ServerInv, StreamTypes, SentAreWritten, read <= Len(live[at]), HeldIsLast,
         NEW p \in replays, Replaying(p), p.page # Asked, IsLast(p, p.page),
         NEW frames, frames = (p.events \o p.page) \o held,
         NEW s \in rows, seen < s, NEW n \in 1..Len(frames), s <= frames[n]
  PROVE  \E k \in 1..Len(frames) : frames[k] = s /\ \A j \in 1..(k - 1) : frames[j] < frames[k]
<1>1. PICK a, h : a = p.events \o p.page /\ h = held
  OBVIOUS
<1>2. p.events \in Seq(Nat) /\ p.page \in Seq(Nat) /\ h \in Seq(Nat)
  BY <1>1, StreamNumbers
<1>3. a \in Seq(Nat)
  BY <1>1, <1>2
<1>4. s \in Nat /\ mark[at] \in Int /\ \A i \in 1..Len(h) : h[i] \in Nat
  <2>1. s \in Nat
    BY ChannelAssumption DEF ServerInv, ChannelTypeOK, Numbers
  <2>2. mark[at] \in Int
    BY MarkIsAnInteger DEF ServerInv, StreamTypes
  <2>3. \A i \in 1..Len(h) : h[i] \in Nat
    BY <1>2
  <2> QED BY <2>1, <2>2, <2>3
<1>5. Ordered(a) /\ \A i \in 1..Len(a) : s <= a[i] => In(s, a)
  BY <1>1, PageJoins
<1>6. /\ Ordered(h)
      /\ \A i \in 1..Len(h) : h[i] <= mark[at]
      /\ \A i \in 1..Len(h) : Ahead(s) => h[i] < s
  BY <1>1, HeldGoesUp
<1>7. ASSUME NEW i \in 1..Len(h), s <= h[i] PROVE In(s, h) \/ In(s, a)
  <2>1. s <= mark[at] /\ ~Ahead(s)
    BY <1>4, <1>6, <1>7
  <2>2. ~In(s, h) => Owed(s)
    BY <1>1, <2>1 DEF Owed
  <2> QED BY <1>1, <2>2, OwedIsReplayed
<1>8. frames = a \o h
  BY <1>1
<1>9. GoesOn(a, h, s)
  BY <1>5, <1>6, <1>7 DEF GoesOn
<1>10. Comes(a \o h, s)
  BY <1>2, <1>3, <1>4, <1>9, HigherThanBefore
<1>11. n \in 1..Len(a \o h) /\ s <= (a \o h)[n]
  BY <1>8
<1>12. \E k \in 1..Len(a \o h) :
          (a \o h)[k] = s /\ \A j \in 1..(k - 1) : (a \o h)[j] < (a \o h)[k]
  BY <1>10, <1>11 DEF Comes
<1> QED BY <1>8, <1>12

\* A replay that settles hands out every row up to where it leaves the cursor.
LEMMA SettlePasses ==
  ASSUME ServerInv, StreamTypes, StreamTypes', GotGoesUp, SentAreWritten', PassInv,
         NEW p \in replays, p.page # Asked, IsLast(p, p.page), TablesStand,
         Settle(p, p.events \o p.page),
         UNCHANGED <<read, from>>
  PROVE  PassInv'
<1>1. /\ link = "open" /\ held # NotHolding /\ HeldIsLast /\ read <= Len(live[at])
      /\ replays = {p} /\ Replaying(p) /\ SentAreWritten
  BY DEF PassInv, Following
<1> PICK frames : frames = (p.events \o p.page) \o held
  OBVIOUS
<1>2. /\ Hand(frames) /\ replays' = {} /\ held' = NotHolding
      /\ UNCHANGED <<link, at, read, from, rows, written, mark, live>>
  BY <1>1 DEF Settle, TablesStand
<1>3. frames \in Seq(Numbers)
  <2>1. p.events \in Seq(Numbers) /\ p.page \in Seq(Numbers) /\ held \in Seq(Numbers)
    BY <1>1 DEF StreamTypes, Replays
  <2> QED BY <2>1
<1>4. /\ \A s : In(s, got) => In(s, got')
      /\ \A k \in 1..Len(frames) :
            (frames[k] > seen /\ \A j \in 1..(k - 1) : frames[j] < frames[k])
              => In(frames[k], got') /\ frames[k] <= seen'
      /\ seen' = seen \/ In(seen', frames)
  BY <1>2, <1>3, HandGives
<1>5. /\ seen <= seen' /\ seen \in Nat /\ seen' \in Nat /\ from \in Nat
      /\ read \in Nat /\ Len(held) \in Nat
  <2>1. seen' \in Nat
    BY DEF StreamTypes
  <2>2. seen <= seen'
    BY <1>2, <1>3, HandKeeps
  <2> QED BY <2>1, <2>2, StreamNumbers
<1>6. \A s \in rows : s \in Nat
  BY ChannelAssumption DEF ServerInv, ChannelTypeOK, Numbers
<1>7. ASSUME NEW s \in rows, seen < s, NEW n \in 1..Len(frames), s <= frames[n]
      PROVE  In(s, got') /\ s <= seen'
  <2>1. PICK k \in 1..Len(frames) :
          frames[k] = s /\ \A j \in 1..(k - 1) : frames[j] < frames[k]
    BY ZenonT(90), <1>1, <1>7, RowIsAmongFrames
  <2>2. frames[k] > seen
    BY <1>5, <1>6, <1>7, <2>1
  <2> QED BY <1>4, <2>1, <2>2
<1>8. ASSUME NEW s \in rows, from < s, s <= seen' PROVE In(s, got')
  <2>1. CASE s <= seen
    BY <1>1, <1>4, <1>8, <2>1 DEF PassInv
  <2>2. CASE seen < s
    <3>1. seen' # seen
      BY <1>5, <1>6, <1>8, <2>2
    <3>2. PICK n \in 1..Len(frames) : frames[n] = seen'
      BY <1>4, <3>1 DEF In
    <3>3. s <= frames[n]
      BY <1>8, <3>2
    <3> QED BY <1>7, <2>2, <3>3
  <2> QED BY <1>5, <1>6, <2>1, <2>2
<1> PICK eg : eg = p.events \o p.page
  OBVIOUS
<1>9. /\ \A i \in 1..Len(eg) : i \in 1..Len(frames) /\ frames[i] = eg[i]
      /\ \A i \in 1..Len(held) : Len(eg) + i \in 1..Len(frames) /\ frames[Len(eg) + i] = held[i]
      /\ \A s : In(s, frames) <=> In(s, eg) \/ In(s, held)
  <2>1. p.events \in Seq(Nat) /\ p.page \in Seq(Nat) /\ held \in Seq(Nat)
    BY StreamNumbers
  <2> PICK h \in Seq(Nat) : h = held
    BY <2>1
  <2>2. eg \in Seq(Nat) /\ frames = eg \o h
    BY <2>1
  <2> PICK j : j = eg \o h
    OBVIOUS
  <2>3. /\ \A i \in 1..Len(eg) : i \in 1..Len(j) /\ j[i] = eg[i]
        /\ \A i \in 1..Len(h) : Len(eg) + i \in 1..Len(j) /\ j[Len(eg) + i] = h[i]
        /\ \A s : In(s, j) <=> In(s, eg) \/ In(s, h)
    <3>1. /\ \A i \in 1..Len(eg) : i \in 1..Len(eg \o h) /\ (eg \o h)[i] = eg[i]
          /\ \A i \in 1..Len(h) : /\ Len(eg) + i \in 1..Len(eg \o h)
                                  /\ (eg \o h)[Len(eg) + i] = h[i]
          /\ \A s : In(s, eg \o h) <=> In(s, eg) \/ In(s, h)
      BY ZenonT(90), <2>2, InJoin
    <3> QED BY ZenonT(90), <3>1
  <2>4. frames = j /\ held = h
    BY <2>2
  <2> QED BY <2>3, <2>4
<1>10. ASSUME NEW s \in rows, s <= mark[at] PROVE s <= seen' \/ Ahead(s)
  <2>1. CASE s <= seen
    BY <1>5, <1>6, <2>1
  <2>2. CASE seen < s /\ ~Ahead(s)
    <3>1. Owed(s) => In(s, eg)
      BY <1>1, <2>2, OwedIsReplayed
    <3>2. In(s, eg) \/ In(s, held)
      BY <1>10, <2>2, <3>1 DEF Owed
    <3>3. PICK n \in 1..Len(frames) : frames[n] = s
      BY <1>9, <3>2 DEF In
    <3>4. s <= frames[n]
      BY <1>6, <3>3
    <3> QED BY <1>7, <2>2, <3>4
  <2> QED BY <1>5, <1>6, <2>1, <2>2
<1>11. seen' = from' \/ seen' \in DOMAIN written'
  <2>1. \A i \in 1..Len(eg) : eg[i] \in DOMAIN written
    BY <1>1, PageJoins
  <2>2. \A i \in 1..Len(held) : held[i] \in DOMAIN written
    BY <1>1, HeldGoesUp
  <2>3. \A s : In(s, eg) \/ In(s, held) => s \in DOMAIN written
    BY <2>1, <2>2 DEF In
  <2>4. In(seen', frames) => seen' \in DOMAIN written
    BY <1>9, <2>3
  <2> QED BY <1>2, <1>4, <2>4 DEF PassInv
<1>12. Following'
  <2>1. \A s : Ahead(s)' <=> Ahead(s)
    BY <1>2 DEF Ahead
  <2> QED BY <1>2, <1>10, <2>1 DEF Following
<1> QED BY <1>1, <1>2, <1>8, <1>11, <1>12 DEF PassInv

\* A stream given a cursor ends when it is refused, or when a replay of it fails.
LEMMA RefusalPasses ==
  ASSUME SentAreWritten', PassInv, Refused
  PROVE  PassInv'
<1>1. /\ link' = "closed" /\ held = NotHolding /\ replays = {}
      /\ UNCHANGED <<seen, from, held, replays, written>>
  BY DEF Refused, PassInv
<1> QED BY <1>1 DEF PassInv

LEMMA GiveUpPasses ==
  ASSUME FromGiven, SentAreWritten', PassInv, NEW p \in replays, GiveUp(p),
         UNCHANGED <<written, from>>
  PROVE  PassInv'
<1>1. replays = {p}
  BY DEF PassInv, Following
<1>2. /\ link' = "closed" /\ held' = NotHolding /\ replays' = {}
      /\ UNCHANGED <<seen, from, written>>
  BY <1>1 DEF GiveUp
<1> QED BY <1>2 DEF PassInv

\* A replica restarts: under the stream its connection is cut, elsewhere the server
\* goes on, and with no connection open there is nothing to cut.
LEMMA RestartPasses ==
  ASSUME TableInv, ServerInv, ServerInv', StreamTypes, Grows, SentAreWritten', PassInv,
         AlignedFirst, NoneBehind', NEW r \in Replicas, RestartUnder(r)
  PROVE  PassInv'
<1>1. Restart(r) /\ UNCHANGED <<at, read, connections, seen, from, held, replays, got>>
  BY DEF RestartUnder
<1>2. CASE link = "open" /\ at = r
  <2>1. link' = "connecting"
    BY <1>2 DEF RestartUnder
  <2> QED BY <1>1, <1>2, <2>1, CutPasses
<1>3. CASE link' = link /\ at # r
  <2>1. ServesOn
    BY <1>1, <1>3 DEF ServesOn, streamVars
  <2> QED BY <2>1, ServerPasses
<1>4. CASE link' = link /\ link # "open"
  <2>1. /\ seen' = from' \/ seen' \in DOMAIN written'
        /\ link # "closed" => \A s \in rows' : (from' < s /\ s <= seen') => In(s, got')
    BY <1>1, NothingBelowSeen
  <2> QED BY <1>1, <1>4, <2>1 DEF PassInv
<1> QED BY <1>2, <1>3, <1>4 DEF RestartUnder

LEMMA PassInvKept ==
  ASSUME FromGiven, Served, NoneBehind', TableInv, ServerInv, ServerInv', StreamInv, StreamInv',
         PassInv, [Next]_vars
  PROVE  PassInv'
<1>1. StreamTypes /\ StreamTypes' /\ GotGoesUp /\ KeptUp /\ AlignedFirst /\ NoneLate
  BY DEF StreamInv, Served
<1>2. SentAreWritten' /\ Grows
  BY <1>1, GrowsKept DEF PassInv
<1>3. ASSUME UNCHANGED channelVars, at' = at PROVE TablesStand
  BY <1>3 DEF channelVars, TablesStand
<1>4. ASSUME ServerStep \/ UNCHANGED vars PROVE PassInv'
  <2>1. ServesOn
    BY <1>4 DEF ServerStep, ServesOn, vars
  <2> QED BY <1>1, <1>2, <2>1, ServerPasses
<1>5. ASSUME NEW r \in Replicas, RestartUnder(r) PROVE PassInv'
  BY <1>1, <1>2, <1>5, RestartPasses
<1>6. ASSUME NEW r \in Replicas, Connect(r) PROVE PassInv'
  BY <1>1, <1>2, <1>6, ConnectPasses
<1>7. ASSUME ReadCursor PROVE PassInv'
  <2>1. TablesStand
    BY <1>3, <1>7 DEF ReadCursor
  <2> QED BY <1>1, <1>2, <1>7, <2>1, CursorReadPasses
<1>8. ASSUME Refused PROVE PassInv'
  BY <1>2, <1>8, RefusalPasses
<1>9. ASSUME Receive PROVE PassInv'
  <2>1. TablesStand
    BY <1>3, <1>9 DEF Receive
  <2>2. CASE held # NotHolding
    BY <1>1, <1>2, <1>9, <2>1, <2>2, HeldFramePasses
  <2>3. CASE held = NotHolding
    BY <1>1, <1>2, <1>9, <2>1, <2>3, LiveFramePasses
  <2> QED BY <2>2, <2>3
<1>10. ASSUME EndOfBody \/ Break PROVE PassInv'
  <2>1. /\ link = "open" /\ link' = "connecting"
        /\ UNCHANGED <<at, read, connections, seen, from, held, replays, got>>
    BY <1>10 DEF EndOfBody, Break
  <2> QED BY <1>1, <1>2, <2>1, CutPasses
<1>11. ASSUME NEW p \in replays, ReadPage(p) PROVE PassInv'
  <2>1. TablesStand
    BY <1>3, <1>11 DEF ReadPage
  <2> QED BY <1>1, <1>2, <1>11, <2>1, PageReadPasses
<1>12. ASSUME NEW p \in replays, PageArrives(p) PROVE PassInv'
  <2>1. TablesStand /\ p.page # Asked /\ UNCHANGED <<read, from>>
    BY <1>3, <1>12 DEF PageArrives
  <2>2. CASE GiveUp(p)
    <3>1. UNCHANGED <<written, from>>
      BY <2>1 DEF TablesStand
    <3> QED BY <1>2, <2>2, <3>1, GiveUpPasses
  <2>3. CASE IsLast(p, p.page) /\ Settle(p, p.events \o p.page)
    BY <1>1, <1>2, <2>1, <2>3, SettlePasses
  <2>4. CASE /\ ~IsLast(p, p.page)
             /\ replays' = (replays \ {p}) \union
                  {[p EXCEPT !.after = Last(p.page), !.events = @ \o p.page, !.page = Asked]}
             /\ UNCHANGED <<link, seen, held, got>>
    BY <1>1, <1>2, <2>1, <2>4, NextPagePasses
  <2> QED BY <1>12, <2>2, <2>3, <2>4 DEF PageArrives
<1>13. ASSUME NEW p \in replays, ReplayFails(p) PROVE PassInv'
  <2>1. GiveUp(p) /\ UNCHANGED <<written, from>>
    BY <1>13 DEF ReplayFails
  <2> QED BY <1>2, <2>1, GiveUpPasses
<1> QED BY <1>4, <1>5, <1>6, <1>7, <1>8, <1>9, <1>10, <1>11, <1>12, <1>13 DEF Next

LEMMA PassInit ==
  ASSUME Init, FromGiven
  PROVE  PassInv
<1>1. rows = {} /\ live = [r \in Replicas |-> <<>>]
  BY DEF Init, ChannelInit
<1>2. /\ link = "starting" /\ held = NotHolding /\ replays = {} /\ seen = 0 /\ from = 0
  BY DEF Init
<1>3. \A r \in Replicas : Len(live[r]) = 0
  BY <1>1
<1>4. SentAreWritten
  BY <1>3 DEF SentAreWritten
<1> QED BY <1>1, <1>2, <1>4 DEF PassInv

\* As long as a stream opened from a cursor is served in order, it has delivered
\* every retained event between its start and the last one it delivered: for every
\* number of replicas and reconnections between them, whatever restarts, connections
\* broken, requests and inserts failed and prunes there are
\* (FetchEventSource.ts, replayGap and handleFrame).
THEOREM NoneIsPassedOver == Spec /\ []Served => []NothingPassedOver
<1> DEFINE Inv == TableInv /\ ServerInv /\ StreamInv /\ (FromGiven => PassInv)
<1>1. Init => Inv
  BY TableInit, ServerInit, StreamInit, PassInit
<1>2. Inv /\ Served /\ Served' /\ [Next]_vars => Inv'
  <2> SUFFICES ASSUME Inv, Served, Served', [Next]_vars PROVE Inv'
    OBVIOUS
  <2>1. TableInv'
    BY TableInvKept
  <2>2. ServerInv' /\ StreamInv'
    BY <2>1, ServerInvKept, StreamInvKept
  <2>3. FromGiven => PassInv'
    <3>1. NoneBehind'
      BY DEF Served
    <3> QED BY <2>2, <3>1, PassInvKept
  <2> QED BY <2>1, <2>2, <2>3
<1>3. Inv => NothingPassedOver
  <2> SUFFICES ASSUME StreamTypes, PassInv, link # "closed",
                      NEW s \in rows, from < s, s <= seen
               PROVE  Got(s)
    BY DEF NothingPassedOver, StreamInv
  <2>1. In(s, got) /\ got \in Seq(Numbers)
    BY DEF PassInv, StreamTypes
  <2> QED BY <2>1 DEF In, Got
<1> HIDE DEF Inv
<1> QED BY <1>1, <1>2, <1>3, PTL DEF Spec
=============================================================================
