---------------------------- MODULE StudioEvents ----------------------------
(***************************************************************************)
(* The push channel of one tenant: publishers, the writer and the poller   *)
(* of every backend replica, and the two tables they share                 *)
(* (studio-backend/src/studio_events: hub.rs, pump.rs, store.rs).          *)
(*                                                                         *)
(* A publisher hands an event to its replica's bounded queue and never     *)
(* waits.  The writer takes the event off the queue, takes the tenant's    *)
(* next number in one statement and inserts the row under it in another;   *)
(* replicas interleave between the two.  The poller of each replica reads  *)
(* the rows past its own watermark and broadcasts them to the subscribers  *)
(* that replica holds.  Tenants share nothing but the queue, so one tenant *)
(* is modelled.                                                            *)
(***************************************************************************)
EXTENDS Integers, FiniteSets, Sequences, SequencesExt

CONSTANTS
  Replicas,      \* backend processes, each with a queue, a writer and a poller
  MaxEvents,     \* bound: events published in a behaviour
  Queue,         \* config.rs `queue`: events that may wait for the writer
  PageSize,      \* POLL_PAGE, and the clamp of a replay page: rows per read
  Backlog,       \* config.rs `backlog`: rows that survive a prune
  MaxFailures,   \* bound: statements and requests that fail
  MaxRestarts,   \* bound: replicas that stop and start again
  Warm           \* are the replicas' channels open and aligned at the start?

ASSUME ChannelAssumption ==
  /\ MaxEvents \in Nat /\ MaxFailures \in Nat /\ MaxRestarts \in Nat
  /\ Queue \in Nat \ {0} /\ PageSize \in Nat \ {0} /\ Backlog \in Nat \ {0}
  /\ Warm \in BOOLEAN

VARIABLES
  published,   \* how many events producers have published; each is its number
  queue,       \* per replica, the events waiting for the writer
  writing,     \* per replica, the append between its two statements
  cursor,      \* studio_events_cursor.latest_seq
  rows,        \* the sequence numbers in studio_events_log
  written,     \* every number ever written, and the event under it (history)
  mark,        \* per replica, LocalChannel.delivered
  live,        \* per replica, what its broadcaster was ever sent
  failures,    \* statements and requests that failed so far
  restarts     \* replicas restarted so far

channelVars == <<published, queue, writing, cursor, rows, written, mark, live,
                 failures, restarts>>

NoChannel == -2    \* no subscriber ever asked this replica for the channel
Unaligned == -1    \* `delivered: None`
Idle == [event |-> 0, seq |-> 0]

Numbers == 1..MaxEvents

ChannelTypeOK ==
  /\ published \in 0..MaxEvents
  /\ queue \in [Replicas -> Seq(Numbers)]
  /\ writing \in [Replicas -> {Idle} \union [event : Numbers, seq : Numbers]]
  /\ cursor \in 0..MaxEvents
  /\ rows \subseteq DOMAIN written
  /\ DOMAIN written \subseteq Numbers
  /\ \A s \in DOMAIN written : written[s] \in Numbers
  /\ mark \in [Replicas -> {NoChannel, Unaligned} \union (0..MaxEvents)]
  /\ live \in [Replicas -> Seq(Numbers)]
  /\ failures \in 0..MaxFailures
  /\ restarts \in 0..MaxRestarts

ChannelInit ==
  /\ published = 0
  /\ queue = [r \in Replicas |-> <<>>]
  /\ writing = [r \in Replicas |-> Idle]
  /\ cursor = 0
  /\ rows = {}
  /\ written = <<>>
  /\ mark = [r \in Replicas |-> IF Warm THEN 0 ELSE NoChannel]
  /\ live = [r \in Replicas |-> <<>>]
  /\ failures = 0
  /\ restarts = 0

-----------------------------------------------------------------------------
(* The store's reads. *)

\* The numbers of S, oldest first.
Below(S, s) == {t \in S : t < s}
Ascending(S) ==
  [i \in 1..Cardinality(S) |-> CHOOSE s \in S : Cardinality(Below(S, s)) = i - 1]

\* EventStore::after: the oldest PageSize rows past n, oldest first.
Past(n) == {s \in rows : s > n}
After(n) ==
  Ascending({s \in Past(n) : Cardinality(Below(Past(n), s)) < PageSize})

\* A statement or a request fails, within the bound.
Fails == /\ failures < MaxFailures
         /\ failures' = failures + 1

-----------------------------------------------------------------------------
(* Producers and the writer. *)

\* StudioEventPublisher::publish: `try_send`, so a full queue loses the event.
Publish(r) ==
  /\ published < MaxEvents
  /\ published' = published + 1
  /\ queue' = IF Len(queue[r]) < Queue
              THEN [queue EXCEPT ![r] = Append(@, published + 1)]
              ELSE queue
  /\ UNCHANGED <<writing, cursor, rows, written, mark, live, failures, restarts>>

\* Mutant: the number comes from the rows, not from a counter of its own.
NextFromRows == IF rows = {} THEN 1 ELSE Max(rows) + 1

\* Mutant: the number is advanced by both statements.
NextSeqTwice == cursor + 2

\* The number the cursor's upsert returns.
NextSeq == cursor + 1

\* spawn_writer takes the next event, and append's first statement its number.
TakeSeq(r) ==
  /\ writing[r] = Idle
  /\ queue[r] # <<>>
  /\ queue' = [queue EXCEPT ![r] = Tail(@)]
  /\ \/ /\ cursor' = NextSeq
        /\ writing' = [writing EXCEPT ![r] = [event |-> Head(queue[r]), seq |-> NextSeq]]
        /\ UNCHANGED failures
     \/ /\ Fails                 \* logged, not retried: the event is lost
        /\ UNCHANGED <<cursor, writing>>
  /\ UNCHANGED <<published, rows, written, mark, live, restarts>>

\* append's second statement.  When it fails the number is never written.
InsertRow(r) ==
  /\ writing[r] # Idle
  /\ writing' = [writing EXCEPT ![r] = Idle]
  /\ \/ LET w == writing[r] IN
        /\ rows' = rows \union {w.seq}
        /\ written' = [s \in DOMAIN written \union {w.seq} |->
                         IF s = w.seq THEN w.event ELSE written[s]]
        /\ UNCHANGED failures
     \/ /\ Fails
        /\ UNCHANGED <<rows, written>>
  /\ UNCHANGED <<published, queue, cursor, mark, live, restarts>>

-----------------------------------------------------------------------------
(* The poller.  It is the only task that moves its replica's watermark, so  *)
(* the read and what is done with it are one step; a failed read changes    *)
(* nothing.                                                                 *)

\* hub.align: the first poll of a channel takes the tenant's mark, and sends nothing.
Align(r) ==
  /\ mark[r] = Unaligned
  /\ mark' = [mark EXCEPT ![r] = cursor]
  /\ UNCHANGED <<published, queue, writing, cursor, rows, written, live, failures, restarts>>

\* hub.deliver: broadcast the page, and move the watermark to its last row.
Deliver(r) ==
  /\ mark[r] >= 0
  /\ After(mark[r]) # <<>>
  /\ live' = [live EXCEPT ![r] = @ \o After(mark[r])]
  /\ mark' = [mark EXCEPT ![r] = Last(After(mark[r]))]
  /\ UNCHANGED <<published, queue, writing, cursor, rows, written, failures, restarts>>

\* EventStore::prune, run by every replica that holds the tenant's channel.  Its
\* read of the mark and its delete are one step: a mark read earlier deletes less.
\* Mutant: one row too many.
FloorOneHigher == cursor - Backlog + 1
Floor == cursor - Backlog
Prune(r) ==
  /\ mark[r] # NoChannel
  /\ \E s \in rows : s <= Floor
  /\ rows' = {s \in rows : s > Floor}
  /\ UNCHANGED <<published, queue, writing, cursor, written, mark, live, failures, restarts>>

-----------------------------------------------------------------------------
(* A replica stops, with what it had in memory, and starts again. *)
Restart(r) ==
  /\ restarts < MaxRestarts
  /\ restarts' = restarts + 1
  /\ queue' = [queue EXCEPT ![r] = <<>>]
  /\ writing' = [writing EXCEPT ![r] = Idle]
  /\ mark' = [mark EXCEPT ![r] = NoChannel]
  /\ live' = [live EXCEPT ![r] = <<>>]
  /\ UNCHANGED <<published, cursor, rows, written, failures>>

\* hub.channel: a subscriber's first request creates the channel, unaligned.
Opened(r) == [mark EXCEPT ![r] = IF @ = NoChannel THEN Unaligned ELSE @]
Open(r) ==
  /\ mark[r] = NoChannel
  /\ mark' = Opened(r)
  /\ UNCHANGED <<published, queue, writing, cursor, rows, written, live, failures, restarts>>

\* A step of a replica that no restart is part of.
Works(r) == \/ Publish(r) \/ TakeSeq(r) \/ InsertRow(r)
            \/ Align(r) \/ Deliver(r) \/ Prune(r)

ChannelNext == \E r \in Replicas : Works(r) \/ Restart(r) \/ Open(r)

ChannelSpec == ChannelInit /\ [][ChannelNext]_channelVars

-----------------------------------------------------------------------------
(* What the tables promise. *)

\* A number names one event for ever: no two writers, on two replicas or across
\* a restart, ever write under the same one, and pruning never frees one
\* (store.rs append and prune).
NumberNamesOneEvent ==
  [][\A s \in DOMAIN written : s \in DOMAIN written' /\ written'[s] = written[s]]_written

\* An event is written at most once, and only under a number the cursor has
\* already passed, which is what lets a client tell from `latest_seq` that it
\* fell out of the window.
WrittenOnceBelowTheMark ==
  /\ \A s \in DOMAIN written : s <= cursor
  /\ \A s, t \in DOMAIN written : s # t => written[s] # written[t]
  /\ \A r, q \in Replicas : (writing[r] # Idle /\ writing[q] # Idle /\ r # q)
                               => writing[r].seq # writing[q].seq

\* Only what is more than Backlog numbers behind the mark is ever pruned, however
\* many replicas prune at once.
WindowIsKept == \A s \in DOMAIN written \ rows : s <= cursor - Backlog

=============================================================================
