---------------------------- MODULE EventStream ----------------------------
(***************************************************************************)
(* One browser subscribed to the push channel of StudioEvents:             *)
(* FetchEventSource with a resume policy                                   *)
(* (studio-frontend/src/api/sse/FetchEventSource.ts), and the replay it is *)
(* given, pageThrough                                                      *)
(* (mfe_packages/shared/src/tasks/StudioEventsApiService.ts).              *)
(*                                                                         *)
(* A consumer that waits for a job reads the tenant's cursor, then opens   *)
(* the stream from it (`streamFrom`); another opens the stream from now on *)
(* (`events`).  Every connection starts a replay of what was published     *)
(* since the last event delivered; live frames are held until it settles.  *)
(* A replay is an asynchronous call of its own: when the connection breaks *)
(* with an error, nobody waits for it.                                     *)
(***************************************************************************)
EXTENDS StudioEvents

CONSTANTS
  FromGiven,      \* is the stream opened from a cursor (`resume.from` given)?
  Buffer,         \* config.rs `buffer`: frames a broadcaster keeps for a subscriber
  MaxConnections, \* bound: connections the browser opens
  Abrupt          \* may a connection break while its body is being read?

ASSUME StreamAssumption ==
  /\ FromGiven \in BOOLEAN /\ Abrupt \in BOOLEAN
  /\ Buffer \in Nat \ {0} /\ MaxConnections \in Nat \ {0}

VARIABLES
  link,        \* "starting", "connecting", "open" or "closed"
  at,          \* the replica of the latest connection
  read,        \* how many of that replica's frames the subscription is past
  connections, \* connections opened so far
  seen,        \* `this.cursor`: the highest number delivered, the resume point
  from,        \* where the stream started (history)
  held,        \* `this.held`: frames parked during a replay, NotHolding for null
  replays,     \* the replays in flight
  got          \* the numbers handed to the consumer, in order (history)

streamVars == <<link, at, read, connections, seen, from, held, replays, got>>
vars == <<channelVars, streamVars>>

NotHolding == <<0>>
None == 0 - 1        \* no page has come yet, so no mark to page up to
Asked == <<0>>       \* the next page is asked for and not yet read

Replays == [conn : 1..MaxConnections, after : 0..MaxEvents,
            upto : {None} \union (0..MaxEvents), events : Seq(Numbers),
            page : {Asked} \union Seq(Numbers)]

TypeOK ==
  /\ ChannelTypeOK
  /\ link \in {"starting", "connecting", "open", "closed"}
  /\ at \in Replicas
  /\ read \in 0..MaxEvents
  /\ connections \in 0..MaxConnections
  /\ seen \in 0..MaxEvents
  /\ from \in 0..MaxEvents
  /\ held \in {NotHolding} \union Seq(Numbers)
  /\ replays \subseteq Replays
  /\ got \in Seq(Numbers)

Init ==
  /\ ChannelInit
  /\ link = IF FromGiven THEN "starting" ELSE "connecting"
  /\ at \in Replicas
  /\ read = 0
  /\ connections = 0
  /\ seen = 0
  /\ from = 0
  /\ held = NotHolding
  /\ replays = {}
  /\ got = <<>>

-----------------------------------------------------------------------------
(* deliverMessage and deliverParsed: a number at or below the cursor was     *)
(* delivered already and is dropped; any other moves the cursor.             *)

Handed(frames, n) ==
  LET higher == {i \in DOMAIN frames : /\ frames[i] > n
                                       /\ \A j \in 1..(i - 1) : frames[j] < frames[i]}
  IN Ascending({frames[i] : i \in higher})

\* Mutant: no number is compared with the cursor.
HandUnchecked(frames) ==
  /\ got' = got \o frames
  /\ seen' = IF frames = <<>> THEN seen ELSE Last(frames)

Hand(frames) ==
  /\ got' = got \o Handed(frames, seen)
  /\ seen' = IF Handed(frames, seen) = <<>> THEN seen ELSE Last(Handed(frames, seen))

-----------------------------------------------------------------------------
(* readCursor: `GET /events?after_seq=0&limit=1`, for its `latest_seq`. *)
ReadCursor ==
  /\ link = "starting"
  /\ link' = "connecting"
  /\ seen' = cursor
  /\ from' = cursor
  /\ UNCHANGED <<channelVars, at, read, connections, held, replays, got>>

\* connectOnce, answered by replica r, up to its first `reader.read`: the channel
\* is opened if need be, and replayGap has asked for what came after the cursor.
Connect(r) ==
  /\ link = "connecting"
  /\ connections < MaxConnections
  /\ connections' = connections + 1
  /\ link' = "open"
  /\ at' = r
  /\ mark' = Opened(r)
  /\ read' = Len(live[r])
  /\ IF seen = 0 /\ ~FromGiven
     THEN UNCHANGED <<held, replays>>
     ELSE /\ held' = <<>>
          /\ replays' = replays \union
               {[conn |-> connections + 1, after |-> seen, upto |-> None, events |-> <<>>,
                 page |-> Asked]}
  /\ UNCHANGED <<published, queue, writing, cursor, rows, written, live, failures, restarts,
                 seen, from, got>>

\* connectOnce is answered 401 or 403: the session is over.
Refused ==
  /\ link = "connecting"
  /\ Fails
  /\ link' = "closed"
  /\ UNCHANGED <<published, queue, writing, cursor, rows, written, mark, live, restarts,
                 at, read, connections, seen, from, held, replays, got>>

\* The next frame of the subscription.  A subscriber further behind than the
\* buffer has lost the oldest frames and is given the oldest one left.
NextFrame == IF Len(live[at]) - read > Buffer THEN Len(live[at]) - Buffer + 1 ELSE read + 1

\* handleFrame: hold the frame while a replay is in flight, or deliver it.
Receive ==
  /\ link = "open"
  /\ read < Len(live[at])
  /\ read' = NextFrame
  /\ LET frame == live[at][NextFrame] IN
     IF held # NotHolding
     THEN held' = Append(held, frame) /\ UNCHANGED <<seen, got>>
     ELSE Hand(<<frame>>) /\ UNCHANGED held
  /\ UNCHANGED <<channelVars, link, at, connections, from, replays>>

\* The body ends, and connectOnce waits for its own replay before it returns.
EndOfBody ==
  /\ link = "open"
  /\ connections < MaxConnections
  /\ \A p \in replays : p.conn # connections
  /\ link' = "connecting"
  /\ UNCHANGED <<channelVars, at, read, connections, seen, from, held, replays, got>>

\* `reader.read` rejects: connectOnce throws, with its replay still in flight.
Break ==
  /\ Abrupt
  /\ link = "open"
  /\ connections < MaxConnections
  /\ link' = "connecting"
  /\ UNCHANGED <<channelVars, at, read, connections, seen, from, held, replays, got>>

-----------------------------------------------------------------------------
(* One replay.  pageThrough reads page after page up to the mark the first   *)
(* page came with; a page that does not start right after the number asked   *)
(* from fails it.                                                            *)

Holed(p, page) == page # <<>> /\ Head(page) # p.after + 1
IsLast(p, page) == page = <<>> \/ Last(page) >= p.upto

\* Mutant: what was held goes out before what was replayed.
SettleHeldFirst(p, events) ==
  /\ replays' = replays \ {p}
  /\ Hand((IF held = NotHolding THEN <<>> ELSE held) \o events)
  /\ held' = NotHolding
  /\ UNCHANGED link

\* Mutant: what was held is forgotten.
SettleForgets(p, events) ==
  /\ replays' = replays \ {p}
  /\ Hand(events)
  /\ held' = NotHolding
  /\ UNCHANGED link

\* replayGap, when its replay succeeded: the replayed events, then what was held.
\* The hold is lifted, whichever connection put it there.
Settle(p, events) ==
  /\ replays' = replays \ {p}
  /\ Hand(events \o (IF held = NotHolding THEN <<>> ELSE held))
  /\ held' = NotHolding
  /\ UNCHANGED link

\* replayGap, when its replay failed: a stream given a cursor ends (`done`), the
\* other keeps running without the gap.
GiveUp(p) ==
  /\ replays' = replays \ {p}
  /\ held' = NotHolding
  /\ IF FromGiven
     THEN link' = "closed" /\ UNCHANGED <<seen, got>>
     ELSE Hand(IF held = NotHolding THEN <<>> ELSE held) /\ UNCHANGED link

\* `GET /events?after_seq=`: any replica reads replay p's next page, and the mark.
ReadPage(p) ==
  /\ p.page = Asked
  /\ replays' = (replays \ {p}) \union
       {[p EXCEPT !.page = After(p.after), !.upto = IF @ = None THEN cursor ELSE @]}
  /\ UNCHANGED <<channelVars, link, at, read, connections, seen, from, held, got>>

\* The page reaches the browser.
PageArrives(p) ==
  /\ p.page # Asked
  /\ CASE Holed(p, p.page) -> GiveUp(p)
       [] ~Holed(p, p.page) /\ IsLast(p, p.page) -> Settle(p, p.events \o p.page)
       [] OTHER ->
            /\ replays' = (replays \ {p}) \union
                 {[p EXCEPT !.after = Last(p.page), !.events = @ \o p.page, !.page = Asked]}
            /\ UNCHANGED <<link, seen, held, got>>
  /\ UNCHANGED <<channelVars, at, read, connections, from>>

\* The request for a page fails.
ReplayFails(p) ==
  /\ Fails
  /\ GiveUp(p)
  /\ UNCHANGED <<published, queue, writing, cursor, rows, written, mark, live, restarts,
                 at, read, connections, from>>

-----------------------------------------------------------------------------
\* A replica restarts; the connection it held breaks.
RestartUnder(r) ==
  /\ Restart(r)
  /\ IF link = "open" /\ at = r
     THEN /\ connections < MaxConnections
          /\ link' = "connecting"
     ELSE UNCHANGED link
  /\ UNCHANGED <<at, read, connections, seen, from, held, replays, got>>

ServerStep == \E r \in Replicas : Works(r) /\ UNCHANGED streamVars

Next ==
  \/ ServerStep
  \/ \E r \in Replicas : RestartUnder(r) \/ Connect(r)
  \/ ReadCursor \/ Refused \/ Receive \/ EndOfBody \/ Break
  \/ \E p \in replays : ReadPage(p) \/ PageArrives(p) \/ ReplayFails(p)

Spec == Init /\ [][Next]_vars

\* The writer and the poller loop until shutdown, the browser reconnects until it
\* is closed, reads what arrives, and every request for a page is answered.
Fairness ==
  /\ \A r \in Replicas : /\ WF_vars(TakeSeq(r) /\ UNCHANGED streamVars)
                         /\ WF_vars(InsertRow(r) /\ UNCHANGED streamVars)
                         /\ WF_vars(Align(r) /\ UNCHANGED streamVars)
                         /\ WF_vars(Deliver(r) /\ UNCHANGED streamVars)
  /\ WF_vars(ReadCursor)
  /\ WF_vars(\E r \in Replicas : Connect(r))
  /\ WF_vars(Receive)
  /\ WF_vars(\E p \in replays : ReadPage(p) \/ PageArrives(p))

FairSpec == Spec /\ Fairness

-----------------------------------------------------------------------------
(* What the consumer is promised. *)

\* Exactly once and in order: what the consumer is handed is strictly ascending,
\* across reconnects to other replicas, replays and held frames.
InOrderOnce == \A i, j \in DOMAIN got : i < j => got[i] < got[j]

Got(s) == \E i \in DOMAIN got : got[i] = s

\* Nothing is passed over: a stream still running has delivered every retained
\* event between its start and the last event it delivered, because the next
\* reconnect asks only for what comes after (FetchEventSource.ts, "a stream that
\* cannot lose an event").
NothingPassedOver ==
  (FromGiven /\ link \notin {"starting", "closed"}) =>
    \A s \in rows : (from < s /\ s <= seen) => Got(s)

\* A stream ends only when the session is over, a request failed, or the window was
\* pruned past it: a number that was taken and never written is harmless
\* (store.rs append).
GapsAreHarmless ==
  [][(link = "open" /\ link' = "closed" /\ UNCHANGED failures)
        => \E s \in DOMAIN written \ rows : s > seen]_vars

\* Once the consumer was told `done` nothing more is delivered
\* (FetchEventSource.ts, end).
DoneIsTheEnd == [][link = "closed" => UNCHANGED got]_vars

\* Every event written after the stream's start reaches the consumer, unless it
\* is pruned first or the stream ends (FetchEventSource.ts, replayGap).
ReachesTheConsumer ==
  \A s \in Numbers :
    (link # "starting" /\ s \in DOMAIN written /\ s > from)
       ~> (link = "closed" \/ Got(s) \/ s \notin rows)
=============================================================================
