-------------------------- MODULE SchedulerProofs --------------------------
(***************************************************************************)
(* Proofs about Scheduler, for any schedules, expressions, replicas,       *)
(* policies and bounds: its types; that forbid and replace leave no two    *)
(* runs of a schedule going unasked, whatever fails, as long as the judge  *)
(* was told of them; and that no instant is passed over silently, whatever *)
(* fails, as long as nobody changes a cadence and no backlog is longer     *)
(* than a tick walks.                                                      *)
(***************************************************************************)
EXTENDS Scheduler, FiniteSetTheorems, WellFoundedInduction, TLAPS

-----------------------------------------------------------------------------
(* The plan.                                                               *)

\* A set of naturals has a least element, and Least is it.
LEMMA LeastIs ==
  ASSUME NEW S \in SUBSET Nat, S # {}
  PROVE  Least(S) \in S /\ \A t \in S : Least(S) <= t
<1> DEFINE R == {p \in Nat \X Nat : p[1] < p[2]}
<1>1. IsWellFoundedOn(R, Nat)
  <2>1. R = OpToRel(<, Nat)
    BY Zenon DEF OpToRel
  <2> QED BY <2>1, NatLessThanWellFounded
<1>2. PICK m \in S : \A t \in S : <<t, m>> \notin R
  <2> HIDE DEF R
  <2> QED BY <1>1, WFMin
<1>3. ASSUME NEW t \in S PROVE m <= t
  <2>1. t \in Nat /\ m \in Nat /\ <<t, m>> \notin R
    BY <1>2
  <2>2. ~(t < m)
    BY <2>1
  <2> QED BY <2>1, <2>2
<1> QED BY <1>3 DEF Least

\* A bounded set of naturals has a greatest element, and Greatest is it.
LEMMA GreatestIs ==
  ASSUME NEW S \in SUBSET Nat, S # {}, NEW bound \in Nat, \A t \in S : t <= bound
  PROVE  Greatest(S) \in S /\ \A t \in S : t <= Greatest(S)
<1> DEFINE D == {bound - t : t \in S}
<1>1. \A t \in S : bound - t \in Nat
  OBVIOUS
<1>2. D \in SUBSET Nat /\ D # {}
  BY <1>1
<1>3. Least(D) \in D /\ \A e \in D : Least(D) <= e
  <2> HIDE DEF D
  <2> QED BY <1>2, LeastIs
<1>4. PICK m \in S : Least(D) = bound - m
  BY <1>3
<1>5. ASSUME NEW t \in S PROVE t <= m
  <2>1. bound - t \in D
    OBVIOUS
  <2>2. bound - m <= bound - t
    BY <1>3, <1>4, <2>1
  <2> QED BY <2>2
<1> QED BY <1>5 DEF Greatest

\* Division with remainder, by a period.
LEMMA Remainder ==
  ASSUME NEW d \in Nat \ {0}, NEW n \in Int
  PROVE  n % d \in 0..(d - 1) /\ \E q \in Int : n = d * q + (n % d)
<1>1. d \in Int /\ d > 0
  OBVIOUS
<1>2. n = d * (n \div d) + (n % d)
  BY SMTT(90), <1>1
<1>3. n \div d \in Int /\ n % d \in 0..(d - 1)
  BY <1>1
<1> QED BY <1>2, <1>3

LEMMA IsRemainder ==
  ASSUME NEW d \in Nat \ {0}, NEW q \in Int, NEW r \in 0..(d - 1)
  PROVE  (d * q + r) % d = r
OBVIOUS

\* Steps of a whole period: they add up, and a positive one is not shorter.
LEMMA WholeSteps ==
  ASSUME NEW d \in Nat \ {0}, NEW m \in Int, NEW n \in Int, m % d = 0
  PROVE  /\ (n + m) % d = n % d
         /\ n % d = 0 /\ n > 0 => n >= d
<1>1. PICK p \in Int : m = d * p
  <2>1. PICK p \in Int : m = d * p + 0
    BY Remainder
  <2> QED BY <2>1
<1>2. PICK q \in Int : n = d * q + (n % d)
  BY Remainder
<1>3. n % d \in 0..(d - 1)
  BY Remainder
<1>4. n + m = d * (p + q) + (n % d)
  <2> DEFINE r == n % d
  <2>1. n = d * q + r /\ r \in Int
    BY <1>2, <1>3
  <2> HIDE DEF r
  <2>2. n + m = d * (p + q) + r
    BY SMTT(90), <1>1, <2>1
  <2> QED BY <2>2 DEF r
<1>5. (n + m) % d = n % d
  BY <1>3, <1>4, IsRemainder, p + q \in Int
<1>6. n % d = 0 /\ n > 0 => n >= d
  <2> SUFFICES ASSUME n % d = 0, n > 0 PROVE n >= d
    OBVIOUS
  <2>1. n = d * q
    BY <1>2
  <2>2. q >= 1
    BY SMTT(90), <2>1
  <2> QED BY SMTT(90), <2>1, <2>2
<1> QED BY <1>5, <1>6

\* A cron fires within a period of any minute.
LEMMA CronFires ==
  ASSUME NEW e \in Expressions, e.kind = "cron", NEW after \in Nat
  PROVE  \E t \in (after + 1)..(after + e.every) : OnGrid(e, t)
<1> DEFINE d == e.every
<1>1. d \in Nat \ {0}
  BY DEF Expressions
<1>2. PICK a \in Nat : a \in e.at /\ a < d
  BY DEF Expressions
<1> HIDE DEF d
<1> DEFINE k == (a - (after + 1)) % d
           t == after + 1 + k
<1>3. k \in 0..(d - 1)
  BY <1>1, Remainder
<1>4. PICK q \in Int : a - (after + 1) = d * q + k
  <2>1. a - (after + 1) \in Int
    OBVIOUS
  <2> QED BY <1>1, <2>1, Remainder
<1> HIDE DEF k
<1>5. t = d * (0 - q) + a
  BY <1>1, <1>3, <1>4
<1>6. t % d = a
  BY <1>1, <1>2, <1>5, IsRemainder, 0 - q \in Int, a \in 0..(d - 1)
<1>7. t \in (after + 1)..(after + d)
  BY <1>1, <1>3
<1> QED BY <1>2, <1>6, <1>7 DEF OnGrid, d

\* Where a schedule goes next: for a cron the first instant after, for an
\* interval one period after what it is measured from.
LEMMA NextIs ==
  ASSUME NEW e \in Expressions, NEW after \in Nat, NEW last \in Nat \cup {NoInstant}
  PROVE  LET next == NextAfter(e, after, last)
         IN  /\ next \in Nat
             /\ e.kind = "cron" =>
                  /\ next > after /\ OnGrid(e, next)
                  /\ \A t \in Nat : after < t /\ t < next => ~OnGrid(e, t)
             /\ e.kind # "cron" /\ last \in Nat => next = last + e.every
             /\ e.kind # "cron" /\ last \notin Nat => next = after + e.every
<1> DEFINE S == {t \in (after + 1)..(after + e.every) : OnGrid(e, t)}
<1>1. e.every \in Nat \ {0}
  BY DEF Expressions
<1>2. CASE e.kind = "cron"
  <2>1. S \in SUBSET Nat /\ S # {}
    BY SMTT(90), <1>1, <1>2, CronFires
  <2>2. Least(S) \in S /\ \A t \in S : Least(S) <= t
    <3> HIDE DEF S
    <3> QED BY <2>1, LeastIs
  <2>3. NextAfter(e, after, last) = Least(S)
    BY <1>2 DEF NextAfter
  <2>4. Least(S) \in Nat /\ Least(S) > after /\ Least(S) <= after + e.every
        /\ OnGrid(e, Least(S))
    BY <1>1, <2>2
  <2>5. ASSUME NEW t \in Nat, after < t, t < Least(S), OnGrid(e, t) PROVE FALSE
    <3>1. t \in S
      BY <1>1, <2>4, <2>5
    <3> QED BY <2>2, <2>4, <2>5, <3>1
  <2> HIDE DEF S
  <2> QED BY <1>2, <2>3, <2>4, <2>5
<1>3. CASE e.kind # "cron"
  BY <1>1, <1>3, WalkAssumption DEF NextAfter
<1> QED BY <1>2, <1>3

\* The instants that are pending: naturals between the one that was due and now.
LEMMA PendingIs ==
  ASSUME NEW e \in Expressions, NEW due \in Nat, NEW at \in Nat
  PROVE  /\ due \in Pending(e, due, at)
         /\ \A t \in Pending(e, due, at) : t \in Nat /\ due <= t /\ (t <= at \/ t = due)
         /\ IsFiniteSet(Pending(e, due, at))
<1>1. /\ due \in Pending(e, due, at)
      /\ \A t \in Pending(e, due, at) : t \in Nat /\ due <= t /\ (t <= at \/ t = due)
  BY DEF Pending
<1>2. \A t \in Pending(e, due, at) : t <= due + at
  BY <1>1
<1>3. Pending(e, due, at) \in SUBSET Nat
  BY <1>1
<1> QED BY <1>1, <1>2, <1>3, FS_BoundedSetOfNaturals, due + at \in Nat

\* The walk always looks at the instant that was due.
LEMMA MissedIs ==
  ASSUME NEW e \in Expressions, NEW due \in Nat, NEW at \in Nat
  PROVE  due \in Missed(e, due, at) /\ Missed(e, due, at) \subseteq Pending(e, due, at)
<1>1. {u \in Pending(e, due, at) : u < due} = {}
  BY PendingIs
<1>2. Cardinality({u \in Pending(e, due, at) : u < due}) = 0
  BY <1>1, FS_EmptySet
<1> QED BY <1>2, PendingIs, WalkAssumption DEF Missed, Oldest

\* A walk that is long enough looks at every instant.
LEMMA MissedIsPending ==
  ASSUME NEW e \in Expressions, NEW due \in Nat, NEW at \in Nat,
         Cardinality(Pending(e, due, at)) <= MaxWalk
  PROVE  Missed(e, due, at) = Pending(e, due, at)
<1> DEFINE P == Pending(e, due, at)
<1> SUFFICES ASSUME NEW t \in P PROVE Cardinality({u \in P : u < t}) < MaxWalk
  BY DEF Missed, Oldest
<1>1. IsFiniteSet(P) /\ t \in Nat
  BY PendingIs
<1>2. Cardinality(P) <= MaxWalk
  OBVIOUS
<1> HIDE DEF P
<1>3. Cardinality(P) \in Nat /\ IsFiniteSet(P \ {t}) /\ Cardinality(P \ {t}) = Cardinality(P) - 1
  BY <1>1, FS_CardinalityType, FS_RemoveElement
<1>4. {u \in P : u < t} \subseteq P \ {t}
  BY <1>1
<1>5. Cardinality({u \in P : u < t}) <= Cardinality(P \ {t})
  BY <1>3, <1>4, FS_Subset
<1>6. Cardinality({u \in P : u < t}) \in Nat
  BY <1>3, <1>4, FS_Subset, FS_CardinalityType
<1> QED BY <1>2, <1>3, <1>5, <1>6, WalkAssumption

\* What is fired was missed.
LEMMA FiresAre ==
  ASSUME NEW missed \in SUBSET Nat, NEW policy
  PROVE  Fires(missed, policy) \subseteq missed
BY DEF Fires, Newest

-----------------------------------------------------------------------------
(* Types.                                                                  *)

RunIds  == Schedules \X ({"at", "manual"} \X Nat)
RunOf   == DOMAIN runs \cup {NoRun}
Row     == [expr : Expressions, enabled : BOOLEAN, next : Nat,
            lastFired : Nat \cup {NoInstant}, lastRun : RunIds \cup {NoRun}]
Item    == [s : Schedules, row : Row]
Tickers == [pc : Pc, now : Nat, todo : Seq(Item), fire : SUBSET Nat, next : Nat,
            passed : SUBSET Nat, made : RunIds \cup {NoRun}]
Patches == [change : Changes, row : Row, at : Nat]

RowTypes ==
  /\ rows \in [Schedules -> Row \cup {NoRow}]
  /\ \A s \in Schedules : IsRow(s) =>
       rows[s].lastRun \in RunOf /\ rows[s].lastFired \in 0..now \cup {NoInstant}
  /\ patching \in [Schedules -> Patches \cup {Nobody}]
  /\ created \in [Schedules -> Nat \cup {NoInstant}]
RunTypes ==
  /\ runs = [r \in DOMAIN runs |-> runs[r]]
  /\ \A r \in DOMAIN runs : runs[r] \in {"live", "ended"} /\ r \in RunIds
  /\ stopping \subseteq DOMAIN runs
  /\ fired \subseteq Schedules \X Nat \X RunIds
TickTypes ==
  /\ holder \in Replicas \cup {Nobody}
  /\ firer \in [Replicas -> Tickers]
  /\ \A p \in Replicas :
       /\ firer[p].now <= now
       /\ firer[p].made \in RunOf
       /\ firer[p].pc = "idle" => firer[p] = AtRest
       /\ firer[p].pc # "idle" => firer[p].todo # <<>>
       /\ firer[p].pc \in {"replace", "enqueue"} => firer[p].fire # {}
Types == /\ now \in 0..MaxTime /\ faults \in 0..MaxFaults
         /\ RowTypes /\ RunTypes /\ TickTypes

LEMMA TypesSuffice == Types => TypeOK
BY DEF Types, RowTypes, RunTypes, TickTypes, TypeOK, RunOf, IsRow, Row, Tickers, RunIds

LEMMA InitTypes == Init => Types
<1> SUFFICES ASSUME Init PROVE Types
  OBVIOUS
<1>1. AtRest \in Tickers /\ AtRest.pc = "idle" /\ AtRest.now = 0 /\ AtRest.made = NoRun
      /\ AtRest.fire = {}
  BY DEF AtRest, Tickers, Pc
<1>2. DOMAIN runs = {} /\ runs = [r \in DOMAIN runs |-> runs[r]]
  BY DEF Init
<1>3. RowTypes
  BY DEF Init, RowTypes, IsRow
<1>4. RunTypes
  BY <1>2 DEF Init, RunTypes
<1>5. TickTypes
  BY <1>1 DEF Init, TickTypes, RunOf
<1> QED BY <1>3, <1>4, <1>5, SchedulerAssumption DEF Init, Types

\* A tick that turns to a row plans its firings.
LEMMA BeginIs ==
  ASSUME NEW todo \in Seq(Item), NEW at \in Nat
  PROVE  /\ Begin(todo, at) \in Tickers
         /\ Begin(todo, at).made = NoRun
         /\ Begin(todo, at).now <= at
         /\ todo = <<>> => Begin(todo, at) = AtRest
         /\ todo # <<>> =>
              LET row    == Head(todo).row
                  missed == Missed(row.expr, row.next, at)
              IN /\ Begin(todo, at).pc = "judge"
                 /\ Begin(todo, at).todo = todo
                 /\ Begin(todo, at).now = at
                 /\ Begin(todo, at).fire = Fires(missed, MissedPolicy[Head(todo).s])
                 /\ Begin(todo, at).passed = missed \ Begin(todo, at).fire
                 /\ Begin(todo, at).next = NextAfter(row.expr, at, Greatest(missed))
                 /\ missed \subseteq Pending(row.expr, row.next, at)
                 /\ row.next \in missed
                 /\ Greatest(missed) \in missed /\ \A t \in missed : t <= Greatest(missed)
<1>1. CASE todo = <<>>
  BY SMTT(90), <1>1 DEF Begin, AtRest, Tickers, Pc
<1>2. CASE todo # <<>>
  <2> DEFINE s      == Head(todo).s
             row    == Head(todo).row
             missed == Missed(row.expr, row.next, at)
             fire   == Fires(missed, MissedPolicy[s])
             next   == NextAfter(row.expr, at, Greatest(missed))
  <2>1. Head(todo) \in Item
    BY <1>2
  <2>2. s \in Schedules /\ row.expr \in Expressions /\ row.next \in Nat
    BY <2>1 DEF Item, Row
  <2>3. row.next \in missed /\ missed \subseteq Pending(row.expr, row.next, at)
    BY <2>2, MissedIs
  <2>4. /\ missed \in SUBSET Nat /\ IsFiniteSet(missed)
        /\ \A t \in missed : t <= row.next + at
    <3>1. \A t \in missed : t \in Nat /\ (t <= at \/ t = row.next)
      BY <2>2, <2>3, PendingIs
    <3>2. IsFiniteSet(missed)
      BY <2>2, <2>3, PendingIs, FS_Subset
    <3> QED BY <2>2, <3>1, <3>2
  <2> HIDE DEF missed
  <2>5. Greatest(missed) \in missed /\ \A t \in missed : t <= Greatest(missed)
    BY <2>2, <2>3, <2>4, GreatestIs, row.next + at \in Nat
  <2>6. next \in Nat
    BY <2>2, <2>4, <2>5, NextIs
  <2>7. fire \subseteq missed
    BY <2>4, FiresAre
  <2>8. Begin(todo, at) = [pc |-> "judge", now |-> at, todo |-> todo, fire |-> fire,
                           next |-> next, passed |-> missed \ fire, made |-> NoRun]
    BY <1>2 DEF Begin, AtRest, Plan, missed
  <2> HIDE DEF fire, next
  <2>9. Begin(todo, at) \in Tickers
    BY <2>4, <2>6, <2>7, <2>8 DEF Tickers, Pc
  <2> QED BY <1>2, <2>3, <2>5, <2>8, <2>9 DEF missed, fire, next
<1> QED BY <1>1, <1>2

\* What a tick has at hand.
LEMMA AtHand ==
  ASSUME Types, NEW p \in Replicas, firer[p].pc # "idle"
  PROVE  /\ firer[p] \in Tickers
         /\ Head(firer[p].todo) \in Item /\ Tail(firer[p].todo) \in Seq(Item)
         /\ Sched(p) \in Schedules /\ Snap(p) \in Row
         /\ firer[p].fire # {} =>
              Instant(p) \in firer[p].fire /\ \A t \in firer[p].fire : Instant(p) <= t
         /\ firer[p].fire \subseteq Nat /\ firer[p].now \in Nat
<1>1. firer[p] \in Tickers /\ firer[p].todo # <<>>
  BY DEF Types, TickTypes
<1>2. firer[p].todo \in Seq(Item) /\ firer[p].fire \in SUBSET Nat /\ firer[p].now \in Nat
  BY <1>1 DEF Tickers
<1>3. Head(firer[p].todo) \in Item /\ Tail(firer[p].todo) \in Seq(Item)
  BY <1>1, <1>2
<1>4. firer[p].fire # {} =>
        Instant(p) \in firer[p].fire /\ \A t \in firer[p].fire : Instant(p) <= t
  BY <1>2, LeastIs DEF Instant
<1> QED BY <1>1, <1>2, <1>3, <1>4 DEF Sched, Snap, Item

\* A step of people or of the runs: what ticks is left alone, and no run is lost.
LEMMA PeopleTypes ==
  ASSUME Types,
         \/ \E s \in Schedules : People(s)
         \/ \E r \in DOMAIN runs : RunEnds(r)
         \/ Clock
  PROVE  Types'
<1>1. now \in Nat /\ now' \in 0..MaxTime /\ now <= now' /\ faults' \in 0..MaxFaults
      /\ UNCHANGED <<tickVars, stopping, fired, passed>>
  <2> now \in 0..MaxTime /\ faults \in 0..MaxFaults /\ MaxTime \in Nat
    BY SchedulerAssumption DEF Types
  <2>1. CASE Clock
    BY <2>1 DEF Clock, runVars, historyVars
  <2>2. ASSUME NEW s \in Schedules, Create(s) \/ Delete(s)
        PROVE  UNCHANGED <<now, faults, tickVars, stopping, fired, passed>>
    BY <2>2 DEF Create, Delete, runVars, historyVars
  <2>3. ASSUME NEW s \in Schedules, NEW change \in Changes, PatchRead(s, change)
        PROVE  UNCHANGED <<now, faults, tickVars, stopping, fired, passed>>
    BY <2>3 DEF PatchRead, runVars, historyVars
  <2>4. ASSUME NEW s \in Schedules, PatchWrite(s)
        PROVE  UNCHANGED <<now, faults, tickVars, stopping, fired, passed>>
    BY <2>4 DEF PatchWrite, runVars, historyVars
  <2>5. ASSUME NEW s \in Schedules, RunNow(s)
        PROVE  UNCHANGED <<now, faults, tickVars, stopping, fired, passed>>
    BY <2>5 DEF RunNow
  <2>6. ASSUME NEW r \in DOMAIN runs, RunEnds(r)
        PROVE  UNCHANGED <<now, faults, tickVars, stopping, fired, passed>>
    BY SMTT(90), <2>6 DEF RunEnds, historyVars
  <2> QED BY <2>1, <2>2, <2>3, <2>4, <2>5, <2>6 DEF People
<1>2. RunTypes' /\ DOMAIN runs \subseteq DOMAIN runs'
  <2>1. CASE UNCHANGED runs
    BY <1>1, <2>1 DEF Types, RunTypes
  <2>2. ASSUME NEW s \in Schedules, RunNow(s) PROVE RunTypes' /\ DOMAIN runs \subseteq DOMAIN runs'
    <3>1. RunId(s, ManualKey) \in RunIds
      BY <1>1 DEF RunIds, RunId, ManualKey
    <3> QED BY <1>1, <2>2, <3>1 DEF RunNow, WithRun, Types, RunTypes
  <2>3. ASSUME NEW r \in DOMAIN runs, RunEnds(r) PROVE RunTypes' /\ DOMAIN runs \subseteq DOMAIN runs'
    BY <1>1, <2>3 DEF RunEnds, Types, RunTypes
  <2> QED BY ZenonT(90), <2>1, <2>2, <2>3 DEF People, Create, Delete, PatchRead, PatchWrite, Clock, runVars
<1>3. TickTypes'
  BY <1>1, <1>2 DEF Types, TickTypes, tickVars, RunOf, Tickers
<1>4. RowTypes'
  <2>1. RunOf \subseteq RunOf'
    BY <1>2 DEF RunOf
  <2>2. CASE UNCHANGED <<rows, patching, created>>
    BY <1>1, <2>1, <2>2 DEF Types, RowTypes, IsRow
  <2>3. ASSUME NEW s \in Schedules, Create(s) PROVE RowTypes'
    <3> DEFINE next == NextAfter(Expression[s], now, NoInstant)
               row  == [expr |-> Expression[s], enabled |-> TRUE, next |-> next,
                        lastFired |-> NoInstant, lastRun |-> NoRun]
    <3>1. next \in Nat
      BY <1>1, ExpressionAssumption, NextIs
    <3> HIDE DEF next
    <3>2. row \in Row /\ row.lastRun = NoRun /\ row.lastFired = NoInstant
      BY <3>1, ExpressionAssumption DEF Row
    <3>3. rows' = [rows EXCEPT ![s] = row] /\ created' = [created EXCEPT ![s] = now]
          /\ UNCHANGED patching
      BY <2>3 DEF Create, next
    <3> HIDE DEF row
    <3> QED BY <1>1, <2>1, <3>2, <3>3 DEF Types, RowTypes, IsRow, RunOf
  <2>4. ASSUME NEW s \in Schedules, Delete(s) PROVE RowTypes'
    BY <1>1, <2>1, <2>4 DEF Delete, Types, RowTypes, IsRow
  <2>5. ASSUME NEW s \in Schedules, NEW change \in Changes, PatchRead(s, change) PROVE RowTypes'
    <3>1. [change |-> change, row |-> rows[s], at |-> now] \in Patches
      BY <1>1, <2>5 DEF PatchRead, Types, RowTypes, IsRow, Patches
    <3> QED BY <1>1, <2>1, <2>5, <3>1 DEF PatchRead, Types, RowTypes, IsRow
  <2>6. ASSUME NEW s \in Schedules, PatchWrite(s) PROVE RowTypes'
    <3> DEFINE patch  == patching[s]
               change == patch.change
               expr   == IF change.expr = Keep THEN patch.row.expr ELSE change.expr
               next   == IF change.expr = Keep THEN patch.row.next
                         ELSE NextAfter(expr, patch.at, patch.row.lastFired)
    <3>1. patch \in Patches
      BY <2>6 DEF PatchWrite, Types, RowTypes
    <3>2. /\ patch.at \in Nat /\ change \in Changes
          /\ patch.row.expr \in Expressions /\ patch.row.next \in Nat
          /\ patch.row.lastFired \in Nat \cup {NoInstant}
      BY <3>1 DEF Patches, Row
    <3>3. expr \in Expressions
      BY <3>2, ExpressionAssumption
    <3> HIDE DEF expr
    <3>4. next \in Nat
      BY <3>2, <3>3, NextIs
    <3>5. rows' = IF IsRow(s)
                  THEN [rows EXCEPT ![s].expr = expr, ![s].next = next,
                          ![s].enabled = IF change.enabled = Keep THEN @ ELSE change.enabled]
                  ELSE rows
      BY <2>6, Zenon DEF PatchWrite, expr
    <3>6. patching' = [patching EXCEPT ![s] = Nobody] /\ UNCHANGED created
      BY <2>6 DEF PatchWrite
    <3> HIDE DEF next
    <3>7. CASE UNCHANGED rows
      BY <1>1, <2>1, <3>6, <3>7 DEF Types, RowTypes, IsRow
    <3>8. ASSUME IsRow(s), NEW b, b = (IF change.enabled = Keep THEN rows[s].enabled ELSE change.enabled),
                 rows' = [rows EXCEPT ![s] = [rows[s] EXCEPT !.expr = expr, !.next = next,
                                                             !.enabled = b]]
          PROVE  RowTypes'
      <4>1. rows[s] \in Row
        BY <3>8 DEF Types, RowTypes, IsRow
      <4>2. b \in BOOLEAN
        BY <3>2, <3>8, <4>1, ExpressionAssumption DEF Row
      <4> DEFINE row == [rows[s] EXCEPT !.expr = expr, !.next = next, !.enabled = b]
      <4>3. row \in Row /\ row.lastRun = rows[s].lastRun /\ row.lastFired = rows[s].lastFired
        BY <3>3, <3>4, <4>1, <4>2 DEF Row
      <4> HIDE DEF row
      <4>4. rows' = [rows EXCEPT ![s] = row]
        BY <3>8 DEF row
      <4> QED BY <1>1, <2>1, <3>6, <3>8, <4>3, <4>4 DEF Types, RowTypes, IsRow
    <3>9. IsRow(s) /\ ~UNCHANGED rows =>
            rows' = [rows EXCEPT ![s] = [rows[s] EXCEPT !.expr = expr, !.next = next,
               !.enabled = IF change.enabled = Keep THEN rows[s].enabled ELSE change.enabled]]
      BY <3>5
    <3> QED BY <3>5, <3>7, <3>8, <3>9
  <2> QED BY <2>2, <2>3, <2>4, <2>5, <2>6
          DEF People, RunNow, RunEnds, Clock, scheduleVars
<1> QED BY <1>1, <1>2, <1>3, <1>4 DEF Types

\* A tick turns to the next row, or is over.
LEMMA DoneIs ==
  ASSUME Types, NEW p \in Replicas, firer[p].pc # "idle", Done(p)
  PROVE  /\ firer' = [firer EXCEPT ![p] = Begin(Tail(firer[p].todo), firer[p].now)]
         /\ Begin(Tail(firer[p].todo), firer[p].now) \in Tickers
         /\ LET next == Begin(Tail(firer[p].todo), firer[p].now)
            IN /\ next.made = NoRun /\ next.now <= firer[p].now
               /\ next.pc = "idle" => next = AtRest
               /\ next.pc # "idle" => next.todo # <<>>
               /\ next.pc \in {"idle", "judge"}
         /\ holder' \in {holder, Nobody}
<1> DEFINE rest == Tail(firer[p].todo)
           at   == firer[p].now
           next == Begin(rest, at)
<1>1. rest \in Seq(Item) /\ at \in Nat
  BY AtHand
<1> HIDE DEF rest, at
<1>2. next \in Tickers /\ next.made = NoRun /\ next.now <= at
  BY <1>1, BeginIs
<1>3. (rest = <<>> => next = AtRest) /\ (rest # <<>> => next.pc = "judge" /\ next.todo = rest)
  BY <1>1, BeginIs
<1>4. AtRest.pc = "idle"
  BY DEF AtRest
<1>5. firer' = [firer EXCEPT ![p] = next] /\ holder' \in {holder, Nobody}
  BY DEF Done, rest, at
<1> QED BY <1>2, <1>3, <1>4, <1>5 DEF rest, at

\* What one step of a tick leaves of it.
LEMMA TickerKeeps ==
  ASSUME Types, NEW p \in Replicas, NEW next \in Tickers,
         firer' = [firer EXCEPT ![p] = next],
         holder' \in Replicas \cup {Nobody}, now' = now,
         DOMAIN runs \subseteq DOMAIN runs',
         next.now <= now, next.made \in RunOf',
         next.pc = "idle" => next = AtRest,
         next.pc # "idle" => next.todo # <<>>,
         next.pc \in {"replace", "enqueue"} => next.fire # {}
  PROVE  TickTypes'
BY DEF Types, TickTypes, RunOf

\* The due rows, in the order they were read.
LEMMA DueListIs ==
  ASSUME Types, NEW q \in DueLists
  PROVE  /\ Len(q) \in Nat \ {0}
         /\ \A i \in 1..Len(q) : q[i] \in Due
         /\ \A i, j \in 1..Len(q) : q[i] = q[j] => i = j
         /\ [i \in 1..Len(q) |-> [s |-> q[i], row |-> rows[q[i]]]] \in Seq(Item)
         /\ [i \in 1..Len(q) |-> [s |-> q[i], row |-> rows[q[i]]]] # <<>>
<1>1. PICK n \in 1..Cardinality(Due) : q \in [1..n -> Due]
  BY DEF DueLists
<1>2. n \in Nat \ {0}
  OBVIOUS
<1>3. Len(q) = n
  BY <1>1, <1>2
<1>4. \A i, j \in 1..Len(q) : i < j => q[i] # q[j]
  BY DEF DueLists
<1>5. \A i, j \in 1..n : q[i] = q[j] => i = j
  <2> SUFFICES ASSUME NEW i \in 1..n, NEW j \in 1..n, i < j PROVE q[i] # q[j]
    BY <1>2
  <2> QED BY <1>3, <1>4
<1>6. \A i \in 1..n : q[i] \in Due /\ [s |-> q[i], row |-> rows[q[i]]] \in Item
  BY <1>1 DEF Due, Item, IsRow, Types, RowTypes
<1> DEFINE todo == [i \in 1..n |-> [s |-> q[i], row |-> rows[q[i]]]]
<1>7. todo \in Seq(Item) /\ Len(todo) = n
  BY <1>2, <1>6
<1>8. todo # <<>>
  <2> HIDE DEF todo
  <2> QED BY <1>2, <1>7
<1> QED BY <1>2, <1>3, <1>5, <1>6, <1>7, <1>8

\* A step of a tick that only moves on.
LEMMA MovesTypes ==
  ASSUME Types, NEW p \in Replicas, Tick(p) \/ Judge(p) \/ Replace(p) \/ Abandon(p) \/ Crash(p)
  PROVE  Types'
<1>1. /\ UNCHANGED <<now, rows, patching, created, runs, fired>> /\ faults' \in 0..MaxFaults
      /\ stopping' \subseteq DOMAIN runs
  <2> faults \in 0..MaxFaults /\ MaxFaults \in Nat /\ stopping \subseteq DOMAIN runs
    BY SchedulerAssumption DEF Types, RunTypes
  <2>1. CASE Tick(p)
    BY <2>1 DEF Tick, scheduleVars, runVars, historyVars
  <2>2. CASE Judge(p)
    BY <2>2 DEF Judge, scheduleVars, runVars, historyVars
  <2>3. CASE Replace(p)
    <3>1. /\ UNCHANGED <<now, rows, patching, created, runs, fired>>
          /\ UNCHANGED faults \/ Fault
          /\ \/ UNCHANGED stopping
             \/ stopping' = IF Live(Snap(p).lastRun) THEN stopping \cup {Snap(p).lastRun}
                            ELSE stopping
      BY <2>3 DEF Replace, scheduleVars
    <3> QED BY <3>1 DEF Fault, Live
  <2>4. CASE Abandon(p) \/ Crash(p)
    BY <2>4 DEF Abandon, Crash, Fault, scheduleVars, runVars, historyVars
  <2> QED BY <2>1, <2>2, <2>3, <2>4
<1>2. RowTypes' /\ RunTypes'
  BY <1>1 DEF Types, RowTypes, RunTypes, RunOf, IsRow
<1>3. TickTypes'
  <2>1. CASE Tick(p)
    <3>1. PICK q \in DueLists :
            firer' = [firer EXCEPT ![p] =
                        Begin([i \in 1..Len(q) |-> [s |-> q[i], row |-> rows[q[i]]]], now)]
      BY <2>1 DEF Tick
    <3> DEFINE todo == [i \in 1..Len(q) |-> [s |-> q[i], row |-> rows[q[i]]]]
               next == Begin(todo, now)
    <3>2. todo \in Seq(Item) /\ todo # <<>>
      BY DueListIs
    <3> HIDE DEF todo
    <3>3. now \in Nat
      BY SchedulerAssumption DEF Types
    <3>4. next \in Tickers /\ next.made = NoRun /\ next.now = now /\ next.pc = "judge"
          /\ next.todo = todo
      BY <3>2, <3>3, BeginIs
    <3> HIDE DEF next
    <3>5. firer' = [firer EXCEPT ![p] = next] /\ holder' = p
      BY <2>1, <3>1 DEF Tick, todo, next
    <3>6. next.made \in RunOf' /\ next.now <= now
      BY <3>3, <3>4 DEF RunOf
    <3> QED BY <1>1, <3>2, <3>4, <3>5, <3>6, TickerKeeps
  <2>2. ASSUME NEW pc \in {"judge", "replace", "enqueue", "advance"},
               NEW fire \in SUBSET Nat, NEW passed1 \in SUBSET Nat,
               pc \in {"replace", "enqueue"} => fire # {}, firer[p].pc # "idle",
               firer' = [firer EXCEPT ![p] = [firer[p] EXCEPT !.pc = pc, !.fire = fire,
                                                              !.passed = passed1]],
               UNCHANGED holder
        PROVE  TickTypes'
    <3> DEFINE next == [firer[p] EXCEPT !.pc = pc, !.fire = fire, !.passed = passed1]
    <3>1. firer[p] \in Tickers /\ firer[p].todo # <<>> /\ firer[p].made \in RunOf
          /\ firer[p].now <= now
      BY <2>2 DEF Types, TickTypes
    <3>2. /\ next \in Tickers /\ next.pc = pc /\ next.fire = fire
          /\ next.now = firer[p].now /\ next.made = firer[p].made /\ next.todo = firer[p].todo
      BY <3>1 DEF Tickers, Pc
    <3> HIDE DEF next
    <3>3. firer' = [firer EXCEPT ![p] = next] /\ holder' \in Replicas \cup {Nobody}
      BY <2>2 DEF next, Types, TickTypes
    <3> QED BY ZenonT(90), <1>1, <2>2, <3>1, <3>2, <3>3, TickerKeeps DEF RunOf
  <2>3. CASE Judge(p)
    <3>1. firer[p] \in Tickers /\ firer[p].pc = "judge"
      BY <2>3 DEF Judge, Types, TickTypes
    <3>2. firer[p].fire \in SUBSET Nat /\ firer[p].passed \in SUBSET Nat
          /\ (firer[p].fire # {} => Instant(p) \in Nat)
      BY SMTT(90), <3>1, AtHand DEF Tickers
    <3>3. \E pc \in {"judge", "replace", "enqueue", "advance"}, fire \in SUBSET Nat,
             passed1 \in SUBSET Nat :
               /\ pc \in {"replace", "enqueue"} => fire # {}
               /\ firer' = [firer EXCEPT ![p] = [firer[p] EXCEPT !.pc = pc, !.fire = fire,
                                                              !.passed = passed1]]
      <4>1. CASE \E pc \in {"replace", "enqueue", "advance"} :
                   /\ pc \in {"replace", "enqueue"} => firer[p].fire # {}
                   /\ firer' = [firer EXCEPT ![p].pc = pc]
        <5>1. PICK pc \in {"replace", "enqueue", "advance"} :
                   /\ pc \in {"replace", "enqueue"} => firer[p].fire # {}
                   /\ firer' = [firer EXCEPT ![p].pc = pc]
          BY <4>1
        <5>2. [firer[p] EXCEPT !.pc = pc] =
                [firer[p] EXCEPT !.pc = pc, !.fire = firer[p].fire, !.passed = firer[p].passed]
          BY <3>1 DEF Tickers
        <5> QED BY <3>2, <5>1, <5>2
      <4>2. CASE /\ firer[p].fire # {}
                 /\ firer' = [firer EXCEPT ![p].fire = @ \ {Instant(p)},
                                           ![p].passed = @ \cup {Instant(p)}]
        <5> DEFINE fire == firer[p].fire \ {Instant(p)}
                   passed1 == firer[p].passed \cup {Instant(p)}
        <5>1. fire \in SUBSET Nat /\ passed1 \in SUBSET Nat
          BY <3>2, <4>2
        <5>2. firer' = [firer EXCEPT ![p] = [firer[p] EXCEPT !.fire = fire, !.passed = passed1]]
          BY <4>2, <3>1 DEF Types, TickTypes
        <5> HIDE DEF fire, passed1
        <5>3. [firer[p] EXCEPT !.fire = fire, !.passed = passed1] =
                [firer[p] EXCEPT !.pc = "judge", !.fire = fire, !.passed = passed1]
          BY <3>1 DEF Tickers
        <5> QED BY <5>1, <5>2, <5>3
      <4> QED BY ZenonT(90), <2>3, <4>1, <4>2 DEF Judge
    <3> QED BY <2>2, <2>3, <3>1, <3>3 DEF Judge
  <2>4. CASE Replace(p)
    <3>1. firer[p] \in Tickers /\ firer[p].pc = "replace" /\ firer[p].fire # {}
          /\ firer' = [firer EXCEPT ![p].pc = "enqueue"] /\ UNCHANGED holder
      BY <2>4 DEF Replace, Types, TickTypes
    <3>2. [firer[p] EXCEPT !.pc = "enqueue"] =
            [firer[p] EXCEPT !.pc = "enqueue", !.fire = firer[p].fire, !.passed = firer[p].passed]
      BY <3>1 DEF Tickers
    <3>3. firer[p].fire \in SUBSET Nat /\ firer[p].passed \in SUBSET Nat
      BY <3>1 DEF Tickers
    <3>4. firer' = [firer EXCEPT ![p] = [firer[p] EXCEPT !.pc = "enqueue",
                      !.fire = firer[p].fire, !.passed = firer[p].passed]]
      BY <3>1, <3>2
    <3> QED BY ZenonT(90), <2>2, <3>1, <3>3, <3>4
  <2>5. CASE Abandon(p)
    <3>1. firer[p].pc # "idle" /\ Done(p)
      BY <2>5 DEF Abandon
    <3>2. firer[p].now <= now /\ firer[p].now \in Nat /\ now \in Nat /\ holder \in Replicas \cup {Nobody}
      BY <3>1, AtHand, SchedulerAssumption DEF Types, TickTypes
    <3> DEFINE next == Begin(Tail(firer[p].todo), firer[p].now)
    <3>3. /\ firer' = [firer EXCEPT ![p] = next] /\ next \in Tickers
          /\ next.made = NoRun /\ next.now <= firer[p].now
          /\ next.pc = "idle" => next = AtRest
          /\ next.pc # "idle" => next.todo # <<>>
          /\ next.pc \in {"idle", "judge"}
          /\ holder' \in {holder, Nobody}
      BY <3>1, DoneIs
    <3> HIDE DEF next
    <3>4. next.now \in Nat
      BY <3>3 DEF Tickers
    <3>5. next.made \in RunOf' /\ next.now <= now
      BY <3>2, <3>3, <3>4 DEF RunOf
    <3> QED BY <1>1, <3>2, <3>3, <3>5, TickerKeeps
  <2>6. CASE Crash(p)
    <3>1. /\ AtRest \in Tickers /\ AtRest.pc = "idle" /\ AtRest.now = 0 /\ AtRest.made = NoRun
          /\ now \in Nat
      BY SchedulerAssumption DEF AtRest, Tickers, Pc, Types
    <3>2. firer' = [firer EXCEPT ![p] = AtRest] /\ holder' \in Replicas \cup {Nobody}
      BY <2>6 DEF Crash, Types, TickTypes
    <3>3. AtRest.made \in RunOf' /\ AtRest.now <= now
      BY <3>1 DEF RunOf
    <3> QED BY <1>1, <3>1, <3>2, <3>3, TickerKeeps
  <2> QED BY <2>1, <2>3, <2>4, <2>5, <2>6
<1> QED BY <1>1, <1>2, <1>3 DEF Types

\* A step that ends a tick's work on a row.
LEMMA DoneTypes ==
  ASSUME Types, NEW p \in Replicas, firer[p].pc # "idle", Done(p), now' = now,
         DOMAIN runs \subseteq DOMAIN runs'
  PROVE  TickTypes'
<1>1. firer[p].now <= now /\ firer[p].now \in Nat /\ now \in Nat /\ holder \in Replicas \cup {Nobody}
  BY AtHand, SchedulerAssumption DEF Types, TickTypes
<1> DEFINE next == Begin(Tail(firer[p].todo), firer[p].now)
<1>2. /\ firer' = [firer EXCEPT ![p] = next] /\ next \in Tickers
      /\ next.made = NoRun /\ next.now <= firer[p].now
      /\ next.pc = "idle" => next = AtRest
      /\ next.pc # "idle" => next.todo # <<>>
      /\ next.pc \in {"idle", "judge"}
      /\ holder' \in {holder, Nobody}
  BY DoneIs
<1> HIDE DEF next
<1>3. next.now \in Nat
  BY <1>2 DEF Tickers
<1>4. next.made \in RunOf' /\ next.now <= now
  BY <1>1, <1>2, <1>3 DEF RunOf
<1> QED BY <1>1, <1>2, <1>4, TickerKeeps

\* The run of an instant, and what an enqueue makes of the table of runs.
LEMMA EnqueueIs ==
  ASSUME Types, NEW p \in Replicas, firer[p].pc = "enqueue"
  PROVE  LET r == RunId(Sched(p), InstantKey(p))
         IN /\ r \in RunIds /\ r # NoRun /\ Instant(p) \in Nat /\ Instant(p) \in firer[p].fire
            /\ <<Sched(p), Instant(p), r>> \in Schedules \X Nat \X RunIds
            /\ r = <<Sched(p), <<"at", Instant(p)>>>>
            /\ DOMAIN WithRun(r) = DOMAIN runs \cup {r}
            /\ \A x \in DOMAIN runs : WithRun(r)[x] = runs[x]
            /\ WithRun(r) = [x \in DOMAIN WithRun(r) |-> WithRun(r)[x]]
            /\ \A x \in DOMAIN WithRun(r) : WithRun(r)[x] \in {"live", "ended"} /\ x \in RunIds
<1> DEFINE r == RunId(Sched(p), InstantKey(p))
<1>1. firer[p].fire # {}
  BY DEF Types, TickTypes
<1>2. Sched(p) \in Schedules /\ Instant(p) \in Nat /\ Instant(p) \in firer[p].fire
  BY <1>1, AtHand
<1>3. r = <<Sched(p), <<"at", Instant(p)>>>>
  BY DEF RunId, InstantKey
<1>4. r \in RunIds
  BY <1>2, <1>3 DEF RunIds
<1>5. r # NoRun
  BY <1>4, FreshAssumption DEF RunIds
<1> HIDE DEF r
<1>6. /\ DOMAIN WithRun(r) = DOMAIN runs \cup {r}
      /\ \A x \in DOMAIN runs : WithRun(r)[x] = runs[x]
      /\ WithRun(r) = [x \in DOMAIN WithRun(r) |-> WithRun(r)[x]]
      /\ \A x \in DOMAIN WithRun(r) : WithRun(r)[x] \in {"live", "ended"} /\ x \in RunIds
  BY <1>4 DEF WithRun, Types, RunTypes
<1> QED BY <1>2, <1>3, <1>4, <1>5, <1>6 DEF r

LEMMA EnqueueTypes ==
  ASSUME Types, NEW p \in Replicas, Enqueue(p) \/ EnqueueFails(p)
  PROVE  Types'
<1> DEFINE r == RunId(Sched(p), InstantKey(p))
           f == <<Sched(p), Instant(p), r>>
<1>1. firer[p].pc = "enqueue" /\ UNCHANGED <<now, rows, patching, created, stopping>>
  BY DEF Enqueue, EnqueueFails, scheduleVars
<1>2. faults' \in 0..MaxFaults
  <2> faults \in 0..MaxFaults /\ MaxFaults \in Nat
    BY SchedulerAssumption DEF Types
  <2>1. UNCHANGED faults \/ Fault
    BY Zenon DEF Enqueue, EnqueueFails
  <2> QED BY <2>1 DEF Fault
<1>3. /\ runs' = WithRun(r) \/ runs' = runs
      /\ fired' = fired \cup {f} \/ fired' = fired
  BY DEF Enqueue, EnqueueFails
<1>4. /\ r \in RunIds /\ f \in Schedules \X Nat \X RunIds
      /\ DOMAIN WithRun(r) = DOMAIN runs \cup {r}
      /\ WithRun(r) = [x \in DOMAIN WithRun(r) |-> WithRun(r)[x]]
      /\ \A x \in DOMAIN WithRun(r) : WithRun(r)[x] \in {"live", "ended"} /\ x \in RunIds
  BY <1>1, EnqueueIs
<1> HIDE DEF r, f
<1>5. RunTypes' /\ DOMAIN runs \subseteq DOMAIN runs'
  BY <1>1, <1>3, <1>4 DEF Types, RunTypes
<1>6. RowTypes'
  BY <1>1, <1>5 DEF Types, RowTypes, RunOf, IsRow
<1>7. TickTypes'
  <2>1. CASE Enqueue(p)
    <3>1. /\ firer' = [firer EXCEPT ![p].pc = "judge", ![p].fire = @ \ {Instant(p)}, ![p].made = r]
          /\ runs' = WithRun(r) /\ UNCHANGED holder
      BY <2>1 DEF Enqueue, r
    <3>2. firer[p] \in Tickers /\ firer[p].todo # <<>> /\ firer[p].now <= now
          /\ holder \in Replicas \cup {Nobody}
      BY <1>1 DEF Types, TickTypes
    <3> DEFINE fire == firer[p].fire \ {Instant(p)}
               next == [firer[p] EXCEPT !.pc = "judge", !.fire = fire, !.made = r]
    <3>3. fire \in SUBSET Nat
      BY <3>2 DEF Tickers
    <3>4. firer' = [firer EXCEPT ![p] = next]
      BY <3>1, <3>2 DEF Types, TickTypes
    <3> HIDE DEF fire
    <3>5. next \in Tickers /\ next.pc = "judge" /\ next.now = firer[p].now
          /\ next.todo = firer[p].todo /\ next.made = r
      BY <1>4, <3>2, <3>3 DEF Tickers, Pc
    <3> HIDE DEF next
    <3>6. next.made \in RunOf'
      BY <1>4, <3>1, <3>5 DEF RunOf
    <3> QED BY <1>1, <1>5, <3>1, <3>2, <3>4, <3>5, <3>6, TickerKeeps
  <2>2. CASE EnqueueFails(p)
    BY <1>1, <1>5, <2>2, DoneTypes DEF EnqueueFails, GivesUp
  <2> QED BY <2>1, <2>2
<1> QED BY <1>1, <1>2, <1>5, <1>6, <1>7 DEF Types

\* What the update makes of the row.
LEMMA AdvancedIs ==
  ASSUME Types, NEW p \in Replicas, firer[p].pc # "idle", NEW row \in Row
  PROVE  /\ Advanced(p, row) \in Row
         /\ Advanced(p, row).expr = row.expr
         /\ Advanced(p, row).next = firer[p].next
         /\ Advanced(p, row).lastRun = IF firer[p].made = NoRun THEN row.lastRun
                                       ELSE firer[p].made
         /\ Advanced(p, row).lastFired = IF firer[p].made = NoRun THEN row.lastFired
                                         ELSE firer[p].now
<1>1. firer[p].next \in Nat /\ firer[p].now \in Nat /\ firer[p].made \in RunIds \cup {NoRun}
  BY DEF Types, TickTypes, Tickers
<1> QED BY <1>1 DEF Advanced, Row

LEMMA AdvanceTypes ==
  ASSUME Types, NEW p \in Replicas, Advance(p)
  PROVE  Types'
<1>1. firer[p].pc = "advance" /\ Done(p)
      /\ UNCHANGED <<now, patching, created, runs, stopping, fired, faults>>
  BY DEF Advance, runVars
<1>2. RunTypes' /\ TickTypes'
  BY <1>1, DoneTypes DEF Types, RunTypes
<1>3. RowTypes'
  <2> DEFINE s == Sched(p)
             row == Advanced(p, rows[s])
  <2>1. CASE UNCHANGED rows
    BY <1>1, <2>1 DEF Types, RowTypes, IsRow, RunOf
  <2>2. CASE IsRow(s) /\ rows' = [rows EXCEPT ![s] = row]
    <3>1. s \in Schedules /\ rows[s] \in Row
      BY <1>1, <2>2, AtHand DEF Types, RowTypes, IsRow
    <3>2. firer[p].made \in RunOf /\ firer[p].now <= now /\ firer[p].now \in Nat /\ now \in Nat
      BY <1>1, AtHand, SchedulerAssumption DEF Types, TickTypes
    <3>3. row \in Row /\ row.lastRun \in RunOf /\ row.lastFired \in 0..now \cup {NoInstant}
      BY <1>1, <2>2, <3>1, <3>2, AdvancedIs DEF Types, RowTypes
    <3> HIDE DEF row, s
    <3> QED BY <1>1, <2>2, <3>1, <3>3 DEF Types, RowTypes, IsRow, RunOf
  <2> QED BY <2>1, <2>2 DEF Advance
<1> QED BY <1>1, <1>2, <1>3 DEF Types

LEMMA TypesKept ==
  ASSUME Types, [Next]_vars
  PROVE  Types'
<1>1. CASE UNCHANGED vars
  <2>1. UNCHANGED <<now, rows, patching, created, runs, stopping, holder, firer, fired, faults>>
    BY <1>1 DEF vars, scheduleVars, runVars, tickVars, historyVars
  <2> QED BY <2>1 DEF Types, RowTypes, RunTypes, TickTypes, RunOf, IsRow
<1>2. CASE LoseLock
  <2>1. UNCHANGED <<now, rows, patching, created, runs, stopping, firer, fired>>
        /\ holder' = Nobody /\ Fault
    BY <1>2 DEF LoseLock, scheduleVars, runVars, historyVars
  <2>2. faults' \in 0..MaxFaults
    BY <2>1, SchedulerAssumption DEF Fault, Types
  <2> QED BY <2>1, <2>2 DEF Types, RowTypes, RunTypes, TickTypes, RunOf, IsRow
<1> QED BY <1>1, <1>2, PeopleTypes, MovesTypes, EnqueueTypes, AdvanceTypes DEF Next, Fire

\* Every reachable state of the scheduler is well typed, and what a row or a
\* tick names as a run is one.
THEOREM Typed == Spec => []Types
<1>1. Types /\ [Next]_vars => Types'
  BY TypesKept
<1> QED BY <1>1, InitTypes, PTL DEF Spec

\* What TypeOK says of rows, runs and ticks holds of every reachable state.
THEOREM SchedulerTypes == Spec => []TypeOK
BY Typed, TypesSuffice, PTL

-----------------------------------------------------------------------------
(* No two runs go on unasked, whatever fails, as long as the row keeps up.  *)

Judged(s) == Concurrency[s] # "allow"
InTick(p) == firer[p].pc # "idle"
Lists(p, s) == \E i \in DOMAIN firer[p].todo : firer[p].todo[i].s = s

\* Every live run that was fired for s, but the latest, was asked to stop.
Alone(s, latest) ==
  \A f \in fired : f[1] = s /\ Live(f[3]) /\ f[3] # latest
    => Concurrency[s] = "replace" /\ f[3] \in stopping

\* A schedule is created once, and fired only then; a tick lists it once.
Known ==
  /\ \A s \in Schedules : IsRow(s) => created[s] # NoInstant
  /\ \A f \in fired : created[f[1]] # NoInstant /\ f[3] \in DOMAIN runs
  /\ \A p \in Replicas : \A i \in DOMAIN firer[p].todo :
       /\ created[firer[p].todo[i].s] # NoInstant
       /\ \A j \in DOMAIN firer[p].todo : firer[p].todo[j].s = firer[p].todo[i].s => i = j

\* What a tick has read of s and not fired since says which run is the latest.
ReadIsTrue(p, s) ==
  \A i \in DOMAIN firer[p].todo :
    firer[p].todo[i].s = s /\ (i # 1 \/ firer[p].made = NoRun) =>
      /\ Alone(s, firer[p].todo[i].row.lastRun)
      /\ IsRow(s) => rows[s].lastRun = firer[p].todo[i].row.lastRun
\* A tick fires s after the run before was judged, and knows the run it made.
FiresJudged(p, s) ==
  InTick(p) /\ Sched(p) = s =>
    /\ firer[p].made # NoRun => Alone(s, firer[p].made)
    /\ firer[p].made = NoRun /\ firer[p].pc = "enqueue" => Alone(s, NoRun)
    /\ firer[p].pc = "replace" => Concurrency[s] = "replace"
\* The row names the latest run, but between an enqueue and the update.
RowIsTrue(s) ==
  IsRow(s) => \/ Alone(s, rows[s].lastRun)
              \/ \E p \in Replicas : InTick(p) /\ Sched(p) = s /\ firer[p].made # NoRun
\* A schedule that is not outrun is in the hands of who holds the lock.
Seen(s) ==
  /\ \A p \in Replicas : Lists(p, s) => holder = p
  /\ \A p \in Replicas : ReadIsTrue(p, s) /\ FiresJudged(p, s)
  /\ \E latest : Alone(s, latest)
  /\ RowIsTrue(s)

OverlapInv == Known /\ \A s \in Schedules : Judged(s) /\ s \notin outrun => Seen(s)

\* Nothing is fired, no run is lost, and none comes back to life.
Settled ==
  /\ UNCHANGED fired
  /\ stopping \subseteq stopping' /\ DOMAIN runs \subseteq DOMAIN runs'
  /\ \A r \in DOMAIN runs : Live(r)' => Live(r)

LEMMA AloneStays ==
  ASSUME Known, Settled, NEW s, NEW latest, Alone(s, latest)
  PROVE  Alone(s, latest)'
BY DEF Known, Settled, Alone

\* A process that is not in a tick has nothing at hand.
LEMMA AtRestIsTrue ==
  ASSUME NEW p \in Replicas, firer'[p] = AtRest
  PROVE  ~InTick(p)' /\ DOMAIN firer'[p].todo = {}
<1>1. firer'[p].todo = <<>> /\ firer'[p].pc = "idle"
  BY DEF AtRest
<1>2. DOMAIN firer'[p].todo = {}
  BY <1>1
<1> QED BY <1>1, <1>2 DEF InTick

\* The row a tick is at heads its list, which is of schedules.
LEMMA SchedIsListed ==
  ASSUME Types, NEW p \in Replicas
  PROVE  /\ InTick(p) => /\ 1 \in DOMAIN firer[p].todo
                         /\ Sched(p) = firer[p].todo[1].s /\ Snap(p) = firer[p].todo[1].row
                         /\ Sched(p) \in Schedules /\ Lists(p, Sched(p))
         /\ \A i \in DOMAIN firer[p].todo : firer[p].todo[i].s \in Schedules
<1>1. firer[p].todo \in Seq(Item) /\ (InTick(p) => firer[p].todo # <<>>)
  BY DEF Types, TickTypes, Tickers, InTick
<1>2. \A i \in DOMAIN firer[p].todo : firer[p].todo[i] \in Item
  BY <1>1
<1>3. InTick(p) => 1 \in DOMAIN firer[p].todo /\ Head(firer[p].todo) = firer[p].todo[1]
  BY <1>1
<1>4. \A x \in Item : x.s \in Schedules
  BY DEF Item
<1> QED BY <1>2, <1>3, <1>4 DEF Sched, Snap, Lists

LEMMA InitOverlap == Init => OverlapInv
<1> SUFFICES ASSUME Init PROVE OverlapInv
  OBVIOUS
<1>1. \A p \in Replicas : firer[p].todo = <<>> /\ firer[p].pc = "idle"
  BY DEF Init, AtRest
<1>2. \A p \in Replicas : DOMAIN firer[p].todo = {}
  BY <1>1
<1>3. Known
  BY <1>2 DEF Init, Known, IsRow
<1>4. ASSUME NEW s \in Schedules PROVE Seen(s)
  <2>1. \A p \in Replicas : ReadIsTrue(p, s) /\ FiresJudged(p, s) /\ ~Lists(p, s)
    BY <1>1, <1>2 DEF ReadIsTrue, FiresJudged, InTick, Lists
  <2>2. Alone(s, NoRun) /\ RowIsTrue(s)
    BY DEF Init, RowIsTrue, IsRow, Alone
  <2> QED BY <2>1, <2>2 DEF Seen
<1> QED BY <1>3, <1>4 DEF OverlapInv

\* People and the end of runs.
LEMMA PeopleOverlap ==
  ASSUME Types, OverlapInv,
         \/ \E s \in Schedules : People(s)
         \/ \E r \in DOMAIN runs : RunEnds(r)
         \/ Clock
  PROVE  OverlapInv'
<1>1. UNCHANGED <<firer, holder, fired, outrun, stopping>>
  <2>1. CASE Clock \/ \E r \in DOMAIN runs : RunEnds(r)
    BY <2>1 DEF Clock, RunEnds, tickVars, historyVars, runVars
  <2>2. ASSUME NEW s \in Schedules, Create(s) \/ Delete(s) \/ PatchWrite(s) \/ RunNow(s)
        PROVE  UNCHANGED <<firer, holder, fired, outrun, stopping>>
    BY <2>2 DEF Create, Delete, PatchWrite, RunNow, tickVars, historyVars, runVars
  <2>3. ASSUME NEW s \in Schedules, NEW change \in Changes, PatchRead(s, change)
        PROVE  UNCHANGED <<firer, holder, fired, outrun, stopping>>
    BY SMTT(90), <2>3 DEF PatchRead, tickVars, historyVars, runVars
  <2> QED BY <2>1, <2>2, <2>3 DEF People
<1>2. Settled
  <2>1. CASE UNCHANGED runs
    BY <1>1, <2>1 DEF Settled, Live
  <2>2. ASSUME NEW s \in Schedules, RunNow(s) PROVE Settled
    BY <1>1, <2>2 DEF RunNow, WithRun, Settled, Live
  <2>3. ASSUME NEW r \in DOMAIN runs, RunEnds(r) PROVE Settled
    BY <1>1, <2>3 DEF RunEnds, Settled, Live
  <2> QED BY ZenonT(90), <2>1, <2>2, <2>3 DEF People, Create, Delete, PatchRead, PatchWrite, Clock, runVars
<1>3. /\ \A s \in Schedules : created[s] # NoInstant => created'[s] # NoInstant
      /\ \A s \in Schedules : IsRow(s)' =>
           \/ IsRow(s) /\ rows'[s].lastRun = rows[s].lastRun
           \/ created[s] = NoInstant /\ created'[s] # NoInstant /\ rows'[s].lastRun = NoRun
  <2>1. CASE UNCHANGED <<rows, created>>
    BY <2>1 DEF IsRow
  <2>2. ASSUME NEW s \in Schedules, Create(s)
        PROVE  /\ created[s] = NoInstant /\ created' = [created EXCEPT ![s] = now]
               /\ \E row : rows' = [rows EXCEPT ![s] = row] /\ row.lastRun = NoRun
    <3> DEFINE row == [expr |-> Expression[s], enabled |-> TRUE,
                       next |-> NextAfter(Expression[s], now, NoInstant),
                       lastFired |-> NoInstant, lastRun |-> NoRun]
    <3>1. rows' = [rows EXCEPT ![s] = row] /\ row.lastRun = NoRun
      BY <2>2 DEF Create
    <3> HIDE DEF row
    <3> QED BY <2>2, <3>1 DEF Create
  <2>3. now # NoInstant
    BY SchedulerAssumption, WalkAssumption DEF Types
  <2>4. CASE \E s \in Schedules : Create(s)
    BY <2>2, <2>3, <2>4 DEF Types, RowTypes, IsRow
  <2>5. ASSUME NEW s \in Schedules, Delete(s)
        PROVE  rows' = [rows EXCEPT ![s] = NoRow] /\ UNCHANGED created
    BY <2>5 DEF Delete
  <2>6. CASE \E s \in Schedules : Delete(s)
    BY <2>5, <2>6 DEF Types, RowTypes, IsRow
  <2>7. ASSUME NEW s \in Schedules, PatchWrite(s), IsRow(s)
        PROVE  \E row : rows' = [rows EXCEPT ![s] = row] /\ row.lastRun = rows[s].lastRun
    <3> DEFINE patch  == patching[s]
               change == patch.change
               expr   == IF change.expr = Keep THEN patch.row.expr ELSE change.expr
               next   == IF change.expr = Keep THEN patch.row.next
                         ELSE NextAfter(expr, patch.at, patch.row.lastFired)
               enabled == IF change.enabled = Keep THEN rows[s].enabled ELSE change.enabled
               row     == [rows[s] EXCEPT !.expr = expr, !.next = next, !.enabled = enabled]
    <3>1. rows' = [rows EXCEPT ![s].expr = expr, ![s].next = next,
                          ![s].enabled = IF change.enabled = Keep THEN @ ELSE change.enabled]
      BY <2>7, Zenon DEF PatchWrite
    <3> HIDE DEF expr, next
    <3>2. rows[s] \in Row
      BY <2>7 DEF Types, RowTypes, IsRow
    <3>3. rows' = [rows EXCEPT ![s] = row]
      BY <3>1, <3>2 DEF Types, RowTypes
    <3>4. row.lastRun = rows[s].lastRun
      BY <3>2 DEF Row
    <3> QED BY <3>3, <3>4
  <2>8. CASE \E s \in Schedules : PatchWrite(s)
    <3>1. PICK s \in Schedules : PatchWrite(s)
      BY <2>8
    <3>2. UNCHANGED created /\ (~IsRow(s) => UNCHANGED rows)
      BY <3>1 DEF PatchWrite
    <3>3. CASE ~IsRow(s)
      BY <2>1, <3>2, <3>3
    <3>4. CASE IsRow(s)
      BY <2>7, <3>1, <3>2, <3>4 DEF Types, RowTypes, IsRow
    <3> QED BY <3>3, <3>4
  <2> QED BY <2>1, <2>4, <2>6, <2>8
          DEF People, PatchRead, RunNow, RunEnds, Clock, scheduleVars
<1>4. \A p \in Replicas : \A i \in DOMAIN firer[p].todo : firer[p].todo[i].s \in Schedules
  BY SchedIsListed
<1>5. \A f \in fired : f[1] \in Schedules
  BY DEF Types, RunTypes
<1>6. Known'
  <2>1. \A f \in fired' : created'[f[1]] # NoInstant /\ f[3] \in DOMAIN runs'
    BY <1>1, <1>2, <1>3, <1>5 DEF OverlapInv, Known, Settled
  <2> QED BY <1>1, <1>3, <1>4, <2>1 DEF OverlapInv, Known
<1>7. \A s, latest : Alone(s, latest) => Alone(s, latest)'
  BY <1>2, AloneStays DEF OverlapInv
<1>8. ASSUME NEW s \in Schedules, Judged(s), Seen(s) PROVE Seen(s)'
  <2>1. ASSUME NEW p \in Replicas PROVE ReadIsTrue(p, s)'
    <3> SUFFICES ASSUME NEW i \in DOMAIN firer[p].todo, firer[p].todo[i].s = s,
                        i # 1 \/ firer[p].made = NoRun
                 PROVE  /\ Alone(s, firer[p].todo[i].row.lastRun)'
                        /\ IsRow(s)' => rows'[s].lastRun = firer[p].todo[i].row.lastRun
      BY <1>1 DEF ReadIsTrue
    <3> PICK run : run = firer[p].todo[i].row.lastRun
      OBVIOUS
    <3>1. created[s] # NoInstant
      BY DEF OverlapInv, Known
    <3>2. Alone(s, run) /\ (IsRow(s) => rows[s].lastRun = run)
      BY <1>8 DEF Seen, ReadIsTrue
    <3>3. Alone(s, run)' /\ (IsRow(s)' => rows'[s].lastRun = run)
      BY <1>3, <1>7, <3>1, <3>2
    <3> QED BY <1>1, <3>3
  <2>2. ASSUME NEW p \in Replicas PROVE FiresJudged(p, s)'
    <3>1. FiresJudged(p, s)
      BY <1>8 DEF Seen
    <3> QED BY <1>1, <1>7, <3>1 DEF FiresJudged, InTick, Sched
  <2>3. RowIsTrue(s)'
    <3>1. CASE IsRow(s)' /\ IsRow(s) /\ rows'[s].lastRun = rows[s].lastRun
      <4>1. \/ Alone(s, rows[s].lastRun)
            \/ \E p \in Replicas : InTick(p) /\ Sched(p) = s /\ firer[p].made # NoRun
        BY <1>8, <3>1 DEF Seen, RowIsTrue
      <4> QED BY <1>1, <1>7, <3>1, <4>1 DEF RowIsTrue, InTick, Sched
    <3>2. CASE created[s] = NoInstant
      <4>1. \A f \in fired' : f[1] # s
        BY <1>1, <3>2 DEF OverlapInv, Known
      <4>2. \A latest : Alone(s, latest)'
        BY <4>1 DEF Alone
      <4> QED BY <4>2 DEF RowIsTrue
    <3>3. CASE ~IsRow(s)'
      BY <3>3 DEF RowIsTrue
    <3> QED BY <1>3, <3>1, <3>2, <3>3
  <2>4. \E latest : Alone(s, latest)'
    BY <1>7, <1>8 DEF Seen
  <2>5. \A p \in Replicas : Lists(p, s)' => holder' = p
    BY <1>1, <1>8 DEF Seen, Lists
  <2> QED BY <2>1, <2>2, <2>3, <2>4, <2>5 DEF Seen
<1> QED BY <1>1, <1>6, <1>8 DEF OverlapInv, Judged


\* A tick reads the rows: of a schedule that is not outrun, nobody has any at hand.
LEMMA TickOverlap ==
  ASSUME Types, OverlapInv, NEW p \in Replicas, Tick(p)
  PROVE  OverlapInv'
<1>1. /\ UNCHANGED <<rows, created, runs, stopping, fired, outrun>> /\ holder' = p
      /\ holder = Nobody
  BY DEF Tick, LockHeld, scheduleVars, runVars, historyVars
<1>2. PICK q \in DueLists :
        firer' = [firer EXCEPT ![p] =
                    Begin([i \in 1..Len(q) |-> [s |-> q[i], row |-> rows[q[i]]]], now)]
  BY DEF Tick
<1> DEFINE todo == [i \in 1..Len(q) |-> [s |-> q[i], row |-> rows[q[i]]]]
           next == Begin(todo, now)
<1>3. /\ Len(q) \in Nat /\ \A i \in 1..Len(q) : q[i] \in Due
      /\ \A i, j \in 1..Len(q) : q[i] = q[j] => i = j
      /\ todo \in Seq(Item) /\ todo # <<>>
  BY DueListIs
<1>4. /\ DOMAIN todo = 1..Len(q)
      /\ \A i \in 1..Len(q) : todo[i].s = q[i] /\ todo[i].row = rows[q[i]]
  OBVIOUS
<1> HIDE DEF todo
<1>5. now \in Nat
  BY SchedulerAssumption DEF Types
<1>6. next.todo = todo /\ next.made = NoRun /\ next.pc = "judge"
  BY <1>3, <1>5, BeginIs
<1> HIDE DEF next
<1>7. /\ firer' = [firer EXCEPT ![p] = next]
      /\ firer \in [Replicas -> Tickers]
  BY <1>2 DEF Types, TickTypes, todo, next
<1>8. firer'[p] = next /\ \A x \in Replicas : x # p => firer'[x] = firer[x]
  BY <1>7
<1>9. \A s, latest : Alone(s, latest)' <=> Alone(s, latest)
  BY <1>1 DEF Alone, Live
<1>10. \A i \in 1..Len(q) : q[i] \in Schedules /\ IsRow(q[i])
  BY <1>3 DEF Due
<1>11. Known'
  <2>1. \A i \in DOMAIN firer'[p].todo : created'[firer'[p].todo[i].s] # NoInstant
    BY <1>1, <1>4, <1>6, <1>8, <1>10 DEF OverlapInv, Known
  <2>2. \A i, j \in DOMAIN firer'[p].todo : firer'[p].todo[j].s = firer'[p].todo[i].s => i = j
    BY <1>3, <1>4, <1>6, <1>8
  <2> QED BY <1>1, <1>8, <2>1, <2>2 DEF OverlapInv, Known, IsRow
<1>12. ASSUME NEW s \in Schedules, Seen(s) PROVE Seen(s)'
  <2>1. \A x \in Replicas : ~Lists(x, s) /\ ~(InTick(x) /\ Sched(x) = s)
    BY <1>1, <1>12, FreshAssumption, SchedIsListed DEF Seen
  <2>2. IsRow(s) => Alone(s, rows[s].lastRun)
    BY <1>12, <2>1 DEF Seen, RowIsTrue
  <2>3. \A x \in Replicas : Lists(x, s)' => holder' = x
    BY <1>1, <1>8, <2>1 DEF Lists
  <2>4. ASSUME NEW x \in Replicas, x # p PROVE ReadIsTrue(x, s)' /\ FiresJudged(x, s)'
    BY <1>8, <2>1, <2>4 DEF ReadIsTrue, FiresJudged, Lists, InTick, Sched
  <2>5. ReadIsTrue(p, s)'
    BY <1>1, <1>4, <1>6, <1>8, <1>9, <1>10, <2>2 DEF ReadIsTrue
  <2>6. FiresJudged(p, s)'
    BY <1>6, <1>8 DEF FiresJudged
  <2>7. RowIsTrue(s)'
    BY <1>1, <1>9, <2>2 DEF RowIsTrue, IsRow
  <2>8. \E latest : Alone(s, latest)'
    BY <1>9, <1>12 DEF Seen
  <2> QED BY <2>3, <2>4, <2>5, <2>6, <2>7, <2>8 DEF Seen
<1> QED BY <1>1, <1>11, <1>12 DEF OverlapInv, Judged

\* Until the tick has fired, the run that the row named when it was read is the
\* latest.
LEMMA SnapIsLatest ==
  ASSUME Types, OverlapInv, NEW p \in Replicas, InTick(p), Judged(Sched(p)),
         Sched(p) \notin outrun, firer[p].made = NoRun
  PROVE  /\ Alone(Sched(p), Snap(p).lastRun)
         /\ IsRow(Sched(p)) => rows[Sched(p)].lastRun = Snap(p).lastRun
BY SchedIsListed DEF OverlapInv, Seen, ReadIsTrue

\* Whoever is at a schedule that is not outrun is alone with it.
LEMMA OnlyOneIsAt ==
  ASSUME Types, NEW s \in Schedules, Seen(s), NEW p \in Replicas, InTick(p), Sched(p) = s,
         NEW x \in Replicas, x # p
  PROVE  ~Lists(x, s) /\ ~(InTick(x) /\ Sched(x) = s)
<1>1. Lists(p, s)
  BY SchedIsListed
<1>2. ~Lists(x, s)
  BY <1>1 DEF Seen
<1> QED BY <1>2, SchedIsListed

\* A step that works on s0 takes nothing from the other schedules.
Spares(s0) ==
  /\ UNCHANGED created /\ outrun \subseteq outrun'
  /\ \A f \in fired' : created[f[1]] # NoInstant /\ f[3] \in DOMAIN runs'
  /\ \A s, latest : s # s0 /\ Alone(s, latest) => Alone(s, latest)'
  /\ \A s \in Schedules : IsRow(s)' => /\ IsRow(s)
                                       /\ s # s0 => rows'[s].lastRun = rows[s].lastRun
\* It goes on with the row, and knows the latest run of it; or it leaves the row,
\* which names the latest run.
WorksOn(p, next) ==
  /\ firer' = [firer EXCEPT ![p] = next]
  /\ next.todo = firer[p].todo /\ next.pc # "idle"
  /\ UNCHANGED <<holder, rows>>
Knows(p, s0, next) ==
  \E latest : /\ Alone(s0, latest)'
              /\ next.made = NoRun => /\ latest = Snap(p).lastRun
                                      /\ IsRow(s0) => rows[s0].lastRun = latest
              /\ next.made # NoRun => latest = next.made
Leaves(p, next) ==
  /\ firer' = [firer EXCEPT ![p] = next]
  /\ \/ next = AtRest
     \/ next.todo = Tail(firer[p].todo) /\ next.pc = "judge" /\ next.made = NoRun
  /\ holder' = IF next = AtRest /\ holder = p THEN Nobody ELSE holder
NamesLatest(s0) ==
  \E latest : Alone(s0, latest)' /\ (IsRow(s0)' => rows'[s0].lastRun = latest)

\* What it leaves to the other ticks and schedules.
LEMMA OthersSeen ==
  ASSUME Types, OverlapInv, NEW p \in Replicas, InTick(p), NEW s0, s0 = Sched(p),
         \A x \in Replicas : x # p => firer'[x] = firer[x], Spares(s0),
         NEW s \in Schedules, Seen(s)
  PROVE  /\ \A x \in Replicas : x # p => ReadIsTrue(x, s)' /\ FiresJudged(x, s)'
         /\ s # s0 => RowIsTrue(s)' /\ \E latest : Alone(s, latest)'
<1> USE DEF Spares
<1>1. s = s0 => \A x \in Replicas : x # p => ~Lists(x, s) /\ ~(InTick(x) /\ Sched(x) = s)
  BY OnlyOneIsAt
<1>2. ASSUME NEW x \in Replicas, x # p PROVE ReadIsTrue(x, s)'
  <2> SUFFICES ASSUME NEW i \in DOMAIN firer[x].todo, firer[x].todo[i].s = s,
                      i # 1 \/ firer[x].made = NoRun
               PROVE  /\ Alone(s, firer[x].todo[i].row.lastRun)'
                      /\ IsRow(s)' => rows'[s].lastRun = firer[x].todo[i].row.lastRun
    BY <1>2 DEF ReadIsTrue
  <2> PICK run : run = firer[x].todo[i].row.lastRun
    OBVIOUS
  <2>1. s # s0
    BY <1>1, <1>2 DEF Lists
  <2>2. Alone(s, run) /\ (IsRow(s) => rows[s].lastRun = run)
    BY DEF Seen, ReadIsTrue
  <2>3. Alone(s, run)' /\ (IsRow(s)' => rows'[s].lastRun = run)
    BY <2>1, <2>2
  <2>4. firer'[x] = firer[x]
    BY <1>2
  <2> QED BY <2>3, <2>4
<1>3. ASSUME NEW x \in Replicas, x # p PROVE FiresJudged(x, s)'
  <2>1. firer'[x] = firer[x]
    BY <1>3
  <2>2. FiresJudged(x, s)
    BY DEF Seen
  <2>3. s = s0 => ~(InTick(x) /\ Sched(x) = s)
    BY <1>1, <1>3
  <2> QED BY <2>1, <2>2, <2>3 DEF FiresJudged, InTick, Sched
<1>4. ASSUME s # s0 PROVE RowIsTrue(s)'
  <2>1. \/ ~IsRow(s)'
        \/ IsRow(s) /\ Alone(s, rows[s].lastRun)
        \/ \E x \in Replicas : InTick(x) /\ Sched(x) = s /\ firer[x].made # NoRun
    BY DEF Seen, RowIsTrue
  <2>2. CASE IsRow(s)' /\ IsRow(s) /\ Alone(s, rows[s].lastRun)
    <3> PICK run : run = rows[s].lastRun
      OBVIOUS
    <3>1. Alone(s, run)' /\ rows'[s].lastRun = run
      BY <1>4, <2>2
    <3> QED BY <3>1 DEF RowIsTrue
  <2>3. CASE \E x \in Replicas : InTick(x) /\ Sched(x) = s /\ firer[x].made # NoRun
    <3>1. PICK x \in Replicas : InTick(x) /\ Sched(x) = s /\ firer[x].made # NoRun
      BY <2>3
    <3>2. firer'[x] = firer[x]
      BY <1>4, <3>1
    <3> QED BY <3>1, <3>2 DEF RowIsTrue, InTick, Sched
  <2> QED BY <2>1, <2>2, <2>3 DEF RowIsTrue
<1>5. s # s0 => \E latest : Alone(s, latest)'
  BY DEF Seen
<1> QED BY <1>2, <1>3, <1>4, <1>5

\* A step within a tick's work on one row.
LEMMA InRow ==
  ASSUME Types, OverlapInv, NEW p \in Replicas, InTick(p), NEW s0, s0 = Sched(p), NEW next,
         WorksOn(p, next), Spares(s0),
         Judged(s0) /\ s0 \notin outrun' => FiresJudged(p, s0)' /\ Knows(p, s0, next)
  PROVE  OverlapInv'
<1>1. /\ firer'[p] = next /\ \A x \in Replicas : x # p => firer'[x] = firer[x]
      /\ firer'[p].todo = firer[p].todo /\ UNCHANGED <<holder, rows, created>>
      /\ next.pc # "idle" /\ outrun \subseteq outrun'
  BY DEF Types, TickTypes, WorksOn, Spares
<1>2. InTick(p)' /\ Sched(p)' = s0
  BY <1>1 DEF InTick, Sched
<1>3. /\ 1 \in DOMAIN firer[p].todo /\ s0 = firer[p].todo[1].s
      /\ Snap(p) = firer[p].todo[1].row /\ s0 \in Schedules
  BY SchedIsListed
<1>4. Known'
  <2>1. \A x \in Replicas : firer'[x].todo = firer[x].todo
    BY <1>1
  <2>2. \A f \in fired' : created'[f[1]] # NoInstant /\ f[3] \in DOMAIN runs'
    BY DEF Spares
  <2> QED BY <1>1, <2>1, <2>2 DEF OverlapInv, Known, IsRow
<1>5. ASSUME NEW s \in Schedules, Judged(s), s \notin outrun', Seen(s) PROVE Seen(s)'
  <2>1. /\ \A x \in Replicas : x # p => ReadIsTrue(x, s)' /\ FiresJudged(x, s)'
        /\ s # s0 => RowIsTrue(s)' /\ \E latest : Alone(s, latest)'
    BY <1>1, <1>5, OthersSeen
  <2>2. \A x \in Replicas : Lists(x, s)' => holder' = x
    <3>1. \A x \in Replicas : firer'[x].todo = firer[x].todo
      BY <1>1
    <3> QED BY <1>1, <1>5, <3>1 DEF Seen, Lists
  <2>3. ReadIsTrue(p, s)'
    <3> SUFFICES ASSUME NEW i \in DOMAIN firer[p].todo, firer[p].todo[i].s = s,
                        i # 1 \/ next.made = NoRun
                 PROVE  /\ Alone(s, firer[p].todo[i].row.lastRun)'
                        /\ IsRow(s) => rows[s].lastRun = firer[p].todo[i].row.lastRun
      BY <1>1 DEF ReadIsTrue, IsRow
    <3> PICK run : run = firer[p].todo[i].row.lastRun
      OBVIOUS
    <3>1. firer'[p].todo[i].row.lastRun = run
      BY <1>1
    <3>2. CASE i = 1
      <4>1. s = s0 /\ Snap(p).lastRun = run /\ next.made = NoRun
        BY <1>3, <3>2
      <4>2. Alone(s, run)' /\ (IsRow(s) => rows[s].lastRun = run)
        BY <1>5, <4>1 DEF Knows
      <4> QED BY <3>1, <4>2
    <3>3. CASE i # 1
      <4>1. s # s0
        BY <1>3, <3>3 DEF OverlapInv, Known
      <4>2. Alone(s, run) /\ (IsRow(s) => rows[s].lastRun = run)
        BY <1>5, <3>3 DEF Seen, ReadIsTrue
      <4>3. Alone(s, run)'
        BY <4>1, <4>2 DEF Spares
      <4> QED BY <3>1, <4>2, <4>3
    <3> QED BY <3>2, <3>3
  <2>4. FiresJudged(p, s)'
    <3>1. CASE s = s0
      BY <1>5, <3>1
    <3>2. CASE s # s0
      BY <1>2, <3>2 DEF FiresJudged
    <3> QED BY <3>1, <3>2
  <2>5. s = s0 => RowIsTrue(s)' /\ \E latest : Alone(s, latest)'
    <3> SUFFICES ASSUME s = s0 PROVE RowIsTrue(s)' /\ \E latest : Alone(s, latest)'
      OBVIOUS
    <3>1. CASE next.made = NoRun
      <4> PICK run : run = Snap(p).lastRun
        OBVIOUS
      <4>1. Alone(s, run)' /\ (IsRow(s) => rows[s].lastRun = run)
        BY <1>5, <3>1 DEF Knows
      <4> QED BY <1>1, <4>1 DEF RowIsTrue, IsRow
    <3>2. CASE next.made # NoRun
      <4>1. Alone(s, next.made)' /\ firer'[p].made # NoRun
        BY <1>1, <1>5, <3>2 DEF Knows
      <4> QED BY <1>2, <4>1 DEF RowIsTrue
    <3> QED BY <3>1, <3>2
  <2> QED BY <2>1, <2>2, <2>3, <2>4, <2>5 DEF Seen
<1>6. \A s \in Schedules : Judged(s) /\ s \notin outrun' => Seen(s)
  BY <1>1 DEF OverlapInv
<1> QED BY <1>4, <1>5, <1>6 DEF OverlapInv, Judged

LEMMA JudgeOverlap ==
  ASSUME Types, OverlapInv, NEW p \in Replicas, Judge(p)
  PROVE  OverlapInv'
<1> PICK s0 : s0 = Sched(p)
  OBVIOUS
<1>1. /\ firer[p].pc = "judge" /\ InTick(p) /\ firer[p] \in Tickers
      /\ UNCHANGED <<holder, rows, created, runs, stopping, fired, outrun>>
  BY DEF Judge, InTick, Types, TickTypes, scheduleVars, runVars, historyVars
<1>2. \A s, latest : Alone(s, latest)' <=> Alone(s, latest)
  BY <1>1 DEF Alone, Live
<1>3. \/ \E pc \in {"advance", "enqueue", "replace"} : firer' = [firer EXCEPT ![p].pc = pc]
      \/ firer' = [firer EXCEPT ![p].fire = @ \ {Instant(p)}, ![p].passed = @ \cup {Instant(p)}]
  BY DEF Judge
<1>4. PICK next : /\ firer' = [firer EXCEPT ![p] = next]
                  /\ next.todo = firer[p].todo /\ next.made = firer[p].made
                  /\ next.pc \in {"judge", "advance", "enqueue", "replace"}
  <2>1. CASE \E pc \in {"advance", "enqueue", "replace"} : firer' = [firer EXCEPT ![p].pc = pc]
    <3>1. PICK pc \in {"advance", "enqueue", "replace"} : firer' = [firer EXCEPT ![p].pc = pc]
      BY <2>1
    <3> DEFINE new == [firer[p] EXCEPT !.pc = pc]
    <3>2. firer' = [firer EXCEPT ![p] = new]
      BY <3>1
    <3>3. new.todo = firer[p].todo /\ new.made = firer[p].made /\ new.pc = pc
      BY <1>1 DEF Tickers
    <3> HIDE DEF new
    <3> QED BY <3>2, <3>3
  <2>2. CASE firer' = [firer EXCEPT ![p].fire = @ \ {Instant(p)},
                                    ![p].passed = @ \cup {Instant(p)}]
    <3> DEFINE fire == firer[p].fire \ {Instant(p)}
               passed1 == firer[p].passed \cup {Instant(p)}
               new == [firer[p] EXCEPT !.fire = fire, !.passed = passed1]
    <3>1. firer' = [firer EXCEPT ![p] = new]
      BY <2>2, <1>1 DEF Types, TickTypes
    <3>2. new.todo = firer[p].todo /\ new.made = firer[p].made /\ new.pc = "judge"
      BY <1>1 DEF Tickers
    <3> HIDE DEF new
    <3> QED BY <3>1, <3>2
  <2> QED BY <1>3, <2>1, <2>2
<1>5. firer'[p] = next
  BY <1>4 DEF Types, TickTypes
<1>6. ASSUME Judged(s0), s0 \notin outrun'
      PROVE  FiresJudged(p, s0)' /\ Knows(p, s0, next)
  <2>1. Seen(s0)
    BY <1>1, <1>6, SchedIsListed DEF OverlapInv
  <2>2. firer[p].made # NoRun => Alone(s0, firer[p].made)
    BY <1>1, <2>1 DEF Seen, FiresJudged
  <2>3. firer[p].made = NoRun => /\ Alone(s0, Snap(p).lastRun)
                                 /\ IsRow(s0) => rows[s0].lastRun = Snap(p).lastRun
    BY <1>1, <1>6, SnapIsLatest
  <2>4. next.pc = "replace" => Concurrency[s0] = "replace"
    BY ZenonT(90), <1>1, <1>5 DEF Judge, Types, TickTypes, Tickers
  <2>5. next.pc = "enqueue" => ~PreviousLives(p)
    BY ZenonT(90), <1>1, <1>5 DEF Judge, Types, TickTypes, Tickers
  <2>6. next.pc = "enqueue" /\ next.made = NoRun => Alone(s0, NoRun)
    BY <1>4, <1>6, <2>3, <2>5 DEF Alone, PreviousLives, Judged
  <2>7. FiresJudged(p, s0)'
    BY <1>2, <1>4, <1>5, <2>2, <2>4, <2>6 DEF FiresJudged
  <2>8. Knows(p, s0, next)
    BY <1>2, <1>4, <2>2, <2>3 DEF Knows
  <2> QED BY <2>7, <2>8
<1>7. \A f \in fired' : created[f[1]] # NoInstant /\ f[3] \in DOMAIN runs'
  BY <1>1 DEF OverlapInv, Known
<1>8. Spares(s0)
  BY <1>1, <1>2, <1>7 DEF Spares, IsRow
<1>9. WorksOn(p, next)
  BY <1>1, <1>4 DEF WorksOn
<1> QED BY <1>1, <1>6, <1>8, <1>9, InRow

\* The run that goes on is asked to stop before the next is started.
LEMMA ReplaceOverlap ==
  ASSUME Types, OverlapInv, NEW p \in Replicas, Replace(p)
  PROVE  OverlapInv'
<1> PICK s0 : s0 = Sched(p)
  OBVIOUS
<1>1. /\ firer[p].pc = "replace" /\ InTick(p) /\ firer[p] \in Tickers
      /\ firer' = [firer EXCEPT ![p].pc = "enqueue"]
      /\ UNCHANGED <<holder, rows, created, runs, fired>>
      /\ \/ /\ stopping' = IF Live(Snap(p).lastRun) THEN stopping \cup {Snap(p).lastRun}
                           ELSE stopping
            /\ UNCHANGED outrun
         \/ outrun' = outrun \cup {s0} /\ UNCHANGED stopping
  BY DEF Replace, OutrunIf, InTick, Types, TickTypes, scheduleVars
<1>2. Settled
  BY <1>1 DEF Settled, Live
<1>3. \A s, latest : Alone(s, latest) => Alone(s, latest)'
  BY <1>2, AloneStays DEF OverlapInv
<1>4. PICK next : /\ firer' = [firer EXCEPT ![p] = next]
                  /\ next.todo = firer[p].todo /\ next.made = firer[p].made
                  /\ next.pc = "enqueue"
  <2> DEFINE new == [firer[p] EXCEPT !.pc = "enqueue"]
  <2>1. /\ firer' = [firer EXCEPT ![p] = new]
        /\ new.todo = firer[p].todo /\ new.made = firer[p].made
        /\ new.pc = "enqueue"
    BY <1>1 DEF Tickers
  <2> HIDE DEF new
  <2> QED BY <2>1
<1>5. firer'[p] = next
  BY <1>4 DEF Types, TickTypes
<1>6. ASSUME Judged(s0), s0 \notin outrun'
      PROVE  FiresJudged(p, s0)' /\ Knows(p, s0, next)
  <2>1. s0 \notin outrun
        /\ stopping' = IF Live(Snap(p).lastRun) THEN stopping \cup {Snap(p).lastRun}
                       ELSE stopping
    BY <1>1, <1>6
  <2>2. Seen(s0)
    BY <1>1, <1>6, <2>1, SchedIsListed DEF OverlapInv
  <2>3. /\ firer[p].made # NoRun => Alone(s0, firer[p].made)
        /\ Concurrency[s0] = "replace"
    BY <1>1, <2>2 DEF Seen, FiresJudged
  <2>4. firer[p].made = NoRun => /\ Alone(s0, Snap(p).lastRun)
                                 /\ IsRow(s0) => rows[s0].lastRun = Snap(p).lastRun
    BY <1>1, <1>6, <2>1, SnapIsLatest
  <2>5. firer[p].made = NoRun =>
          \A f \in fired : f[1] = s0 /\ Live(f[3]) => f[3] \in stopping'
    BY <2>1, <2>4 DEF Alone
  <2>6. \A f \in fired : Live(f[3])' => Live(f[3])
    BY <1>1 DEF Live
  <2>7. firer[p].made = NoRun => Alone(s0, NoRun)'
    BY <1>1, <2>3, <2>5, <2>6 DEF Alone
  <2>8. FiresJudged(p, s0)'
    BY <1>3, <1>4, <1>5, <2>3, <2>7 DEF FiresJudged
  <2>9. Knows(p, s0, next)
    BY <1>3, <1>4, <2>3, <2>4 DEF Knows
  <2> QED BY <2>8, <2>9
<1>7. \A f \in fired' : created[f[1]] # NoInstant /\ f[3] \in DOMAIN runs'
  BY <1>1 DEF OverlapInv, Known
<1>8. UNCHANGED created /\ outrun \subseteq outrun'
  BY <1>1
<1>9. Spares(s0)
  BY <1>1, <1>3, <1>7, <1>8 DEF Spares, IsRow
<1>10. WorksOn(p, next)
  BY <1>1, <1>4 DEF WorksOn
<1> QED BY <1>1, <1>6, <1>9, <1>10, InRow

\* The run that is started is the latest; the others have ended or were asked to.
LEMMA EnqueueOverlap ==
  ASSUME Types, OverlapInv, NEW p \in Replicas, Enqueue(p)
  PROVE  OverlapInv'
<1> PICK s0, r, f0, fire :
      /\ s0 = Sched(p) /\ r = RunId(Sched(p), InstantKey(p))
      /\ f0 = <<Sched(p), Instant(p), r>> /\ fire = firer[p].fire \ {Instant(p)}
  OBVIOUS
<1>1. /\ firer[p].pc = "enqueue" /\ InTick(p) /\ firer[p] \in Tickers
      /\ runs' = WithRun(r) /\ fired' = fired \cup {f0}
      /\ firer' = [firer EXCEPT ![p].pc = "judge", ![p].fire = fire, ![p].made = r]
      /\ UNCHANGED <<holder, rows, created, stopping>>
      /\ outrun \subseteq outrun' /\ (firer[p].made # NoRun => s0 \in outrun')
  BY DEF Enqueue, OutrunIf, InTick, Types, TickTypes, scheduleVars
<1>2. /\ r \in RunIds /\ r # NoRun /\ f0[1] = s0 /\ f0[3] = r
      /\ DOMAIN runs' = DOMAIN runs \cup {r}
      /\ \A x \in DOMAIN runs : runs'[x] = runs[x]
  BY <1>1, EnqueueIs
<1>3. /\ s0 \in Schedules /\ created[s0] # NoInstant
  <2>1. 1 \in DOMAIN firer[p].todo /\ s0 = firer[p].todo[1].s /\ s0 \in Schedules
    BY <1>1, SchedIsListed
  <2> QED BY <2>1 DEF OverlapInv, Known
<1>4. PICK next :
      /\ firer' = [firer EXCEPT ![p] = next]
      /\ next.todo = firer[p].todo /\ next.made = r /\ next.pc = "judge"
  <2> DEFINE new == [firer[p] EXCEPT !.pc = "judge", !.fire = fire, !.made = r]
  <2>1. /\ firer' = [firer EXCEPT ![p] = new]
        /\ new.todo = firer[p].todo /\ new.made = r /\ new.pc = "judge"
    BY <1>1 DEF Types, TickTypes, Tickers
  <2> HIDE DEF new
  <2> QED BY <2>1
<1>5. firer'[p] = next
  BY <1>4 DEF Types, TickTypes
<1>6. \A f \in fired : f[3] \in DOMAIN runs /\ (Live(f[3])' => Live(f[3]))
  BY <1>2 DEF OverlapInv, Known, Live
<1>7. \A s, latest : s # s0 /\ Alone(s, latest) => Alone(s, latest)'
  BY <1>1, <1>2, <1>6 DEF Alone
<1>8. ASSUME Judged(s0), s0 \notin outrun'
      PROVE  FiresJudged(p, s0)' /\ Knows(p, s0, next)
  <2>1. firer[p].made = NoRun /\ s0 \notin outrun
    BY <1>1, <1>8
  <2>2. Seen(s0)
    BY <1>3, <1>8, <2>1 DEF OverlapInv
  <2>3. Alone(s0, NoRun)
    BY <1>1, <2>1, <2>2 DEF Seen, FiresJudged
  <2>4. \A f \in fired : f[3] # NoRun
    BY SMTT(90), FreshAssumption DEF Types, RunTypes, RunIds
  <2>5. Alone(s0, r)'
    BY <1>1, <1>2, <1>6, <2>3, <2>4 DEF Alone
  <2>6. FiresJudged(p, s0)'
    BY <1>2, <1>4, <1>5, <2>5 DEF FiresJudged
  <2>7. Knows(p, s0, next)
    BY <1>2, <1>4, <2>5 DEF Knows
  <2> QED BY <2>6, <2>7
<1>9. \A f \in fired' : created[f[1]] # NoInstant /\ f[3] \in DOMAIN runs'
  BY <1>1, <1>2, <1>3 DEF OverlapInv, Known
<1>10. Spares(s0)
  BY <1>1, <1>7, <1>9 DEF Spares, IsRow
<1>11. WorksOn(p, next)
  BY <1>1, <1>4 DEF WorksOn
<1> QED BY <1>1, <1>8, <1>10, <1>11, InRow

\* What is left of a tick's list once its first row is done with.
LEMMA TailIs ==
  ASSUME Types, NEW p \in Replicas, InTick(p)
  PROVE  LET todo == firer[p].todo
         IN /\ 1 \in DOMAIN todo /\ Sched(p) = todo[1].s /\ Snap(p) = todo[1].row
            /\ Tail(todo) \in Seq(Item)
            /\ \A i \in DOMAIN Tail(todo) :
                 i + 1 \in DOMAIN todo /\ i + 1 # 1 /\ Tail(todo)[i] = todo[i + 1]
                 /\ Tail(todo)[i].s \in Schedules
            /\ \A i, j \in DOMAIN Tail(todo) : i + 1 = j + 1 => i = j
<1> PICK todo : todo = firer[p].todo
  OBVIOUS
<1>1. todo \in Seq(Item) /\ todo # <<>>
  BY DEF Types, TickTypes, Tickers, InTick
<1>2. 1 \in DOMAIN todo /\ Head(todo) = todo[1]
  BY <1>1
<1>3. /\ Tail(todo) \in Seq(Item)
      /\ \A i \in DOMAIN Tail(todo) :
           i \in Nat /\ i + 1 \in DOMAIN todo /\ i + 1 # 1 /\ Tail(todo)[i] = todo[i + 1]
  BY <1>1
<1>4. ASSUME NEW i \in DOMAIN Tail(todo) PROVE Tail(todo)[i].s \in Schedules
  <2>1. Tail(todo)[i] \in Item
    BY <1>3
  <2> QED BY <2>1 DEF Item
<1>5. \A i, j \in DOMAIN Tail(todo) : i + 1 = j + 1 => i = j
  BY <1>3
<1> QED BY <1>2, <1>3, <1>4, <1>5 DEF Sched, Snap

\* A step that ends a tick's work on a row: of a schedule that is not outrun the
\* row names the latest run.
LEMMA LeavesRow ==
  ASSUME Types, OverlapInv, NEW p \in Replicas, InTick(p), NEW s0, s0 = Sched(p), NEW next,
         Leaves(p, next), Spares(s0),
         Judged(s0) /\ s0 \notin outrun' => NamesLatest(s0)
  PROVE  OverlapInv'
<1> PICK todo, rest : todo = firer[p].todo /\ rest = Tail(firer[p].todo)
  OBVIOUS
<1>1. /\ firer'[p] = next /\ \A x \in Replicas : x # p => firer'[x] = firer[x]
      /\ UNCHANGED created /\ outrun \subseteq outrun'
      /\ \A f \in fired' : created'[f[1]] # NoInstant /\ f[3] \in DOMAIN runs'
      /\ \A s \in Schedules : IsRow(s)' => IsRow(s)
      /\ next = AtRest => holder' = IF holder = p THEN Nobody ELSE holder
      /\ next # AtRest => /\ next.todo = rest /\ next.pc = "judge" /\ next.made = NoRun
                          /\ holder' = holder
  BY DEF Types, TickTypes, Leaves, Spares
<1>2. /\ 1 \in DOMAIN todo /\ s0 = todo[1].s /\ s0 \in Schedules
      /\ \A i \in DOMAIN rest :
           i + 1 \in DOMAIN todo /\ i + 1 # 1 /\ rest[i] = todo[i + 1] /\ rest[i].s \in Schedules
      /\ \A i, j \in DOMAIN rest : i + 1 = j + 1 => i = j
  BY TailIs, SchedIsListed
<1>3. \A i \in DOMAIN rest : rest[i].s # s0
  BY <1>2 DEF OverlapInv, Known
<1>4. CASE next = AtRest
  <2>1. ~InTick(p)' /\ DOMAIN firer'[p].todo = {}
    BY <1>1, <1>4, AtRestIsTrue
  <2>2. Known'
    <3>1. \A x \in Replicas : \A i \in DOMAIN firer'[x].todo :
            /\ created'[firer'[x].todo[i].s] # NoInstant
            /\ \A j \in DOMAIN firer'[x].todo : firer'[x].todo[j].s = firer'[x].todo[i].s => i = j
      BY <1>1, <2>1 DEF OverlapInv, Known
    <3> QED BY <1>1, <3>1 DEF OverlapInv, Known
  <2>3. ASSUME NEW s \in Schedules, Judged(s), s \notin outrun', Seen(s) PROVE Seen(s)'
    <3>1. /\ \A x \in Replicas : x # p => ReadIsTrue(x, s)' /\ FiresJudged(x, s)'
          /\ s # s0 => RowIsTrue(s)' /\ \E latest : Alone(s, latest)'
      BY <1>1, <2>3, OthersSeen
    <3>2. ReadIsTrue(p, s)' /\ FiresJudged(p, s)'
      BY <2>1 DEF ReadIsTrue, FiresJudged
    <3>3. \A x \in Replicas : Lists(x, s)' => holder' = x
      BY <1>1, <2>1, <2>3 DEF Seen, Lists
    <3>4. s = s0 => RowIsTrue(s)' /\ \E latest : Alone(s, latest)'
      BY <2>3 DEF RowIsTrue, NamesLatest
    <3> QED BY <3>1, <3>2, <3>3, <3>4 DEF Seen
  <2>4. \A s \in Schedules : Judged(s) /\ s \notin outrun' => Seen(s)
    BY <1>1 DEF OverlapInv
  <2> QED BY <2>2, <2>3, <2>4 DEF OverlapInv, Judged
<1>5. CASE next # AtRest
  <2>1. /\ firer'[p].todo = rest /\ firer'[p].pc = "judge" /\ firer'[p].made = NoRun
        /\ holder' = holder
    BY <1>1, <1>5
  <2>2. Known'
    <3>1. \A i \in DOMAIN rest :
            /\ created'[rest[i].s] # NoInstant
            /\ \A j \in DOMAIN rest : rest[j].s = rest[i].s => i = j
      <4>1. \A i \in DOMAIN todo :
              /\ created[todo[i].s] # NoInstant
              /\ \A j \in DOMAIN todo : todo[j].s = todo[i].s => i = j
        BY DEF OverlapInv, Known
      <4>2. \A i \in DOMAIN rest : i + 1 \in DOMAIN todo /\ rest[i] = todo[i + 1]
        BY <1>2
      <4>3. ASSUME NEW i \in DOMAIN rest, NEW j \in DOMAIN rest, rest[j].s = rest[i].s
            PROVE  i = j
        <5> PICK k, l : k = i + 1 /\ l = j + 1
          OBVIOUS
        <5>1. k \in DOMAIN todo /\ l \in DOMAIN todo /\ todo[l].s = todo[k].s
          BY <4>2, <4>3
        <5>2. k = l
          BY <4>1, <5>1
        <5> QED BY <1>2, <5>2
      <4>4. ASSUME NEW i \in DOMAIN rest PROVE created'[rest[i].s] # NoInstant
        <5> PICK k : k = i + 1
          OBVIOUS
        <5>1. k \in DOMAIN todo /\ rest[i] = todo[k]
          BY <4>2
        <5> QED BY <1>1, <4>1, <5>1
      <4> QED BY <4>3, <4>4
    <3>2. \A x \in Replicas : \A i \in DOMAIN firer'[x].todo :
            /\ created'[firer'[x].todo[i].s] # NoInstant
            /\ \A j \in DOMAIN firer'[x].todo : firer'[x].todo[j].s = firer'[x].todo[i].s => i = j
      <4>1. ASSUME NEW x \in Replicas
            PROVE  \A i \in DOMAIN firer'[x].todo :
                     /\ created'[firer'[x].todo[i].s] # NoInstant
                     /\ \A j \in DOMAIN firer'[x].todo :
                          firer'[x].todo[j].s = firer'[x].todo[i].s => i = j
        <5>1. CASE x = p
          BY <2>1, <3>1, <5>1
        <5>2. CASE x # p
          <6>1. firer'[x] = firer[x]
            BY <1>1, <5>2
          <6> QED BY <1>1, <6>1 DEF OverlapInv, Known
        <5> QED BY <5>1, <5>2
      <4> QED BY <4>1
    <3> QED BY <1>1, <3>2 DEF OverlapInv, Known
  <2>3. ASSUME NEW s \in Schedules, Judged(s), s \notin outrun', Seen(s) PROVE Seen(s)'
    <3>1. /\ \A x \in Replicas : x # p => ReadIsTrue(x, s)' /\ FiresJudged(x, s)'
          /\ s # s0 => RowIsTrue(s)' /\ \E latest : Alone(s, latest)'
      BY <1>1, <2>3, OthersSeen
    <3>2. ReadIsTrue(p, s)'
      <4> SUFFICES ASSUME NEW i \in DOMAIN rest, rest[i].s = s
                   PROVE  /\ Alone(s, rest[i].row.lastRun)'
                          /\ IsRow(s)' => rows'[s].lastRun = rest[i].row.lastRun
        BY <2>1 DEF ReadIsTrue
      <4> PICK run, j : run = rest[i].row.lastRun /\ j = i + 1
        OBVIOUS
      <4>1. s # s0 /\ j \in DOMAIN todo /\ j # 1 /\ todo[j].s = s /\ todo[j].row.lastRun = run
        BY <1>2, <1>3
      <4>2. Alone(s, run) /\ (IsRow(s) => rows[s].lastRun = run)
        BY <2>3, <4>1 DEF Seen, ReadIsTrue
      <4>3. Alone(s, run)' /\ (IsRow(s)' => rows'[s].lastRun = run)
        BY <4>1, <4>2 DEF Spares
      <4> QED BY <4>3
    <3>3. FiresJudged(p, s)'
      BY <2>1 DEF FiresJudged
    <3>4. \A x \in Replicas : Lists(x, s)' => holder' = x
      <4>1. ASSUME Lists(p, s)' PROVE Lists(p, s)
        <5>1. PICK i \in DOMAIN rest : rest[i].s = s
          BY <2>1, <4>1 DEF Lists
        <5> PICK j : j = i + 1
          OBVIOUS
        <5>2. j \in DOMAIN todo /\ todo[j].s = s
          BY <1>2, <5>1
        <5> QED BY <5>2 DEF Lists
      <4>2. \A x \in Replicas : x # p /\ Lists(x, s)' => Lists(x, s)
        BY <1>1 DEF Lists
      <4>3. \A x \in Replicas : Lists(x, s) => holder = x
        BY <2>3 DEF Seen
      <4> QED BY <2>1, <4>1, <4>2, <4>3
    <3>5. s = s0 => RowIsTrue(s)' /\ \E latest : Alone(s, latest)'
      BY <2>3 DEF RowIsTrue, NamesLatest
    <3> QED BY <3>1, <3>2, <3>3, <3>4, <3>5 DEF Seen
  <2>4. \A s \in Schedules : Judged(s) /\ s \notin outrun' => Seen(s)
    BY <1>1 DEF OverlapInv
  <2> QED BY <2>2, <2>3, <2>4 DEF OverlapInv, Judged
<1> QED BY <1>4, <1>5

\* Done turns to the next row.
LEMMA DoneLeaves ==
  ASSUME Types, NEW p \in Replicas, InTick(p), Done(p)
  PROVE  \E next : Leaves(p, next)
<1> DEFINE rest == Tail(firer[p].todo)
           next == Begin(rest, firer[p].now)
<1>1. rest \in Seq(Item) /\ firer[p].now \in Nat
  BY AtHand DEF InTick
<1>2. \/ next = AtRest
      \/ next.todo = rest /\ next.pc = "judge" /\ next.made = NoRun
  <2> HIDE DEF rest
  <2> QED BY <1>1, BeginIs
<1>3. /\ firer' = [firer EXCEPT ![p] = next]
      /\ holder' = IF next = AtRest /\ holder = p THEN Nobody ELSE holder
  BY DEF Done
<1> HIDE DEF next
<1> QED BY <1>2, <1>3 DEF Leaves

\* A tick gives a row up: what it made of it, if anything, outruns the schedule.
LEMMA GivesUpOverlap ==
  ASSUME Types, OverlapInv, NEW p \in Replicas, InTick(p), Done(p),
         UNCHANGED <<rows, created, runs, stopping, fired>>,
         outrun \subseteq outrun', firer[p].made # NoRun => Sched(p) \in outrun'
  PROVE  OverlapInv'
<1> PICK s0 : s0 = Sched(p)
  OBVIOUS
<1>1. PICK next : Leaves(p, next)
  BY DoneLeaves
<1>2. \A s, latest : Alone(s, latest)' <=> Alone(s, latest)
  BY DEF Alone, Live
<1>3. \A s \in Schedules : IsRow(s)' => /\ IsRow(s)
                                        /\ s # s0 => rows'[s].lastRun = rows[s].lastRun
  BY DEF IsRow
<1>4. ASSUME Judged(s0), s0 \notin outrun'
      PROVE  NamesLatest(s0)
  <2>1. Alone(s0, Snap(p).lastRun) /\ (IsRow(s0) => rows[s0].lastRun = Snap(p).lastRun)
    BY <1>4, SnapIsLatest
  <2> PICK run : run = Snap(p).lastRun
    OBVIOUS
  <2> QED BY <1>2, <2>1 DEF NamesLatest, IsRow
<1>5. \A f \in fired' : created[f[1]] # NoInstant /\ f[3] \in DOMAIN runs'
  BY DEF OverlapInv, Known
<1>6. Spares(s0)
  BY <1>2, <1>3, <1>5 DEF Spares
<1> QED BY <1>1, <1>4, <1>6, LeavesRow

\* An enqueue that fails: the run may be there all the same.
LEMMA EnqueueFailsOverlap ==
  ASSUME Types, OverlapInv, NEW p \in Replicas, EnqueueFails(p)
  PROVE  OverlapInv'
<1> PICK s0, r, f0 :
      /\ s0 = Sched(p) /\ r = RunId(Sched(p), InstantKey(p))
      /\ f0 = <<Sched(p), Instant(p), r>>
  OBVIOUS
<1>1. /\ firer[p].pc = "enqueue" /\ InTick(p) /\ Done(p)
      /\ UNCHANGED <<rows, created, stopping>>
      /\ \/ /\ outrun \subseteq outrun' /\ (firer[p].made # NoRun => s0 \in outrun')
            /\ UNCHANGED <<runs, fired>>
         \/ /\ runs' = WithRun(r) /\ fired' = fired \cup {f0} /\ outrun' = outrun \cup {s0}
  BY DEF EnqueueFails, GivesUp, OutrunIf, InTick, scheduleVars
<1>2. CASE UNCHANGED <<runs, fired>> /\ outrun \subseteq outrun'
           /\ (firer[p].made # NoRun => s0 \in outrun')
  BY <1>1, <1>2, GivesUpOverlap
<1>3. CASE runs' = WithRun(r) /\ fired' = fired \cup {f0} /\ outrun' = outrun \cup {s0}
  <2>1. PICK next : Leaves(p, next)
    BY <1>1, DoneLeaves
  <2>2. /\ f0[1] = s0 /\ f0[3] = r /\ DOMAIN runs' = DOMAIN runs \cup {r}
        /\ \A x \in DOMAIN runs : runs'[x] = runs[x]
    BY <1>1, <1>3, EnqueueIs
  <2>3. created[s0] # NoInstant
    <3>1. 1 \in DOMAIN firer[p].todo /\ s0 = firer[p].todo[1].s
      BY <1>1, SchedIsListed
    <3> QED BY <3>1 DEF OverlapInv, Known
  <2>4. \A f \in fired : f[3] \in DOMAIN runs /\ (Live(f[3])' => Live(f[3]))
    BY <2>2 DEF OverlapInv, Known, Live
  <2>5. \A s, latest : s # s0 /\ Alone(s, latest) => Alone(s, latest)'
    BY <1>1, <1>3, <2>2, <2>4 DEF Alone
  <2>6. \A f \in fired' : created[f[1]] # NoInstant /\ f[3] \in DOMAIN runs'
    BY <1>3, <2>2, <2>3 DEF OverlapInv, Known
  <2>7. \A s \in Schedules : IsRow(s)' => /\ IsRow(s)
                                          /\ s # s0 => rows'[s].lastRun = rows[s].lastRun
    BY <1>1 DEF IsRow
  <2>8. outrun \subseteq outrun' /\ s0 \in outrun' /\ UNCHANGED created
    BY <1>1, <1>3
  <2>9. Spares(s0)
    BY <2>5, <2>6, <2>7, <2>8 DEF Spares
  <2> QED BY <1>1, <2>1, <2>8, <2>9, LeavesRow
<1> QED BY <1>1, <1>2, <1>3

\* The row is given the run that was made, and that is the latest.
LEMMA AdvanceOverlap ==
  ASSUME Types, OverlapInv, NEW p \in Replicas, Advance(p)
  PROVE  OverlapInv'
<1> PICK s0 : s0 = Sched(p)
  OBVIOUS
<1>1. /\ InTick(p) /\ firer[p].pc # "idle" /\ Done(p)
      /\ UNCHANGED <<created, runs, stopping, fired, outrun>>
      /\ rows' = IF IsRow(s0) THEN [rows EXCEPT ![s0] = Advanced(p, rows[s0])] ELSE rows
  BY DEF Advance, InTick, runVars
<1>2. PICK next : Leaves(p, next)
  BY <1>1, DoneLeaves
<1>3. \A s, latest : Alone(s, latest)' <=> Alone(s, latest)
  BY <1>1 DEF Alone, Live
<1>4. s0 \in Schedules
  BY <1>1, AtHand
<1>5. IsRow(s0) => /\ Advanced(p, rows[s0]) \in Row
                   /\ Advanced(p, rows[s0]).lastRun =
                        IF firer[p].made = NoRun THEN rows[s0].lastRun ELSE firer[p].made
  <2> SUFFICES ASSUME IsRow(s0)
               PROVE  /\ Advanced(p, rows[s0]) \in Row
                      /\ Advanced(p, rows[s0]).lastRun =
                           IF firer[p].made = NoRun THEN rows[s0].lastRun ELSE firer[p].made
    OBVIOUS
  <2>1. rows[s0] \in Row
    BY <1>4 DEF IsRow, Types, RowTypes
  <2> QED BY <1>1, <2>1, AdvancedIs
<1>6. \A s \in Schedules : IsRow(s)' => /\ IsRow(s)
                                        /\ s # s0 => rows'[s].lastRun = rows[s].lastRun
  BY <1>1 DEF IsRow, Types, RowTypes
<1>7. ASSUME Judged(s0), s0 \notin outrun'
      PROVE  NamesLatest(s0)
  <2>1. Seen(s0)
    BY <1>1, <1>4, <1>7 DEF OverlapInv
  <2>2. IsRow(s0)' => IsRow(s0) /\ rows'[s0].lastRun = Advanced(p, rows[s0]).lastRun
    BY <1>1, <1>4 DEF IsRow, Types, RowTypes
  <2>3. CASE firer[p].made = NoRun
    <3> PICK run : run = Snap(p).lastRun
      OBVIOUS
    <3>1. Alone(s0, run) /\ (IsRow(s0) => rows[s0].lastRun = run)
      BY <1>1, <1>7, <2>3, SnapIsLatest
    <3> QED BY <1>3, <1>5, <2>2, <2>3, <3>1 DEF NamesLatest
  <2>4. CASE firer[p].made # NoRun
    <3>1. Alone(s0, firer[p].made)
      BY <1>1, <2>1, <2>4 DEF Seen, FiresJudged
    <3> QED BY <1>3, <1>5, <2>2, <2>4, <3>1 DEF NamesLatest
  <2> QED BY <2>3, <2>4
<1>8. \A f \in fired' : created[f[1]] # NoInstant /\ f[3] \in DOMAIN runs'
  BY <1>1 DEF OverlapInv, Known
<1>9. UNCHANGED created /\ outrun \subseteq outrun'
  BY <1>1
<1>10. Spares(s0)
  BY <1>3, <1>6, <1>8, <1>9 DEF Spares
<1> QED BY <1>1, <1>2, <1>7, <1>10, LeavesRow

\* A process dies with what it had read, and with what it had not written.
LEMMA CrashOverlap ==
  ASSUME Types, OverlapInv, NEW p \in Replicas, Crash(p)
  PROVE  OverlapInv'
<1> PICK s0, next : s0 = Sched(p) /\ next = AtRest
  OBVIOUS
<1>1. /\ InTick(p) /\ firer' = [firer EXCEPT ![p] = next]
      /\ holder' = IF next = AtRest /\ holder = p THEN Nobody ELSE holder
      /\ UNCHANGED <<rows, created, runs, stopping, fired>>
      /\ outrun \subseteq outrun' /\ (firer[p].made # NoRun => s0 \in outrun')
  BY DEF Crash, OutrunIf, InTick, Types, TickTypes, scheduleVars, runVars
<1>2. \A s, latest : Alone(s, latest)' <=> Alone(s, latest)
  BY <1>1 DEF Alone, Live
<1>3. \A s \in Schedules : IsRow(s)' => /\ IsRow(s)
                                        /\ s # s0 => rows'[s].lastRun = rows[s].lastRun
  BY <1>1 DEF IsRow
<1>4. ASSUME Judged(s0), s0 \notin outrun'
      PROVE  NamesLatest(s0)
  <2>1. Alone(s0, Snap(p).lastRun) /\ (IsRow(s0) => rows[s0].lastRun = Snap(p).lastRun)
    BY <1>1, <1>4, SnapIsLatest
  <2> PICK run : run = Snap(p).lastRun
    OBVIOUS
  <2> QED BY <1>1, <1>2, <2>1 DEF NamesLatest, IsRow
<1>5. \A f \in fired' : created[f[1]] # NoInstant /\ f[3] \in DOMAIN runs'
  BY <1>1 DEF OverlapInv, Known
<1>6. UNCHANGED created /\ outrun \subseteq outrun'
  BY <1>1
<1>7. Spares(s0)
  BY <1>2, <1>3, <1>5, <1>6 DEF Spares
<1>8. Leaves(p, next)
  BY <1>1 DEF Leaves
<1> QED BY <1>1, <1>4, <1>7, <1>8, LeavesRow

\* The lock is lost: what its holder has on its list is outrun, and nobody else
\* has more.
LEMMA LoseLockOverlap ==
  ASSUME Types, OverlapInv, LoseLock
  PROVE  OverlapInv'
<1>1. /\ UNCHANGED <<rows, created, runs, stopping, firer, fired>>
      /\ holder \in Replicas
      /\ outrun' = outrun \cup {firer[holder].todo[i].s : i \in DOMAIN firer[holder].todo}
  BY DEF LoseLock, Types, TickTypes, scheduleVars, runVars
<1>2. \A s, latest : Alone(s, latest)' <=> Alone(s, latest)
  BY <1>1 DEF Alone, Live
<1>3. Known'
  BY <1>1 DEF OverlapInv, Known, IsRow
<1>4. ASSUME NEW s \in Schedules, s \notin outrun', Seen(s) PROVE Seen(s)'
  <2>1. \A x \in Replicas : ~Lists(x, s)
    <3>1. ~Lists(holder, s)
      BY <1>1, <1>4 DEF Lists
    <3> QED BY <1>4, <3>1 DEF Seen
  <2>2. \A x \in Replicas : ~Lists(x, s)'
    BY <1>1, <2>1 DEF Lists
  <2>3. \A x \in Replicas : ReadIsTrue(x, s)'
    BY <1>1, <2>1 DEF ReadIsTrue, Lists
  <2>4. \A x \in Replicas : FiresJudged(x, s)'
    BY <1>1, <1>2, <1>4 DEF Seen, FiresJudged, InTick, Sched
  <2>5. RowIsTrue(s)'
    BY <1>1, <1>2, <1>4 DEF Seen, RowIsTrue, InTick, Sched, IsRow
  <2>6. \E latest : Alone(s, latest)'
    BY <1>2, <1>4 DEF Seen
  <2> QED BY <2>2, <2>3, <2>4, <2>5, <2>6 DEF Seen
<1>5. \A s \in Schedules : Judged(s) /\ s \notin outrun' => Seen(s)
  BY <1>1 DEF OverlapInv
<1> QED BY <1>3, <1>4, <1>5 DEF OverlapInv, Judged

LEMMA OverlapKept ==
  ASSUME Types, OverlapInv, [Next]_vars
  PROVE  OverlapInv'
<1>1. CASE UNCHANGED vars
  <2>1. UNCHANGED <<rows, created, runs, stopping, holder, firer, fired, outrun>>
    BY <1>1 DEF vars, scheduleVars, runVars, tickVars, historyVars
  <2>2. \A s, run : Alone(s, run)' <=> Alone(s, run)
    BY <2>1 DEF Alone, Live
  <2>3. Known'
    BY <2>1 DEF OverlapInv, Known, IsRow
  <2>4. \A s \in Schedules : Seen(s) => Seen(s)'
    <3>1. \A s \in Schedules : \A p \in Replicas :
            /\ Lists(p, s)' <=> Lists(p, s)
            /\ ReadIsTrue(p, s) => ReadIsTrue(p, s)'
            /\ FiresJudged(p, s) => FiresJudged(p, s)'
      BY <2>1, <2>2 DEF Lists, ReadIsTrue, FiresJudged, InTick, Sched, IsRow
    <3>2. \A s \in Schedules : RowIsTrue(s) => RowIsTrue(s)'
      BY <2>1, <2>2 DEF RowIsTrue, InTick, Sched, IsRow
    <3> QED BY <2>1, <2>2, <3>1, <3>2 DEF Seen
  <2> QED BY <2>1, <2>3, <2>4 DEF OverlapInv, Judged
<1>2. ASSUME NEW p \in Replicas, Abandon(p) PROVE OverlapInv'
  <2>1. /\ InTick(p) /\ Done(p) /\ UNCHANGED <<rows, created, runs, stopping, fired>>
        /\ outrun \subseteq outrun' /\ (firer[p].made # NoRun => Sched(p) \in outrun')
    BY <1>2 DEF Abandon, OutrunIf, InTick, scheduleVars, runVars
  <2> QED BY <2>1, GivesUpOverlap
<1> QED BY <1>1, <1>2, PeopleOverlap, TickOverlap, JudgeOverlap, ReplaceOverlap,
           EnqueueOverlap, EnqueueFailsOverlap, AdvanceOverlap, CrashOverlap, LoseLockOverlap
        DEF Next, Fire

\* Of two runs that one schedule's ticks started and that are both going on, the
\* policy allows it or one was asked to stop: `forbid` and `replace` keep their
\* word whatever fails, whoever loses the lock, whatever people do to the row and
\* however the runs end, for every schedule of whose runs the judge was told: no
\* tick lost one between enqueue and update, failed to stop one, or started two
\* from one reading (fire, previous_run_live, advance).
THEOREM NoneGoesOnUnasked == Spec => []NoUnaskedOverlap
<1>1. Types /\ OverlapInv => NoUnaskedOverlap
  <2> SUFFICES ASSUME Types, OverlapInv, NEW s \in Schedules, s \notin outrun,
                      NEW f \in fired, NEW g \in fired,
                      f[1] = s, g[1] = s, f[3] # g[3], Concurrency[s] # "allow",
                      Live(f[3]), Live(g[3])
               PROVE  Concurrency[s] = "replace" /\ {f[3], g[3]} \cap stopping # {}
    BY DEF NoUnaskedOverlap, Overlapping
  <2>1. PICK latest : Alone(s, latest)
    BY DEF OverlapInv, Judged, Seen
  <2>2. f[3] # latest \/ g[3] # latest
    OBVIOUS
  <2> QED BY <2>1, <2>2 DEF Alone
<1>2. OverlapInv /\ Types /\ [Next]_vars => OverlapInv'
  BY OverlapKept
<1> QED BY <1>1, <1>2, InitOverlap, Typed, PTL DEF Spec


-----------------------------------------------------------------------------
(* No instant is passed over silently, as long as nobody changes a cadence *)
(* and no backlog is longer than what a tick walks.                        *)

Accounted(s, t) == <<s, t>> \in passed \/ \E f \in fired : f[1] = s /\ f[2] = t
\* The instants of a schedule that keeps its cadence.
Falls(e, from, t) ==
  IF e.kind = "cron" THEN OnGrid(e, t) ELSE (t - from) % e.every = 0
On(s, t) == Falls(Expression[s], created[s], t)

\* A row, stored or read, that goes on from an instant of its schedule, with
\* every instant before it accounted for.
Answered(s, row) ==
  /\ row.expr = Expression[s]
  /\ created[s] \in Nat /\ row.next > created[s] /\ On(s, row.next)
  /\ \A t \in Nat : created[s] < t /\ t < row.next /\ On(s, t) => Accounted(s, t)

\* What a tick does about a row: each pending instant is to be fired, or to be
\* passed over and logged, or accounted for; and next skips none.
Handled(s, row, at, fire, dropped, next) ==
  LET pending == Pending(row.expr, row.next, at)
  IN /\ \A t \in pending : t \in fire \cup dropped \/ Accounted(s, t)
     /\ next > created[s] /\ On(s, next)
     /\ \A t \in Nat : row.next <= t /\ t < next /\ On(s, t) => t \in pending

ListOwes(p) ==
  \A i \in DOMAIN firer[p].todo :
    LET item == firer[p].todo[i]
        row  == item.row
    IN /\ Answered(item.s, row) /\ row.next <= firer[p].now
       /\ Missed(row.expr, row.next, firer[p].now) = Pending(row.expr, row.next, firer[p].now)
TickOwes(p) ==
  InTick(p) =>
    /\ Handled(Sched(p), Snap(p), firer[p].now, firer[p].fire, firer[p].passed, firer[p].next)
    /\ firer[p].pc = "advance" => firer[p].fire = {}
RowsAnswered ==
  \A s \in Schedules : /\ IsRow(s) => Answered(s, rows[s])
                       /\ patching[s] # Nobody => Answered(s, patching[s].row)
OwedInv == RowsAnswered /\ \A p \in Replicas : ListOwes(p) /\ TickOwes(p)

\* No schedule that is due has more instants pending than a tick looks at.
BacklogsWalked ==
  \A s \in Due : Cardinality(Pending(rows[s].expr, rows[s].next, now)) <= MaxWalk

\* The history grows, and a schedule is created once.
Grows ==
  /\ fired \subseteq fired' /\ passed \subseteq passed'
  /\ \A s \in Schedules : created[s] \in Nat => created'[s] = created[s]

LEMMA AnsweredStays ==
  ASSUME Grows, NEW s \in Schedules, NEW row, Answered(s, row)
  PROVE  Answered(s, row)'
BY DEF Grows, Answered, On, Accounted

LEMMA HandledStays ==
  ASSUME Grows, NEW s \in Schedules, created[s] \in Nat,
         NEW row, NEW at, NEW fire, NEW dropped, NEW next,
         Handled(s, row, at, fire, dropped, next)
  PROVE  Handled(s, row, at, fire, dropped, next)'
BY DEF Grows, Handled, On, Accounted

\* Where an interval goes from the greatest instant pending.
LEMMA IntervalGoesOn ==
  ASSUME NEW e \in Expressions, e.kind # "cron", NEW from \in Nat, NEW due \in Nat,
         NEW at \in Nat, due <= at, due > from, (due - from) % e.every = 0,
         NEW g \in Pending(e, due, at), \A t \in Pending(e, due, at) : t <= g,
         NEW to, to = g + e.every
  PROVE  /\ to > from /\ (to - from) % e.every = 0
         /\ \A t \in Nat : due <= t /\ t < to /\ (t - from) % e.every = 0
              => t \in Pending(e, due, at)
<1> PICK d \in Nat \ {0} : d = e.every
  BY DEF Expressions
<1>1. g \in Nat /\ due <= g /\ (g <= at \/ g = due)
  BY PendingIs
<1>2. (g - due) % d = 0
  <2>1. CASE g = due
    <3>1. g - due = d * 0 + 0
      BY <1>1, <2>1
    <3> QED BY <3>1, IsRemainder, 0 \in Int, 0 \in 0..(d - 1)
  <2>2. CASE g # due
    BY <2>2 DEF Pending
  <2> QED BY <2>1, <2>2
<1>3. (g - from) % d = 0
  <2>1. g - due \in Int /\ due - from \in Int /\ g - from = (g - due) + (due - from)
    BY <1>1
  <2> QED BY ZenonT(90), <1>2, <2>1, WholeSteps
<1>4. (to - from) % d = 0
  <2>1. d = d * 1 + 0 /\ d \in Int
    OBVIOUS
  <2>2. d % d = 0
    BY <2>1, IsRemainder, 1 \in Int, 0 \in 0..(d - 1)
  <2>3. g - from \in Int /\ to - from = (g - from) + d
    BY <1>1
  <2>4. ((g - from) + d) % d = (g - from) % d
    BY <2>1, <2>2, <2>3, WholeSteps
  <2> QED BY <1>3, <2>3, <2>4
<1>5. ASSUME NEW t \in Nat, due <= t, t < to, (t - from) % d = 0
      PROVE  t \in Pending(e, due, at)
  <2>1. (t - due) % d = 0
    <3>1. t - due \in Int /\ due - from \in Int /\ t - from = (t - due) + (due - from)
      OBVIOUS
    <3> QED BY ZenonT(90), <1>5, <3>1, WholeSteps
  <2>2. t <= g
    <3>1. t - g \in Int /\ g - due \in Int /\ t - due = (t - g) + (g - due)
      BY <1>1
    <3>2. (t - g) % d = 0
      BY ZenonT(90), <1>2, <2>1, <3>1, WholeSteps
    <3>3. t - g > 0 => t - g >= d
      BY <1>2, <3>1, <3>2, WholeSteps
    <3> QED BY <1>1, <1>5, <3>3
  <2> QED BY <1>1, <1>5, <2>1, <2>2 DEF Pending
<1> QED BY <1>1, <1>4, <1>5

\* Where a schedule goes next, no instant lies between that was not pending.
LEMMA NextSkipsNone ==
  ASSUME NEW e \in Expressions, NEW from \in Nat, NEW due \in Nat, NEW at \in Nat,
         due <= at, due > from, Falls(e, from, due),
         NEW g \in Pending(e, due, at), \A t \in Pending(e, due, at) : t <= g,
         NEW next, next = NextAfter(e, at, g)
  PROVE  /\ next > from /\ Falls(e, from, next)
         /\ \A t \in Nat : due <= t /\ t < next /\ Falls(e, from, t) => t \in Pending(e, due, at)
<1>1. g \in Nat
  BY PendingIs
<1>2. CASE e.kind = "cron"
  <2>1. /\ next \in Nat /\ next > at /\ OnGrid(e, next)
        /\ \A t \in Nat : at < t /\ t < next => ~OnGrid(e, t)
    <3>1. g \in Nat \cup {NoInstant}
      BY <1>1
    <3> QED BY <1>2, <3>1, NextIs
  <2>2. ASSUME NEW t \in Nat, due <= t, t < next, Falls(e, from, t)
        PROVE  t \in Pending(e, due, at)
    <3>1. OnGrid(e, t)
      BY <1>2, <2>2 DEF Falls
    <3>2. t <= at
      BY <2>1, <2>2, <3>1
    <3> QED BY <1>2, <2>2, <3>1, <3>2 DEF Pending
  <2> QED BY <1>2, <2>1, <2>2 DEF Falls
<1>3. CASE e.kind # "cron"
  <2>1. next = g + e.every
    BY <1>1, <1>3, NextIs
  <2>2. (due - from) % e.every = 0
    BY <1>3 DEF Falls
  <2>3. /\ next > from /\ (next - from) % e.every = 0
        /\ \A t \in Nat : due <= t /\ t < next /\ (t - from) % e.every = 0
             => t \in Pending(e, due, at)
    BY <1>3, <2>1, <2>2, IntervalGoesOn
  <2>4. Falls(e, from, next)
    BY <1>3, <2>3, Zenon DEF Falls
  <2>5. ASSUME NEW t \in Nat, due <= t, t < next, Falls(e, from, t)
        PROVE  t \in Pending(e, due, at)
    <3>1. (t - from) % e.every = 0
      BY <1>3, <2>5, Zenon DEF Falls
    <3> QED BY <2>3, <2>5, <3>1
  <2> QED BY <2>3, <2>4, <2>5
<1> QED BY <1>2, <1>3

\* A tick that turns to a row answers for every instant that is pending.
LEMMA BeginHandles ==
  ASSUME NEW todo \in Seq(Item), todo # <<>>, NEW at \in Nat,
         Answered(Head(todo).s, Head(todo).row), Head(todo).row.next <= at,
         Missed(Head(todo).row.expr, Head(todo).row.next, at)
           = Pending(Head(todo).row.expr, Head(todo).row.next, at)
  PROVE  Handled(Head(todo).s, Head(todo).row, at,
                 Begin(todo, at).fire, Begin(todo, at).passed, Begin(todo, at).next)
<1> PICK s, row, begun :
      s = Head(todo).s /\ row = Head(todo).row /\ begun = Begin(todo, at)
  OBVIOUS
<1> PICK pending, e, due, from :
      /\ e = row.expr /\ due = row.next /\ from = created[s]
      /\ pending = Pending(e, due, at)
  OBVIOUS
<1>1. Head(todo) \in Item
  OBVIOUS
<1>2. e \in Expressions /\ due \in Nat
  BY <1>1 DEF Item, Row
<1>3. /\ begun.passed = pending \ begun.fire
      /\ begun.next = NextAfter(e, at, Greatest(pending))
      /\ Greatest(pending) \in pending /\ \A t \in pending : t <= Greatest(pending)
  <2> PICK missed : missed = Missed(Head(todo).row.expr, Head(todo).row.next, at)
    OBVIOUS
  <2>1. /\ Begin(todo, at).passed = missed \ Begin(todo, at).fire
        /\ Begin(todo, at).next = NextAfter(Head(todo).row.expr, at, Greatest(missed))
        /\ Greatest(missed) \in missed /\ \A t \in missed : t <= Greatest(missed)
    BY BeginIs
  <2>2. missed = pending
    OBVIOUS
  <2> QED BY <2>1, <2>2, Zenon
<1>4. e = Expression[s] /\ from \in Nat /\ due > from /\ On(s, due) /\ due <= at
  BY DEF Answered
<1> PICK g, next : g = Greatest(pending) /\ next = begun.next
  OBVIOUS
<1>5. /\ g \in Nat /\ g \in pending /\ \A t \in pending : t <= g
      /\ next = NextAfter(e, at, g)
  BY <1>2, <1>3, PendingIs
<1>6. /\ next > from /\ On(s, next)
      /\ \A t \in Nat : due <= t /\ t < next /\ On(s, t) => t \in pending
  <2>1. Falls(e, from, due)
    BY <1>4 DEF On
  <2>2. /\ next > from /\ Falls(e, from, next)
        /\ \A t \in Nat : due <= t /\ t < next /\ Falls(e, from, t) => t \in pending
    BY ZenonT(90), <1>2, <1>4, <1>5, <2>1, NextSkipsNone
  <2> QED BY <1>4, <2>2 DEF On
<1>7. \A t \in pending : t \in begun.fire \cup begun.passed
  BY <1>3
<1> QED BY <1>6, <1>7 DEF Handled

\* What a tick still has to do about its other rows, once it is done with one.
LEMMA DoneOwes ==
  ASSUME Types, NEW p \in Replicas, InTick(p), ListOwes(p), Done(p), Grows
  PROVE  ListOwes(p)' /\ TickOwes(p)'
<1> PICK todo, rest, at :
      todo = firer[p].todo /\ rest = Tail(firer[p].todo) /\ at = firer[p].now
  OBVIOUS
<1>1. /\ rest \in Seq(Item)
      /\ \A i \in DOMAIN rest :
           i + 1 \in DOMAIN todo /\ rest[i] = todo[i + 1] /\ rest[i].s \in Schedules
  BY TailIs
<1>2. at \in Nat
  BY AtHand DEF InTick
<1>3. PICK next : next = Begin(rest, at) /\ firer'[p] = next
  BY DEF Done, Types, TickTypes
<1>4. rest = <<>> => next = AtRest
  BY ZenonT(90), <1>3 DEF Begin
<1>5. rest # <<>> => next.todo = rest /\ next.pc = "judge" /\ next.now = at
  BY ZenonT(90), <1>3 DEF Begin, AtRest
<1>6. \A i \in DOMAIN rest :
        /\ Answered(rest[i].s, rest[i].row) /\ rest[i].row.next <= at
        /\ Missed(rest[i].row.expr, rest[i].row.next, at)
             = Pending(rest[i].row.expr, rest[i].row.next, at)
  BY <1>1 DEF ListOwes
<1>7. CASE rest = <<>>
  <2>1. firer'[p] = AtRest
    BY <1>3, <1>4, <1>7
  <2> QED BY <2>1, AtRestIsTrue DEF ListOwes, TickOwes
<1>8. CASE rest # <<>>
  <2>1. firer'[p].todo = rest /\ firer'[p].pc = "judge" /\ firer'[p].now = at
    BY <1>3, <1>5, <1>8
  <2>2. ASSUME NEW i \in DOMAIN rest PROVE Answered(rest[i].s, rest[i].row)'
    <3> PICK s, row : s = rest[i].s /\ row = rest[i].row
      OBVIOUS
    <3>1. s \in Schedules /\ Answered(s, row)
      BY <1>1, <1>6
    <3>2. Answered(s, row)'
      BY <3>1, AnsweredStays
    <3> QED BY <3>2
  <2>3. ListOwes(p)'
    BY <1>6, <2>1, <2>2 DEF ListOwes
  <2>4. 1 \in DOMAIN rest /\ Head(rest) = rest[1]
    BY <1>1, <1>8
  <2> PICK s, row, fire, dropped, to :
        /\ s = Head(rest).s /\ row = Head(rest).row
        /\ fire = next.fire /\ dropped = next.passed /\ to = next.next
    OBVIOUS
  <2>5. Handled(s, row, at, fire, dropped, to)
    BY <1>1, <1>2, <1>3, <1>6, <1>8, <2>4, BeginHandles
  <2>6. s \in Schedules /\ created[s] \in Nat
    BY <1>1, <1>6, <2>4 DEF Answered
  <2>7. Handled(s, row, at, fire, dropped, to)'
    BY <2>5, <2>6, HandledStays
  <2>8. Sched(p)' = s /\ Snap(p)' = row
    BY <2>1 DEF Sched, Snap
  <2>9. TickOwes(p)'
    BY <1>3, <2>1, <2>7, <2>8 DEF TickOwes
  <2> QED BY <2>3, <2>9
<1> QED BY <1>7, <1>8

LEMMA InitOwes == Init => OwedInv
<1> SUFFICES ASSUME Init PROVE OwedInv
  OBVIOUS
<1>1. \A p \in Replicas : firer[p].todo = <<>> /\ firer[p].pc = "idle"
  BY DEF Init, AtRest
<1>2. \A p \in Replicas : ListOwes(p) /\ TickOwes(p)
  <2>1. \A p \in Replicas : DOMAIN firer[p].todo = {}
    BY <1>1
  <2> QED BY <1>1, <2>1 DEF ListOwes, TickOwes, InTick
<1>3. RowsAnswered
  BY DEF Init, RowsAnswered, IsRow
<1> QED BY <1>2, <1>3 DEF OwedInv

\* What a step that leaves the tickers alone keeps of what they owe.
LEMMA TickersStill ==
  ASSUME Types, OwedInv, Grows, NEW p \in Replicas, firer'[p] = firer[p]
  PROVE  ListOwes(p)' /\ TickOwes(p)'
<1> PICK t : t = firer[p]
  OBVIOUS
<1>1. ListOwes(p)'
  <2> SUFFICES ASSUME NEW i \in DOMAIN t.todo
               PROVE  /\ Answered(t.todo[i].s, t.todo[i].row)'
                      /\ t.todo[i].row.next <= t.now
                      /\ Missed(t.todo[i].row.expr, t.todo[i].row.next, t.now)
                           = Pending(t.todo[i].row.expr, t.todo[i].row.next, t.now)
    BY DEF ListOwes
  <2> PICK item : item = t.todo[i]
    OBVIOUS
  <2>1. /\ Answered(item.s, item.row)
        /\ item.row.next <= t.now
        /\ Missed(item.row.expr, item.row.next, t.now)
             = Pending(item.row.expr, item.row.next, t.now)
    BY DEF OwedInv, ListOwes
  <2>2. t.todo \in Seq(Item)
    BY DEF Types, TickTypes, Tickers
  <2>3. item \in Item
    BY <2>2
  <2>4. item.s \in Schedules
    BY <2>3 DEF Item
  <2>5. \A row : Answered(item.s, row) => Answered(item.s, row)'
    BY <2>4, AnsweredStays
  <2> QED BY <2>1, <2>5
<1>2. TickOwes(p)'
  <2> SUFFICES ASSUME InTick(p) PROVE TickOwes(p)'
    BY DEF TickOwes, InTick
  <2> PICK s, row : s = Sched(p) /\ row = Snap(p)
    OBVIOUS
  <2>1. s \in Schedules /\ created[s] \in Nat
    <3>1. 1 \in DOMAIN firer[p].todo /\ Sched(p) = firer[p].todo[1].s
      BY TailIs
    <3>2. s \in Schedules
      BY AtHand DEF InTick
    <3> QED BY <3>1, <3>2 DEF OwedInv, ListOwes, Answered
  <2>2. Handled(s, row, t.now, t.fire, t.passed, t.next) /\ (t.pc = "advance" => t.fire = {})
    BY DEF OwedInv, TickOwes
  <2>3. Handled(s, row, t.now, t.fire, t.passed, t.next)'
    BY <2>1, <2>2, HandledStays
  <2>4. Sched(p)' = s /\ Snap(p)' = row
    BY DEF Sched, Snap
  <2> QED BY <2>2, <2>3, <2>4 DEF TickOwes
<1> QED BY <1>1, <1>2

\* Where a schedule goes first.
LEMMA FirstIs ==
  ASSUME NEW e \in Expressions, NEW from \in Nat, NEW next,
         next = NextAfter(e, from, NoInstant)
  PROVE  /\ next \in Nat /\ next > from /\ Falls(e, from, next)
         /\ \A t \in Nat : from < t /\ t < next => ~Falls(e, from, t)
<1> PICK d \in Nat \ {0} : d = e.every
  BY DEF Expressions
<1>1. NoInstant \in Nat \cup {NoInstant} /\ NoInstant \notin Nat
  BY WalkAssumption
<1>2. CASE e.kind = "cron"
  BY <1>1, <1>2, NextIs DEF Falls
<1>3. CASE e.kind # "cron"
  <2>1. next = from + d
    BY <1>1, <1>3, NextIs
  <2>2. next \in Nat /\ next > from /\ next - from = d * 1 + 0
    BY <2>1
  <2>3. (next - from) % d = 0 /\ 0 % d = 0
    <3>1. 0 = d * 0 + 0 /\ 0 \in 0..(d - 1)
      OBVIOUS
    <3> QED BY <2>2, <3>1, IsRemainder, 0 \in Int, 1 \in Int
  <2>4. ASSUME NEW t \in Nat, from < t, t < next, (t - from) % d = 0 PROVE FALSE
    <3>1. t - from \in Int /\ t - from > 0 /\ ~(t - from >= d)
      BY <2>1, <2>4
    <3> QED BY <2>3, <2>4, <3>1, WholeSteps, 0 \in Int
  <2>5. Falls(e, from, next)
    BY <1>3, <2>3 DEF Falls
  <2>6. \A t \in Nat : from < t /\ t < next => ~Falls(e, from, t)
    BY <1>3, <2>4 DEF Falls
  <2> QED BY <2>2, <2>5, <2>6
<1> QED BY <1>2, <1>3

\* What is asked of a row is about its expression and its next firing.
LEMMA AnsweredBy ==
  ASSUME NEW s, NEW row, Answered(s, row), NEW other, other.expr = row.expr,
         other.next = row.next
  PROVE  Answered(s, other)
BY DEF Answered

LEMMA RowsStill ==
  ASSUME Grows, RowsAnswered, UNCHANGED <<rows, patching>>
  PROVE  RowsAnswered'
BY AnsweredStays DEF RowsAnswered, IsRow

\* A step that leaves the stored rows alone, but one, and the patches.
LEMMA RowChanges ==
  ASSUME Types, Grows, RowsAnswered, UNCHANGED patching, NEW s \in Schedules, NEW row,
         rows' = [rows EXCEPT ![s] = row], row # NoRow => Answered(s, row)'
  PROVE  RowsAnswered'
<1> SUFFICES ASSUME NEW x \in Schedules, NEW new, new = rows'[x], NEW patch, patch = patching[x]
             PROVE  /\ new # NoRow => Answered(x, new)'
                    /\ patch # Nobody => Answered(x, patch.row)'
  BY DEF RowsAnswered, IsRow
<1>1. \A old : Answered(x, old) => Answered(x, old)'
  BY AnsweredStays
<1>2. patch # Nobody => Answered(x, patch.row)'
  BY <1>1 DEF RowsAnswered
<1>3. CASE x = s
  <2>1. new = row
    BY <1>3 DEF Types, RowTypes
  <2> QED BY <1>2, <1>3, <2>1
<1>4. CASE x # s
  <2>1. new = rows[x]
    BY <1>4 DEF Types, RowTypes
  <2>2. new # NoRow => Answered(x, new)
    BY <2>1 DEF RowsAnswered, IsRow
  <2> QED BY <1>1, <1>2, <2>2
<1> QED BY <1>3, <1>4

LEMMA PeopleOwe ==
  ASSUME Types, OwedInv, \A change \in Changes : change.expr = Keep,
         \/ \E s \in Schedules : People(s)
         \/ \E r \in DOMAIN runs : RunEnds(r)
         \/ Clock
  PROVE  OwedInv'
<1>1. UNCHANGED <<firer, fired, passed>>
  <2>1. CASE Clock \/ \E r \in DOMAIN runs : RunEnds(r)
    BY <2>1 DEF Clock, RunEnds, tickVars, historyVars
  <2>2. ASSUME NEW s \in Schedules, Create(s) \/ Delete(s) \/ PatchWrite(s) \/ RunNow(s)
        PROVE  UNCHANGED <<firer, fired, passed>>
    BY <2>2 DEF Create, Delete, PatchWrite, RunNow, tickVars, historyVars
  <2>3. ASSUME NEW s \in Schedules, NEW change \in Changes, PatchRead(s, change)
        PROVE  UNCHANGED <<firer, fired, passed>>
    BY <2>3 DEF PatchRead, tickVars, historyVars
  <2> QED BY <2>1, <2>2, <2>3 DEF People
<1>2. Grows
  <2>1. NoInstant \notin Nat
    BY WalkAssumption
  <2>2. ASSUME NEW s \in Schedules, Create(s) PROVE Grows
    BY <1>1, <2>1, <2>2 DEF Create, Grows, Types, RowTypes
  <2>3. CASE UNCHANGED created
    BY <1>1, <2>3 DEF Grows
  <2>4. ASSUME NEW s \in Schedules, Delete(s) \/ PatchWrite(s) \/ RunNow(s)
        PROVE  UNCHANGED created
    BY <2>4 DEF Delete, PatchWrite, RunNow, scheduleVars
  <2>5. ASSUME NEW s \in Schedules, NEW change \in Changes, PatchRead(s, change)
        PROVE  UNCHANGED created
    BY <2>5 DEF PatchRead
  <2>6. Clock \/ (\E r \in DOMAIN runs : RunEnds(r)) => UNCHANGED created
    BY DEF Clock, RunEnds, scheduleVars
  <2> QED BY <2>2, <2>3, <2>4, <2>5, <2>6 DEF People
<1>3. RowsAnswered
  BY DEF OwedInv
<1>4. RowsAnswered'
  <2>1. CASE UNCHANGED <<rows, patching>>
    BY <1>2, <1>3, <2>1, RowsStill
  <2>2. ASSUME NEW s \in Schedules, Create(s) PROVE RowsAnswered'
    <3> DEFINE new == [expr |-> Expression[s], enabled |-> TRUE,
                       next |-> NextAfter(Expression[s], now, NoInstant),
                       lastFired |-> NoInstant, lastRun |-> NoRun]
    <3>1. PICK row, from : row = new /\ from = now
      OBVIOUS
    <3>2. /\ rows' = [rows EXCEPT ![s] = row] /\ UNCHANGED patching /\ created'[s] = from
          /\ from \in Nat /\ Expression[s] \in Expressions
      BY <2>2, <3>1, SchedulerAssumption, ExpressionAssumption DEF Create, Types, RowTypes
    <3>3. row.expr = Expression[s] /\ row.next = NextAfter(Expression[s], from, NoInstant)
      BY <3>1
    <3>4. /\ row.next > from /\ Falls(Expression[s], from, row.next)
          /\ \A t \in Nat : from < t /\ t < row.next => ~Falls(Expression[s], from, t)
      BY <3>2, <3>3, FirstIs
    <3>5. Answered(s, row)'
      BY <3>2, <3>3, <3>4 DEF Answered, On
    <3> QED BY <1>2, <1>3, <3>2, <3>5, RowChanges
  <2>3. ASSUME NEW s \in Schedules, Delete(s) PROVE RowsAnswered'
    <3>1. rows' = [rows EXCEPT ![s] = NoRow] /\ UNCHANGED patching
      BY <2>3 DEF Delete
    <3> QED BY <1>2, <1>3, <3>1, RowChanges
  <2>4. ASSUME NEW s \in Schedules, NEW change \in Changes, PatchRead(s, change)
        PROVE  RowsAnswered'
    <3>1. PICK patch : /\ patching' = [patching EXCEPT ![s] = patch]
                       /\ patch.row = rows[s] /\ IsRow(s) /\ UNCHANGED rows
      <4> DEFINE new == [change |-> change, row |-> rows[s], at |-> now]
      <4>1. patching' = [patching EXCEPT ![s] = new] /\ new.row = rows[s]
            /\ IsRow(s) /\ UNCHANGED rows
        BY <2>4 DEF PatchRead
      <4> HIDE DEF new
      <4> QED BY <4>1
    <3> SUFFICES ASSUME NEW x \in Schedules, NEW row, NEW was, row = rows[x], was = patching'[x]
                 PROVE  /\ row # NoRow => Answered(x, row)'
                        /\ was # Nobody => Answered(x, was.row)'
      BY <3>1 DEF RowsAnswered, IsRow
    <3>2. \A old : Answered(x, old) => Answered(x, old)'
      BY <1>2, AnsweredStays
    <3>3. (was = patch /\ x = s) \/ was = patching[x]
      BY <3>1 DEF Types, RowTypes
    <3>4. was # Nobody => Answered(x, was.row)
      BY <1>3, <3>1, <3>3 DEF RowsAnswered
    <3> QED BY <1>3, <3>2, <3>4 DEF RowsAnswered, IsRow
  <2>5. ASSUME NEW s \in Schedules, PatchWrite(s) PROVE RowsAnswered'
    <3>1. PICK patch : patch = patching[s]
      OBVIOUS
    <3>2. /\ patch # Nobody /\ patching' = [patching EXCEPT ![s] = Nobody]
          /\ patch.change \in Changes
      BY <2>5, <3>1 DEF PatchWrite, Types, RowTypes, Patches
    <3>3. patch.change.expr = Keep /\ Answered(s, patch.row)
      BY <1>3, <3>1, <3>2 DEF RowsAnswered
    <3>4. \A x \in Schedules : \A row :
            /\ row = rows'[x] /\ row # NoRow => Answered(x, row)
      <4>1. CASE ~IsRow(s)
        BY <1>3, <2>5, <4>1 DEF PatchWrite, RowsAnswered, IsRow
      <4>2. CASE IsRow(s)
        <5>1. PICK new : /\ rows' = [rows EXCEPT ![s] = new]
                         /\ new.expr = patch.row.expr /\ new.next = patch.row.next
          <6> DEFINE enabled == IF patch.change.enabled = Keep THEN rows[s].enabled
                                ELSE patch.change.enabled
                     row == [rows[s] EXCEPT !.expr = patch.row.expr, !.next = patch.row.next,
                                            !.enabled = enabled]
          <6>1. rows' = [rows EXCEPT ![s].expr = patch.row.expr, ![s].next = patch.row.next,
                                ![s].enabled = IF patch.change.enabled = Keep THEN @
                                               ELSE patch.change.enabled]
            BY <2>5, <3>1, <3>3, <4>2 DEF PatchWrite
          <6>2. rows[s] \in Row
            BY <4>2 DEF Types, RowTypes, IsRow
          <6>3. rows' = [rows EXCEPT ![s] = row]
            BY <6>1, <6>2 DEF Types, RowTypes
          <6>4. row.expr = patch.row.expr /\ row.next = patch.row.next
            BY <6>2 DEF Row
          <6> HIDE DEF row
          <6> QED BY <6>3, <6>4
        <5>2. Answered(s, new)
          BY <3>3, <5>1, AnsweredBy
        <5> SUFFICES ASSUME NEW x \in Schedules, NEW row, row = rows'[x], row # NoRow
                     PROVE  Answered(x, row)
          OBVIOUS
        <5>3. (x = s /\ row = new) \/ (x # s /\ row = rows[x])
          BY <5>1 DEF Types, RowTypes
        <5> QED BY <1>3, <5>2, <5>3 DEF RowsAnswered, IsRow
      <4> QED BY <4>1, <4>2
    <3> SUFFICES ASSUME NEW x \in Schedules, NEW row, NEW was, row = rows'[x], was = patching'[x]
                 PROVE  /\ row # NoRow => Answered(x, row)'
                        /\ was # Nobody => Answered(x, was.row)'
      BY DEF RowsAnswered, IsRow
    <3>5. \A old : Answered(x, old) => Answered(x, old)'
      BY <1>2, AnsweredStays
    <3>6. was # Nobody => was = patching[x]
      BY <3>2 DEF Types, RowTypes
    <3> QED BY <1>3, <3>4, <3>5, <3>6 DEF RowsAnswered
  <2>6. (\E s \in Schedules : RunNow(s)) \/ (\E r \in DOMAIN runs : RunEnds(r)) \/ Clock
          => UNCHANGED <<rows, patching>>
    BY DEF RunNow, RunEnds, Clock, scheduleVars
  <2> QED BY <2>1, <2>2, <2>3, <2>4, <2>5, <2>6 DEF People
<1>5. \A p \in Replicas : ListOwes(p)' /\ TickOwes(p)'
  BY <1>1, <1>2, TickersStill
<1> QED BY <1>4, <1>5 DEF OwedInv

\* A step within a tick's work on one row: it has to say what it still owes.
LEMMA StaysOwing ==
  ASSUME Types, OwedInv, Grows, UNCHANGED <<rows, patching>>,
         NEW p \in Replicas, InTick(p), NEW next, firer' = [firer EXCEPT ![p] = next],
         next.todo = firer[p].todo, next.now = firer[p].now, next.next = firer[p].next,
         \A t \in firer[p].fire \cup firer[p].passed :
           t \in next.fire \cup next.passed \/ Accounted(Sched(p), t)',
         next.pc = "advance" => next.fire = {}
  PROVE  OwedInv'
<1>1. firer'[p] = next /\ \A q \in Replicas : q # p => firer'[q] = firer[q]
  BY DEF Types, TickTypes
<1>2. ListOwes(p)'
  <2> SUFFICES ASSUME NEW i \in DOMAIN next.todo
               PROVE  /\ Answered(next.todo[i].s, next.todo[i].row)'
                      /\ next.todo[i].row.next <= next.now
                      /\ Missed(next.todo[i].row.expr, next.todo[i].row.next, next.now)
                           = Pending(next.todo[i].row.expr, next.todo[i].row.next, next.now)
    BY <1>1 DEF ListOwes
  <2> PICK item : item = next.todo[i]
    OBVIOUS
  <2>1. /\ Answered(item.s, item.row)
        /\ item.row.next <= next.now
        /\ Missed(item.row.expr, item.row.next, next.now)
             = Pending(item.row.expr, item.row.next, next.now)
    BY DEF OwedInv, ListOwes
  <2>2. firer[p].todo \in Seq(Item)
    BY DEF Types, TickTypes, Tickers
  <2>3. item \in Item
    BY <2>2
  <2>4. item.s \in Schedules
    BY <2>3 DEF Item
  <2>5. \A row : Answered(item.s, row) => Answered(item.s, row)'
    BY <2>4, AnsweredStays
  <2> QED BY <2>1, <2>5
<1>3. TickOwes(p)'
  <2> PICK s, row : s = Sched(p) /\ row = Snap(p)
    OBVIOUS
  <2>1. s \in Schedules /\ created[s] \in Nat
    <3>1. 1 \in DOMAIN firer[p].todo /\ Sched(p) = firer[p].todo[1].s
      BY TailIs
    <3>2. s \in Schedules
      BY AtHand DEF InTick
    <3> QED BY <3>1, <3>2 DEF OwedInv, ListOwes, Answered
  <2> PICK fire, dropped : fire = firer[p].fire /\ dropped = firer[p].passed
    OBVIOUS
  <2>2. Handled(s, row, next.now, fire, dropped, next.next)
    BY DEF OwedInv, TickOwes
  <2>3. Handled(s, row, next.now, fire, dropped, next.next)'
    BY <2>1, <2>2, HandledStays
  <2>4. Sched(p)' = s /\ Snap(p)' = row
    BY <1>1 DEF Sched, Snap
  <2>5. \A t \in fire \cup dropped : t \in next.fire \cup next.passed \/ Accounted(s, t)'
    <3>1. \A t : Accounted(Sched(p), t)' => Accounted(s, t)'
      BY <1>1, <2>4 DEF Accounted
    <3> QED BY <3>1
  <2>6. Handled(s, row, next.now, next.fire, next.passed, next.next)'
    BY <2>3, <2>5 DEF Handled
  <2> QED BY <1>1, <2>4, <2>6 DEF TickOwes
<1>4. \A q \in Replicas : q # p => ListOwes(q)' /\ TickOwes(q)'
  BY <1>1, TickersStill
<1>5. RowsAnswered'
  BY RowsStill DEF OwedInv
<1> QED BY <1>2, <1>3, <1>4, <1>5 DEF OwedInv

LEMMA JudgeOwes ==
  ASSUME Types, OwedInv, NEW p \in Replicas, Judge(p) \/ Replace(p)
  PROVE  OwedInv'
<1>1. /\ InTick(p) /\ firer[p] \in Tickers
      /\ UNCHANGED <<rows, patching, created, fired, passed>>
  BY DEF Judge, Replace, InTick, Types, TickTypes, scheduleVars, historyVars
<1>2. Grows
  BY <1>1 DEF Grows
<1>3. \/ \E pc \in {"advance", "enqueue", "replace"} :
           /\ firer' = [firer EXCEPT ![p].pc = pc]
           /\ pc = "advance" => firer[p].fire = {}
      \/ /\ firer' = [firer EXCEPT ![p].fire = @ \ {Instant(p)}, ![p].passed = @ \cup {Instant(p)}]
         /\ firer[p].pc = "judge"
  BY DEF Judge, Replace
<1>4. CASE \E pc \in {"advance", "enqueue", "replace"} :
             /\ firer' = [firer EXCEPT ![p].pc = pc]
             /\ pc = "advance" => firer[p].fire = {}
  <2>1. PICK pc : /\ firer' = [firer EXCEPT ![p].pc = pc]
                  /\ pc = "advance" => firer[p].fire = {}
    BY <1>4
  <2> DEFINE new == [firer[p] EXCEPT !.pc = pc]
  <2>2. PICK next : next = new
    OBVIOUS
  <2>3. firer' = [firer EXCEPT ![p] = next]
    BY <2>1, <2>2
  <2>4. /\ next.todo = firer[p].todo /\ next.now = firer[p].now /\ next.next = firer[p].next
        /\ next.fire = firer[p].fire /\ next.passed = firer[p].passed /\ next.pc = pc
    BY <1>1, <2>2 DEF Tickers
  <2> QED BY <1>1, <1>2, <2>1, <2>3, <2>4, StaysOwing
<1>5. CASE /\ firer' = [firer EXCEPT ![p].fire = @ \ {Instant(p)},
                                     ![p].passed = @ \cup {Instant(p)}]
           /\ firer[p].pc = "judge"
  <2> DEFINE fire == firer[p].fire \ {Instant(p)}
             passed1 == firer[p].passed \cup {Instant(p)}
             new == [firer[p] EXCEPT !.fire = fire, !.passed = passed1]
  <2>1. PICK next : next = new
    OBVIOUS
  <2>2. firer' = [firer EXCEPT ![p] = next]
    BY <1>1, <1>5, <2>1 DEF Types, TickTypes
  <2>3. /\ next.todo = firer[p].todo /\ next.now = firer[p].now /\ next.next = firer[p].next
        /\ next.fire = fire /\ next.passed = passed1 /\ next.pc = "judge"
    BY <1>1, <1>5, <2>1 DEF Tickers
  <2>4. \A t \in firer[p].fire \cup firer[p].passed : t \in next.fire \cup next.passed
    BY <2>3
  <2> QED BY <1>1, <1>2, <2>2, <2>3, <2>4, StaysOwing
<1> QED BY <1>3, <1>4, <1>5

LEMMA EnqueueOwes ==
  ASSUME Types, OwedInv, NEW p \in Replicas, Enqueue(p)
  PROVE  OwedInv'
<1> PICK s, r, at, fire :
      /\ s = Sched(p) /\ r = RunId(Sched(p), InstantKey(p)) /\ at = Instant(p)
      /\ fire = firer[p].fire \ {Instant(p)}
  OBVIOUS
<1>1. /\ InTick(p) /\ firer[p] \in Tickers
      /\ UNCHANGED <<rows, patching, created, passed>>
      /\ fired' = fired \cup {<<s, at, r>>}
      /\ firer' = [firer EXCEPT ![p].pc = "judge", ![p].fire = fire, ![p].made = r]
  BY DEF Enqueue, InTick, Types, TickTypes, scheduleVars
<1>2. Grows
  BY <1>1 DEF Grows
<1> DEFINE new == [firer[p] EXCEPT !.pc = "judge", !.fire = fire, !.made = r]
<1>3. PICK next : next = new
  OBVIOUS
<1>4. firer' = [firer EXCEPT ![p] = next]
  BY <1>1, <1>3 DEF Types, TickTypes
<1>5. /\ next.todo = firer[p].todo /\ next.now = firer[p].now /\ next.next = firer[p].next
      /\ next.fire = fire /\ next.passed = firer[p].passed /\ next.pc = "judge"
  BY <1>1, <1>3 DEF Tickers
<1>6. firer'[p] = next
  BY <1>4 DEF Types, TickTypes
<1>7. Sched(p)' = s
  BY <1>5, <1>6 DEF Sched
<1>8. \A t : t = at => Accounted(Sched(p), t)'
  <2>1. <<s, at, r>> \in fired' /\ <<s, at, r>>[1] = s /\ <<s, at, r>>[2] = at
    BY <1>1
  <2> QED BY <1>7, <2>1 DEF Accounted
<1>9. \A t \in firer[p].fire \cup firer[p].passed :
        t \in next.fire \cup next.passed \/ Accounted(Sched(p), t)'
  BY <1>5, <1>8
<1> QED BY <1>1, <1>2, <1>4, <1>5, <1>9, StaysOwing

LEMMA TickOwing ==
  ASSUME Types, OwedInv, BacklogsWalked, NEW p \in Replicas, Tick(p)
  PROVE  OwedInv'
<1>1. UNCHANGED <<rows, patching, created, fired, passed>>
  BY DEF Tick, scheduleVars, historyVars
<1>2. Grows
  BY <1>1 DEF Grows
<1>3. PICK q \in DueLists :
        firer' = [firer EXCEPT ![p] =
                    Begin([i \in 1..Len(q) |-> [s |-> q[i], row |-> rows[q[i]]]], now)]
  BY DEF Tick
<1> DEFINE list == [i \in 1..Len(q) |-> [s |-> q[i], row |-> rows[q[i]]]]
<1> PICK todo, at : todo = list /\ at = now
  OBVIOUS
<1>4. PICK next : next = Begin(todo, at)
  OBVIOUS
<1>5. /\ Len(q) \in Nat \ {0} /\ \A i \in 1..Len(q) : q[i] \in Due
      /\ todo \in Seq(Item) /\ todo # <<>>
  BY DueListIs
<1>6. /\ DOMAIN todo = 1..Len(q)
      /\ \A i \in 1..Len(q) : todo[i].s = q[i] /\ todo[i].row = rows[q[i]]
  OBVIOUS
<1>7. firer' = [firer EXCEPT ![p] = next] /\ at \in Nat
  BY <1>3, <1>4, SchedulerAssumption DEF Types
<1> HIDE DEF list
<1>8. next.todo = todo /\ next.now = at /\ next.pc = "judge"
  BY <1>4, <1>5 DEF Begin, AtRest
<1>9. firer'[p] = next /\ \A x \in Replicas : x # p => firer'[x] = firer[x]
  BY <1>7 DEF Types, TickTypes
<1>10. ASSUME NEW i \in DOMAIN todo
       PROVE  /\ Answered(todo[i].s, todo[i].row) /\ todo[i].s \in Schedules
              /\ todo[i].row.next <= at
              /\ Missed(todo[i].row.expr, todo[i].row.next, at)
                   = Pending(todo[i].row.expr, todo[i].row.next, at)
  <2> PICK s, row : s = todo[i].s /\ row = todo[i].row
    OBVIOUS
  <2>1. s \in Due /\ row = rows[s]
    BY <1>5, <1>6
  <2>2. s \in Schedules /\ IsRow(s) /\ row \in Row /\ row.next <= at
    BY <2>1 DEF Due, Types, RowTypes, IsRow
  <2>3. Answered(s, row)
    BY <2>1, <2>2 DEF OwedInv, RowsAnswered
  <2>4. Cardinality(Pending(row.expr, row.next, at)) <= MaxWalk
    BY <2>1 DEF BacklogsWalked
  <2>5. row.expr \in Expressions /\ row.next \in Nat
    BY <2>2 DEF Row
  <2>6. Missed(row.expr, row.next, at) = Pending(row.expr, row.next, at)
    BY <1>7, <2>4, <2>5, MissedIsPending
  <2> QED BY <2>2, <2>3, <2>6
<1>11. ListOwes(p)'
  <2>1. ASSUME NEW i \in DOMAIN todo PROVE Answered(todo[i].s, todo[i].row)'
    BY <1>2, <1>10, AnsweredStays
  <2> QED BY <1>8, <1>9, <1>10, <2>1 DEF ListOwes
<1>12. TickOwes(p)'
  <2>1. 1 \in DOMAIN todo /\ Head(todo) = todo[1]
    BY <1>5, <1>6
  <2> PICK s, row, fire, dropped, to :
        /\ s = Head(todo).s /\ row = Head(todo).row
        /\ fire = next.fire /\ dropped = next.passed /\ to = next.next
    OBVIOUS
  <2>2. Handled(s, row, at, fire, dropped, to)
    BY <1>4, <1>5, <1>7, <1>10, <2>1, BeginHandles
  <2>3. s \in Schedules /\ created[s] \in Nat
    BY <1>10, <2>1 DEF Answered
  <2>4. Handled(s, row, at, fire, dropped, to)'
    BY <1>2, <2>2, <2>3, HandledStays
  <2>5. Sched(p)' = s /\ Snap(p)' = row
    BY <1>8, <1>9 DEF Sched, Snap
  <2> QED BY <1>8, <1>9, <2>4, <2>5 DEF TickOwes
<1>13. \A x \in Replicas : x # p => ListOwes(x)' /\ TickOwes(x)'
  BY <1>2, <1>9, TickersStill
<1>14. RowsAnswered'
  BY <1>1, <1>2, RowsStill DEF OwedInv
<1> QED BY <1>11, <1>12, <1>13, <1>14 DEF OwedInv

\* A tick that ends its work on a row, or is cut short.
LEMMA EndsOwing ==
  ASSUME Types, OwedInv, NEW p \in Replicas,
         EnqueueFails(p) \/ Abandon(p) \/ Crash(p)
  PROVE  OwedInv'
<1>1. /\ UNCHANGED <<rows, patching, created, passed>> /\ fired \subseteq fired'
      /\ (InTick(p) /\ Done(p)) \/ Crash(p)
  BY DEF EnqueueFails, GivesUp, Abandon, Crash, InTick, scheduleVars, historyVars
<1>2. Grows
  BY <1>1 DEF Grows
<1>3. \A x \in Replicas : x # p => firer'[x] = firer[x]
  BY <1>1 DEF Done, Crash, Types, TickTypes
<1>4. ListOwes(p)' /\ TickOwes(p)'
  <2>1. CASE InTick(p) /\ Done(p)
    BY <1>2, <2>1, DoneOwes DEF OwedInv
  <2>2. CASE Crash(p)
    <3>1. firer'[p] = AtRest
      BY <2>2 DEF Crash, Types, TickTypes
    <3> QED BY <3>1, AtRestIsTrue DEF ListOwes, TickOwes
  <2> QED BY <1>1, <2>1, <2>2
<1>5. \A x \in Replicas : x # p => ListOwes(x)' /\ TickOwes(x)'
  BY <1>2, <1>3, TickersStill
<1>6. RowsAnswered'
  BY <1>1, <1>2, RowsStill DEF OwedInv
<1> QED BY <1>4, <1>5, <1>6 DEF OwedInv

\* The row moves on, and what was passed over is logged.
LEMMA AdvanceOwes ==
  ASSUME Types, OwedInv, NEW p \in Replicas, Advance(p)
  PROVE  OwedInv'
<1> PICK s, row, next, dropped :
      /\ s = Sched(p) /\ row = Snap(p) /\ next = firer[p].next /\ dropped = firer[p].passed
  OBVIOUS
<1>1. /\ firer[p].pc = "advance" /\ InTick(p) /\ Done(p)
      /\ UNCHANGED <<patching, created, fired>>
      /\ passed' = passed \cup {<<s, t>> : t \in dropped}
      /\ rows' = IF IsRow(s) THEN [rows EXCEPT ![s] = Advanced(p, rows[s])] ELSE rows
  BY DEF Advance, InTick
<1>2. Grows
  BY <1>1 DEF Grows
<1>3. ListOwes(p)' /\ TickOwes(p)'
  BY <1>1, <1>2, DoneOwes DEF OwedInv
<1>4. \A x \in Replicas : x # p => ListOwes(x)' /\ TickOwes(x)'
  <2>1. \A x \in Replicas : x # p => firer'[x] = firer[x]
    BY <1>1 DEF Done, Types, TickTypes
  <2> QED BY <1>2, <2>1, TickersStill
<1>5. RowsAnswered /\ s \in Schedules
  BY <1>1, AtHand DEF OwedInv
<1>6. CASE ~IsRow(s)
  <2>1. UNCHANGED rows
    BY <1>1, <1>6
  <2>2. RowsAnswered'
    BY <1>1, <1>2, <1>5, <2>1, RowsStill
  <2> QED BY <1>3, <1>4, <2>2 DEF OwedInv
<1>7. CASE IsRow(s)
  <2>1. PICK new : new = Advanced(p, rows[s])
    OBVIOUS
  <2>2. rows[s] \in Row /\ rows[s].expr = Expression[s]
    BY <1>5, <1>7 DEF Types, RowTypes, IsRow, RowsAnswered, Answered
  <2>3. new.expr = Expression[s] /\ new.next = next /\ new \in Row
    BY <1>1, <2>1, <2>2, AdvancedIs
  <2>4. Answered(s, row)
    <3>1. 1 \in DOMAIN firer[p].todo /\ Sched(p) = firer[p].todo[1].s
          /\ Snap(p) = firer[p].todo[1].row
      BY <1>1, TailIs
    <3> QED BY <3>1 DEF OwedInv, ListOwes
  <2>5. Handled(s, row, firer[p].now, {}, dropped, next)
    BY <1>1 DEF OwedInv, TickOwes
  <2>6. ASSUME NEW t \in Nat, created[s] < t, t < next, On(s, t)
        PROVE  Accounted(s, t)'
    <3>1. CASE t < row.next
      <4>1. Accounted(s, t)
        BY <2>4, <2>6, <3>1 DEF Answered
      <4> QED BY <1>1, <4>1 DEF Accounted
    <3>2. CASE row.next <= t
      <4>1. t \in dropped \/ Accounted(s, t)
        BY <2>5, <2>6, <3>2 DEF Handled
      <4> QED BY <1>1, <4>1 DEF Accounted
    <3>3. row.next \in Nat
      BY <1>1, AtHand DEF Row
    <3> QED BY <3>1, <3>2, <3>3
  <2>7. created[s] \in Nat /\ next > created[s] /\ On(s, next)
    BY <2>4, <2>5 DEF Answered, Handled
  <2>8. \A t : On(s, t)' <=> On(s, t)
    BY <1>1 DEF On
  <2>9. Answered(s, new)'
    BY <1>1, <2>3, <2>6, <2>7, <2>8 DEF Answered
  <2>10. rows' = [rows EXCEPT ![s] = new] /\ UNCHANGED patching
    BY <1>1, <1>7, <2>1
  <2>11. RowsAnswered'
    BY <1>2, <1>5, <2>9, <2>10, RowChanges
  <2> QED BY <1>3, <1>4, <2>11 DEF OwedInv
<1> QED BY <1>6, <1>7

LEMMA OwedKept ==
  ASSUME Types, OwedInv, BacklogsWalked, \A change \in Changes : change.expr = Keep, [Next]_vars
  PROVE  OwedInv'
<1>1. CASE UNCHANGED vars \/ LoseLock
  <2>1. UNCHANGED <<rows, patching, created, firer, fired, passed>>
    BY <1>1 DEF LoseLock, vars, scheduleVars, runVars, tickVars, historyVars
  <2>2. Grows
    BY <2>1 DEF Grows
  <2>3. \A x \in Replicas : ListOwes(x)' /\ TickOwes(x)'
    BY <2>1, <2>2, TickersStill
  <2>4. RowsAnswered'
    BY <2>1, <2>2, RowsStill DEF OwedInv
  <2> QED BY <2>3, <2>4 DEF OwedInv
<1> QED BY <1>1, PeopleOwe, TickOwing, JudgeOwes, EnqueueOwes, EndsOwing, AdvanceOwes
        DEF Next, Fire

\* A schedule never moves past an instant silently, whatever fails, stops or
\* loses the lock between any two statements of a tick, whatever ticks besides,
\* and however often the row is disabled, enabled, patched over or deleted: an
\* instant it has left behind was fired, or dropped or blocked and logged.  It
\* holds for a cadence that nobody changes, whose instants are then a matter
\* of its creation; and as long as no schedule comes due with more instants
\* pending than a tick walks: the plan does not see those beyond MAX_WALK, and
\* next_run_at goes past them.
THEOREM NoInstantIsPassedOver ==
  ASSUME \A change \in Changes : change.expr = Keep
  PROVE  Spec /\ []BacklogsWalked => []EveryInstantAccounted
<1>1. Types /\ OwedInv => EveryInstantAccounted
  <2> SUFFICES ASSUME Types, OwedInv, NEW s \in Schedules, IsRow(s), NEW t \in Behind(s)
               PROVE  <<s, t>> \in passed \/ \E f \in fired : f[1] = s /\ f[2] = t
    BY DEF EveryInstantAccounted
  <2>1. Answered(s, rows[s]) /\ rows[s].next \in Nat
    BY DEF OwedInv, RowsAnswered, Types, RowTypes, IsRow, Row
  <2>2. t \in Nat /\ created[s] < t /\ t < rows[s].next
    BY <2>1 DEF Behind, Answered
  <2>3. On(s, t)
    BY <2>1 DEF Behind, Answered, On, Falls
  <2> QED BY <2>1, <2>2, <2>3 DEF Answered, Accounted
<1>2. Types /\ OwedInv /\ BacklogsWalked /\ [Next]_vars => OwedInv'
  BY OwedKept
<1> QED BY <1>1, <1>2, InitOwes, Typed, PTL DEF Spec
=============================================================================
