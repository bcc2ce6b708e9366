----------------------------- MODULE Scheduler -----------------------------
(***************************************************************************)
(* studio-scheduler: schedule rows, the ticker of every replica that       *)
(* contends for one advisory lock, and the people who patch, delete and    *)
(* run schedules by hand.                                                  *)
(*                                                                         *)
(* A tick reads the due rows once and then works from what it read: it     *)
(* judges the previous run, enqueues, and at last advances the row with an *)
(* update by id.  The lock can be lost, the process can stop and the row   *)
(* can change between any two of these statements.                         *)
(*                                                                         *)
(* A run is named by its schedule and idempotency key: that a key is one   *)
(* run, however often it is asked for, is what TaskEnqueue shows of        *)
(* studio-tasks, and not a question of this module.                        *)
(***************************************************************************)
EXTENDS SchedulePlan, Sequences

CONSTANTS
  Schedules,
  Replicas,
  Expression,   \* [Schedules -> the expression a schedule is created with]
  MissedPolicy, \* [Schedules -> {"skip", "catch_up", "backfill"}]
  Concurrency,  \* [Schedules -> {"allow", "forbid", "replace"}]
  Unhandled,    \* schedules whose task type has no handler any more
  Changes,      \* what a PATCH may ask for: [expr, enabled], or Keep
  Keep,
  NoRow, NoRun, Nobody,
  MaxPerTick,   \* MAX_PER_TICK
  MaxTime,      \* bound: how far the clock goes
  MaxFaults,    \* bound: failed calls, lost locks and crashes
  MaxPatches,   \* bound: patches
  MaxAsks       \* bound: run-now requests without a key of their own

ASSUME SchedulerAssumption ==
  /\ MaxPerTick \in Nat \ {0}
  /\ {MaxTime, MaxFaults, MaxPatches, MaxAsks} \subseteq Nat
  /\ Unhandled \subseteq Schedules
ASSUME FreshAssumption ==
  /\ Nobody \notin Replicas
  /\ NoRun \notin Schedules \X ({"at", "manual"} \X Nat)
ASSUME ExpressionAssumption ==
  /\ \A s \in Schedules : Expression[s] \in Expressions
  /\ \A change \in Changes :
       /\ change.expr = Keep \/ change.expr \in Expressions
       /\ change.enabled = Keep \/ change.enabled \in BOOLEAN

VARIABLES
  now,        \* the clock, in minutes
  rows,       \* [Schedules -> Row \cup {NoRow}]: studio_scheduler_schedules
  runs,       \* [set of run ids -> {"live", "ended"}]
  stopping,   \* runs that were asked to stop
  holder,     \* who holds the ticker lock
  firer,      \* [Replicas -> where its tick is]
  patching,   \* [Schedules -> a patch between its read and its write, or Nobody]
  created,    \* history: [Schedules -> when, or NoInstant]
  fired,      \* history: <<schedule, instant, run>> that a tick fired
  passed,     \* history: <<schedule, instant>> dropped or blocked, and logged
  outrun,     \* history: schedules one of whose runs a later judge may not see
  asks,       \* history: run-now requests without a key that were answered
  patched,    \* history: patches made
  faults

scheduleVars == <<rows, patching, created, patched>>
runVars      == <<runs, stopping>>
tickVars     == <<holder, firer>>
historyVars  == <<fired, passed, outrun, asks>>
vars == <<now, scheduleVars, runVars, tickVars, historyVars, faults>>

Fault == faults < MaxFaults /\ faults' = faults + 1

RunId(s, key) == <<s, key>>
Live(r)  == r \in DOMAIN runs /\ runs[r] = "live"
IsRow(s) == rows[s] # NoRow

\* enqueue: a key that is already there answers with its run.
WithRun(r) == IF r \in DOMAIN runs THEN runs
              ELSE [x \in DOMAIN runs \cup {r} |-> IF x = r THEN "live" ELSE runs[x]]

AtRest == [pc |-> "idle", now |-> 0, todo |-> <<>>, fire |-> {},
           next |-> 0, passed |-> {}, made |-> NoRun]
Pc == {"idle", "judge", "replace", "enqueue", "advance"}

Init ==
  /\ now = 0
  /\ rows = [s \in Schedules |-> NoRow]
  /\ runs = [r \in {} |-> "live"]
  /\ stopping = {}
  /\ holder = Nobody
  /\ firer = [p \in Replicas |-> AtRest]
  /\ patching = [s \in Schedules |-> Nobody]
  /\ created = [s \in Schedules |-> NoInstant]
  /\ fired = {}
  /\ passed = {}
  /\ outrun = {}
  /\ asks = 0
  /\ patched = 0
  /\ faults = 0

TypeOK ==
  /\ now \in 0..MaxTime
  /\ \A s \in Schedules : IsRow(s) =>
       /\ rows[s].next \in Nat
       /\ rows[s].enabled \in BOOLEAN
       /\ rows[s].lastRun \in DOMAIN runs \cup {NoRun}
       /\ rows[s].lastFired \in 0..now \cup {NoInstant}
  /\ \A r \in DOMAIN runs : runs[r] \in {"live", "ended"} /\ r[1] \in Schedules
  /\ stopping \subseteq DOMAIN runs
  /\ holder \in Replicas \cup {Nobody}
  /\ \A p \in Replicas : firer[p].pc \in Pc /\ firer[p].now \in 0..now
  /\ faults \in 0..MaxFaults

-----------------------------------------------------------------------------
(* People and the clock.                                                   *)

\* create: the first firing is computed, never now.
Create(s) ==
  /\ created[s] = NoInstant
  /\ created' = [created EXCEPT ![s] = now]
  /\ rows' = [rows EXCEPT ![s] =
       [expr |-> Expression[s], enabled |-> TRUE,
        next |-> NextAfter(Expression[s], now, NoInstant),
        lastFired |-> NoInstant, lastRun |-> NoRun]]
  /\ UNCHANGED <<now, patching, patched, runVars, tickVars, historyVars, faults>>

Delete(s) ==
  /\ IsRow(s)
  /\ patched < MaxPatches
  /\ patched' = patched + 1
  /\ rows' = [rows EXCEPT ![s] = NoRow]
  /\ UNCHANGED <<now, patching, created, runVars, tickVars, historyVars, faults>>

\* patch reads the row ...
PatchRead(s, change) ==
  /\ IsRow(s) /\ patching[s] = Nobody
  /\ patched < MaxPatches
  /\ patched' = patched + 1
  /\ patching' = [patching EXCEPT ![s] = [change |-> change, row |-> rows[s], at |-> now]]
  /\ UNCHANGED <<now, rows, created, runVars, tickVars, historyVars, faults>>

\* ... and writes it back: the expression and next_run_at always, computed anew
\* only when the cadence was part of the request.
PatchWrite(s) ==
  LET patch  == patching[s]
      change == patch.change
      expr   == IF change.expr = Keep THEN patch.row.expr ELSE change.expr
      next   == IF change.expr = Keep THEN patch.row.next
                ELSE NextAfter(expr, patch.at, patch.row.lastFired)
  IN /\ patch # Nobody
     /\ patching' = [patching EXCEPT ![s] = Nobody]
     /\ rows' = IF IsRow(s)
                THEN [rows EXCEPT ![s].expr = expr, ![s].next = next,
                        ![s].enabled = IF change.enabled = Keep THEN @ ELSE change.enabled]
                ELSE rows
     /\ UNCHANGED <<now, created, patched, runVars, tickVars, historyVars, faults>>

\* The clock in an idempotency key has seconds; here the minute stands for it.
ManualKey == <<"manual", now>>

\* run_now, without an Idempotency-Key.
RunNow(s) ==
  /\ IsRow(s) /\ s \notin Unhandled
  /\ asks < MaxAsks
  /\ asks' = asks + 1
  /\ runs' = WithRun(RunId(s, ManualKey))
  /\ UNCHANGED <<now, scheduleVars, stopping, tickVars, fired, passed, outrun, faults>>

\* Whatever the run does; see TaskRuns.
RunEnds(r) ==
  /\ Live(r)
  /\ runs' = [runs EXCEPT ![r] = "ended"]
  /\ UNCHANGED <<now, scheduleVars, stopping, tickVars, historyVars, faults>>

Clock ==
  /\ now < MaxTime
  /\ now' = now + 1
  /\ UNCHANGED <<scheduleVars, runVars, tickVars, historyVars, faults>>

-----------------------------------------------------------------------------
(* The ticker.                                                             *)

Due == {s \in Schedules : IsRow(s) /\ rows[s].enabled /\ rows[s].next <= now}

\* due: the first MaxPerTick in next_run_at order.
DueLists ==
  {q \in UNION {[1..n -> Due] : n \in 1..Cardinality(Due)} :
     /\ Len(q) = MaxPerTick \/ (Len(q) < MaxPerTick /\ Len(q) = Cardinality(Due))
     /\ \A i, j \in 1..Len(q) : i < j => q[i] # q[j] /\ rows[q[i]].next <= rows[q[j]].next
     /\ \A s \in Due : (\A i \in 1..Len(q) : q[i] # s)
                         => \A i \in 1..Len(q) : rows[q[i]].next <= rows[s].next}

\* The tick turns to the next of the rows it read, or is over.
Begin(todo, at) ==
  IF todo = <<>> THEN AtRest
  ELSE LET row  == Head(todo).row
           plan == Plan(row.expr, row.next, at, MissedPolicy[Head(todo).s])
       IN [AtRest EXCEPT !.pc = "judge", !.now = at, !.todo = todo,
                         !.fire = plan.fire, !.next = plan.next,
                         !.passed = plan.dropped]

\* Mutant: no lock.
LockTaken(p) == FALSE
\* try_lock: another process holds the ticker lock.
LockHeld(p) == holder # Nobody

\* A tick that finds nothing due does nothing.
Tick(p) ==
  /\ firer[p].pc = "idle"
  /\ ~LockHeld(p)
  /\ \E q \in DueLists :
       firer' = [firer EXCEPT ![p] =
                   Begin([i \in 1..Len(q) |-> [s |-> q[i], row |-> rows[q[i]]]], now)]
  /\ holder' = p
  /\ UNCHANGED <<now, scheduleVars, runVars, historyVars, faults>>

Sched(p) == Head(firer[p].todo).s
Snap(p)  == Head(firer[p].todo).row
\* Instants are enqueued oldest first.
Instant(p) == Least(firer[p].fire)
\* Concurrency is judged against the run the row named when the tick read it:
\* one that was started and is not, or not yet, written to the row is not seen.
OutrunIf(s, unseen) == outrun' = IF unseen THEN outrun \cup {s} ELSE outrun
\* Done with this schedule, fired or not.
Done(p) ==
  LET next == Begin(Tail(firer[p].todo), firer[p].now)
  IN /\ firer' = [firer EXCEPT ![p] = next]
     /\ holder' = IF next = AtRest /\ holder = p THEN Nobody ELSE holder

\* The run that concurrency is judged against: the one the row named when the
\* tick read it.
PreviousLives(p) ==
  Concurrency[Sched(p)] # "allow" /\ Snap(p).lastRun # NoRun /\ Live(Snap(p).lastRun)

Judge(p) ==
  /\ firer[p].pc = "judge"
  /\ \/ /\ firer[p].fire = {}
        /\ firer' = [firer EXCEPT ![p].pc = "advance"]
     \/ /\ firer[p].fire # {} /\ ~PreviousLives(p)
        /\ firer' = [firer EXCEPT ![p].pc = "enqueue"]
     \/ /\ firer[p].fire # {} /\ PreviousLives(p)
        /\ Concurrency[Sched(p)] = "forbid"
        /\ firer' = [firer EXCEPT ![p].fire = @ \ {Instant(p)},
                                  ![p].passed = @ \cup {Instant(p)}]
     \/ /\ firer[p].fire # {} /\ PreviousLives(p)
        /\ Concurrency[Sched(p)] = "replace"
        /\ firer' = [firer EXCEPT ![p].pc = "replace"]
  /\ UNCHANGED <<now, scheduleVars, runVars, holder, historyVars, faults>>

\* The previous run is asked to stop, and not waited for; that the request
\* fails is only logged.
Replace(p) ==
  /\ firer[p].pc = "replace"
  /\ firer' = [firer EXCEPT ![p].pc = "enqueue"]
  /\ \/ /\ stopping' = IF Live(Snap(p).lastRun) THEN stopping \cup {Snap(p).lastRun}
                       ELSE stopping
        /\ UNCHANGED <<outrun, faults>>
     \/ /\ Fault
        /\ OutrunIf(Sched(p), TRUE)
        /\ UNCHANGED stopping
  /\ UNCHANGED <<now, scheduleVars, runs, holder, fired, passed, asks>>

\* The idempotency key of a firing: the schedule and the instant.
InstantKey(p) == <<"at", Instant(p)>>

\* The instant is enqueued: if it is the tick's second, judged against the same
\* run as the first.
Enqueue(p) ==
  LET r == RunId(Sched(p), InstantKey(p))
  IN /\ firer[p].pc = "enqueue"
     /\ Sched(p) \notin Unhandled
     /\ runs' = WithRun(r)
     /\ fired' = fired \cup {<<Sched(p), Instant(p), r>>}
     /\ firer' = [firer EXCEPT ![p].pc = "judge", ![p].fire = @ \ {Instant(p)},
                               ![p].made = r]
     /\ OutrunIf(Sched(p), firer[p].made # NoRun)
     /\ UNCHANGED <<now, scheduleVars, stopping, holder, passed, asks, faults>>

\* Mutant: the instant that could not be enqueued is left behind.
GoesOn(p) ==
  /\ firer' = [firer EXCEPT ![p].pc = "judge", ![p].fire = @ \ {Instant(p)}]
  /\ UNCHANGED holder
\* A firing that could not be enqueued leaves its schedule due.
GivesUp(p) == Done(p)

\* enqueue answers with an error, for want of a handler or of the database;
\* what was lost may be the answer only.
EnqueueFails(p) ==
  LET r == RunId(Sched(p), InstantKey(p))
  IN /\ firer[p].pc = "enqueue"
     /\ \/ /\ IF Sched(p) \in Unhandled THEN UNCHANGED faults ELSE Fault
           /\ OutrunIf(Sched(p), firer[p].made # NoRun)
           /\ UNCHANGED <<runs, fired>>
        \/ /\ Fault
           /\ Sched(p) \notin Unhandled
           /\ runs' = WithRun(r)
           /\ fired' = fired \cup {<<Sched(p), Instant(p), r>>}
           /\ OutrunIf(Sched(p), TRUE)
     /\ GivesUp(p)
     /\ UNCHANGED <<now, scheduleVars, stopping, passed, asks>>

\* Mutants: a schedule that fired nothing stays due; the firing is dated to the
\* next one; the run is not written to the row.
RunUnnoted(p, row) ==
  IF firer[p].made = NoRun THEN [row EXCEPT !.next = firer[p].next]
  ELSE [row EXCEPT !.next = firer[p].next, !.lastFired = firer[p].now]
OnlyIfFired(p, row) ==
  IF firer[p].made = NoRun THEN row
  ELSE [row EXCEPT !.next = firer[p].next, !.lastFired = firer[p].now,
                   !.lastRun = firer[p].made]
FiredNext(p, row) ==
  [row EXCEPT !.next = firer[p].next, !.lastFired = firer[p].next]
\* The schedule moves on whether or not it fired.
Advanced(p, row) ==
  IF firer[p].made = NoRun THEN [row EXCEPT !.next = firer[p].next]
  ELSE [row EXCEPT !.next = firer[p].next, !.lastFired = firer[p].now,
                   !.lastRun = firer[p].made]

Advance(p) ==
  LET s == Sched(p)
  IN /\ firer[p].pc = "advance"
     /\ rows' = IF IsRow(s) THEN [rows EXCEPT ![s] = Advanced(p, @)] ELSE rows
     /\ passed' = passed \cup {<<s, t>> : t \in firer[p].passed}
     /\ Done(p)
     /\ UNCHANGED <<now, patching, created, patched, runVars, fired, outrun, asks, faults>>

\* The previous run cannot be read, or the row cannot be advanced.
Abandon(p) ==
  /\ firer[p].pc \in {"judge", "advance"}
  /\ Fault
  /\ Done(p)
  /\ OutrunIf(Sched(p), firer[p].made # NoRun)
  /\ UNCHANGED <<now, scheduleVars, runVars, fired, passed, asks>>

\* The database drops the lock, and the tick does not notice: another may
\* read the same rows.
LoseLock ==
  /\ holder # Nobody
  /\ Fault
  /\ holder' = Nobody
  /\ outrun' = outrun \cup {firer[holder].todo[i].s : i \in DOMAIN firer[holder].todo}
  /\ UNCHANGED <<now, scheduleVars, runVars, firer, fired, passed, asks>>

Crash(p) ==
  /\ firer[p] # AtRest
  /\ Fault
  /\ firer' = [firer EXCEPT ![p] = AtRest]
  /\ holder' = IF holder = p THEN Nobody ELSE holder
  /\ OutrunIf(Sched(p), firer[p].made # NoRun)
  /\ UNCHANGED <<now, scheduleVars, runVars, fired, passed, asks>>

Fire(p) == Judge(p) \/ Replace(p) \/ Enqueue(p) \/ EnqueueFails(p) \/ Advance(p)
             \/ Abandon(p)
People(s) == Create(s) \/ Delete(s) \/ PatchWrite(s) \/ RunNow(s)
               \/ \E change \in Changes : PatchRead(s, change)
Next ==
  \/ Clock
  \/ \E s \in Schedules : People(s)
  \/ \E r \in DOMAIN runs : RunEnds(r)
  \/ \E p \in Replicas : Tick(p) \/ Fire(p) \/ Crash(p)
  \/ LoseLock

\* Some replica keeps ticking, and a tick that began goes on.  Nothing is
\* assumed of the people, of the clock, or of the runs ever ending.
Spec ==
  /\ Init
  /\ [][Next]_vars
  /\ WF_vars(\E p \in Replicas : Tick(p))
  /\ \A p \in Replicas : WF_vars(Fire(p))
-----------------------------------------------------------------------------
(* What must hold.                                                         *)

\* The instants an unpatched schedule has left behind.
Behind(s) ==
  {t \in (created[s] + 1)..(rows[s].next - 1) :
     IF rows[s].expr.kind = "cron" THEN OnGrid(rows[s].expr, t)
     ELSE (t - created[s]) % rows[s].expr.every = 0}

\* A schedule does not move past an instant silently: it was fired, or it was
\* dropped by the missed-schedule policy or blocked by `forbid`, and counted.
EveryInstantAccounted ==
  \A s \in Schedules : IsRow(s) =>
    \A t \in Behind(s) : <<s, t>> \in passed \/ \E f \in fired : f[1] = s /\ f[2] = t

\* Two live runs of one schedule's firings, of which none was asked to stop,
\* though its concurrency is forbid or replace.
Overlapping(s) ==
  \E f, g \in fired :
    /\ f[1] = s /\ g[1] = s /\ f[3] # g[3]
    /\ Concurrency[s] # "allow"
    /\ Live(f[3]) /\ Live(g[3])
    /\ Concurrency[s] = "replace" => {f[3], g[3]} \cap stopping = {}

\* `forbid` and `replace` keep their word through failed calls, crashes and lost
\* locks, people's patches and however runs end: unless a tick started a run of
\* the schedule and did not get to write it to the row, could not ask the run
\* before it to stop, started a second one from the same reading, or lost the
\* lock with the schedule on its list.
NoUnaskedOverlap == \A s \in Schedules \ outrun : ~Overlapping(s)

\* A backlog drains: a schedule that is due does not stay due, unless it is
\* disabled, deleted or nothing can run it.
DueIsFired ==
  \A s \in Schedules \ Unhandled :
    s \in Due ~> s \notin Due

-----------------------------------------------------------------------------
(* What the code says of itself and does not do: README, section 5.        *)

\* service.rs, on patch: "Changing the cadence moves the next firing; leaving
\* the stored one would keep the old grid until it fired once more."
NextIsOnGrid ==
  \A s \in Schedules :
    IsRow(s) /\ patching[s] = Nobody /\ rows[s].expr.kind = "cron"
      => OnGrid(rows[s].expr, rows[s].next)

\* cron.rs, on next_after: "The first firing strictly after `after`."
PatchMovesForward ==
  [][\A s \in Schedules :
       PatchWrite(s) /\ IsRow(s) /\ patching[s].change.expr # Keep
         => rows'[s].next > patching[s].at]_vars

\* policy.rs, of `forbid`, "What to do when the previous run of a schedule has
\* not finished": "Skip this firing", whatever became of the tick that started it.
NoOverlapEver == \A s \in Schedules : ~Overlapping(s)

\* service.rs, on run_now: "asking twice means two runs".
AskingTwiceIsTwoRuns ==
  Cardinality({r \in DOMAIN runs : r[2][1] = "manual"}) = asks
=============================================================================
