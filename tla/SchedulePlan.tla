---------------------------- MODULE SchedulePlan ----------------------------
(***************************************************************************)
(* policy.rs and cron.rs of studio-scheduler: which instants a schedule    *)
(* that is due fires, and where it goes next.  Time is counted in minutes. *)
(*                                                                         *)
(* A cron expression is a grid on the clock, here one that repeats: it     *)
(* fires at every t with t % every in at.  An interval is a gap, measured  *)
(* from the previous firing.                                               *)
(***************************************************************************)
EXTENDS Integers, FiniteSets

CONSTANTS
  MaxWalk,        \* MAX_WALK: how many missed instants one tick looks at
  MaxCatchUpRuns, \* max_catch_up_runs, clamped to 1..100
  NoInstant       \* a schedule that never fired

ASSUME WalkAssumption ==
  /\ MaxWalk \in Nat \ {0}
  /\ MaxCatchUpRuns \in 1..100
  /\ NoInstant \notin Nat

Cron(every, at)  == [kind |-> "cron", every |-> every, at |-> at]
Interval(every) == [kind |-> "interval", every |-> every, at |-> {}]

\* What a create or a patch accepts: a cron with an instant in every period, a
\* positive interval.
Expressions ==
  {e \in [kind : {"cron", "interval"}, every : Nat \ {0}, at : SUBSET Nat] :
     e.kind = "cron" => \E t \in e.at : t < e.every}

Least(S)    == CHOOSE t \in S : \A u \in S : t <= u
Greatest(S) == CHOOSE t \in S : \A u \in S : t >= u

OnGrid(e, t) == t % e.every \in e.at

\* Expression::next_after.  An interval does not look at `after` when it knows
\* the last firing.
NextAfter(e, after, lastFired) ==
  IF e.kind = "cron"
  THEN Least({t \in (after + 1)..(after + e.every) : OnGrid(e, t)})
  ELSE (IF lastFired = NoInstant THEN after ELSE lastFired) + e.every

\* Every instant from the one that was due up to now.
Pending(e, due, now) ==
  {due} \cup {t \in (due + 1)..now :
                IF e.kind = "cron" THEN OnGrid(e, t) ELSE (t - due) % e.every = 0}

Oldest(S, n) == {t \in S : Cardinality({u \in S : u < t}) < n}
Newest(S, n) == {t \in S : Cardinality({u \in S : u > t}) < n}

\* The loop walks from the oldest, and stops after MaxWalk.
Missed(e, due, now) == Oldest(Pending(e, due, now), MaxWalk)

\* What a policy runs of a backlog: the newest, or the newest few.
Fires(missed, policy) ==
  Newest(missed, IF policy = "backfill" THEN MaxCatchUpRuns ELSE 1)

\* plan: what to enqueue, what is dropped and logged, where to go next.
Plan(e, due, now, policy) ==
  LET missed == Missed(e, due, now)
      fire   == Fires(missed, policy)
  IN [fire    |-> fire,
      dropped |-> missed \ fire,
      next    |-> NextAfter(e, now, Greatest(missed))]
=============================================================================
