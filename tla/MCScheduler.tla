---------------------------- MODULE MCScheduler ----------------------------
(***************************************************************************)
(* Small instances of Scheduler for model checking.                        *)
(***************************************************************************)
EXTENDS Scheduler

CONSTANTS s1, s2, p1, p2

\* Every minute; every other minute; so many minutes after the last firing.
EveryMinute == [s \in Schedules |-> Cron(1, {0})]
EvenMinutes == [s \in Schedules |-> Cron(2, {0})]
EveryTwo    == [s \in Schedules |-> Interval(2)]

Skip     == [s \in Schedules |-> "skip"]
Backfill == [s \in Schedules |-> "backfill"]

Allow    == [s \in Schedules |-> "allow"]
Forbid   == [s \in Schedules |-> "forbid"]
Replacing == [s \in Schedules |-> "replace"]

MinuteAndTwo == [s \in Schedules |-> IF s = s1 THEN Cron(1, {0}) ELSE Interval(1)]
ForbidAndReplace == [s \in Schedules |-> IF s = s1 THEN "forbid" ELSE "replace"]
NoChanges == {}
OnAndOff == {[expr |-> Keep, enabled |-> b] : b \in BOOLEAN}
ThreeMinutes == {[expr |-> Cron(3, {1}), enabled |-> Keep]}
ShorterInterval == {[expr |-> Interval(1), enabled |-> Keep]}
=============================================================================
