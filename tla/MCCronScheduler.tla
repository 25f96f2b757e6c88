--------------------------- MODULE MCCronScheduler ---------------------------
(* Instances of CronScheduler for TLC: what the owner asks for. *)
EXTENDS CronScheduler, TLC

Def(schedule, ends, max) == [schedule |-> schedule, ends |-> ends, max |-> max]

\* A minute that a cron expression matches beyond the bound of the clock.
Later == 1000

\* An occurrence before the end and one after it.
Ending == {Def(CronExpr({1, 2, Later}), 2, 0)}

\* The same; no end but a number of successes; an expression that matches
\* nothing, with an end and without.
Mixed == Ending \cup {Def(Interval(1, 1), NoTime, 1),
                      Def(CronExpr({}), NoTime, 0), Def(CronExpr({}), 2, 0)}

\* With an end, of which one is not anchored, so that a look at it raises once it
\* has run; or for one time.
EndingOrOneShot == Ending \cup {Def(Interval(1, NoTime), 2, 0), Def(Once(1), NoTime, 0)}

\* A job for one time.
OneShot == {Def(Once(1), NoTime, 0)}

\* The lanes are interchangeable (no liveness property is checked with this).
LaneSymmetry == Permutations(Lanes)

-----------------------------------------------------------------------------
(* The arithmetic of the schedules against its definition, for every schedule *)
(* and pair of times in a window, with minutes of two ticks.                  *)
Fine == INSTANCE CronSchedule WITH MinuteTicks <- 2

Window == 0..7

\* A minute beyond the window: without it an expression stops matching there.
Far == 160

Schedules ==
  {Once(t) : t \in Window}
  \cup {Interval(n, t) : n \in 1..3, t \in Window \cup {NoTime}}
  \cup {CronExpr(fires) : fires \in SUBSET {0, 2, 4, 6, Far}}

\* next_occurrence finds the first occurrence after any time and catch_up the
\* latest missed one, whatever their bounds; an occurrence that was run is never
\* owed again, at once or later (_due). No state has a part in it: it is asked once.
ArithmeticIsRight ==
  Init => \A s \in Schedules, since \in Window \cup {NoTime}, time \in Window :
    /\ Fine!NextIsFirst(s, time, time + 3 * s.every + 7)
    /\ s.kind = "interval" => Fine!NextOccurrence(s, time) > time
    /\ Fine!CatchUpIsLatest(s, since, time)
    /\ \A later \in time..(time + 4), anchor \in {0, 1, time} :
         Fine!DuePaysOff(s, since, time, later, anchor)

=============================================================================
