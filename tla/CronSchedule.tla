---------------------------- MODULE CronSchedule ----------------------------
(***************************************************************************)
(* The schedule arithmetic of the cron jobs (cron_schedule.py, and the     *)
(* choice of a job's next occurrence in cron_store.py).                    *)
(*                                                                         *)
(* Times are whole ticks, the finest unit of the program's clock, so "one  *)
(* microsecond before t" is t - 1. A cron expression is the set of minutes *)
(* it matches; an expression that matches no minute of the next five years *)
(* is one whose set has no later element.                                  *)
(***************************************************************************)
EXTENDS Integers

CONSTANTS
  MinuteTicks  \* ticks of one minute

ASSUME MinuteAssumption == MinuteTicks \in Nat \ {0}

Time   == Nat
NoTime == -1
When   == Time \cup {NoTime}

\* at: of a "once" schedule; every, start (perhaps NoTime): of an "interval";
\* fires: of a "cron" schedule.
Schedule == [kind  : {"once", "interval", "cron"},
             at    : When,
             every : Nat \ {0},
             start : When,
             fires : SUBSET Time]

Once(t)         == [kind |-> "once", at |-> t, every |-> 1, start |-> NoTime, fires |-> {}]
Interval(n, t)  == [kind |-> "interval", at |-> NoTime, every |-> n, start |-> t, fires |-> {}]
CronExpr(fires) == [kind |-> "cron", at |-> NoTime, every |-> 1, start |-> NoTime, fires |-> fires]

-----------------------------------------------------------------------------
\* The first and the last element of a set of times, NoTime if there is none.
Earliest(S) == IF \E t \in S : \A u \in S : t <= u
               THEN CHOOSE t \in S : \A u \in S : t <= u ELSE NoTime
Latest(S)   == IF \E t \in S : \A u \in S : u <= t
               THEN CHOOSE t \in S : \A u \in S : u <= t ELSE NoTime

Minute(t) == MinuteTicks * (t \div MinuteTicks)

\* The search for a cron minute gives up with an exception.
NeverFires(s, after) == s.kind = "cron" /\ \A t \in s.fires : t <= after

\* Mutant: an occurrence at the given time counts as the next one.
NextNotLater(s, after) ==
  CASE s.kind = "once"     -> IF s.at > after THEN s.at ELSE NoTime
    [] s.kind = "cron"     -> Earliest({t \in s.fires : t > after})
    [] s.kind = "interval" ->
         LET origin == IF s.start # NoTime THEN s.start ELSE Minute(after) IN
         IF after < origin THEN origin
         ELSE origin + ((after - origin) \div s.every) * s.every

\* next_occurrence: the first occurrence strictly after a time. An interval
\* that is not anchored counts from the minute of that time.
NextOccurrence(s, after) ==
  CASE s.kind = "once"     -> IF s.at > after THEN s.at ELSE NoTime
    [] s.kind = "cron"     -> Earliest({t \in s.fires : t > after})
    [] s.kind = "interval" ->
         LET origin == IF s.start # NoTime THEN s.start ELSE Minute(after) IN
         IF after < origin THEN origin
         ELSE origin + ((after - origin) \div s.every + 1) * s.every

\* catch_up raises: for bounds out of order, for an interval that is not
\* anchored, and when walking a cron expression past now finds no minute.
CatchUpRaises(s, since, now) ==
  \/ now < since
  \/ s.kind = "interval" /\ s.start = NoTime
  \/ NeverFires(s, now)

\* Mutant: the period that contains since is owed again.
CatchUpAgain(s, since, now) ==
  IF s.kind = "interval"
  THEN LET first == s.start + (IF since >= s.start THEN ((since - s.start) \div s.every) * s.every ELSE 0)
       IN  IF now < s.start \/ first > now THEN NoTime
           ELSE s.start + ((now - s.start) \div s.every) * s.every
  ELSE Latest({t \in (IF s.kind = "once" THEN {s.at} ELSE s.fires) : since < t /\ t <= now})

\* catch_up: the latest occurrence after since and not after now. For once and
\* cron it is where the walk over next occurrences stops.
CatchUp(s, since, now) ==
  IF s.kind = "interval"
  THEN LET period == (since - s.start) \div s.every + 1
           first == s.start + (IF period > 0 THEN period ELSE 0) * s.every
       IN  IF now < s.start \/ first > now THEN NoTime
           ELSE s.start + ((now - s.start) \div s.every) * s.every
  ELSE Latest({t \in (IF s.kind = "once" THEN {s.at} ELSE s.fires) : since < t /\ t <= now})

-----------------------------------------------------------------------------
(* _due: the occurrence that a job owes at a time *)

\* Where an interval counts from, when none of its occurrences has been run.
Origin(s, anchor) == IF s.start # NoTime THEN s.start ELSE anchor

\* An anchored interval owes its start, another one its first period.
DueRaises(s, last, now, anchor) ==
  CASE last # NoTime       -> CatchUpRaises(s, last, now)
    [] last = NoTime /\ s.kind = "cron" -> CatchUpRaises(s, anchor, now)
    [] OTHER               -> FALSE

Due(s, last, now, anchor) ==
  CASE last # NoTime        -> CatchUp(s, last, now)
    [] last = NoTime /\ s.kind = "once" -> IF s.at <= now THEN s.at ELSE NoTime
    [] last = NoTime /\ s.kind = "cron" -> CatchUp(s, anchor, now)
    [] last = NoTime /\ s.kind = "interval" ->
         LET origin == Origin(s, anchor) IN
         IF now < origin THEN NoTime
         ELSE CatchUp([s EXCEPT !.start = origin],
                      IF s.start # NoTime THEN origin - 1 ELSE origin, now)

\* No occurrence of the schedule is left before a job's end.
LastBefore(s, due, ends) ==
  /\ ends # NoTime
  /\ NextOccurrence(s, due) = NoTime \/ NextOccurrence(s, due) >= ends

-----------------------------------------------------------------------------
(* Properties *)

\* The occurrences up to a horizon, spelled out, of a schedule whose interval
\* is anchored.
Occurrences(s, horizon) ==
  CASE s.kind = "once"     -> {s.at}
    [] s.kind = "cron"     -> s.fires
    [] s.kind = "interval" -> {t \in s.start..horizon : (t - s.start) % s.every = 0}

\* The arithmetic of next_occurrence finds the first occurrence after a time.
NextIsFirst(s, after, horizon) ==
  (s.kind # "interval" \/ s.start # NoTime) =>
    NextOccurrence(s, after) = Earliest({t \in Occurrences(s, horizon) : t > after})

\* The arithmetic of catch_up finds the latest of the missed occurrences.
CatchUpIsLatest(s, since, now) ==
  ~CatchUpRaises(s, since, now) =>
    CatchUp(s, since, now) = Latest({t \in Occurrences(s, now) : since < t /\ t <= now})

\* Running what is owed pays it: nothing is owed again at the same time, and
\* what is owed later is later.
DuePaysOff(s, last, now, later, anchor) ==
  LET due == Due(s, last, now, anchor) IN
  (due # NoTime /\ ~DueRaises(s, last, now, anchor) /\ ~DueRaises(s, due, later, anchor)) =>
    /\ due > last
    /\ due <= now
    /\ CatchUp(s, due, now) = NoTime
    /\ CatchUp(s, due, later) = NoTime \/ CatchUp(s, due, later) > due

=============================================================================
