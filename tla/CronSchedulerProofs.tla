------------------------ MODULE CronSchedulerProofs ------------------------
(***************************************************************************)
(* Theorems about the scheduler, for every set of jobs, definitions and    *)
(* lanes and every bound: what its arithmetic of times answers, for every  *)
(* schedule and every instant; that its rows keep their types; and what it *)
(* promises of runs and frames.                                            *)
(*                                                                         *)
(* A frame reaches the chat at most once: only a lane that is sending can  *)
(* show a frame, there is one such lane for a frame, and it has not been   *)
(* shown before (SendersKnow, OneSender). A frame that was shown is in a   *)
(* status from which it is never claimed again (ShownIsSettled). And the   *)
(* frames that a run's end writes are new rows: an open run has none       *)
(* (FramesFollowRuns).                                                     *)
(*                                                                         *)
(* Then three more arguments over the same tables. What is left to do is   *)
(* for the job as it is (WorkIsCurrent): that is inductive together with   *)
(* one open run per job, and the frames of a run made, and taken up, from  *)
(* the first on (OneOpenRun, FramesArePrefix, BegunInOrder); the order and *)
(* the finality of the frames follow. And an occurrence is run once and in *)
(* time: the row's last due time is past all that was run of the job, and  *)
(* never ahead of the clock or of the pause (PaidInv).                     *)
(***************************************************************************)
EXTENDS CronScheduler, TLAPS

-----------------------------------------------------------------------------
(* Times *)

\* Earliest and Latest find an element, or there is none.
LEMMA EarliestIsElement == ASSUME NEW S PROVE Earliest(S) \in S \cup {NoTime}
BY DEF Earliest

LEMMA LatestIsElement == ASSUME NEW S PROVE Latest(S) \in S \cup {NoTime}
BY DEF Latest

\* A whole number of periods is a time.
LEMMA PeriodsAreTime ==
  ASSUME NEW n \in Nat, NEW every \in Nat \ {0}
  PROVE  (n \div every) * every \in Nat
<1>1. n \div every \in Nat
  OBVIOUS
<1>2. QED
  BY <1>1

\* catch_up answers with a time, or with none.
LEMMA CatchUpType ==
  ASSUME NEW s \in Schedule, NEW since \in Int, NEW now \in Int,
         ~CatchUpRaises(s, since, now)
  PROVE  CatchUp(s, since, now) \in When
<1>1. CASE s.kind = "interval"
  <2>1. s.start \in Time /\ s.every \in Nat \ {0}
    BY <1>1 DEF CatchUpRaises, Schedule, When, Time
  <2>2. CASE now < s.start
    BY <1>1, <2>2 DEF CatchUp, When
  <2>3. CASE ~(now < s.start)
    <3>1. now - s.start \in Nat
      BY <2>1, <2>3 DEF Time
    <3>2. ((now - s.start) \div s.every) * s.every \in Nat
      BY <2>1, <3>1, PeriodsAreTime
    <3>3. s.start + ((now - s.start) \div s.every) * s.every \in Time
      BY <2>1, <3>2 DEF Time
    <3>4. QED
      BY <1>1, <3>3 DEF CatchUp, When
  <2>4. QED
    BY <2>2, <2>3
<1>2. CASE s.kind # "interval"
  <2>1. CASE s.kind = "once"
    <3>1. CatchUp(s, since, now) \in {t \in {s.at} : since < t /\ t <= now} \cup {NoTime}
      BY <2>1, LatestIsElement DEF CatchUp
    <3>2. QED
      BY <3>1 DEF Schedule, When
  <2>2. CASE s.kind # "once"
    <3>1. CatchUp(s, since, now) \in {t \in s.fires : since < t /\ t <= now} \cup {NoTime}
      BY <1>2, <2>2, LatestIsElement DEF CatchUp
    <3>2. s.fires \subseteq Time
      BY DEF Schedule
    <3>3. QED
      BY <3>1, <3>2 DEF When
  <2>3. QED
    BY <2>1, <2>2
<1>3. QED
  BY <1>1, <1>2

\* So does the question what a job owes.
LEMMA DueType ==
  ASSUME NEW s \in Schedule, NEW last \in When, NEW now \in Int, NEW anchor \in Time,
         ~DueRaises(s, last, now, anchor)
  PROVE  Due(s, last, now, anchor) \in When
<1>1. CASE last # NoTime
  <2>1. ~CatchUpRaises(s, last, now) /\ last \in Int
    BY <1>1 DEF DueRaises, When, Time, NoTime
  <2>2. QED
    BY <1>1, <2>1, CatchUpType DEF Due
<1>2. CASE last = NoTime
  <2>0. s.kind \in {"once", "interval", "cron"}
    BY DEF Schedule
  <2>1. CASE s.kind = "once"
    BY <1>2, <2>1 DEF Due, Schedule, When
  <2>2. CASE s.kind = "cron"
    <3>1. ~CatchUpRaises(s, anchor, now) /\ anchor \in Int
      BY <1>2, <2>2 DEF DueRaises, Time
    <3>2. CatchUp(s, anchor, now) \in When
      BY <3>1, CatchUpType
    <3>3. QED
      BY <1>2, <2>2, <3>2 DEF Due
  <2>3. CASE s.kind = "interval"
    <3> DEFINE origin == Origin(s, anchor)
               anchored == [s EXCEPT !.start = origin]
               since == IF s.start # NoTime THEN origin - 1 ELSE origin
    <3>1. origin \in Time
      BY DEF Origin, Schedule, When
    <3>2. CASE now < origin
      BY <1>2, <2>3, <3>2 DEF Due, When
    <3>3. CASE ~(now < origin)
      <4>1. anchored \in Schedule /\ since \in Int
        BY <3>1 DEF Schedule, When, Time
      <4>2. anchored.kind = "interval" /\ anchored.start = origin
        BY <2>3 DEF Schedule
      <4>3. origin # NoTime /\ ~(now < since)
        BY <3>1, <3>3 DEF Time, NoTime
      <4>4. ~CatchUpRaises(anchored, since, now)
        BY <4>2, <4>3 DEF CatchUpRaises, NeverFires
      <4>5. CatchUp(anchored, since, now) \in When
        BY <4>1, <4>4, CatchUpType
      <4>6. QED
        BY <1>2, <2>3, <3>3, <4>5 DEF Due
    <3>4. QED
      BY <3>2, <3>3
  <2>4. QED
    BY <2>0, <2>1, <2>2, <2>3
<1>3. QED
  BY <1>1, <1>2

-----------------------------------------------------------------------------
(* The arithmetic of the schedules *)

\* Division rounds down.
LEMMA PeriodsFit ==
  ASSUME NEW n \in Int, NEW d \in Nat \ {0}
  PROVE  /\ n \div d \in Int
         /\ (n \div d) * d \in Int
         /\ (n \div d) * d <= n
         /\ n < (n \div d) * d + d
OBVIOUS

\* One period more is at least one period later.
LEMMA MorePeriods ==
  ASSUME NEW p \in Int, NEW q \in Int, NEW d \in Nat \ {0}
  PROVE  /\ p * d \in Int /\ q * d \in Int
         /\ p <= q => p * d <= q * d
         /\ p < q => p * d + d <= q * d
<1>1. p * d \in Int /\ q * d \in Int /\ (q - p) * d = q * d - p * d
  OBVIOUS
<1>2. \A k \in Nat : k * d >= 0 /\ (k > 0 => k * d >= d)
  OBVIOUS
<1> QED
  BY <1>1, <1>2

LEMMA OneMore ==
  ASSUME NEW p \in Int, NEW d \in Nat \ {0}
  PROVE  (p + 1) * d = p * d + d
OBVIOUS

\* The last whole period not after n.
LEMMA LastPeriod ==
  ASSUME NEW n \in Int, NEW d \in Nat \ {0}, NEW p \in Int, p * d <= n
  PROVE  p <= n \div d
<1>1. n \div d \in Int /\ n < (n \div d) * d + d
  BY PeriodsFit
<1>2. CASE n \div d < p
  BY <1>1, <1>2, MorePeriods
<1> QED
  BY <1>1, <1>2

\* The multiples of d are what it divides without a rest.
LEMMA NoRest ==
  ASSUME NEW m \in Int, NEW d \in Nat \ {0}
  PROVE  m % d = 0 <=> m = (m \div d) * d
<1>1. m % d = m - (m \div d) * d /\ (m \div d) * d \in Int
  OBVIOUS
<1> QED
  BY <1>1

LEMMA Multiples ==
  ASSUME NEW k \in Int, NEW d \in Nat \ {0}
  PROVE  (k * d) % d = 0
<1> DEFINE m == k * d
           q == m \div d
<1>1. m \in Int
  OBVIOUS
<1>2. q \in Int /\ q * d <= m /\ m < q * d + d
  BY <1>1, PeriodsFit
<1> HIDE DEF q
<1>3. q <= k /\ ~(q < k)
  BY <1>1, <1>2, MorePeriods
<1>4. m = q * d
  BY <1>2, <1>3
<1> HIDE DEF m
<1> QED
  BY <1>1, <1>4, NoRest DEF q

\* The latest and the earliest of some times are the ones they should be.
LEMMA LatestIsLast ==
  ASSUME NEW S, S \subseteq Int
  PROVE  /\ \A t \in S : (\A u \in S : u <= t) => Latest(S) = t
         /\ S = {} => Latest(S) = NoTime
         /\ Latest(S) # NoTime => /\ Latest(S) \in S
                                 /\ \A u \in S : u <= Latest(S)
<1>1. \A t, v \in S : (\A u \in S : u <= t) /\ (\A u \in S : u <= v) => t = v
  OBVIOUS
<1> QED
  BY <1>1 DEF Latest

LEMMA EarliestIsFirst ==
  ASSUME NEW S, S \subseteq Int
  PROVE  /\ \A t \in S : (\A u \in S : t <= u) => Earliest(S) = t
         /\ S = {} => Earliest(S) = NoTime
<1>1. \A t, v \in S : (\A u \in S : t <= u) /\ (\A u \in S : v <= u) => t = v
  OBVIOUS
<1> QED
  BY <1>1 DEF Earliest

\* catch_up of an interval.
LEMMA IntervalCatchUp ==
  ASSUME NEW s \in Schedule, s.kind = "interval", s.start # NoTime,
         NEW since \in Int, NEW now \in Int
  PROVE  CatchUp(s, since, now) = Latest({t \in Occurrences(s, now) : since < t /\ t <= now})
<1> DEFINE start == s.start
           every == s.every
           after == (since - start) \div every
           period == after + 1
           first == IF period > 0 THEN period ELSE 0
           last == (now - start) \div every
           missed == {t \in Occurrences(s, now) : since < t /\ t <= now}
<1>1. start \in Int /\ every \in Nat \ {0}
  BY DEF Schedule, When, Time
<1>2. CatchUp(s, since, now) = IF now < start \/ start + first * every > now THEN NoTime
                               ELSE start + last * every
  BY DEF CatchUp
<1>3. \A t : t \in missed <=> /\ t \in Int /\ start <= t /\ t <= now /\ since < t
                             /\ (t - start) % every = 0
  <2>1. Occurrences(s, now) = {t \in start..now : (t - start) % every = 0}
    BY DEF Occurrences
  <2> QED
    BY <1>1, <2>1
<1>4. /\ after \in Int /\ after * every <= since - start /\ since - start < after * every + every
      /\ last \in Int /\ last * every \in Int /\ last * every <= now - start
  <2>1. since - start \in Int /\ now - start \in Int
    BY <1>1
  <2> QED
    BY <1>1, <2>1, PeriodsFit
<1>5. period \in Int /\ first \in Nat /\ first * every \in Int /\ period * every = after * every + every
  BY <1>1, <1>4, OneMore
<1> HIDE DEF after, last, missed
<1>6. ASSUME NEW t \in missed
      PROVE  \E k \in Int : t = start + k * every /\ first <= k /\ k <= last
  <2> DEFINE k == (t - start) \div every
  <2>1. t \in Int /\ start <= t /\ t <= now /\ since < t /\ t - start \in Int /\ (t - start) % every = 0
    BY <1>1, <1>3
  <2>2. k \in Int /\ t - start = k * every
    BY <1>1, <2>1, NoRest, PeriodsFit
  <2> HIDE DEF k
  <2>3. k <= last
    BY <1>1, <2>1, <2>2, LastPeriod DEF last
  <2>4. 0 <= k
    BY <1>1, <2>1, <2>2, MorePeriods
  <2>5. after < k
    <3>1. CASE k <= after
      <4>1. k * every <= after * every
        BY <1>1, <1>4, <2>2, <3>1, MorePeriods
      <4> QED
        BY <1>1, <1>4, <2>1, <2>2, <4>1
    <3> QED
      BY <1>4, <2>2, <3>1
  <2>6. first <= k /\ t = start + k * every
    BY <1>1, <1>4, <2>1, <2>2, <2>4, <2>5
  <2> QED
    BY <2>2, <2>3, <2>6
<1>7. missed \subseteq Int
  BY <1>3
<1>8. CASE now < start \/ start + first * every > now
  <2>1. missed = {}
    <3> SUFFICES ASSUME NEW t \in missed PROVE FALSE
      OBVIOUS
    <3>1. PICK k \in Int : t = start + k * every /\ first <= k
      BY <1>6
    <3>2. first * every <= k * every /\ k * every \in Int
      BY <1>1, <1>5, <3>1, MorePeriods
    <3>3. start <= t /\ t <= now /\ t \in Int
      BY <1>3
    <3> QED
      BY <1>1, <1>5, <1>8, <3>1, <3>2, <3>3
  <2> QED
    BY <1>2, <1>7, <1>8, <2>1, LatestIsLast DEF missed
<1>9. CASE ~(now < start \/ start + first * every > now)
  <2> DEFINE x == start + last * every
  <2>1. first <= last
    <3>1. first * every <= now - start /\ now - start \in Int
      BY <1>1, <1>5, <1>9
    <3> QED
      BY <1>1, <1>5, <3>1, LastPeriod DEF last
  <2>2. first * every <= last * every /\ 0 <= last * every
    BY <1>1, <1>4, <1>5, <2>1, MorePeriods
  <2>3. since < x
    <3>1. period * every <= first * every
      BY <1>1, <1>5, MorePeriods
    <3> QED
      BY <1>1, <1>4, <1>5, <2>2, <3>1
  <2>4. x \in missed
    <3>1. x \in Int /\ start <= x /\ x <= now /\ x - start = last * every
      BY <1>1, <1>4, <2>2
    <3>2. (last * every) % every = 0
      BY <1>1, <1>4, Multiples
    <3> QED
      BY <1>3, <2>3, <3>1, <3>2
  <2>5. \A t \in missed : t <= x
    <3> SUFFICES ASSUME NEW t \in missed PROVE t <= x
      OBVIOUS
    <3>1. PICK k \in Int : t = start + k * every /\ k <= last
      BY <1>6
    <3>2. k * every <= last * every /\ k * every \in Int
      BY <1>1, <1>4, <3>1, MorePeriods
    <3> QED
      BY <1>1, <1>4, <3>1, <3>2
  <2> QED
    BY <1>2, <1>7, <1>9, <2>4, <2>5, LatestIsLast DEF missed
<1> QED
  BY <1>8, <1>9

\* The arithmetic of catch_up finds the latest missed occurrence, for every
\* schedule and every two times.
THEOREM CatchUpFindsLatest ==
  \A s \in Schedule, since, now \in Int : CatchUpIsLatest(s, since, now)
<1> SUFFICES ASSUME NEW s \in Schedule, NEW since \in Int, NEW now \in Int,
                    ~CatchUpRaises(s, since, now)
             PROVE  CatchUp(s, since, now)
                      = Latest({t \in Occurrences(s, now) : since < t /\ t <= now})
  BY DEF CatchUpIsLatest
<1>1. CASE s.kind = "interval"
  BY <1>1, IntervalCatchUp DEF CatchUpRaises
<1>2. CASE s.kind = "once"
  BY <1>2 DEF CatchUp, Occurrences
<1>3. CASE s.kind = "cron"
  BY <1>3 DEF CatchUp, Occurrences
<1> QED
  BY <1>1, <1>2, <1>3 DEF Schedule

\* An occurrence that is caught up with is after the time it is caught up from,
\* and not after the present.
LEMMA CatchUpBounds ==
  ASSUME NEW s \in Schedule, NEW since \in Int, NEW now \in Int,
         ~CatchUpRaises(s, since, now), CatchUp(s, since, now) # NoTime
  PROVE  /\ CatchUp(s, since, now) \in Time
         /\ since < CatchUp(s, since, now)
         /\ CatchUp(s, since, now) <= now
<1> DEFINE missed == {t \in Occurrences(s, now) : since < t /\ t <= now}
<1>1. CatchUp(s, since, now) = Latest(missed)
  BY CatchUpFindsLatest DEF CatchUpIsLatest
<1>2. CatchUp(s, since, now) \in missed
  BY <1>1, LatestIsElement
<1>3. CatchUp(s, since, now) \in Time
  BY CatchUpType DEF When
<1> QED
  BY <1>2, <1>3

\* The arithmetic of next_occurrence finds the first occurrence after a time,
\* for every schedule that is anchored, time, and horizon that reaches so far.
THEOREM NextFindsFirst ==
  \A s \in Schedule, after \in Time, horizon \in Int :
    NextOccurrence(s, after) <= horizon => NextIsFirst(s, after, horizon)
<1> SUFFICES ASSUME NEW s \in Schedule, NEW after \in Time, NEW horizon \in Int,
                    NextOccurrence(s, after) <= horizon,
                    s.kind # "interval" \/ s.start # NoTime
             PROVE  NextOccurrence(s, after) = Earliest({t \in Occurrences(s, horizon) : t > after})
  BY DEF NextIsFirst
<1>0. after \in Int
  BY DEF Time
<1>1. CASE s.kind = "interval"
  <2> DEFINE start == s.start
             every == s.every
             before == (after - start) \div every
             next == IF after < start THEN start ELSE start + (before + 1) * every
             later == {t \in Occurrences(s, horizon) : t > after}
  <2>1. start \in Int /\ every \in Nat \ {0}
    BY <1>1 DEF Schedule, When, Time
  <2>2. NextOccurrence(s, after) = next
    BY <1>1 DEF NextOccurrence
  <2>3. /\ before \in Int /\ before * every \in Int /\ before * every <= after - start
        /\ after - start < before * every + every
    <3>1. after - start \in Int
      BY <1>0, <2>1
    <3> QED
      BY <2>1, <3>1, PeriodsFit
  <2>4. \A t : t \in later <=> /\ t \in Int /\ start <= t /\ t <= horizon /\ t > after
                              /\ (t - start) % every = 0
    <3>1. Occurrences(s, horizon) = {t \in start..horizon : (t - start) % every = 0}
      BY <1>1 DEF Occurrences
    <3> QED
      BY <2>1, <3>1
  <2>5. next <= horizon
    BY <2>2
  <2> HIDE DEF before, later
  <2>6. (before + 1) * every = before * every + every
    BY <2>1, <2>3, OneMore
  <2>7. next \in later
    <3>1. CASE after < start
      <4>1. (start - start) % every = 0
        BY <2>1
      <4> QED
        BY <2>1, <2>4, <2>5, <3>1, <4>1
    <3>2. CASE ~(after < start)
      <4>1. ((before + 1) * every) % every = 0
        BY <2>1, <2>3, Multiples
      <4>2. next \in Int /\ next > after /\ start <= next /\ next - start = (before + 1) * every
        BY <1>0, <2>1, <2>3, <2>6, <3>2
      <4> QED
        BY <2>4, <2>5, <4>1, <4>2
    <3> QED
      BY <3>1, <3>2
  <2>8. \A t \in later : next <= t
    <3> SUFFICES ASSUME NEW t \in later PROVE next <= t
      OBVIOUS
    <3>1. t \in Int /\ start <= t /\ t > after /\ t - start \in Int /\ (t - start) % every = 0
      BY <2>1, <2>4
    <3>2. CASE after < start
      BY <3>1, <3>2
    <3>3. CASE ~(after < start)
      <4> DEFINE k == (t - start) \div every
      <4>1. k \in Int /\ t - start = k * every
        BY <2>1, <3>1, NoRest, PeriodsFit
      <4> HIDE DEF k
      <4>2. before < k
        <5>1. CASE k <= before
          <6>1. k * every <= before * every /\ k * every \in Int
            BY <2>1, <2>3, <4>1, <5>1, MorePeriods
          <6> QED
            BY <1>0, <2>1, <2>3, <3>1, <4>1, <6>1
        <5> QED
          BY <2>3, <4>1, <5>1
      <4>3. before * every + every <= k * every /\ k * every \in Int
        BY <2>1, <2>3, <4>1, <4>2, MorePeriods
      <4> QED
        BY <2>1, <2>3, <2>6, <3>1, <3>3, <4>1, <4>3
    <3> QED
      BY <3>2, <3>3
  <2>9. later \subseteq Int
    BY <2>4
  <2> QED
    BY <2>2, <2>7, <2>8, <2>9, EarliestIsFirst DEF later
<1>2. CASE s.kind = "once"
  <2> DEFINE later == {t \in Occurrences(s, horizon) : t > after}
  <2>1. s.at \in Int /\ NextOccurrence(s, after) = IF s.at > after THEN s.at ELSE NoTime
    BY <1>2 DEF NextOccurrence, Schedule, When, Time, NoTime
  <2>2. later = IF s.at > after THEN {s.at} ELSE {}
    BY <1>2 DEF Occurrences
  <2> HIDE DEF later
  <2>3. later \subseteq Int
    BY <2>1, <2>2
  <2> QED
    BY <2>1, <2>2, <2>3, EarliestIsFirst DEF later
<1>3. CASE s.kind = "cron"
  BY <1>3 DEF NextOccurrence, Occurrences
<1> QED
  BY <1>1, <1>2, <1>3 DEF Schedule

\* What _due answers is the latest occurrence after a time that is not before
\* the last one that was run.
LEMMA DueIsLatest ==
  ASSUME NEW s \in Schedule, NEW last \in When, NEW now \in Int, NEW anchor \in Time,
         ~DueRaises(s, last, now, anchor), Due(s, last, now, anchor) # NoTime
  PROVE  /\ Due(s, last, now, anchor) \in Time
         /\ last < Due(s, last, now, anchor)
         /\ Due(s, last, now, anchor) <= now
         /\ \/ s.kind = "interval" /\ s.start = NoTime
            \/ \A t \in Occurrences(s, now) :
                 Due(s, last, now, anchor) < t => ~(t <= now)
<1> DEFINE due == Due(s, last, now, anchor)
<1>0. last \in Int /\ (last = NoTime \/ last \in Nat) /\ anchor \in Nat
  BY DEF When, Time, NoTime
<1>1. ASSUME NEW since \in Int, ~CatchUpRaises(s, since, now), due = CatchUp(s, since, now)
      PROVE  \A t \in Occurrences(s, now) : due < t => ~(t <= now)
  <2> DEFINE missed == {t \in Occurrences(s, now) : since < t /\ t <= now}
  <2>1. CatchUp(s, since, now) = Latest(missed)
    BY <1>1, CatchUpFindsLatest DEF CatchUpIsLatest
  <2>2. Occurrences(s, now) \subseteq Int
    <3>1. s.at \in Int /\ s.fires \subseteq Int
      BY DEF Schedule, When, Time, NoTime
    <3>2. s.start \in Int
      BY DEF Schedule, When, Time, NoTime
    <3> QED
      BY <3>1, <3>2 DEF Occurrences, Schedule
  <2>3. missed \subseteq Int
    BY <2>2
  <2>4. due \in missed /\ \A u \in missed : u <= due
    BY <1>1, <2>1, <2>3, LatestIsLast
  <2> SUFFICES ASSUME NEW t \in Occurrences(s, now), due < t, t <= now PROVE FALSE
    OBVIOUS
  <2>5. t \in missed
    BY <2>2, <2>3, <2>4
  <2> QED
    BY <2>2, <2>3, <2>4, <2>5
<1>2. CASE last # NoTime
  <2>1. due = CatchUp(s, last, now) /\ ~CatchUpRaises(s, last, now)
    BY <1>2 DEF Due, DueRaises
  <2> QED
    BY <1>0, <1>1, <2>1, CatchUpBounds
<1>3. CASE last = NoTime /\ s.kind = "once"
  <2>1. due = s.at /\ s.at <= now /\ s.at \in Time
    BY <1>3 DEF Due, Schedule, When
  <2>2. Occurrences(s, now) = {s.at}
    BY <1>3 DEF Occurrences
  <2> QED
    BY <1>3, <2>1, <2>2 DEF Time, NoTime
<1>4. CASE last = NoTime /\ s.kind = "cron"
  <2>1. due = CatchUp(s, anchor, now) /\ ~CatchUpRaises(s, anchor, now)
    BY <1>4 DEF Due, DueRaises
  <2>2. due \in Time /\ anchor < due /\ due <= now
    BY <1>0, <2>1, CatchUpBounds
  <2>3. last < due
    BY <1>0, <1>4, <2>2 DEF Time, NoTime
  <2>4. \A t \in Occurrences(s, now) : due < t => ~(t <= now)
    BY <1>0, <1>1, <2>1
  <2> QED
    BY <2>2, <2>3, <2>4
<1>5. CASE last = NoTime /\ s.kind = "interval"
  <2> DEFINE origin == Origin(s, anchor)
             anchored == [s EXCEPT !.start = origin]
             since == IF s.start # NoTime THEN origin - 1 ELSE origin
  <2>1. origin \in Time /\ ~(now < origin) /\ due = CatchUp(anchored, since, now)
    BY <1>5 DEF Due, Origin, Schedule, When
  <2>2. anchored \in Schedule /\ since \in Int /\ origin # NoTime /\ ~(now < since) /\ -1 <= since
    BY <2>1 DEF Schedule, When, Time, NoTime
  <2>3. anchored.kind = "interval" /\ anchored.start = origin
    BY <1>5 DEF Schedule
  <2>4. ~CatchUpRaises(anchored, since, now)
    BY <2>2, <2>3 DEF CatchUpRaises, NeverFires
  <2>5. due \in Time /\ since < due /\ due <= now
    BY <2>1, <2>2, <2>4, CatchUpBounds
  <2>6. last < due
    BY <1>5, <2>2, <2>5 DEF Time, NoTime
  <2>7. CASE s.start # NoTime
    <3>1. anchored = s
      BY <2>7 DEF Origin, Schedule
    <3>2. ~CatchUpRaises(s, since, now) /\ due = CatchUp(s, since, now)
      BY <2>1, <2>4, <3>1
    <3>3. due \in Time /\ last < due /\ due <= now /\ since \in Int
      BY <2>2, <2>5, <2>6
    <3> HIDE DEF since, due
    <3>4. \A t \in Occurrences(s, now) : due < t => ~(t <= now)
      BY <1>1, <3>2, <3>3
    <3> QED
      BY <3>3, <3>4 DEF due
  <2>8. CASE s.start = NoTime
    BY <1>5, <2>5, <2>6, <2>8
  <2> QED
    BY <2>7, <2>8
<1> QED
  BY <1>0, <1>2, <1>3, <1>4, <1>5 DEF Schedule

\* Running what is owed pays it, for every schedule: it is later than what was
\* run before, its time has come, and it is not owed again, then or later.
THEOREM DueIsPaidOnce ==
  \A s \in Schedule, last \in When, now, later \in Int, anchor \in Time :
    now <= later => DuePaysOff(s, last, now, later, anchor)
<1> SUFFICES ASSUME NEW s \in Schedule, NEW last \in When, NEW now \in Int, NEW later \in Int,
                    NEW anchor \in Time, now <= later,
                    Due(s, last, now, anchor) # NoTime,
                    ~DueRaises(s, last, now, anchor),
                    ~DueRaises(s, Due(s, last, now, anchor), later, anchor)
             PROVE  LET due == Due(s, last, now, anchor) IN
                    /\ due > last
                    /\ due <= now
                    /\ CatchUp(s, due, now) = NoTime
                    /\ CatchUp(s, due, later) = NoTime \/ CatchUp(s, due, later) > due
  BY DEF DuePaysOff
<1> DEFINE due == Due(s, last, now, anchor)
<1>1. due \in Time /\ due \in Int /\ last < due /\ due <= now /\ last \in Int
  BY DueIsLatest DEF Time, When, NoTime
<1>2. ~CatchUpRaises(s, due, later)
  BY DEF DueRaises
<1>3. s.kind = "interval" => s.start # NoTime
  BY <1>2 DEF CatchUpRaises
<1>4. \A t \in Occurrences(s, now) : due < t => ~(t <= now)
  BY <1>3, DueIsLatest
<1> HIDE DEF due
<1>5. CatchUp(s, due, later) = NoTime \/ CatchUp(s, due, later) > due
  <2>1. CatchUp(s, due, later) # NoTime =>
          due < CatchUp(s, due, later) /\ CatchUp(s, due, later) \in Time
    BY <1>1, <1>2, CatchUpBounds
  <2> QED
    BY <1>1, <2>1 DEF Time
<1>6. CatchUp(s, due, now) = NoTime
  <2>1. {t \in Occurrences(s, now) : due < t /\ t <= now} = {}
    BY <1>4
  <2>2. CatchUp(s, due, now) = Latest({t \in Occurrences(s, now) : due < t /\ t <= now})
    <3>1. CASE s.kind = "interval"
      BY <1>1, <1>3, <3>1, IntervalCatchUp
    <3>2. CASE s.kind # "interval"
      BY <3>2 DEF CatchUp, Occurrences, Schedule
    <3> QED
      BY <3>1, <3>2
  <2> QED
    BY <2>1, <2>2, LatestIsLast
<1> QED
  BY <1>1, <1>5, <1>6 DEF due

-----------------------------------------------------------------------------
(* Type correctness *)

\* What the steps write into the row of a frame.
LEMMA FrameRowEdits ==
  ASSUME NEW row \in FrameRow, NEW status \in {"none"} \cup OpenFrame \cup FinalFrame,
         NEW b \in BOOLEAN, NEW l \in Lanes
  PROVE  /\ [row EXCEPT !.status = status] \in FrameRow
         /\ [row EXCEPT !.ready = b] \in FrameRow
         /\ [row EXCEPT !.expired = b] \in FrameRow
         /\ [row EXCEPT !.status = status, !.ready = b] \in FrameRow
         /\ [row EXCEPT !.status = "leased", !.attempts = @ + 1, !.expired = FALSE,
                        !.holder = l] \in FrameRow
<1>1. [row EXCEPT !.status = status] \in FrameRow
  BY DEF FrameRow
<1>2. [row EXCEPT !.ready = b] \in FrameRow
  BY DEF FrameRow
<1>3. [row EXCEPT !.expired = b] \in FrameRow
  BY DEF FrameRow
<1>4. [row EXCEPT !.status = status, !.ready = b] \in FrameRow
  BY DEF FrameRow
<1>5. \A n \in Nat : [row EXCEPT !.status = "leased", !.attempts = n, !.expired = FALSE,
                                !.holder = l] \in FrameRow
  BY DEF FrameRow, OpenFrame
<1>6. row.attempts + 1 \in Nat
  BY DEF FrameRow
<1>7. QED
  BY Zenon, <1>1, <1>2, <1>3, <1>4, <1>5, <1>6

\* Into the row of a run.
LEMMA RunRowEdits ==
  ASSUME NEW row \in RunRow, NEW status \in {"none"} \cup OpenRun \cup FinalRun,
         NEW b \in BOOLEAN
  PROVE  /\ [row EXCEPT !.status = status] \in RunRow
         /\ [row EXCEPT !.ready = b] \in RunRow
         /\ [row EXCEPT !.expired = b] \in RunRow
         /\ [row EXCEPT !.status = status, !.ready = b] \in RunRow
         /\ [row EXCEPT !.status = status, !.expired = b] \in RunRow
         /\ [row EXCEPT !.attempts = @ + 1, !.status = status] \in RunRow
         /\ [row EXCEPT !.attempts = @ + 1, !.status = status, !.ready = b] \in RunRow
<1>1. [row EXCEPT !.status = status] \in RunRow
  BY DEF RunRow
<1>2. [row EXCEPT !.ready = b] \in RunRow
  BY DEF RunRow
<1>3. [row EXCEPT !.expired = b] \in RunRow
  BY DEF RunRow
<1>4. [row EXCEPT !.status = status, !.ready = b] \in RunRow
  BY DEF RunRow
<1>5. [row EXCEPT !.status = status, !.expired = b] \in RunRow
  BY DEF RunRow
<1>6. \A n \in Nat : [row EXCEPT !.attempts = n, !.status = status] \in RunRow
  BY DEF RunRow
<1>7. \A n \in Nat : [row EXCEPT !.attempts = n, !.status = status, !.ready = b] \in RunRow
  BY DEF RunRow
<1>8. row.attempts + 1 \in Nat
  BY DEF RunRow
<1>9. QED
  BY Zenon, <1>1, <1>2, <1>3, <1>4, <1>5, <1>6, <1>7, <1>8

\* Into the row of a job.
LEMMA JobRowEdits ==
  ASSUME NEW row \in JobRow, NEW status \in {"active", "paused", "ended", "cancelled"},
         NEW d \in Definition, NEW t \in Time, NEW b \in BOOLEAN, NEW n \in Nat
  PROVE  /\ [row EXCEPT !.revision = @ + 1, !.def = d, !.anchor = t, !.lastDue = NoTime,
                        !.pausedAt = NoTime] \in JobRow
         /\ [row EXCEPT !.status = status, !.revision = @ + 1, !.pausedAt = t] \in JobRow
         /\ [row EXCEPT !.status = status, !.revision = @ + 1] \in JobRow
         /\ [row EXCEPT !.status = status, !.revision = @ + 1, !.redacted = b] \in JobRow
         /\ [row EXCEPT !.status = IF b THEN "ended" ELSE @] \in JobRow
         /\ [row EXCEPT !.successes = n, !.status = IF b THEN "ended" ELSE @] \in JobRow
<1>1. \A m \in Nat : [row EXCEPT !.revision = m, !.def = d, !.anchor = t, !.lastDue = NoTime,
                                !.pausedAt = NoTime] \in JobRow
  BY DEF JobRow, When
<1>2. \A m \in Nat : [row EXCEPT !.status = status, !.revision = m, !.pausedAt = t] \in JobRow
  BY DEF JobRow, When
<1>3. \A m \in Nat : [row EXCEPT !.status = status, !.revision = m] \in JobRow
  BY DEF JobRow
<1>4. \A m \in Nat : [row EXCEPT !.status = status, !.revision = m, !.redacted = b] \in JobRow
  BY DEF JobRow
<1>5. [row EXCEPT !.status = IF b THEN "ended" ELSE @] \in JobRow
  BY DEF JobRow
<1>6. [row EXCEPT !.successes = n, !.status = IF b THEN "ended" ELSE @] \in JobRow
  BY DEF JobRow
<1>7. row.revision + 1 \in Nat
  BY DEF JobRow
<1>8. QED
  BY Zenon, <1>1, <1>2, <1>3, <1>4, <1>5, <1>6, <1>7

\* Into what is known of a lane.
LEMMA LaneEdits ==
  ASSUME NEW lane \in Lane, NEW pc \in Pc, NEW b \in BOOLEAN, NEW r \in Runs, NEW f \in Frames
  PROVE  /\ [lane EXCEPT !.pc = pc] \in Lane
         /\ [lane EXCEPT !.lost = TRUE] \in Lane
         /\ [lane EXCEPT !.pc = "claimed", !.run = r, !.first = b] \in Lane
         /\ [lane EXCEPT !.pc = "admit", !.run = r, !.frame = f] \in Lane
<1>1. [lane EXCEPT !.pc = pc] \in Lane
  BY DEF Lane
<1>2. [lane EXCEPT !.lost = TRUE] \in Lane
  BY DEF Lane
<1>3. [lane EXCEPT !.pc = "claimed", !.run = r, !.first = b] \in Lane
  BY DEF Lane, Pc
<1>4. [lane EXCEPT !.pc = "admit", !.run = r, !.frame = f] \in Lane
  BY DEF Lane, Pc
<1>5. QED
  BY <1>1, <1>2, <1>3, <1>4

\* Recovery and pacing keep a run's frames typed.
LEMMA PacedType ==
  ASSUME NEW fs \in [Runs -> [Frames -> FrameRow]], NEW r \in Runs
  PROVE  Paced(fs, r) \in [Frames -> FrameRow]
<1>1. \A f \in Frames : fs[r][f] \in FrameRow
  OBVIOUS
<1>2. \A row \in FrameRow : [row EXCEPT !.ready = FALSE] \in FrameRow
  BY DEF FrameRow
<1>3. QED
  BY <1>1, <1>2 DEF Paced

LEMMA RecoveredFrameType ==
  ASSUME NEW row \in FrameRow
  PROVE  RecoveredFrame(row) \in FrameRow
BY DEF RecoveredFrame, FrameRow, OpenFrame, FinalFrame

LEMMA RecoveredRunType ==
  ASSUME NEW row \in RunRow
  PROVE  RecoveredRun(row) \in RunRow
BY DEF RecoveredRun, RunRow, OpenRun, FinalRun

LEMMA RedactedType ==
  ASSUME TypeOK, NEW j \in Jobs, NEW fs
  PROVE  Redacted(j, fs) \in [Jobs -> JobRow]
<1>1. jobs[j] \in JobRow
  BY DEF TypeOK
<1>2. [jobs[j] EXCEPT !.redacted = @ \/ Redactable(j, jobs[j].status, fs)] \in JobRow
  <2>1. (jobs[j].redacted \/ Redactable(j, jobs[j].status, fs)) \in BOOLEAN
    OBVIOUS
  <2>2. QED
    BY <1>1, <2>1 DEF JobRow
<1>3. QED
  BY <1>2 DEF Redacted, TypeOK

LEMMA RestingType ==
  ASSUME NEW prefer \in BOOLEAN
  PROVE  /\ Resting(prefer) \in Lane
         /\ \A pc \in Pc : [Resting(prefer) EXCEPT !.pc = pc] \in Lane
<1>1. 0 \in Frames
  BY CronAssumption DEF Frames
<1>2. Resting(prefer) \in Lane
  BY <1>1 DEF Resting, Lane, Pc
<1>3. \A pc \in Pc : [Resting(prefer) EXCEPT !.pc = pc] \in Lane
  BY <1>2 DEF Lane
<1>4. QED
  BY <1>2, <1>3

LEMMA InitTypeOK == Init => TypeOK
<1> SUFFICES ASSUME Init PROVE TypeOK
  OBVIOUS
<1> USE CronAssumption
<1>1. NoJobRow \in JobRow
  BY DEF NoJobRow, JobRow, Definition, Schedule, Once, When, Time
<1>2. NoRunRow \in RunRow
  BY DEF NoRunRow, RunRow, Time
<1>3. NoFrameRow \in FrameRow
  BY DEF NoFrameRow, FrameRow
<1>4. Resting(FALSE) \in Lane
  BY RestingType
<1>5. 0 \in 0..MaxRuns
  BY DEF Runs
<1>6. QED
  BY <1>1, <1>2, <1>3, <1>4, <1>5 DEF Init, TypeOK, Time

\* The edits.
LEMMA InvalidateType ==
  ASSUME TypeOK, NEW j \in Jobs, InvalidateStaleWork(j)
  PROVE  runs' \in [Runs -> RunRow] /\ frames' \in [Runs -> [Frames -> FrameRow]]
<1>1. \A r \in Runs : runs[r] \in RunRow /\ [runs[r] EXCEPT !.status = "invalidated"] \in RunRow
  <2>1. \A row \in RunRow : [row EXCEPT !.status = "invalidated"] \in RunRow
    BY DEF RunRow, FinalRun
  <2>2. QED
    BY <2>1 DEF TypeOK
<1>2. \A r \in Runs, f \in Frames :
        frames[r][f] \in FrameRow /\ [frames[r][f] EXCEPT !.status = "suppressed"] \in FrameRow
  <2>1. \A row \in FrameRow : [row EXCEPT !.status = "suppressed"] \in FrameRow
    BY DEF FrameRow, FinalFrame
  <2>2. QED
    BY <2>1 DEF TypeOK
<1>3. QED
  BY <1>1, <1>2 DEF InvalidateStaleWork

LEMMA CreateType ==
  ASSUME TypeOK, NEW j \in Jobs, NEW d \in Definitions, Create(j, d)
  PROVE  TypeOK'
<1>1. d \in Definition /\ d.schedule \in Schedule /\ clock \in Time
  BY CronAssumption DEF Definition, TypeOK
<1>2. Origin(d.schedule, clock) \in Time
  BY <1>1 DEF Origin, Schedule, When
<1>3. [NoJobRow EXCEPT !.status = "active", !.revision = 1, !.def = d,
                       !.anchor = Origin(d.schedule, clock)] \in JobRow
  BY Zenon, <1>1, <1>2 DEF NoJobRow, JobRow, When
<1>4. QED
  BY <1>3 DEF Create, TypeOK

LEMMA UpdateType ==
  ASSUME TypeOK, NEW j \in Jobs, NEW d \in Definitions, Update(j, d)
  PROVE  TypeOK'
<1>1. d \in Definition /\ clock \in Time /\ jobs[j] \in JobRow
  BY CronAssumption DEF TypeOK
<1>2. jobs' \in [Jobs -> JobRow]
  BY Zenon, <1>1, JobRowEdits DEF Update, TypeOK
<1>3. runs' \in [Runs -> RunRow] /\ frames' \in [Runs -> [Frames -> FrameRow]]
  BY InvalidateType DEF Update, Edit
<1>4. counts' \in [defers : Nat, crashes : Nat, stalls : Nat, updates : Nat]
  BY DEF Update, TypeOK
<1>5. paid' \in [Jobs -> SUBSET Time]
  BY DEF Update, TypeOK
<1>6. QED
  BY <1>2, <1>3, <1>4, <1>5 DEF Update, Edit, TypeOK

LEMMA PauseResumeType ==
  ASSUME TypeOK, NEW j \in Jobs, Pause(j) \/ Resume(j)
  PROVE  TypeOK'
<1>1. clock \in Time /\ jobs[j] \in JobRow
  BY DEF TypeOK
<1>2. jobs' \in [Jobs -> JobRow]
  <2>1. jobs[j].def \in Definition
    BY SMTT(60), <1>1 DEF JobRow
  <2>2. CASE Pause(j)
    BY ZenonT(60), <1>1, <2>1, <2>2, JobRowEdits DEF Pause, TypeOK
  <2>3. CASE Resume(j)
    BY Zenon, <1>1, <2>1, <2>3, JobRowEdits DEF Resume, TypeOK
  <2>4. QED
    BY <2>2, <2>3
<1>3. runs' \in [Runs -> RunRow] /\ frames' \in [Runs -> [Frames -> FrameRow]]
  BY InvalidateType DEF Pause, Resume, Edit
<1>4. QED
  BY <1>2, <1>3 DEF Pause, Resume, Edit, TypeOK

LEMMA DeleteType ==
  ASSUME TypeOK, NEW j \in Jobs, Delete(j)
  PROVE  TypeOK'
<1>1. clock \in Time /\ jobs[j] \in JobRow
  BY DEF TypeOK
<1>2. PICK b \in BOOLEAN :
        jobs' = [jobs EXCEPT ![j] = [jobs[j] EXCEPT !.status = "cancelled", !.revision = @ + 1,
                                              !.redacted = b]]
  <2>1. (jobs[j].redacted \/ Redactable(j, "cancelled", frames')) \in BOOLEAN
    OBVIOUS
  <2>2. QED
    BY Zenon, <2>1 DEF Delete
<1>3. jobs' \in [Jobs -> JobRow]
  <2>1. jobs[j].def \in Definition
    BY SMTT(60), <1>1 DEF JobRow
  <2>2. [jobs[j] EXCEPT !.status = "cancelled", !.revision = @ + 1, !.redacted = b] \in JobRow
    BY Zenon, <1>1, <2>1, JobRowEdits
  <2>3. QED
    BY <1>2, <2>2 DEF TypeOK
<1>4. runs' \in [Runs -> RunRow] /\ frames' \in [Runs -> [Frames -> FrameRow]]
  BY InvalidateType DEF Delete, Edit
<1>5. QED
  BY <1>3, <1>4 DEF Delete, Edit, TypeOK

LEMMA NewRunType ==
  ASSUME NEW j \in Jobs, NEW due \in Time, NEW revision \in Nat,
         NEW trigger \in {"schedule", "catchup", "manual", "lifecycle"}
  PROVE  NewRun(j, due, trigger, revision) \in RunRow
BY CronAssumption DEF NewRun, NoRunRow, RunRow, OpenRun, Time

LEMMA RunNowType ==
  ASSUME TypeOK, NEW j \in Jobs, RunNow(j)
  PROVE  TypeOK'
<1>1. jobs[j].revision \in Nat /\ clock \in Time
  BY DEF TypeOK, JobRow
<1>2. NewRun(j, clock, "manual", jobs[j].revision) \in RunRow
  BY <1>1, NewRunType
<1>3. made + 1 \in Runs /\ made' \in 0..MaxRuns
  BY SMTT(60), CronAssumption DEF RunNow, TypeOK, Runs
<1>4. QED
  BY <1>2, <1>3 DEF RunNow, TypeOK

LEMMA RecoverType ==
  ASSUME TypeOK, NEW l \in Lanes, Recover(l)
  PROVE  TypeOK'
<1> DEFINE recovered == [r \in Runs |-> [f \in Frames |-> RecoveredFrame(frames[r][f])]]
           uncertain == {r \in Runs : \E f \in Frames :
                           recovered[r][f].status # frames[r][f].status
                           /\ recovered[r][f].status = "unknown"}
           paced == [r \in Runs |-> IF r \in uncertain THEN Paced(recovered, r) ELSE recovered[r]]
<1>1. recovered \in [Runs -> [Frames -> FrameRow]]
  BY RecoveredFrameType DEF TypeOK
<1>2. \A r \in Runs : paced[r] \in [Frames -> FrameRow]
  <2> TAKE r \in Runs
  <2>1. Paced(recovered, r) \in [Frames -> FrameRow]
    BY <1>1, PacedType
  <2> HIDE DEF recovered, uncertain
  <2>2. QED
    BY <1>1, <2>1
<1>3. \A row \in FrameRow, b \in BOOLEAN : [row EXCEPT !.expired = @ /\ b] \in FrameRow
  <2> TAKE row \in FrameRow, b \in BOOLEAN
  <2>1. (row.expired /\ b) \in BOOLEAN
    OBVIOUS
  <2>2. QED
    BY <2>1 DEF FrameRow
<1>4. frames' \in [Runs -> [Frames -> FrameRow]]
  <2>1. frames' = [r \in Runs |-> [f \in Frames |->
                     [paced[r][f] EXCEPT !.expired = @ /\ paced[r][f].status = frames[r][f].status]]]
    BY Zenon DEF Recover
  <2> HIDE DEF paced
  <2>2. \A r \in Runs, f \in Frames :
          [paced[r][f] EXCEPT !.expired = @ /\ paced[r][f].status = frames[r][f].status] \in FrameRow
    <3> TAKE r \in Runs, f \in Frames
    <3>1. paced[r][f] \in FrameRow /\ (paced[r][f].status = frames[r][f].status) \in BOOLEAN
      BY <1>2
    <3>2. QED
      BY Zenon, <3>1, <1>3
  <2>3. QED
    BY <2>1, <2>2
<1>5. runs' \in [Runs -> RunRow]
  BY Zenon, RecoveredRunType DEF Recover, TypeOK
<1>6. jobs' \in [Jobs -> JobRow]
  <2>1. \A j \in Jobs : [jobs[j] EXCEPT !.redacted = @ \/ Redactable(j, jobs[j].status, frames')]
                          \in JobRow
    <3> TAKE j \in Jobs
    <3>1. jobs[j] \in JobRow
      BY DEF TypeOK
    <3>2. (jobs[j].redacted \/ Redactable(j, jobs[j].status, frames')) \in BOOLEAN
      OBVIOUS
    <3>3. QED
      BY ZenonT(60), <3>1, <3>2 DEF JobRow
  <2>2. jobs' = [j \in Jobs |->
                   IF \E r \in uncertain : runs[r].job = j
                   THEN [jobs[j] EXCEPT !.redacted = @ \/ Redactable(j, jobs[j].status, frames')]
                   ELSE jobs[j]]
    BY Zenon DEF Recover
  <2> HIDE DEF uncertain
  <2>3. QED
    BY <2>1, <2>2 DEF TypeOK
<1>7. lanes' \in [Lanes -> Lane]
  <2>1. lanes[l] \in Lane /\ [lanes[l] EXCEPT !.pc = "first"] \in Lane
                         /\ [lanes[l] EXCEPT !.pc = "deliver"] \in Lane
    <3>1. \A lane \in Lane, pc \in Pc : [lane EXCEPT !.pc = pc] \in Lane
      BY DEF Lane
    <3>2. QED
      BY <3>1 DEF TypeOK, Pc
  <2>2. QED
    BY Zenon, <2>1 DEF Recover, TypeOK
<1>8. QED
  BY Zenon, <1>4, <1>5, <1>6, <1>7 DEF Recover, TypeOK

\* Claiming a row for a lane.
LEMMA ClaimType ==
  ASSUME TypeOK, NEW l \in Lanes, NEW r \in Runs, NEW row \in RunRow, Claim(l, r, row)
  PROVE  runs' \in [Runs -> RunRow] /\ lanes' \in [Lanes -> Lane]
<1>1. [row EXCEPT !.status = "leased", !.expired = FALSE, !.holder = l] \in RunRow
  BY DEF RunRow, OpenRun
<1>2. lanes[l] \in Lane /\ (lanes[l].pc = "first") \in BOOLEAN
  BY DEF TypeOK
<1>3. [lanes[l] EXCEPT !.pc = "claimed", !.run = r, !.first = lanes[l].pc = "first"] \in Lane
  BY <1>2 DEF Lane, Pc
<1>4. QED
  BY <1>1, <1>3 DEF Claim, TypeOK

LEMMA LaneRestsType ==
  ASSUME TypeOK, NEW l \in Lanes, NEW b \in BOOLEAN
  PROVE  /\ [lanes EXCEPT ![l] = Resting(b)] \in [Lanes -> Lane]
         /\ \A pc \in Pc : [lanes EXCEPT ![l] = [Resting(b) EXCEPT !.pc = pc]] \in [Lanes -> Lane]
         /\ \A pc \in Pc : [lanes EXCEPT ![l] = [@ EXCEPT !.pc = pc]] \in [Lanes -> Lane]
         /\ lanes[l].prefer \in BOOLEAN /\ lanes[l].first \in BOOLEAN
         /\ lanes[l].run \in Runs \cup {NoRun} /\ lanes[l].frame \in Frames
<1>1. lanes[l] \in Lane /\ \A pc \in Pc : [lanes[l] EXCEPT !.pc = pc] \in Lane
  BY DEF TypeOK, Lane
<1>2. QED
  BY <1>1, RestingType DEF TypeOK, Lane

\* Owed is a time, where the look at the job does not raise.
LEMMA OwedType ==
  ASSUME TypeOK, NEW j \in Jobs, ~LookRaises(j)
  PROVE  Owed(j) \in When
<1>1. /\ jobs[j].def.schedule \in Schedule /\ jobs[j].def.ends \in When
      /\ jobs[j].pausedAt \in When /\ jobs[j].lastDue \in When /\ jobs[j].anchor \in Time
      /\ clock \in Time
  BY DEF TypeOK, JobRow, Definition
<1>2. CASE CatchingUp(j)
  <2>1. jobs[j].pausedAt \in Int /\ clock \in Int
    BY <1>1 DEF When, Time, NoTime
  <2>2. ~CatchUpRaises(jobs[j].def.schedule, jobs[j].pausedAt, clock)
    BY <1>2 DEF LookRaises
  <2>3. CatchUp(jobs[j].def.schedule, jobs[j].pausedAt, clock) \in When
    BY <1>1, <2>1, <2>2, CatchUpType
  <2>4. QED
    BY <1>2, <2>3 DEF Owed
<1>3. CASE ~CatchingUp(j)
  <2>1. OwedUntil(j) \in Int
    BY <1>1 DEF OwedUntil, When, Time, NoTime
  <2>2. ~DueRaises(jobs[j].def.schedule, jobs[j].lastDue, OwedUntil(j), jobs[j].anchor)
    BY <1>3 DEF LookRaises
  <2>3. Due(jobs[j].def.schedule, jobs[j].lastDue, OwedUntil(j), jobs[j].anchor) \in When
    BY <1>1, <2>1, <2>2, DueType
  <2>4. QED
    BY <1>3, <2>3 DEF Owed
<1>4. QED
  BY <1>2, <1>3

\* The run that is made, and the job it is made for, are typed.
LEMMA MakeRunType ==
  ASSUME TypeOK, NEW l \in Lanes, NEW j \in Jobs, made < MaxRuns,
         NEW trigger \in {"schedule", "catchup", "lifecycle"}, NEW due \in Time,
         MakeRun(l, j, trigger, due)
  PROVE  /\ runs' \in [Runs -> RunRow] /\ lanes' \in [Lanes -> Lane]
         /\ jobs' \in [Jobs -> JobRow] /\ paid' \in [Jobs -> SUBSET Time]
         /\ made' \in 0..MaxRuns
<1> DEFINE revision == jobs[j].revision + (IF trigger = "lifecycle" THEN 1 ELSE 0)
<1>1. \A i \in Jobs : jobs[i] \in JobRow
  BY DEF TypeOK
<1>2. revision \in Nat
  BY <1>1 DEF JobRow
<1>3. made + 1 \in Runs /\ made' \in 0..MaxRuns
  <2>1. MaxRuns \in Nat /\ made \in 0..MaxRuns /\ made' = made + 1
    BY Zenon, CronAssumption DEF MakeRun, TypeOK
  <2>2. QED
    BY <2>1 DEF Runs
<1>4. NewRun(j, due, trigger, revision) \in RunRow
  BY <1>2, NewRunType
<1>5. Claim(l, made + 1, NewRun(j, due, trigger, revision))
  BY Zenon DEF MakeRun
<1>6. runs' \in [Runs -> RunRow] /\ lanes' \in [Lanes -> Lane]
  BY <1>3, <1>4, <1>5, ClaimType
<1>7. \A i \in Jobs : LookedOver(i) \in JobRow
  <2>1. \A i \in Jobs : [jobs[i] EXCEPT !.pausedAt = NoTime] \in JobRow
    BY <1>1 DEF JobRow, When
  <2>2. QED
    BY <1>1, <2>1 DEF LookedOver
<1>8. \A i \in Jobs :
        [jobs[i] EXCEPT !.status = IF trigger = "lifecycle" THEN "ended" ELSE @,
                        !.revision = revision,
                        !.pausedAt = IF trigger = "catchup" THEN NoTime ELSE @,
                        !.lastDue = IF Advances(trigger) THEN due ELSE @] \in JobRow
  <2> HIDE DEF revision
  <2>1. QED
    BY ZenonT(60), <1>1, <1>2 DEF JobRow, When
<1>9. jobs' \in [Jobs -> JobRow]
  BY Zenon, <1>1, <1>7, <1>8 DEF MakeRun
<1>10. paid' \in [Jobs -> SUBSET Time]
  BY Zenon DEF MakeRun, TypeOK
<1>11. QED
  BY <1>3, <1>6, <1>9, <1>10

LEMMA ClaimDueRunType ==
  ASSUME TypeOK, NEW l \in Lanes, ClaimDueRun(l)
  PROVE  TypeOK'
<1>0. /\ lanes[l].prefer \in BOOLEAN
      /\ [lanes EXCEPT ![l] = Resting(lanes[l].prefer)] \in [Lanes -> Lane]
      /\ [lanes EXCEPT ![l] = [@ EXCEPT !.pc = "deliver"]] \in [Lanes -> Lane]
  BY LaneRestsType DEF Pc
<1>1. TickFails(l) \/ NothingDue(l) => lanes' \in [Lanes -> Lane]
  BY <1>0 DEF TickFails, NothingDue
<1>2. CASE ClaimWaitingRun(l)
  <2>1. PICK r \in Runs :
          \/ Claim(l, r, runs[r]) /\ UNCHANGED <<jobs, made, paid>>
          \/ TickFails(l)
    BY <1>2 DEF ClaimWaitingRun, DueRuns
  <2>2. CASE Claim(l, r, runs[r]) /\ UNCHANGED <<jobs, made, paid>>
    <3>1. runs[r] \in RunRow
      BY DEF TypeOK
    <3>2. runs' \in [Runs -> RunRow] /\ lanes' \in [Lanes -> Lane]
      BY <2>2, <3>1, ClaimType
    <3>3. QED
      BY <2>2, <3>2 DEF ClaimDueRun, TypeOK
  <2>3. CASE TickFails(l)
    BY <1>1, <2>3 DEF ClaimDueRun, TickFails, TypeOK
  <2>4. QED
    BY <2>1, <2>2, <2>3
<1>3. CASE ClaimOccurrence(l)
  <2>1. PICK j \in Jobs :
          /\ j = StopsAt
          /\ ~LookRaises(j)
          /\ MakeRun(l, j, TriggerOf(j), IF TriggerOf(j) = "lifecycle" THEN clock ELSE Owed(j))
    BY <1>3 DEF ClaimOccurrence
  <2>2. TriggerOf(j) \in {"schedule", "catchup", "lifecycle"}
    BY DEF TriggerOf
  <2>3. (IF TriggerOf(j) = "lifecycle" THEN clock ELSE Owed(j)) \in Time
    <3>1. Owed(j) \in When /\ clock \in Time
      BY <2>1, OwedType DEF TypeOK
    <3>2. TriggerOf(j) # "lifecycle" => Owed(j) # NoTime
      BY DEF TriggerOf
    <3>3. QED
      BY <3>1, <3>2 DEF When
  <2>4. made < MaxRuns
    BY <1>3 DEF ClaimOccurrence
  <2>5. /\ runs' \in [Runs -> RunRow] /\ lanes' \in [Lanes -> Lane]
        /\ jobs' \in [Jobs -> JobRow] /\ paid' \in [Jobs -> SUBSET Time]
        /\ made' \in 0..MaxRuns
    BY <2>1, <2>2, <2>3, <2>4, MakeRunType
  <2>6. QED
    BY <2>5 DEF ClaimDueRun, TypeOK
<1>4. CASE ClaimNothing(l)
  <2>1. lanes' \in [Lanes -> Lane]
    BY <1>1, <1>4 DEF ClaimNothing
  <2>2. \A j \in Jobs : LookedOver(j) \in JobRow
    <3>1. \A j \in Jobs : jobs[j] \in JobRow /\ [jobs[j] EXCEPT !.pausedAt = NoTime] \in JobRow
      BY ZenonT(60) DEF TypeOK, JobRow, When
    <3>2. QED
      BY <3>1 DEF LookedOver
  <2>3. jobs' \in [Jobs -> JobRow] /\ UNCHANGED <<runs, made, paid>>
    BY <1>4, <2>2 DEF ClaimNothing, TickFails, TypeOK
  <2>4. QED
    BY <2>1, <2>3 DEF ClaimDueRun, TypeOK
<1>5. QED
  BY <1>2, <1>3, <1>4 DEF ClaimDueRun

\* A lane that has claimed something knows which run it is of: the guards of
\* what follows a claim read that row.
LanesHold ==
  \A l \in Lanes :
    lanes[l].pc \in {"claimed", "executing", "admit", "sending", "accepted"} => lanes[l].run \in Runs

TypeInv == TypeOK /\ LanesHold

\* One row of the runs changes.
LEMMA RunEditType ==
  ASSUME TypeOK, NEW r \in Runs
  PROVE  /\ runs[r] \in RunRow
         /\ runs[r].job \in Jobs
         /\ \A row \in RunRow : [runs EXCEPT ![r] = row] \in [Runs -> RunRow]
<1>1. runs[r] \in RunRow
  BY DEF TypeOK
<1>2. runs[r].job \in Jobs
  BY <1>1 DEF RunRow
<1>3. QED
  BY <1>1, <1>2 DEF TypeOK

\* One row of the frames changes.
LEMMA FrameEditType ==
  ASSUME TypeOK, NEW r \in Runs, NEW f \in Frames
  PROVE  /\ frames[r][f] \in FrameRow
         /\ \A row \in FrameRow : [frames EXCEPT ![r][f] = row] \in [Runs -> [Frames -> FrameRow]]
BY DEF TypeOK

LEMMA BeginRunType ==
  ASSUME TypeInv, NEW l \in Lanes, BeginRun(l)
  PROVE  TypeOK'
<1>1. TypeOK /\ lanes[l].run \in Runs
  BY DEF TypeInv, LanesHold, BeginRun
<1>2. /\ lanes[l].prefer \in BOOLEAN
      /\ [lanes EXCEPT ![l] = Resting(lanes[l].prefer)] \in [Lanes -> Lane]
      /\ [lanes EXCEPT ![l] = [Resting(lanes[l].prefer) EXCEPT !.pc = "deliver"]] \in [Lanes -> Lane]
      /\ [lanes EXCEPT ![l] = [@ EXCEPT !.pc = "executing"]] \in [Lanes -> Lane]
  BY <1>1, LaneRestsType DEF Pc
<1>3. lanes' \in [Lanes -> Lane]
  BY <1>1, <1>2 DEF BeginRun, TypeOK
<1>4. runs' \in [Runs -> RunRow]
  <2>1. [runs[lanes[l].run] EXCEPT !.status = "executing", !.expired = FALSE] \in RunRow
    BY Zenon, <1>1, RunEditType, RunRowEdits DEF OpenRun
  <2>2. QED
    BY Zenon, <1>1, <2>1, RunEditType DEF BeginRun, TypeOK
<1>5. QED
  BY <1>1, <1>3, <1>4 DEF BeginRun, TypeOK

LEMMA LostType ==
  ASSUME TypeOK, NEW l \in Lanes
  PROVE  [lanes EXCEPT ![l] = [@ EXCEPT !.lost = TRUE]] \in [Lanes -> Lane]
<1>1. [lanes[l] EXCEPT !.lost = TRUE] \in Lane
  BY DEF TypeOK, Lane
<1>2. QED
  BY <1>1 DEF TypeOK

LEMMA HeartbeatType ==
  ASSUME TypeInv, NEW l \in Lanes, RenewLease(l) \/ HeartbeatFails(l)
  PROVE  TypeOK'
<1>1. TypeOK /\ lanes[l].run \in Runs
  BY DEF TypeInv, LanesHold, RenewLease, HeartbeatFails
<1>2. CASE RenewLease(l)
  <2>1. [runs[lanes[l].run] EXCEPT !.expired = FALSE] \in RunRow
    BY Zenon, <1>1, RunEditType, RunRowEdits DEF OpenRun
  <2>2. runs' \in [Runs -> RunRow]
    <3>1. \/ runs' = [runs EXCEPT ![lanes[l].run] = [@ EXCEPT !.expired = FALSE]]
          \/ runs' = runs
      BY <1>2 DEF RenewLease
    <3>2. QED
      BY <1>1, <2>1, <3>1, RunEditType DEF TypeOK
  <2>3. lanes' \in [Lanes -> Lane]
    BY <1>1, <1>2, LostType DEF RenewLease, TypeOK
  <2>4. QED
    BY <1>1, <1>2, <2>2, <2>3 DEF RenewLease, TypeOK
<1>3. CASE HeartbeatFails(l)
  <2>1. lanes' \in [Lanes -> Lane]
    BY <1>1, <1>3, LostType DEF HeartbeatFails
  <2>2. counts' \in [defers : Nat, crashes : Nat, stalls : Nat, updates : Nat]
    BY <1>1, <1>3 DEF HeartbeatFails, TypeOK
  <2>3. QED
    BY <1>1, <1>3, <2>1, <2>2 DEF HeartbeatFails, TypeOK
<1>4. QED
  BY <1>2, <1>3

LEMMA ExecutedType ==
  ASSUME TypeOK, NEW l \in Lanes, Executed(l)
  PROVE  lanes' \in [Lanes -> Lane]
<1>1. (lanes[l].prefer /\ ~lanes[l].first) \in BOOLEAN
  OBVIOUS
<1>2. [lanes EXCEPT ![l] = Resting(lanes[l].prefer /\ ~lanes[l].first)] \in [Lanes -> Lane]
  BY Zenon, <1>1, LaneRestsType
<1>3. QED
  BY <1>2 DEF Executed, TypeOK

LEMMA CompleteRunType ==
  ASSUME TypeInv, NEW l \in Lanes, NEW success \in BOOLEAN, NEW n \in 1..MaxFrames,
         CompleteRun(l, success, n)
  PROVE  TypeOK'
<1> DEFINE r == lanes[l].run
           j == runs[r].job
<1>1. TypeOK /\ r \in Runs
  BY DEF TypeInv, LanesHold, CompleteRun
<1>2. j \in Jobs
  BY SMTT(60), <1>1, RunEditType
<1>3. lanes' \in [Lanes -> Lane]
  BY SMTT(60), <1>1, ExecutedType DEF CompleteRun
<1>4. runs' \in [Runs -> RunRow]
  <2>1. [runs[r] EXCEPT !.status = "succeeded"] \in RunRow
    BY Zenon, <1>1, RunEditType, RunRowEdits DEF FinalRun
  <2>2. QED
    BY SMTT(60), <1>1, <2>1, RunEditType DEF CompleteRun, TypeOK
<1>5. frames' \in [Runs -> [Frames -> FrameRow]]
  <2>1. NewFrame \in FrameRow
    BY DEF NewFrame, NoFrameRow, FrameRow, OpenFrame
  <2>2. [f \in Frames |-> IF f < n THEN NewFrame ELSE frames[r][f]] \in [Frames -> FrameRow]
    BY <1>1, <2>1 DEF TypeOK
  <2>3. frames' = [frames EXCEPT ![r] = [f \in Frames |-> IF f < n THEN NewFrame
                                                         ELSE frames[r][f]]]
    BY <1>1 DEF CompleteRun, TypeOK
  <2>4. QED
    BY <1>1, <2>2, <2>3 DEF TypeOK
<1>6. jobs' \in [Jobs -> JobRow]
  <2>1. jobs[j] \in JobRow
    BY SMTT(60), <1>1, <1>2 DEF TypeOK
  <2>2. \A k \in Nat, b \in BOOLEAN :
          [jobs[j] EXCEPT !.successes = k, !.status = IF b THEN "ended" ELSE @] \in JobRow
    BY <2>1 DEF JobRow
  <2>3. jobs[j].successes + (IF success THEN 1 ELSE 0) \in Nat
    BY <2>1 DEF JobRow
  <2>4. PICK b \in BOOLEAN :
          jobs' = [jobs EXCEPT ![j] =
                     [jobs[j] EXCEPT !.successes = jobs[j].successes + (IF success THEN 1 ELSE 0),
                               !.status = IF b THEN "ended" ELSE @]]
    <3>1. (LastRun(r) \/ (jobs[j].def.max # 0
             /\ jobs[j].successes + (IF success THEN 1 ELSE 0) >= jobs[j].def.max)) \in BOOLEAN
      OBVIOUS
    <3>2. QED
      BY Zenon, <3>1 DEF CompleteRun
  <2>5. QED
    BY Zenon, <1>1, <2>2, <2>3, <2>4 DEF TypeOK
<1>7. QED
  BY Zenon, <1>1, <1>3, <1>4, <1>5, <1>6 DEF CompleteRun, TypeOK

LEMMA ResultIsDroppedType ==
  ASSUME TypeInv, NEW l \in Lanes, ResultIsDropped(l)
  PROVE  TypeOK'
<1>1. TypeOK
  BY DEF TypeInv
<1>2. lanes' \in [Lanes -> Lane]
  BY SMTT(60), <1>1, ExecutedType DEF ResultIsDropped
<1>3. QED
  BY <1>1, <1>2 DEF ResultIsDropped, TypeOK

LEMMA FailRunType ==
  ASSUME TypeInv, NEW l \in Lanes, FailRun(l)
  PROVE  TypeOK'
<1> DEFINE r == lanes[l].run
           j == runs[r].job
<1>1. TypeOK /\ r \in Runs
  BY Zenon DEF TypeInv, LanesHold, FailRun
<1>2. j \in Jobs
  BY <1>1, RunEditType
<1>3. lanes[l].prefer \in BOOLEAN
      /\ [lanes EXCEPT ![l] = Resting(lanes[l].prefer)] \in [Lanes -> Lane]
  BY <1>1, LaneRestsType
<1>4. lanes' \in [Lanes -> Lane]
  BY SMTT(60), <1>1, <1>3, ExecutedType DEF FailRun, TypeOK
<1>5. runs' \in [Runs -> RunRow]
  <2>1. /\ [runs[r] EXCEPT !.attempts = @ + 1, !.status = "retry_wait", !.ready = FALSE] \in RunRow
        /\ [runs[r] EXCEPT !.attempts = @ + 1, !.status = "failed"] \in RunRow
    BY Zenon, <1>1, RunEditType, RunRowEdits DEF OpenRun, FinalRun
  <2>2. QED
    BY ZenonT(60), <1>1, <2>1, RunEditType DEF FailRun, TypeOK
<1>6. frames' \in [Runs -> [Frames -> FrameRow]]
  <2>1. NewFrame \in FrameRow
    BY DEF NewFrame, NoFrameRow, FrameRow, OpenFrame
  <2>2. 0 \in Frames
    BY CronAssumption DEF Frames
  <2>3. [frames EXCEPT ![r] = [@ EXCEPT ![0] = NewFrame]] \in [Runs -> [Frames -> FrameRow]]
    BY <1>1, <2>1, <2>2 DEF TypeOK
  <2>4. QED
    BY <1>1, <2>3 DEF FailRun, TypeOK
<1>7. jobs' \in [Jobs -> JobRow]
  <2>1. PICK b \in BOOLEAN :
          \/ jobs' = [jobs EXCEPT ![j] = [jobs[j] EXCEPT !.status = IF b THEN "ended" ELSE @]]
          \/ UNCHANGED jobs
    <3>1. (\/ jobs[j].def.schedule.kind = "once"
           \/ runs[r].trigger \in {"schedule", "catchup"} /\ LastRun(r)) \in BOOLEAN
      OBVIOUS
    <3>2. QED
      BY Zenon, <3>1 DEF FailRun
  <2>2. [jobs[j] EXCEPT !.status = IF b THEN "ended" ELSE @] \in JobRow
    <3>1. \A row \in JobRow : [row EXCEPT !.status = IF b THEN "ended" ELSE @] \in JobRow
      BY DEF JobRow
    <3>2. QED
      BY <1>1, <1>2, <3>1 DEF TypeOK
  <2>3. QED
    BY SMTT(60), <1>1, <2>1, <2>2 DEF TypeOK
<1>8. QED
  BY SMTT(60), <1>1, <1>4, <1>5, <1>6, <1>7 DEF FailRun, TypeOK

LEMMA DeferRunType ==
  ASSUME TypeInv, NEW l \in Lanes, DeferRun(l)
  PROVE  TypeOK'
<1>1. TypeOK /\ lanes[l].run \in Runs
  BY DEF TypeInv, LanesHold, DeferRun
<1>2. lanes' \in [Lanes -> Lane]
  BY <1>1, ExecutedType DEF DeferRun
<1>3. runs' \in [Runs -> RunRow]
  <2>1. [runs[lanes[l].run] EXCEPT !.status = "retry_wait", !.ready = FALSE] \in RunRow
    BY Zenon, <1>1, RunEditType, RunRowEdits DEF OpenRun
  <2>2. QED
    BY SMTT(60), <1>1, <2>1, RunEditType DEF DeferRun, TypeOK
<1>4. counts' \in [defers : Nat, crashes : Nat, stalls : Nat, updates : Nat]
  BY SMTT(60), <1>1 DEF DeferRun, TypeOK
<1>5. QED
  BY <1>1, <1>2, <1>3, <1>4 DEF DeferRun, TypeOK

LEMMA ClaimDeliveryType ==
  ASSUME TypeOK, NEW l \in Lanes, ClaimDelivery(l)
  PROVE  TypeOK'
<1>1. CASE \E r \in Runs, f \in Frames : Claimable(r, f)
  <2>1. PICK r \in Runs, f \in Frames :
          /\ frames' = [frames EXCEPT ![r][f] =
                          [frames[r][f] EXCEPT !.status = "leased", !.attempts = @ + 1, !.expired = FALSE,
                                    !.holder = l]]
          /\ lanes' = [lanes EXCEPT ![l] = [Resting(TRUE) EXCEPT !.pc = "admit", !.run = r,
                                                                 !.frame = f]]
    BY Zenon, <1>1 DEF ClaimDelivery
  <2>2. frames' \in [Runs -> [Frames -> FrameRow]]
    <3>1. frames[r][f] \in FrameRow /\ "none" \in {"none"} \cup OpenFrame \cup FinalFrame
      BY SMTT(60), FrameEditType
    <3>2. [frames[r][f] EXCEPT !.status = "leased", !.attempts = @ + 1, !.expired = FALSE,
                               !.holder = l] \in FrameRow
      BY ZenonT(60), <3>1, FrameRowEdits
    <3>3. QED
      BY <2>1, <3>2, FrameEditType
  <2>3. [Resting(TRUE) EXCEPT !.pc = "admit", !.run = r, !.frame = f] \in Lane
    BY ZenonT(60), RestingType, LaneEdits DEF Pc
  <2>4. lanes' \in [Lanes -> Lane]
    BY <2>1, <2>3 DEF TypeOK
  <2>5. QED
    BY ZenonT(60), <2>2, <2>4 DEF ClaimDelivery, TypeOK
<1>2. CASE ~\E r \in Runs, f \in Frames : Claimable(r, f)
  <2>1. lanes[l].prefer \in BOOLEAN
        /\ [lanes EXCEPT ![l] = [Resting(lanes[l].prefer) EXCEPT !.pc = "last"]]
             \in [Lanes -> Lane]
    BY Zenon, LaneRestsType DEF Pc
  <2>2. lanes' \in [Lanes -> Lane]
    BY Zenon, <1>2, <2>1 DEF ClaimDelivery, TypeOK
  <2>3. QED
    BY Zenon, <1>2, <2>2 DEF ClaimDelivery, TypeOK
<1>3. QED
  BY <1>1, <1>2

LEMMA AdmitDeliveryType ==
  ASSUME TypeInv, NEW l \in Lanes, AdmitDelivery(l)
  PROVE  TypeOK'
<1>1. TypeOK /\ lanes[l].run \in Runs
  BY DEF TypeInv, LanesHold, AdmitDelivery
<1>2. /\ lanes[l].prefer \in BOOLEAN /\ lanes[l].frame \in Frames
      /\ [lanes EXCEPT ![l] = Resting(lanes[l].prefer)] \in [Lanes -> Lane]
      /\ [lanes EXCEPT ![l] = [@ EXCEPT !.pc = "sending"]] \in [Lanes -> Lane]
  BY <1>1, LaneRestsType DEF Pc
<1>3. lanes' \in [Lanes -> Lane]
  BY <1>1, <1>2 DEF AdmitDelivery, TypeOK
<1>4. frames' \in [Runs -> [Frames -> FrameRow]]
  <2>1. [frames[lanes[l].run][lanes[l].frame] EXCEPT !.status = "sending"] \in FrameRow
    BY Zenon, <1>1, <1>2, FrameEditType, FrameRowEdits DEF OpenFrame
  <2>2. \/ frames' = [frames EXCEPT ![lanes[l].run][lanes[l].frame] = [@ EXCEPT !.status = "sending"]]
        \/ frames' = frames
    BY DEF AdmitDelivery
  <2>3. CASE frames' = frames
    BY <1>1, <2>3 DEF TypeOK
  <2>4. CASE frames' # frames
    <3> DEFINE row == [frames[lanes[l].run][lanes[l].frame] EXCEPT !.status = "sending"]
    <3>1. frames' = [frames EXCEPT ![lanes[l].run][lanes[l].frame] = row]
      BY <2>2, <2>4
    <3>2. row \in FrameRow
      BY <2>1
    <3> HIDE DEF row
    <3>3. QED
      BY <1>1, <1>2, <3>1, <3>2, FrameEditType
  <2>5. QED
    BY <2>3, <2>4
<1>5. QED
  BY <1>1, <1>3, <1>4 DEF AdmitDelivery, TypeOK

LEMMA TelegramTakesType ==
  ASSUME TypeInv, NEW l \in Lanes, TelegramTakes(l)
  PROVE  TypeOK'
<1>1. TypeOK /\ lanes[l].run \in Runs
  BY DEF TypeInv, LanesHold, TelegramTakes
<1>2. /\ lanes[l].frame \in Frames
      /\ [lanes EXCEPT ![l] = [@ EXCEPT !.pc = "accepted"]] \in [Lanes -> Lane]
  BY <1>1, LaneRestsType DEF Pc
<1>3. shown' \in [Runs -> [Frames -> Nat]]
  BY <1>1, <1>2 DEF TelegramTakes, TypeOK
<1>4. QED
  BY <1>1, <1>2, <1>3 DEF TelegramTakes, TypeOK

LEMMA FinishType ==
  ASSUME TypeInv, NEW l \in Lanes, lanes[l].pc \in {"sending", "accepted"},
         NEW status \in FinalFrame, Finish(l, status)
  PROVE  TypeOK'
<1>1. TypeOK /\ lanes[l].run \in Runs
  BY DEF TypeInv, LanesHold
<1>2. /\ lanes[l].prefer \in BOOLEAN /\ lanes[l].frame \in Frames
      /\ [lanes EXCEPT ![l] = Resting(lanes[l].prefer)] \in [Lanes -> Lane]
  BY <1>1, LaneRestsType
<1>3. CASE Settle(l, status)
  <2> DEFINE r == lanes[l].run
             settled == [frames EXCEPT ![r][lanes[l].frame] = [@ EXCEPT !.status = status]]
  <2>1. settled \in [Runs -> [Frames -> FrameRow]]
    <3>1. [frames[r][lanes[l].frame] EXCEPT !.status = status] \in FrameRow
      BY Zenon, <1>1, <1>2, FrameEditType, FrameRowEdits
    <3>2. QED
      BY <1>1, <1>2, <3>1, FrameEditType
  <2>2. Paced(settled, r) \in [Frames -> FrameRow]
    BY <1>1, <2>1, PacedType
  <2>3. frames' = [settled EXCEPT ![r] = Paced(settled, r)]
    BY <1>3 DEF Settle
  <2>4. frames' \in [Runs -> [Frames -> FrameRow]]
    <3> HIDE DEF settled
    <3>1. QED
      BY <1>1, <2>1, <2>2, <2>3
  <2>5. jobs' \in [Jobs -> JobRow]
    <3>1. runs[r].job \in Jobs
      BY SMTT(60), <1>1, RunEditType
    <3>2. jobs' = Redacted(runs[r].job, frames')
      BY <1>3 DEF Settle
    <3>3. QED
      BY <1>1, <3>1, <3>2, RedactedType
  <2>6. QED
    BY <1>1, <1>2, <2>4, <2>5 DEF Finish, TypeOK
<1>4. CASE UNCHANGED <<frames, jobs>>
  BY <1>1, <1>2, <1>4 DEF Finish, TypeOK
<1>5. QED
  BY <1>3, <1>4 DEF Finish

LEMMA SendRejectedType ==
  ASSUME TypeInv, NEW l \in Lanes, SendRejected(l)
  PROVE  TypeOK'
<1>1. TypeOK /\ lanes[l].run \in Runs
  BY DEF TypeInv, LanesHold, SendRejected
<1>2. CASE Finish(l, "exhausted")
  BY <1>2, FinishType DEF SendRejected, FinalFrame
<1>3. CASE ~Finish(l, "exhausted")
  <2>1. /\ lanes[l].prefer \in BOOLEAN /\ lanes[l].frame \in Frames
        /\ [lanes EXCEPT ![l] = Resting(lanes[l].prefer)] \in [Lanes -> Lane]
    BY <1>1, LaneRestsType
  <2>2. frames' \in [Runs -> [Frames -> FrameRow]]
    <3>1. [frames[lanes[l].run][lanes[l].frame] EXCEPT !.status = "retry_wait", !.ready = FALSE]
            \in FrameRow
      BY Zenon, <1>1, <2>1, FrameEditType, FrameRowEdits DEF OpenFrame
    <3>2. frames' = [frames EXCEPT ![lanes[l].run][lanes[l].frame] =
                       [@ EXCEPT !.status = "retry_wait", !.ready = FALSE]]
      BY <1>3 DEF SendRejected
    <3>3. QED
      BY <1>1, <2>1, <3>1, <3>2, FrameEditType
  <2>3. QED
    BY <1>1, <1>3, <2>1, <2>2 DEF SendRejected, TypeOK
<1>4. QED
  BY <1>2, <1>3

LEMMA DeliverType ==
  ASSUME TypeInv, NEW l \in Lanes, Deliver(l)
  PROVE  TypeOK'
<1>1. TypeOK /\ {"delivered", "unknown"} \subseteq FinalFrame
  BY DEF TypeInv, FinalFrame
<1>2. CASE ClaimDelivery(l)
  BY <1>1, <1>2, ClaimDeliveryType
<1>3. CASE CompleteDelivery(l) \/ SendUncertain(l)
  BY <1>1, <1>3, FinishType DEF CompleteDelivery, SendUncertain
<1>4. QED
  BY <1>2, <1>3, AdmitDeliveryType, TelegramTakesType, SendRejectedType DEF Deliver

\* What time does: backoffs elapse, leases expire, a process dies.
LEMMA TimeType ==
  ASSUME TypeOK,
         \/ Tick
         \/ RowsReady
         \/ LeasesExpire
         \/ \E l \in Lanes : Crash(l)
  PROVE  TypeOK'
<1>1. \A r \in Runs :
        /\ [runs EXCEPT ![r] = [@ EXCEPT !.ready = TRUE]] \in [Runs -> RunRow]
        /\ [runs EXCEPT ![r] = [@ EXCEPT !.expired = TRUE]] \in [Runs -> RunRow]
  <2>1. \A row \in RunRow : /\ [row EXCEPT !.ready = TRUE] \in RunRow
                            /\ [row EXCEPT !.expired = TRUE] \in RunRow
    BY DEF RunRow
  <2>2. QED
    BY <2>1, RunEditType
<1>2. \A r \in Runs, f \in Frames :
        /\ [frames EXCEPT ![r][f] = [@ EXCEPT !.ready = TRUE]] \in [Runs -> [Frames -> FrameRow]]
        /\ [frames EXCEPT ![r][f] = [@ EXCEPT !.expired = TRUE]] \in [Runs -> [Frames -> FrameRow]]
  <2>1. \A row \in FrameRow : /\ [row EXCEPT !.ready = TRUE] \in FrameRow
                              /\ [row EXCEPT !.expired = TRUE] \in FrameRow
    BY DEF FrameRow
  <2>2. QED
    BY <2>1, FrameEditType
<1>3. \A b : Stalls(b) => counts' \in [defers : Nat, crashes : Nat, stalls : Nat, updates : Nat]
  BY DEF Stalls, TypeOK
<1>4. CASE Tick
  BY <1>4 DEF Tick, TypeOK, Time
<1>5. CASE RowsReady
  <2>1. PICK r \in Runs : RunReady(r) \/ \E f \in Frames : FrameReady(r, f)
    BY <1>5 DEF RowsReady
  <2>2. CASE RunReady(r)
    BY <1>1, <2>2 DEF RunReady, TypeOK
  <2>3. CASE \E f \in Frames : FrameReady(r, f)
    <3>1. PICK f \in Frames : FrameReady(r, f)
      BY <2>3
    <3>2. frames' \in [Runs -> [Frames -> FrameRow]]
      BY <1>2, <3>1 DEF FrameReady
    <3>3. QED
      BY <3>1, <3>2 DEF FrameReady, TypeOK
  <2>4. QED
    BY <2>1, <2>2, <2>3
<1>6. CASE LeasesExpire
  <2>1. PICK r \in Runs : ExpireRunLease(r) \/ \E f \in Frames : ExpireFrameLease(r, f)
    BY <1>6 DEF LeasesExpire
  <2>2. CASE ExpireRunLease(r)
    BY <1>1, <1>3, <2>2 DEF ExpireRunLease, TypeOK
  <2>3. CASE \E f \in Frames : ExpireFrameLease(r, f)
    <3>1. PICK f \in Frames : ExpireFrameLease(r, f)
      BY <2>3
    <3>2. frames' \in [Runs -> [Frames -> FrameRow]]
      BY <1>2, <3>1 DEF ExpireFrameLease
    <3>3. counts' \in [defers : Nat, crashes : Nat, stalls : Nat, updates : Nat]
      BY <1>3, <3>1 DEF ExpireFrameLease
    <3>4. QED
      BY <3>1, <3>2, <3>3 DEF ExpireFrameLease, TypeOK
  <2>4. QED
    BY <2>1, <2>2, <2>3
<1>7. CASE \E l \in Lanes : Crash(l)
  <2>1. PICK l \in Lanes : Crash(l)
    BY <1>7
  <2>2. [lanes EXCEPT ![l] = Resting(FALSE)] \in [Lanes -> Lane]
    BY LaneRestsType
  <2>3. counts' \in [defers : Nat, crashes : Nat, stalls : Nat, updates : Nat]
    BY <2>1 DEF Crash, TypeOK
  <2>4. QED
    BY <2>1, <2>2, <2>3 DEF Crash, TypeOK
<1>8. QED
  BY <1>4, <1>5, <1>6, <1>7

\* A lane that holds a claim knows its run, after every step of it.
LEMMA LaneStepHolds ==
  ASSUME TypeInv, NEW l \in Lanes, LaneStep(l)
  PROVE  LanesHold'
<1> DEFINE Good(lane) ==
      lane.pc \in {"claimed", "executing", "admit", "sending", "accepted"} => lane.run \in Runs
<1>1. lanes \in [Lanes -> Lane] /\ lanes[l] \in Lane
  BY DEF TypeInv, TypeOK
<1>2. \A k \in Lanes : Good(lanes[k])
  BY DEF TypeInv, LanesHold
<1>3. SUFFICES Good(lanes'[l]) /\ \A k \in Lanes \ {l} : lanes'[k] = lanes[k]
  BY <1>2 DEF LanesHold
<1>4. \A b, pc : /\ Resting(b).pc = "idle"
                 /\ [Resting(b) EXCEPT !.pc = pc].pc = pc
  BY DEF Resting
<1>5. \A pc : [lanes[l] EXCEPT !.pc = pc].pc = pc /\ [lanes[l] EXCEPT !.pc = pc].run = lanes[l].run
  BY <1>1 DEF Lane
<1>6. \A lane : Good(lane) /\ lanes' = [lanes EXCEPT ![l] = lane]
          => Good(lanes'[l]) /\ \A k \in Lanes \ {l} : lanes'[k] = lanes[k]
  BY <1>1
<1>7. \A b : Good(Resting(b)) /\ Good([Resting(b) EXCEPT !.pc = "deliver"])
  BY <1>4
<1>8. Good([lanes[l] EXCEPT !.pc = "deliver"])
  BY <1>5
<1>9. lanes[l].run \in Runs => /\ Good([lanes[l] EXCEPT !.pc = "executing"])
                               /\ Good([lanes[l] EXCEPT !.pc = "sending"])
  BY SMTT(60), <1>5
<1>10. CASE Recover(l)
  BY Zenon, <1>1, <1>10 DEF Recover, Lane
<1>11. \A row : \A r \in Runs : Claim(l, r, row)
        => Good(lanes'[l]) /\ \A k \in Lanes \ {l} : lanes'[k] = lanes[k]
  BY <1>1 DEF Claim, Lane
<1>12. CASE ClaimDueRun(l)
  <2>1. CASE ClaimWaitingRun(l)
    BY <1>1, <1>4, <1>11, <2>1 DEF ClaimWaitingRun, DueRuns, TickFails
  <2>2. CASE ClaimOccurrence(l)
    <3>1. made + 1 \in Runs
      <4>1. MaxRuns \in Nat /\ made \in 0..MaxRuns /\ made < MaxRuns
        BY <2>2, CronAssumption DEF ClaimOccurrence, TypeInv, TypeOK
      <4>2. QED
        BY <4>1 DEF Runs
    <3>2. \E row : Claim(l, made + 1, row)
      BY Zenon, <2>2 DEF ClaimOccurrence, MakeRun
    <3>3. QED
      BY <1>11, <3>1, <3>2
  <2>3. CASE ClaimNothing(l)
    <3>1. \/ lanes' = [lanes EXCEPT ![l] = Resting(lanes[l].prefer)]
          \/ lanes' = [lanes EXCEPT ![l] = [lanes[l] EXCEPT !.pc = "deliver"]]
      BY <2>3 DEF ClaimNothing, TickFails, NothingDue
    <3> HIDE DEF Good
    <3>2. QED
      BY <1>6, <1>7, <1>8, <3>1
  <2>4. QED
    BY <1>12, <2>1, <2>2, <2>3 DEF ClaimDueRun
<1>13. CASE Execute(l)
  <2>1. Executed(l) => Good(lanes'[l]) /\ \A k \in Lanes \ {l} : lanes'[k] = lanes[k]
    BY <1>1, <1>4 DEF Executed
  <2>2. CASE BeginRun(l)
    <3>1. \/ lanes' = [lanes EXCEPT ![l] = Resting(lanes[l].prefer)]
          \/ lanes' = [lanes EXCEPT ![l] = [Resting(lanes[l].prefer) EXCEPT !.pc = "deliver"]]
          \/ lanes' = [lanes EXCEPT ![l] = [lanes[l] EXCEPT !.pc = "executing"]]
      BY <2>2 DEF BeginRun
    <3>2. lanes[l].run \in Runs
      BY <1>2, <2>2 DEF BeginRun
    <3> HIDE DEF Good
    <3>3. QED
      BY <1>6, <1>7, <1>9, <3>1, <3>2
  <2>3. CASE RenewLease(l) \/ HeartbeatFails(l)
    BY SMTT(60), <1>1, <1>2, <2>3 DEF RenewLease, HeartbeatFails, Lane
  <2>4. CASE \E success \in BOOLEAN, n \in 1..MaxFrames : CompleteRun(l, success, n)
    BY <2>1, <2>4 DEF CompleteRun
  <2>5. CASE ResultIsDropped(l) \/ DeferRun(l)
    BY SMTT(60), <2>1, <2>5 DEF ResultIsDropped, DeferRun
  <2>6. CASE FailRun(l)
    BY <1>1, <1>4, <2>1, <2>6 DEF FailRun
  <2>7. QED
    BY <1>13, <2>2, <2>3, <2>4, <2>5, <2>6 DEF Execute
<1>14. CASE Deliver(l)
  <2>1. CASE ClaimDelivery(l)
    BY ZenonT(60), <1>1, <1>4, <2>1 DEF ClaimDelivery, Resting
  <2>2. CASE AdmitDelivery(l)
    <3>1. \/ lanes' = [lanes EXCEPT ![l] = Resting(lanes[l].prefer)]
          \/ lanes' = [lanes EXCEPT ![l] = [lanes[l] EXCEPT !.pc = "sending"]]
      BY <2>2 DEF AdmitDelivery
    <3>2. lanes[l].run \in Runs
      BY <1>2, <2>2 DEF AdmitDelivery
    <3> HIDE DEF Good
    <3>3. QED
      BY <1>6, <1>7, <1>9, <3>1, <3>2
  <2>3. CASE TelegramTakes(l)
    BY <1>1, <1>2, <1>5, <2>3 DEF TelegramTakes
  <2>4. \A status : Finish(l, status) => lanes' = [lanes EXCEPT ![l] = Resting(lanes[l].prefer)]
    BY DEF Finish
  <2>5. CASE CompleteDelivery(l) \/ SendUncertain(l) \/ SendRejected(l)
    <3>1. lanes' = [lanes EXCEPT ![l] = Resting(lanes[l].prefer)]
      BY <2>4, <2>5 DEF CompleteDelivery, SendUncertain, SendRejected
    <3>2. QED
      BY <1>1, <1>4, <3>1
  <2>6. QED
    BY SMTT(60), <1>14, <2>1, <2>2, <2>3, <2>5 DEF Deliver
<1>15. QED
  BY <1>10, <1>12, <1>13, <1>14 DEF LaneStep

LEMMA LanesHoldStep ==
  ASSUME TypeInv, [Next]_vars
  PROVE  LanesHold'
<1>1. CASE UNCHANGED lanes
  BY <1>1 DEF TypeInv, LanesHold
<1>2. CASE \E l \in Lanes : LaneStep(l)
  BY <1>2, LaneStepHolds
<1>3. CASE \E l \in Lanes : Crash(l)
  <2>1. PICK l \in Lanes : lanes' = [lanes EXCEPT ![l] = Resting(FALSE)]
    BY <1>3 DEF Crash
  <2>2. lanes \in [Lanes -> Lane]
    BY DEF TypeInv, TypeOK
  <2>3. QED
    BY <2>1, <2>2 DEF TypeInv, LanesHold, Resting
<1>4. CASE Tick \/ RowsReady \/ LeasesExpire
  BY <1>1, <1>4 DEF Tick, RowsReady, RunReady, FrameReady, LeasesExpire, ExpireRunLease,
                    ExpireFrameLease
<1>5. CASE Owner
  <2>1. UNCHANGED lanes
    BY Zenon, <1>5 DEF Owner, Create, Update, Pause, Resume, Delete, RunNow, Edit
  <2>2. QED
    BY <1>1, <2>1
<1>6. QED
  BY <1>1, <1>2, <1>3, <1>4, <1>5 DEF Next, vars

LEMMA TypeInvInit == Init => TypeInv
<1>1. Init => LanesHold
  BY DEF Init, LanesHold, Resting
<1>2. QED
  BY <1>1, InitTypeOK DEF TypeInv

LEMMA TypeInvStep ==
  ASSUME TypeInv, [Next]_vars
  PROVE  TypeInv'
<1> SUFFICES TypeOK'
  BY LanesHoldStep DEF TypeInv
<1>1. TypeOK
  BY DEF TypeInv
<1>2. CASE Owner
  BY <1>1, <1>2, CreateType, UpdateType, PauseResumeType, DeleteType, RunNowType DEF Owner
<1>3. ASSUME NEW l \in Lanes, Execute(l) PROVE TypeOK'
  BY <1>3, BeginRunType, HeartbeatType, CompleteRunType, ResultIsDroppedType, FailRunType,
     DeferRunType DEF Execute
<1>4. CASE \E l \in Lanes : LaneStep(l)
  BY <1>1, <1>3, <1>4, RecoverType, ClaimDueRunType, DeliverType DEF LaneStep
<1>5. CASE Tick \/ RowsReady \/ LeasesExpire \/ \E l \in Lanes : Crash(l)
  BY <1>1, <1>5, TimeType
<1>6. CASE UNCHANGED vars
  BY <1>1, <1>6 DEF TypeOK, vars
<1>7. QED
  BY <1>2, <1>4, <1>5, <1>6 DEF Next

\* Every row of the tables, and what is known of every lane, keeps its declared
\* fields: for any number of jobs, runs, lanes and attempts. (TypeOK.)
THEOREM SchedulerTypeCorrect == Spec => []TypeOK
<1>1. TypeInv => TypeOK
  BY DEF TypeInv
<1>2. QED
  BY <1>1, TypeInvInit, TypeInvStep, PTL DEF Spec

-----------------------------------------------------------------------------
(* Runs and frames *)

\* The rows beyond the last one made are empty.
Unmade == \A r \in Runs : r > made => runs[r].status = "none"

\* The statuses of a run that has not ended.
Unended == {"none"} \cup OpenRun

\* Frames are made by the end of a run.
FramesFollowRuns ==
  \A r \in Runs, f \in Frames : runs[r].status \in Unended => frames[r][f].status = "none"

\* What was shown is being sent, was delivered, or is recorded as uncertain.
ShownIsSettled ==
  \A r \in Runs, f \in Frames :
    /\ shown[r][f] <= 1
    /\ shown[r][f] = 1 => frames[r][f].status \in {"sending", "delivered", "unknown"}

\* The frame a lane is sending has not been shown, and is the lane's, or was
\* given up as uncertain meanwhile.
SendersKnow ==
  \A l \in Lanes : lanes[l].pc = "sending" =>
    LET r == lanes[l].run
        f == lanes[l].frame
    IN /\ shown[r][f] = 0
       /\ HoldsSend(l) \/ frames[r][f].status = "unknown"

\* Two lanes never send the same frame.
OneSender ==
  \A k, l \in Lanes :
    (lanes[k].pc = "sending" /\ lanes[l].pc = "sending"
      /\ lanes[k].run = lanes[l].run /\ lanes[k].frame = lanes[l].frame) => k = l

RowsInv == Unmade /\ FramesFollowRuns
SendInv == ShownIsSettled /\ SendersKnow /\ OneSender

DeliveryInv == TypeInv /\ RowsInv /\ SendInv

-----------------------------------------------------------------------------
(* Rows of runs and of frames are made in order *)

\* What every step does to the tables: rows are appended, an ended run stays
\* ended, and frames are made for an ended run only.
RowsStep ==
  /\ made' >= made
  /\ \A r \in Runs :
       /\ runs[r].status = "none" /\ runs'[r].status # "none" => r <= made'
       /\ runs'[r].status \in Unended => runs[r].status \in Unended
       /\ \A f \in Frames :
            frames[r][f].status = "none" /\ frames'[r][f].status # "none"
              => runs'[r].status \notin Unended

LEMMA RowsStepKeeps ==
  ASSUME TypeInv, TypeOK', RowsInv, RowsStep
  PROVE  RowsInv'
<1>1. made \in Nat /\ made' \in Nat /\ Runs \subseteq Nat
  <2>1. MaxRuns \in Nat
    BY CronAssumption
  <2>2. made \in 0..MaxRuns /\ made' \in 0..MaxRuns
    BY DEF TypeInv, TypeOK
  <2>3. QED
    BY <2>1, <2>2 DEF Runs
<1>2. Unmade'
  <2> SUFFICES ASSUME NEW r \in Runs, r > made' PROVE runs'[r].status = "none"
    BY DEF Unmade
  <2>1. r > made /\ ~(r <= made')
    BY <1>1 DEF RowsStep
  <2>2. QED
    BY <2>1 DEF RowsInv, Unmade, RowsStep
<1>3. FramesFollowRuns'
  BY DEF RowsInv, FramesFollowRuns, RowsStep
<1>4. QED
  BY <1>2, <1>3 DEF RowsInv

\* The steps that write no row of a run and no new frame.
LEMMA RowsStepIfSame ==
  ASSUME TypeInv, UNCHANGED <<made, runs>>,
         \A r \in Runs, f \in Frames : frames[r][f].status = "none" => frames'[r][f].status = "none"
  PROVE  RowsStep
<1>1. made \in Nat
  BY CronAssumption DEF TypeInv, TypeOK
<1>2. QED
  BY <1>1 DEF RowsStep

-----------------------------------------------------------------------------
(* Frames that are not being sent *)

\* A step that shows nothing and starts to send nothing, and leaves a frame
\* that may have been shown alone, or gives it up as uncertain.
QuietStep ==
  /\ UNCHANGED shown
  /\ \A l \in Lanes : lanes'[l].pc = "sending" => lanes'[l] = lanes[l]
  /\ \A r \in Runs, f \in Frames :
       \/ /\ frames'[r][f].status = frames[r][f].status
          /\ frames'[r][f].holder = frames[r][f].holder
       \/ frames[r][f].status \notin {"sending", "delivered", "unknown"}
       \/ frames[r][f].status = "sending" /\ frames'[r][f].status = "unknown"

LEMMA QuietStepKeeps ==
  ASSUME TypeInv, SendInv, QuietStep
  PROVE  SendInv'
<1>1. \A l \in Lanes : lanes[l].pc = "sending" => lanes[l].run \in Runs /\ lanes[l].frame \in Frames
  BY DEF TypeInv, TypeOK, LanesHold, Lane
<1>2. \A r \in Runs, f \in Frames : shown[r][f] \in Nat
  BY DEF TypeInv, TypeOK
<1>3. ShownIsSettled'
  BY <1>2 DEF SendInv, ShownIsSettled, QuietStep
<1>4. SendersKnow'
  <2> SUFFICES ASSUME NEW l \in Lanes, lanes'[l].pc = "sending"
               PROVE  /\ shown'[lanes'[l].run][lanes'[l].frame] = 0
                      /\ HoldsSend(l)' \/ frames'[lanes'[l].run][lanes'[l].frame].status = "unknown"
    BY DEF SendersKnow
  <2>1. lanes'[l] = lanes[l] /\ lanes[l].pc = "sending"
    BY DEF QuietStep
  <2>2. /\ shown[lanes[l].run][lanes[l].frame] = 0
        /\ HoldsSend(l) \/ frames[lanes[l].run][lanes[l].frame].status = "unknown"
    BY <2>1 DEF SendInv, SendersKnow
  <2>3. lanes[l].run \in Runs /\ lanes[l].frame \in Frames
    BY <1>1, <2>1
  <2>4. QED
    BY <2>1, <2>2, <2>3 DEF HoldsSend, QuietStep
<1>5. OneSender'
  BY DEF SendInv, OneSender, QuietStep
<1>6. QED
  BY <1>3, <1>4, <1>5 DEF SendInv

-----------------------------------------------------------------------------
(* The steps, one after the other *)

\* Steps that touch no frame.
LEMMA NoFrameStep ==
  ASSUME UNCHANGED <<frames, shown>>,
         \A l \in Lanes : lanes'[l].pc = "sending" => lanes'[l] = lanes[l]
  PROVE  QuietStep
BY DEF QuietStep

\* An edit puts aside what is not being sent.
LEMMA EditStep ==
  ASSUME TypeInv, NEW j \in Jobs, NEW from, Edit(j, from)
  PROVE  RowsStep /\ QuietStep
<1>1. InvalidateStaleWork(j) /\ UNCHANGED <<made, lanes, shown>>
  BY DEF Edit
<1>2. \A row \in RunRow : [row EXCEPT !.status = "invalidated"].status = "invalidated"
  BY DEF RunRow
<1>3. \A row \in FrameRow : [row EXCEPT !.status = "suppressed"].status = "suppressed"
  BY DEF FrameRow
<1>4. (\A r \in Runs : runs[r] \in RunRow) /\ (\A r \in Runs, f \in Frames : frames[r][f] \in FrameRow)
  BY DEF TypeInv, TypeOK
<1>5. \A r \in Runs : \/ runs'[r] = runs[r]
                      \/ runs[r].status \in OpenRun /\ runs'[r].status = "invalidated"
  BY <1>1, <1>2, <1>4 DEF InvalidateStaleWork
<1>6. \A r \in Runs, f \in Frames :
        \/ frames'[r][f] = frames[r][f]
        \/ /\ frames[r][f].status \in OpenFrame \ {"sending"}
           /\ frames'[r][f].status = "suppressed"
  BY <1>1, <1>3, <1>4 DEF InvalidateStaleWork
<1>7. RowsStep
  <2>1. made' >= made
    <3>1. MaxRuns \in Nat /\ made \in 0..MaxRuns
      BY CronAssumption DEF TypeInv, TypeOK
    <3>2. QED
      BY <1>1, <3>1
  <2>2. \A r \in Runs : runs'[r].status \in Unended => runs[r].status \in Unended
    BY <1>5 DEF Unended, OpenRun
  <2>3. \A r \in Runs : ~(runs[r].status = "none" /\ runs'[r].status # "none")
    BY <1>5 DEF OpenRun
  <2>4. \A r \in Runs, f \in Frames : ~(frames[r][f].status = "none" /\ frames'[r][f].status # "none")
    BY <1>6 DEF OpenFrame
  <2>5. QED
    BY <2>1, <2>2, <2>3, <2>4 DEF RowsStep
<1>8. QuietStep
  BY <1>1, <1>6 DEF QuietStep, OpenFrame
<1>9. QED
  BY <1>7, <1>8

\* Row made + 1 is written.
LEMMA AppendStep ==
  ASSUME TypeInv, RowsInv, made < MaxRuns, made' = made + 1, UNCHANGED frames,
         NEW row \in RunRow, row.status \in OpenRun, runs' = [runs EXCEPT ![made + 1] = row]
  PROVE  RowsStep
<1>1. made \in Nat /\ made + 1 \in Runs /\ runs \in [Runs -> RunRow]
  <2>1. MaxRuns \in Nat /\ made \in 0..MaxRuns /\ runs \in [Runs -> RunRow]
    BY CronAssumption DEF TypeInv, TypeOK
  <2>2. QED
    BY <2>1 DEF Runs
<1>2. runs[made + 1].status = "none"
  BY <1>1 DEF RowsInv, Unmade
<1>3. \A r \in Runs : r = made + 1 \/ runs'[r] = runs[r]
  BY <1>1
<1>4. \A r \in Runs : runs[r].status = "none" /\ runs'[r].status # "none" => r <= made'
  BY <1>1, <1>3
<1>5. \A r \in Runs : runs'[r].status \in Unended => runs[r].status \in Unended
  BY <1>2, <1>3 DEF Unended
<1>6. QED
  BY <1>1, <1>4, <1>5 DEF RowsStep

LEMMA OwnerStep ==
  ASSUME TypeInv, RowsInv, Owner
  PROVE  RowsStep /\ QuietStep
<1>1. CASE \E j \in Jobs, d \in Definitions : Create(j, d)
  BY <1>1, RowsStepIfSame, NoFrameStep DEF Create
<1>2. CASE \E j \in Jobs, from \in SUBSET {"active", "paused", "ended", "cancelled"} : Edit(j, from)
  BY <1>2, EditStep
<1>3. CASE \E j \in Jobs : RunNow(j)
  <2>1. PICK j \in Jobs : RunNow(j)
    BY <1>3
  <2>2. clock \in Time /\ jobs[j].revision \in Nat
    BY DEF TypeInv, TypeOK, JobRow
  <2>3. NewRun(j, clock, "manual", jobs[j].revision) \in RunRow
    BY <2>2, NewRunType
  <2>4. NewRun(j, clock, "manual", jobs[j].revision).status \in OpenRun
    BY DEF NewRun, NoRunRow, OpenRun
  <2>5. RowsStep
    BY <2>1, <2>3, <2>4, AppendStep DEF RunNow
  <2>6. QED
    BY <2>1, <2>5, NoFrameStep DEF RunNow
<1>4. QED
  <2>1. \A j \in Jobs : Pause(j) \/ Resume(j) \/ Delete(j) \/ (\E d \in Definitions : Update(j, d))
          => \E from \in SUBSET {"active", "paused", "ended", "cancelled"} : Edit(j, from)
    BY Zenon DEF Pause, Resume, Delete, Update
  <2>2. QED
    BY <1>1, <1>2, <1>3, <2>1 DEF Owner

\* The row of a run that has not ended is written.
LEMMA RunWriteStep ==
  ASSUME TypeInv, NEW r \in Runs, NEW row, runs[r].status \in OpenRun,
         runs' = [runs EXCEPT ![r] = row], UNCHANGED <<made, frames>>
  PROVE  RowsStep
<1>1. made' >= made
  <2>1. MaxRuns \in Nat /\ made \in 0..MaxRuns
    BY CronAssumption DEF TypeInv, TypeOK
  <2>2. QED
    BY <2>1
<1>2. \A q \in Runs : q = r \/ runs'[q] = runs[q]
  BY DEF TypeInv, TypeOK
<1>3. runs[r].status # "none" /\ runs[r].status \in Unended
  BY DEF OpenRun, Unended
<1>4. QED
  BY <1>1, <1>2, <1>3 DEF RowsStep

\* A lane that goes on to something other than sending.
LEMMA LaneGoesOn ==
  ASSUME TypeInv, NEW l \in Lanes, NEW lane, lane.pc # "sending",
         lanes' = [lanes EXCEPT ![l] = lane]
  PROVE  \A k \in Lanes : lanes'[k].pc = "sending" => lanes'[k] = lanes[k]
BY DEF TypeInv, TypeOK

LEMMA LaneRests ==
  ASSUME TypeInv, NEW l \in Lanes, NEW b, lanes' = [lanes EXCEPT ![l] = Resting(b)]
  PROVE  \A k \in Lanes : lanes'[k].pc = "sending" => lanes'[k] = lanes[k]
BY LaneGoesOn DEF Resting

LEMMA LaneMoves ==
  ASSUME TypeInv, NEW l \in Lanes, NEW lane \in Lane, NEW pc \in Pc, pc # "sending",
         lanes' = [lanes EXCEPT ![l] = [lane EXCEPT !.pc = pc]]
  PROVE  \A k \in Lanes : lanes'[k].pc = "sending" => lanes'[k] = lanes[k]
<1>1. [lane EXCEPT !.pc = pc].pc = pc
  BY DEF Lane
<1>2. QED
  BY <1>1, LaneGoesOn

\* No lane becomes a sender by a claim.
LEMMA ClaimStep ==
  ASSUME TypeInv, NEW l \in Lanes, NEW r \in Runs, NEW row \in RunRow, Claim(l, r, row)
  PROVE  /\ \A k \in Lanes : lanes'[k].pc = "sending" => lanes'[k] = lanes[k]
         /\ \E claimed \in RunRow : /\ claimed.status \in OpenRun
                                   /\ runs' = [runs EXCEPT ![r] = claimed]
<1>1. lanes[l] \in Lane
  BY DEF TypeInv, TypeOK
<1>2. \A b : [lanes[l] EXCEPT !.pc = "claimed", !.run = r, !.first = b].pc # "sending"
  BY <1>1 DEF Lane
<1>3. \A k \in Lanes : lanes'[k].pc = "sending" => lanes'[k] = lanes[k]
  BY <1>2, LaneGoesOn DEF Claim
<1>4. [row EXCEPT !.status = "leased", !.expired = FALSE, !.holder = l] \in RunRow
  BY DEF RunRow, OpenRun
<1>5. [row EXCEPT !.status = "leased", !.expired = FALSE, !.holder = l].status \in OpenRun
  BY DEF RunRow, OpenRun
<1>6. QED
  BY <1>3, <1>4, <1>5 DEF Claim

LEMMA ClaimDueRunStep ==
  ASSUME TypeInv, RowsInv, NEW l \in Lanes, ClaimDueRun(l)
  PROVE  RowsStep /\ QuietStep
<1>1. UNCHANGED <<frames, shown>> /\ lanes[l] \in Lane
  BY DEF ClaimDueRun, TypeInv, TypeOK
<1>2. CASE UNCHANGED <<runs, made>>
           /\ \/ lanes' = [lanes EXCEPT ![l] = Resting(lanes[l].prefer)]
              \/ lanes' = [lanes EXCEPT ![l] = [lanes[l] EXCEPT !.pc = "deliver"]]
  <2>1. \A k \in Lanes : lanes'[k].pc = "sending" => lanes'[k] = lanes[k]
    BY <1>1, <1>2, LaneRests, LaneMoves DEF Pc
  <2>2. QuietStep
    BY <1>1, <2>1, NoFrameStep
  <2>3. RowsStep
    BY <1>1, <1>2, RowsStepIfSame
  <2>4. QED
    BY <2>2, <2>3
<1>3. CASE ClaimWaitingRun(l)
  <2>1. PICK r \in DueRuns : (Claim(l, r, runs[r]) /\ UNCHANGED made) \/ TickFails(l)
    BY <1>3 DEF ClaimWaitingRun
  <2>2. CASE Claim(l, r, runs[r]) /\ UNCHANGED made
    <3>1. r \in Runs /\ runs[r] \in RunRow /\ runs[r].status \in OpenRun
      BY DEF DueRuns, OpenRun, TypeInv, TypeOK
    <3>2. QuietStep
      BY <1>1, <2>2, <3>1, ClaimStep, NoFrameStep
    <3>3. RowsStep
      BY <1>1, <2>2, <3>1, ClaimStep, RunWriteStep
    <3>4. QED
      BY <3>2, <3>3
  <2>3. CASE TickFails(l)
    BY <1>2, <2>3 DEF TickFails
  <2>4. QED
    BY <2>1, <2>2, <2>3
<1>4. CASE ClaimOccurrence(l)
  <2>1. PICK j \in Jobs :
          /\ ~LookRaises(j)
          /\ MakeRun(l, j, TriggerOf(j), IF TriggerOf(j) = "lifecycle" THEN clock ELSE Owed(j))
    BY <1>4 DEF ClaimOccurrence
  <2> DEFINE due == IF TriggerOf(j) = "lifecycle" THEN clock ELSE Owed(j)
             revision == jobs[j].revision + (IF TriggerOf(j) = "lifecycle" THEN 1 ELSE 0)
             row == NewRun(j, due, TriggerOf(j), revision)
  <2>2. row \in RunRow
    <3>1. TriggerOf(j) \in {"schedule", "catchup", "lifecycle"}
      BY DEF TriggerOf
    <3>2. due \in Time
      <4>1. Owed(j) \in When /\ clock \in Time
        BY <2>1, OwedType DEF TypeInv, TypeOK
      <4>2. TriggerOf(j) # "lifecycle" => Owed(j) # NoTime
        BY DEF TriggerOf
      <4>3. QED
        BY <4>1, <4>2 DEF When
    <3>3. revision \in Nat
      <4>1. jobs[j].revision \in Nat
        BY DEF TypeInv, TypeOK, JobRow
      <4>2. QED
        BY <4>1
    <3> HIDE DEF due, revision
    <3>4. QED
      BY <3>1, <3>2, <3>3, NewRunType
  <2>3. made < MaxRuns /\ made' = made + 1 /\ Claim(l, made + 1, row)
    BY Zenon, <1>4, <2>1 DEF ClaimOccurrence, MakeRun
  <2> HIDE DEF row
  <2>4. made + 1 \in Runs
    <3>1. MaxRuns \in Nat /\ made \in 0..MaxRuns
      BY CronAssumption DEF TypeInv, TypeOK
    <3>2. QED
      BY <2>3, <3>1 DEF Runs
  <2>5. PICK claimed \in RunRow : /\ claimed.status \in OpenRun
                                 /\ runs' = [runs EXCEPT ![made + 1] = claimed]
    BY <2>2, <2>3, <2>4, ClaimStep
  <2>6. RowsStep
    BY <1>1, <2>3, <2>5, AppendStep
  <2>7. QuietStep
    BY <1>1, <2>2, <2>3, <2>4, ClaimStep, NoFrameStep
  <2>8. QED
    BY <2>6, <2>7
<1>5. CASE ClaimNothing(l)
  <2>1. \/ lanes' = [lanes EXCEPT ![l] = Resting(lanes[l].prefer)]
        \/ lanes' = [lanes EXCEPT ![l] = [lanes[l] EXCEPT !.pc = "deliver"]]
    BY <1>5 DEF ClaimNothing, TickFails, NothingDue
  <2>2. UNCHANGED <<runs, made>>
    BY <1>5 DEF ClaimNothing, TickFails
  <2>3. QED
    BY <1>2, <2>1, <2>2
<1>6. QED
  BY <1>3, <1>4, <1>5 DEF ClaimDueRun

LEMMA ExecutedRests ==
  ASSUME TypeInv, NEW l \in Lanes, Executed(l)
  PROVE  \A k \in Lanes : lanes'[k].pc = "sending" => lanes'[k] = lanes[k]
BY LaneRests DEF Executed

\* The end of a run writes its row, and frames where there were none.
LEMMA RunEndsStep ==
  ASSUME TypeInv, RowsInv, NEW r \in Runs, NEW row, NEW fs, runs[r].status \in OpenRun,
         runs' = [runs EXCEPT ![r] = row], row.status \notin Unended,
         frames' = [frames EXCEPT ![r] = fs], UNCHANGED <<made, shown>>,
         \A l \in Lanes : lanes'[l].pc = "sending" => lanes'[l] = lanes[l]
  PROVE  RowsStep /\ QuietStep
<1>1. \A f \in Frames : frames[r][f].status = "none"
  BY DEF RowsInv, FramesFollowRuns, Unended
<1>2. \A q \in Runs : q # r => runs'[q] = runs[q] /\ frames'[q] = frames[q]
  BY DEF TypeInv, TypeOK
<1>3. runs'[r].status \notin Unended /\ runs[r].status # "none"
  BY DEF TypeInv, TypeOK, OpenRun
<1>4. made' >= made
  <2>1. MaxRuns \in Nat /\ made \in 0..MaxRuns
    BY CronAssumption DEF TypeInv, TypeOK
  <2>2. QED
    BY <2>1
<1>5. RowsStep
  BY <1>2, <1>3, <1>4 DEF RowsStep
<1>6. QuietStep
  BY <1>1, <1>2 DEF QuietStep
<1>7. QED
  BY <1>5, <1>6

LEMMA ExecuteStep ==
  ASSUME TypeInv, RowsInv, NEW l \in Lanes, Execute(l)
  PROVE  RowsStep /\ QuietStep
<1> DEFINE r == lanes[l].run
<1>1. lanes[l] \in Lane
  BY SMTT(60) DEF TypeInv, TypeOK
<1>2. lanes[l].pc \in {"claimed", "executing"} /\ r \in Runs
  BY Zenon DEF Execute, BeginRun, RenewLease, HeartbeatFails, CompleteRun, ResultIsDropped, FailRun,
         DeferRun, TypeInv, LanesHold
<1>3. HoldsRun(l) => runs[r].status \in OpenRun
  BY DEF HoldsRun, OpenRun
<1>4. runs[r] \in RunRow
  BY <1>2 DEF TypeInv, TypeOK
<1>5. CASE BeginRun(l)
  <2>1. \/ lanes' = [lanes EXCEPT ![l] = Resting(lanes[l].prefer)]
        \/ lanes' = [lanes EXCEPT ![l] = [Resting(lanes[l].prefer) EXCEPT !.pc = "deliver"]]
        \/ lanes' = [lanes EXCEPT ![l] = [lanes[l] EXCEPT !.pc = "executing"]]
    BY <1>5 DEF BeginRun
  <2>2. lanes[l].prefer \in BOOLEAN /\ Resting(lanes[l].prefer) \in Lane
    BY <1>1, RestingType DEF Lane
  <2>3. \A k \in Lanes : lanes'[k].pc = "sending" => lanes'[k] = lanes[k]
    BY <1>1, <2>1, <2>2, LaneRests, LaneMoves DEF Pc
  <2>4. \/ HoldsRun(l) /\ runs' = [runs EXCEPT ![r] =
                                    [@ EXCEPT !.status = "executing", !.expired = FALSE]]
        \/ UNCHANGED runs
    BY <1>5 DEF BeginRun
  <2>5. UNCHANGED <<made, frames, shown>>
    BY <1>5 DEF BeginRun
  <2>6. RowsStep
    BY <1>2, <1>3, <2>4, <2>5, RunWriteStep, RowsStepIfSame
  <2>7. QED
    BY <2>3, <2>5, <2>6, NoFrameStep
<1>6. CASE RenewLease(l)
  <2>1. \A k \in Lanes : lanes'[k].pc = "sending" => lanes'[k] = lanes[k]
    <3>1. [lanes[l] EXCEPT !.lost = TRUE].pc # "sending"
      BY <1>1, <1>2 DEF Lane
    <3>2. QED
      BY <1>6, <3>1, LaneGoesOn DEF RenewLease
  <2>2. \/ HoldsRun(l) /\ runs' = [runs EXCEPT ![r] = [@ EXCEPT !.expired = FALSE]]
        \/ UNCHANGED runs
    BY <1>6 DEF RenewLease
  <2>3. UNCHANGED <<made, frames, shown>>
    BY <1>6 DEF RenewLease
  <2>4. RowsStep
    BY <1>2, <1>3, <2>2, <2>3, RunWriteStep, RowsStepIfSame
  <2>5. QED
    BY <2>1, <2>3, <2>4, NoFrameStep
<1>7. CASE HeartbeatFails(l)
  <2>1. [lanes[l] EXCEPT !.lost = TRUE].pc # "sending"
    BY <1>1, <1>2 DEF Lane
  <2>2. \A k \in Lanes : lanes'[k].pc = "sending" => lanes'[k] = lanes[k]
    BY <1>7, <2>1, LaneGoesOn DEF HeartbeatFails
  <2>3. QED
    BY <1>7, <2>2, RowsStepIfSame, NoFrameStep DEF HeartbeatFails
<1>8. CASE \E success \in BOOLEAN, n \in 1..MaxFrames : CompleteRun(l, success, n)
  <2>1. PICK success \in BOOLEAN, n \in 1..MaxFrames : CompleteRun(l, success, n)
    BY <1>8
  <2>2. [runs[r] EXCEPT !.status = "succeeded"].status \notin Unended
    BY <1>4 DEF RunRow, Unended, OpenRun
  <2>3. \A k \in Lanes : lanes'[k].pc = "sending" => lanes'[k] = lanes[k]
    BY <2>1, ExecutedRests DEF CompleteRun
  <2>4. /\ HoldsRun(l)
        /\ runs' = [runs EXCEPT ![r] = [runs[r] EXCEPT !.status = "succeeded"]]
        /\ frames' = [frames EXCEPT ![r] = [f \in Frames |-> IF f < n THEN NewFrame
                                                             ELSE frames[r][f]]]
        /\ UNCHANGED <<made, shown>>
    BY <1>2, <2>1 DEF CompleteRun, TypeInv, TypeOK
  <2>5. QED
    BY <1>2, <1>3, <2>2, <2>3, <2>4, RunEndsStep
<1>9. CASE ResultIsDropped(l)
  BY <1>9, ExecutedRests, RowsStepIfSame, NoFrameStep DEF ResultIsDropped
<1>10. CASE FailRun(l)
  <2>1. HoldsRun(l) /\ UNCHANGED <<made, shown>>
    BY ZenonT(60), <1>10 DEF FailRun
  <2>2. \A k \in Lanes : lanes'[k].pc = "sending" => lanes'[k] = lanes[k]
    BY Zenon, <1>10, ExecutedRests, LaneRests DEF FailRun
  <2>3. CASE UNCHANGED frames
    <3>1. \/ \E row : runs' = [runs EXCEPT ![r] = row]
          \/ UNCHANGED runs
      BY Zenon, <1>10 DEF FailRun
    <3>2. RowsStep
      BY <1>2, <1>3, <2>1, <2>3, <3>1, RunWriteStep, RowsStepIfSame
    <3>3. QED
      BY SMTT(60), <2>1, <2>2, <2>3, <3>2, NoFrameStep
  <2>4. CASE ~UNCHANGED frames
    <3>1. \A n : [runs[r] EXCEPT !.attempts = n, !.status = "failed"].status \notin Unended
      BY <1>4 DEF RunRow, Unended, OpenRun
    <3>2. /\ runs' = [runs EXCEPT ![r] = [runs[r] EXCEPT !.attempts = @ + 1, !.status = "failed"]]
          /\ frames' = [frames EXCEPT ![r] = [frames[r] EXCEPT ![0] = NewFrame]]
      BY Zenon, <1>10, <2>4 DEF FailRun
    <3>3. QED
      BY Zenon, <1>2, <1>3, <2>1, <2>2, <3>1, <3>2, RunEndsStep
  <2>5. QED
    BY SMTT(60), <2>3, <2>4
<1>11. CASE DeferRun(l)
  <2>1. /\ HoldsRun(l) /\ Executed(l)
        /\ runs' = [runs EXCEPT ![r] = [runs[r] EXCEPT !.status = "retry_wait", !.ready = FALSE]]
        /\ UNCHANGED <<made, frames, shown>>
    BY <1>11 DEF DeferRun
  <2>2. RowsStep
    BY <1>2, <1>3, <2>1, RunWriteStep
  <2>3. QED
    BY <2>1, <2>2, ExecutedRests, NoFrameStep
<1>12. QED
  BY <1>5, <1>6, <1>7, <1>8, <1>9, <1>10, <1>11 DEF Execute

\* Pacing delays a frame, and leaves its status and its claim.
LEMMA PacedKeeps ==
  ASSUME NEW fs \in [Runs -> [Frames -> FrameRow]], NEW r \in Runs, NEW f \in Frames
  PROVE  /\ Paced(fs, r)[f] \in FrameRow
         /\ Paced(fs, r)[f].status = fs[r][f].status
         /\ Paced(fs, r)[f].holder = fs[r][f].holder
<1>1. \A row \in FrameRow : /\ [row EXCEPT !.ready = FALSE].status = row.status
                           /\ [row EXCEPT !.ready = FALSE].holder = row.holder
  BY DEF FrameRow
<1>2. Paced(fs, r)[f] \in {fs[r][f], [fs[r][f] EXCEPT !.ready = FALSE]}
  BY DEF Paced
<1>3. fs[r][f] \in FrameRow /\ Paced(fs, r) \in [Frames -> FrameRow]
  BY PacedType
<1>4. QED
  BY <1>1, <1>2, <1>3

\* Recovery gives up what was being sent, and lets runs start again.
LEMMA RecoverStep ==
  ASSUME TypeInv, RowsInv, NEW l \in Lanes, Recover(l)
  PROVE  RowsStep /\ QuietStep
<1> DEFINE recovered == [r \in Runs |-> [f \in Frames |-> RecoveredFrame(frames[r][f])]]
           uncertain == {r \in Runs : \E f \in Frames :
                           recovered[r][f].status # frames[r][f].status
                           /\ recovered[r][f].status = "unknown"}
           paced == [r \in Runs |-> IF r \in uncertain THEN Paced(recovered, r) ELSE recovered[r]]
<1>1. \A row \in FrameRow :
        /\ RecoveredFrame(row) \in FrameRow
        /\ RecoveredFrame(row).holder = row.holder
        /\ \/ RecoveredFrame(row).status = row.status
           \/ row.status = "leased" /\ RecoveredFrame(row).status = "pending"
           \/ row.status = "sending" /\ RecoveredFrame(row).status = "unknown"
  BY Zenon, RecoveredFrameType DEF RecoveredFrame, FrameRow
<1>2. recovered \in [Runs -> [Frames -> FrameRow]]
  BY <1>1 DEF TypeInv, TypeOK
<1>3. \A r \in Runs, f \in Frames : /\ paced[r][f] \in FrameRow
                                   /\ paced[r][f].status = recovered[r][f].status
                                   /\ paced[r][f].holder = recovered[r][f].holder
  <2> SUFFICES ASSUME NEW r \in Runs, NEW f \in Frames
               PROVE  /\ Paced(recovered, r)[f] \in FrameRow
                      /\ Paced(recovered, r)[f].status = recovered[r][f].status
                      /\ Paced(recovered, r)[f].holder = recovered[r][f].holder
    BY <1>2
  <2> HIDE DEF recovered
  <2>1. QED
    BY <1>2, PacedKeeps
<1>4. \A r \in Runs, f \in Frames : /\ frames'[r][f].status = recovered[r][f].status
                                   /\ frames'[r][f].holder = recovered[r][f].holder
  <2>1. frames' = [r \in Runs |-> [f \in Frames |->
                     [paced[r][f] EXCEPT !.expired = @ /\ paced[r][f].status = frames[r][f].status]]]
    BY Zenon DEF Recover
  <2>2. \A row \in FrameRow, b \in BOOLEAN :
          /\ [row EXCEPT !.expired = @ /\ b].status = row.status
          /\ [row EXCEPT !.expired = @ /\ b].holder = row.holder
    BY DEF FrameRow
  <2> HIDE DEF paced, recovered
  <2>3. TAKE r \in Runs, f \in Frames
  <2>4. (paced[r][f].status = frames[r][f].status) \in BOOLEAN
    OBVIOUS
  <2>5. frames'[r][f] = [paced[r][f] EXCEPT !.expired = @ /\ paced[r][f].status = frames[r][f].status]
    BY <2>1
  <2>6. /\ frames'[r][f].status = paced[r][f].status
        /\ frames'[r][f].holder = paced[r][f].holder
    BY <1>3, <2>2, <2>4, <2>5
  <2>7. QED
    BY SMTT(60), <1>3, <2>6
<1>5. \A r \in Runs, f \in Frames :
        /\ frames'[r][f].holder = frames[r][f].holder
        /\ \/ frames'[r][f].status = frames[r][f].status
           \/ frames[r][f].status = "leased"
           \/ frames[r][f].status = "sending" /\ frames'[r][f].status = "unknown"
  BY SMTT(60), <1>1, <1>4 DEF TypeInv, TypeOK
<1>6. \A r \in Runs : \/ runs'[r] = runs[r]
                      \/ runs[r].status \in OpenRun /\ runs'[r].status = "pending"
  <2>1. \A row \in RunRow : \/ RecoveredRun(row) = row
                            \/ row.status \in OpenRun /\ RecoveredRun(row).status = "pending"
    BY DEF RecoveredRun, RunRow, OpenRun
  <2>2. QED
    BY Zenon, <2>1 DEF Recover, TypeInv, TypeOK
<1>7. made' >= made
  <2>1. MaxRuns \in Nat /\ made \in 0..MaxRuns
    BY SMTT(60), CronAssumption DEF TypeInv, TypeOK
  <2>2. made' = made
    BY Zenon DEF Recover
  <2>3. QED
    BY <2>1, <2>2
<1>8. RowsStep
  BY <1>5, <1>6, <1>7 DEF RowsStep, OpenRun, Unended
<1>9. \A k \in Lanes : lanes'[k].pc = "sending" => lanes'[k] = lanes[k]
  <2>1. \E pc \in {"first", "deliver"} : lanes' = [lanes EXCEPT ![l].pc = pc]
    BY ZenonT(60) DEF Recover
  <2>2. QED
    BY SMTT(60), <2>1 DEF TypeInv, TypeOK, Lane
<1>10. QuietStep
  BY Zenon, <1>5, <1>9 DEF QuietStep, Recover
<1>11. QED
  BY <1>8, <1>10

\* Time changes whether a row is available and whether a lease has expired.
LEMMA TimeStep ==
  ASSUME TypeInv, Tick \/ RowsReady \/ LeasesExpire \/ \E l \in Lanes : Crash(l)
  PROVE  RowsStep /\ QuietStep
<1>1. CASE Tick
  BY <1>1, RowsStepIfSame, NoFrameStep DEF Tick
<1>2. CASE \E l \in Lanes : Crash(l)
  BY <1>2, RowsStepIfSame, NoFrameStep, LaneRests DEF Crash
<1>3. CASE \E r \in Runs : RunReady(r) \/ ExpireRunLease(r)
  <2>1. PICK r \in Runs : RunReady(r) \/ ExpireRunLease(r)
    BY <1>3
  <2>2. /\ UNCHANGED <<made, frames, lanes, shown>>
        /\ runs[r].status \in OpenRun
        /\ \E row : runs' = [runs EXCEPT ![r] = row]
    BY <2>1 DEF RunReady, ExpireRunLease, OpenRun
  <2>3. QED
    BY <2>2, RunWriteStep, NoFrameStep
<1>4. CASE \E r \in Runs, f \in Frames : FrameReady(r, f) \/ ExpireFrameLease(r, f)
  <2>1. PICK r \in Runs, f \in Frames : FrameReady(r, f) \/ ExpireFrameLease(r, f)
    BY <1>4
  <2>2. /\ UNCHANGED <<made, runs, lanes, shown>>
        /\ \/ frames' = [frames EXCEPT ![r][f] = [@ EXCEPT !.ready = TRUE]]
           \/ frames' = [frames EXCEPT ![r][f] = [@ EXCEPT !.expired = TRUE]]
    BY <2>1 DEF FrameReady, ExpireFrameLease
  <2>3. \A row \in FrameRow : /\ [row EXCEPT !.ready = TRUE].status = row.status
                             /\ [row EXCEPT !.ready = TRUE].holder = row.holder
                             /\ [row EXCEPT !.expired = TRUE].status = row.status
                             /\ [row EXCEPT !.expired = TRUE].holder = row.holder
    BY DEF FrameRow
  <2>4. \A q \in Runs, e \in Frames : /\ frames'[q][e].status = frames[q][e].status
                                     /\ frames'[q][e].holder = frames[q][e].holder
    <3>1. PICK row : /\ frames' = [frames EXCEPT ![r][f] = row]
                     /\ row.status = frames[r][f].status
                     /\ row.holder = frames[r][f].holder
      <4>1. frames[r][f] \in FrameRow
        BY DEF TypeInv, TypeOK
      <4>2. CASE frames' = [frames EXCEPT ![r][f] = [@ EXCEPT !.ready = TRUE]]
        BY <2>3, <4>1, <4>2
      <4>3. CASE frames' = [frames EXCEPT ![r][f] = [@ EXCEPT !.expired = TRUE]]
        BY <2>3, <4>1, <4>3
      <4>4. QED
        BY <2>2, <4>2, <4>3
    <3>2. QED
      BY <3>1 DEF TypeInv, TypeOK
  <2>5. QED
    BY <2>2, <2>4, RowsStepIfSame DEF QuietStep
<1>5. QED
  BY <1>1, <1>2, <1>3, <1>4 DEF RowsReady, LeasesExpire

-----------------------------------------------------------------------------
(* Sending *)

\* A frame that waits is claimed.
LEMMA ClaimDeliveryStep ==
  ASSUME TypeInv, NEW l \in Lanes, ClaimDelivery(l)
  PROVE  RowsStep /\ QuietStep
<1>1. UNCHANGED <<made, runs, shown>> /\ lanes[l].prefer \in BOOLEAN
  BY Zenon DEF ClaimDelivery, TypeInv, TypeOK, Lane
<1>2. CASE \E r \in Runs, f \in Frames : Claimable(r, f)
  <2>1. PICK r \in Runs, f \in Frames :
          /\ frames[r][f].status \in {"pending", "retry_wait"}
          /\ \E row : frames' = [frames EXCEPT ![r][f] = row]
          /\ lanes' = [lanes EXCEPT ![l] = [Resting(TRUE) EXCEPT !.pc = "admit", !.run = r,
                                                                 !.frame = f]]
    BY Zenon, <1>2 DEF ClaimDelivery, Claimable
  <2>2. [Resting(TRUE) EXCEPT !.pc = "admit", !.run = r, !.frame = f].pc # "sending"
    BY DEF Resting
  <2>3. \A k \in Lanes : lanes'[k].pc = "sending" => lanes'[k] = lanes[k]
    BY <2>1, <2>2, LaneGoesOn
  <2>4. \A q \in Runs, e \in Frames : \/ frames'[q][e] = frames[q][e]
                                     \/ frames[q][e].status \in {"pending", "retry_wait"}
    BY <2>1 DEF TypeInv, TypeOK
  <2>5. QuietStep
    BY <1>1, <2>3, <2>4 DEF QuietStep
  <2>6. RowsStep
    BY <1>1, <2>4, RowsStepIfSame
  <2>7. QED
    BY SMTT(60), <2>5, <2>6
<1>3. CASE ~\E r \in Runs, f \in Frames : Claimable(r, f)
  <2>1. UNCHANGED frames
        /\ lanes' = [lanes EXCEPT ![l] = [Resting(lanes[l].prefer) EXCEPT !.pc = "last"]]
    BY Zenon, <1>3 DEF ClaimDelivery
  <2>2. QED
    BY SMTT(60), <1>1, <2>1, RestingType, LaneMoves, RowsStepIfSame, NoFrameStep DEF Pc
<1>4. QED
  BY SMTT(60), <1>2, <1>3

\* Admission: the frame is the lane's, and was never shown.
LEMMA AdmitKeeps ==
  ASSUME TypeInv, SendInv, NEW l \in Lanes, AdmitDelivery(l)
  PROVE  RowsStep /\ SendInv'
<1> DEFINE r == lanes[l].run
           f == lanes[l].frame
<1>1. UNCHANGED <<made, runs, shown>> /\ lanes[l].pc = "admit" /\ lanes \in [Lanes -> Lane]
  BY DEF AdmitDelivery, TypeInv, TypeOK
<1>2. r \in Runs /\ f \in Frames
  BY <1>1 DEF TypeInv, TypeOK, LanesHold, Lane
<1>3. CASE Admits(l)
  <2>1. frames[r][f].status = "leased" /\ frames[r][f].holder = l /\ frames[r][f] \in FrameRow
    BY <1>2, <1>3 DEF Admits, TypeInv, TypeOK
  <2>2. PICK row : /\ frames' = [frames EXCEPT ![r][f] = row]
                   /\ row.status = "sending" /\ row.holder = l
    <3>1. \A row \in FrameRow : /\ [row EXCEPT !.status = "sending"].status = "sending"
                               /\ [row EXCEPT !.status = "sending"].holder = row.holder
      BY DEF FrameRow
    <3>2. frames' = [frames EXCEPT ![r][f] = [@ EXCEPT !.status = "sending"]]
      BY <1>3 DEF AdmitDelivery
    <3>3. QED
      BY <2>1, <3>1, <3>2
  <2>3. /\ frames'[r][f] = row
        /\ \A q \in Runs, e \in Frames : <<q, e>> # <<r, f>> => frames'[q][e] = frames[q][e]
    BY <1>2, <2>2 DEF TypeInv, TypeOK
  <2>4. /\ lanes'[l].pc = "sending" /\ lanes'[l].run = r /\ lanes'[l].frame = f
        /\ \A k \in Lanes \ {l} : lanes'[k] = lanes[k]
    <3>1. lanes' = [lanes EXCEPT ![l] = [@ EXCEPT !.pc = "sending"]]
      BY <1>3 DEF AdmitDelivery
    <3>2. QED
      BY <1>1, <3>1 DEF Lane
  <2>5. shown[r][f] = 0
    <3>1. shown[r][f] \in Nat
      BY <1>2 DEF TypeInv, TypeOK
    <3>2. shown[r][f] <= 1 /\ shown[r][f] # 1
      BY <1>2, <2>1 DEF SendInv, ShownIsSettled
    <3>3. QED
      BY <3>1, <3>2
  <2>6. \A k \in Lanes : lanes[k].pc = "sending"
          => /\ lanes[k].run \in Runs /\ lanes[k].frame \in Frames
             /\ <<lanes[k].run, lanes[k].frame>> # <<r, f>>
    <3>1. SUFFICES ASSUME NEW k \in Lanes, lanes[k].pc = "sending"
                   PROVE  /\ lanes[k].run \in Runs /\ lanes[k].frame \in Frames
                          /\ <<lanes[k].run, lanes[k].frame>> # <<r, f>>
      OBVIOUS
    <3>2. frames[lanes[k].run][lanes[k].frame].status \in {"sending", "unknown"}
      BY <3>1 DEF SendInv, SendersKnow, HoldsSend
    <3>3. QED
      BY <2>1, <3>1, <3>2 DEF TypeInv, TypeOK, LanesHold, Lane
  <2>7. ShownIsSettled'
    BY <1>1, <1>2, <2>2, <2>3, <2>5 DEF SendInv, ShownIsSettled
  <2>8. SendersKnow'
    <3> SUFFICES ASSUME NEW k \in Lanes, lanes'[k].pc = "sending"
                 PROVE  /\ shown'[lanes'[k].run][lanes'[k].frame] = 0
                        /\ \/ /\ frames'[lanes'[k].run][lanes'[k].frame].status = "sending"
                              /\ frames'[lanes'[k].run][lanes'[k].frame].holder = k
                           \/ frames'[lanes'[k].run][lanes'[k].frame].status = "unknown"
      BY DEF SendersKnow, HoldsSend
    <3>1. CASE k = l
      BY <1>1, <2>2, <2>3, <2>4, <2>5, <3>1
    <3>2. CASE k # l
      <4>1. lanes'[k] = lanes[k]
        BY <2>4, <3>2
      <4>2. frames'[lanes[k].run][lanes[k].frame] = frames[lanes[k].run][lanes[k].frame]
        BY <2>3, <2>6, <4>1
      <4>3. QED
        BY <1>1, <4>1, <4>2 DEF SendInv, SendersKnow, HoldsSend
    <3>3. QED
      BY <3>1, <3>2
  <2>9. OneSender'
    BY <2>4, <2>6 DEF SendInv, OneSender
  <2>10. \A q \in Runs, e \in Frames :
           frames[q][e].status = "none" => frames'[q][e].status = "none"
    BY <2>1, <2>3
  <2>11. QED
    BY <1>1, <2>7, <2>8, <2>9, <2>10, RowsStepIfSame DEF SendInv
<1>4. CASE ~Admits(l)
  <2>1. UNCHANGED frames /\ lanes' = [lanes EXCEPT ![l] = Resting(lanes[l].prefer)]
    BY <1>4 DEF AdmitDelivery
  <2>2. QED
    BY <1>1, <2>1, LaneRests, NoFrameStep, QuietStepKeeps, RowsStepIfSame
<1>5. QED
  BY <1>3, <1>4

\* The frame is shown: once, and by nobody else.
LEMMA TakesKeeps ==
  ASSUME TypeInv, SendInv, NEW l \in Lanes, TelegramTakes(l)
  PROVE  RowsStep /\ SendInv'
<1> DEFINE r == lanes[l].run
           f == lanes[l].frame
<1>1. /\ UNCHANGED <<made, runs, frames>> /\ lanes[l].pc = "sending" /\ lanes \in [Lanes -> Lane]
      /\ shown \in [Runs -> [Frames -> Nat]]
  BY DEF TelegramTakes, TypeInv, TypeOK
<1>2. \A k \in Lanes : lanes[k].pc = "sending" => lanes[k].run \in Runs /\ lanes[k].frame \in Frames
  BY DEF TypeInv, TypeOK, LanesHold, Lane
<1>3. /\ shown'[r][f] = 1
      /\ \A q \in Runs, e \in Frames : <<q, e>> # <<r, f>> => shown'[q][e] = shown[q][e]
  <2>1. shown' = [shown EXCEPT ![r][f] = @ + 1] /\ shown[r][f] = 0
    BY <1>1 DEF TelegramTakes, SendInv, SendersKnow
  <2>2. QED
    BY <1>1, <1>2, <2>1
<1>4. lanes'[l].pc # "sending" /\ \A k \in Lanes \ {l} : lanes'[k] = lanes[k]
  <2>1. lanes' = [lanes EXCEPT ![l] = [@ EXCEPT !.pc = "accepted"]]
    BY DEF TelegramTakes
  <2>2. QED
    BY <1>1, <2>1 DEF Lane
<1>5. frames[r][f].status \in {"sending", "unknown"}
  BY <1>1 DEF SendInv, SendersKnow, HoldsSend
<1>6. \A k \in Lanes : lanes'[k].pc = "sending"
        => /\ lanes'[k] = lanes[k] /\ lanes[k].run \in Runs /\ lanes[k].frame \in Frames
           /\ <<lanes[k].run, lanes[k].frame>> # <<r, f>>
  <2> SUFFICES ASSUME NEW k \in Lanes, lanes'[k].pc = "sending"
               PROVE  /\ lanes'[k] = lanes[k] /\ lanes[k].run \in Runs /\ lanes[k].frame \in Frames
                      /\ <<lanes[k].run, lanes[k].frame>> # <<r, f>>
    OBVIOUS
  <2>1. k # l /\ lanes'[k] = lanes[k] /\ lanes[k].pc = "sending"
    BY <1>4
  <2>2. ~(lanes[k].run = r /\ lanes[k].frame = f)
    BY <1>1, <2>1 DEF SendInv, OneSender
  <2>3. QED
    BY <1>2, <2>1, <2>2
<1>7. ShownIsSettled'
  BY <1>1, <1>3, <1>5 DEF SendInv, ShownIsSettled
<1>8. SendersKnow'
  <2> SUFFICES ASSUME NEW k \in Lanes, lanes'[k].pc = "sending"
               PROVE  /\ shown'[lanes'[k].run][lanes'[k].frame] = 0
                      /\ \/ /\ frames'[lanes'[k].run][lanes'[k].frame].status = "sending"
                            /\ frames'[lanes'[k].run][lanes'[k].frame].holder = k
                         \/ frames'[lanes'[k].run][lanes'[k].frame].status = "unknown"
    BY DEF SendersKnow, HoldsSend
  <2>1. shown'[lanes[k].run][lanes[k].frame] = shown[lanes[k].run][lanes[k].frame]
    BY <1>3, <1>6
  <2>2. QED
    BY <1>1, <1>6, <2>1 DEF SendInv, SendersKnow, HoldsSend
<1>9. OneSender'
  BY <1>6 DEF SendInv, OneSender
<1>10. QED
  BY <1>1, <1>7, <1>8, <1>9, RowsStepIfSame DEF SendInv

\* An outcome is written by the lane that holds the frame. A rejection puts a
\* frame back that was not shown; the other outcomes are final.
LEMMA OutcomeKeeps ==
  ASSUME TypeInv, SendInv, NEW l \in Lanes, HoldsSend(l), lanes[l].pc \in {"sending", "accepted"},
         NEW b, lanes' = [lanes EXCEPT ![l] = Resting(b)], UNCHANGED <<made, runs, shown>>,
         \A q \in Runs, e \in Frames : <<q, e>> # <<lanes[l].run, lanes[l].frame>> =>
           /\ frames'[q][e].status = frames[q][e].status
           /\ frames'[q][e].holder = frames[q][e].holder,
         \/ lanes[l].pc = "sending"
         \/ frames'[lanes[l].run][lanes[l].frame].status \in {"delivered", "unknown"}
  PROVE  RowsStep /\ SendInv'
<1> DEFINE r == lanes[l].run
           f == lanes[l].frame
<1>1. r \in Runs /\ f \in Frames /\ lanes \in [Lanes -> Lane]
  BY DEF TypeInv, TypeOK, LanesHold, Lane
<1>2. frames[r][f].status = "sending" /\ frames[r][f].holder = l
  BY DEF HoldsSend
<1>3. \A k \in Lanes : lanes'[k].pc = "sending" => k # l /\ lanes'[k] = lanes[k]
  BY <1>1 DEF Resting
<1>4. \A k \in Lanes : lanes'[k].pc = "sending"
        => /\ lanes[k].run \in Runs /\ lanes[k].frame \in Frames
           /\ <<lanes[k].run, lanes[k].frame>> # <<r, f>>
  <2> SUFFICES ASSUME NEW k \in Lanes, lanes'[k].pc = "sending"
               PROVE  /\ lanes[k].run \in Runs /\ lanes[k].frame \in Frames
                      /\ <<lanes[k].run, lanes[k].frame>> # <<r, f>>
    OBVIOUS
  <2>1. k # l /\ lanes[k].pc = "sending"
    BY SMTT(60), <1>3
  <2>2. \/ frames[lanes[k].run][lanes[k].frame].holder = k
        \/ frames[lanes[k].run][lanes[k].frame].status = "unknown"
    BY <2>1 DEF SendInv, SendersKnow, HoldsSend
  <2>3. QED
    BY <1>2, <2>1, <2>2 DEF TypeInv, TypeOK, LanesHold, Lane
<1>5. ShownIsSettled'
  <2>1. lanes[l].pc = "sending" => shown[r][f] = 0
    BY SMTT(60) DEF SendInv, SendersKnow
  <2>2. QED
    BY <1>1, <2>1 DEF SendInv, ShownIsSettled
<1>6. SendersKnow'
  <2> SUFFICES ASSUME NEW k \in Lanes, lanes'[k].pc = "sending"
               PROVE  /\ shown'[lanes'[k].run][lanes'[k].frame] = 0
                      /\ \/ /\ frames'[lanes'[k].run][lanes'[k].frame].status = "sending"
                            /\ frames'[lanes'[k].run][lanes'[k].frame].holder = k
                         \/ frames'[lanes'[k].run][lanes'[k].frame].status = "unknown"
    BY Zenon DEF SendersKnow, HoldsSend
  <2>1. /\ lanes'[k] = lanes[k]
        /\ frames'[lanes[k].run][lanes[k].frame].status = frames[lanes[k].run][lanes[k].frame].status
        /\ frames'[lanes[k].run][lanes[k].frame].holder = frames[lanes[k].run][lanes[k].frame].holder
    BY <1>3, <1>4
  <2>2. QED
    BY ZenonT(60), <2>1 DEF SendInv, SendersKnow, HoldsSend
<1>7. OneSender'
  BY <1>3 DEF SendInv, OneSender
<1>8. \A q \in Runs, e \in Frames :
        frames[q][e].status = "none" => frames'[q][e].status = "none"
  BY <1>2
<1>9. QED
  BY <1>5, <1>6, <1>7, <1>8, RowsStepIfSame DEF SendInv

\* A final status, for the frame of the lane that holds it.
LEMMA FinishKeeps ==
  ASSUME TypeInv, SendInv, NEW l \in Lanes, NEW status \in FinalFrame, Finish(l, status),
         lanes[l].pc \in {"sending", "accepted"},
         lanes[l].pc = "sending" \/ status \in {"delivered", "unknown"}
  PROVE  RowsStep /\ SendInv'
<1> DEFINE r == lanes[l].run
           f == lanes[l].frame
           settled == [frames EXCEPT ![r][f] = [@ EXCEPT !.status = status]]
<1>1. /\ UNCHANGED <<made, runs, shown>>
      /\ lanes' = [lanes EXCEPT ![l] = Resting(lanes[l].prefer)]
  BY DEF Finish
<1>2. r \in Runs /\ f \in Frames
  BY DEF TypeInv, TypeOK, LanesHold, Lane
<1>3. CASE HoldsSend(l) /\ Settle(l, status)
  <2>1. frames' = [settled EXCEPT ![r] = Paced(settled, r)]
    BY <1>3 DEF Settle
  <2>2. frames \in [Runs -> [Frames -> FrameRow]]
    BY DEF TypeInv, TypeOK
  <2>3. /\ [frames[r][f] EXCEPT !.status = status] \in FrameRow
        /\ [frames[r][f] EXCEPT !.status = status].status = status
    <3>1. \A row \in FrameRow : /\ [row EXCEPT !.status = status] \in FrameRow
                               /\ [row EXCEPT !.status = status].status = status
      BY DEF FrameRow
    <3>2. QED
      BY <1>2, <2>2, <3>1
  <2>4. /\ settled \in [Runs -> [Frames -> FrameRow]]
        /\ settled[r][f].status = status
        /\ \A q \in Runs, e \in Frames : <<q, e>> # <<r, f>> => settled[q][e] = frames[q][e]
    BY <1>2, <2>2, <2>3
  <2> HIDE DEF settled
  <2>5. \A q \in Runs, e \in Frames : /\ frames'[q][e].status = settled[q][e].status
                                     /\ frames'[q][e].holder = settled[q][e].holder
    BY <1>2, <2>1, <2>4, PacedKeeps
  <2>6. /\ frames'[r][f].status = status
        /\ \A q \in Runs, e \in Frames : <<q, e>> # <<r, f>> =>
             /\ frames'[q][e].status = frames[q][e].status
             /\ frames'[q][e].holder = frames[q][e].holder
    BY <1>2, <2>4, <2>5
  <2>7. QED
    BY <1>1, <1>3, <2>6, OutcomeKeeps
<1>4. CASE ~HoldsSend(l) /\ UNCHANGED frames
  BY <1>1, <1>4, LaneRests, NoFrameStep, QuietStepKeeps, RowsStepIfSame
<1>5. QED
  BY <1>3, <1>4 DEF Finish

LEMMA DeliverKeeps ==
  ASSUME TypeInv, SendInv, NEW l \in Lanes, Deliver(l)
  PROVE  RowsStep /\ SendInv'
<1>1. CASE ClaimDelivery(l)
  BY <1>1, ClaimDeliveryStep, QuietStepKeeps
<1>2. CASE AdmitDelivery(l)
  BY <1>2, AdmitKeeps
<1>3. CASE TelegramTakes(l)
  BY <1>3, TakesKeeps
<1>4. CASE CompleteDelivery(l) \/ SendUncertain(l)
  BY <1>4, FinishKeeps DEF CompleteDelivery, SendUncertain, FinalFrame
<1>5. CASE SendRejected(l)
  <2>1. lanes[l].pc = "sending"
    BY <1>5 DEF SendRejected
  <2>2. CASE Finish(l, "exhausted")
    BY <2>1, <2>2, FinishKeeps DEF FinalFrame
  <2>3. CASE ~Finish(l, "exhausted")
    <3>1. /\ HoldsSend(l) /\ UNCHANGED <<made, runs, shown>>
          /\ lanes' = [lanes EXCEPT ![l] = Resting(lanes[l].prefer)]
          /\ \E row : frames' = [frames EXCEPT ![lanes[l].run][lanes[l].frame] = row]
      BY <1>5, <2>3 DEF SendRejected
    <3>2. lanes[l].run \in Runs /\ lanes[l].frame \in Frames
      BY <2>1 DEF TypeInv, TypeOK, LanesHold, Lane
    <3>3. \A q \in Runs, e \in Frames :
            <<q, e>> # <<lanes[l].run, lanes[l].frame>> => frames'[q][e] = frames[q][e]
      BY <3>1, <3>2 DEF TypeInv, TypeOK
    <3>4. QED
      BY <2>1, <3>1, <3>3, OutcomeKeeps
  <2>4. QED
    BY <2>2, <2>3
<1>6. QED
  BY <1>1, <1>2, <1>3, <1>4, <1>5 DEF Deliver

-----------------------------------------------------------------------------
(* Every step *)

LEMMA DeliveryInvInit == Init => DeliveryInv
<1> SUFFICES ASSUME Init PROVE DeliveryInv
  OBVIOUS
<1>1. TypeInv
  BY InitTypeOK DEF Init, TypeInv, LanesHold, Resting
<1>2. RowsInv
  BY DEF Init, RowsInv, Unmade, FramesFollowRuns, NoRunRow, NoFrameRow
<1>3. SendInv
  BY DEF Init, SendInv, ShownIsSettled, SendersKnow, OneSender, Resting
<1>4. QED
  BY <1>1, <1>2, <1>3 DEF DeliveryInv

LEMMA DeliveryInvStep ==
  ASSUME DeliveryInv, [Next]_vars
  PROVE  DeliveryInv'
<1>1. TypeInv /\ RowsInv /\ SendInv
  BY DEF DeliveryInv
<1>2. TypeInv'
  BY <1>1, TypeInvStep
<1>3. RowsStep /\ QuietStep => DeliveryInv'
  BY <1>1, <1>2, RowsStepKeeps, QuietStepKeeps DEF TypeInv, DeliveryInv
<1>4. CASE Owner
  BY <1>1, <1>3, <1>4, OwnerStep
<1>5. CASE \E l \in Lanes : Recover(l) \/ ClaimDueRun(l) \/ Execute(l)
  BY <1>1, <1>3, <1>5, RecoverStep, ClaimDueRunStep, ExecuteStep
<1>6. CASE \E l \in Lanes : Deliver(l)
  <2>1. RowsStep /\ SendInv'
    BY <1>1, <1>6, DeliverKeeps
  <2>2. RowsInv'
    BY <1>1, <1>2, <2>1, RowsStepKeeps DEF TypeInv
  <2>3. QED
    BY <1>2, <2>1, <2>2 DEF DeliveryInv
<1>7. CASE Tick \/ RowsReady \/ LeasesExpire \/ \E l \in Lanes : Crash(l)
  BY <1>1, <1>3, <1>7, TimeStep
<1>8. CASE UNCHANGED vars
  BY <1>1, <1>3, <1>8, RowsStepIfSame, NoFrameStep DEF vars
<1>9. QED
  BY <1>4, <1>5, <1>6, <1>7, <1>8 DEF Next, LaneStep

\* No frame is shown twice, whatever expires, dies, is retried or comes late.
THEOREM SchedulerShowsOnce == Spec => []NoDuplicateFrame
<1>1. DeliveryInv => NoDuplicateFrame
  BY DEF DeliveryInv, SendInv, ShownIsSettled, NoDuplicateFrame
<1>2. QED
  BY <1>1, DeliveryInvInit, DeliveryInvStep, PTL DEF Spec

-----------------------------------------------------------------------------
(* What is left to do is for the job as it is, and settled work stays settled *)

\* A job has one run at a time.
OneOpenRun ==
  \A q, r \in Runs :
    runs[q].status \in OpenRun /\ runs[r].status \in OpenRun /\ runs[q].job = runs[r].job => q = r

\* The frames of a run are made from the first on.
FramesArePrefix ==
  \A r \in Runs : \A e, f \in Frames :
    e < f /\ frames[r][f].status # "none" => frames[r][e].status # "none"

\* The statuses of a frame that a lane has taken up and may have sent.
Begun == {"leased", "sending", "delivered", "unknown"}

BegunInOrder ==
  \A r \in Runs : \A e, f \in Frames :
    e < f /\ frames[r][f].status \in Begun => frames[r][e].status \in FinalFrame

WorkInv == WorkIsCurrent /\ OneOpenRun /\ FramesArePrefix /\ BegunInOrder

-----------------------------------------------------------------------------
(* What a step makes of a row *)

\* A run is of the same occurrence for ever, and moves only while it is open.
RunTurns(old, new) ==
  /\ new.job = old.job /\ new.trigger = old.trigger /\ new.revision = old.revision
  /\ new.status = old.status \/ (old.status \in OpenRun /\ new.status \in OpenRun \cup FinalRun)

\* A frame moves only while it is open, and is sent after it was leased.
FrameTurns(old, new) ==
  \/ new.status = old.status
  \/ /\ old.status \in OpenFrame /\ new.status \in OpenFrame \cup FinalFrame
     /\ new.status \in Begun => old.status \in Begun

RunsTurn == \A r \in Runs : RunTurns(runs[r], runs'[r])
FramesTurn == \A r \in Runs, f \in Frames : FrameTurns(frames[r][f], frames'[r][f])

JobsStay == \A j \in Jobs : jobs'[j].status = jobs[j].status /\ jobs'[j].revision = jobs[j].revision

\* No row of a run is made.
NothingMade == \A r \in Runs : runs[r].status = "none" => runs'[r].status = "none"

\* The frames fs that the end of run r writes: the first n of the run.
FirstFrames(r, fs, n) == \A f \in Frames : fs[f] = IF f < n THEN NewFrame ELSE frames[r][f]

\* The jobs stay as they are, but for one that may have ended.
MayEnd(j) ==
  \A i \in Jobs :
    /\ jobs'[i].revision = jobs[i].revision
    /\ \/ jobs'[i].status = jobs[i].status
       \/ i = j /\ jobs'[i].status = "ended"

\* What FinalStays asks of a step.
SettledStands ==
  \A r \in Runs :
    /\ runs[r].status \in FinalRun => runs'[r].status = runs[r].status
    /\ \A f \in Frames :
         frames[r][f].status \in FinalFrame => frames'[r][f].status = frames[r][f].status

LEMMA TurnStands ==
  ASSUME RunsTurn, FramesTurn
  PROVE  SettledStands /\ NothingMade
<1>1. SettledStands
  BY DEF RunsTurn, RunTurns, FramesTurn, FrameTurns, SettledStands, OpenRun, FinalRun, OpenFrame,
         FinalFrame
<1>2. NothingMade
  BY DEF RunsTurn, RunTurns, NothingMade, OpenRun
<1> QED
  BY <1>1, <1>2

LEMMA RunEditTurns ==
  ASSUME NEW row \in RunRow, NEW status \in OpenRun \cup FinalRun, row.status \in OpenRun,
         NEW n \in Nat, NEW b \in BOOLEAN, NEW c \in BOOLEAN, NEW l \in Lanes
  PROVE  /\ RunTurns(row, [row EXCEPT !.status = status])
         /\ RunTurns(row, [row EXCEPT !.ready = b])
         /\ RunTurns(row, [row EXCEPT !.expired = b])
         /\ RunTurns(row, [row EXCEPT !.status = status, !.expired = b])
         /\ RunTurns(row, [row EXCEPT !.status = status, !.ready = b])
         /\ RunTurns(row, [row EXCEPT !.attempts = n, !.status = status])
         /\ RunTurns(row, [row EXCEPT !.attempts = n, !.status = status, !.ready = b])
         /\ RunTurns(row, [row EXCEPT !.status = status, !.expired = b, !.holder = l])
BY DEF RunRow, RunTurns

\* One row of a run is written.
LEMMA OneRunTurns ==
  ASSUME TypeInv, NEW r \in Runs, NEW row, RunTurns(runs[r], row), runs' = [runs EXCEPT ![r] = row]
  PROVE  RunsTurn
<1>1. \A q \in Runs : runs'[q] = IF q = r THEN row ELSE runs[q]
  BY DEF TypeInv, TypeOK
<1>2. \A q \in Runs : RunTurns(runs[q], runs[q])
  BY DEF RunTurns
<1> QED
  BY <1>1, <1>2 DEF RunsTurn

LEMMA OneFrameTurns ==
  ASSUME TypeInv, NEW r \in Runs, NEW f \in Frames, NEW row, FrameTurns(frames[r][f], row),
         frames' = [frames EXCEPT ![r][f] = row]
  PROVE  FramesTurn
<1>1. \A q \in Runs, e \in Frames : frames'[q][e] = IF q = r /\ e = f THEN row ELSE frames[q][e]
  BY DEF TypeInv, TypeOK
<1>2. \A q \in Runs, e \in Frames : FrameTurns(frames[q][e], frames[q][e])
  BY DEF FrameTurns
<1> QED
  BY <1>1, <1>2 DEF FramesTurn

LEMMA SameRowsTurn ==
  /\ UNCHANGED runs => RunsTurn
  /\ UNCHANGED frames => FramesTurn
  /\ UNCHANGED jobs => JobsStay
BY DEF RunsTurn, RunTurns, FramesTurn, FrameTurns, JobsStay

\* Rows that turn are as current as they were, while the jobs stay.
LEMMA TurnKeepsWork ==
  ASSUME TypeInv, WorkInv, RunsTurn, FramesTurn, JobsStay
  PROVE  WorkInv' /\ SettledStands /\ NothingMade
<1>1. \A r \in Runs : runs[r].job \in Jobs
  BY DEF TypeInv, TypeOK, RunRow
<1>2. \A r \in Runs :
        /\ runs'[r].job = runs[r].job /\ runs'[r].trigger = runs[r].trigger
        /\ runs'[r].revision = runs[r].revision
        /\ runs'[r].status \in OpenRun => runs[r].status \in OpenRun
  BY DEF RunsTurn, RunTurns
<1>3. \A r \in Runs : (RunIsCurrent(r) => RunIsCurrent(r)') /\ (FrameIsCurrent(r) => FrameIsCurrent(r)')
  BY <1>1, <1>2 DEF JobsStay, RunIsCurrent, FrameIsCurrent
<1>4. \A r \in Runs, f \in Frames :
        /\ frames'[r][f].status \in OpenFrame => frames[r][f].status \in OpenFrame
        /\ frames[r][f].status \in FinalFrame => frames'[r][f].status \in FinalFrame
        /\ frames'[r][f].status = "none" <=> frames[r][f].status = "none"
        /\ frames'[r][f].status \in Begun => frames[r][f].status \in Begun
  BY DEF FramesTurn, FrameTurns, OpenFrame, FinalFrame
<1>5. WorkIsCurrent'
  BY <1>2, <1>3, <1>4 DEF WorkInv, WorkIsCurrent
<1>6. OneOpenRun'
  BY <1>2 DEF WorkInv, OneOpenRun
<1>7. FramesArePrefix' /\ BegunInOrder'
  BY <1>4 DEF WorkInv, FramesArePrefix, BegunInOrder
<1> QED
  BY <1>5, <1>6, <1>7, TurnStands DEF WorkInv

-----------------------------------------------------------------------------
(* The owner *)

LEMMA CreateKeepsWork ==
  ASSUME TypeInv, WorkInv, NEW j \in Jobs, NEW d \in Definitions, Create(j, d)
  PROVE  WorkInv' /\ SettledStands /\ NothingMade
<1>1. jobs[j].status = "none" /\ UNCHANGED <<runs, frames>>
  BY DEF Create
<1>2. \A i \in Jobs : i # j => jobs'[i] = jobs[i]
  BY DEF Create, TypeInv, TypeOK
<1>3. \A r \in Runs : (RunIsCurrent(r) => RunIsCurrent(r)') /\ (FrameIsCurrent(r) => FrameIsCurrent(r)')
  <2>1. \A r \in Runs : runs[r].job \in Jobs
    BY DEF TypeInv, TypeOK, RunRow
  <2> QED
    BY <1>1, <1>2, <2>1 DEF RunIsCurrent, FrameIsCurrent
<1>4. WorkIsCurrent'
  BY <1>1, <1>3 DEF WorkInv, WorkIsCurrent
<1> QED
  BY <1>1, <1>4, SameRowsTurn, TurnStands DEF WorkInv, OneOpenRun, FramesArePrefix, BegunInOrder

\* After an edit nothing of the job is open.
LEMMA EditKeepsWork ==
  ASSUME TypeInv, RowsInv, WorkInv, NEW j \in Jobs, NEW from, Edit(j, from),
         \A i \in Jobs : i # j => jobs'[i] = jobs[i]
  PROVE  WorkInv' /\ SettledStands /\ NothingMade
<1>1. InvalidateStaleWork(j) /\ NotSending(j)
  BY DEF Edit
<1>2. /\ \A r \in Runs : runs[r] \in RunRow
      /\ \A r \in Runs, f \in Frames : frames[r][f] \in FrameRow
  BY DEF TypeInv, TypeOK
<1>3. \A r \in Runs :
        runs'[r] = IF r \in RunsOf(j) /\ runs[r].status \in OpenRun
                   THEN [runs[r] EXCEPT !.status = "invalidated"] ELSE runs[r]
  BY <1>1 DEF InvalidateStaleWork
<1>4. \A r \in Runs, f \in Frames :
        frames'[r][f] = IF r \in RunsOf(j) /\ frames[r][f].status \in OpenFrame \ {"sending"}
                        THEN [frames[r][f] EXCEPT !.status = "suppressed"] ELSE frames[r][f]
  BY <1>1 DEF InvalidateStaleWork
<1>5. RunsTurn
  <2>1. \A row \in RunRow :
          row.status \in OpenRun => RunTurns(row, [row EXCEPT !.status = "invalidated"])
    BY DEF RunRow, RunTurns, FinalRun
  <2>2. \A row \in RunRow : RunTurns(row, row)
    BY DEF RunTurns
  <2> QED
    BY <1>2, <1>3, <2>1, <2>2 DEF RunsTurn
<1>6. FramesTurn
  <2>1. \A row \in FrameRow :
          row.status \in OpenFrame => FrameTurns(row, [row EXCEPT !.status = "suppressed"])
    BY DEF FrameRow, FrameTurns, FinalFrame, Begun
  <2>2. \A row \in FrameRow : FrameTurns(row, row)
    BY DEF FrameTurns
  <2> QED
    BY <1>2, <1>4, <2>1, <2>2 DEF FramesTurn
<1>7. \A r \in Runs : runs[r].job = j => runs'[r].status \notin OpenRun
  <2>1. \A row \in RunRow : [row EXCEPT !.status = "invalidated"].status = "invalidated"
    BY DEF RunRow
  <2> QED
    BY <1>2, <1>3, <2>1 DEF RunsOf, OpenRun
<1>8. \A r \in Runs, f \in Frames : runs[r].job = j => frames'[r][f].status \notin OpenFrame
  <2>1. \A row \in FrameRow : [row EXCEPT !.status = "suppressed"].status = "suppressed"
    BY DEF FrameRow
  <2>2. \A r \in Runs, f \in Frames : runs[r].status = "none" => frames[r][f].status = "none"
    BY DEF RowsInv, FramesFollowRuns, Unended
  <2> SUFFICES ASSUME NEW r \in Runs, NEW f \in Frames, runs[r].job = j
               PROVE  frames'[r][f].status \notin OpenFrame
    OBVIOUS
  <2>3. CASE runs[r].status = "none"
    BY <1>4, <2>2, <2>3 DEF RunsOf, OpenFrame
  <2>4. CASE runs[r].status # "none"
    <3>1. r \in RunsOf(j) /\ frames[r][f].status # "sending"
      BY <1>1, <2>4 DEF RunsOf, NotSending
    <3>2. CASE frames[r][f].status \in OpenFrame
      BY <1>2, <1>4, <2>1, <3>1, <3>2 DEF OpenFrame
    <3>3. CASE frames[r][f].status \notin OpenFrame
      BY <1>4, <3>3
    <3> QED
      BY <3>2, <3>3
  <2> QED
    BY <2>3, <2>4
<1>9. \A r \in Runs :
        /\ runs[r].job \in Jobs /\ runs'[r].job = runs[r].job /\ runs'[r].trigger = runs[r].trigger
        /\ runs'[r].revision = runs[r].revision
        /\ runs'[r].status \in OpenRun => runs[r].status \in OpenRun
  BY <1>2, <1>5 DEF RunsTurn, RunTurns, RunRow
<1>10. \A r \in Runs, f \in Frames :
        /\ frames'[r][f].status \in OpenFrame => frames[r][f].status \in OpenFrame
        /\ frames[r][f].status \in FinalFrame => frames'[r][f].status \in FinalFrame
        /\ frames'[r][f].status = "none" <=> frames[r][f].status = "none"
        /\ frames'[r][f].status \in Begun => frames[r][f].status \in Begun
  BY <1>6 DEF FramesTurn, FrameTurns, OpenFrame, FinalFrame
<1>11. \A r \in Runs : runs[r].job # j =>
         (RunIsCurrent(r) => RunIsCurrent(r)') /\ (FrameIsCurrent(r) => FrameIsCurrent(r)')
  BY <1>9 DEF RunIsCurrent, FrameIsCurrent
<1>12. WorkIsCurrent'
  BY <1>7, <1>8, <1>9, <1>10, <1>11 DEF WorkInv, WorkIsCurrent
<1>13. OneOpenRun'
  BY <1>9 DEF WorkInv, OneOpenRun
<1>14. FramesArePrefix' /\ BegunInOrder'
  BY <1>10 DEF WorkInv, FramesArePrefix, BegunInOrder
<1> QED
  BY <1>5, <1>6, <1>12, <1>13, <1>14, TurnStands DEF WorkInv

\* A job that is not busy gets a run of its present, or its last, revision.
LEMMA NewRunKeepsWork ==
  ASSUME TypeInv, RowsInv, WorkInv, made < MaxRuns, UNCHANGED frames, NEW j \in Jobs, ~Busy(j),
         NEW row \in RunRow, row.job = j, row.status \in OpenRun,
         runs' = [runs EXCEPT ![made + 1] = row],
         \A i \in Jobs :
           i # j => jobs'[i].status = jobs[i].status /\ jobs'[i].revision = jobs[i].revision,
         row.revision = jobs'[j].revision,
         jobs'[j].status = "active" \/ (jobs'[j].status = "ended" /\ row.trigger = "lifecycle")
  PROVE  WorkInv' /\ SettledStands
<1>0. made + 1 \in Runs /\ runs[made + 1].status = "none"
  <2>1. MaxRuns \in Nat /\ made \in 0..MaxRuns
    BY CronAssumption DEF TypeInv, TypeOK
  <2>2. made + 1 \in Runs /\ made + 1 > made
    BY <2>1 DEF Runs
  <2> QED
    BY <2>2 DEF RowsInv, Unmade
<1>1. PICK n \in Runs : n = made + 1 /\ runs[n].status = "none"
  BY <1>0
<1>2. runs'[n] = row /\ \A r \in Runs : r # n => runs'[r] = runs[r]
  BY <1>1 DEF TypeInv, TypeOK
<1>3. \A f \in Frames : frames[n][f].status = "none"
  BY <1>1 DEF RowsInv, FramesFollowRuns, Unended
<1>4. \A r \in Runs : runs[r].job = j =>
        runs[r].status \notin OpenRun /\ \A f \in Frames : frames[r][f].status \notin OpenFrame
  <2>1. \A r \in Runs, f \in Frames : runs[r].status = "none" => frames[r][f].status \notin OpenFrame
    BY DEF RowsInv, FramesFollowRuns, Unended, OpenFrame
  <2>2. \A r \in Runs : runs[r].status = "none" => runs[r].status \notin OpenRun
    BY DEF OpenRun
  <2> QED
    BY <2>1, <2>2 DEF Busy, RunsOf
<1>5. \A r \in Runs : r # n /\ runs[r].job # j =>
        (RunIsCurrent(r) => RunIsCurrent(r)') /\ (FrameIsCurrent(r) => FrameIsCurrent(r)')
  <2>1. \A r \in Runs : runs[r].job \in Jobs
    BY DEF TypeInv, TypeOK, RunRow
  <2> QED
    BY <1>2, <2>1 DEF RunIsCurrent, FrameIsCurrent
<1>6. RunIsCurrent(n)'
  BY <1>2 DEF RunIsCurrent
<1>7. WorkIsCurrent'
  <2> SUFFICES ASSUME NEW r \in Runs
               PROVE  /\ runs'[r].status \in OpenRun => RunIsCurrent(r)'
                      /\ \A f \in Frames : frames[r][f].status \in OpenFrame => FrameIsCurrent(r)'
    BY DEF WorkIsCurrent
  <2>1. CASE r = n
    BY <1>3, <1>6, <2>1 DEF OpenFrame
  <2>2. CASE r # n /\ runs[r].job = j
    BY <1>2, <1>4, <2>2
  <2>3. CASE r # n /\ runs[r].job # j
    BY <1>2, <1>5, <2>3 DEF WorkInv, WorkIsCurrent
  <2> QED
    BY <2>1, <2>2, <2>3
<1>8. OneOpenRun'
  BY <1>2, <1>4 DEF WorkInv, OneOpenRun
<1>9. SettledStands
  BY <1>1, <1>2 DEF SettledStands, FinalRun
<1> QED
  BY <1>7, <1>8, <1>9 DEF WorkInv, FramesArePrefix, BegunInOrder

\* The end of a run is that of the only open one of its job, which may end with it.
LEMMA RunEndKeepsWork ==
  ASSUME TypeInv, RowsInv, WorkInv, NEW r \in Runs, runs[r].status \in OpenRun,
         NEW row, RunTurns(runs[r], row), row.status \in FinalRun,
         runs' = [runs EXCEPT ![r] = row],
         NEW fs, NEW n \in Int, frames' = [frames EXCEPT ![r] = fs],
         FirstFrames(r, fs, n), MayEnd(runs[r].job)
  PROVE  WorkInv' /\ SettledStands /\ NothingMade
<1>0. /\ \A f \in Frames : fs[f] = IF f < n THEN NewFrame ELSE frames[r][f]
      /\ \A i \in Jobs : /\ jobs'[i].revision = jobs[i].revision
                         /\ \/ jobs'[i].status = jobs[i].status
                            \/ i = runs[r].job /\ jobs'[i].status = "ended"
  BY DEF FirstFrames, MayEnd
<1>1. runs'[r] = row /\ \A q \in Runs : q # r => runs'[q] = runs[q] /\ frames'[q] = frames[q]
  BY DEF TypeInv, TypeOK
<1>2. frames'[r] = fs /\ \A f \in Frames : frames[r][f].status = "none"
  BY DEF TypeInv, TypeOK, RowsInv, FramesFollowRuns, Unended
<1>3. \A f \in Frames : \/ f < n /\ frames'[r][f].status = "pending"
                        \/ ~(f < n) /\ frames'[r][f].status = "none"
  <2>1. NewFrame.status = "pending" /\ Frames \subseteq Int
    BY DEF NewFrame, NoFrameRow, Frames
  <2>2. TAKE f \in Frames
  <2>3. f \in Int
    BY <2>1
  <2>4. CASE f < n
    BY <1>0, <1>2, <2>1, <2>4
  <2>5. CASE ~(f < n)
    BY <1>0, <1>2, <2>5
  <2> QED
    BY <2>4, <2>5
<1>4. row.status \notin OpenRun /\ row.job = runs[r].job /\ row.revision = runs[r].revision
  BY DEF RunTurns, OpenRun, FinalRun
<1>5. RunIsCurrent(r) /\ runs[r].job \in Jobs
  BY DEF WorkInv, WorkIsCurrent, TypeInv, TypeOK, RunRow
<1>6. FrameIsCurrent(r)'
  BY <1>0, <1>1, <1>4, <1>5 DEF RunIsCurrent, FrameIsCurrent
<1>7. \A q \in Runs : q # r /\ runs[q].status \in OpenRun => runs[q].job # runs[r].job
  BY DEF WorkInv, OneOpenRun
<1>8. \A q \in Runs : q # r =>
        /\ FrameIsCurrent(q) => FrameIsCurrent(q)'
        /\ runs[q].status \in OpenRun /\ RunIsCurrent(q) => RunIsCurrent(q)'
  <2>1. \A q \in Runs : runs[q].job \in Jobs
    BY DEF TypeInv, TypeOK, RunRow
  <2> QED
    BY <1>0, <1>1, <1>7, <2>1 DEF RunIsCurrent, FrameIsCurrent
<1>9. WorkIsCurrent'
  BY <1>1, <1>4, <1>6, <1>8 DEF WorkInv, WorkIsCurrent
<1>10. OneOpenRun'
  BY <1>1, <1>4 DEF WorkInv, OneOpenRun
<1>11. Frames \subseteq Int
  BY DEF Frames
<1>12. FramesArePrefix'
  <2>1. \A e, f \in Frames : e < f /\ frames'[r][f].status # "none" => frames'[r][e].status # "none"
    BY <1>3, <1>11
  <2> QED
    BY <1>1, <2>1 DEF WorkInv, FramesArePrefix
<1>13. BegunInOrder'
  <2>1. \A f \in Frames : frames'[r][f].status \notin Begun
    BY <1>3 DEF Begun
  <2> QED
    BY <1>1, <2>1 DEF WorkInv, BegunInOrder
<1>14. SettledStands /\ NothingMade
  <2>1. runs[r].status \notin FinalRun /\ runs[r].status # "none"
    BY DEF OpenRun, FinalRun
  <2> QED
    BY <1>1, <1>2, <2>1 DEF SettledStands, NothingMade, FinalFrame
<1> QED
  BY <1>9, <1>10, <1>12, <1>13, <1>14 DEF WorkInv

LEMMA OwnerKeepsWork ==
  ASSUME TypeInv, RowsInv, WorkInv, Owner
  PROVE  WorkInv' /\ SettledStands /\ (NothingMade \/ \E j \in Jobs : RunNow(j))
<1>1. ASSUME NEW j \in Jobs, Pause(j) \/ Resume(j) \/ Delete(j) \/ \E d \in Definitions : Update(j, d)
      PROVE  WorkInv' /\ SettledStands /\ NothingMade
  <2>1. \E from : Edit(j, from)
    BY Zenon, <1>1 DEF Pause, Resume, Delete, Update
  <2>2. \E row : jobs' = [jobs EXCEPT ![j] = row]
    BY Zenon, <1>1 DEF Pause, Resume, Delete, Update
  <2>3. \A i \in Jobs : i # j => jobs'[i] = jobs[i]
    BY <2>2 DEF TypeInv, TypeOK
  <2> QED
    BY <2>1, <2>3, EditKeepsWork
<1>2. ASSUME NEW j \in Jobs, RunNow(j)
      PROVE  WorkInv' /\ SettledStands
  <2> DEFINE row == NewRun(j, clock, "manual", jobs[j].revision)
  <2>1. row \in RunRow
    BY NewRunType DEF TypeInv, TypeOK, JobRow
  <2>2. row.job = j /\ row.status \in OpenRun /\ row.revision = jobs[j].revision
    BY DEF NewRun, NoRunRow, OpenRun
  <2> HIDE DEF row
  <2>3. /\ runs' = [runs EXCEPT ![made + 1] = row]
        /\ made < MaxRuns /\ UNCHANGED <<jobs, frames>> /\ ~Busy(j)
        /\ jobs[j].status = "active"
    BY <1>2 DEF RunNow, row
  <2> QED
    BY <2>1, <2>2, <2>3, NewRunKeepsWork
<1> QED
  BY <1>1, <1>2, CreateKeepsWork DEF Owner

-----------------------------------------------------------------------------
(* The lanes *)

LEMMA RedactedStays ==
  ASSUME TypeInv, NEW i \in Jobs, NEW b
  PROVE  /\ [jobs[i] EXCEPT !.redacted = b].status = jobs[i].status
         /\ [jobs[i] EXCEPT !.redacted = b].revision = jobs[i].revision
BY DEF TypeInv, TypeOK, JobRow

LEMMA RecoverKeepsWork ==
  ASSUME TypeInv, WorkInv, NEW l \in Lanes, Recover(l)
  PROVE  WorkInv' /\ SettledStands /\ NothingMade
<1> DEFINE recovered == [r \in Runs |-> [f \in Frames |-> RecoveredFrame(frames[r][f])]]
           uncertain == {r \in Runs : \E f \in Frames :
                           recovered[r][f].status # frames[r][f].status
                           /\ recovered[r][f].status = "unknown"}
           paced == [r \in Runs |-> IF r \in uncertain THEN Paced(recovered, r) ELSE recovered[r]]
<1>1. recovered \in [Runs -> [Frames -> FrameRow]]
  BY RecoveredFrameType DEF TypeInv, TypeOK
<1>2. \A r \in Runs, f \in Frames :
        paced[r][f] \in FrameRow /\ paced[r][f].status = recovered[r][f].status
  <2> SUFFICES ASSUME NEW r \in Runs, NEW f \in Frames
               PROVE  /\ Paced(recovered, r)[f] \in FrameRow
                      /\ Paced(recovered, r)[f].status = recovered[r][f].status
    BY <1>1
  <2> HIDE DEF recovered
  <2> QED
    BY <1>1, PacedKeeps
<1>3. \A r \in Runs, f \in Frames : frames'[r][f].status = recovered[r][f].status
  <2>1. frames' = [r \in Runs |-> [f \in Frames |->
                     [paced[r][f] EXCEPT !.expired = @ /\ paced[r][f].status = frames[r][f].status]]]
    BY DEF Recover
  <2>2. \A row \in FrameRow : \A b : [row EXCEPT !.expired = b].status = row.status
    BY DEF FrameRow
  <2> HIDE DEF paced, recovered
  <2>3. TAKE r \in Runs, f \in Frames
  <2>4. frames'[r][f] = [paced[r][f] EXCEPT !.expired = @ /\ paced[r][f].status = frames[r][f].status]
    BY <2>1
  <2> QED
    BY <1>2, <2>2, <2>4
<1>4. FramesTurn
  <2>1. \A row \in FrameRow :
          \/ RecoveredFrame(row).status = row.status
          \/ row.status = "leased" /\ RecoveredFrame(row).status = "pending"
          \/ row.status = "sending" /\ RecoveredFrame(row).status = "unknown"
    BY DEF RecoveredFrame, FrameRow
  <2>2. SUFFICES ASSUME NEW r \in Runs, NEW f \in Frames
                 PROVE  FrameTurns(frames[r][f], frames'[r][f])
    BY DEF FramesTurn
  <2>3. frames[r][f] \in FrameRow /\ frames'[r][f].status = RecoveredFrame(frames[r][f]).status
    BY <1>3 DEF TypeInv, TypeOK
  <2> QED
    BY <2>1, <2>3 DEF FrameTurns, OpenFrame, FinalFrame, Begun
<1>5. RunsTurn
  <2>1. \A row \in RunRow : RunTurns(row, RecoveredRun(row))
    BY SMTT(60) DEF RecoveredRun, RunRow, RunTurns, OpenRun
  <2>2. runs' = [r \in Runs |-> RecoveredRun(runs[r])] /\ runs \in [Runs -> RunRow]
    BY Zenon DEF Recover, TypeInv, TypeOK
  <2> QED
    BY <2>1, <2>2 DEF RunsTurn
<1>6. JobsStay
  <2>1. \A i \in Jobs :
          \/ jobs'[i] = jobs[i]
          \/ jobs'[i] = [jobs[i] EXCEPT !.redacted = @ \/ Redactable(i, jobs[i].status, frames')]
    BY Zenon DEF Recover
  <2> SUFFICES ASSUME NEW i \in Jobs
               PROVE  jobs'[i].status = jobs[i].status /\ jobs'[i].revision = jobs[i].revision
    BY DEF JobsStay
  <2> DEFINE b == jobs[i].redacted \/ Redactable(i, jobs[i].status, frames')
  <2>2. jobs'[i] = jobs[i] \/ jobs'[i] = [jobs[i] EXCEPT !.redacted = b]
    BY <2>1
  <2> HIDE DEF b
  <2> QED
    BY Zenon, <2>2, RedactedStays
<1> QED
  BY <1>4, <1>5, <1>6, TurnKeepsWork

\* Looking at the jobs changes only what they have caught up with.
LEMMA LookedOverStays ==
  ASSUME TypeInv, NEW i \in Jobs
  PROVE  LookedOver(i).status = jobs[i].status /\ LookedOver(i).revision = jobs[i].revision
<1>1. jobs[i] \in JobRow
  BY DEF TypeInv, TypeOK
<1>2. \A row \in JobRow : /\ [row EXCEPT !.pausedAt = NoTime].status = row.status
                          /\ [row EXCEPT !.pausedAt = NoTime].revision = row.revision
  BY DEF JobRow
<1>3. LookedOver(i) \in {jobs[i], [jobs[i] EXCEPT !.pausedAt = NoTime]}
  BY DEF LookedOver
<1> QED
  BY <1>1, <1>2, <1>3

LEMMA StopsAtLooked ==
  ASSUME NEW j \in Jobs, j = StopsAt
  PROVE  j \in Looked
<1>1. j # NoTime
  BY CronAssumption DEF NoTime
<1> QED
  BY <1>1, EarliestIsElement DEF StopsAt

LEMMA ClaimDueRunKeepsWork ==
  ASSUME TypeInv, RowsInv, WorkInv, NEW l \in Lanes, ClaimDueRun(l)
  PROVE  WorkInv' /\ SettledStands /\ (NothingMade \/ ClaimOccurrence(l))
<1>1. UNCHANGED frames /\ FramesTurn
  BY SameRowsTurn DEF ClaimDueRun
<1>2. \A row \in RunRow : [row EXCEPT !.status = "leased", !.expired = FALSE, !.holder = l] \in RunRow
  BY DEF RunRow, OpenRun
<1>3. CASE ClaimWaitingRun(l)
  <2>1. UNCHANGED jobs
    BY <1>3 DEF ClaimWaitingRun, TickFails
  <2>2. PICK r \in DueRuns : Claim(l, r, runs[r]) \/ UNCHANGED runs
    BY <1>3 DEF ClaimWaitingRun, TickFails
  <2>3. r \in Runs /\ runs[r] \in RunRow /\ runs[r].status \in OpenRun
    BY DEF DueRuns, OpenRun, TypeInv, TypeOK
  <2>4. RunTurns(runs[r], [runs[r] EXCEPT !.status = "leased", !.expired = FALSE, !.holder = l])
    BY <2>3 DEF RunRow, RunTurns, OpenRun
  <2>5. RunsTurn
    BY <2>2, <2>3, <2>4, OneRunTurns, SameRowsTurn DEF Claim
  <2> QED
    BY <1>1, <2>1, <2>5, SameRowsTurn, TurnKeepsWork
<1>4. CASE ClaimOccurrence(l)
  <2>1. PICK j \in Jobs :
          /\ j = StopsAt /\ ~LookRaises(j)
          /\ MakeRun(l, j, TriggerOf(j), IF TriggerOf(j) = "lifecycle" THEN clock ELSE Owed(j))
    BY <1>4 DEF ClaimOccurrence
  <2> DEFINE trigger == TriggerOf(j)
             due == IF trigger = "lifecycle" THEN clock ELSE Owed(j)
             revision == jobs[j].revision + (IF trigger = "lifecycle" THEN 1 ELSE 0)
             row == NewRun(j, due, trigger, revision)
             claimed == [row EXCEPT !.status = "leased", !.expired = FALSE, !.holder = l]
  <2>2. trigger \in {"schedule", "catchup", "lifecycle"} /\ (trigger # "lifecycle" => Owed(j) # NoTime)
    BY DEF TriggerOf
  <2>3. due \in Time
    <3>1. Owed(j) \in When /\ clock \in Time
      BY <2>1, OwedType DEF TypeInv, TypeOK
    <3> QED
      BY <2>2, <3>1 DEF When
  <2>4. jobs[j] \in JobRow /\ jobs[j].revision \in Nat /\ revision \in Nat
    <3>1. jobs[j] \in JobRow /\ jobs[j].revision \in Nat
      BY DEF TypeInv, TypeOK, JobRow
    <3> QED
      BY <3>1
  <2>5. /\ made < MaxRuns /\ Claim(l, made + 1, row)
        /\ jobs' = [i \in Jobs |->
                IF i = j
                THEN [jobs[i] EXCEPT !.status = IF trigger = "lifecycle" THEN "ended" ELSE @,
                                     !.revision = revision,
                                     !.pausedAt = IF trigger = "catchup" THEN NoTime ELSE @,
                                     !.lastDue = IF Advances(trigger) THEN due ELSE @]
                ELSE IF i < j THEN LookedOver(i) ELSE jobs[i]]
    BY ZenonT(60), <1>4, <2>1 DEF ClaimOccurrence, MakeRun
  <2> HIDE DEF due, revision, trigger
  <2>6. row \in RunRow /\ row.job = j /\ row.trigger = trigger /\ row.revision = revision
    BY ZenonT(60), <2>2, <2>3, <2>4, NewRunType DEF NewRun, NoRunRow
  <2> HIDE DEF row
  <2>7. /\ claimed \in RunRow /\ claimed.job = j /\ claimed.trigger = trigger
        /\ claimed.revision = revision /\ claimed.status \in OpenRun
    BY Zenon, <1>2, <2>6 DEF RunRow, OpenRun
  <2>8. runs' = [runs EXCEPT ![made + 1] = claimed]
    BY Zenon, <2>5 DEF Claim
  <2> HIDE DEF claimed
  <2>9. jobs[j].status = "active" /\ ~Busy(j)
    <3>1. j \in Looked
      BY <2>1, StopsAtLooked
    <3> QED
      BY <3>1 DEF Looked
  <2>10. /\ jobs'[j].revision = revision
         /\ jobs'[j].status = IF trigger = "lifecycle" THEN "ended" ELSE "active"
    BY Zenon, <2>4, <2>5, <2>9 DEF JobRow
  <2>11. \A i \in Jobs :
           i # j => jobs'[i].status = jobs[i].status /\ jobs'[i].revision = jobs[i].revision
    BY Zenon, <2>5, LookedOverStays
  <2>12. /\ claimed.revision = jobs'[j].revision
         /\ \/ jobs'[j].status = "active"
            \/ jobs'[j].status = "ended" /\ claimed.trigger = "lifecycle"
    BY <2>7, <2>10
  <2>13. made < MaxRuns /\ UNCHANGED frames
    BY Zenon, <1>1, <2>5
  <2> QED
    BY <2>7, <2>8, <2>9, <2>11, <2>12, <2>13, <1>4, NewRunKeepsWork
<1>5. CASE ClaimNothing(l)
  <2>1. UNCHANGED runs /\ (UNCHANGED jobs \/ jobs' = [j \in Jobs |-> LookedOver(j)])
    BY <1>5 DEF ClaimNothing, TickFails
  <2>2. JobsStay
    BY <2>1, LookedOverStays, SameRowsTurn DEF JobsStay
  <2> QED
    BY <1>1, <2>1, <2>2, SameRowsTurn, TurnKeepsWork
<1> QED
  BY <1>3, <1>4, <1>5 DEF ClaimDueRun

-----------------------------------------------------------------------------
(* Executing *)

LEMMA JobEndsOrStays ==
  ASSUME TypeInv, NEW j \in Jobs, NEW m, NEW status \in {jobs[j].status, "ended"},
         \/ jobs' = [jobs EXCEPT ![j] = [jobs[j] EXCEPT !.successes = m, !.status = status]]
         \/ jobs' = [jobs EXCEPT ![j] = [jobs[j] EXCEPT !.status = status]]
  PROVE  MayEnd(j)
<1>1. jobs \in [Jobs -> JobRow]
  BY DEF TypeInv, TypeOK
<1>2. \A i \in Jobs : i # j => jobs'[i] = jobs[i]
  BY <1>1
<1>3. /\ [jobs[j] EXCEPT !.successes = m, !.status = status].status = status
      /\ [jobs[j] EXCEPT !.successes = m, !.status = status].revision = jobs[j].revision
      /\ [jobs[j] EXCEPT !.status = status].status = status
      /\ [jobs[j] EXCEPT !.status = status].revision = jobs[j].revision
  BY <1>1 DEF JobRow
<1>4. jobs'[j].status = status /\ jobs'[j].revision = jobs[j].revision
  BY Zenon, <1>1, <1>3
<1> QED
  BY <1>2, <1>4 DEF MayEnd

LEMMA ExecuteKeepsWork ==
  ASSUME TypeInv, RowsInv, WorkInv, NEW l \in Lanes, Execute(l)
  PROVE  WorkInv' /\ SettledStands /\ NothingMade
<1> DEFINE r == lanes[l].run
           j == runs[r].job
<1>1. r \in Runs
  BY Zenon DEF Execute, BeginRun, RenewLease, HeartbeatFails, CompleteRun, ResultIsDropped, FailRun,
         DeferRun, TypeInv, LanesHold
<1>2. runs[r] \in RunRow /\ j \in Jobs /\ jobs[j] \in JobRow
  BY <1>1 DEF TypeInv, TypeOK, RunRow
<1>3. HoldsRun(l) => runs[r].status \in OpenRun
  BY DEF HoldsRun, OpenRun
<1>4. ASSUME HoldsRun(l), NEW row, RunTurns(runs[r], row), runs' = [runs EXCEPT ![r] = row],
             UNCHANGED <<jobs, frames>>
      PROVE  WorkInv' /\ SettledStands /\ NothingMade
  BY <1>1, <1>3, <1>4, OneRunTurns, SameRowsTurn, TurnKeepsWork
<1>5. ASSUME UNCHANGED <<jobs, runs, frames>>
      PROVE  WorkInv' /\ SettledStands /\ NothingMade
  BY <1>5, SameRowsTurn, TurnKeepsWork
<1>6. CASE BeginRun(l)
  <2>1. UNCHANGED <<jobs, frames>>
    BY <1>6 DEF BeginRun
  <2>2. CASE HoldsRun(l) /\ runs[r].status = "leased"
    <3>1. runs' = [runs EXCEPT ![r] = [runs[r] EXCEPT !.status = "executing", !.expired = FALSE]]
      BY <1>6, <2>2 DEF BeginRun
    <3>2. RunTurns(runs[r], [runs[r] EXCEPT !.status = "executing", !.expired = FALSE])
      BY <1>2, <2>2 DEF RunRow, RunTurns, OpenRun
    <3> QED
      BY <1>4, <2>1, <2>2, <3>1, <3>2
  <2>3. CASE ~(HoldsRun(l) /\ runs[r].status = "leased")
    BY <1>5, <1>6, <2>1, <2>3 DEF BeginRun
  <2> QED
    BY <2>2, <2>3
<1>7. CASE RenewLease(l)
  <2>1. UNCHANGED <<jobs, frames>>
    BY <1>7 DEF RenewLease
  <2>2. CASE HoldsRun(l)
    <3>1. runs' = [runs EXCEPT ![r] = [runs[r] EXCEPT !.expired = FALSE]]
      BY <1>7, <2>2 DEF RenewLease
    <3>2. RunTurns(runs[r], [runs[r] EXCEPT !.expired = FALSE])
      BY <1>2 DEF RunRow, RunTurns
    <3> QED
      BY <1>4, <2>1, <2>2, <3>1, <3>2
  <2>3. CASE ~HoldsRun(l)
    BY <1>5, <1>7, <2>1, <2>3 DEF RenewLease
  <2> QED
    BY <2>2, <2>3
<1>8. CASE HeartbeatFails(l) \/ ResultIsDropped(l)
  BY <1>5, <1>8 DEF HeartbeatFails, ResultIsDropped
<1>9. CASE \E success \in BOOLEAN, n \in 1..MaxFrames : CompleteRun(l, success, n)
  <2>1. PICK success \in BOOLEAN, n \in 1..MaxFrames : CompleteRun(l, success, n)
    BY <1>9
  <2> DEFINE row == [runs[r] EXCEPT !.status = "succeeded"]
             fs == [f \in Frames |-> IF f < n THEN NewFrame ELSE frames[r][f]]
             successes == jobs[j].successes + (IF success THEN 1 ELSE 0)
             over == LastRun(r) \/ (jobs[j].def.max # 0 /\ successes >= jobs[j].def.max)
             status == IF over THEN "ended" ELSE jobs[j].status
  <2>2. HoldsRun(l) /\ n \in Int
    BY <2>1 DEF CompleteRun
  <2>3. RunTurns(runs[r], row) /\ row.status \in FinalRun
    BY SMTT(60), <1>2, <1>3, <2>2 DEF RunRow, RunTurns, FinalRun
  <2>4. runs' = [runs EXCEPT ![r] = row] /\ frames' = [frames EXCEPT ![r] = fs]
    BY <1>1, <2>1 DEF CompleteRun, TypeInv, TypeOK
  <2>5. FirstFrames(r, fs, n)
    BY SMTT(60) DEF FirstFrames
  <2>6. jobs' = [jobs EXCEPT ![j] = [jobs[j] EXCEPT !.successes = successes, !.status = status]]
    BY <2>1 DEF CompleteRun
  <2>7. status \in {jobs[j].status, "ended"}
    BY SMTT(60)
  <2> HIDE DEF row, fs, successes, over, status
  <2>8. MayEnd(j)
    BY Zenon, <1>2, <2>6, <2>7, JobEndsOrStays
  <2> QED
    BY <1>1, <1>3, <2>2, <2>3, <2>4, <2>5, <2>8, RunEndKeepsWork
<1>10. CASE FailRun(l)
  <2>1. HoldsRun(l)
    BY Zenon, <1>10 DEF FailRun
  <2>2. CASE ~Exhausted(r)
    <3> DEFINE row == [runs[r] EXCEPT !.attempts = @ + 1, !.status = "retry_wait", !.ready = FALSE]
    <3>1. RunTurns(runs[r], row)
      BY <1>2, <1>3, <2>1 DEF RunRow, RunTurns, OpenRun
    <3>2. runs' = [runs EXCEPT ![r] = row] /\ UNCHANGED <<jobs, frames>>
      BY Zenon, <1>10, <2>2 DEF FailRun
    <3> HIDE DEF row
    <3> QED
      BY Zenon, <1>4, <2>1, <3>1, <3>2
  <2>3. CASE Exhausted(r) /\ ~CompletionRaises(r)
    <3> DEFINE row == [runs[r] EXCEPT !.attempts = @ + 1, !.status = "failed"]
               fs == [frames[r] EXCEPT ![0] = NewFrame]
    <3>1. RunTurns(runs[r], row) /\ row.status \in FinalRun
      BY <1>2, <1>3, <2>1 DEF RunRow, RunTurns, FinalRun
    <3>2. runs' = [runs EXCEPT ![r] = row] /\ frames' = [frames EXCEPT ![r] = fs]
      BY Zenon, <1>10, <2>3 DEF FailRun
    <3>3. FirstFrames(r, fs, 1)
      <4>1. frames[r] \in [Frames -> FrameRow]
        BY <1>1 DEF TypeInv, TypeOK
      <4>2. \A f \in Frames : f \in Int /\ (f < 1 <=> f = 0)
        BY SMTT(60) DEF Frames
      <4> QED
        BY <4>1, <4>2 DEF FirstFrames
    <3>4. PICK status \in {jobs[j].status, "ended"} :
            jobs' = [jobs EXCEPT ![j] = [jobs[j] EXCEPT !.status = status]]
      BY ZenonT(60), <1>10, <2>3 DEF FailRun
    <3>5. MayEnd(j)
      BY Zenon, <1>2, <3>4, JobEndsOrStays
    <3> HIDE DEF row, fs
    <3>6. runs[r].status \in OpenRun /\ \E n \in Int : FirstFrames(r, fs, n)
      BY <1>3, <2>1, <3>3
    <3> QED
      BY <1>1, <3>1, <3>2, <3>5, <3>6, RunEndKeepsWork
  <2>4. CASE Exhausted(r) /\ CompletionRaises(r)
    BY <1>5, <1>10, <2>4 DEF FailRun
  <2> QED
    BY SMTT(60), <2>2, <2>3, <2>4
<1>11. CASE DeferRun(l)
  <2> DEFINE row == [runs[r] EXCEPT !.status = "retry_wait", !.ready = FALSE]
  <2>1. HoldsRun(l) /\ runs' = [runs EXCEPT ![r] = row] /\ UNCHANGED <<jobs, frames>>
    BY <1>11 DEF DeferRun
  <2>2. RunTurns(runs[r], row)
    BY <1>2, <1>3, <2>1 DEF RunRow, RunTurns, OpenRun
  <2> HIDE DEF row
  <2> QED
    BY <1>4, <2>1, <2>2
<1> QED
  BY <1>6, <1>7, <1>8, <1>9, <1>10, <1>11 DEF Execute

-----------------------------------------------------------------------------
(* Sending *)

\* A frame is claimed when those before it are settled.
LEMMA ClaimDeliveryKeepsWork ==
  ASSUME TypeInv, WorkInv, NEW l \in Lanes, ClaimDelivery(l)
  PROVE  WorkInv' /\ SettledStands /\ NothingMade
<1>1. UNCHANGED <<jobs, runs>>
  BY Zenon DEF ClaimDelivery
<1>2. CASE \E r \in Runs, f \in Frames : Claimable(r, f)
  <2>1. PICK r \in Runs, f \in Frames :
          /\ Claimable(r, f)
          /\ frames' = [frames EXCEPT ![r][f] =
                          [frames[r][f] EXCEPT !.status = "leased", !.attempts = @ + 1,
                                               !.expired = FALSE, !.holder = l]]
    BY Zenon, <1>2 DEF ClaimDelivery
  <2>2. frames[r][f] \in FrameRow /\ frames \in [Runs -> [Frames -> FrameRow]]
    BY DEF TypeInv, TypeOK
  <2>3. [frames[r][f] EXCEPT !.status = "leased", !.attempts = @ + 1, !.expired = FALSE,
                             !.holder = l].status = "leased"
    BY <2>2 DEF FrameRow
  <2>4. /\ frames'[r][f].status = "leased"
        /\ \A q \in Runs, e \in Frames : <<q, e>> # <<r, f>> => frames'[q][e] = frames[q][e]
    BY <2>1, <2>2, <2>3
  <2>5. /\ frames[r][f].status \in {"pending", "retry_wait"}
        /\ \A e \in Frames : e < f => frames[r][e].status \notin OpenFrame
    BY <2>1 DEF Claimable, IsNext
  <2>6. \A e \in Frames : e < f => frames[r][e].status \in FinalFrame
    <3>1. \A e \in Frames : frames[r][e].status \in {"none"} \cup OpenFrame \cup FinalFrame
      BY DEF TypeInv, TypeOK, FrameRow
    <3> QED
      BY <2>5, <3>1 DEF WorkInv, FramesArePrefix
  <2>7. WorkIsCurrent'
    <3>1. \A q \in Runs, e \in Frames :
            frames'[q][e].status \in OpenFrame => frames[q][e].status \in OpenFrame
      BY <2>4, <2>5 DEF OpenFrame
    <3>2. \A q \in Runs : /\ RunIsCurrent(q) => RunIsCurrent(q)'
                          /\ FrameIsCurrent(q) => FrameIsCurrent(q)'
      BY <1>1 DEF RunIsCurrent, FrameIsCurrent
    <3> QED
      BY <1>1, <3>1, <3>2 DEF WorkInv, WorkIsCurrent
  <2>8. OneOpenRun'
    BY <1>1 DEF WorkInv, OneOpenRun
  <2>9. FramesArePrefix'
    <3>1. \A q \in Runs, e \in Frames :
            frames'[q][e].status = "none" <=> frames[q][e].status = "none"
      BY <2>4, <2>5
    <3> QED
      BY <3>1 DEF WorkInv, FramesArePrefix
  <2>10. BegunInOrder'
    <3> SUFFICES ASSUME NEW q \in Runs, NEW e \in Frames, NEW g \in Frames, e < g,
                        frames'[q][g].status \in Begun
                 PROVE  frames'[q][e].status \in FinalFrame
      BY DEF BegunInOrder
    <3>1. Frames \subseteq Int
      BY DEF Frames
    <3>2. CASE q = r /\ g = f
      <4>1. <<q, e>> # <<r, f>>
        BY <3>1, <3>2
      <4> QED
        BY <2>4, <2>6, <3>2, <4>1
    <3>3. CASE q = r /\ e = f
      <4>1. <<q, g>> # <<r, f>>
        BY <3>1, <3>3
      <4>2. frames[r][f].status \in FinalFrame
        BY <2>4, <3>3, <4>1 DEF WorkInv, BegunInOrder
      <4> QED
        BY <2>5, <4>2 DEF FinalFrame
    <3>4. CASE <<q, e>> # <<r, f>> /\ <<q, g>> # <<r, f>>
      BY <2>4, <3>4 DEF WorkInv, BegunInOrder
    <3> QED
      BY <3>2, <3>3, <3>4
  <2>11. SettledStands /\ NothingMade
    BY SMTT(60), <1>1, <2>4, <2>5 DEF SettledStands, NothingMade, FinalFrame
  <2> QED
    BY SMTT(60), <2>7, <2>8, <2>9, <2>10, <2>11 DEF WorkInv
<1>3. CASE ~\E r \in Runs, f \in Frames : Claimable(r, f)
  BY Zenon, <1>1, <1>3, SameRowsTurn, TurnKeepsWork DEF ClaimDelivery
<1> QED
  BY SMTT(60), <1>2, <1>3

\* A final status is for a frame that is being sent.
LEMMA FinishKeepsWork ==
  ASSUME TypeInv, WorkInv, NEW l \in Lanes, NEW status \in FinalFrame, Finish(l, status),
         lanes[l].pc \in {"sending", "accepted"}
  PROVE  WorkInv' /\ SettledStands /\ NothingMade
<1> DEFINE r == lanes[l].run
           f == lanes[l].frame
           settled == [frames EXCEPT ![r][f] = [@ EXCEPT !.status = status]]
<1>1. UNCHANGED runs /\ RunsTurn
  BY SameRowsTurn DEF Finish
<1>2. r \in Runs /\ f \in Frames /\ runs[r].job \in Jobs
  BY DEF TypeInv, TypeOK, LanesHold, Lane, RunRow
<1>3. CASE HoldsSend(l) /\ Settle(l, status)
  <2>1. frames' = [settled EXCEPT ![r] = Paced(settled, r)]
    BY <1>3 DEF Settle
  <2>2. frames \in [Runs -> [Frames -> FrameRow]] /\ frames[r][f].status = "sending"
    BY <1>3 DEF TypeInv, TypeOK, HoldsSend
  <2>3. /\ [frames[r][f] EXCEPT !.status = status] \in FrameRow
        /\ [frames[r][f] EXCEPT !.status = status].status = status
    <3>1. \A row \in FrameRow : /\ [row EXCEPT !.status = status] \in FrameRow
                                /\ [row EXCEPT !.status = status].status = status
      BY DEF FrameRow
    <3> QED
      BY <1>2, <2>2, <3>1
  <2>4. /\ settled \in [Runs -> [Frames -> FrameRow]]
        /\ settled[r][f].status = status
        /\ \A q \in Runs, e \in Frames : <<q, e>> # <<r, f>> => settled[q][e] = frames[q][e]
    BY <1>2, <2>2, <2>3
  <2> HIDE DEF settled
  <2>5. \A q \in Runs, e \in Frames : frames'[q][e].status = settled[q][e].status
    BY <1>2, <2>1, <2>4, PacedKeeps
  <2>6. FramesTurn
    <3>1. FrameTurns(frames[r][f], frames'[r][f])
      BY <1>2, <2>2, <2>4, <2>5 DEF FrameTurns, OpenFrame, Begun
    <3>2. \A q \in Runs, e \in Frames :
            <<q, e>> # <<r, f>> => FrameTurns(frames[q][e], frames'[q][e])
      BY <2>4, <2>5 DEF FrameTurns
    <3> QED
      BY <1>2, <3>1, <3>2 DEF FramesTurn
  <2>7. JobsStay
    <3> DEFINE j == runs[r].job
               b == jobs[j].redacted \/ Redactable(j, jobs[j].status, frames')
    <3>1. jobs' = [jobs EXCEPT ![j] = [jobs[j] EXCEPT !.redacted = b]]
      BY Zenon, <1>3 DEF Settle, Redacted
    <3> HIDE DEF b
    <3>2. /\ jobs'[j] = [jobs[j] EXCEPT !.redacted = b]
          /\ \A i \in Jobs : i # j => jobs'[i] = jobs[i]
      BY <1>2, <3>1 DEF TypeInv, TypeOK
    <3>3. jobs'[j].status = jobs[j].status /\ jobs'[j].revision = jobs[j].revision
      BY <1>2, <3>2, RedactedStays
    <3> QED
      BY Zenon, <3>2, <3>3 DEF JobsStay
  <2> QED
    BY SMTT(60), <1>1, <2>6, <2>7, TurnKeepsWork
<1>4. CASE ~HoldsSend(l) /\ UNCHANGED <<frames, jobs>>
  BY <1>1, <1>4, SameRowsTurn, TurnKeepsWork
<1> QED
  BY <1>3, <1>4 DEF Finish

LEMMA DeliverKeepsWork ==
  ASSUME TypeInv, WorkInv, NEW l \in Lanes, Deliver(l)
  PROVE  WorkInv' /\ SettledStands /\ NothingMade
<1> DEFINE r == lanes[l].run
           f == lanes[l].frame
<1>1. CASE AdmitDelivery(l)
  <2>1. UNCHANGED <<jobs, runs>> /\ lanes[l].pc = "admit"
    BY <1>1 DEF AdmitDelivery
  <2>2. r \in Runs /\ f \in Frames /\ frames[r][f] \in FrameRow
    BY SMTT(60), <2>1 DEF TypeInv, TypeOK, LanesHold, Lane
  <2>3. CASE Admits(l)
    <3>1. frames' = [frames EXCEPT ![r][f] = [frames[r][f] EXCEPT !.status = "sending"]]
      BY <1>1, <2>2, <2>3 DEF AdmitDelivery, TypeInv, TypeOK
    <3>2. FrameTurns(frames[r][f], [frames[r][f] EXCEPT !.status = "sending"])
      BY <2>2, <2>3 DEF Admits, FrameRow, FrameTurns, OpenFrame, Begun
    <3> QED
      BY <2>1, <2>2, <3>1, <3>2, OneFrameTurns, SameRowsTurn, TurnKeepsWork
  <2>4. CASE ~Admits(l)
    BY <1>1, <2>1, <2>4, SameRowsTurn, TurnKeepsWork DEF AdmitDelivery
  <2> QED
    BY <2>3, <2>4
<1>2. CASE TelegramTakes(l)
  BY <1>2, SameRowsTurn, TurnKeepsWork DEF TelegramTakes
<1>3. CASE CompleteDelivery(l) \/ SendUncertain(l)
  BY <1>3, FinishKeepsWork DEF CompleteDelivery, SendUncertain, FinalFrame
<1>4. CASE SendRejected(l)
  <2>1. lanes[l].pc = "sending"
    BY <1>4 DEF SendRejected
  <2>2. r \in Runs /\ f \in Frames /\ frames[r][f] \in FrameRow
    BY <2>1 DEF TypeInv, TypeOK, LanesHold, Lane
  <2>3. CASE Finish(l, "exhausted")
    BY <2>1, <2>3, FinishKeepsWork DEF FinalFrame
  <2>4. CASE ~Finish(l, "exhausted")
    <3>1. /\ HoldsSend(l) /\ UNCHANGED <<jobs, runs>>
          /\ frames' = [frames EXCEPT ![r][f] = [frames[r][f] EXCEPT !.status = "retry_wait",
                                                                    !.ready = FALSE]]
      BY <1>4, <2>2, <2>4 DEF SendRejected, TypeInv, TypeOK
    <3>2. FrameTurns(frames[r][f], [frames[r][f] EXCEPT !.status = "retry_wait", !.ready = FALSE])
      BY <2>2, <3>1 DEF HoldsSend, FrameRow, FrameTurns, OpenFrame, Begun
    <3> QED
      BY <2>2, <3>1, <3>2, OneFrameTurns, SameRowsTurn, TurnKeepsWork
  <2> QED
    BY <2>3, <2>4
<1> QED
  BY <1>1, <1>2, <1>3, <1>4, ClaimDeliveryKeepsWork DEF Deliver

-----------------------------------------------------------------------------
(* Time and failure *)

LEMMA TimeKeepsWork ==
  ASSUME TypeInv, WorkInv, Tick \/ RowsReady \/ LeasesExpire \/ \E l \in Lanes : Crash(l)
  PROVE  WorkInv' /\ SettledStands /\ NothingMade
<1>1. CASE Tick \/ \E l \in Lanes : Crash(l)
  BY <1>1, SameRowsTurn, TurnKeepsWork DEF Tick, Crash
<1>2. CASE \E r \in Runs : RunReady(r) \/ ExpireRunLease(r)
  <2>1. PICK r \in Runs : RunReady(r) \/ ExpireRunLease(r)
    BY <1>2
  <2>2. runs[r] \in RunRow
    BY DEF TypeInv, TypeOK
  <2>3. UNCHANGED <<jobs, frames>>
        /\ \/ runs' = [runs EXCEPT ![r] = [runs[r] EXCEPT !.ready = TRUE]]
           \/ runs' = [runs EXCEPT ![r] = [runs[r] EXCEPT !.expired = TRUE]]
    BY <2>1 DEF RunReady, ExpireRunLease
  <2>4. /\ RunTurns(runs[r], [runs[r] EXCEPT !.ready = TRUE])
        /\ RunTurns(runs[r], [runs[r] EXCEPT !.expired = TRUE])
    BY <2>2 DEF RunRow, RunTurns
  <2> QED
    BY <2>3, <2>4, OneRunTurns, SameRowsTurn, TurnKeepsWork
<1>3. CASE \E r \in Runs, f \in Frames : FrameReady(r, f) \/ ExpireFrameLease(r, f)
  <2>1. PICK r \in Runs, f \in Frames : FrameReady(r, f) \/ ExpireFrameLease(r, f)
    BY <1>3
  <2>2. frames[r][f] \in FrameRow
    BY DEF TypeInv, TypeOK
  <2>3. UNCHANGED <<jobs, runs>>
        /\ \/ frames' = [frames EXCEPT ![r][f] = [frames[r][f] EXCEPT !.ready = TRUE]]
           \/ frames' = [frames EXCEPT ![r][f] = [frames[r][f] EXCEPT !.expired = TRUE]]
    BY <2>1 DEF FrameReady, ExpireFrameLease, TypeInv, TypeOK
  <2>4. /\ FrameTurns(frames[r][f], [frames[r][f] EXCEPT !.ready = TRUE])
        /\ FrameTurns(frames[r][f], [frames[r][f] EXCEPT !.expired = TRUE])
    BY <2>2 DEF FrameRow, FrameTurns
  <2> QED
    BY <2>3, <2>4, OneFrameTurns, SameRowsTurn, TurnKeepsWork
<1> QED
  BY <1>1, <1>2, <1>3 DEF RowsReady, LeasesExpire

-----------------------------------------------------------------------------
(* Every step *)

SchedulerInv == DeliveryInv /\ WorkInv

\* The steps that make a run.
NewRunStep == (\E j \in Jobs : RunNow(j)) \/ \E l \in Lanes : ClaimOccurrence(l)

LEMMA SchedulerInvInit == Init => SchedulerInv
<1> SUFFICES ASSUME Init PROVE SchedulerInv
  OBVIOUS
<1>1. WorkInv
  BY DEF Init, WorkInv, WorkIsCurrent, OneOpenRun, FramesArePrefix, BegunInOrder, NoRunRow,
         NoFrameRow, OpenRun, OpenFrame, Begun
<1> QED
  BY <1>1, DeliveryInvInit DEF SchedulerInv

LEMMA SchedulerInvStep ==
  ASSUME SchedulerInv, [Next]_vars
  PROVE  SchedulerInv' /\ SettledStands /\ (NothingMade \/ NewRunStep)
<1>1. TypeInv /\ RowsInv /\ WorkInv /\ DeliveryInv
  BY DEF SchedulerInv, DeliveryInv
<1>2. DeliveryInv'
  BY <1>1, DeliveryInvStep
<1>3. WorkInv' /\ SettledStands /\ (NothingMade \/ NewRunStep)
  <2>1. CASE Owner
    BY <1>1, <2>1, OwnerKeepsWork DEF NewRunStep
  <2>2. CASE \E l \in Lanes : LaneStep(l)
    BY <1>1, <2>2, RecoverKeepsWork, ClaimDueRunKeepsWork, ExecuteKeepsWork, DeliverKeepsWork
       DEF LaneStep, NewRunStep
  <2>3. CASE Tick \/ RowsReady \/ LeasesExpire \/ \E l \in Lanes : Crash(l)
    BY <1>1, <2>3, TimeKeepsWork
  <2>4. CASE UNCHANGED vars
    BY <1>1, <2>4, SameRowsTurn, TurnKeepsWork DEF vars
  <2> QED
    BY <2>1, <2>2, <2>3, <2>4 DEF Next
<1> QED
  BY <1>2, <1>3 DEF SchedulerInv

\* No edit leaves a run to execute, or a frame to send, of a revision that the
\* job does not have any more. (WorkIsCurrent.)
THEOREM SchedulerWorkIsCurrent == Spec => []WorkIsCurrent
<1>1. SchedulerInv => WorkIsCurrent
  BY DEF SchedulerInv, WorkInv
<1> QED
  BY <1>1, SchedulerInvInit, SchedulerInvStep, PTL DEF Spec

\* A lane that sends does it for the job as it is, or its frame is recorded as
\* perhaps sent: an edit that was confirmed is not followed by a send for the
\* old job. (SendIsFenced.)
THEOREM SchedulerSendIsFenced == Spec => []SendIsFenced
<1>1. SchedulerInv => SendIsFenced
  <2> SUFFICES ASSUME SchedulerInv, NEW l \in Lanes, lanes[l].pc = "sending"
               PROVE  \/ HoldsSend(l) /\ FrameIsCurrent(lanes[l].run)
                      \/ frames[lanes[l].run][lanes[l].frame].status = "unknown"
    BY DEF SendIsFenced
  <2>1. lanes[l].run \in Runs /\ lanes[l].frame \in Frames
    BY DEF SchedulerInv, DeliveryInv, TypeInv, TypeOK, LanesHold, Lane
  <2>2. HoldsSend(l) \/ frames[lanes[l].run][lanes[l].frame].status = "unknown"
    BY DEF SchedulerInv, DeliveryInv, SendInv, SendersKnow
  <2>3. HoldsSend(l) => FrameIsCurrent(lanes[l].run)
    BY <2>1 DEF HoldsSend, SchedulerInv, WorkInv, WorkIsCurrent, OpenFrame
  <2> QED
    BY <2>2, <2>3
<1> QED
  BY <1>1, SchedulerInvInit, SchedulerInvStep, PTL DEF Spec

\* The frames of a run appear in their order, through pauses, retries and
\* leases that run out. (FramesInOrder.)
THEOREM SchedulerFramesInOrder == Spec => []FramesInOrder
<1>1. SchedulerInv => FramesInOrder
  <2> SUFFICES ASSUME SchedulerInv, NEW r \in Runs, NEW e \in Frames, NEW f \in Frames, e < f,
                      \/ frames[r][f].status \in {"leased", "sending", "delivered"}
                      \/ shown[r][f] > 0
               PROVE  frames[r][e].status \in FinalFrame
    BY DEF FramesInOrder
  <2>1. frames[r][f].status \in Begun
    <3>1. shown[r][f] \in Nat /\ shown[r][f] <= 1
      BY DEF SchedulerInv, DeliveryInv, TypeInv, TypeOK, SendInv, ShownIsSettled
    <3>2. shown[r][f] > 0 => shown[r][f] = 1
      BY <3>1
    <3> QED
      BY <3>2 DEF SchedulerInv, DeliveryInv, SendInv, ShownIsSettled, Begun
  <2> QED
    BY <2>1 DEF SchedulerInv, WorkInv, BegunInOrder
<1> QED
  BY <1>1, SchedulerInvInit, SchedulerInvStep, PTL DEF Spec

\* A late result, a late acknowledgement or a recovery neither reopens a run
\* or a frame nor changes its outcome. (FinalStays.)
THEOREM SchedulerFinalStays == Spec => FinalStays
<1>1. SchedulerInv /\ [Next]_vars =>
        [\A r \in Runs :
           /\ runs[r].status \in FinalRun => runs'[r].status = runs[r].status
           /\ \A f \in Frames :
                frames[r][f].status \in FinalFrame => frames'[r][f].status = frames[r][f].status]_vars
  BY SchedulerInvStep DEF SettledStands
<1> QED
  BY <1>1, SchedulerInvInit, SchedulerInvStep, PTL DEF Spec, FinalStays

-----------------------------------------------------------------------------
(* No occurrence is run twice, nor before its time *)

\* What was run of a job is not after what its row remembers as the last due
\* time, which is in the past; nor, while it is paused or about to catch up,
\* after the pause, unless the job is past its end.
PaidUp(j) ==
  /\ \A t \in paid[j] : t <= jobs[j].lastDue
  /\ jobs[j].lastDue <= clock
  /\ jobs[j].pausedAt <= clock
  /\ jobs[j].pausedAt # NoTime => jobs[j].lastDue <= jobs[j].pausedAt \/ Expiring(j)
  /\ jobs[j].status = "none" => paid[j] = {}

PaidInv == \A j \in Jobs : PaidUp(j)

\* What the look at a job finds owed is later than what was run, and in time.
LEMMA OwedIsNew ==
  ASSUME TypeInv, PaidInv, NEW j \in Jobs, ~LookRaises(j), Owed(j) # NoTime
  PROVE  /\ Owed(j) \in Time
         /\ \A t \in paid[j] : Owed(j) > t
         /\ jobs[j].lastDue < Owed(j)
         /\ Owed(j) <= clock
         /\ jobs[j].def.ends = NoTime \/ Owed(j) < jobs[j].def.ends
<1>1. /\ jobs[j].def.schedule \in Schedule /\ jobs[j].def.ends \in When
      /\ jobs[j].pausedAt \in When /\ jobs[j].lastDue \in When /\ jobs[j].anchor \in Time
      /\ clock \in Time /\ paid[j] \subseteq Time
  BY DEF TypeInv, TypeOK, JobRow, Definition
<1>2. PaidUp(j)
  BY DEF PaidInv
<1>3. jobs[j].pausedAt \in Int /\ jobs[j].lastDue \in Int /\ clock \in Int /\ jobs[j].def.ends \in Int
      /\ paid[j] \subseteq Int
  BY <1>1 DEF When, Time, NoTime
<1>4. /\ Owed(j) \in Time /\ jobs[j].lastDue < Owed(j) /\ Owed(j) <= clock
      /\ jobs[j].def.ends = NoTime \/ Owed(j) < jobs[j].def.ends
  <2>1. CASE CatchingUp(j)
    <3>1. /\ Owed(j) = CatchUp(jobs[j].def.schedule, jobs[j].pausedAt, clock)
          /\ ~CatchUpRaises(jobs[j].def.schedule, jobs[j].pausedAt, clock)
      BY <2>1 DEF Owed, LookRaises
    <3>2. Owed(j) \in Time /\ jobs[j].pausedAt < Owed(j) /\ Owed(j) <= clock
      BY <1>1, <1>3, <3>1, CatchUpBounds
    <3>3. ~Expiring(j) /\ jobs[j].lastDue <= jobs[j].pausedAt
      BY <1>2, <2>1 DEF CatchingUp, PaidUp
    <3>4. Owed(j) \in Int
      BY <3>2 DEF Time
    <3> QED
      BY <1>3, <3>2, <3>3, <3>4 DEF Expiring
  <2>2. CASE ~CatchingUp(j)
    <3>1. /\ Owed(j) = Due(jobs[j].def.schedule, jobs[j].lastDue, OwedUntil(j), jobs[j].anchor)
          /\ ~DueRaises(jobs[j].def.schedule, jobs[j].lastDue, OwedUntil(j), jobs[j].anchor)
      BY <2>2 DEF Owed, LookRaises
    <3>2. /\ OwedUntil(j) \in Int /\ OwedUntil(j) <= clock
          /\ jobs[j].def.ends = NoTime \/ OwedUntil(j) < jobs[j].def.ends
      BY <1>3 DEF OwedUntil, Expiring
    <3>3. Owed(j) \in Time /\ jobs[j].lastDue < Owed(j) /\ Owed(j) <= OwedUntil(j)
      BY <1>1, <3>1, <3>2, DueIsLatest
    <3>4. Owed(j) \in Int
      BY <3>3 DEF Time
    <3> QED
      BY <1>3, <3>2, <3>3, <3>4
  <2> QED
    BY <2>1, <2>2
<1>5. \A t \in paid[j] : Owed(j) > t
  <2>1. Owed(j) \in Int
    BY <1>4 DEF Time
  <2> QED
    BY <1>2, <1>3, <1>4, <2>1 DEF PaidUp
<1> QED
  BY <1>4, <1>5

\* A job that is not due anything new: it may have caught up.
PaidStays(j) ==
  /\ paid'[j] = paid[j]
  /\ jobs'[j].def = jobs[j].def /\ jobs'[j].lastDue = jobs[j].lastDue
  /\ jobs'[j].pausedAt \in {jobs[j].pausedAt, NoTime}
  /\ jobs'[j].status = "none" => jobs[j].status = "none"

LEMMA PaidStaysUp ==
  ASSUME TypeInv, PaidInv, NEW j \in Jobs, PaidStays(j), clock' \in {clock, clock + 1}
  PROVE  PaidUp(j)'
<1>1. /\ jobs[j].pausedAt \in Int /\ jobs[j].lastDue \in Int /\ jobs[j].def.ends \in Int
      /\ clock \in Nat
  BY DEF TypeInv, TypeOK, JobRow, Definition, When, Time, NoTime
<1>2. PaidUp(j)
  BY DEF PaidInv
<1>3. clock' \in Nat /\ clock <= clock'
  BY <1>1
<1>4. Expiring(j) => Expiring(j)'
  BY <1>1, <1>3 DEF Expiring, PaidStays
<1>5. jobs'[j].lastDue <= clock' /\ jobs'[j].pausedAt <= clock'
  BY <1>1, <1>2, <1>3 DEF PaidUp, PaidStays, NoTime
<1>6. \A t \in paid'[j] : t <= jobs'[j].lastDue
  BY <1>2 DEF PaidUp, PaidStays
<1>7. jobs'[j].pausedAt # NoTime => jobs'[j].lastDue <= jobs'[j].pausedAt \/ Expiring(j)'
  BY <1>2, <1>4 DEF PaidUp, PaidStays
<1>8. jobs'[j].status = "none" => paid'[j] = {}
  BY <1>2 DEF PaidUp, PaidStays
<1> QED
  BY <1>5, <1>6, <1>7, <1>8 DEF PaidUp

LEMMA SamePaid ==
  ASSUME UNCHANGED <<jobs, paid>>, NEW j \in Jobs
  PROVE  PaidStays(j)
BY DEF PaidStays

\* The edits of a job's row that leave its times.
LEMMA RowEditsPay ==
  ASSUME TypeInv, UNCHANGED paid, NEW j \in Jobs, NEW row,
         \/ \E b : row = [jobs[j] EXCEPT !.redacted = b]
         \/ \E status \in {jobs[j].status, "ended"} : row = [jobs[j] EXCEPT !.status = status]
         \/ \E status, n : /\ status \in {jobs[j].status, "ended"}
                           /\ row = [jobs[j] EXCEPT !.successes = n, !.status = status]
         \/ row = [jobs[j] EXCEPT !.pausedAt = NoTime],
         jobs'[j] = row
  PROVE  PaidStays(j)
<1>1. jobs[j] \in JobRow
  BY Zenon DEF TypeInv, TypeOK
<1>2. /\ row.def = jobs[j].def /\ row.lastDue = jobs[j].lastDue
      /\ row.pausedAt \in {jobs[j].pausedAt, NoTime}
      /\ row.status = "none" => jobs[j].status = "none"
  BY Zenon, <1>1 DEF JobRow
<1> QED
  BY Zenon, <1>2 DEF PaidStays

\* One job is edited: the others stay.
LEMMA OneJobPays ==
  ASSUME TypeInv, PaidInv, UNCHANGED clock, NEW j \in Jobs, NEW row,
         jobs' = [jobs EXCEPT ![j] = row],
         \A i \in Jobs : i # j => paid'[i] = paid[i],
         PaidStays(j) \/ PaidUp(j)'
  PROVE  PaidInv'
<1>1. \A i \in Jobs : i # j => jobs'[i] = jobs[i]
  BY DEF TypeInv, TypeOK
<1>2. \A i \in Jobs : i # j => PaidStays(i)
  BY <1>1 DEF PaidStays
<1>3. \A i \in Jobs : PaidStays(i) => PaidUp(i)'
  BY PaidStaysUp
<1> QED
  BY <1>2, <1>3 DEF PaidInv

LEMMA AllJobsPay ==
  ASSUME TypeInv, PaidInv, clock' \in {clock, clock + 1}, \A j \in Jobs : PaidStays(j)
  PROVE  PaidInv'
BY PaidStaysUp DEF PaidInv

LEMMA CreatePays ==
  ASSUME TypeInv, PaidInv, NEW j \in Jobs, NEW d \in Definitions, Create(j, d)
  PROVE  PaidInv'
<1> DEFINE row == [NoJobRow EXCEPT !.status = "active", !.revision = 1, !.def = d,
                                   !.anchor = Origin(d.schedule, clock)]
<1>1. jobs' = [jobs EXCEPT ![j] = row] /\ UNCHANGED <<clock, paid>> /\ jobs[j].status = "none"
  BY DEF Create
<1>2. row.status = "active" /\ row.lastDue = NoTime /\ row.pausedAt = NoTime
  BY DEF NoJobRow
<1> HIDE DEF row
<1>3. jobs'[j] = row /\ paid'[j] = {}
  BY <1>1 DEF PaidInv, PaidUp, TypeInv, TypeOK
<1>4. NoTime <= clock
  BY DEF TypeInv, TypeOK, Time, NoTime
<1>5. PaidUp(j)'
  BY <1>1, <1>2, <1>3, <1>4 DEF PaidUp
<1> QED
  BY <1>1, <1>5, OneJobPays

LEMMA UpdatePays ==
  ASSUME TypeInv, PaidInv, NEW j \in Jobs, NEW d \in Definitions, Update(j, d)
  PROVE  PaidInv'
<1> DEFINE row == [jobs[j] EXCEPT !.revision = @ + 1, !.def = d, !.anchor = clock,
                                  !.lastDue = NoTime, !.pausedAt = NoTime]
<1>1. jobs' = [jobs EXCEPT ![j] = row] /\ UNCHANGED clock /\ paid' = [paid EXCEPT ![j] = {}]
  BY DEF Update, Edit
<1>2. row.lastDue = NoTime /\ row.pausedAt = NoTime
  BY DEF TypeInv, TypeOK, JobRow
<1> HIDE DEF row
<1>3. jobs'[j] = row /\ paid'[j] = {} /\ \A i \in Jobs : i # j => paid'[i] = paid[i]
  BY <1>1 DEF TypeInv, TypeOK
<1>4. NoTime <= clock
  BY DEF TypeInv, TypeOK, Time, NoTime
<1>5. PaidUp(j)'
  BY <1>1, <1>2, <1>3, <1>4 DEF PaidUp
<1> QED
  BY <1>1, <1>3, <1>5, OneJobPays

LEMMA PausePays ==
  ASSUME TypeInv, PaidInv, NEW j \in Jobs, Pause(j)
  PROVE  PaidInv'
<1> DEFINE row == [jobs[j] EXCEPT !.status = "paused", !.revision = @ + 1, !.pausedAt = clock]
<1>1. jobs' = [jobs EXCEPT ![j] = row] /\ UNCHANGED <<clock, paid>>
  BY DEF Pause, Edit
<1>2. row.status = "paused" /\ row.lastDue = jobs[j].lastDue /\ row.pausedAt = clock
  BY DEF TypeInv, TypeOK, JobRow
<1> HIDE DEF row
<1>3. jobs'[j] = row /\ paid'[j] = paid[j]
  BY <1>1 DEF TypeInv, TypeOK
<1>4. PaidUp(j) /\ clock <= clock
  BY DEF PaidInv, TypeInv, TypeOK, Time
<1>5. PaidUp(j)'
  BY <1>1, <1>2, <1>3, <1>4 DEF PaidUp
<1> QED
  BY <1>1, <1>5, OneJobPays

LEMMA OwnerPays ==
  ASSUME TypeInv, PaidInv, Owner
  PROVE  PaidInv'
<1>1. ASSUME NEW j \in Jobs, Resume(j) \/ Delete(j)
      PROVE  PaidInv'
  <2>1. UNCHANGED <<clock, paid>> /\ jobs[j] \in JobRow
    BY <1>1 DEF Resume, Delete, Edit, TypeInv, TypeOK
  <2>2. PICK row : /\ jobs' = [jobs EXCEPT ![j] = row]
                   /\ row.def = jobs[j].def /\ row.lastDue = jobs[j].lastDue
                   /\ row.pausedAt = jobs[j].pausedAt /\ row.status # "none"
    <3>1. CASE Resume(j)
      <4> DEFINE row == [jobs[j] EXCEPT !.status = "active", !.revision = @ + 1]
      <4>1. jobs' = [jobs EXCEPT ![j] = row]
        BY <3>1 DEF Resume
      <4>2. /\ row.def = jobs[j].def /\ row.lastDue = jobs[j].lastDue
            /\ row.pausedAt = jobs[j].pausedAt /\ row.status # "none"
        BY <2>1 DEF JobRow
      <4> HIDE DEF row
      <4> QED
        BY <4>1, <4>2
    <3>2. CASE Delete(j)
      <4> DEFINE b == jobs[j].redacted \/ Redactable(j, "cancelled", frames')
                 row == [jobs[j] EXCEPT !.status = "cancelled", !.revision = @ + 1, !.redacted = b]
      <4>1. jobs' = [jobs EXCEPT ![j] = row]
        BY <3>2 DEF Delete
      <4> HIDE DEF b
      <4>2. /\ row.def = jobs[j].def /\ row.lastDue = jobs[j].lastDue
            /\ row.pausedAt = jobs[j].pausedAt /\ row.status # "none"
        BY <2>1 DEF JobRow
      <4> HIDE DEF row
      <4> QED
        BY <4>1, <4>2
    <3> QED
      BY <1>1, <3>1, <3>2
  <2>3. jobs'[j] = row
    BY <2>2 DEF TypeInv, TypeOK
  <2>4. PaidStays(j)
    BY <2>1, <2>2, <2>3 DEF PaidStays
  <2> QED
    BY <2>1, <2>2, <2>4, OneJobPays
<1>2. ASSUME NEW j \in Jobs, RunNow(j)
      PROVE  PaidInv'
  BY <1>2, SamePaid, AllJobsPay DEF RunNow
<1> QED
  BY <1>1, <1>2, CreatePays, UpdatePays, PausePays DEF Owner

LEMMA RecoverPays ==
  ASSUME TypeInv, PaidInv, NEW l \in Lanes, Recover(l)
  PROVE  PaidInv'
<1>1. UNCHANGED <<clock, paid>>
  BY Zenon DEF Recover
<1>2. \A i \in Jobs :
        \/ jobs'[i] = jobs[i]
        \/ jobs'[i] = [jobs[i] EXCEPT !.redacted = @ \/ Redactable(i, jobs[i].status, frames')]
  BY DEF Recover
<1>3. ASSUME NEW i \in Jobs
      PROVE  PaidStays(i)
  <2> DEFINE b == jobs[i].redacted \/ Redactable(i, jobs[i].status, frames')
  <2>1. jobs'[i] = jobs[i] \/ jobs'[i] = [jobs[i] EXCEPT !.redacted = b]
    BY <1>2
  <2> HIDE DEF b
  <2>2. CASE jobs'[i] = jobs[i]
    BY <1>1, <2>2 DEF PaidStays
  <2>3. CASE jobs'[i] = [jobs[i] EXCEPT !.redacted = b]
    BY Zenon, <1>1, <2>3, RowEditsPay
  <2> QED
    BY <2>1, <2>2, <2>3
<1> QED
  BY SMTT(60), <1>1, <1>3, AllJobsPay

LEMMA LookedOverPays ==
  ASSUME TypeInv, UNCHANGED paid, NEW j \in Jobs, jobs'[j] = LookedOver(j)
  PROVE  PaidStays(j)
<1>1. CASE jobs'[j] = jobs[j]
  BY <1>1 DEF PaidStays
<1>2. CASE jobs'[j] = [jobs[j] EXCEPT !.pausedAt = NoTime]
  BY Zenon, <1>2, RowEditsPay
<1> QED
  BY <1>1, <1>2 DEF LookedOver

\* A claim remembers what it runs.
LEMMA ClaimDueRunPays ==
  ASSUME TypeInv, PaidInv, NEW l \in Lanes, ClaimDueRun(l)
  PROVE  PaidInv'
<1>1. UNCHANGED clock
  BY DEF ClaimDueRun
<1>2. CASE ClaimWaitingRun(l)
  <2>1. UNCHANGED <<jobs, paid>>
    BY <1>2 DEF ClaimWaitingRun, TickFails
  <2> QED
    BY <1>1, <2>1, SamePaid, AllJobsPay
<1>3. CASE ClaimNothing(l)
  <2>1. UNCHANGED paid /\ (UNCHANGED jobs \/ jobs' = [j \in Jobs |-> LookedOver(j)])
    BY <1>3 DEF ClaimNothing, TickFails
  <2>2. ASSUME NEW j \in Jobs PROVE PaidStays(j)
    BY <2>1, SamePaid, LookedOverPays
  <2> QED
    BY <1>1, <2>2, AllJobsPay
<1>4. CASE ClaimOccurrence(l)
  <2>1. PICK j \in Jobs :
          /\ j = StopsAt
          /\ ~LookRaises(j)
          /\ MakeRun(l, j, TriggerOf(j), IF TriggerOf(j) = "lifecycle" THEN clock ELSE Owed(j))
    BY <1>4 DEF ClaimOccurrence
  <2> DEFINE trigger == TriggerOf(j)
             due == IF trigger = "lifecycle" THEN clock ELSE Owed(j)
             row == [jobs[j] EXCEPT !.status = IF trigger = "lifecycle" THEN "ended" ELSE @,
                                    !.revision = jobs[j].revision + (IF trigger = "lifecycle" THEN 1 ELSE 0),
                                    !.pausedAt = IF trigger = "catchup" THEN NoTime ELSE @,
                                    !.lastDue = IF Advances(trigger) THEN due ELSE @]
  <2>2. /\ jobs'[j] = row
        /\ \A i \in Jobs : i # j => jobs'[i] \in {LookedOver(i), jobs[i]}
        /\ paid' = [paid EXCEPT ![j] = IF trigger = "lifecycle" THEN @ ELSE @ \cup {due}]
    BY Zenon, <2>1 DEF MakeRun
  <2>3. /\ paid'[j] = IF trigger = "lifecycle" THEN paid[j] ELSE paid[j] \cup {due}
        /\ \A i \in Jobs : i # j => paid'[i] = paid[i]
    BY <2>2 DEF TypeInv, TypeOK
  <2>4. /\ trigger \in {"schedule", "catchup", "lifecycle"}
        /\ trigger = "lifecycle" <=> Owed(j) = NoTime
        /\ trigger = "catchup" => CatchingUp(j)
        /\ trigger = "schedule" => ~CatchingUp(j)
    BY DEF TriggerOf
  <2>5. /\ row.def = jobs[j].def
        /\ row.status = IF trigger = "lifecycle" THEN "ended" ELSE jobs[j].status
        /\ row.pausedAt = IF trigger = "catchup" THEN NoTime ELSE jobs[j].pausedAt
        /\ row.lastDue = IF Advances(trigger) THEN due ELSE jobs[j].lastDue
    BY DEF TypeInv, TypeOK, JobRow
  <2> HIDE DEF row, trigger
  <2>6. PaidUp(j)'
    <3>1. CASE trigger = "lifecycle"
      <4>1. PaidStays(j)
        BY <2>2, <2>3, <2>5, <3>1 DEF PaidStays, Advances
      <4> QED
        BY <1>1, <4>1, PaidStaysUp
    <3>2. CASE trigger # "lifecycle"
      <4>1. due = Owed(j) /\ Owed(j) # NoTime
        BY <2>4, <3>2
      <4>2. /\ due \in Time /\ due <= clock /\ \A t \in paid[j] : due > t
            /\ jobs[j].lastDue < due
        BY <2>1, <4>1, OwedIsNew
      <4>3. due \in Int /\ clock \in Int /\ -1 <= clock /\ paid[j] \subseteq Int
        BY <4>2 DEF Time, TypeInv, TypeOK
      <4>4. PaidUp(j)
        BY DEF PaidInv
      <4> HIDE DEF due
      <4>5. jobs'[j].lastDue = due /\ paid'[j] = paid[j] \cup {due} /\ jobs'[j].def = jobs[j].def
        BY <2>2, <2>3, <2>4, <2>5, <3>2 DEF Advances
      <4>6. \A t \in paid'[j] : t <= jobs'[j].lastDue
        BY <4>2, <4>3, <4>5
      <4>7. jobs'[j].pausedAt <= clock'
        BY <1>1, <2>2, <2>5, <4>3, <4>4 DEF PaidUp, NoTime
      <4>8. jobs'[j].pausedAt # NoTime => Expiring(j)'
        <5> SUFFICES ASSUME jobs'[j].pausedAt # NoTime PROVE Expiring(j)'
          OBVIOUS
        <5>1. trigger = "schedule" /\ jobs[j].pausedAt # NoTime
          BY <2>2, <2>4, <2>5, <3>2
        <5>2. Expiring(j)
          BY <2>4, <5>1 DEF CatchingUp
        <5> QED
          BY <1>1, <4>5, <5>2 DEF Expiring
      <4>9. jobs'[j].status # "none"
        <5>1. jobs[j].status = "active"
          BY <2>1, StopsAtLooked DEF Looked
        <5> QED
          BY <2>2, <2>5, <3>2, <5>1
      <4> QED
        BY <1>1, <4>2, <4>5, <4>6, <4>7, <4>8, <4>9 DEF PaidUp
    <3> QED
      BY <3>1, <3>2
  <2>7. ASSUME NEW i \in Jobs, i # j PROVE PaidUp(i)'
    <3>1. CASE jobs'[i] = jobs[i]
      <4>1. PaidStays(i)
        BY <2>3, <2>7, <3>1 DEF PaidStays
      <4> QED
        BY <1>1, <4>1, PaidStaysUp
    <3>2. CASE jobs'[i] = LookedOver(i)
      <4>1. LookedOver(i) = jobs[i] \/ LookedOver(i) = [jobs[i] EXCEPT !.pausedAt = NoTime]
        BY DEF LookedOver
      <4>2. PaidStays(i)
        BY <2>3, <2>7, <3>2, <4>1 DEF PaidStays, TypeInv, TypeOK, JobRow
      <4> QED
        BY <1>1, <4>2, PaidStaysUp
    <3> QED
      BY <2>2, <2>7, <3>1, <3>2
  <2> QED
    BY <2>6, <2>7 DEF PaidInv
<1> QED
  BY <1>2, <1>3, <1>4 DEF ClaimDueRun

LEMMA ExecutePays ==
  ASSUME TypeInv, PaidInv, NEW l \in Lanes, Execute(l)
  PROVE  PaidInv'
<1> DEFINE j == runs[lanes[l].run].job
<1>1. UNCHANGED <<clock, paid>>
  BY Zenon DEF Execute, BeginRun, RenewLease, HeartbeatFails, CompleteRun, ResultIsDropped, FailRun, DeferRun
<1>2. j \in Jobs
  <2>1. lanes[l].run \in Runs
    BY ZenonT(60) DEF Execute, BeginRun, RenewLease, HeartbeatFails, CompleteRun, ResultIsDropped, FailRun,
           DeferRun, TypeInv, LanesHold
  <2> QED
    BY SMTT(60), <2>1 DEF TypeInv, TypeOK, RunRow
<1>3. ASSUME NEW row, jobs' = [jobs EXCEPT ![j] = row],
             row.def = jobs[j].def, row.lastDue = jobs[j].lastDue, row.pausedAt = jobs[j].pausedAt,
             row.status \in {jobs[j].status, "ended"}
      PROVE  PaidInv'
  <2>1. jobs'[j] = row
    BY <1>2, <1>3 DEF TypeInv, TypeOK
  <2>2. PaidStays(j)
    BY <1>1, <1>3, <2>1 DEF PaidStays
  <2> QED
    BY <1>1, <1>2, <1>3, <2>2, OneJobPays
<1>4. ASSUME NEW n, NEW status \in {jobs[j].status, "ended"}
      PROVE  LET a == [jobs[j] EXCEPT !.successes = n, !.status = status]
                 b == [jobs[j] EXCEPT !.status = status]
             IN /\ a.def = jobs[j].def /\ a.lastDue = jobs[j].lastDue /\ a.pausedAt = jobs[j].pausedAt
                /\ b.def = jobs[j].def /\ b.lastDue = jobs[j].lastDue /\ b.pausedAt = jobs[j].pausedAt
                /\ a.status = status /\ b.status = status
  BY <1>2 DEF TypeInv, TypeOK, JobRow
<1>5. CASE \E success \in BOOLEAN, n \in 1..MaxFrames : CompleteRun(l, success, n)
  <2>1. PICK success \in BOOLEAN, n \in 1..MaxFrames : CompleteRun(l, success, n)
    BY <1>5
  <2> DEFINE successes == jobs[j].successes + (IF success THEN 1 ELSE 0)
             over == LastRun(lanes[l].run) \/ (jobs[j].def.max # 0 /\ successes >= jobs[j].def.max)
             status == IF over THEN "ended" ELSE jobs[j].status
             row == [jobs[j] EXCEPT !.successes = successes, !.status = status]
  <2>2. jobs' = [jobs EXCEPT ![j] = row]
    BY <2>1 DEF CompleteRun
  <2>3. status \in {jobs[j].status, "ended"}
    OBVIOUS
  <2> HIDE DEF successes, over, status, j
  <2>4. /\ row.def = jobs[j].def /\ row.lastDue = jobs[j].lastDue /\ row.pausedAt = jobs[j].pausedAt
        /\ row.status \in {jobs[j].status, "ended"}
    BY <1>4, <2>3
  <2> HIDE DEF row
  <2> QED
    BY <1>3, <2>2, <2>4
<1>6. CASE FailRun(l) /\ ~UNCHANGED jobs
  <2>1. PICK status \in {jobs[j].status, "ended"} :
          jobs' = [jobs EXCEPT ![j] = [jobs[j] EXCEPT !.status = status]]
    BY Zenon, <1>6 DEF FailRun
  <2> HIDE DEF j
  <2> QED
    BY ZenonT(60), <1>3, <1>4, <2>1
<1>7. CASE UNCHANGED jobs
  BY <1>1, <1>7, SamePaid, AllJobsPay
<1> QED
  BY SMTT(60), <1>5, <1>6, <1>7 DEF Execute, BeginRun, RenewLease, HeartbeatFails, ResultIsDropped, DeferRun

LEMMA DeliverPays ==
  ASSUME TypeInv, PaidInv, NEW l \in Lanes, Deliver(l)
  PROVE  PaidInv'
<1>1. UNCHANGED <<clock, paid>>
  BY Zenon DEF Deliver, ClaimDelivery, AdmitDelivery, TelegramTakes, CompleteDelivery, SendUncertain,
         SendRejected, Finish
<1>2. CASE UNCHANGED jobs
  BY <1>1, <1>2, SamePaid, AllJobsPay
<1>3. CASE \E status : HoldsSend(l) /\ Settle(l, status) /\ lanes[l].pc \in {"sending", "accepted"}
  <2> DEFINE j == runs[lanes[l].run].job
             b == jobs[j].redacted \/ Redactable(j, jobs[j].status, frames')
             row == [jobs[j] EXCEPT !.redacted = b]
  <2>1. j \in Jobs
    BY <1>3 DEF TypeInv, TypeOK, LanesHold, RunRow
  <2>2. jobs' = [jobs EXCEPT ![j] = row]
    BY Zenon, <1>3 DEF Settle, Redacted
  <2> HIDE DEF b
  <2>3. jobs'[j] = row
    BY SMTT(60), <2>1, <2>2 DEF TypeInv, TypeOK
  <2>4. PaidStays(j)
    BY Zenon, <1>1, <2>1, <2>3, RowEditsPay
  <2> HIDE DEF row, j
  <2> QED
    BY Zenon, <1>1, <2>1, <2>2, <2>4, OneJobPays
<1> QED
  BY ZenonT(60), <1>2, <1>3 DEF Deliver, ClaimDelivery, AdmitDelivery, TelegramTakes, CompleteDelivery,
     SendUncertain, SendRejected, Finish

LEMMA TimePays ==
  ASSUME TypeInv, PaidInv,
         Tick \/ RowsReady \/ LeasesExpire \/ (\E l \in Lanes : Crash(l)) \/ UNCHANGED vars
  PROVE  PaidInv'
<1>1. UNCHANGED <<jobs, paid>> /\ clock' \in {clock, clock + 1}
  BY DEF Tick, RowsReady, RunReady, FrameReady, LeasesExpire, ExpireRunLease, ExpireFrameLease, Crash,
         vars
<1> QED
  BY <1>1, SamePaid, AllJobsPay

OccurrenceInv == SchedulerInv /\ PaidInv

LEMMA OccurrenceInvInit == Init => OccurrenceInv
<1>1. Init => PaidInv
  BY DEF Init, PaidInv, PaidUp, NoJobRow, NoTime
<1> QED
  BY <1>1, SchedulerInvInit DEF OccurrenceInv

LEMMA OccurrenceInvStep ==
  ASSUME OccurrenceInv, [Next]_vars
  PROVE  OccurrenceInv'
<1>1. TypeInv /\ PaidInv /\ SchedulerInv
  BY DEF OccurrenceInv, SchedulerInv, DeliveryInv
<1>2. PaidInv'
  BY <1>1, OwnerPays, RecoverPays, ClaimDueRunPays, ExecutePays, DeliverPays, TimePays
     DEF Next, LaneStep
<1> QED
  BY <1>1, <1>2, SchedulerInvStep DEF OccurrenceInv

\* The runs that a step makes for the schedule are of what is owed.
LEMMA NewRunsAreOwed ==
  ASSUME OccurrenceInv, [Next]_vars, NEW r \in Runs, runs[r].status = "none",
         runs'[r].trigger \in {"schedule", "catchup"}, runs'[r].status # "none"
  PROVE  \E j \in Jobs : /\ runs'[r].job = j /\ runs'[r].due = Owed(j)
                         /\ ~LookRaises(j) /\ Owed(j) # NoTime
<1>1. TypeInv /\ RowsInv /\ SchedulerInv
  BY DEF OccurrenceInv, SchedulerInv, DeliveryInv
<1>2. NewRunStep
  BY <1>1, SchedulerInvStep DEF NothingMade
<1>3. ASSUME NEW n, NEW row, runs' = [runs EXCEPT ![n] = row]
      PROVE  runs'[r] = row
  <2>1. runs'[r] # runs[r]
    OBVIOUS
  <2> QED
    BY <1>1, <1>3, <2>1 DEF TypeInv, TypeOK
<1>4. CASE \E j \in Jobs : RunNow(j)
  <2>1. PICK j \in Jobs :
          runs' = [runs EXCEPT ![made + 1] = NewRun(j, clock, "manual", jobs[j].revision)]
    BY <1>4 DEF RunNow
  <2> DEFINE row == NewRun(j, clock, "manual", jobs[j].revision)
  <2>2. row.trigger = "manual"
    BY DEF NewRun, NoRunRow
  <2> HIDE DEF row
  <2>3. runs'[r] = row
    BY <1>3, <2>1 DEF row
  <2> QED
    BY <2>2, <2>3
<1>5. CASE \E l \in Lanes : ClaimOccurrence(l)
  <2>1. PICK l \in Lanes, j \in Jobs :
          /\ ~LookRaises(j)
          /\ MakeRun(l, j, TriggerOf(j), IF TriggerOf(j) = "lifecycle" THEN clock ELSE Owed(j))
    BY <1>5 DEF ClaimOccurrence
  <2> DEFINE due == IF TriggerOf(j) = "lifecycle" THEN clock ELSE Owed(j)
             revision == jobs[j].revision + (IF TriggerOf(j) = "lifecycle" THEN 1 ELSE 0)
             row == NewRun(j, due, TriggerOf(j), revision)
             claimed == [row EXCEPT !.status = "leased", !.expired = FALSE, !.holder = l]
  <2>2. runs' = [runs EXCEPT ![made + 1] = claimed]
    BY Zenon, <2>1 DEF MakeRun, Claim
  <2>3. claimed.job = j /\ claimed.due = due /\ claimed.trigger = TriggerOf(j)
    BY DEF NewRun, NoRunRow
  <2> HIDE DEF row, claimed
  <2>4. runs'[r].job = j /\ runs'[r].due = due /\ runs'[r].trigger = TriggerOf(j)
    BY <1>3, <2>2, <2>3
  <2>5. TriggerOf(j) # "lifecycle" /\ Owed(j) # NoTime
    BY <2>4 DEF TriggerOf
  <2> QED
    BY <2>1, <2>4, <2>5
<1> QED
  BY <1>2, <1>4, <1>5 DEF NewRunStep

\* No occurrence of a schedule is run twice under one definition of the job,
\* through pauses, retries and ends. (OccurrenceRunOnce.)
THEOREM SchedulerRunsOnce == Spec => OccurrenceRunOnce
<1>1. OccurrenceInv /\ [Next]_vars =>
        [\A r \in Runs :
           (runs[r].status = "none" /\ runs'[r].trigger \in {"schedule", "catchup"}
             /\ runs'[r].status # "none")
           => \A t \in paid[runs'[r].job] : runs'[r].due > t]_vars
  <2> SUFFICES ASSUME OccurrenceInv, [Next]_vars, NEW r \in Runs, runs[r].status = "none",
                      runs'[r].trigger \in {"schedule", "catchup"}, runs'[r].status # "none"
               PROVE  \A t \in paid[runs'[r].job] : runs'[r].due > t
    OBVIOUS
  <2>1. TypeInv /\ PaidInv
    BY DEF OccurrenceInv, SchedulerInv, DeliveryInv
  <2> QED
    BY <2>1, NewRunsAreOwed, OwedIsNew
<1> QED
  BY <1>1, OccurrenceInvInit, OccurrenceInvStep, PTL DEF Spec, OccurrenceRunOnce

\* Nor is one run before its time, or that the job does not live to.
\* (OccurrenceInTime.)
THEOREM SchedulerRunsInTime == Spec => OccurrenceInTime
<1>1. OccurrenceInv /\ [Next]_vars =>
        [\A r \in Runs :
           (runs[r].status = "none" /\ runs'[r].trigger \in {"schedule", "catchup"}
             /\ runs'[r].status # "none")
           => LET ends == jobs[runs'[r].job].def.ends
              IN runs'[r].due <= clock /\ (ends = NoTime \/ runs'[r].due < ends)]_vars
  <2> SUFFICES ASSUME OccurrenceInv, [Next]_vars, NEW r \in Runs, runs[r].status = "none",
                      runs'[r].trigger \in {"schedule", "catchup"}, runs'[r].status # "none"
               PROVE  LET ends == jobs[runs'[r].job].def.ends
                      IN runs'[r].due <= clock /\ (ends = NoTime \/ runs'[r].due < ends)
    OBVIOUS
  <2>1. TypeInv /\ PaidInv
    BY DEF OccurrenceInv, SchedulerInv, DeliveryInv
  <2> QED
    BY <2>1, NewRunsAreOwed, OwedIsNew
<1> QED
  BY <1>1, OccurrenceInvInit, OccurrenceInvStep, PTL DEF Spec, OccurrenceInTime

-----------------------------------------------------------------------------
(* The tables implement the ledger: how its state is read from the rows *)

FrameStatus == {"none"} \cup OpenFrame \cup FinalFrame
RunStatus   == {"none"} \cup OpenRun \cup FinalRun
FateOf      == {"none", "waiting", "out", "delivered", "dropped", "unknown"}
PhaseOf     == {"none", "open", "answered", "withdrawn"}

LEMMA FateReads ==
  ASSUME NEW status \in FrameStatus
  PROVE  /\ Fate(status) \in FateOf
         /\ Fate(status) \in {"waiting", "out"} <=> status \in OpenFrame
         /\ Fate(status) = "waiting" <=> status \in OpenFrame \ {"sending"}
         /\ Fate(status) = "out" <=> status = "sending"
         /\ Fate(status) = "dropped" <=> status \in {"exhausted", "suppressed"}
         /\ Fate(status) = "none" <=> status = "none"
         /\ Fate(status) = "delivered" <=> status = "delivered"
         /\ Fate(status) = "unknown" <=> status = "unknown"
BY DEF Fate, FrameStatus, OpenFrame, FinalFrame, FateOf

LEMMA PhaseReads ==
  ASSUME NEW status \in RunStatus
  PROVE  /\ Phase(status) \in PhaseOf
         /\ Phase(status) = "open" <=> status \in OpenRun
         /\ Phase(status) = "none" <=> status = "none"
         /\ Phase(status) = "answered" <=> status \in {"succeeded", "failed"}
         /\ Phase(status) = "withdrawn" <=> status = "invalidated"
BY DEF Phase, RunStatus, OpenRun, FinalRun, PhaseOf

\* The ledger's functions, before and after a step.
LEMMA Readings ==
  /\ \A j \in Jobs : Standing[j] = jobs[j].status /\ Standing'[j] = jobs'[j].status
  /\ \A r \in Runs :
       /\ JobOf[r] = IF runs[r].status = "none" THEN NoJob ELSE runs[r].job
       /\ JobOf'[r] = IF runs'[r].status = "none" THEN NoJob ELSE runs'[r].job
       /\ Phases[r] = Phase(runs[r].status) /\ Phases'[r] = Phase(runs'[r].status)
  /\ \A r \in Runs, f \in Frames :
       /\ Fates[r][f] = Fate(frames[r][f].status) /\ Fates'[r][f] = Fate(frames'[r][f].status)
       /\ <<r, f>> \in Appeared <=> shown[r][f] > 0
       /\ <<r, f>> \in Appeared' <=> shown'[r][f] > 0
  /\ \A j \in Jobs : /\ j \in Forgotten <=> jobs[j].redacted
                     /\ j \in Forgotten' <=> jobs'[j].redacted
BY DEF Standing, JobOf, Phases, Fates, Appeared, Forgotten

LEMMA OneStanding ==
  ASSUME NEW j \in Jobs, \A i \in Jobs : i # j => jobs'[i].status = jobs[i].status
  PROVE  Standing' = [Standing EXCEPT ![j] = jobs'[j].status]
BY DEF Standing

LEMMA OnePhase ==
  ASSUME NEW n \in Runs, \A r \in Runs : r # n => runs'[r] = runs[r]
  PROVE  /\ Phases' = [Phases EXCEPT ![n] = Phase(runs'[n].status)]
         /\ JobOf' = [JobOf EXCEPT ![n] = JobOf'[n]]
<1>1. /\ Phases = [r \in Runs |-> Phases[r]] /\ Phases' = [r \in Runs |-> Phases'[r]]
      /\ JobOf = [r \in Runs |-> JobOf[r]] /\ JobOf' = [r \in Runs |-> JobOf'[r]]
  BY DEF Phases, JobOf
<1>2. \A r \in Runs : r # n => Phases'[r] = Phases[r] /\ JobOf'[r] = JobOf[r]
  BY DEF Phases, JobOf
<1>3. Phases'[n] = Phase(runs'[n].status)
  BY DEF Phases
<1> QED
  BY <1>1, <1>2, <1>3

\* They are functions.
LEMMA LedgerFunctions ==
  /\ Standing = [j \in Jobs |-> Standing[j]]
  /\ JobOf = [r \in Runs |-> JobOf[r]]
  /\ Phases = [r \in Runs |-> Phases[r]]
  /\ Fates = [r \in Runs |-> [f \in Frames |-> Fates[r][f]]]
BY DEF Standing, JobOf, Phases, Fates

-----------------------------------------------------------------------------
(* What a step leaves of the ledger *)

\* A run is of the same job, and as open or as ended as before.
RunsHold ==
  \A r \in Runs :
    /\ runs'[r].job = runs[r].job
    /\ \/ runs'[r].status = runs[r].status
       \/ runs'[r].status \in OpenRun /\ runs[r].status \in OpenRun

\* A frame is as far as before.
FramesHold == \A r \in Runs, f \in Frames : Fate(frames'[r][f].status) = Fate(frames[r][f].status)

JobsHold ==
  \A j \in Jobs : jobs'[j].status = jobs[j].status /\ jobs'[j].redacted = jobs[j].redacted

LEMMA RunsHolding ==
  ASSUME RunsHold
  PROVE  UNCHANGED <<JobOf, Phases>>
<1>1. \A r \in Runs : Phase(runs'[r].status) = Phase(runs[r].status)
  <2>1. \A s \in OpenRun : Phase(s) = "open"
    BY PhaseReads DEF RunStatus
  <2> QED
    BY <2>1 DEF RunsHold
<1>2. \A r \in Runs : runs'[r].status = "none" <=> runs[r].status = "none"
  BY DEF RunsHold, OpenRun
<1>3. JobOf' = JobOf
  BY <1>2 DEF JobOf, RunsHold
<1>4. Phases' = Phases
  BY <1>1 DEF Phases
<1> QED
  BY <1>3, <1>4

LEMMA FramesHolding == FramesHold => UNCHANGED Fates
BY DEF FramesHold, Fates

LEMMA JobsHolding == JobsHold => UNCHANGED <<Standing, Forgotten>>
BY DEF JobsHold, Standing, Forgotten

LEMMA ShownHolding == UNCHANGED shown => UNCHANGED Appeared
BY DEF Appeared

LEMMA SameRowsHold ==
  /\ UNCHANGED runs => RunsHold
  /\ UNCHANGED frames => FramesHold
  /\ UNCHANGED jobs => JobsHold
BY DEF RunsHold, FramesHold, JobsHold

LEMMA LedgerStays ==
  ASSUME RunsHold, FramesHold, JobsHold, UNCHANGED <<shown, paid>>
  PROVE  UNCHANGED Ledger!vars
BY RunsHolding, FramesHolding, JobsHolding, ShownHolding DEF Ledger!vars

LEMMA OneRunHolds ==
  ASSUME TypeInv, NEW r \in Runs, NEW row, runs' = [runs EXCEPT ![r] = row],
         row.job = runs[r].job,
         row.status = runs[r].status \/ (row.status \in OpenRun /\ runs[r].status \in OpenRun)
  PROVE  RunsHold
<1>1. \A q \in Runs : runs'[q] = IF q = r THEN row ELSE runs[q]
  BY DEF TypeInv, TypeOK
<1> QED
  BY <1>1 DEF RunsHold

LEMMA OneFrameWritten ==
  ASSUME TypeInv, NEW r \in Runs, NEW f \in Frames, NEW row,
         frames' = [frames EXCEPT ![r][f] = row]
  PROVE  \A q \in Runs, e \in Frames :
           frames'[q][e] = IF q = r /\ e = f THEN row ELSE frames[q][e]
BY DEF TypeInv, TypeOK

LEMMA OneFrameHolds ==
  ASSUME TypeInv, NEW r \in Runs, NEW f \in Frames, NEW row,
         frames' = [frames EXCEPT ![r][f] = row],
         Fate(row.status) = Fate(frames[r][f].status)
  PROVE  FramesHold
BY OneFrameWritten DEF FramesHold

-----------------------------------------------------------------------------
(* What is left to do, in the rows and in the ledger *)

\* The run is open, or a frame of it is.
Working(r) == runs[r].status \in OpenRun \/ \E f \in Frames : frames[r][f].status \in OpenFrame

WorkIsRead ==
  /\ \A r \in Runs : Ledger!AtWork(r) <=> Working(r)
  /\ \A r \in Runs : Working(r) => runs[r].status # "none"
  /\ \A j \in Jobs, r \in Runs : JobOf[r] = j <=> r \in RunsOf(j)
  /\ \A j \in Jobs : Ledger!Busy(j) <=> Busy(j)

LEMMA WorkReads == TypeInv /\ RowsInv => WorkIsRead
<1> SUFFICES ASSUME TypeInv, RowsInv PROVE WorkIsRead
  OBVIOUS
<1>1. \A r \in Runs : /\ runs[r].status \in RunStatus /\ runs[r].job \in Jobs
                      /\ \A f \in Frames : frames[r][f].status \in FrameStatus
  BY DEF TypeInv, TypeOK, RunRow, FrameRow, RunStatus, FrameStatus
<1>2. ASSUME NEW r \in Runs PROVE Ledger!AtWork(r) <=> Working(r)
  <2>1. Phases[r] = "open" <=> runs[r].status \in OpenRun
    BY <1>1, PhaseReads, Readings
  <2>2. \A f \in Frames : Fates[r][f] \in {"waiting", "out"} <=> frames[r][f].status \in OpenFrame
    <3> TAKE f \in Frames
    <3>1. frames[r][f].status \in FrameStatus
      BY <1>1
    <3>2. Fate(frames[r][f].status) \in {"waiting", "out"} <=> frames[r][f].status \in OpenFrame
      BY <3>1, FateReads
    <3>3. Fates[r][f] = Fate(frames[r][f].status)
      BY Readings
    <3> QED
      BY <3>2, <3>3
  <2> QED
    BY <2>1, <2>2 DEF Ledger!AtWork, Ledger!Unsettled, Working
<1>3. ASSUME NEW r \in Runs, Working(r) PROVE runs[r].status # "none"
  BY <1>3 DEF Working, RowsInv, FramesFollowRuns, Unended, OpenRun, OpenFrame
<1>4. ASSUME NEW j \in Jobs, NEW r \in Runs PROVE JobOf[r] = j <=> r \in RunsOf(j)
  <2>1. j # NoJob
    BY CronAssumption DEF NoJob
  <2> QED
    BY <2>1, Readings DEF RunsOf
<1>5. ASSUME NEW j \in Jobs PROVE Ledger!Busy(j) <=> Busy(j)
  <2>1. Ledger!Busy(j) <=> \E r \in Runs : r \in RunsOf(j) /\ Working(r)
    BY <1>2, <1>4, <1>5 DEF Ledger!Busy
  <2>2. RunsOf(j) \subseteq Runs
    BY DEF RunsOf
  <2> QED
    BY <2>1, <2>2 DEF Busy, Working
<1> QED
  BY <1>2, <1>3, <1>4, <1>5 DEF WorkIsRead

LEMMA WorkReadsNext == TypeInv' /\ RowsInv' => WorkIsRead'
BY WorkReads, PTL


-----------------------------------------------------------------------------
(* What follows from the ledger's steps *)

\* A step that lets no run begin.
NothingBegins ==
  /\ JobOf' = JobOf
  /\ \A r \in Runs : Ledger!AtWork(r)' => Ledger!AtWork(r)

\* A job that is over stays so.
OverStays == \A j \in Jobs : Standing[j] \in Ledger!Over => Standing'[j] \in Ledger!Over

LEMMA SettlingBeginsNothing ==
  ASSUME UNCHANGED <<JobOf, Phases>>,
         \A r \in Runs, f \in Frames :
           Fates'[r][f] \in Ledger!Unsettled => Fates[r][f] \in Ledger!Unsettled
  PROVE  NothingBegins
BY DEF NothingBegins, Ledger!AtWork

LEMMA OneFateWritten ==
  ASSUME NEW r \in Runs, NEW f \in Frames, NEW fate, Fates' = [Fates EXCEPT ![r][f] = fate]
  PROVE  \A q \in Runs, e \in Frames :
           Fates'[q][e] = IF q = r /\ e = f THEN fate ELSE Fates[q][e]
<1>1. \A q \in Runs : Fates[q] = [e \in Frames |-> Fates[q][e]]
  BY DEF Fates
<1>2. Fates = [q \in Runs |-> Fates[q]]
  BY DEF Fates
<1> QED
  BY <1>1, <1>2

LEMMA FrameStepBeginsNothing ==
  ASSUME NEW r \in Runs, NEW f \in Frames, Ledger!OfFrame(r, f)
  PROVE  NothingBegins /\ UNCHANGED Standing
<1>1. UNCHANGED <<JobOf, Phases, Standing>>
  BY DEF Ledger!OfFrame, Ledger!Send, Ledger!Appear, Ledger!Return, Ledger!Settle
<1>2. CASE Ledger!Appear(r, f)
  BY <1>1, <1>2, SettlingBeginsNothing DEF Ledger!Appear
<1>3. CASE Ledger!Send(r, f) \/ Ledger!Return(r, f) \/ Ledger!Settle(r, f)
  <2>1. \E fate : Fates' = [Fates EXCEPT ![r][f] = fate]
    BY <1>3 DEF Ledger!Send, Ledger!Return, Ledger!Settle
  <2>2. \A q \in Runs, e \in Frames : <<q, e>> # <<r, f>> => Fates'[q][e] = Fates[q][e]
    BY <2>1, OneFateWritten
  <2>3. Fates[r][f] \in Ledger!Unsettled
    BY <1>3 DEF Ledger!Send, Ledger!Return, Ledger!Settle, Ledger!Unsettled
  <2> QED
    BY <1>1, <2>2, <2>3, SettlingBeginsNothing
<1> QED
  BY <1>1, <1>2, <1>3 DEF Ledger!OfFrame

LEMMA LoseTrackBeginsNothing ==
  ASSUME NEW S, Ledger!LoseTrack(S)
  PROVE  NothingBegins /\ UNCHANGED Standing
<1>1. UNCHANGED <<JobOf, Phases, Standing>>
  BY DEF Ledger!LoseTrack
<1>2. \A r \in Runs, f \in Frames :
        Fates'[r][f] \in Ledger!Unsettled => Fates[r][f] \in Ledger!Unsettled
  BY DEF Ledger!LoseTrack, Ledger!Unsettled
<1> QED
  BY <1>1, <1>2, SettlingBeginsNothing

LEMMA EditBeginsNothing ==
  ASSUME NEW j \in Jobs, NEW to \in {"active", "paused", "cancelled"}, Ledger!Edit(j, to)
  PROVE  NothingBegins /\ OverStays
<1>1. NothingBegins
  <2>1. \A r \in Runs : Phases'[r] = "open" => Phases[r] = "open"
    BY DEF Ledger!Edit
  <2>2. \A r \in Runs, f \in Frames :
          Fates'[r][f] \in Ledger!Unsettled => Fates[r][f] \in Ledger!Unsettled
    BY DEF Ledger!Edit, Ledger!Unsettled
  <2>3. JobOf' = JobOf
    BY DEF Ledger!Edit
  <2> QED
    BY <2>1, <2>2, <2>3 DEF NothingBegins, Ledger!AtWork
<1>2. OverStays
  <2>1. \A i \in Jobs : Standing'[i] = IF i = j THEN to ELSE Standing[i]
    BY LedgerFunctions DEF Ledger!Edit
  <2> QED
    BY <2>1 DEF Ledger!Edit, OverStays, Ledger!Over
<1> QED
  BY <1>1, <1>2

LEMMA AnswerBeginsNothing ==
  ASSUME NEW r \in Runs, NEW last, NEW to, Ledger!Answer(r, last, to)
  PROVE  NothingBegins /\ OverStays
<1>1. NothingBegins
  <2>1. \A q \in Runs : q # r => Phases'[q] = Phases[q] /\ Fates'[q] = Fates[q]
    BY LedgerFunctions DEF Ledger!Answer
  <2>2. Ledger!AtWork(r)
    BY DEF Ledger!Answer, Ledger!AtWork
  <2>3. JobOf' = JobOf
    BY DEF Ledger!Answer
  <2> QED
    BY <2>1, <2>2, <2>3 DEF NothingBegins, Ledger!AtWork
<1>2. OverStays
  <2>1. /\ Standing' = [Standing EXCEPT ![JobOf[r]] = to]
        /\ to \in {Standing[JobOf[r]], "ended"}
    BY DEF Ledger!Answer
  <2>2. \A i \in Jobs : Standing'[i] \in {Standing[i], "ended"}
    BY <2>1, LedgerFunctions
  <2> QED
    BY <2>2 DEF OverStays, Ledger!Over
<1> QED
  BY <1>1, <1>2

\* A run that begins is the only one of its job, which was not over.
LEMMA BeginKeeps ==
  ASSUME Ledger!OneTask, Ledger!ForgottenIsDone, NEW j \in Jobs, NEW r \in Runs,
         Ledger!Begin(j, r), NEW to, Standing' \in {Standing, [Standing EXCEPT ![j] = to]}
  PROVE  (Ledger!OneTask /\ Ledger!ForgottenIsDone)'
<1>1. /\ Standing[j] = "active" /\ ~Ledger!Busy(j)
      /\ UNCHANGED <<Fates, Forgotten>>
      /\ Phases' = [Phases EXCEPT ![r] = "open"] /\ JobOf' = [JobOf EXCEPT ![r] = j]
  BY DEF Ledger!Begin
<1>2. \A q \in Runs : q # r => JobOf'[q] = JobOf[q] /\ (Ledger!AtWork(q)' <=> Ledger!AtWork(q))
  <2>1. \A q \in Runs : q # r => Phases'[q] = Phases[q] /\ JobOf'[q] = JobOf[q]
    BY <1>1, LedgerFunctions
  <2> QED
    BY <1>1, <2>1 DEF Ledger!AtWork
<1>3. JobOf'[r] = j
  BY <1>1, LedgerFunctions
<1>4. \A q \in Runs : JobOf[q] = j => ~Ledger!AtWork(q)
  BY <1>1 DEF Ledger!Busy
<1>5. Ledger!OneTask'
  BY <1>2, <1>3, <1>4 DEF Ledger!OneTask
<1>6. Ledger!ForgottenIsDone'
  <2> SUFFICES ASSUME NEW i \in Forgotten
               PROVE  Standing'[i] \in Ledger!Over /\ ~Ledger!Busy(i)'
    BY <1>1 DEF Ledger!ForgottenIsDone
  <2>1. i \in Jobs /\ Standing[i] \in Ledger!Over /\ ~Ledger!Busy(i)
    BY DEF Ledger!ForgottenIsDone, Forgotten
  <2>2. i # j
    BY <1>1, <2>1 DEF Ledger!Over
  <2>3. Standing'[i] = Standing[i]
    BY <2>1, <2>2, LedgerFunctions
  <2> QED
    BY <1>2, <1>3, <2>1, <2>2, <2>3 DEF Ledger!Busy
<1> QED
  BY <1>5, <1>6

\* The other steps.
LEMMA QuietKeeps ==
  ASSUME Ledger!OneTask, Ledger!ForgottenIsDone, NothingBegins, OverStays,
         Forgotten' = Forgotten \/ Ledger!Forget
  PROVE  (Ledger!OneTask /\ Ledger!ForgottenIsDone)'
<1>1. Ledger!OneTask'
  BY DEF Ledger!OneTask, NothingBegins
<1>2. Ledger!ForgottenIsDone'
  <2> SUFFICES ASSUME NEW j \in Forgotten'
               PROVE  Standing'[j] \in Ledger!Over /\ ~Ledger!Busy(j)'
    BY DEF Ledger!ForgottenIsDone
  <2>1. CASE j \in Forgotten
    <3>1. j \in Jobs /\ Standing[j] \in Ledger!Over /\ ~Ledger!Busy(j)
      BY <2>1 DEF Ledger!ForgottenIsDone, Forgotten
    <3> QED
      BY <3>1 DEF OverStays, NothingBegins, Ledger!Busy
  <2>2. CASE j \notin Forgotten
    BY <2>2 DEF Ledger!Forget
  <2> QED
    BY <2>1, <2>2
<1> QED
  BY <1>1, <1>2

LEMMA LedgerKeeps ==
  ASSUME Ledger!OneTask, Ledger!ForgottenIsDone, [Ledger!Next]_Ledger!vars
  PROVE  (Ledger!OneTask /\ Ledger!ForgottenIsDone)'
<1>1. UNCHANGED Standing => OverStays
  BY DEF OverStays
<1>2. CASE UNCHANGED Ledger!vars
  <2>1. UNCHANGED <<Standing, JobOf, Phases, Fates, Forgotten>>
    BY <1>2 DEF Ledger!vars
  <2> QED
    BY <1>1, <2>1, QuietKeeps, SettlingBeginsNothing
<1>3. ASSUME NEW j \in Jobs, Ledger!OfJob(j)
      PROVE  (Ledger!OneTask /\ Ledger!ForgottenIsDone)'
  <2>1. CASE Ledger!Create(j)
    <3>1. UNCHANGED <<JobOf, Phases, Fates, Forgotten>>
      BY <2>1 DEF Ledger!Create
    <3>2. OverStays
      <4>1. /\ Standing[j] = "none"
            /\ \A i \in Jobs : i # j => Standing'[i] = Standing[i]
        BY <2>1, LedgerFunctions DEF Ledger!Create
      <4> QED
        BY <4>1 DEF OverStays, Ledger!Over
    <3> QED
      BY <3>1, <3>2, QuietKeeps, SettlingBeginsNothing
  <2>2. CASE \E to \in {"active", "paused", "cancelled"} : Ledger!Edit(j, to)
    BY ZenonT(60), <2>2, EditBeginsNothing, QuietKeeps DEF Ledger!Edit
  <2>3. CASE \E r \in Runs, t \in 0..MaxTime : Ledger!Take(j, r, t)
    BY <2>3, BeginKeeps DEF Ledger!Take
  <2>4. CASE \E r \in Runs, to \in {"active", "ended"} : Ledger!Extra(j, r, to)
    <3>1. PICK r \in Runs, to \in {"active", "ended"} : Ledger!Extra(j, r, to)
      BY <2>4
    <3>2. Ledger!Begin(j, r)
      BY <3>1 DEF Ledger!Extra
    <3>3. Standing' \in {Standing, [Standing EXCEPT ![j] = to]}
      BY <3>1 DEF Ledger!Extra
    <3> QED
      BY <3>2, <3>3, BeginKeeps
  <2> QED
    BY <1>3, <2>1, <2>2, <2>3, <2>4 DEF Ledger!OfJob
<1>4. ASSUME NEW r \in Runs, NEW last \in Frames, NEW to \in {"active", "ended"},
             Ledger!Answer(r, last, to)
      PROVE  (Ledger!OneTask /\ Ledger!ForgottenIsDone)'
  <2>1. UNCHANGED Forgotten
    BY <1>4 DEF Ledger!Answer
  <2>2. NothingBegins /\ OverStays
    BY <1>4, AnswerBeginsNothing
  <2> QED
    BY <2>1, <2>2, QuietKeeps
<1>5. ASSUME NEW r \in Runs, NEW f \in Frames, Ledger!OfFrame(r, f)
      PROVE  (Ledger!OneTask /\ Ledger!ForgottenIsDone)'
  <2>1. Forgotten' = Forgotten \/ Ledger!Forget
    BY <1>5 DEF Ledger!OfFrame, Ledger!Send, Ledger!Appear, Ledger!Return, Ledger!Settle
  <2> QED
    BY <1>1, <1>5, <2>1, FrameStepBeginsNothing, QuietKeeps
<1>6. ASSUME NEW S, Ledger!LoseTrack(S)
      PROVE  (Ledger!OneTask /\ Ledger!ForgottenIsDone)'
  <2>1. Ledger!Forget
    BY <1>6 DEF Ledger!LoseTrack
  <2> QED
    BY <1>1, <1>6, <2>1, LoseTrackBeginsNothing, QuietKeeps
<1> QED
  BY <1>2, <1>3, <1>4, <1>5, <1>6 DEF Ledger!Next

-----------------------------------------------------------------------------
(* What Telegram took has been shown, and the clock stays within its bound *)

TakenIsShown ==
  \A l \in Lanes : lanes[l].pc = "accepted" => shown[lanes[l].run][lanes[l].frame] = 1

InTime == clock <= MaxTime

\* A step after which no lane newly has Telegram's answer.
NobodyTakes == \A l \in Lanes : lanes'[l].pc = "accepted" => lanes'[l] = lanes[l]

LEMMA NobodyTakesKeeps ==
  ASSUME TakenIsShown, NobodyTakes, UNCHANGED shown
  PROVE  TakenIsShown'
BY DEF TakenIsShown, NobodyTakes

\* A lane that goes on to something else.
LEMMA LaneTakesNot ==
  ASSUME TypeInv, NEW l \in Lanes, NEW lane, lane.pc # "accepted",
         lanes' = [lanes EXCEPT ![l] = lane]
  PROVE  NobodyTakes
BY DEF TypeInv, TypeOK, NobodyTakes

LEMMA LanePcs ==
  ASSUME TypeInv, NEW l \in Lanes
  PROVE  /\ \A pc : [lanes[l] EXCEPT !.pc = pc].pc = pc
         /\ \A b : [lanes[l] EXCEPT !.lost = b].pc = lanes[l].pc
         /\ \A r, b : [lanes[l] EXCEPT !.pc = "claimed", !.run = r, !.first = b].pc = "claimed"
         /\ \A b : Resting(b).pc = "idle"
         /\ \A b, pc : [Resting(b) EXCEPT !.pc = pc].pc = pc
         /\ \A b, pc, r, f : [Resting(b) EXCEPT !.pc = pc, !.run = r, !.frame = f].pc = pc
BY DEF TypeInv, TypeOK, Lane, Resting

LEMMA RestsTakesNot ==
  ASSUME TypeInv, NEW l \in Lanes, NEW b, lanes' = [lanes EXCEPT ![l] = Resting(b)]
  PROVE  NobodyTakes
<1>1. Resting(b).pc # "accepted"
  BY DEF Resting
<1> QED
  BY <1>1, LaneTakesNot

LEMMA ClaimDueRunTakesNot ==
  ASSUME TypeInv, NEW l \in Lanes, ClaimDueRun(l)
  PROVE  NobodyTakes
<1>1. ASSUME NEW r, NEW row, Claim(l, r, row) PROVE NobodyTakes
  <2>1. lanes' = [lanes EXCEPT ![l] = [lanes[l] EXCEPT !.pc = "claimed", !.run = r,
                                                      !.first = lanes[l].pc = "first"]]
    BY <1>1 DEF Claim
  <2>2. [lanes[l] EXCEPT !.pc = "claimed", !.run = r, !.first = lanes[l].pc = "first"].pc # "accepted"
    BY LanePcs
  <2> QED
    BY <2>1, <2>2, LaneTakesNot
<1>2. ASSUME TickFails(l) PROVE NobodyTakes
  BY <1>2, RestsTakesNot DEF TickFails
<1>3. ASSUME NothingDue(l) PROVE NobodyTakes
  <2>1. \/ lanes' = [lanes EXCEPT ![l] = [lanes[l] EXCEPT !.pc = "deliver"]]
        \/ lanes' = [lanes EXCEPT ![l] = Resting(lanes[l].prefer)]
    BY <1>3 DEF NothingDue
  <2>2. [lanes[l] EXCEPT !.pc = "deliver"].pc # "accepted"
    BY LanePcs
  <2> QED
    BY <2>1, <2>2, LaneTakesNot, RestsTakesNot
<1>4. CASE ClaimWaitingRun(l)
  BY <1>1, <1>2, <1>4 DEF ClaimWaitingRun
<1>5. CASE ClaimOccurrence(l)
  BY Zenon, <1>1, <1>5 DEF ClaimOccurrence, MakeRun
<1>6. CASE ClaimNothing(l)
  BY <1>2, <1>3, <1>6 DEF ClaimNothing
<1> QED
  BY <1>4, <1>5, <1>6 DEF ClaimDueRun

LEMMA ExecuteTakesNot ==
  ASSUME TypeInv, NEW l \in Lanes, Execute(l)
  PROVE  NobodyTakes
<1>1. ASSUME Executed(l) PROVE NobodyTakes
  BY <1>1, RestsTakesNot DEF Executed
<1>2. UNCHANGED lanes => NobodyTakes
  BY DEF NobodyTakes
<1>3. CASE BeginRun(l)
  <2>1. \/ lanes' = [lanes EXCEPT ![l] = [lanes[l] EXCEPT !.pc = "executing"]]
        \/ lanes' = [lanes EXCEPT ![l] = [Resting(lanes[l].prefer) EXCEPT !.pc = "deliver"]]
        \/ lanes' = [lanes EXCEPT ![l] = Resting(lanes[l].prefer)]
    BY <1>3 DEF BeginRun
  <2>2. /\ [lanes[l] EXCEPT !.pc = "executing"].pc # "accepted"
        /\ [Resting(lanes[l].prefer) EXCEPT !.pc = "deliver"].pc # "accepted"
    BY LanePcs
  <2> QED
    BY <2>1, <2>2, LaneTakesNot, RestsTakesNot
<1>4. CASE RenewLease(l) \/ HeartbeatFails(l)
  <2>1. /\ lanes[l].pc = "executing"
        /\ UNCHANGED lanes \/ lanes' = [lanes EXCEPT ![l] = [lanes[l] EXCEPT !.lost = TRUE]]
    BY <1>4 DEF RenewLease, HeartbeatFails
  <2>2. [lanes[l] EXCEPT !.lost = TRUE].pc # "accepted"
    BY <2>1, LanePcs
  <2> QED
    BY <1>2, <2>1, <2>2, LaneTakesNot
<1>5. CASE FailRun(l)
  BY ZenonT(60), <1>1, <1>5, RestsTakesNot DEF FailRun
<1>6. CASE ResultIsDropped(l) \/ DeferRun(l)
           \/ \E success \in BOOLEAN, n \in 1..MaxFrames : CompleteRun(l, success, n)
  BY Zenon, <1>1, <1>6 DEF ResultIsDropped, DeferRun, CompleteRun
<1> QED
  BY <1>3, <1>4, <1>5, <1>6 DEF Execute

LEMMA DeliverTakesNot ==
  ASSUME TypeInv, NEW l \in Lanes, Deliver(l), ~TelegramTakes(l)
  PROVE  NobodyTakes
<1>1. CASE ClaimDelivery(l)
  <2>1. \/ \E r \in Runs, f \in Frames :
             lanes' = [lanes EXCEPT ![l] = [Resting(TRUE) EXCEPT !.pc = "admit", !.run = r, !.frame = f]]
        \/ lanes' = [lanes EXCEPT ![l] = [Resting(lanes[l].prefer) EXCEPT !.pc = "last"]]
    BY Zenon, <1>1 DEF ClaimDelivery
  <2>2. /\ \A r, f : [Resting(TRUE) EXCEPT !.pc = "admit", !.run = r, !.frame = f].pc # "accepted"
        /\ [Resting(lanes[l].prefer) EXCEPT !.pc = "last"].pc # "accepted"
    BY LanePcs
  <2> QED
    BY ZenonT(60), <2>1, <2>2, LaneTakesNot
<1>2. CASE AdmitDelivery(l)
  <2>1. \/ lanes' = [lanes EXCEPT ![l] = [lanes[l] EXCEPT !.pc = "sending"]]
        \/ lanes' = [lanes EXCEPT ![l] = Resting(lanes[l].prefer)]
    BY <1>2 DEF AdmitDelivery
  <2>2. [lanes[l] EXCEPT !.pc = "sending"].pc # "accepted"
    BY LanePcs
  <2> QED
    BY <2>1, <2>2, LaneTakesNot, RestsTakesNot
<1>3. CASE CompleteDelivery(l) \/ SendUncertain(l) \/ SendRejected(l)
  BY <1>3, RestsTakesNot DEF CompleteDelivery, SendUncertain, SendRejected, Finish
<1> QED
  BY <1>1, <1>2, <1>3 DEF Deliver

LEMMA TakesShows ==
  ASSUME TypeInv, SendInv, TakenIsShown, NEW l \in Lanes, TelegramTakes(l)
  PROVE  TakenIsShown'
<1> DEFINE r == lanes[l].run
           f == lanes[l].frame
<1>1. r \in Runs /\ f \in Frames /\ lanes[l].pc = "sending"
  BY DEF TelegramTakes, TypeInv, TypeOK, LanesHold, Lane
<1>2. shown[r][f] = 0
  BY <1>1 DEF SendInv, SendersKnow
<1>3. \A q \in Runs, e \in Frames : shown'[q][e] = IF q = r /\ e = f THEN 1 ELSE shown[q][e]
  <2>1. shown' = [shown EXCEPT ![r][f] = shown[r][f] + 1]
    BY <1>1 DEF TelegramTakes, TypeInv, TypeOK
  <2> QED
    BY <1>1, <1>2, <2>1 DEF TypeInv, TypeOK
<1>4. /\ lanes'[l].run = r /\ lanes'[l].frame = f
      /\ \A k \in Lanes : k # l => lanes'[k] = lanes[k]
  BY DEF TelegramTakes, TypeInv, TypeOK, Lane
<1> SUFFICES ASSUME NEW k \in Lanes, lanes'[k].pc = "accepted"
             PROVE  shown'[lanes'[k].run][lanes'[k].frame] = 1
  BY DEF TakenIsShown
<1>5. CASE k = l
  BY <1>1, <1>3, <1>4, <1>5
<1>6. CASE k # l
  <2>1. lanes'[k] = lanes[k] /\ lanes[k].run \in Runs /\ lanes[k].frame \in Frames
    BY <1>4, <1>6 DEF TypeInv, TypeOK, LanesHold, Lane
  <2>2. shown[lanes[k].run][lanes[k].frame] = 1
    BY <2>1 DEF TakenIsShown
  <2> QED
    BY <1>3, <2>1, <2>2
<1> QED
  BY <1>5, <1>6

LEMMA TakenIsShownStep ==
  ASSUME TypeInv, SendInv, TakenIsShown, [Next]_vars
  PROVE  TakenIsShown'
<1>1. UNCHANGED lanes => NobodyTakes
  BY DEF NobodyTakes
<1>2. CASE UNCHANGED <<lanes, shown>>
  BY <1>1, <1>2, NobodyTakesKeeps
<1>3. ASSUME NEW l \in Lanes, Crash(l) PROVE TakenIsShown'
  BY ZenonT(60), <1>3, RestsTakesNot, NobodyTakesKeeps DEF Crash
<1>4. ASSUME NEW l \in Lanes, LaneStep(l) PROVE TakenIsShown'
  <2>1. CASE Recover(l)
    <3>1. lanes' = [lanes EXCEPT ![l] = [lanes[l] EXCEPT !.pc = IF lanes[l].prefer THEN "first"
                                                                ELSE "deliver"]]
      BY Zenon, <2>1 DEF Recover, TypeInv, TypeOK
    <3>2. [lanes[l] EXCEPT !.pc = IF lanes[l].prefer THEN "first" ELSE "deliver"].pc # "accepted"
      BY LanePcs
    <3> QED
      BY Zenon, <2>1, <3>1, <3>2, LaneTakesNot, NobodyTakesKeeps DEF Recover
  <2>2. CASE ClaimDueRun(l)
    BY <2>2, ClaimDueRunTakesNot, NobodyTakesKeeps DEF ClaimDueRun
  <2>3. CASE Execute(l)
    <3>1. UNCHANGED shown
      BY Zenon, <2>3 DEF Execute, BeginRun, RenewLease, HeartbeatFails, CompleteRun, ResultIsDropped,
                  FailRun, DeferRun
    <3> QED
      BY SMTT(60), <2>3, <3>1, ExecuteTakesNot, NobodyTakesKeeps
  <2>4. CASE Deliver(l) /\ ~TelegramTakes(l)
    <3>1. UNCHANGED shown
      BY Zenon, <2>4 DEF Deliver, ClaimDelivery, AdmitDelivery, CompleteDelivery, SendUncertain,
                  SendRejected, Finish
    <3> QED
      BY SMTT(60), <2>4, <3>1, DeliverTakesNot, NobodyTakesKeeps
  <2>5. CASE TelegramTakes(l)
    BY <2>5, TakesShows
  <2> QED
    BY <1>4, <2>1, <2>2, <2>3, <2>4, <2>5 DEF LaneStep
<1>5. CASE Tick \/ Owner \/ RowsReady \/ LeasesExpire \/ UNCHANGED vars
  <2>1. UNCHANGED <<lanes, shown>>
    BY ZenonT(60), <1>5 DEF Tick, Owner, Create, Update, Pause, Resume, Delete, RunNow, Edit, RowsReady,
                RunReady, FrameReady, LeasesExpire, ExpireRunLease, ExpireFrameLease, vars
  <2> QED
    BY SMTT(60), <1>2, <2>1
<1> QED
  BY <1>3, <1>4, <1>5 DEF Next

LEMMA InTimeStep ==
  ASSUME TypeInv, InTime, [Next]_vars
  PROVE  InTime'
<1>1. clock \in Int /\ MaxTime \in Int
  BY CronAssumption DEF TypeInv, TypeOK, Time
<1>2. CASE Tick
  BY <1>1, <1>2 DEF Tick, InTime
<1>3. CASE ~Tick
  <2>1. (Owner => UNCHANGED clock) /\ (UNCHANGED vars => UNCHANGED clock)
    BY Zenon DEF Owner, Create, Update, Pause, Resume, Delete, RunNow, Edit, vars
  <2>2. RowsReady \/ LeasesExpire => UNCHANGED clock
    BY Zenon DEF RowsReady, RunReady, FrameReady, LeasesExpire, ExpireRunLease, ExpireFrameLease
  <2>3. ASSUME NEW l \in Lanes, Crash(l) \/ Recover(l) \/ ClaimDueRun(l) PROVE UNCHANGED clock
    BY Zenon, <2>3 DEF Crash, Recover, ClaimDueRun
  <2>4. ASSUME NEW l \in Lanes, Execute(l) PROVE UNCHANGED clock
    BY Zenon, <2>4 DEF Execute, BeginRun, RenewLease, HeartbeatFails, CompleteRun, ResultIsDropped,
                FailRun, DeferRun, Finish
  <2>5. ASSUME NEW l \in Lanes, Deliver(l) PROVE UNCHANGED clock
    BY Zenon, <2>5 DEF Deliver, ClaimDelivery, AdmitDelivery, TelegramTakes, CompleteDelivery,
                SendUncertain, SendRejected, Finish
  <2>6. UNCHANGED clock
    BY <1>3, <2>1, <2>2, <2>3, <2>4, <2>5 DEF Next, LaneStep
  <2> QED
    BY <2>6 DEF InTime
<1> QED
  BY <1>2, <1>3

LedgerInv ==
  /\ OccurrenceInv
  /\ TakenIsShown
  /\ InTime
  /\ Ledger!OneTask
  /\ Ledger!ForgottenIsDone

-----------------------------------------------------------------------------
(* Time, failures and the owner *)

LEMMA TimeStays ==
  ASSUME TypeInv, Tick \/ RowsReady \/ LeasesExpire \/ \E l \in Lanes : Crash(l)
  PROVE  UNCHANGED Ledger!vars
<1>1. CASE Tick \/ \E l \in Lanes : Crash(l)
  BY <1>1, SameRowsHold, LedgerStays DEF Tick, Crash
<1>2. CASE \E r \in Runs : RunReady(r) \/ ExpireRunLease(r)
  <2>1. PICK r \in Runs : RunReady(r) \/ ExpireRunLease(r)
    BY <1>2
  <2>2. /\ UNCHANGED <<jobs, frames, shown, paid>>
        /\ \/ runs' = [runs EXCEPT ![r] = [runs[r] EXCEPT !.ready = TRUE]]
           \/ runs' = [runs EXCEPT ![r] = [runs[r] EXCEPT !.expired = TRUE]]
    BY <2>1 DEF RunReady, ExpireRunLease
  <2>3. /\ [runs[r] EXCEPT !.ready = TRUE].job = runs[r].job
        /\ [runs[r] EXCEPT !.ready = TRUE].status = runs[r].status
        /\ [runs[r] EXCEPT !.expired = TRUE].job = runs[r].job
        /\ [runs[r] EXCEPT !.expired = TRUE].status = runs[r].status
    BY DEF TypeInv, TypeOK, RunRow
  <2>4. RunsHold
    BY <2>2, <2>3, OneRunHolds
  <2> QED
    BY <2>2, <2>4, SameRowsHold, LedgerStays
<1>3. CASE \E r \in Runs, f \in Frames : FrameReady(r, f) \/ ExpireFrameLease(r, f)
  <2>1. PICK r \in Runs, f \in Frames : FrameReady(r, f) \/ ExpireFrameLease(r, f)
    BY <1>3
  <2>2. frames[r][f] \in FrameRow
    BY DEF TypeInv, TypeOK
  <2>3. /\ UNCHANGED <<jobs, runs, shown, paid>>
        /\ \/ frames' = [frames EXCEPT ![r][f] = [frames[r][f] EXCEPT !.ready = TRUE]]
           \/ frames' = [frames EXCEPT ![r][f] = [frames[r][f] EXCEPT !.expired = TRUE]]
    BY <2>1 DEF FrameReady, ExpireFrameLease, TypeInv, TypeOK
  <2>4. /\ [frames[r][f] EXCEPT !.ready = TRUE].status = frames[r][f].status
        /\ [frames[r][f] EXCEPT !.expired = TRUE].status = frames[r][f].status
    BY <2>2 DEF FrameRow
  <2>5. FramesHold
    BY <2>3, <2>4, OneFrameHolds
  <2> QED
    BY <2>3, <2>5, SameRowsHold, LedgerStays
<1> QED
  BY <1>1, <1>2, <1>3 DEF RowsReady, LeasesExpire

LEMMA CreateIsCreate ==
  ASSUME TypeInv, Ledger!ForgottenIsDone, NEW j \in Jobs, NEW d \in Definitions, Create(j, d)
  PROVE  Ledger!Create(j)
<1>1. jobs[j].status = "none" /\ UNCHANGED <<runs, frames, shown, paid>>
  BY DEF Create
<1>2. /\ jobs'[j].status = "active" /\ jobs'[j].redacted = FALSE
      /\ \A i \in Jobs : i # j => jobs'[i] = jobs[i]
  BY DEF Create, NoJobRow, TypeInv, TypeOK
<1>3. j \notin Forgotten
  BY <1>1, Readings DEF Ledger!ForgottenIsDone, Ledger!Over
<1>4. Standing' = [Standing EXCEPT ![j] = "active"]
  BY <1>2, OneStanding
<1>5. UNCHANGED Forgotten
  BY <1>2, <1>3 DEF Forgotten
<1>6. UNCHANGED <<JobOf, Phases, Fates, Appeared>>
  BY <1>1, SameRowsHold, RunsHolding, FramesHolding, ShownHolding
<1> QED
  BY <1>1, <1>4, <1>5, <1>6, Readings DEF Ledger!Create

\* After an edit the job has nothing left to do.
LEMMA EditLeavesNothing ==
  ASSUME TypeInv, RowsInv, NEW j \in Jobs, NEW from, Edit(j, from)
  PROVE  /\ \A r \in Runs :
              /\ runs'[r].job = runs[r].job
              /\ runs'[r].status = IF r \in RunsOf(j) /\ runs[r].status \in OpenRun
                                   THEN "invalidated" ELSE runs[r].status
         /\ \A r \in Runs, f \in Frames :
              frames'[r][f].status = IF r \in RunsOf(j) /\ frames[r][f].status \in OpenFrame
                                     THEN "suppressed" ELSE frames[r][f].status
         /\ ~Busy(j)'
<1>1. InvalidateStaleWork(j) /\ NotSending(j)
  BY DEF Edit
<1>2. /\ \A row \in RunRow : /\ [row EXCEPT !.status = "invalidated"].status = "invalidated"
                            /\ [row EXCEPT !.status = "invalidated"].job = row.job
      /\ \A row \in FrameRow : [row EXCEPT !.status = "suppressed"].status = "suppressed"
  BY DEF RunRow, FrameRow
<1>3. /\ \A r \in Runs : runs[r] \in RunRow
      /\ \A r \in Runs, f \in Frames : frames[r][f] \in FrameRow
  BY DEF TypeInv, TypeOK
<1>4. \A r \in Runs :
        /\ runs'[r].job = runs[r].job
        /\ runs'[r].status = IF r \in RunsOf(j) /\ runs[r].status \in OpenRun
                             THEN "invalidated" ELSE runs[r].status
  BY <1>1, <1>2, <1>3 DEF InvalidateStaleWork
<1>5. \A r \in Runs, f \in Frames :
        frames'[r][f].status = IF r \in RunsOf(j) /\ frames[r][f].status \in OpenFrame
                               THEN "suppressed" ELSE frames[r][f].status
  <2>1. \A r \in RunsOf(j), f \in Frames : frames[r][f].status # "sending"
    BY <1>1 DEF NotSending
  <2>2. \A r \in Runs, f \in Frames :
          frames'[r][f] = IF r \in RunsOf(j) /\ frames[r][f].status \in OpenFrame \ {"sending"}
                          THEN [frames[r][f] EXCEPT !.status = "suppressed"] ELSE frames[r][f]
    BY <1>1 DEF InvalidateStaleWork
  <2> TAKE r \in Runs, f \in Frames
  <2>3. frames[r][f] \in FrameRow
    BY <1>3
  <2>4. r \in RunsOf(j) => (frames[r][f].status \in OpenFrame \ {"sending"}
                             <=> frames[r][f].status \in OpenFrame)
    BY <2>1
  <2>5. CASE r \in RunsOf(j) /\ frames[r][f].status \in OpenFrame
    BY <1>2, <2>2, <2>3, <2>4, <2>5
  <2>6. CASE ~(r \in RunsOf(j) /\ frames[r][f].status \in OpenFrame)
    BY <2>2, <2>4, <2>6
  <2> QED
    BY <2>5, <2>6
<1>6. RunsOf(j)' = RunsOf(j)
  BY <1>4 DEF RunsOf, OpenRun
<1>7. ~Busy(j)'
  <2>1. \A r \in RunsOf(j) : /\ r \in Runs /\ runs'[r].status \notin OpenRun
                             /\ \A f \in Frames : frames'[r][f].status \notin OpenFrame
    BY <1>4, <1>5 DEF RunsOf, OpenRun, OpenFrame
  <2> QED
    BY <1>6, <2>1 DEF Busy
<1> QED
  BY <1>4, <1>5, <1>7

\* What an edit does to the job's row: it is redacted only when it is deleted.
EditsRow(j, to) ==
  /\ \A i \in Jobs : i # j => jobs'[i] = jobs[i]
  /\ jobs'[j].status = to
  /\ \/ jobs[j].status \in {"active", "paused"}
     \/ jobs[j].status \in {"ended", "cancelled"} /\ to = "cancelled"
  /\ \/ jobs'[j].redacted = jobs[j].redacted
     \/ (jobs[j].redacted => jobs'[j].redacted) /\ to = "cancelled"
  /\ paid' \in {paid, [paid EXCEPT ![j] = {}]}

LEMMA EditIsEdit ==
  ASSUME TypeInv, TypeInv', RowsInv, RowsInv', NEW j \in Jobs, NEW from, Edit(j, from),
         NEW to \in {"active", "paused", "cancelled"}, EditsRow(j, to)
  PROVE  Ledger!Edit(j, to)
<1> USE DEF EditsRow
<1>1. /\ \A r \in Runs :
           /\ runs'[r].job = runs[r].job
           /\ runs'[r].status = IF r \in RunsOf(j) /\ runs[r].status \in OpenRun
                                THEN "invalidated" ELSE runs[r].status
      /\ \A r \in Runs, f \in Frames :
           frames'[r][f].status = IF r \in RunsOf(j) /\ frames[r][f].status \in OpenFrame
                                  THEN "suppressed" ELSE frames[r][f].status
      /\ ~Busy(j)'
  BY EditLeavesNothing
<1>2. WorkIsRead /\ WorkIsRead'
  BY WorkReads, WorkReadsNext
<1>3. /\ \A r \in Runs : runs[r].status \in RunStatus
      /\ \A r \in Runs, f \in Frames : frames[r][f].status \in FrameStatus
  BY DEF TypeInv, TypeOK, RunRow, FrameRow, RunStatus, FrameStatus
<1>4. \A r \in Runs : JobOf[r] = j <=> r \in RunsOf(j)
  BY <1>2 DEF WorkIsRead
<1>5. Standing' = [Standing EXCEPT ![j] = to]
  BY OneStanding
<1>6. UNCHANGED <<JobOf, Appeared>>
  <2>1. \A r \in Runs : runs'[r].status = "none" <=> runs[r].status = "none"
    BY <1>1 DEF OpenRun
  <2>2. UNCHANGED shown
    BY DEF Edit
  <2> QED
    BY <1>1, <2>1, <2>2, ShownHolding DEF JobOf
<1>7. Phases' = [r \in Runs |-> IF JobOf[r] = j /\ Phases[r] = "open" THEN "withdrawn" ELSE Phases[r]]
  <2>1. \A r \in Runs : Phases'[r] = IF JobOf[r] = j /\ Phases[r] = "open" THEN "withdrawn" ELSE Phases[r]
    <3> TAKE r \in Runs
    <3>1. Phases[r] = Phase(runs[r].status) /\ Phases'[r] = Phase(runs'[r].status)
      BY Readings
    <3>2. Phase(runs[r].status) = "open" <=> runs[r].status \in OpenRun
      BY <1>3, PhaseReads
    <3>3. Phase("invalidated") = "withdrawn"
      BY PhaseReads DEF RunStatus, FinalRun
    <3> QED
      BY <1>1, <1>4, <3>1, <3>2, <3>3
  <2> QED
    BY <2>1 DEF Phases
<1>8. /\ \A r \in Runs, f \in Frames : JobOf[r] = j => Fates[r][f] # "out"
      /\ Fates' = [r \in Runs |-> [f \in Frames |->
                    IF JobOf[r] = j /\ Fates[r][f] = "waiting" THEN "dropped" ELSE Fates[r][f]]]
  <2>1. ASSUME NEW r \in Runs, NEW f \in Frames
        PROVE  /\ JobOf[r] = j => Fates[r][f] # "out"
               /\ Fates'[r][f] = IF JobOf[r] = j /\ Fates[r][f] = "waiting" THEN "dropped"
                                 ELSE Fates[r][f]
    <3>1. Fates[r][f] = Fate(frames[r][f].status) /\ Fates'[r][f] = Fate(frames'[r][f].status)
      BY Readings
    <3>2. /\ Fate(frames[r][f].status) = "waiting" <=> frames[r][f].status \in OpenFrame \ {"sending"}
          /\ Fate(frames[r][f].status) = "out" <=> frames[r][f].status = "sending"
      BY <1>3, FateReads
    <3>3. Fate("suppressed") = "dropped"
      BY FateReads DEF FrameStatus, FinalFrame
    <3>4. r \in RunsOf(j) => frames[r][f].status # "sending"
      BY DEF Edit, NotSending
    <3> QED
      BY <1>1, <1>4, <3>1, <3>2, <3>3, <3>4
  <2> QED
    BY <2>1 DEF Fates
<1>9. Ledger!Forget
  <2>1. \A i \in Jobs : i # j => (i \in Forgotten' <=> i \in Forgotten)
    BY Readings
  <2>2. j \in Forgotten => j \in Forgotten'
    BY Readings
  <2>3. j \in Forgotten' \ Forgotten => to = "cancelled"
    BY Readings
  <2>4. Forgotten \subseteq Jobs /\ Forgotten' \subseteq Jobs
    BY DEF Forgotten
  <2>5. ~Ledger!Busy(j)'
    BY <1>1, <1>2 DEF WorkIsRead
  <2>6. Standing'[j] = to
    BY Readings
  <2> QED
    BY <2>1, <2>2, <2>3, <2>4, <2>5, <2>6 DEF Ledger!Forget, Ledger!Over
<1>10. \/ Standing[j] \in {"active", "paused"} /\ to \in {"active", "paused", "cancelled"}
       \/ Standing[j] \in Ledger!Over /\ to = "cancelled"
  BY Readings DEF Ledger!Over
<1> QED
  BY <1>5, <1>6, <1>7, <1>8, <1>9, <1>10 DEF Ledger!Edit

\* A row for a job that is not busy is a run that begins.
LEMMA NewRunBegins ==
  ASSUME TypeInv, RowsInv, made < MaxRuns, UNCHANGED <<frames, shown>>,
         \A i \in Jobs : jobs'[i].redacted = jobs[i].redacted,
         NEW j \in Jobs, ~Busy(j), jobs[j].status = "active",
         NEW row, row.job = j, row.status \in OpenRun, runs' = [runs EXCEPT ![made + 1] = row]
  PROVE  \E r \in Runs : Ledger!Begin(j, r)
<1>1. PICK n \in Runs : n = made + 1 /\ runs[n].status = "none"
  <2>1. MaxRuns \in Nat /\ made \in 0..MaxRuns
    BY CronAssumption DEF TypeInv, TypeOK
  <2>2. made + 1 \in Runs /\ made + 1 > made
    BY <2>1 DEF Runs
  <2> QED
    BY <2>2 DEF RowsInv, Unmade
<1>2. runs'[n] = row /\ \A r \in Runs : r # n => runs'[r] = runs[r]
  BY <1>1 DEF TypeInv, TypeOK
<1>3. Phase(row.status) = "open" /\ row.status # "none"
  BY PhaseReads DEF RunStatus, OpenRun
<1>4. Phases' = [Phases EXCEPT ![n] = "open"]
  BY <1>2, <1>3, OnePhase
<1>5. JobOf' = [JobOf EXCEPT ![n] = j]
  <2>1. JobOf'[n] = j
    BY <1>2, <1>3, Readings
  <2> QED
    BY <1>2, <2>1, OnePhase
<1>6. UNCHANGED <<Fates, Appeared, Forgotten>>
  BY SameRowsHold, FramesHolding, ShownHolding DEF Forgotten
<1>7. Phases[n] = "none"
  BY <1>1, Readings, PhaseReads DEF RunStatus
<1>8. ~Ledger!Busy(j) /\ Standing[j] = "active"
  BY WorkReads, Readings DEF WorkIsRead
<1> QED
  BY <1>4, <1>5, <1>6, <1>7, <1>8 DEF Ledger!Begin

LEMMA EditsAreEdits ==
  ASSUME TypeInv, TypeInv', RowsInv, RowsInv', NEW j \in Jobs,
         Pause(j) \/ Resume(j) \/ Delete(j) \/ \E d \in Definitions : Update(j, d)
  PROVE  \E to \in {"active", "paused", "cancelled"} : Ledger!Edit(j, to)
<1>1. jobs \in [Jobs -> JobRow]
  BY DEF TypeInv, TypeOK
<1>2. CASE \E d \in Definitions : Update(j, d)
  <2>1. PICK d \in Definitions : Update(j, d)
    BY <1>2
  <2>2. /\ jobs'[j].status = jobs[j].status /\ jobs'[j].redacted = jobs[j].redacted
        /\ \A i \in Jobs : i # j => jobs'[i] = jobs[i]
        /\ paid' = [paid EXCEPT ![j] = {}]
        /\ Edit(j, {"active", "paused"})
        /\ jobs[j].status \in {"active", "paused"}
    BY Zenon, <1>1, <2>1 DEF Update, Edit, JobRow
  <2>3. EditsRow(j, jobs[j].status)
    BY <2>2 DEF EditsRow
  <2> QED
    BY <2>2, <2>3, EditIsEdit
<1>3. CASE Pause(j)
  <2>1. /\ jobs'[j].status = "paused" /\ jobs'[j].redacted = jobs[j].redacted
        /\ \A i \in Jobs : i # j => jobs'[i] = jobs[i]
        /\ paid' = paid
        /\ Edit(j, {"active", "paused"})
        /\ jobs[j].status \in {"active", "paused"}
    BY <1>1, <1>3 DEF Pause, Edit, JobRow
  <2>2. EditsRow(j, "paused")
    BY <2>1 DEF EditsRow
  <2> QED
    BY <2>1, <2>2, EditIsEdit
<1>4. CASE Resume(j)
  <2>1. /\ jobs'[j].status = "active" /\ jobs'[j].redacted = jobs[j].redacted
        /\ \A i \in Jobs : i # j => jobs'[i] = jobs[i]
        /\ paid' = paid
        /\ Edit(j, {"active", "paused"})
        /\ jobs[j].status \in {"active", "paused"}
    BY <1>1, <1>4 DEF Resume, Edit, JobRow
  <2>2. EditsRow(j, "active")
    BY <2>1 DEF EditsRow
  <2> QED
    BY <2>1, <2>2, EditIsEdit
<1>5. CASE Delete(j)
  <2> DEFINE b == jobs[j].redacted \/ Redactable(j, "cancelled", frames')
             n == jobs[j].revision + 1
  <2>1. /\ jobs' = [jobs EXCEPT ![j] = [jobs[j] EXCEPT !.status = "cancelled", !.revision = n,
                                                      !.redacted = b]]
        /\ jobs[j].redacted => b
        /\ paid' = paid
        /\ Edit(j, {"active", "paused", "ended", "cancelled"})
        /\ jobs[j].status \in {"active", "paused", "ended", "cancelled"}
    BY <1>5 DEF Delete, Edit
  <2> HIDE DEF b, n
  <2>2. /\ jobs'[j].status = "cancelled" /\ jobs'[j].redacted = b
        /\ \A i \in Jobs : i # j => jobs'[i] = jobs[i]
    BY <1>1, <2>1 DEF JobRow
  <2>3. EditsRow(j, "cancelled")
    BY <2>1, <2>2 DEF EditsRow
  <2> QED
    BY <2>1, <2>3, EditIsEdit
<1> QED
  BY <1>2, <1>3, <1>4, <1>5

LEMMA OwnerLedger ==
  ASSUME TypeInv, TypeInv', RowsInv, RowsInv', Ledger!ForgottenIsDone, NEW j \in Jobs,
         \/ \E d \in Definitions : Create(j, d) \/ Update(j, d)
         \/ Pause(j) \/ Resume(j) \/ Delete(j) \/ RunNow(j)
  PROVE  Ledger!OfJob(j)
<1>1. CASE RunNow(j)
  <2> DEFINE row == NewRun(j, clock, "manual", jobs[j].revision)
  <2>1. row.job = j /\ row.status \in OpenRun
    BY DEF NewRun, NoRunRow, OpenRun
  <2>2. /\ runs' = [runs EXCEPT ![made + 1] = row]
        /\ made < MaxRuns /\ UNCHANGED <<jobs, frames, shown, paid>> /\ ~Busy(j)
        /\ jobs[j].status = "active"
    BY <1>1 DEF RunNow
  <2> HIDE DEF row
  <2>3. PICK r \in Runs : Ledger!Begin(j, r)
    BY <2>1, <2>2, NewRunBegins
  <2>4. Standing' = [Standing EXCEPT ![j] = "active"]
    BY <2>2, OneStanding
  <2>5. Ledger!Extra(j, r, "active")
    BY <2>2, <2>3, <2>4 DEF Ledger!Extra
  <2> QED
    BY <2>5 DEF Ledger!OfJob
<1>2. CASE \E d \in Definitions : Create(j, d)
  BY <1>2, CreateIsCreate DEF Ledger!OfJob
<1>3. CASE Pause(j) \/ Resume(j) \/ Delete(j) \/ \E d \in Definitions : Update(j, d)
  BY <1>3, EditsAreEdits DEF Ledger!OfJob
<1> QED
  BY <1>1, <1>2, <1>3

-----------------------------------------------------------------------------
(* The lanes *)

LEMMA LookedOverHolds ==
  ASSUME TypeInv, NEW i \in Jobs
  PROVE  LookedOver(i).status = jobs[i].status /\ LookedOver(i).redacted = jobs[i].redacted
<1>1. [jobs[i] EXCEPT !.pausedAt = NoTime].redacted = jobs[i].redacted
  BY DEF TypeInv, TypeOK, JobRow
<1> QED
  BY <1>1, LookedOverStays DEF LookedOver

\* What is owed is taken up; a job past its end that owes nothing ends.
LEMMA ClaimOccurrenceLedger ==
  ASSUME TypeInv, RowsInv, PaidInv, InTime, NEW l \in Lanes, ClaimOccurrence(l),
         UNCHANGED <<frames, shown>>
  PROVE  \E j \in Jobs : Ledger!OfJob(j)
<1>1. PICK j \in Jobs :
        /\ j = StopsAt /\ ~LookRaises(j)
        /\ MakeRun(l, j, TriggerOf(j), IF TriggerOf(j) = "lifecycle" THEN clock ELSE Owed(j))
  BY DEF ClaimOccurrence
<1> DEFINE trigger == TriggerOf(j)
           due == IF trigger = "lifecycle" THEN clock ELSE Owed(j)
           revision == jobs[j].revision + (IF trigger = "lifecycle" THEN 1 ELSE 0)
           row == NewRun(j, due, trigger, revision)
           claimed == [row EXCEPT !.status = "leased", !.expired = FALSE, !.holder = l]
           to == IF trigger = "lifecycle" THEN "ended" ELSE "active"
<1>2. /\ made < MaxRuns
      /\ runs' = [runs EXCEPT ![made + 1] = claimed]
      /\ paid' = [paid EXCEPT ![j] = IF trigger = "lifecycle" THEN paid[j] ELSE paid[j] \cup {due}]
      /\ jobs' = [i \in Jobs |->
              IF i = j
              THEN [jobs[i] EXCEPT !.status = IF trigger = "lifecycle" THEN "ended" ELSE @,
                                   !.revision = revision,
                                   !.pausedAt = IF trigger = "catchup" THEN NoTime ELSE @,
                                   !.lastDue = IF Advances(trigger) THEN due ELSE @]
              ELSE IF i < j THEN LookedOver(i) ELSE jobs[i]]
  <2>1. paid \in [Jobs -> SUBSET Time]
    BY DEF TypeInv, TypeOK
  <2>2. /\ made < MaxRuns
        /\ MakeRun(l, j, trigger, due)
    BY <1>1 DEF ClaimOccurrence
  <2> HIDE DEF trigger, due
  <2> QED
    BY Zenon, <2>1, <2>2 DEF MakeRun, Claim
<1>3. jobs[j].status = "active" /\ ~Busy(j)
  <2>1. j \in Looked
    BY <1>1, StopsAtLooked
  <2> QED
    BY <2>1 DEF Looked
<1>4. trigger = "lifecycle" <=> Owed(j) = NoTime
  BY DEF TriggerOf
<1>5. claimed.job = j /\ claimed.status \in OpenRun
  BY DEF NewRun, NoRunRow, OpenRun
<1> HIDE DEF claimed, row, revision, trigger, due
<1>6. /\ jobs'[j].status = to
      /\ \A i \in Jobs : jobs'[i].redacted = jobs[i].redacted
      /\ \A i \in Jobs : i # j => jobs'[i].status = jobs[i].status
  <2>1. jobs'[j].status = to /\ jobs'[j].redacted = jobs[j].redacted
    BY Zenon, <1>2, <1>3 DEF TypeInv, TypeOK, JobRow
  <2>2. \A i \in Jobs : i # j => /\ jobs'[i].redacted = jobs[i].redacted
                                 /\ jobs'[i].status = jobs[i].status
    BY Zenon, <1>2, LookedOverHolds
  <2> QED
    BY <2>1, <2>2
<1>7. PICK r \in Runs : Ledger!Begin(j, r)
  BY Zenon, <1>2, <1>3, <1>5, <1>6, NewRunBegins
<1>8. Standing' = [Standing EXCEPT ![j] = to]
  BY <1>6, OneStanding
<1>9. CASE trigger = "lifecycle"
  <2>1. paid' = paid
    BY Zenon, <1>2, <1>9 DEF TypeInv, TypeOK
  <2>2. Ledger!Extra(j, r, "ended")
    BY <1>7, <1>8, <1>9, <2>1 DEF Ledger!Extra
  <2> QED
    BY <2>2 DEF Ledger!OfJob
<1>10. CASE trigger # "lifecycle"
  <2>1. due = Owed(j) /\ Owed(j) # NoTime
    BY <1>4, <1>10 DEF due
  <2>2. Owed(j) \in Time /\ Owed(j) <= clock /\ \A t \in paid[j] : Owed(j) > t
    BY <1>1, <2>1, OwedIsNew
  <2>3. due \in 0..MaxTime
    <3>1. clock \in Int /\ MaxTime \in Int
      BY CronAssumption DEF TypeInv, TypeOK, Time
    <3> QED
      BY <2>1, <2>2, <3>1 DEF InTime, Time
  <2>4. paid' = [paid EXCEPT ![j] = @ \cup {due}]
    BY Zenon, <1>2, <1>10 DEF TypeInv, TypeOK
  <2>5. UNCHANGED Standing
    <3>1. Standing[j] = "active"
      BY <1>3, Readings
    <3> QED
      BY <1>8, <1>10, <3>1, LedgerFunctions
  <2>6. Ledger!Take(j, r, due)
    BY <1>7, <2>1, <2>2, <2>4, <2>5 DEF Ledger!Take
  <2> QED
    BY <2>3, <2>6 DEF Ledger!OfJob
<1> QED
  BY <1>9, <1>10

LEMMA ClaimDueRunLedger ==
  ASSUME TypeInv, RowsInv, PaidInv, InTime, NEW l \in Lanes, ClaimDueRun(l)
  PROVE  UNCHANGED Ledger!vars \/ \E j \in Jobs : Ledger!OfJob(j)
<1>1. UNCHANGED <<frames, shown>>
  BY DEF ClaimDueRun
<1>2. CASE ClaimWaitingRun(l)
  <2>1. UNCHANGED <<jobs, paid>>
    BY <1>2 DEF ClaimWaitingRun, TickFails
  <2>2. PICK r \in DueRuns : Claim(l, r, runs[r]) \/ UNCHANGED runs
    BY <1>2 DEF ClaimWaitingRun, TickFails
  <2>3. r \in Runs /\ runs[r] \in RunRow /\ runs[r].status \in OpenRun
    BY DEF DueRuns, OpenRun, TypeInv, TypeOK
  <2> DEFINE row == [runs[r] EXCEPT !.status = "leased", !.expired = FALSE, !.holder = l]
  <2>4. row.job = runs[r].job /\ row.status \in OpenRun
    BY <2>3 DEF RunRow, OpenRun
  <2>5. runs' = [runs EXCEPT ![r] = row] \/ UNCHANGED runs
    BY <2>2 DEF Claim
  <2> HIDE DEF row
  <2>6. RunsHold
    BY <2>3, <2>4, <2>5, OneRunHolds, SameRowsHold
  <2> QED
    BY <1>1, <2>1, <2>6, SameRowsHold, LedgerStays
<1>3. CASE ClaimOccurrence(l)
  BY <1>1, <1>3, ClaimOccurrenceLedger
<1>4. CASE ClaimNothing(l)
  <2>1. UNCHANGED <<runs, paid>> /\ (UNCHANGED jobs \/ jobs' = [j \in Jobs |-> LookedOver(j)])
    BY <1>4 DEF ClaimNothing, TickFails
  <2>2. JobsHold
    BY <2>1, LookedOverHolds, SameRowsHold DEF JobsHold
  <2> QED
    BY <1>1, <2>1, <2>2, SameRowsHold, LedgerStays
<1> QED
  BY <1>2, <1>3, <1>4 DEF ClaimDueRun

\* Of the jobs, the ledger sees that j becomes something.
BecomesOnly(j, to) ==
  \A i \in Jobs : /\ jobs'[i].redacted = jobs[i].redacted
                  /\ jobs'[i].status = IF i = j THEN to ELSE jobs[i].status

\* The lane has an answer to a run of a job that is as it was.
LEMMA RunEndAnswers ==
  ASSUME TypeInv, RowsInv, NEW r \in Runs, RunIsCurrent(r), runs[r].status \in OpenRun,
         NEW row, row.job = runs[r].job, row.status \in {"succeeded", "failed"},
         runs' = [runs EXCEPT ![r] = row],
         NEW fs, NEW n \in 1..MaxFrames, frames' = [frames EXCEPT ![r] = fs],
         FirstFrames(r, fs, n),
         NEW to \in {jobs[runs[r].job].status, "ended"}, BecomesOnly(runs[r].job, to),
         UNCHANGED <<shown, paid>>
  PROVE  /\ Ledger!Answer(r, n - 1, to)
         /\ n - 1 \in Frames /\ to \in {"active", "ended"}
<1> DEFINE j == runs[r].job
<1>1. j \in Jobs /\ JobOf[r] = j
  BY Readings DEF TypeInv, TypeOK, RunRow, OpenRun
<1>2. /\ runs'[r] = row /\ frames'[r] = fs
      /\ \A q \in Runs : q # r => runs'[q] = runs[q] /\ frames'[q] = frames[q]
  BY DEF TypeInv, TypeOK
<1>3. jobs[j].status \in {"active", "ended"}
  BY DEF RunIsCurrent
<1>4. Standing' = [Standing EXCEPT ![j] = to]
  BY <1>1, OneStanding DEF BecomesOnly
<1>5. UNCHANGED JobOf
  <2>1. JobOf'[r] = JobOf[r]
    BY <1>2, Readings DEF OpenRun
  <2> QED
    BY <1>2, <2>1, OnePhase, LedgerFunctions
<1>6. Phases[r] = "open" /\ Phases' = [Phases EXCEPT ![r] = "answered"]
  <2>1. Phase(row.status) = "answered"
    BY PhaseReads DEF RunStatus, FinalRun
  <2>2. Phases[r] = "open"
    <3>1. Phase(runs[r].status) = "open"
      BY PhaseReads DEF RunStatus
    <3> QED
      BY <3>1, Readings
  <2> QED
    BY <1>2, <2>1, <2>2, OnePhase
<1>7. n - 1 \in Frames /\ \A f \in Frames : f < n <=> f <= n - 1
  BY CronAssumption DEF Frames
<1>8. Fates' = [Fates EXCEPT ![r] = [f \in Frames |-> IF f <= n - 1 THEN "waiting" ELSE "none"]]
  <2>1. Fate("none") = "none" /\ Fate("pending") = "waiting" /\ NewFrame.status = "pending"
    BY FateReads DEF FrameStatus, OpenFrame, NewFrame, NoFrameRow
  <2>2. \A f \in Frames : frames[r][f].status = "none"
    BY DEF RowsInv, FramesFollowRuns, Unended
  <2>3. \A f \in Frames : Fates'[r][f] = IF f <= n - 1 THEN "waiting" ELSE "none"
    <3> TAKE f \in Frames
    <3>1. Fates'[r][f] = Fate(fs[f].status)
      <4>1. Fates'[r][f] = Fate(frames'[r][f].status)
        BY Readings
      <4> QED
        BY <1>2, <4>1
    <3>2. fs[f] = IF f < n THEN NewFrame ELSE frames[r][f]
      BY DEF FirstFrames
    <3> QED
      BY <1>7, <2>1, <2>2, <3>1, <3>2
  <2>4. \A q \in Runs : q # r => Fates'[q] = Fates[q]
    BY <1>2 DEF Fates
  <2>5. Fates'[r] = [f \in Frames |-> IF f <= n - 1 THEN "waiting" ELSE "none"]
    <3>1. Fates'[r] = [f \in Frames |-> Fates'[r][f]]
      BY DEF Fates
    <3> QED
      BY <2>3, <3>1
  <2>6. Fates' = [q \in Runs |-> Fates'[q]] /\ Fates = [q \in Runs |-> Fates[q]]
    BY DEF Fates
  <2> QED
    BY <2>4, <2>5, <2>6
<1>9. UNCHANGED <<Appeared, Forgotten>>
  BY ShownHolding DEF Forgotten, BecomesOnly
<1>10. Standing[j] = jobs[j].status
  BY <1>1, Readings
<1> QED
  BY <1>1, <1>3, <1>4, <1>5, <1>6, <1>7, <1>8, <1>9, <1>10 DEF Ledger!Answer

\* With a run its job may end, and nothing else of it changes that the ledger reads.
LEMMA OneJobEnds ==
  ASSUME TypeInv, NEW j \in Jobs, NEW m, NEW to,
         \/ jobs' = [jobs EXCEPT ![j] = [jobs[j] EXCEPT !.successes = m, !.status = to]]
         \/ jobs' = [jobs EXCEPT ![j] = [jobs[j] EXCEPT !.status = to]]
  PROVE  BecomesOnly(j, to)
<1>1. jobs \in [Jobs -> JobRow]
  BY DEF TypeInv, TypeOK
<1>2. \A i \in Jobs : i # j => jobs'[i] = jobs[i]
  BY <1>1
<1>3. /\ [jobs[j] EXCEPT !.successes = m, !.status = to].status = to
      /\ [jobs[j] EXCEPT !.successes = m, !.status = to].redacted = jobs[j].redacted
      /\ [jobs[j] EXCEPT !.status = to].status = to
      /\ [jobs[j] EXCEPT !.status = to].redacted = jobs[j].redacted
  BY <1>1 DEF JobRow
<1>4. jobs'[j].status = to /\ jobs'[j].redacted = jobs[j].redacted
  BY Zenon, <1>1, <1>3
<1> QED
  BY <1>2, <1>4 DEF BecomesOnly

LEMMA ExecuteLedger ==
  ASSUME TypeInv, RowsInv, NEW l \in Lanes, Execute(l)
  PROVE  \/ UNCHANGED Ledger!vars
         \/ \E r \in Runs, last \in Frames, to \in {"active", "ended"} : Ledger!Answer(r, last, to)
<1> DEFINE r == lanes[l].run
           j == runs[r].job
<1>1. r \in Runs
  BY Zenon DEF Execute, BeginRun, RenewLease, HeartbeatFails, CompleteRun, ResultIsDropped, FailRun,
         DeferRun, TypeInv, LanesHold
<1>2. runs[r] \in RunRow /\ j \in Jobs /\ jobs[j] \in JobRow
  BY <1>1 DEF TypeInv, TypeOK, RunRow
<1>3. HoldsRun(l) => runs[r].status \in OpenRun /\ RunIsCurrent(r)
  BY DEF HoldsRun, OpenRun
<1>4. ASSUME UNCHANGED <<jobs, frames, shown, paid>>, HoldsRun(l),
             NEW row, row.job = j, row.status \in OpenRun, runs' = [runs EXCEPT ![r] = row]
      PROVE  UNCHANGED Ledger!vars
  BY <1>1, <1>3, <1>4, OneRunHolds, SameRowsHold, LedgerStays
<1>5. ASSUME UNCHANGED <<jobs, runs, frames, shown, paid>>
      PROVE  UNCHANGED Ledger!vars
  BY <1>5, SameRowsHold, LedgerStays
<1>6. CASE BeginRun(l)
  <2>1. UNCHANGED <<jobs, frames, shown, paid>>
    BY <1>6 DEF BeginRun
  <2>2. CASE HoldsRun(l) /\ runs[r].status = "leased"
    <3> DEFINE row == [runs[r] EXCEPT !.status = "executing", !.expired = FALSE]
    <3>1. runs' = [runs EXCEPT ![r] = row]
      BY <1>6, <2>2 DEF BeginRun
    <3>2. row.job = j /\ row.status \in OpenRun
      BY <1>2 DEF RunRow, OpenRun
    <3> HIDE DEF row
    <3> QED
      BY <1>4, <2>1, <2>2, <3>1, <3>2
  <2>3. CASE ~(HoldsRun(l) /\ runs[r].status = "leased")
    BY <1>5, <1>6, <2>1, <2>3 DEF BeginRun
  <2> QED
    BY <2>2, <2>3
<1>7. CASE RenewLease(l)
  <2>1. UNCHANGED <<jobs, frames, shown, paid>>
    BY <1>7 DEF RenewLease
  <2>2. CASE HoldsRun(l)
    <3> DEFINE row == [runs[r] EXCEPT !.expired = FALSE]
    <3>1. runs' = [runs EXCEPT ![r] = row]
      BY <1>7, <2>2 DEF RenewLease
    <3>2. row.job = j /\ row.status \in OpenRun
      BY <1>2, <1>3, <2>2 DEF RunRow
    <3> HIDE DEF row
    <3> QED
      BY <1>4, <2>1, <2>2, <3>1, <3>2
  <2>3. CASE ~HoldsRun(l)
    BY <1>5, <1>7, <2>1, <2>3 DEF RenewLease
  <2> QED
    BY <2>2, <2>3
<1>8. CASE HeartbeatFails(l) \/ ResultIsDropped(l)
  BY <1>5, <1>8 DEF HeartbeatFails, ResultIsDropped
<1>9. CASE \E success \in BOOLEAN, n \in 1..MaxFrames : CompleteRun(l, success, n)
  <2>1. PICK success \in BOOLEAN, n \in 1..MaxFrames : CompleteRun(l, success, n)
    BY <1>9
  <2> DEFINE row == [runs[r] EXCEPT !.status = "succeeded"]
             fs == [f \in Frames |-> IF f < n THEN NewFrame ELSE frames[r][f]]
             successes == jobs[j].successes + (IF success THEN 1 ELSE 0)
             over == LastRun(r) \/ (jobs[j].def.max # 0 /\ successes >= jobs[j].def.max)
             to == IF over THEN "ended" ELSE jobs[j].status
  <2>2. HoldsRun(l) /\ UNCHANGED <<shown, paid>>
    BY <2>1 DEF CompleteRun
  <2>3. row.job = j /\ row.status \in {"succeeded", "failed"}
    BY SMTT(60), <1>2 DEF RunRow
  <2>4. runs' = [runs EXCEPT ![r] = row] /\ frames' = [frames EXCEPT ![r] = fs]
    BY <1>1, <2>1 DEF CompleteRun, TypeInv, TypeOK
  <2>5. FirstFrames(r, fs, n)
    BY SMTT(60) DEF FirstFrames
  <2>6. jobs' = [jobs EXCEPT ![j] = [jobs[j] EXCEPT !.successes = successes, !.status = to]]
    BY <2>1 DEF CompleteRun
  <2>7. to \in {jobs[j].status, "ended"}
    OBVIOUS
  <2> HIDE DEF row, fs, successes, over, to
  <2>8. BecomesOnly(j, to)
    BY Zenon, <1>2, <2>6, OneJobEnds
  <2>9. Ledger!Answer(r, n - 1, to) /\ n - 1 \in Frames /\ to \in {"active", "ended"}
    BY Zenon, <1>1, <1>3, <2>2, <2>3, <2>4, <2>5, <2>7, <2>8, RunEndAnswers
  <2> QED
    BY SMTT(60), <1>1, <2>9
<1>10. CASE FailRun(l)
  <2>1. HoldsRun(l) /\ UNCHANGED <<shown, paid>>
    BY Zenon, <1>10 DEF FailRun
  <2>2. CASE ~Exhausted(r)
    <3> DEFINE row == [runs[r] EXCEPT !.attempts = @ + 1, !.status = "retry_wait", !.ready = FALSE]
    <3>1. runs' = [runs EXCEPT ![r] = row] /\ UNCHANGED <<jobs, frames>>
      BY Zenon, <1>10, <2>2 DEF FailRun
    <3>2. row.job = j /\ row.status \in OpenRun
      BY <1>2 DEF RunRow, OpenRun
    <3> HIDE DEF row
    <3> QED
      BY Zenon, <1>4, <2>1, <3>1, <3>2
  <2>3. CASE Exhausted(r) /\ ~CompletionRaises(r)
    <3> DEFINE row == [runs[r] EXCEPT !.attempts = @ + 1, !.status = "failed"]
               fs == [frames[r] EXCEPT ![0] = NewFrame]
    <3>1. row.job = j /\ row.status \in {"succeeded", "failed"}
      BY SMTT(60), <1>2 DEF RunRow
    <3>2. runs' = [runs EXCEPT ![r] = row] /\ frames' = [frames EXCEPT ![r] = fs]
      BY Zenon, <1>10, <2>3 DEF FailRun
    <3>3. FirstFrames(r, fs, 1)
      <4>1. frames[r] \in [Frames -> FrameRow]
        BY <1>1 DEF TypeInv, TypeOK
      <4>2. \A f \in Frames : f \in Int /\ (f < 1 <=> f = 0)
        BY SMTT(60) DEF Frames
      <4> QED
        BY <4>1, <4>2 DEF FirstFrames
    <3>4. PICK to \in {jobs[j].status, "ended"} :
            jobs' = [jobs EXCEPT ![j] = [jobs[j] EXCEPT !.status = to]]
      BY ZenonT(60), <1>10, <2>3 DEF FailRun
    <3>5. BecomesOnly(j, to)
      BY Zenon, <1>2, <3>4, OneJobEnds
    <3> HIDE DEF row, fs
    <3>6. 1 \in 1..MaxFrames
      BY SMTT(60), CronAssumption
    <3>7. Ledger!Answer(r, 1 - 1, to) /\ 1 - 1 \in Frames /\ to \in {"active", "ended"}
      BY <1>1, <1>3, <2>1, <3>1, <3>2, <3>3, <3>4, <3>5, <3>6, RunEndAnswers
    <3> QED
      BY <1>1, <3>7
  <2>4. CASE Exhausted(r) /\ CompletionRaises(r)
    BY <1>5, <1>10, <2>1, <2>4 DEF FailRun
  <2> QED
    BY <2>2, <2>3, <2>4
<1>11. CASE DeferRun(l)
  <2> DEFINE row == [runs[r] EXCEPT !.status = "retry_wait", !.ready = FALSE]
  <2>1. /\ HoldsRun(l) /\ runs' = [runs EXCEPT ![r] = row]
        /\ UNCHANGED <<jobs, frames, shown, paid>>
    BY <1>11 DEF DeferRun
  <2>2. row.job = j /\ row.status \in OpenRun
    BY <1>2 DEF RunRow, OpenRun
  <2> HIDE DEF row
  <2> QED
    BY <1>4, <2>1, <2>2
<1> QED
  BY <1>6, <1>7, <1>8, <1>9, <1>10, <1>11 DEF Execute

\* A job is looked at for redaction when a frame of it is settled: then none of
\* its runs is open, for that frame was the one thing the job was doing.
RedactsOnly ==
  \A i \in Jobs :
    /\ jobs'[i].status = jobs[i].status
    /\ jobs[i].redacted => jobs'[i].redacted
    /\ jobs'[i].redacted /\ ~jobs[i].redacted =>
         /\ Redactable(i, jobs[i].status, frames')
         /\ \E r \in Runs, f \in Frames : runs[r].job = i /\ frames[r][f].status \in OpenFrame

LEMMA RedactionForgets ==
  ASSUME TypeInv, TypeInv', RowsInv, RowsInv', Ledger!OneTask, RunsHold, RedactsOnly
  PROVE  Ledger!Forget /\ UNCHANGED Standing
<1>1. Standing' = Standing
  BY DEF RedactsOnly, Standing
<1>2. Forgotten \subseteq Forgotten' /\ Forgotten' \subseteq Jobs
  BY DEF RedactsOnly, Forgotten
<1>3. ASSUME NEW i \in Forgotten' \ Forgotten
      PROVE  Standing'[i] \in Ledger!Over /\ ~Ledger!Busy(i)'
  <2>1. i \in Jobs /\ jobs'[i].redacted /\ ~jobs[i].redacted
    BY <1>3 DEF Forgotten
  <2>2. PICK r \in Runs, f \in Frames :
          /\ Redactable(i, jobs[i].status, frames')
          /\ runs[r].job = i /\ frames[r][f].status \in OpenFrame
    BY <2>1 DEF RedactsOnly
  <2>3. Standing[i] \in Ledger!Over
    <3>1. Standing[i] = jobs[i].status
      BY <2>1, Readings
    <3> QED
      BY <2>2, <3>1 DEF Redactable, Ledger!Over
  <2>4. RunsOf(i)' = RunsOf(i)
    BY DEF RunsHold, RunsOf, OpenRun
  <2>5. \A q \in RunsOf(i), e \in Frames : frames'[q][e].status \notin OpenFrame
    BY <2>2 DEF Redactable
  <2>6. ASSUME NEW q \in RunsOf(i), runs'[q].status \in OpenRun PROVE FALSE
    <3>1. q \in Runs /\ runs[q].job = i /\ runs[q].status \in OpenRun
      BY <2>6 DEF RunsOf, RunsHold
    <3>2. Working(q) /\ Working(r) /\ runs[r].status \notin Unended
      BY <2>2, <3>1 DEF Working, RowsInv, FramesFollowRuns, OpenFrame
    <3>3. WorkIsRead
      BY WorkReads
    <3>4. Ledger!AtWork(q) /\ Ledger!AtWork(r)
      BY <3>1, <3>2, <3>3 DEF WorkIsRead
    <3>5. runs[q].status # "none" /\ runs[r].status # "none"
      BY <3>1, <3>2, <3>3 DEF WorkIsRead
    <3>6. JobOf[q] = i /\ JobOf[r] = i
      BY <2>2, <3>1, <3>5 DEF JobOf
    <3>7. q = r
      BY <3>1, <3>4, <3>6 DEF Ledger!OneTask
    <3> QED
      BY <3>1, <3>2, <3>7 DEF Unended
  <2>7. ~Busy(i)'
    BY <2>4, <2>5, <2>6 DEF Busy
  <2>8. ~Ledger!Busy(i)'
    BY <2>1, <2>7, WorkReadsNext DEF WorkIsRead
  <2> QED
    BY <1>1, <2>3, <2>8
<1> QED
  BY <1>1, <1>2, <1>3 DEF Ledger!Forget

\* Recovery gives up the frames that were out.
LEMMA RecoverLedger ==
  ASSUME TypeInv, TypeInv', RowsInv, RowsInv', Ledger!OneTask, NEW l \in Lanes, Recover(l)
  PROVE  \E S \in SUBSET (Runs \X Frames) : Ledger!LoseTrack(S)
<1> DEFINE recovered == [r \in Runs |-> [f \in Frames |-> RecoveredFrame(frames[r][f])]]
           uncertain == {r \in Runs : \E f \in Frames :
                           recovered[r][f].status # frames[r][f].status
                           /\ recovered[r][f].status = "unknown"}
           paced == [r \in Runs |-> IF r \in uncertain THEN Paced(recovered, r) ELSE recovered[r]]
<1>1. recovered \in [Runs -> [Frames -> FrameRow]]
  BY RecoveredFrameType DEF TypeInv, TypeOK
<1>2. \A r \in Runs, f \in Frames :
        paced[r][f] \in FrameRow /\ paced[r][f].status = recovered[r][f].status
  <2> SUFFICES ASSUME NEW r \in Runs, NEW f \in Frames
               PROVE  /\ Paced(recovered, r)[f] \in FrameRow
                      /\ Paced(recovered, r)[f].status = recovered[r][f].status
    BY <1>1
  <2> HIDE DEF recovered
  <2> QED
    BY <1>1, PacedKeeps
<1>3. \A r \in Runs, f \in Frames : frames'[r][f].status = recovered[r][f].status
  <2>1. frames' = [r \in Runs |-> [f \in Frames |->
                     [paced[r][f] EXCEPT !.expired = @ /\ paced[r][f].status = frames[r][f].status]]]
    BY Zenon DEF Recover
  <2>2. \A row \in FrameRow : \A b : [row EXCEPT !.expired = b].status = row.status
    BY DEF FrameRow
  <2> HIDE DEF paced, recovered
  <2>3. TAKE r \in Runs, f \in Frames
  <2>4. frames'[r][f] = [paced[r][f] EXCEPT !.expired = @ /\ paced[r][f].status = frames[r][f].status]
    BY <2>1
  <2> QED
    BY SMTT(60), <1>2, <2>2, <2>4
<1>4. \A r \in Runs, f \in Frames :
        \/ recovered[r][f].status = frames[r][f].status
        \/ frames[r][f].status = "leased" /\ recovered[r][f].status = "pending"
        \/ frames[r][f].status = "sending" /\ recovered[r][f].status = "unknown"
  <2>1. \A row \in FrameRow :
          \/ RecoveredFrame(row).status = row.status
          \/ row.status = "leased" /\ RecoveredFrame(row).status = "pending"
          \/ row.status = "sending" /\ RecoveredFrame(row).status = "unknown"
    BY DEF RecoveredFrame, FrameRow
  <2>2. \A r \in Runs, f \in Frames :
          frames[r][f] \in FrameRow /\ recovered[r][f] = RecoveredFrame(frames[r][f])
    BY DEF TypeInv, TypeOK
  <2> HIDE DEF recovered
  <2> QED
    BY <2>1, <2>2
<1>5. RunsHold
  <2>1. \A row \in RunRow : /\ RecoveredRun(row).job = row.job
                            /\ \/ RecoveredRun(row).status = row.status
                               \/ RecoveredRun(row).status \in OpenRun /\ row.status \in OpenRun
    BY SMTT(60) DEF RecoveredRun, RunRow, OpenRun
  <2>2. runs' = [r \in Runs |-> RecoveredRun(runs[r])] /\ runs \in [Runs -> RunRow]
    BY Zenon DEF Recover, TypeInv, TypeOK
  <2> QED
    BY <2>1, <2>2 DEF RunsHold
<1>6. RedactsOnly
  <2>1. \A i \in Jobs :
          jobs'[i] = IF \E r \in uncertain : runs[r].job = i
                     THEN [jobs[i] EXCEPT !.redacted = @ \/ Redactable(i, jobs[i].status, frames')]
                     ELSE jobs[i]
    BY Zenon DEF Recover
  <2>2. \A i \in Jobs : jobs[i] \in JobRow
    BY DEF TypeInv, TypeOK
  <2>3. \A r \in uncertain : r \in Runs /\ \E f \in Frames : frames[r][f].status = "sending"
    BY <1>4
  <2> HIDE DEF uncertain, recovered
  <2> SUFFICES ASSUME NEW i \in Jobs
               PROVE  /\ jobs'[i].status = jobs[i].status
                      /\ jobs[i].redacted => jobs'[i].redacted
                      /\ jobs'[i].redacted /\ ~jobs[i].redacted =>
                           /\ Redactable(i, jobs[i].status, frames')
                           /\ \E r \in Runs, f \in Frames :
                                runs[r].job = i /\ frames[r][f].status \in OpenFrame
    BY DEF RedactsOnly
  <2>4. CASE \E r \in uncertain : runs[r].job = i
    <3> DEFINE b == jobs[i].redacted \/ Redactable(i, jobs[i].status, frames')
    <3>1. jobs'[i] = [jobs[i] EXCEPT !.redacted = b]
      BY <2>1, <2>4
    <3>2. jobs'[i].status = jobs[i].status /\ jobs'[i].redacted = b
      BY <2>2, <3>1 DEF JobRow
    <3>3. \E r \in Runs, f \in Frames : runs[r].job = i /\ frames[r][f].status \in OpenFrame
      BY <2>3, <2>4 DEF OpenFrame
    <3> QED
      BY <3>2, <3>3
  <2>5. CASE ~\E r \in uncertain : runs[r].job = i
    BY <2>1, <2>5
  <2> QED
    BY SMTT(60), <2>4, <2>5
<1>7. Ledger!Forget /\ UNCHANGED Standing
  BY <1>5, <1>6, RedactionForgets
<1> DEFINE S == {rf \in Runs \X Frames :
                   /\ frames[rf[1]][rf[2]].status = "sending"
                   /\ frames'[rf[1]][rf[2]].status = "unknown"}
<1>8. /\ \A r \in Runs, f \in Frames : <<r, f>> \in S => Fates[r][f] = "out"
      /\ Fates' = [r \in Runs |-> [f \in Frames |-> IF <<r, f>> \in S THEN "unknown" ELSE Fates[r][f]]]
  <2>1. \A r \in Runs, f \in Frames :
          <<r, f>> \in S <=> /\ frames[r][f].status = "sending"
                             /\ frames'[r][f].status = "unknown"
    OBVIOUS
  <2> HIDE DEF S, recovered
  <2>2. /\ Fate("sending") = "out" /\ Fate("unknown") = "unknown"
        /\ Fate("leased") = "waiting" /\ Fate("pending") = "waiting"
    BY FateReads DEF FrameStatus, OpenFrame, FinalFrame
  <2>3. ASSUME NEW r \in Runs, NEW f \in Frames
        PROVE  /\ <<r, f>> \in S => Fates[r][f] = "out"
               /\ Fates'[r][f] = IF <<r, f>> \in S THEN "unknown" ELSE Fates[r][f]
    <3>1. Fates[r][f] = Fate(frames[r][f].status) /\ Fates'[r][f] = Fate(frames'[r][f].status)
      BY Zenon, Readings
    <3> QED
      BY <1>3, <1>4, <2>1, <2>2, <3>1
  <2> QED
    BY <2>3 DEF Fates
<1>9. UNCHANGED <<JobOf, Phases, Appeared, paid>>
  BY Zenon, <1>5, RunsHolding, ShownHolding DEF Recover
<1> HIDE DEF S
<1>10. Ledger!LoseTrack(S)
  BY <1>7, <1>8, <1>9 DEF Ledger!LoseTrack
<1> QED
  BY <1>10 DEF S

-----------------------------------------------------------------------------
(* A frame on its way *)

\* One frame is written, and the ledger reads it anew.
LEMMA OneFate ==
  ASSUME NEW r \in Runs, NEW f \in Frames,
         \A q \in Runs, e \in Frames :
           <<q, e>> # <<r, f>> => frames'[q][e].status = frames[q][e].status
  PROVE  Fates' = [Fates EXCEPT ![r][f] = Fate(frames'[r][f].status)]
<1> DEFINE fate == Fate(frames'[r][f].status)
<1>1. \A q \in Runs, e \in Frames : Fates'[q][e] = IF q = r /\ e = f THEN fate ELSE Fates[q][e]
  BY DEF Fates
<1>2. /\ \A q \in Runs : Fates[q] = [e \in Frames |-> Fates[q][e]]
      /\ \A q \in Runs : Fates'[q] = [e \in Frames |-> Fates'[q][e]]
      /\ Fates = [q \in Runs |-> Fates[q]] /\ Fates' = [q \in Runs |-> Fates'[q]]
  BY DEF Fates
<1> HIDE DEF fate
<1>3. Fates'[r] = [Fates[r] EXCEPT ![f] = fate]
  BY <1>1, <1>2
<1>4. \A q \in Runs : q # r => Fates'[q] = Fates[q]
  BY <1>1, <1>2
<1>5. Fates' = [Fates EXCEPT ![r] = [Fates[r] EXCEPT ![f] = fate]]
  BY <1>2, <1>3, <1>4
<1> QED
  BY <1>5 DEF fate

LEMMA ClaimDeliveryStays ==
  ASSUME TypeInv, NEW l \in Lanes, ClaimDelivery(l)
  PROVE  UNCHANGED Ledger!vars
<1>1. UNCHANGED <<jobs, runs, shown, paid>>
  BY Zenon DEF ClaimDelivery
<1>2. CASE \E r \in Runs, f \in Frames : Claimable(r, f)
  <2>1. PICK r \in Runs, f \in Frames :
          /\ Claimable(r, f)
          /\ frames' = [frames EXCEPT ![r][f] =
                          [frames[r][f] EXCEPT !.status = "leased", !.attempts = @ + 1,
                                               !.expired = FALSE, !.holder = l]]
    BY Zenon, <1>2 DEF ClaimDelivery
  <2> DEFINE row == [frames[r][f] EXCEPT !.status = "leased", !.attempts = @ + 1,
                                         !.expired = FALSE, !.holder = l]
  <2>2. row.status = "leased"
    BY DEF TypeInv, TypeOK, FrameRow
  <2>3. Fate("leased") = "waiting" /\ Fate("pending") = "waiting" /\ Fate("retry_wait") = "waiting"
    BY FateReads DEF FrameStatus, OpenFrame
  <2>4. Fate(row.status) = Fate(frames[r][f].status)
    BY <2>1, <2>2, <2>3 DEF Claimable
  <2>5. frames' = [frames EXCEPT ![r][f] = row]
    BY <2>1
  <2> HIDE DEF row
  <2>6. FramesHold
    BY <2>4, <2>5, OneFrameHolds
  <2> QED
    BY SMTT(60), <1>1, <2>6, SameRowsHold, LedgerStays
<1>3. CASE ~\E r \in Runs, f \in Frames : Claimable(r, f)
  BY Zenon, <1>1, <1>3, SameRowsHold, LedgerStays DEF ClaimDelivery
<1> QED
  BY SMTT(60), <1>2, <1>3

\* A frame that is not settled is of a run that was made.
LEMMA FrameOfJob ==
  ASSUME TypeInv, RowsInv, NEW r \in Runs, NEW f \in Frames, frames[r][f].status # "none"
  PROVE  JobOf[r] = runs[r].job /\ runs[r].job \in Jobs /\ runs[r].status \notin Unended
<1>1. runs[r].job \in Jobs /\ runs[r].status \notin Unended
  BY DEF TypeInv, TypeOK, RunRow, RowsInv, FramesFollowRuns
<1> QED
  BY <1>1, Readings DEF Unended

\* A frame that is admitted goes out, those before it being settled.
LEMMA FrameIsSent ==
  ASSUME TypeInv, RowsInv, WorkInv, NEW r \in Runs, NEW f \in Frames,
         frames' = [frames EXCEPT ![r][f] = [frames[r][f] EXCEPT !.status = "sending"]],
         frames[r][f].status = "leased", FrameIsCurrent(r),
         UNCHANGED <<Standing, JobOf, Phases, Appeared, Forgotten, paid>>
  PROVE  Ledger!Send(r, f)
<1> DEFINE row == [frames[r][f] EXCEPT !.status = "sending"]
<1>1. row.status = "sending"
  BY DEF TypeInv, TypeOK, FrameRow
<1>2. frames' = [frames EXCEPT ![r][f] = row]
  OBVIOUS
<1> HIDE DEF row
<1>3. \A q \in Runs, e \in Frames : frames'[q][e] = IF q = r /\ e = f THEN row ELSE frames[q][e]
  BY <1>2 DEF TypeInv, TypeOK
<1>4. /\ frames'[r][f].status = "sending"
      /\ \A q \in Runs, e \in Frames :
           <<q, e>> # <<r, f>> => frames'[q][e].status = frames[q][e].status
  BY <1>1, <1>3
<1>5. Fate("sending") = "out" /\ Fate("leased") = "waiting"
  BY FateReads DEF FrameStatus, OpenFrame
<1>6. Fates' = [Fates EXCEPT ![r][f] = "out"]
  <2>1. Fates' = [Fates EXCEPT ![r][f] = Fate(frames'[r][f].status)]
    BY <1>4, OneFate
  <2> QED
    BY <1>4, <1>5, <2>1
<1>7. Fates[r][f] = "waiting"
  <2>1. Fates[r][f] = Fate(frames[r][f].status)
    BY Readings
  <2> QED
    BY <1>5, <2>1
<1>8. Standing[JobOf[r]] \in {"active", "ended"}
  <2>1. JobOf[r] = runs[r].job /\ runs[r].job \in Jobs
    BY FrameOfJob
  <2>2. Standing[runs[r].job] = jobs[runs[r].job].status
    BY <2>1, Readings
  <2> QED
    BY <2>1, <2>2 DEF FrameIsCurrent
<1>9. \A e \in Frames : e < f => Fates[r][e] \notin Ledger!Unsettled \cup {"none"}
  <2> SUFFICES ASSUME NEW e \in Frames, e < f
               PROVE  Fates[r][e] \notin {"waiting", "out"} \cup {"none"}
    BY DEF Ledger!Unsettled
  <2>1. frames[r][e].status \in FinalFrame
    BY DEF WorkInv, BegunInOrder, Begun
  <2>2. frames[r][e].status \in FrameStatus /\ frames[r][e].status \notin OpenFrame
        /\ frames[r][e].status # "none"
    BY <2>1 DEF FrameStatus, OpenFrame, FinalFrame
  <2>3. Fate(frames[r][e].status) \notin {"waiting", "out"} \cup {"none"}
    BY <2>2, FateReads
  <2>4. Fates[r][e] = Fate(frames[r][e].status)
    BY Readings
  <2> QED
    BY <2>3, <2>4
<1> QED
  BY <1>6, <1>7, <1>8, <1>9 DEF Ledger!Send

LEMMA AdmitLedger ==
  ASSUME TypeInv, RowsInv, WorkInv, NEW l \in Lanes, AdmitDelivery(l)
  PROVE  UNCHANGED Ledger!vars \/ \E r \in Runs, f \in Frames : Ledger!OfFrame(r, f)
<1> DEFINE r == lanes[l].run
           f == lanes[l].frame
<1>1. UNCHANGED <<jobs, runs, shown, paid>> /\ lanes[l].pc = "admit"
  BY DEF AdmitDelivery
<1>2. r \in Runs /\ f \in Frames /\ frames[r][f] \in FrameRow
  BY <1>1 DEF TypeInv, TypeOK, LanesHold, Lane
<1>3. UNCHANGED <<Standing, JobOf, Phases, Appeared, Forgotten>>
  BY SMTT(60), <1>1, SameRowsHold, RunsHolding, JobsHolding, ShownHolding
<1>4. CASE Admits(l)
  <2>1. /\ frames' = [frames EXCEPT ![r][f] = [frames[r][f] EXCEPT !.status = "sending"]]
        /\ frames[r][f].status = "leased" /\ FrameIsCurrent(r)
    BY <1>2, <1>4 DEF AdmitDelivery, Admits, TypeInv, TypeOK
  <2> QED
    BY <1>1, <1>2, <1>3, <2>1, FrameIsSent DEF Ledger!OfFrame
<1>5. CASE ~Admits(l)
  BY <1>1, <1>5, SameRowsHold, LedgerStays DEF AdmitDelivery
<1> QED
  BY <1>4, <1>5

LEMMA TakesIsAppear ==
  ASSUME TypeInv, SendInv, NEW l \in Lanes, TelegramTakes(l)
  PROVE  \E r \in Runs, f \in Frames : Ledger!OfFrame(r, f)
<1> DEFINE r == lanes[l].run
           f == lanes[l].frame
<1>1. UNCHANGED <<jobs, runs, frames, paid>> /\ lanes[l].pc = "sending"
  BY DEF TelegramTakes
<1>2. r \in Runs /\ f \in Frames
  BY <1>1 DEF TypeInv, TypeOK, LanesHold, Lane
<1>3. shown[r][f] = 0 /\ frames[r][f].status \in {"sending", "unknown"}
  BY <1>1 DEF SendInv, SendersKnow, HoldsSend
<1>4. /\ shown'[r][f] = 1
      /\ \A q \in Runs, e \in Frames : <<q, e>> # <<r, f>> => shown'[q][e] = shown[q][e]
  <2>1. shown' = [shown EXCEPT ![r][f] = shown[r][f] + 1]
    BY <1>2 DEF TelegramTakes, TypeInv, TypeOK
  <2> QED
    BY <1>2, <1>3, <2>1 DEF TypeInv, TypeOK
<1>5. <<r, f>> \notin Appeared /\ Appeared' = Appeared \cup {<<r, f>>}
  <2>1. Appeared \subseteq Runs \X Frames /\ Appeared' \subseteq Runs \X Frames
    BY DEF Appeared
  <2>2. \A q \in Runs, e \in Frames :
          /\ <<q, e>> \in Appeared <=> shown[q][e] > 0
          /\ <<q, e>> \in Appeared' <=> shown'[q][e] > 0
    BY Zenon, Readings
  <2>3. <<r, f>> \notin Appeared /\ <<r, f>> \in Appeared'
    BY <1>2, <1>3, <1>4, <2>2
  <2>4. \A q \in Runs, e \in Frames :
          <<q, e>> # <<r, f>> => (<<q, e>> \in Appeared' <=> <<q, e>> \in Appeared)
    BY <1>4, <2>2
  <2> QED
    BY <1>2, <2>1, <2>3, <2>4
<1>6. Fates[r][f] \in {"out", "unknown"}
  <2>1. Fate("sending") = "out" /\ Fate("unknown") = "unknown"
    BY FateReads DEF FrameStatus, OpenFrame, FinalFrame
  <2>2. Fates[r][f] = Fate(frames[r][f].status)
    BY <1>2, Readings
  <2> QED
    BY <1>3, <2>1, <2>2
<1>7. UNCHANGED <<Standing, JobOf, Phases, Fates, Forgotten>>
  BY <1>1, SameRowsHold, RunsHolding, JobsHolding, FramesHolding
<1>8. Ledger!Appear(r, f)
  BY <1>1, <1>5, <1>6, <1>7 DEF Ledger!Appear
<1> QED
  BY <1>2, <1>8 DEF Ledger!OfFrame

\* What is recorded of a frame that is settled.
SettlesFrame(r, f, status) ==
  /\ frames[r][f].status = "sending"
  /\ frames'[r][f].status = status
  /\ \A q \in Runs, e \in Frames :
       <<q, e>> # <<r, f>> => frames'[q][e].status = frames[q][e].status

\* A frame that is settled is settled alone, and its job may be forgotten.
LEMMA SettleSettles ==
  ASSUME TypeInv, NEW l \in Lanes, lanes[l].pc \in {"sending", "accepted"},
         NEW status \in FinalFrame, HoldsSend(l), Settle(l, status)
  PROVE  SettlesFrame(lanes[l].run, lanes[l].frame, status) /\ RedactsOnly
<1> DEFINE r == lanes[l].run
           f == lanes[l].frame
           settled == [frames EXCEPT ![r][f] = [@ EXCEPT !.status = status]]
<1>1. r \in Runs /\ f \in Frames /\ runs[r].job \in Jobs
  BY SMTT(60) DEF TypeInv, TypeOK, LanesHold, Lane, RunRow
<1>2. frames' = [settled EXCEPT ![r] = Paced(settled, r)]
  BY DEF Settle
<1>3. frames \in [Runs -> [Frames -> FrameRow]] /\ frames[r][f].status = "sending"
  BY DEF TypeInv, TypeOK, HoldsSend
<1>4. /\ [frames[r][f] EXCEPT !.status = status] \in FrameRow
      /\ [frames[r][f] EXCEPT !.status = status].status = status
  <2>1. \A row \in FrameRow : /\ [row EXCEPT !.status = status] \in FrameRow
                              /\ [row EXCEPT !.status = status].status = status
    BY SMTT(60) DEF FrameRow
  <2> QED
    BY <1>1, <1>3, <2>1
<1>5. /\ settled \in [Runs -> [Frames -> FrameRow]]
      /\ settled[r][f].status = status
      /\ \A q \in Runs, e \in Frames : <<q, e>> # <<r, f>> => settled[q][e] = frames[q][e]
  BY <1>1, <1>3, <1>4
<1> HIDE DEF settled
<1>6. \A q \in Runs, e \in Frames : frames'[q][e].status = settled[q][e].status
  BY <1>1, <1>2, <1>5, PacedKeeps
<1>7. SettlesFrame(r, f, status)
  BY SMTT(60), <1>1, <1>3, <1>5, <1>6 DEF SettlesFrame
<1>8. RedactsOnly
  <2> DEFINE j == runs[r].job
             b == jobs[j].redacted \/ Redactable(j, jobs[j].status, frames')
  <2>1. jobs' = [jobs EXCEPT ![j] = [jobs[j] EXCEPT !.redacted = b]]
    BY Zenon DEF Settle, Redacted
  <2>2. jobs[j] \in JobRow /\ jobs \in [Jobs -> JobRow]
    BY <1>1 DEF TypeInv, TypeOK
  <2> HIDE DEF b
  <2>3. /\ jobs'[j] = [jobs[j] EXCEPT !.redacted = b]
        /\ \A i \in Jobs : i # j => jobs'[i] = jobs[i]
    BY <1>1, <2>1, <2>2
  <2>4. jobs'[j].status = jobs[j].status /\ jobs'[j].redacted = b
    BY <2>2, <2>3 DEF JobRow
  <2>5. \E q \in Runs, e \in Frames : runs[q].job = j /\ frames[q][e].status \in OpenFrame
    BY <1>1, <1>3 DEF OpenFrame
  <2> QED
    BY Zenon, <2>3, <2>4, <2>5 DEF RedactsOnly, b
<1> QED
  BY <1>7, <1>8

\* A definite outcome, and one that nobody knows.
LEMMA OutcomeIsRecorded ==
  ASSUME TypeInv, TypeInv', RowsInv, RowsInv', Ledger!OneTask,
         NEW r \in Runs, NEW f \in Frames, NEW status \in FinalFrame \ {"suppressed"},
         SettlesFrame(r, f, status), RedactsOnly, UNCHANGED <<runs, shown, paid>>,
         status = "delivered" => shown[r][f] = 1,
         status = "exhausted" => shown[r][f] = 0
  PROVE  \/ Ledger!OfFrame(r, f)
         \/ \E S \in SUBSET (Runs \X Frames) : Ledger!LoseTrack(S)
<1>1. RunsHold
  BY SameRowsHold
<1>2. Ledger!Forget /\ UNCHANGED Standing
  BY <1>1, RedactionForgets
<1>3. UNCHANGED <<JobOf, Phases, Appeared, paid>>
  BY <1>1, RunsHolding, ShownHolding
<1>4. Fates[r][f] = "out"
  <2>1. Fates[r][f] = Fate(frames[r][f].status)
    BY Readings
  <2>2. Fate("sending") = "out"
    BY FateReads DEF FrameStatus, OpenFrame
  <2> QED
    BY <2>1, <2>2 DEF SettlesFrame
<1>5. Fates' = [Fates EXCEPT ![r][f] = Fate(status)]
  BY OneFate DEF SettlesFrame
<1>6. <<r, f>> \in Appeared <=> shown[r][f] > 0
  BY Readings
<1>7. /\ Fate("delivered") = "delivered" /\ Fate("exhausted") = "dropped"
      /\ Fate("unknown") = "unknown"
  BY FateReads DEF FrameStatus, OpenFrame, FinalFrame
<1>8. CASE status = "unknown"
  <2> DEFINE S == {<<r, f>>}
  <2>1. \A q \in Runs, e \in Frames : <<q, e>> \in S <=> q = r /\ e = f
    OBVIOUS
  <2>2. S \in SUBSET (Runs \X Frames)
    OBVIOUS
  <2> HIDE DEF S
  <2>3. \A q \in Runs, e \in Frames :
          Fates'[q][e] = IF <<q, e>> \in S THEN "unknown" ELSE Fates[q][e]
    <3> SUFFICES ASSUME NEW q \in Runs, NEW e \in Frames
                 PROVE  Fates'[q][e] = IF q = r /\ e = f THEN "unknown" ELSE Fates[q][e]
      BY Zenon, <2>1
    <3>1. Fates[q][e] = Fate(frames[q][e].status) /\ Fates'[q][e] = Fate(frames'[q][e].status)
      BY Readings
    <3>2. CASE q = r /\ e = f
      BY <1>7, <1>8, <3>1, <3>2 DEF SettlesFrame
    <3>3. CASE ~(q = r /\ e = f)
      BY <3>1, <3>3 DEF SettlesFrame
    <3> QED
      BY <3>2, <3>3
  <2>4. Fates' = [q \in Runs |-> [e \in Frames |->
                    IF <<q, e>> \in S THEN "unknown" ELSE Fates[q][e]]]
    BY <2>3 DEF Fates
  <2>5. Ledger!LoseTrack(S)
    BY <1>2, <1>3, <1>4, <2>1, <2>4 DEF Ledger!LoseTrack
  <2> QED
    BY <2>2, <2>5
<1>9. CASE status \in {"delivered", "exhausted"}
  <2>1. Fate(status) = IF <<r, f>> \in Appeared THEN "delivered" ELSE "dropped"
    BY <1>6, <1>7, <1>9
  <2>2. Ledger!Settle(r, f)
    BY <1>2, <1>3, <1>4, <1>5, <2>1 DEF Ledger!Settle
  <2> QED
    BY <2>2 DEF Ledger!OfFrame
<1> QED
  BY <1>8, <1>9 DEF FinalFrame

LEMMA FinishLedger ==
  ASSUME TypeInv, TypeInv', RowsInv, RowsInv', Ledger!OneTask, NEW l \in Lanes,
         lanes[l].pc \in {"sending", "accepted"},
         NEW status \in FinalFrame \ {"suppressed"}, Finish(l, status),
         status = "delivered" => shown[lanes[l].run][lanes[l].frame] = 1,
         status = "exhausted" => shown[lanes[l].run][lanes[l].frame] = 0
  PROVE  \/ UNCHANGED Ledger!vars
         \/ \E r \in Runs, f \in Frames : Ledger!OfFrame(r, f)
         \/ \E S \in SUBSET (Runs \X Frames) : Ledger!LoseTrack(S)
<1>1. UNCHANGED <<runs, shown, paid>>
  BY DEF Finish
<1>2. PICK r \in Runs, f \in Frames : r = lanes[l].run /\ f = lanes[l].frame
  BY DEF TypeInv, TypeOK, LanesHold, Lane
<1>3. CASE HoldsSend(l) /\ Settle(l, status)
  <2>1. SettlesFrame(r, f, status) /\ RedactsOnly
    BY <1>2, <1>3, SettleSettles
  <2> QED
    BY <1>1, <1>2, <2>1, OutcomeIsRecorded
<1>4. CASE ~HoldsSend(l) /\ UNCHANGED <<frames, jobs>>
  BY <1>1, <1>4, SameRowsHold, LedgerStays
<1> QED
  BY <1>3, <1>4 DEF Finish

\* A frame that Telegram rejects, with attempts left, waits again.
LEMMA RejectedReturns ==
  ASSUME TypeInv, NEW r \in Runs, NEW f \in Frames, NEW row, row.status = "retry_wait",
         frames[r][f].status = "sending", shown[r][f] = 0,
         frames' = [frames EXCEPT ![r][f] = row], UNCHANGED <<jobs, runs, shown, paid>>
  PROVE  Ledger!OfFrame(r, f)
<1>1. \A q \in Runs, e \in Frames : frames'[q][e] = IF q = r /\ e = f THEN row ELSE frames[q][e]
  BY DEF TypeInv, TypeOK
<1>2. Fates' = [Fates EXCEPT ![r][f] = Fate(frames'[r][f].status)]
  BY <1>1, OneFate
<1>3. Fate("retry_wait") = "waiting" /\ Fate("sending") = "out"
  BY FateReads DEF FrameStatus, OpenFrame
<1>4. frames'[r][f].status = "retry_wait"
  BY <1>1
<1>5. Fates[r][f] = Fate(frames[r][f].status) /\ (<<r, f>> \in Appeared <=> shown[r][f] > 0)
  BY Readings
<1>6. UNCHANGED <<Standing, JobOf, Phases, Appeared, Forgotten>>
  BY SameRowsHold, RunsHolding, JobsHolding, ShownHolding
<1>7. Fates' = [Fates EXCEPT ![r][f] = "waiting"] /\ Fates[r][f] = "out" /\ <<r, f>> \notin Appeared
  <2>1. Fate(frames'[r][f].status) = "waiting"
    BY <1>3, <1>4
  <2>2. Fates[r][f] = "out" /\ <<r, f>> \notin Appeared
    BY <1>3, <1>5
  <2> QED
    BY <1>2, <2>1, <2>2
<1>8. Ledger!Return(r, f)
  BY <1>6, <1>7 DEF Ledger!Return
<1> QED
  BY <1>8 DEF Ledger!OfFrame

LEMMA RejectedLedger ==
  ASSUME TypeInv, TypeInv', RowsInv, RowsInv', SendInv, Ledger!OneTask, NEW l \in Lanes,
         SendRejected(l)
  PROVE  \/ UNCHANGED Ledger!vars
         \/ \E r \in Runs, f \in Frames : Ledger!OfFrame(r, f)
         \/ \E S \in SUBSET (Runs \X Frames) : Ledger!LoseTrack(S)
<1>1. lanes[l].pc = "sending" /\ shown[lanes[l].run][lanes[l].frame] = 0
  BY DEF SendRejected, SendInv, SendersKnow
<1>2. CASE Finish(l, "exhausted")
  BY <1>1, <1>2, FinishLedger DEF FinalFrame
<1>3. CASE ~Finish(l, "exhausted")
  <2>1. PICK r \in Runs, f \in Frames : r = lanes[l].run /\ f = lanes[l].frame
    BY <1>1 DEF TypeInv, TypeOK, LanesHold, Lane
  <2> DEFINE row == [frames[r][f] EXCEPT !.status = "retry_wait", !.ready = FALSE]
  <2>2. /\ HoldsSend(l) /\ frames' = [frames EXCEPT ![r][f] = row]
        /\ UNCHANGED <<jobs, runs, shown, paid>>
    BY <1>3, <2>1 DEF SendRejected, TypeInv, TypeOK
  <2>3. row.status = "retry_wait" /\ frames[r][f].status = "sending" /\ shown[r][f] = 0
    BY <1>1, <2>1, <2>2 DEF HoldsSend, TypeInv, TypeOK, FrameRow
  <2> HIDE DEF row
  <2> QED
    BY <2>2, <2>3, RejectedReturns
<1> QED
  BY SMTT(60), <1>2, <1>3

LEMMA DeliverLedger ==
  ASSUME TypeInv, TypeInv', RowsInv, RowsInv', SendInv, WorkInv, TakenIsShown, Ledger!OneTask,
         NEW l \in Lanes, Deliver(l)
  PROVE  \/ UNCHANGED Ledger!vars
         \/ \E r \in Runs, f \in Frames : Ledger!OfFrame(r, f)
         \/ \E S \in SUBSET (Runs \X Frames) : Ledger!LoseTrack(S)
<1>1. CASE CompleteDelivery(l)
  <2>1. shown[lanes[l].run][lanes[l].frame] = 1
    BY <1>1 DEF CompleteDelivery, TakenIsShown
  <2> QED
    BY <1>1, <2>1, FinishLedger DEF CompleteDelivery, FinalFrame
<1>2. CASE SendUncertain(l)
  BY <1>2, FinishLedger DEF SendUncertain, FinalFrame
<1> QED
  BY <1>1, <1>2, ClaimDeliveryStays, AdmitLedger, TakesIsAppear, RejectedLedger DEF Deliver

-----------------------------------------------------------------------------
(* The refinement *)

\* Every step of the tables is a step of the ledger, or none of its business.
LEMMA LedgerStep ==
  ASSUME LedgerInv, OccurrenceInv', [Next]_vars
  PROVE  [Ledger!Next]_Ledger!vars
<1>1. /\ TypeInv /\ RowsInv /\ SendInv /\ WorkInv /\ PaidInv
      /\ TakenIsShown /\ InTime /\ Ledger!OneTask /\ Ledger!ForgottenIsDone
  BY DEF LedgerInv, OccurrenceInv, SchedulerInv, DeliveryInv
<1>2. TypeInv' /\ RowsInv'
  BY DEF OccurrenceInv, SchedulerInv, DeliveryInv
<1>3. CASE Tick \/ RowsReady \/ LeasesExpire \/ \E l \in Lanes : Crash(l)
  BY <1>1, <1>3, TimeStays
<1>4. CASE Owner
  <2>1. \E j \in Jobs : Ledger!OfJob(j)
    BY <1>1, <1>2, <1>4, OwnerLedger DEF Owner
  <2> QED
    BY <2>1 DEF Ledger!Next
<1>5. ASSUME NEW l \in Lanes, LaneStep(l)
      PROVE  [Ledger!Next]_Ledger!vars
  <2>1. CASE Recover(l)
    BY <1>1, <1>2, <2>1, RecoverLedger DEF Ledger!Next
  <2>2. CASE ClaimDueRun(l)
    BY <1>1, <2>2, ClaimDueRunLedger DEF Ledger!Next
  <2>3. CASE Execute(l)
    BY <1>1, <2>3, ExecuteLedger DEF Ledger!Next
  <2>4. CASE Deliver(l)
    BY <1>1, <1>2, <2>4, DeliverLedger DEF Ledger!Next
  <2> QED
    BY <1>5, <2>1, <2>2, <2>3, <2>4 DEF LaneStep
<1>6. CASE UNCHANGED vars
  <2>1. UNCHANGED <<jobs, runs, frames, shown, paid>>
    BY <1>6 DEF vars
  <2> QED
    BY <2>1, SameRowsHold, LedgerStays
<1> QED
  BY <1>3, <1>4, <1>5, <1>6 DEF Next

LEMMA LedgerInit ==
  ASSUME Init
  PROVE  Ledger!Init
<1>1. Fate("none") = "none" /\ Phase("none") = "none"
  BY FateReads, PhaseReads DEF FrameStatus, RunStatus
<1>2. /\ \A j \in Jobs : jobs[j].status = "none" /\ ~jobs[j].redacted
      /\ \A r \in Runs : runs[r].status = "none"
      /\ \A r \in Runs, f \in Frames : frames[r][f].status = "none" /\ shown[r][f] = 0
      /\ paid = [j \in Jobs |-> {}]
  BY DEF Init, NoJobRow, NoRunRow, NoFrameRow
<1>3. /\ Standing = [j \in Jobs |-> "none"]
      /\ JobOf = [r \in Runs |-> NoJob]
      /\ Phases = [r \in Runs |-> "none"]
      /\ Fates = [r \in Runs |-> [f \in Frames |-> "none"]]
  BY <1>1, <1>2 DEF Standing, JobOf, Phases, Fates
<1>4. Appeared = {} /\ Forgotten = {}
  BY <1>2 DEF Appeared, Forgotten
<1> QED
  BY <1>2, <1>3, <1>4 DEF Ledger!Init

LEMMA LedgerInvInit == Init => LedgerInv
<1> SUFFICES ASSUME Init PROVE LedgerInv
  OBVIOUS
<1>1. OccurrenceInv
  BY OccurrenceInvInit
<1>2. TakenIsShown /\ InTime
  BY CronAssumption DEF Init, TakenIsShown, InTime, Resting
<1>3. Ledger!Init
  BY LedgerInit
<1>4. \A r \in Runs : ~Ledger!AtWork(r)
  BY <1>3 DEF Ledger!Init, Ledger!AtWork, Ledger!Unsettled
<1>5. Ledger!OneTask /\ Ledger!ForgottenIsDone
  BY <1>3, <1>4 DEF Ledger!Init, Ledger!OneTask, Ledger!ForgottenIsDone
<1> QED
  BY <1>1, <1>2, <1>5 DEF LedgerInv

LEMMA LedgerInvStep ==
  ASSUME LedgerInv, [Next]_vars
  PROVE  LedgerInv' /\ [Ledger!Next]_Ledger!vars
<1>1. /\ OccurrenceInv /\ TypeInv /\ SendInv
      /\ TakenIsShown /\ InTime /\ Ledger!OneTask /\ Ledger!ForgottenIsDone
  BY DEF LedgerInv, OccurrenceInv, SchedulerInv, DeliveryInv
<1>2. OccurrenceInv'
  BY <1>1, OccurrenceInvStep
<1>3. TakenIsShown' /\ InTime'
  BY <1>1, TakenIsShownStep, InTimeStep
<1>4. [Ledger!Next]_Ledger!vars
  BY <1>2, LedgerStep
<1>5. (Ledger!OneTask /\ Ledger!ForgottenIsDone)'
  BY <1>1, <1>4, LedgerKeeps
<1> QED
  BY <1>2, <1>3, <1>4, <1>5 DEF LedgerInv

\* The tables, with their lanes, leases, retries, deaths and edits, implement
\* the ledger: what the owner of a job is promised holds of every run and frame
\* of cron_store.py and cron_service.py. (LedgerSpec.)
THEOREM SchedulerImplementsLedger == Spec => LedgerSpec
<1>1. Init => LedgerInv /\ Ledger!Init
  BY LedgerInvInit, LedgerInit
<1>2. LedgerInv /\ [Next]_vars => LedgerInv' /\ [Ledger!Next]_Ledger!vars
  BY LedgerInvStep
<1> QED
  BY <1>1, <1>2, PTL DEF Spec, LedgerSpec, Ledger!Spec

\* So a job does one thing at a time, from the claim of a run to the last frame
\* of its answer, whoever claims, recovers or retries; and a job whose prompt is
\* redacted has nothing left to run or to send, nor ever will.
THEOREM SchedulerForgetsTheDone == Spec => [](Ledger!OneTask /\ Ledger!ForgottenIsDone)
<1>1. Init => LedgerInv
  BY LedgerInvInit
<1>2. LedgerInv /\ [Next]_vars => LedgerInv'
  BY LedgerInvStep
<1>3. LedgerInv => Ledger!OneTask /\ Ledger!ForgottenIsDone
  BY DEF LedgerInv
<1> QED
  BY <1>1, <1>2, <1>3, PTL DEF Spec

=============================================================================
