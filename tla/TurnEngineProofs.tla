-------------------------- MODULE TurnEngineProofs --------------------------
(* For every budget, every set of tools and whatever the model, the tools, a  *)
(* peer, the owner's switch and the clock do: a turn changes something at     *)
(* most once, the host accepts every event of it, a turn that showed text     *)
(* says how it ended, and the model speaks only after the results it saw.     *)
EXTENDS TurnEngine, FiniteSetTheorems, SequenceTheorems, TLAPS

IsAttempt(a) ==
  a = [offered |-> a.offered, limit |-> a.limit, fresh |-> a.fresh, calls |-> a.calls,
       held |-> a.held, sent |-> a.sent, end |-> a.end]

\* A stream that is begun after something was tried is offered no tool that acts,
\* and what is about to run was offered.
ActsInv ==
  /\ IsAttempt(attempt)
  /\ ran \in Nat /\ ran <= 1
  /\ ran = 1 => acted
  /\ at \in {"stream", "judge", "window"} /\ acted => attempt.offered \cap Acting = {}
  /\ at = "window" => Range(attempt.calls) \subseteq attempt.offered

\* What leaves the streams behind and runs nothing keeps it.
LEMMA QuietSteps ==
  ASSUME ActsInv, UNCHANGED <<acted, ran>>, IsAttempt(attempt'),
         at' \notin {"stream", "judge", "window"}
  PROVE  ActsInv'
BY DEF ActsInv

LEMMA EndingIsQuiet ==
  ASSUME ActsInv, NEW out, NEW more, NEW status,
         Finish(out, more, status) \/ GiveUp(more) \/ Raise \/ SayInstead(out)
  PROVE  ActsInv'
<1>1. at' = "done" /\ UNCHANGED <<acted, ran>> /\ attempt' \in {attempt, NoAttempt}
  BY DEF Finish, GiveUp, Raise, SayInstead
<1> QED
  BY <1>1, QuietSteps DEF ActsInv, IsAttempt, NoAttempt

LEMMA NewAttempt ==
  ASSUME ActsInv, NEW offered, Attempt(offered), UNCHANGED <<acted, ran>>,
         acted => offered \cap Acting = {}
  PROVE  ActsInv'
BY DEF Attempt, ActsInv, IsAttempt

\* A new segment is offered nothing, or, for a peer that has been asked, its answer.
LEMMA BeginKeepsActs ==
  ASSUME ActsInv, Begin
  PROVE  ActsInv'
<1>1. CASE SayInstead(0) \/ GiveUp(<<>>)
  BY <1>1, EndingIsQuiet
<1>2. CASE ~expired
  <2> DEFINE offered == IF ~AllowTools THEN {} ELSE IF pending THEN Tools \cap {"resume"} ELSE Tools
  <2>1. Attempt(offered) /\ UNCHANGED <<acted, ran>>
    BY <1>2 DEF Begin
  <2>2. acted => offered \cap Acting = {}
    BY DEF AllowTools, Acting
  <2> QED
    BY <2>1, <2>2, NewAttempt
<1> QED
  BY <1>1, <1>2 DEF Begin

\* The model's stream and its judgement: what is offered stays what it was.
LEMMA StreamKeepsActs ==
  ASSUME ActsInv, ReadPlan \/ ReadFrame \/ ReadCall \/ StreamEnds \/ Judge
  PROVE  ActsInv'
<1>1. CASE ReadPlan
  BY <1>1 DEF ReadPlan, ActsInv
<1>2. CASE ReadFrame
  BY <1>2 DEF ReadFrame, ActsInv, IsAttempt
<1>3. CASE ReadCall
  BY <1>3 DEF ReadCall, ActsInv, IsAttempt
<1>4. CASE StreamEnds
  BY <1>4 DEF StreamEnds, ActsInv, IsAttempt
<1>5. CASE Judge
  <2>1. at = "judge" /\ UNCHANGED <<attempt, acted, ran>>
    BY <1>5 DEF Judge
  <2>2. at' \in {"window", "answer", "failed"} /\ (at' = "window" => BatchFits)
    BY <1>5 DEF Judge
  <2> QED
    BY <2>1, <2>2 DEF ActsInv, BatchFits
<1> QED
  BY <1>1, <1>2, <1>3, <1>4, <1>5

\* A batch that acts runs only if none was tried before.
LEMMA RunKeepsActs ==
  ASSUME ActsInv, RunTools
  PROVE  ActsInv'
<1>1. at = "window" /\ Range(attempt.calls) \subseteq attempt.offered
  BY DEF RunTools, ActsInv
<1>2. CASE expired
  BY <1>1, <1>2, QuietSteps DEF RunTools, ActsInv
<1>3. CASE ~expired
  <2> DEFINE acts == Called(attempt.calls, Acting)
  <2>1. /\ at' = "tools" /\ acted' = (acted \/ acts) /\ ran' = ran + IF acts THEN 1 ELSE 0
        /\ attempt' = [attempt EXCEPT !.held = Standing, !.sent = Len(Standing)]
    BY <1>3 DEF RunTools
  <2>2. acts => ~acted
    BY <1>1 DEF ActsInv, Called
  <2>3. acts => ran = 0
    BY <2>2 DEF ActsInv
  <2>4. IsAttempt(attempt')
    BY <2>1 DEF ActsInv, IsAttempt
  <2>5. CASE acts
    <3>1. ran' = 1
      BY <2>1, <2>3, <2>5
    <3>2. acted'
      BY <2>1, <2>5, Zenon
    <3> QED
      BY <2>1, <2>4, <3>1, <3>2 DEF ActsInv
  <2>6. CASE ~acts
    <3>1. ran' = ran
      BY <2>1, <2>6 DEF ActsInv
    <3>2. acted => acted'
      BY <2>1
    <3> QED
      BY <2>1, <2>4, <3>1, <3>2 DEF ActsInv
  <2> QED
    BY <2>5, <2>6
<1> QED
  BY <1>2, <1>3

LEMMA ResultsKeepActs ==
  ASSUME ActsInv, ToolsFail \/ Results \/ PeerAnswers \/ PeerPending
  PROVE  ActsInv'
<1>1. CASE ToolsFail
  BY <1>1, QuietSteps DEF ToolsFail, ActsInv
<1>2. CASE \E out, more, status : Finish(out, more, status) \/ GiveUp(more)
  BY <1>2, EndingIsQuiet
<1>3. CASE at' = "segment" /\ attempt' = NoAttempt /\ UNCHANGED <<acted, ran>>
  BY <1>3, QuietSteps DEF IsAttempt, NoAttempt
<1> QED
  BY <1>1, <1>2, <1>3 DEF Results, PeerAnswers, PeerPending

\* After a failure the next attempt of a segment is offered nothing, once something
\* was tried.
LEMMA FailureKeepsActs ==
  ASSUME ActsInv, Failure
  PROVE  ActsInv'
<1>1. CASE Retry
  BY <1>1, NewAttempt DEF Retry
<1>2. CASE \E out, more, status : Finish(out, more, status) \/ GiveUp(more) \/ SayInstead(out)
  BY <1>2, EndingIsQuiet
<1> QED
  BY <1>1, <1>2 DEF Failure

LEMMA OthersKeepActs ==
  ASSUME ActsInv, SetupRequired \/ Answer \/ GoesStale \/ Tick \/ Toggle
  PROVE  ActsInv'
<1>1. CASE SetupRequired
  <2>1. CASE AskToSignIn
    BY <2>1, QuietSteps DEF AskToSignIn, ActsInv
  <2>2. CASE \E out, more : GiveUp(more) \/ SayInstead(out) \/ Raise
    BY <2>2, EndingIsQuiet
  <2> QED
    BY <1>1, <2>1, <2>2 DEF SetupRequired
<1>2. CASE Answer
  BY <1>2, EndingIsQuiet DEF Answer
<1>3. CASE GoesStale
  BY <1>3, QuietSteps DEF GoesStale, IsAttempt, NoAttempt
<1>4. CASE Tick \/ Toggle
  BY <1>4 DEF Tick, Toggle, engineVars, ActsInv
<1> QED
  BY <1>1, <1>2, <1>3, <1>4

LEMMA ActsInvInductive == ActsInv /\ [Next]_vars => ActsInv'
<1> SUFFICES ASSUME ActsInv, [Next]_vars PROVE ActsInv'
  OBVIOUS
<1>1. CASE Engine
  BY <1>1, BeginKeepsActs, StreamKeepsActs, RunKeepsActs, ResultsKeepActs, FailureKeepsActs,
     OthersKeepActs DEF Engine
<1>2. CASE GoesStale \/ Tick \/ Toggle
  BY <1>2, OthersKeepActs
<1>3. CASE UNCHANGED vars
  BY <1>3 DEF vars, engineVars, ActsInv
<1> QED
  BY <1>1, <1>2, <1>3 DEF Next

\* A turn runs at most one batch that changes something: whatever fails after it,
\* and whatever the model calls, no later stream is offered such a tool
\* (mutating_execution_attempted).
THEOREM TurnActsOnce == Spec => []ActsOnce
<1>1. Init => ActsInv
  BY DEF Init, ActsInv, IsAttempt, NoAttempt
<1>2. ActsInv => ActsOnce
  BY DEF ActsInv, ActsOnce
<1> QED
  BY <1>1, <1>2, ActsInvInductive, PTL DEF Spec

-----------------------------------------------------------------------------
(* Segments, and what is counted of them *)

Authors == {"model", "runtime"}
Segments == [finish : {"tool_batch", "complete", "partial", "failed"}, frames : Seq(Authors),
             calls : Seq(Tools)]

\* The first n frames of a segment.
Sent(seg, authors, n) == {Frame(seg, k - 1, authors[k]) : k \in 1 .. n}

CallSet(segs) == UNION {{i} \X DOMAIN segs[i].calls : i \in DOMAIN segs}
VisibleSet(segs) == {i \in DOMAIN segs : segs[i].frames # <<>>}
RoundSet(segs) == {i \in DOMAIN segs : segs[i].finish = "tool_batch"}

Counted(segs) == IsFiniteSet(Flattened(segs)) /\ IsFiniteSet(CallSet(segs))

\* What is added to a sequence of segments, as the three counters see it.
LEMMA AppendedSegment ==
  ASSUME NEW segs \in Seq(Segments), NEW s \in Segments, NEW more, more = Append(segs, s)
  PROVE  /\ more \in Seq(Segments) /\ Len(more) = Len(segs) + 1 /\ Len(segs) \in Nat
         /\ DOMAIN more = DOMAIN segs \cup {Len(more)} /\ DOMAIN segs = 1 .. Len(segs)
         /\ Len(more) \notin DOMAIN segs
         /\ \A i \in DOMAIN segs : more[i] = segs[i]
         /\ more[Len(more)] = s
  OBVIOUS

LEMMA AppendedVisible ==
  ASSUME NEW segs \in Seq(Segments), NEW s \in Segments, NEW more, more = Append(segs, s)
  PROVE  /\ Visible(segs) \in Nat
         /\ s.frames = <<>> => Visible(more) = Visible(segs)
         /\ s.frames # <<>> => Visible(more) = Visible(segs) + 1
<1>1. IsFiniteSet(DOMAIN segs)
  BY AppendedSegment, FS_Interval
<1>2. VisibleSet(segs) \in SUBSET DOMAIN segs
  BY DEF VisibleSet
<1>3. IsFiniteSet(VisibleSet(segs)) /\ Cardinality(VisibleSet(segs)) \in Nat
  BY <1>1, <1>2, FS_Subset, FS_CardinalityType
<1>4. s.frames = <<>> => VisibleSet(more) = VisibleSet(segs)
  BY AppendedSegment DEF VisibleSet
<1>5. s.frames # <<>> => VisibleSet(more) = VisibleSet(segs) \cup {Len(more)}
  BY AppendedSegment DEF VisibleSet
<1>6. Len(more) \notin VisibleSet(segs)
  BY AppendedSegment, <1>2
<1>7. Visible(segs) = Cardinality(VisibleSet(segs)) /\ Visible(more) = Cardinality(VisibleSet(more))
  BY DEF Visible, VisibleSet
<1> QED
  BY <1>3, <1>4, <1>5, <1>6, <1>7, FS_AddElement

LEMMA AppendedRounds ==
  ASSUME NEW segs \in Seq(Segments), NEW s \in Segments, NEW more, more = Append(segs, s)
  PROVE  /\ Rounds(segs) \in Nat
         /\ s.finish # "tool_batch" => Rounds(more) = Rounds(segs)
         /\ s.finish = "tool_batch" => Rounds(more) = Rounds(segs) + 1
<1>1. IsFiniteSet(DOMAIN segs)
  BY AppendedSegment, FS_Interval
<1>2. RoundSet(segs) \in SUBSET DOMAIN segs
  BY DEF RoundSet
<1>3. IsFiniteSet(RoundSet(segs)) /\ Cardinality(RoundSet(segs)) \in Nat
  BY <1>1, <1>2, FS_Subset, FS_CardinalityType
<1>4. s.finish # "tool_batch" => RoundSet(more) = RoundSet(segs)
  BY AppendedSegment DEF RoundSet
<1>5. s.finish = "tool_batch" => RoundSet(more) = RoundSet(segs) \cup {Len(more)}
  BY AppendedSegment DEF RoundSet
<1>6. Len(more) \notin RoundSet(segs)
  BY AppendedSegment, <1>2
<1>7. Rounds(segs) = Cardinality(RoundSet(segs)) /\ Rounds(more) = Cardinality(RoundSet(more))
  BY DEF Rounds, RoundSet
<1> QED
  BY <1>3, <1>4, <1>5, <1>6, <1>7, FS_AddElement

LEMMA Interval ==
  ASSUME NEW n \in Nat
  PROVE  IsFiniteSet(1 .. n) /\ Cardinality(1 .. n) = n
BY FS_Interval

LEMMA Column ==
  ASSUME NEW x, NEW n \in Nat
  PROVE  IsFiniteSet({x} \X (1 .. n)) /\ Cardinality({x} \X (1 .. n)) = n
<1> DEFINE A == {x}
           B == 1 .. n
<1>1. IsFiniteSet(A) /\ Cardinality(A) = 1 /\ IsFiniteSet(B) /\ Cardinality(B) = n
  BY Interval, FS_Singleton
<1> HIDE DEF A, B
<1>2. IsFiniteSet(A \X B) /\ Cardinality(A \X B) = Cardinality(A) * Cardinality(B)
  BY <1>1, FS_Product
<1>3. IsFiniteSet(A \X B) /\ Cardinality(A \X B) = n
  BY <1>1, <1>2
<1> QED
  BY <1>3 DEF A, B

LEMMA AppendedCalls ==
  ASSUME NEW segs \in Seq(Segments), NEW s \in Segments, NEW more, more = Append(segs, s),
         IsFiniteSet(CallSet(segs))
  PROVE  /\ Calls(segs) \in Nat /\ IsFiniteSet(CallSet(more))
         /\ Calls(more) = Calls(segs) + Len(s.calls)
<1> DEFINE new == {Len(more)} \X (1 .. Len(s.calls))
<1>1. s.calls \in Seq(Tools) /\ Len(s.calls) \in Nat /\ DOMAIN s.calls = 1 .. Len(s.calls)
  BY DEF Segments
<1>2. IsFiniteSet(new) /\ Cardinality(new) = Len(s.calls)
  BY <1>1, Column
<1>3. CallSet(more) = CallSet(segs) \cup new
  <2>1. \A i \in DOMAIN segs : {i} \X DOMAIN more[i].calls = {i} \X DOMAIN segs[i].calls
    BY AppendedSegment
  <2>2. {Len(more)} \X DOMAIN more[Len(more)].calls = new
    BY <1>1, AppendedSegment
  <2>3. DOMAIN more = DOMAIN segs \cup {Len(more)}
    BY AppendedSegment
  <2>4. ASSUME NEW x PROVE x \in CallSet(more) <=> x \in CallSet(segs) \cup new
    <3> HIDE DEF new
    <3>1. x \in CallSet(more) <=> \E i \in DOMAIN more : x \in {i} \X DOMAIN more[i].calls
      BY DEF CallSet
    <3>2. x \in CallSet(segs) <=> \E i \in DOMAIN segs : x \in {i} \X DOMAIN segs[i].calls
      BY DEF CallSet
    <3> QED
      BY <2>1, <2>2, <2>3, <3>1, <3>2
  <2> QED
    BY <2>4
<1>4. CallSet(segs) \cap new = {}
  BY AppendedSegment DEF CallSet
<1>5. Calls(segs) = Cardinality(CallSet(segs)) /\ Calls(more) = Cardinality(CallSet(more))
  BY DEF Calls, CallSet
<1>6. Cardinality(CallSet(segs) \cup new) = Cardinality(CallSet(segs)) + Len(s.calls)
  <2>1. Cardinality(CallSet(segs) \cap new) = 0
    BY <1>4, FS_EmptySet
  <2>2. Cardinality(CallSet(segs)) \in Nat
    BY FS_CardinalityType
  <2>3. Cardinality(CallSet(segs) \cup new) = Cardinality(CallSet(segs)) + Cardinality(new) - 0
    <3> HIDE DEF new
    <3> QED
      BY <1>2, <2>1, FS_Union
  <2> QED
    BY <1>1, <1>2, <2>2, <2>3
<1>7. IsFiniteSet(CallSet(segs) \cup new) /\ Cardinality(CallSet(segs)) \in Nat
  BY <1>2, FS_Union, FS_CardinalityType
<1> HIDE DEF new
<1> QED
  BY <1>3, <1>5, <1>6, <1>7

LEMMA FramesAreSent ==
  ASSUME NEW seg, NEW authors \in Seq(Authors)
  PROVE  Range(FramesOf(seg, authors)) = Sent(seg, authors, Len(authors))
BY DEF Range, FramesOf, Sent

LEMMA SentIsFinite ==
  ASSUME NEW seg, NEW authors, NEW n \in Nat
  PROVE  IsFiniteSet(Sent(seg, authors, n)) /\ Cardinality(Sent(seg, authors, n)) <= n
<1> DEFINE f == [k \in 1 .. n |-> Frame(seg, k - 1, authors[k])]
<1>1. f \in Surjection(1 .. n, Sent(seg, authors, n))
  BY DEF Surjection, Sent
<1>2. IsFiniteSet(1 .. n) /\ Cardinality(1 .. n) = n
  BY FS_Interval
<1> QED
  BY <1>1, <1>2, FS_Surjection

LEMMA AppendedFrames ==
  ASSUME NEW segs \in Seq(Segments), NEW s \in Segments, NEW more, more = Append(segs, s),
         IsFiniteSet(Flattened(segs))
  PROVE  /\ IsFiniteSet(Flattened(more))
         /\ Flattened(more) = Flattened(segs) \cup Sent(Len(segs), s.frames, Len(s.frames))
         /\ Cardinality(Flattened(segs)) \in Nat
         /\ Cardinality(Flattened(more)) <= Cardinality(Flattened(segs)) + Len(s.frames)
<1> DEFINE new == Sent(Len(segs), s.frames, Len(s.frames))
<1>1. s.frames \in Seq(Authors) /\ Len(s.frames) \in Nat
  BY DEF Segments
<1>2. Flattened(more) = Flattened(segs) \cup new
  <2>1. \A i \in DOMAIN segs :
          Range(FramesOf(i - 1, more[i].frames)) = Range(FramesOf(i - 1, segs[i].frames))
    BY AppendedSegment
  <2>2. Len(more) - 1 = Len(segs) /\ more[Len(more)] = s
    BY AppendedSegment
  <2>3. Range(FramesOf(Len(more) - 1, more[Len(more)].frames)) = new
    BY <1>1, <2>2, FramesAreSent
  <2>4. DOMAIN more = DOMAIN segs \cup {Len(more)}
    BY AppendedSegment
  <2>5. ASSUME NEW x PROVE x \in Flattened(more) <=> x \in Flattened(segs) \cup new
    <3> HIDE DEF new
    <3>1. x \in Flattened(more) <=>
            \E i \in DOMAIN more : x \in Range(FramesOf(i - 1, more[i].frames))
      BY DEF Flattened
    <3>2. x \in Flattened(segs) <=>
            \E i \in DOMAIN segs : x \in Range(FramesOf(i - 1, segs[i].frames))
      BY DEF Flattened
    <3> QED
      BY <2>1, <2>3, <2>4, <3>1, <3>2
  <2> QED
    BY <2>5
<1>3. IsFiniteSet(new) /\ Cardinality(new) <= Len(s.frames) /\ Cardinality(new) \in Nat
  BY <1>1, SentIsFinite, FS_CardinalityType
<1>4. /\ IsFiniteSet(Flattened(segs) \cup new)
      /\ Cardinality(Flattened(segs) \cup new)
           = Cardinality(Flattened(segs)) + Cardinality(new) - Cardinality(Flattened(segs) \cap new)
  BY <1>3, FS_Union
<1>5. Cardinality(Flattened(segs)) \in Nat /\ Cardinality(Flattened(segs) \cap new) \in Nat
  BY FS_CardinalityType, FS_Intersection
<1> QED
  BY <1>1, <1>2, <1>3, <1>4, <1>5

-----------------------------------------------------------------------------
(* What the host accepts *)

Events ==
  [type : {"frame"}, seg : Nat, idx : Nat, by : Authors] \cup {[type |-> "reaction"]}
  \cup {Error(code) : code \in {"turn", "result", "runtime"}}
  \cup [type : {"completed"}, status : {"completed", "partial"},
      segments : Seq(Segments), repairs : Nat]

\* No event that ends the turn.
Open(events) == \A i \in DOMAIN events : events[i].type \in {"frame", "reaction"}
Reacted(events) == \E i \in DOMAIN events : events[i].type = "reaction"

LEMMA LongerStream ==
  ASSUME NEW s \in Seq(Events), NEW t \in Seq(Events), NEW new, new = s \o t
  PROVE  /\ new \in Seq(Events) /\ Len(new) = Len(s) + Len(t) /\ Len(s) \in Nat /\ Len(t) \in Nat
         /\ DOMAIN new = 1 .. Len(new) /\ DOMAIN s = 1 .. Len(s) /\ DOMAIN t = 1 .. Len(t)
         /\ \A i \in DOMAIN s : i \in DOMAIN new /\ new[i] = s[i]
         /\ \A i \in DOMAIN t : Len(s) + i \in DOMAIN new /\ new[Len(s) + i] = t[i]
         /\ \A i \in DOMAIN new : i \in DOMAIN s \/ \E j \in DOMAIN t : i = Len(s) + j
<1>1. /\ new \in Seq(Events) /\ Len(new) = Len(s) + Len(t)
      /\ \A i \in 1 .. Len(s) + Len(t) : new[i] = IF i <= Len(s) THEN s[i] ELSE t[i - Len(s)]
  BY ConcatProperties
<1>2. /\ Len(s) \in Nat /\ Len(t) \in Nat
      /\ DOMAIN new = 1 .. Len(new) /\ DOMAIN s = 1 .. Len(s) /\ DOMAIN t = 1 .. Len(t)
  BY <1>1
<1>3. \A i \in DOMAIN s : i \in DOMAIN new /\ new[i] = s[i]
  BY <1>1, <1>2
<1>4. \A i \in DOMAIN t : Len(s) + i \in DOMAIN new /\ new[Len(s) + i] = t[i]
  <2> TAKE i \in DOMAIN t
  <2>1. i \in Nat /\ 1 <= i /\ i <= Len(t)
    BY <1>2
  <2>2. Len(s) + i \in 1 .. Len(s) + Len(t) /\ ~(Len(s) + i <= Len(s)) /\ (Len(s) + i) - Len(s) = i
    BY <1>2, <2>1
  <2> QED
    BY <1>1, <1>2, <2>2
<1>5. \A i \in DOMAIN new : i \in DOMAIN s \/ \E j \in DOMAIN t : i = Len(s) + j
  <2> TAKE i \in DOMAIN new
  <2>1. CASE i <= Len(s)
    BY <1>1, <1>2, <2>1
  <2>2. CASE ~(i <= Len(s))
    <3>1. i - Len(s) \in DOMAIN t /\ i = Len(s) + (i - Len(s))
      BY <1>1, <1>2, <2>2
    <3> QED
      BY <3>1
  <2> QED
    BY <2>1, <2>2
<1> QED
  BY <1>1, <1>2, <1>3, <1>4, <1>5

LEMMA LongerFrames ==
  ASSUME NEW s \in Seq(Events), NEW t \in Seq(Events), NEW new, new = s \o t
  PROVE  /\ FramesIn(new) = FramesIn(s) \cup FramesIn(t)
         /\ Open(s) /\ Open(t) => Open(new)
         /\ Reacted(s) \/ Reacted(t) => Reacted(new)
<1>1. \A i \in DOMAIN s : i \in DOMAIN new /\ new[i] = s[i]
  BY LongerStream
<1>2. \A i \in DOMAIN t : Len(s) + i \in DOMAIN new /\ new[Len(s) + i] = t[i]
  BY LongerStream
<1>3. \A i \in DOMAIN new : i \in DOMAIN s \/ \E j \in DOMAIN t : i = Len(s) + j
  BY LongerStream
<1>4. ASSUME NEW e PROVE e \in Range(new) <=> e \in Range(s) \cup Range(t)
  <2>1. /\ e \in Range(new) <=> \E i \in DOMAIN new : e = new[i]
        /\ e \in Range(s) <=> \E i \in DOMAIN s : e = s[i]
        /\ e \in Range(t) <=> \E i \in DOMAIN t : e = t[i]
    BY DEF Range
  <2>2. e \in Range(s) => e \in Range(new)
    BY <1>1, <2>1
  <2>3. e \in Range(t) => e \in Range(new)
    BY <1>2, <2>1
  <2>4. ASSUME e \in Range(new) PROVE e \in Range(s) \/ e \in Range(t)
    <3> PICK i \in DOMAIN new : e = new[i]
      BY <2>1, <2>4
    <3>1. CASE i \in DOMAIN s
      BY <1>1, <2>1, <3>1
    <3>2. CASE \E j \in DOMAIN t : i = Len(s) + j
      BY <1>2, <2>1, <3>2
    <3> QED
      BY <1>3, <3>1, <3>2
  <2> QED
    BY <2>2, <2>3, <2>4
<1>5. FramesIn(new) = FramesIn(s) \cup FramesIn(t)
  BY <1>4 DEF FramesIn
<1>6. Open(s) /\ Open(t) => Open(new)
  BY <1>1, <1>2, <1>3 DEF Open
<1>7. Reacted(s) \/ Reacted(t) => Reacted(new)
  BY <1>1, <1>2 DEF Reacted
<1> QED
  BY <1>5, <1>6, <1>7

\* The prefixes of a longer stream.
LEMMA OldPrefix ==
  ASSUME NEW s \in Seq(Events), NEW t \in Seq(Events), NEW new, new = s \o t, NEW i \in DOMAIN s
  PROVE  SubSeq(new, 1, i - 1) = SubSeq(s, 1, i - 1)
<1>1. i \in Nat /\ 1 <= i /\ i <= Len(s)
  BY LongerStream
<1>2. \A j \in 1 .. i - 1 : s[j] \in Events /\ new[j] \in Events /\ new[j] = s[j]
  BY <1>1, LongerStream, ElementOfSeq
<1>3. /\ SubSeq(s, 1, i - 1) \in Seq(Events) /\ SubSeq(new, 1, i - 1) \in Seq(Events)
      /\ Len(SubSeq(s, 1, i - 1)) = i - 1 /\ Len(SubSeq(new, 1, i - 1)) = i - 1
      /\ \A j \in 1 .. i - 1 : SubSeq(s, 1, i - 1)[j] = s[j] /\ SubSeq(new, 1, i - 1)[j] = new[j]
  BY <1>1, <1>2, SubSeqProperties
<1> QED
  BY <1>2, <1>3, SeqEqual

LEMMA PrefixProperties ==
  ASSUME NEW q, q \in Seq(Events), NEW n, n \in Nat, n <= Len(q)
  PROVE  /\ SubSeq(q, 1, n) \in Seq(Events) /\ Len(SubSeq(q, 1, n)) = n
         /\ \A i \in 1 .. n : SubSeq(q, 1, n)[i] = q[i]
<1>1. \A i \in 1 .. n : q[i] \in Events
  BY ElementOfSeq
<1>2. \A i \in 1 .. n : SubSeq(q, 1, n)[i] = q[i]
  BY <1>1, SubSeqProperties
<1>3. SubSeq(q, 1, n) \in Seq(Events) /\ Len(SubSeq(q, 1, n)) = n
  BY <1>1, SubSeqProperties
<1> QED
  BY <1>2, <1>3

LEMMA NewPrefix ==
  ASSUME NEW s \in Seq(Events), NEW t \in Seq(Events), NEW new, new = s \o t, NEW i \in DOMAIN t
  PROVE  /\ SubSeq(t, 1, i - 1) \in Seq(Events)
         /\ Len(SubSeq(t, 1, i - 1)) = i - 1
         /\ \A j \in 1 .. i - 1 : SubSeq(t, 1, i - 1)[j] = t[j]
         /\ SubSeq(new, 1, Len(s) + i - 1) = s \o SubSeq(t, 1, i - 1)
<1> DEFINE u == SubSeq(t, 1, i - 1)
           v == SubSeq(new, 1, Len(s) + i - 1)
           w == s \o u
<1>1. i \in Nat /\ 1 <= i /\ i <= Len(t) /\ Len(s) \in Nat
  BY LongerStream
<1>2. \A j \in 1 .. i - 1 : t[j] \in Events
  BY <1>1, ElementOfSeq
<1>3. u \in Seq(Events) /\ Len(u) = i - 1 /\ \A j \in 1 .. i - 1 : u[j] = t[j]
  BY <1>1, <1>2, SubSeqProperties
<1>4. new \in Seq(Events) /\ Len(new) = Len(s) + Len(t)
  BY LongerStream
<1>5. /\ v \in Seq(Events) /\ Len(v) = Len(s) + i - 1
      /\ \A j \in 1 .. Len(s) + i - 1 : v[j] = new[j]
  <2>1. PICK m \in Nat : m = Len(s) + i - 1
    BY <1>1
  <2>2. /\ SubSeq(new, 1, m) \in Seq(Events) /\ Len(SubSeq(new, 1, m)) = m
        /\ \A j \in 1 .. m : SubSeq(new, 1, m)[j] = new[j]
    <3>1. new \in Seq(Events) /\ m \in Nat /\ m <= Len(new)
      BY <1>1, <1>4, <2>1
    <3> QED
      BY <3>1, PrefixProperties
  <2> QED
    BY <2>1, <2>2
<1> HIDE DEF u, v
<1>6. /\ w \in Seq(Events) /\ Len(w) = Len(s) + i - 1
      /\ \A j \in 1 .. Len(s) + (i - 1) : w[j] = IF j <= Len(s) THEN s[j] ELSE u[j - Len(s)]
  <2>1. /\ s \o u \in Seq(Events) /\ Len(s \o u) = Len(s) + Len(u)
        /\ \A j \in 1 .. Len(s) + Len(u) :
              (s \o u)[j] = IF j <= Len(s) THEN s[j] ELSE u[j - Len(s)]
    BY <1>3, ConcatProperties
  <2>2. Len(s) + Len(u) = Len(s) + (i - 1) /\ Len(s) + (i - 1) = Len(s) + i - 1
    BY <1>1, <1>3
  <2> QED
    BY <2>1, <2>2
<1>7. \A j \in 1 .. Len(s) + Len(t) : new[j] = IF j <= Len(s) THEN s[j] ELSE t[j - Len(s)]
  BY ConcatProperties
<1> HIDE DEF w
<1>8. ASSUME NEW j \in 1 .. Len(v) PROVE v[j] = w[j]
  <2>1. j \in Nat /\ 1 <= j /\ j <= Len(s) + i - 1
    BY <1>1, <1>5
  <2>2. CASE j <= Len(s)
    <3>1. j \in 1 .. Len(s) + i - 1 /\ j \in 1 .. Len(s) + (i - 1) /\ j \in 1 .. Len(s) + Len(t)
      BY <1>1, <2>1
    <3>2. v[j] = new[j]
      BY <1>5, <3>1
    <3>3. new[j] = s[j]
      BY <1>7, <2>2, <3>1
    <3>4. w[j] = s[j]
      BY <1>6, <2>2, <3>1
    <3> QED
      BY <3>2, <3>3, <3>4
  <2>3. CASE ~(j <= Len(s))
    <3>1. j - Len(s) \in 1 .. i - 1 /\ j \in 1 .. Len(s) + Len(t) /\ j \in 1 .. Len(s) + (i - 1)
      BY <1>1, <2>1, <2>3
    <3>2. v[j] = t[j - Len(s)] /\ w[j] = u[j - Len(s)]
      BY <1>5, <1>6, <1>7, <2>3, <3>1
    <3> QED
      BY <1>3, <3>1, <3>2
  <2> QED
    BY <2>2, <2>3
<1>9. v = w
  BY <1>5, <1>6, <1>8, SeqEqual
<1> QED
  BY <1>3, <1>9 DEF u, v, w

LEMMA PrefixOfLonger ==
  ASSUME NEW s \in Seq(Events), NEW t \in Seq(Events), NEW i, i \in DOMAIN t
  PROVE  SubSeq(s \o t, 1, Len(s) + i - 1) = s \o SubSeq(t, 1, i - 1)
<1>1. PICK new : new = s \o t
  OBVIOUS
<1>2. SubSeq(new, 1, Len(s) + i - 1) = s \o SubSeq(t, 1, i - 1)
  BY <1>1, NewPrefix, SMTT(30)
<1> QED
  BY <1>1, <1>2

LEMMA AcceptedLonger ==
  ASSUME NEW s \in Seq(Events), NEW t \in Seq(Events), NEW new, new = s \o t, Accepts(s),
         \A j \in DOMAIN t : EventFits(s \o SubSeq(t, 1, j - 1), t[j])
  PROVE  Accepts(new)
<1>1. ASSUME NEW i \in DOMAIN new PROVE EventFits(SubSeq(new, 1, i - 1), new[i])
  <2>1. CASE i \in DOMAIN s
    <3>1. new[i] = s[i] /\ SubSeq(new, 1, i - 1) = SubSeq(s, 1, i - 1)
      BY <2>1, LongerStream, OldPrefix
    <3>2. EventFits(SubSeq(s, 1, i - 1), s[i])
      BY <2>1 DEF Accepts
    <3> QED
      BY <3>1, <3>2
  <2>2. ASSUME NEW j \in DOMAIN t, i = Len(s) + j PROVE EventFits(SubSeq(new, 1, i - 1), new[i])
    <3>1. new[Len(s) + j] = t[j]
      BY LongerStream
    <3>2. SubSeq(new, 1, Len(s) + j - 1) = s \o SubSeq(t, 1, j - 1)
      BY PrefixOfLonger
    <3>3. EventFits(s \o SubSeq(t, 1, j - 1), t[j])
      OBVIOUS
    <3>4. EventFits(SubSeq(new, 1, Len(s) + j - 1), new[Len(s) + j])
      BY <3>1, <3>2, <3>3
    <3> QED
      BY <2>2, <3>4
  <2>3. i \in DOMAIN s \/ \E j \in DOMAIN t : i = Len(s) + j
    BY LongerStream
  <2> QED
    BY <2>1, <2>2, <2>3
<1> QED
  BY <1>1 DEF Accepts

\* One more event.
LEMMA AcceptedNext ==
  ASSUME NEW s \in Seq(Events), NEW e \in Events, NEW new, new = Append(s, e)
  PROVE  /\ new \in Seq(Events) /\ new # <<>> /\ Last(new) = e
         /\ FramesIn(new) = FramesIn(s) \cup (IF e.type = "frame" THEN {e} ELSE {})
         /\ Open(s) /\ e.type \in {"frame", "reaction"} => Open(new)
         /\ Reacted(s) \/ e.type = "reaction" => Reacted(new)
         /\ Accepts(s) /\ EventFits(s, e) => Accepts(new)
<1> DEFINE t == <<e>>
<1>1. t \in Seq(Events) /\ Len(t) = 1 /\ DOMAIN t = {1} /\ t[1] = e
  OBVIOUS
<1>2. new = s \o t
  BY AppendIsConcat
<1>3. SubSeq(t, 1, 0) = <<>>
  BY SubSeqEmpty
<1>4. s \o <<>> = s
  BY ConcatEmptySeq
<1>5. new \in Seq(Events) /\ new # <<>> /\ Len(new) = Len(s) + 1 /\ new[Len(s) + 1] = e
  BY AppendProperties
<1>6. FramesIn(t) = (IF e.type = "frame" THEN {e} ELSE {})
  BY <1>1 DEF FramesIn, Range
<1>7. /\ e.type \in {"frame", "reaction"} => Open(t)
      /\ e.type = "reaction" => Reacted(t)
  BY <1>1 DEF Open, Reacted
<1> HIDE DEF t
<1>8. ASSUME Accepts(s), EventFits(s, e) PROVE Accepts(new)
  <2>1. ASSUME NEW j \in DOMAIN t PROVE EventFits(s \o SubSeq(t, 1, j - 1), t[j])
    <3>1. j = 1 /\ j - 1 = 0
      BY <1>1
    <3>2. s \o SubSeq(t, 1, j - 1) = s /\ t[j] = e
      BY <1>1, <1>3, <1>4, <3>1
    <3> QED
      BY <1>8, <3>2
  <2> QED
    BY <1>1, <1>2, <1>8, <2>1, AcceptedLonger
<1>9. /\ FramesIn(new) = FramesIn(s) \cup FramesIn(t)
      /\ Open(s) /\ Open(t) => Open(new)
      /\ Reacted(s) \/ Reacted(t) => Reacted(new)
  BY <1>1, <1>2, LongerFrames
<1>10. Last(new) = e
  BY <1>5 DEF Last
<1> QED
  BY <1>5, <1>6, <1>7, <1>8, <1>9, <1>10

-----------------------------------------------------------------------------
(* Frames that go out *)

SegsOf(F) == {r.seg : r \in F}

\* After the frames in F there is room for a segment of n frames.
Room(F, seg, n) ==
  /\ IsFiniteSet(F) /\ Cardinality(F) \in Nat /\ Cardinality(F) + n <= TurnFrames
  /\ n <= MaxFrames /\ seg < MaxSegments
  /\ Cardinality(SegsOf(F)) < MaxVisible
  /\ \A r \in F : r.seg \in Nat /\ r.seg < seg

LEMMA FrameIsFrame == \A seg, idx, by : Frame(seg, idx, by).type = "frame"
BY DEF Frame

LEMMA SentFrames ==
  ASSUME NEW seg \in Nat, NEW authors \in Seq(Authors), NEW k \in 0 .. Len(authors)
  PROVE  /\ \A r \in Sent(seg, authors, k) : r.seg = seg /\ r.idx \in 0 .. k - 1
         /\ \A idx \in 0 .. k - 1 : \E r \in Sent(seg, authors, k) : r.idx = idx
         /\ k < Len(authors) =>
              Sent(seg, authors, k + 1) = Sent(seg, authors, k) \cup {Frame(seg, k, authors[k + 1])}
         /\ Sent(seg, authors, 0) = {}
<1>1. \A r \in Sent(seg, authors, k) : r.seg = seg /\ r.idx \in 0 .. k - 1
  BY DEF Sent, Frame
<1>2. ASSUME NEW idx \in 0 .. k - 1 PROVE \E r \in Sent(seg, authors, k) : r.idx = idx
  <2>1. idx + 1 \in 1 .. k /\ (idx + 1) - 1 = idx
    OBVIOUS
  <2>2. Frame(seg, (idx + 1) - 1, authors[idx + 1]) \in Sent(seg, authors, k)
    BY <2>1 DEF Sent
  <2>3. Frame(seg, (idx + 1) - 1, authors[idx + 1]).idx = idx
    BY <2>1 DEF Frame
  <2> QED
    BY <2>2, <2>3
<1>3. ASSUME k < Len(authors)
      PROVE Sent(seg, authors, k + 1) = Sent(seg, authors, k) \cup {Frame(seg, k, authors[k + 1])}
  <2>1. 1 .. k + 1 = 1 .. k \cup {k + 1} /\ (k + 1) - 1 = k
    OBVIOUS
  <2> QED
    BY <2>1 DEF Sent
<1>4. Sent(seg, authors, 0) = {}
  BY DEF Sent
<1> QED
  BY <1>1, <1>2, <1>3, <1>4

\* The next frame of a segment fits after those that are out.
LEMMA NextFrameFits ==
  ASSUME NEW F, NEW seg \in Nat, NEW authors \in Seq(Authors), NEW k \in 0 .. Len(authors),
         k < Len(authors), Room(F, seg, Len(authors)), NEW events, Open(events),
         FramesIn(events) = F \cup Sent(seg, authors, k)
  PROVE  EventFits(events, Frame(seg, k, authors[k + 1]))
<1> DEFINE f == Frame(seg, k, authors[k + 1])
           read == F \cup Sent(seg, authors, k)
           out == Sent(seg, authors, k)
<1>0. MaxFrames \in Nat /\ TurnFrames \in Nat /\ Len(authors) \in Nat /\ k \in Nat
  BY BudgetAssumption
<1>1. f.type = "frame" /\ f.seg = seg /\ f.idx = k
  BY DEF Frame
<1>2. Cardinality(read) < TurnFrames
  <2>1. IsFiniteSet(out) /\ Cardinality(out) <= k /\ Cardinality(out) \in Nat
    BY SentIsFinite, FS_CardinalityType
  <2>2. IsFiniteSet(F) /\ Cardinality(F) \in Nat /\ Cardinality(F) + Len(authors) <= TurnFrames
    BY DEF Room
  <2>3. Cardinality(F \cap out) \in Nat
    BY <2>2, FS_Intersection, FS_CardinalityType
  <2> HIDE DEF out
  <2>4. Cardinality(F \cup out) = Cardinality(F) + Cardinality(out) - Cardinality(F \cap out)
    BY <2>1, <2>2, FS_Union
  <2>5. Cardinality(F \cup out) < TurnFrames
    BY <1>0, <2>1, <2>2, <2>3, <2>4
  <2> QED
    BY <2>5 DEF out
<1>3. \A r \in out : r.seg = seg /\ r.idx \in 0 .. k - 1
  BY SentFrames
<1>4. \A idx \in 0 .. k - 1 : \E r \in out : r.idx = idx
  BY SentFrames
<1>5. \A r \in F : r.seg \in Nat /\ r.seg < seg
  BY DEF Room
<1>6. f.seg \in {r.seg : r \in read} \/ Cardinality({r.seg : r \in read}) < MaxVisible
  <2>1. CASE k = 0
    <3>1. read = F
      BY <2>1, SentFrames
    <3> HIDE DEF read
    <3> QED
      BY <3>1 DEF Room, SegsOf
  <2>2. CASE k > 0
    <3>1. 0 \in 0 .. k - 1
      BY <1>0, <2>2
    <3>2. PICK r \in out : r.idx = 0
      BY <1>4, <3>1
    <3>3. r \in read /\ r.seg = seg
      BY <1>3
    <3> HIDE DEF read
    <3> QED
      BY <1>1, <3>3
  <2> QED
    BY <1>0, <2>1, <2>2
<1>7. \A s \in {r.seg : r \in read} : s <= f.seg
  BY <1>1, <1>3, <1>5
<1>8. {r.idx : r \in {r \in read : r.seg = f.seg}} = {idx \in 0 .. MaxFrames : idx < f.idx}
  <2>1. {r \in read : r.seg = f.seg} = out
    BY <1>1, <1>3, <1>5
  <2>2. k <= MaxFrames
    BY <1>0 DEF Room
  <2>3. {idx \in 0 .. MaxFrames : idx < k} = 0 .. k - 1
    BY <1>0, <2>2
  <2> HIDE DEF out, read, f
  <2>4. {r.idx : r \in out} = 0 .. k - 1
    BY <1>3, <1>4
  <2> QED
    BY <1>1, <2>1, <2>3, <2>4
<1>9. f.seg < MaxSegments /\ f.idx < MaxFrames
  BY <1>0, <1>1 DEF Room
<1>10. FrameFits(read, f)
  BY <1>2, <1>6, <1>7, <1>8, <1>9 DEF FrameFits
<1>11. \A i \in DOMAIN events : events[i].type \notin {"completed", "error"}
  BY DEF Open
<1> HIDE DEF f, read
<1>12. EventFits(events, f)
  BY <1>1, <1>10, <1>11 DEF EventFits, read
<1> QED
  BY <1>12 DEF f

\* A stream, and the frames of a segment after the first n of them.
Going(out, seg, authors, n) == out \o SubSeq(FramesOf(seg, authors), n + 1, Len(authors))

\* What is out when, after the frames in F, the first n of a segment are.
With(F, seg, authors, n) == F \cup Sent(seg, authors, n)

\* emit_segment_frames: what it sends, after what was sent of the segment before.
LEMMA FramesGoOut ==
  ASSUME NEW out \in Seq(Events), Open(out), NEW F, NEW seg \in Nat, NEW authors \in Seq(Authors),
         NEW sent \in 0 .. Len(authors), Room(F, seg, Len(authors)),
         FramesIn(out) = With(F, seg, authors, sent),
         NEW new, new = Going(out, seg, authors, sent)
  PROVE  /\ new \in Seq(Events) /\ Open(new)
         /\ FramesIn(new) = With(F, seg, authors, Len(authors))
         /\ Reacted(out) => Reacted(new)
         /\ Accepts(out) => Accepts(new)
<1> DEFINE n == Len(authors)
           fs == FramesOf(seg, authors)
           t == SubSeq(fs, sent + 1, n)
<1>a. FramesIn(out) = F \cup Sent(seg, authors, sent)
  BY DEF With
<1>0. n \in Nat /\ sent \in Nat /\ sent <= n
  OBVIOUS
<1>1. \A k \in 1 .. n : fs[k] = Frame(seg, k - 1, authors[k]) /\ fs[k] \in Events
  <2> TAKE k \in 1 .. n
  <2>1. fs[k] = Frame(seg, k - 1, authors[k])
    BY DEF FramesOf
  <2>2. k - 1 \in Nat /\ authors[k] \in Authors
    BY <1>0, ElementOfSeq
  <2> QED
    BY <2>1, <2>2 DEF Frame, Events
<1> HIDE DEF fs, n
<1>2. \A k \in sent + 1 .. n : fs[k] \in Events
  BY <1>0, <1>1
<1>3. /\ t \in Seq(Events) /\ Len(t) = n - sent /\ DOMAIN t = 1 .. n - sent
      /\ \A j \in 1 .. n - sent : t[j] = fs[sent + j]
  <2>1. /\ t \in Seq(Events) /\ Len(t) = IF sent + 1 <= n THEN n - (sent + 1) + 1 ELSE 0
        /\ \A j \in 1 .. n - (sent + 1) + 1 : t[j] = fs[sent + 1 + j - 1]
    BY <1>0, <1>2, SubSeqProperties
  <2>2. Len(t) = n - sent /\ n - (sent + 1) + 1 = n - sent
    BY <1>0, <2>1
  <2>3. DOMAIN t = 1 .. n - sent
    BY <2>1, <2>2
  <2>4. \A j \in 1 .. n - sent : sent + 1 + j - 1 = sent + j
    BY <1>0
  <2> HIDE DEF t
  <2> QED
    BY <2>1, <2>2, <2>3, <2>4
<1> HIDE DEF t
<1>4. \A j \in 1 .. n - sent : t[j] = Frame(seg, sent + j - 1, authors[sent + j])
  <2> TAKE j \in 1 .. n - sent
  <2>1. sent + j \in 1 .. n /\ (sent + j) - 1 = sent + j - 1
    BY <1>0
  <2>2. t[j] = fs[sent + j]
    BY <1>3
  <2>3. fs[sent + j] = Frame(seg, (sent + j) - 1, authors[sent + j])
    BY <1>1, <2>1
  <2> QED
    BY <2>1, <2>2, <2>3
<1>5. Open(t)
  BY <1>3, <1>4 DEF Open, Frame
\* The frames before the one that goes out.
<1>6. ASSUME NEW j \in 1 .. n - sent, NEW u \in Seq(Events), Len(u) = j - 1,
             \A i \in 1 .. j - 1 : u[i] = t[i]
      PROVE  FramesIn(out \o u) = F \cup Sent(seg, authors, sent + j - 1) /\ Open(out \o u)
  <2>1. FramesIn(u) = {Frame(seg, k - 1, authors[k]) : k \in sent + 1 .. sent + j - 1}
    <3>1. DOMAIN u = 1 .. j - 1
      BY <1>6
    <3>2. \A i \in 1 .. j - 1 : u[i] = Frame(seg, sent + i - 1, authors[sent + i])
      <4> TAKE i \in 1 .. j - 1
      <4>1. i \in 1 .. n - sent
        BY <1>0
      <4> QED
        BY <1>4, <1>6, <4>1
    <3>3. ASSUME NEW e PROVE e \in FramesIn(u) <=> \E i \in 1 .. j - 1 : e = u[i]
      <4>0. e \in Range(u) <=> \E i \in DOMAIN u : e = u[i]
        BY DEF Range
      <4>1. e \in Range(u) <=> \E i \in 1 .. j - 1 : e = u[i]
        BY <3>1, <4>0
      <4>2. \A i \in 1 .. j - 1 : u[i].type = "frame"
        <5> TAKE i \in 1 .. j - 1
        <5>1. u[i] = Frame(seg, sent + i - 1, authors[sent + i])
          BY <3>2
        <5> QED
          BY <5>1, FrameIsFrame
      <4> QED
        BY <4>1, <4>2 DEF FramesIn
    <3>4. ASSUME NEW e, NEW i \in 1 .. j - 1, e = u[i]
          PROVE e \in {Frame(seg, k - 1, authors[k]) : k \in sent + 1 .. sent + j - 1}
      <4>1. sent + i \in sent + 1 .. sent + j - 1
        BY <1>0
      <4> QED
        BY <3>2, <3>4, <4>1
    <3>5. ASSUME NEW k \in sent + 1 .. sent + j - 1
          PROVE \E i \in 1 .. j - 1 : Frame(seg, k - 1, authors[k]) = u[i]
      <4>1. k - sent \in 1 .. j - 1 /\ sent + (k - sent) = k
        BY <1>0
      <4>2. u[k - sent] = Frame(seg, k - 1, authors[k])
        BY <3>2, <4>1
      <4> QED
        BY <4>1, <4>2
    <3> QED
      BY <3>3, <3>4, <3>5
  <2>2. Sent(seg, authors, sent + j - 1) =
          Sent(seg, authors, sent)
            \cup {Frame(seg, k - 1, authors[k]) : k \in sent + 1 .. sent + j - 1}
    <3>1. 1 .. sent + j - 1 = 1 .. sent \cup (sent + 1 .. sent + j - 1)
      BY <1>0
    <3> QED
      BY <3>1 DEF Sent
  <2>3. FramesIn(out \o u) = FramesIn(out) \cup FramesIn(u)
    BY LongerFrames
  <2>4. Open(u)
    <3>1. DOMAIN u = 1 .. j - 1
      BY <1>6
    <3>2. \A i \in 1 .. j - 1 : i \in DOMAIN t
      BY <1>0, <1>3
    <3> QED
      BY <1>5, <1>6, <3>1, <3>2 DEF Open
  <2>5. Open(out \o u)
    BY <2>4, LongerFrames
  <2> QED
    BY <1>a, <2>1, <2>2, <2>3, <2>5
<1>7. new = out \o t /\ new \in Seq(Events)
  BY <1>3, LongerStream DEF t, fs, n, Going
<1>8. Open(new) /\ (Reacted(out) => Reacted(new))
  BY <1>3, <1>5, <1>7, LongerFrames
<1>9. FramesIn(new) = F \cup Sent(seg, authors, n)
  <2>1. CASE sent = n
    <3>1. t = <<>>
      BY <1>0, <1>3, <2>1, EmptySeq
    <3>2. new = out
      BY <1>7, <3>1, ConcatEmptySeq
    <3> QED
      BY <1>a, <2>1, <3>2
  <2>2. CASE sent < n
    <3> PICK j \in 1 .. n - sent : j = n - sent
      BY <1>0, <2>2
    <3> DEFINE u == SubSeq(t, 1, j - 1)
    <3>1. j \in 1 .. n - sent /\ j \in DOMAIN t /\ j \in Nat
      BY <1>0, <1>3
    <3>2. u \in Seq(Events) /\ Len(u) = j - 1 /\ \A i \in 1 .. j - 1 : u[i] = t[i]
      BY SMTT(60), <1>3, <1>7, <3>1, NewPrefix
    <3> HIDE DEF u
    <3>3. FramesIn(out \o u) = F \cup Sent(seg, authors, sent + j - 1)
      BY <1>6, <3>1, <3>2
    <3>4. FramesIn(new) = FramesIn(out) \cup FramesIn(t)
      BY <1>3, <1>7, LongerFrames
    <3>5. FramesIn(t) = FramesIn(u) \cup {t[j]}
      <4>1. DOMAIN u = 1 .. j - 1 /\ DOMAIN t = 1 .. j - 1 \cup {j}
        BY <1>0, <1>3, <3>1, <3>2
      <4>2. ASSUME NEW e PROVE e \in Range(t) <=> e \in Range(u) \cup {t[j]}
        <5>1. e \in Range(t) <=> \E i \in 1 .. j - 1 \cup {j} : e = t[i]
          BY <4>1 DEF Range
        <5>0. e \in Range(u) <=> \E i \in DOMAIN u : e = u[i]
          BY DEF Range
        <5>2. e \in Range(u) <=> \E i \in 1 .. j - 1 : e = t[i]
          BY <3>2, <4>1, <5>0
        <5> QED
          BY <5>1, <5>2
      <4>3. t[j].type = "frame"
        BY <1>4, <3>1, FrameIsFrame
      <4> QED
        BY <4>2, <4>3 DEF FramesIn
    <3>6. FramesIn(out \o u) = FramesIn(out) \cup FramesIn(u)
      BY <3>2, LongerFrames
    <3>7. t[j] = Frame(seg, n - 1, authors[n])
      BY <1>0, <1>4, <3>1
    <3>8. Sent(seg, authors, n) = Sent(seg, authors, n - 1) \cup {Frame(seg, n - 1, authors[n])}
      <4>1. n - 1 \in 0 .. Len(authors) /\ n - 1 < Len(authors) /\ (n - 1) + 1 = n
        BY <1>0, <2>2 DEF n
      <4> QED
        BY <4>1, SentFrames
    <3>9. sent + j - 1 = n - 1
      BY <1>0
    <3> QED
      BY <3>3, <3>4, <3>5, <3>6, <3>7, <3>8, <3>9
  <2> QED
    BY <1>0, <2>1, <2>2
<1>10. ASSUME Accepts(out) PROVE Accepts(new)
  <2>1. ASSUME NEW j \in DOMAIN t PROVE EventFits(out \o SubSeq(t, 1, j - 1), t[j])
    <3> DEFINE u == SubSeq(t, 1, j - 1)
               k == sent + j - 1
    <3>1. j \in 1 .. n - sent
      BY <1>3
    <3>2. u \in Seq(Events) /\ Len(u) = j - 1 /\ \A i \in 1 .. j - 1 : u[i] = t[i]
      BY <1>3, <1>7, NewPrefix
    <3> HIDE DEF u
    <3>3. FramesIn(out \o u) = F \cup Sent(seg, authors, k) /\ Open(out \o u)
      BY <1>6, <3>1, <3>2
    <3>4. k \in 0 .. Len(authors) /\ k < Len(authors) /\ k + 1 = sent + j
      BY <1>0, <3>1 DEF n
    <3> HIDE DEF k
    <3>5. EventFits(out \o u, Frame(seg, k, authors[k + 1]))
      BY <3>3, <3>4, NextFrameFits
    <3>6. t[j] = Frame(seg, k, authors[k + 1])
      BY <1>4, <3>1, <3>4 DEF k
    <3> QED
      BY <3>5, <3>6 DEF u
  <2> QED
    BY <1>3, <1>7, <1>10, <2>1, AcceptedLonger
<1> QED
  BY <1>7, <1>8, <1>9, <1>10 DEF n, With

-----------------------------------------------------------------------------
(* Results *)

\* What the segments are while the turn goes on: batches of tools, each with one
\* announcement at most, and with none if it acts or goes to a peer.
IsBatch(s) ==
  /\ s.finish = "tool_batch" /\ s.calls # <<>> /\ Len(s.frames) <= 1
  /\ Called(s.calls, Acting \cup Peers) => s.frames = <<>>

\* Segments after which another one can follow.
Ongoing(segs) ==
  /\ Counted(segs)
  /\ Len(segs) < MaxSegments /\ Visible(segs) < MaxVisible
  /\ Rounds(segs) <= MaxRounds /\ Calls(segs) <= MaxCalls
  /\ Cardinality(Flattened(segs)) <= Visible(segs)
  /\ IsFiniteSet(SegsOf(Flattened(segs))) /\ Cardinality(SegsOf(Flattened(segs))) <= Visible(segs)
  /\ \A i \in DOMAIN segs : IsBatch(segs[i])

\* What the host asks of a result, but for the budget and the frames.
Shaped(segs) ==
  /\ \A i \in DOMAIN segs \ {Len(segs)} : segs[i].finish = "tool_batch"
  /\ \A i \in DOMAIN segs :
       /\ Len(segs[i].frames) <= MaxFrames
       /\ segs[i].finish = "tool_batch" => Len(segs[i].frames) <= 1

Right(segs, status) ==
  /\ EndFits(segs, status) /\ WithinBudget(segs, repairs)
  /\ \A i \in DOMAIN segs : SegmentFits(segs[i])

LEMMA Budgets ==
  /\ MaxSegments \in Nat /\ MaxVisible \in Nat /\ MaxFrames \in Nat /\ TurnFrames \in Nat
  /\ MaxSegments >= 1 /\ MaxVisible >= 1 /\ MaxFrames >= 1 /\ TurnFrames >= 1
  /\ MaxRounds \in Nat /\ MaxCalls \in Nat /\ MaxRepairs \in Nat
  /\ MaxFrames <= TurnFrames /\ MaxVisible <= TurnFrames
BY BudgetAssumption

LEMMA FlattenedSegments ==
  ASSUME NEW segs \in Seq(Segments)
  PROVE  \A r \in Flattened(segs) : r.type = "frame" /\ r.seg \in Nat /\ r.seg < Len(segs)
<1>1. SUFFICES ASSUME NEW i \in DOMAIN segs, NEW r \in Range(FramesOf(i - 1, segs[i].frames))
               PROVE  r.type = "frame" /\ r.seg \in Nat /\ r.seg < Len(segs)
  BY DEF Flattened
<1>2. i \in Nat /\ 1 <= i /\ i <= Len(segs) /\ Len(segs) \in Nat
  OBVIOUS
<1>3. PICK k : r = Frame(i - 1, k - 1, segs[i].frames[k])
  BY DEF Range, FramesOf
<1> QED
  BY <1>2, <1>3 DEF Frame

LEMMA NothingFlattened ==
  /\ Flattened(<<>>) = {} /\ CallSet(<<>>) = {} /\ SegsOf({}) = {}
  /\ Visible(<<>>) = 0 /\ Rounds(<<>>) = 0 /\ Calls(<<>>) = 0
<1>1. DOMAIN <<>> = {}
  OBVIOUS
<1>2. VisibleSet(<<>>) = {} /\ RoundSet(<<>>) = {} /\ CallSet(<<>>) = {}
  BY <1>1 DEF VisibleSet, RoundSet, CallSet
<1>3. Flattened(<<>>) = {}
  BY <1>1 DEF Flattened
<1> QED
  BY <1>2, <1>3, FS_EmptySet DEF SegsOf, Visible, VisibleSet, Rounds, RoundSet, Calls, CallSet

LEMMA NoSegmentsYet == Ongoing(<<>>)
<1>1. Len(<<>>) = 0 /\ DOMAIN <<>> = {}
  OBVIOUS
<1> QED
  BY SMTT(60), <1>1, NothingFlattened, FS_EmptySet, Budgets DEF Ongoing, Counted

\* There is room for a segment after those.
LEMMA OngoingHasRoom ==
  ASSUME NEW segs \in Seq(Segments), Ongoing(segs), NEW n \in Nat, n <= MaxFrames,
         Cardinality(Flattened(segs)) + n <= TurnFrames
  PROVE  Room(Flattened(segs), Len(segs), n)
<1>1. Cardinality(Flattened(segs)) \in Nat /\ Cardinality(SegsOf(Flattened(segs))) \in Nat
  BY FS_CardinalityType DEF Ongoing, Counted
<1>2. Visible(segs) \in Nat
  <2>1. IsFiniteSet(DOMAIN segs) /\ VisibleSet(segs) \in SUBSET DOMAIN segs
    BY Interval DEF VisibleSet
  <2> QED
    BY <2>1, FS_Subset, FS_CardinalityType DEF Visible, VisibleSet
<1> QED
  BY <1>1, <1>2, FlattenedSegments, Budgets DEF Room, Ongoing, Counted

LEMMA OngoingNumbers ==
  ASSUME NEW segs \in Seq(Segments), Ongoing(segs)
  PROVE  /\ Cardinality(Flattened(segs)) \in Nat /\ Cardinality(SegsOf(Flattened(segs))) \in Nat
         /\ Visible(segs) \in Nat /\ Rounds(segs) \in Nat /\ Calls(segs) \in Nat
         /\ Cardinality(Flattened(segs)) + 1 <= TurnFrames
<1>1. Cardinality(Flattened(segs)) \in Nat /\ Cardinality(SegsOf(Flattened(segs))) \in Nat
  BY FS_CardinalityType DEF Ongoing, Counted
<1>2. IsFiniteSet(DOMAIN segs)
  BY Interval
<1>3. VisibleSet(segs) \in SUBSET DOMAIN segs /\ RoundSet(segs) \in SUBSET DOMAIN segs
  BY DEF VisibleSet, RoundSet
<1>4. Visible(segs) \in Nat
  BY <1>2, <1>3, FS_Subset, FS_CardinalityType DEF Visible, VisibleSet
<1>5. Rounds(segs) \in Nat
  BY <1>2, <1>3, FS_Subset, FS_CardinalityType DEF Rounds, RoundSet
<1>6. Calls(segs) \in Nat
  BY FS_CardinalityType DEF Calls, CallSet, Ongoing, Counted
<1> QED
  BY <1>1, <1>4, <1>5, <1>6, Budgets DEF Ongoing

LEMMA NotEmpty ==
  ASSUME NEW S, NEW seq \in Seq(S), seq # <<>>
  PROVE  Len(seq) \in Nat /\ Len(seq) >= 1
BY EmptySeq

LEMMA JustOne ==
  ASSUME NEW S, NEW seq \in Seq(S), seq # <<>>, Len(seq) <= 1
  PROVE  Len(seq) = 1
<1> DEFINE n == Len(seq)
<1>1. n \in Nat /\ n >= 1 /\ n <= 1
  BY NotEmpty
<1> HIDE DEF n
<1>2. n = 1
  BY <1>1
<1> QED
  BY <1>2 DEF n

LEMMA OneMoreBatch ==
  ASSUME NEW segs \in Seq(Segments), Ongoing(segs), NEW s \in Segments, IsBatch(s),
         Len(segs) + 1 < MaxSegments, Visible(segs) + 1 < MaxVisible, Rounds(segs) < MaxRounds,
         Calls(segs) + Len(s.calls) <= MaxCalls, NEW more, more = Append(segs, s)
  PROVE  Ongoing(more)
<1>1. /\ more \in Seq(Segments) /\ Len(more) = Len(segs) + 1
      /\ \A i \in DOMAIN more : IsBatch(more[i])
  BY AppendedSegment DEF Ongoing
<1>2. /\ IsFiniteSet(Flattened(more)) /\ IsFiniteSet(CallSet(more))
      /\ Calls(more) = Calls(segs) + Len(s.calls)
      /\ Flattened(more) = Flattened(segs) \cup Sent(Len(segs), s.frames, Len(s.frames))
      /\ Cardinality(Flattened(more)) <= Cardinality(Flattened(segs)) + Len(s.frames)
  BY AppendedCalls, AppendedFrames DEF Ongoing, Counted
<1>3. Cardinality(Flattened(segs)) \in Nat /\ Cardinality(Flattened(more)) \in Nat
  BY <1>2, FS_CardinalityType DEF Ongoing, Counted
<1>4. s.frames \in Seq(Authors) /\ Len(s.frames) \in Nat
  BY DEF Segments
<1>5. /\ Rounds(segs) \in Nat /\ Rounds(more) = Rounds(segs) + 1
      /\ Visible(segs) \in Nat
      /\ s.frames = <<>> => Visible(more) = Visible(segs)
      /\ s.frames # <<>> => Visible(more) = Visible(segs) + 1
  BY AppendedRounds, AppendedVisible DEF IsBatch
<1>6. Cardinality(Flattened(more)) <= Visible(more)
  <2>1. CASE s.frames = <<>>
    BY <1>2, <1>3, <1>5, <2>1 DEF Ongoing
  <2>2. CASE s.frames # <<>>
    BY <1>2, <1>3, <1>4, <1>5, <2>2 DEF Ongoing, IsBatch
  <2> QED
    BY <2>1, <2>2
<1>7. /\ IsFiniteSet(SegsOf(Flattened(more)))
      /\ Cardinality(SegsOf(Flattened(more))) <= Visible(more)
  <2> DEFINE shown == SegsOf(Flattened(segs))
  <2>0. IsFiniteSet(shown) /\ Cardinality(shown) \in Nat /\ Cardinality(shown) <= Visible(segs)
    BY FS_CardinalityType DEF Ongoing
  <2>1. CASE s.frames = <<>>
    <3>1. Sent(Len(segs), s.frames, Len(s.frames)) = {}
      BY <2>1 DEF Sent
    <3>2. Flattened(more) = Flattened(segs)
      BY <1>2, <3>1
    <3> QED
      <4>1. Visible(more) = Visible(segs)
        BY <1>5, <2>1
      <4>2. SegsOf(Flattened(more)) = shown
        BY <3>2
      <4> HIDE DEF shown
      <4> QED
        BY <2>0, <4>1, <4>2
  <2>2. CASE s.frames # <<>>
    <3>1. Len(s.frames) = 1
      BY <1>4, <2>2, JustOne DEF IsBatch
    <3>2. Sent(Len(segs), s.frames, 1) = {Frame(Len(segs), 0, s.frames[1])}
      BY DEF Sent
    <3>3. Frame(Len(segs), 0, s.frames[1]).seg = Len(segs)
      BY DEF Frame
    <3>4. SegsOf(Flattened(more)) = shown \cup {Len(segs)}
      <4>1. Flattened(more) = Flattened(segs) \cup {Frame(Len(segs), 0, s.frames[1])}
        BY <1>2, <3>1, <3>2
      <4>2. ASSUME NEW x PROVE x \in SegsOf(Flattened(more)) <=> x \in shown \cup {Len(segs)}
        <5>1. /\ x \in SegsOf(Flattened(more)) <=> \E r \in Flattened(more) : x = r.seg
              /\ x \in shown <=> \E r \in Flattened(segs) : x = r.seg
          BY DEF SegsOf
        <5> HIDE DEF shown
        <5> QED
          BY <3>3, <4>1, <5>1
      <4> QED
        BY <4>2
    <3> HIDE DEF shown
    <3>5. /\ IsFiniteSet(shown \cup {Len(segs)})
          /\ Cardinality(shown \cup {Len(segs)}) <= Cardinality(shown) + 1
      <4> DEFINE x == Len(segs)
      <4> HIDE DEF x
      <4>1. /\ IsFiniteSet(shown \cup {x})
            /\ Cardinality(shown \cup {x})
                 = IF x \in shown THEN Cardinality(shown) ELSE Cardinality(shown) + 1
        BY <2>0, FS_AddElement
      <4>2. Cardinality(shown \cup {x}) <= Cardinality(shown) + 1
        BY <2>0, <4>1
      <4> QED
        BY <4>1, <4>2 DEF x
    <3>6. Cardinality(shown \cup {Len(segs)}) \in Nat
      BY <3>5, FS_CardinalityType
    <3> QED
      BY <1>5, <2>0, <2>2, <3>4, <3>5, <3>6
  <2> QED
    BY <2>1, <2>2
<1>8. Visible(more) < MaxVisible /\ Rounds(more) <= MaxRounds
  BY <1>5, Budgets
<1> QED
  BY <1>1, <1>2, <1>6, <1>7, <1>8 DEF Ongoing, Counted

LEMMA SegmentTypes ==
  ASSUME NEW segs \in Seq(Segments), NEW i \in DOMAIN segs
  PROVE  /\ segs[i] \in Segments
         /\ segs[i].frames \in Seq(Authors) /\ Len(segs[i].frames) \in Nat
         /\ segs[i].calls \in Seq(Tools) /\ Len(segs[i].calls) \in Nat
<1>1. segs[i] \in Segments
  OBVIOUS
<1>2. segs[i].frames \in Seq(Authors) /\ segs[i].calls \in Seq(Tools)
  BY <1>1 DEF Segments
<1> QED
  BY <1>1, <1>2, LenProperties

\* A result that is written is accepted; and it is written unless the frames that
\* went out are not those of its segments, or it does not end as it should.
LEMMA Concluded ==
  ASSUME NEW out \in Seq(Events), Open(out), NEW segs \in Seq(Segments),
         NEW status \in {"completed", "partial"}, repairs \in Nat, Shaped(segs),
         NEW e, e = Completed(out, segs, status)
  PROVE  /\ e \in Events /\ EventFits(out, e) /\ e.type \in {"completed", "error"}
         /\ Flattened(segs) = FramesIn(out) /\ Right(segs, status) => e.type = "completed"
<1> DEFINE c == [type |-> "completed", status |-> status, segments |-> segs, repairs |-> repairs]
           good == /\ Flattened(segs) = FramesIn(out) /\ EndFits(segs, status)
                   /\ WithinBudget(segs, repairs)
                   /\ \A i \in DOMAIN segs : SegmentFits(segs[i])
<1>1. e = IF good THEN c ELSE Error("result")
  BY DEF Completed
<1>2. \A i \in DOMAIN out : out[i].type \notin {"completed", "error"}
  BY DEF Open
<1>3. CASE good
  <2>1. e = c
    BY <1>1, <1>3
  <2>2. /\ e \in Events /\ e.type = "completed"
        /\ e.segments = segs /\ e.status = status /\ e.repairs = repairs
    BY <2>1 DEF Events
  <2>3. ResultFits(FramesIn(out), e)
    BY <1>3, <2>2 DEF ResultFits, Shaped
  <2>4. EventFits(out, e)
    BY <1>2, <2>2, <2>3 DEF EventFits
  <2> QED
    BY <2>2, <2>4
<1>4. CASE ~good
  <2>1. e = Error("result")
    BY <1>1, <1>4
  <2>2. e \in Events /\ e.type = "error"
    BY <2>1 DEF Events, Error
  <2>3. EventFits(out, e)
    BY <1>2, <2>2 DEF EventFits
  <2>4. ~(Flattened(segs) = FramesIn(out) /\ Right(segs, status))
    BY <1>4 DEF Right
  <2> QED
    BY <2>2, <2>3, <2>4
<1> QED
  BY <1>3, <1>4

\* The turn ends with a segment of its own after the batches ...
LEMMA EndingSegment ==
  ASSUME NEW segs \in Seq(Segments), Ongoing(segs), NEW s \in Segments, repairs <= MaxRepairs,
         s.finish \in {"complete", "partial", "failed"}, s.calls = <<>>,
         s.finish = "failed" <=> s.frames = <<>>, Len(s.frames) <= MaxFrames,
         NEW more, more = Append(segs, s), NEW status \in {"completed", "partial"},
         status = "completed" => s.finish = "complete",
         status = "partial" => s.finish # "complete" /\ Flattened(more) # {}
  PROVE  more \in Seq(Segments) /\ Shaped(more) /\ Right(more, status)
<1>1. /\ more \in Seq(Segments) /\ Len(more) = Len(segs) + 1 /\ Len(segs) \in Nat
      /\ DOMAIN more = DOMAIN segs \cup {Len(more)} /\ DOMAIN segs = 1 .. Len(segs)
      /\ Len(more) \notin DOMAIN segs /\ more[Len(more)] = s
  BY AppendedSegment
<1>1a. \A i \in DOMAIN segs : more[i] = segs[i]
  BY AppendedSegment
<1>2. ASSUME NEW i \in DOMAIN segs
      PROVE  /\ more[i].finish = "tool_batch" /\ Len(more[i].frames) <= 1 /\ more[i].calls # <<>>
             /\ Len(more[i].frames) <= MaxFrames
  <2>1. more[i] = segs[i] /\ IsBatch(segs[i])
    BY <1>1a DEF Ongoing
  <2>2. segs[i].frames \in Seq(Authors) /\ Len(segs[i].frames) \in Nat
    BY SegmentTypes
  <2> QED
    BY <2>1, <2>2, Budgets DEF IsBatch
<1>3. Shaped(more)
  BY <1>1, <1>2 DEF Shaped
<1>4. \A i \in DOMAIN more : SegmentFits(more[i])
  BY <1>1, <1>2 DEF SegmentFits
<1>5. EndFits(more, status)
  <2>1. more # <<>> /\ Last(more) = s
    BY <1>1 DEF Last
  <2> QED
    BY <2>1 DEF EndFits
<1>6. WithinBudget(more, repairs)
  <2>1. Calls(more) = Calls(segs) + 0 /\ Calls(segs) \in Nat
    BY AppendedCalls DEF Ongoing, Counted
  <2>2. Rounds(more) = Rounds(segs)
    BY AppendedRounds
  <2>3. /\ Visible(segs) \in Nat
        /\ (Visible(more) = Visible(segs) \/ Visible(more) = Visible(segs) + 1)
    BY AppendedVisible
  <2>4. Calls(more) <= MaxCalls /\ Rounds(more) <= MaxRounds
    BY <2>1, <2>2 DEF Ongoing
  <2>5. Visible(more) <= MaxVisible /\ Len(more) <= MaxSegments
    BY <1>1, <2>3, Budgets DEF Ongoing
  <2> QED
    BY <2>4, <2>5 DEF WithinBudget
<1> QED
  BY <1>1, <1>3, <1>4, <1>5, <1>6 DEF Right

\* ... or with a batch, if something was shown.
LEMMA EndingBatch ==
  ASSUME NEW segs \in Seq(Segments), Ongoing(segs), repairs <= MaxRepairs,
         Flattened(segs) # {}
  PROVE  Shaped(segs) /\ Right(segs, "partial")
<1>1. ASSUME NEW i \in DOMAIN segs
      PROVE  /\ segs[i].finish = "tool_batch" /\ Len(segs[i].frames) <= 1 /\ segs[i].calls # <<>>
             /\ Len(segs[i].frames) <= MaxFrames
  <2>1. IsBatch(segs[i])
    BY DEF Ongoing
  <2>2. segs[i].frames \in Seq(Authors) /\ Len(segs[i].frames) \in Nat
    BY SegmentTypes
  <2> QED
    BY <2>1, <2>2, Budgets DEF IsBatch
<1>2. Shaped(segs)
  BY <1>1 DEF Shaped
<1>3. \A i \in DOMAIN segs : SegmentFits(segs[i])
  BY <1>1 DEF SegmentFits
<1>4. segs # <<>>
  BY NothingFlattened
<1>5. Len(segs) \in DOMAIN segs
  BY <1>4, NotEmpty
<1>6. EndFits(segs, "partial")
  BY <1>1, <1>4, <1>5 DEF EndFits, Last
<1>7. WithinBudget(segs, repairs)
  BY OngoingNumbers, Budgets DEF WithinBudget, Ongoing
<1> QED
  BY <1>2, <1>3, <1>6, <1>7 DEF Right

-----------------------------------------------------------------------------
(* The invariant *)

Attempts ==
  [offered : SUBSET Tools, limit : Nat, fresh : BOOLEAN, calls : Seq(Tools), held : Seq({"model"}),
   sent : Nat, end : {"open", "stop", "tool_calls", "fault"}]

StreamTypes ==
  /\ at \in {"segment", "stream", "judge", "answer", "window", "tools", "failed", "done"}
  /\ attempt \in Attempts /\ plan \in {"none", "plain", "reacts"}
  /\ segments \in Seq(Segments) /\ repairs \in Nat /\ stream \in Seq(Events)
  /\ {pending, acted, expired, enabled, toggled} \subseteq BOOLEAN

\* No frame of the model's stands before or with a call that it could not know of.
Grounded(F, segs) ==
  \A f \in F : f.by = "model" =>
    \A j \in DOMAIN segs :
      /\ j = f.seg + 1 => ~Called(segs[j].calls, Acting \cup Peers)
      /\ j <= f.seg + 1 => ~Called(segs[j].calls, {"ask", "resume"})

\* The stream of the model that is being read: what it may still hold and call,
\* and what of it is out.
Attempted ==
  /\ attempt.sent <= Len(attempt.held) /\ Len(attempt.held) <= attempt.limit
  /\ at = "segment" => attempt = NoAttempt
  /\ at # "segment" =>
       /\ attempt.limit \in 1 .. MaxFrames
       /\ attempt.limit + Cardinality(Flattened(segments)) <= TurnFrames
  /\ attempt.offered # {} =>
       /\ Index + 1 < MaxSegments /\ Visible(segments) + 1 < MaxVisible
       /\ Rounds(segments) < MaxRounds
  /\ pending => attempt.held = <<>>
  /\ plan = "none" => segments = <<>> /\ attempt.held = <<>>
  /\ at \in {"stream", "judge", "answer", "window"} /\ attempt.offered # {} => attempt.sent = 0
  /\ at = "answer" => AnswerFits /\ ~pending
  /\ at \in {"window", "tools"} => BatchFits /\ plan # "none"
  /\ at = "tools" => attempt.held = Standing /\ attempt.sent = Len(attempt.held)
  /\ at = "failed" => attempt.sent = 0 \/ attempt.offered = {} \/ attempt.held = Standing

\* What is out: the frames of the segments so far and those of the attempt; and the
\* reaction, if the plan has one and frames are out.
Shown ==
  /\ Open(stream)
  /\ Frames = Flattened(segments) \cup Sent(Index, attempt.held, attempt.sent)
  /\ ~toggled /\ enabled /\ plan = "reacts" /\ Frames # {} => Reacted(stream)
  /\ pending \/ \A j \in DOMAIN segments : ~Called(segments[j].calls, {"ask", "resume"})

StreamInv ==
  /\ StreamTypes /\ repairs <= MaxRepairs
  /\ ~toggled => Accepts(stream)
  /\ Grounded(Frames, segments)
  /\ at # "done" => Ongoing(segments) /\ Attempted /\ Shown
  /\ at = "done" => ShownAnswersStand

LEMMA HeldIsWritten ==
  ASSUME StreamTypes
  PROVE  /\ attempt.held \in Seq(Authors) /\ Len(attempt.held) \in Nat /\ attempt.sent \in Nat
         /\ \A k \in 1 .. Len(attempt.held) : attempt.held[k] = "model"
<1>1. attempt.held \in Seq({"model"}) /\ attempt.sent \in Nat
  BY DEF StreamTypes, Attempts
<1>2. attempt.held \in Seq(Authors)
  BY <1>1, SeqMonotonic DEF Authors
<1> QED
  BY <1>1, <1>2

LEMMA GroundedMore ==
  ASSUME NEW F, NEW segs \in Seq(Segments), NEW s \in Segments, NEW more, more = Append(segs, s),
         \A f \in F : f.seg \in Nat, Grounded(F, segs),
         \/ s.calls = <<>>
         \/ \A f \in F : f.by = "model" /\ Len(segs) <= f.seg => ~Called(s.calls, Acting \cup Peers)
  PROVE  Grounded(F, more)
<1> SUFFICES ASSUME NEW f \in F, f.by = "model", NEW j \in DOMAIN more
             PROVE  /\ j = f.seg + 1 => ~Called(more[j].calls, Acting \cup Peers)
                    /\ j <= f.seg + 1 => ~Called(more[j].calls, {"ask", "resume"})
  BY DEF Grounded
<1>1. /\ Len(more) = Len(segs) + 1 /\ Len(segs) \in Nat
      /\ DOMAIN more = DOMAIN segs \cup {Len(more)} /\ more[Len(more)] = s
      /\ \A i \in DOMAIN segs : more[i] = segs[i]
  BY AppendedSegment
<1>2. CASE j \in DOMAIN segs
  BY <1>1, <1>2 DEF Grounded
<1>3. CASE j = Len(more)
  <2>1. more[j] = s
    BY <1>1, <1>3
  <2>2. CASE ~Called(s.calls, Acting \cup Peers)
    BY <2>1, <2>2 DEF Called, Peers
  <2>3. CASE ~(Len(segs) <= f.seg)
    BY <1>1, <1>3, <2>3
  <2>4. CASE s.calls = <<>>
    BY <2>1, <2>4 DEF Called, Range
  <2> QED
    BY <2>2, <2>3, <2>4
<1> QED
  BY <1>1, <1>2, <1>3

LEMMA GroundedUnion ==
  ASSUME NEW F, NEW G, NEW segs, Grounded(F, segs), Grounded(G, segs)
  PROVE  Grounded(F \cup G, segs)
BY DEF Grounded

LEMMA GroundedOwn ==
  ASSUME NEW seg, NEW authors, NEW n \in Nat, \A k \in 1 .. n : authors[k] = "runtime", NEW segs
  PROVE  Grounded(Sent(seg, authors, n), segs)
<1>1. \A f \in Sent(seg, authors, n) : f.by = "runtime"
  BY DEF Sent, Frame
<1> QED
  BY <1>1 DEF Grounded

LEMMA GroundedNow ==
  ASSUME NEW authors, NEW n \in Nat, NEW segs \in Seq(Segments),
         \A j \in DOMAIN segs : ~Called(segs[j].calls, {"ask", "resume"})
  PROVE  Grounded(Sent(Len(segs), authors, n), segs)
<1>1. \A f \in Sent(Len(segs), authors, n) : f.seg = Len(segs)
  BY DEF Sent, Frame
<1>2. \A j \in DOMAIN segs : ~(j = Len(segs) + 1)
  OBVIOUS
<1> QED
  BY <1>1, <1>2 DEF Grounded

\* The reaction goes out before any frame, unless the owner's setting has changed.
LEMMA ReactionGoesOut ==
  ASSUME StreamInv, at # "done", plan' \in {"none", "plain", "reacts"},
         plan' = "reacts" => plan = "reacts" \/ Frames = {},
         NEW new, new = WithReaction(stream)
  PROVE  /\ new \in Seq(Events) /\ Open(new) /\ FramesIn(new) = Frames
         /\ ~toggled => Accepts(new)
         /\ enabled /\ plan' = "reacts" => Reacted(new)
<1> DEFINE e == [type |-> "reaction"]
<1>1. stream \in Seq(Events) /\ Open(stream) /\ (~toggled => Accepts(stream))
  BY DEF StreamInv, StreamTypes, Shown
<1>2. CASE plan' = "reacts" /\ enabled /\ ~Reacted(stream)
  <2>1. new = Append(stream, e)
    BY <1>2 DEF WithReaction, Reacted
  <2>2. e \in Events /\ e.type = "reaction"
    BY DEF Events
  <2>3. ASSUME ~toggled PROVE EventFits(stream, e)
    <3>1. Frames = {}
      BY <1>2, <2>3 DEF StreamInv, Shown
    <3>2. \A i \in DOMAIN stream : stream[i].type \notin {"frame", "reaction", "completed", "error"}
      BY <1>1, <1>2, <3>1 DEF Frames, FramesIn, Range, Reacted, Open
    <3> QED
      BY <2>2, <3>2 DEF EventFits
  <2> HIDE DEF e
  <2>4. FramesIn(new) = Frames \cup {}
    BY <1>1, <2>1, <2>2, AcceptedNext DEF Frames
  <2> QED
    BY <1>1, <2>1, <2>2, <2>3, <2>4, AcceptedNext
<1>3. CASE ~(plan' = "reacts" /\ enabled /\ ~Reacted(stream))
  <2>1. new = stream
    BY <1>3 DEF WithReaction, Reacted
  <2> QED
    BY <1>1, <1>3, <2>1 DEF Frames
<1> QED
  BY <1>2, <1>3

\* The frames of a segment go out after what was shown.
LEMMA SegmentGoesOut ==
  ASSUME StreamInv, at # "done", plan' \in {"none", "plain", "reacts"},
         plan' = "reacts" => plan = "reacts" \/ Frames = {},
         NEW F, NEW seg, seg \in Nat, NEW authors \in Seq(Authors),
         NEW sent, sent \in 0 .. Len(authors), Room(F, seg, Len(authors)),
         Frames = With(F, seg, authors, sent),
         NEW new, new = WithFrames(seg, authors, sent)
  PROVE  /\ new \in Seq(Events) /\ Open(new)
         /\ FramesIn(new) = With(F, seg, authors, Len(authors))
         /\ ~toggled => Accepts(new)
         /\ ~toggled /\ enabled /\ plan' = "reacts" /\ FramesIn(new) # {} => Reacted(new)
<1>1. CASE Len(authors) <= sent
  <2>1. new = stream /\ sent = Len(authors)
    BY <1>1 DEF WithFrames
  <2>2. FramesIn(new) = With(F, seg, authors, Len(authors)) /\ FramesIn(new) = Frames
    BY <2>1 DEF Frames
  <2> QED
    BY <2>1, <2>2 DEF StreamInv, StreamTypes, Shown
<1>2. CASE ~(Len(authors) <= sent)
  <2> DEFINE out == WithReaction(stream)
  <2>1. new = Going(out, seg, authors, sent)
    BY <1>2 DEF WithFrames, Going
  <2>2. /\ out \in Seq(Events) /\ Open(out) /\ FramesIn(out) = Frames
        /\ ~toggled => Accepts(out)
        /\ enabled /\ plan' = "reacts" => Reacted(out)
    BY ReactionGoesOut
  <2> HIDE DEF out
  <2>3. /\ new \in Seq(Events) /\ Open(new)
        /\ FramesIn(new) = With(F, seg, authors, Len(authors))
        /\ Reacted(out) => Reacted(new)
        /\ Accepts(out) => Accepts(new)
    BY <2>1, <2>2, FramesGoOut
  <2> QED
    BY <2>2, <2>3
<1> QED
  BY <1>1, <1>2

-----------------------------------------------------------------------------
(* The turn ends *)

LEMMA Finished ==
  ASSUME StreamInv, at # "done", UNCHANGED <<expired, enabled, toggled>>,
         plan' \in {"none", "plain", "reacts"},
         NEW out \in Seq(Events), Open(out), ~toggled => Accepts(out),
         NEW more, NEW segs \in Seq(Segments), segs = segments \o more, Shaped(segs),
         NEW status \in {"completed", "partial"}, Finish(out, more, status),
         Grounded(FramesIn(out), segs),
         CalledAfterwards \/ (Flattened(segs) = FramesIn(out) /\ Right(segs, status))
  PROVE  StreamInv'
<1> DEFINE e == Completed(out, segs, status)
<1>1. /\ at' = "done" /\ segments' = segs /\ stream' = Append(out, e)
      /\ UNCHANGED <<attempt, repairs, pending, acted>>
  BY DEF Finish
<1>2. repairs \in Nat
  BY DEF StreamInv, StreamTypes
<1>3. /\ e \in Events /\ EventFits(out, e) /\ e.type \in {"completed", "error"}
      /\ Flattened(segs) = FramesIn(out) /\ Right(segs, status) => e.type = "completed"
  BY <1>2, Concluded
<1> HIDE DEF e
<1>4. /\ stream' \in Seq(Events) /\ stream' # <<>> /\ Last(stream') = e
      /\ FramesIn(stream') = FramesIn(out) \cup {}
      /\ Accepts(out) => Accepts(stream')
  BY <1>1, <1>3, AcceptedNext
<1>5. Frames' = FramesIn(out)
  BY <1>4 DEF Frames
<1>6. StreamTypes'
  BY <1>1, <1>4 DEF StreamInv, StreamTypes
<1>7. ShownAnswersStand'
  <2>1. CASE CalledAfterwards
    BY <1>1, <2>1 DEF ShownAnswersStand, CalledAfterwards
  <2>2. CASE Flattened(segs) = FramesIn(out) /\ Right(segs, status)
    BY <1>3, <1>4, <2>2 DEF ShownAnswersStand, ShownTurnsComplete
  <2> QED
    BY <2>1, <2>2
<1>8. Grounded(Frames', segments')
  BY <1>1, <1>5
<1> QED
  BY <1>1, <1>4, <1>6, <1>7, <1>8 DEF StreamInv

LEMMA NothingGrounded == \A segs : Grounded({}, segs)
BY DEF Grounded

LEMMA Raised ==
  ASSUME StreamInv, at # "done", UNCHANGED <<expired, enabled, toggled>>, Frames = {}, Raise
  PROVE  StreamInv'
<1> DEFINE e == Error("turn")
<1>1. /\ at' = "done" /\ attempt' = NoAttempt /\ stream' = Append(stream, e)
      /\ UNCHANGED <<plan, segments, repairs, pending, acted>>
  BY DEF Raise
<1>2. e \in Events /\ e.type = "error"
  BY DEF Events, Error
<1>3. stream \in Seq(Events) /\ Open(stream)
  BY DEF StreamInv, StreamTypes, Shown
<1>4. EventFits(stream, e)
  BY <1>2, <1>3 DEF EventFits, Open
<1> HIDE DEF e
<1>5. /\ stream' \in Seq(Events) /\ FramesIn(stream') = FramesIn(stream) \cup {}
      /\ Accepts(stream) => Accepts(stream')
  BY <1>1, <1>2, <1>3, <1>4, AcceptedNext
<1>6. Frames' = {}
  BY <1>5 DEF Frames
<1>7. NoAttempt \in Attempts
  BY DEF NoAttempt, Attempts
<1>8. StreamTypes'
  BY <1>1, <1>5, <1>7 DEF StreamInv, StreamTypes
<1>9. Grounded(Frames', segments') /\ ShownAnswersStand'
  BY <1>6, NothingGrounded DEF ShownAnswersStand, ShownTurnsComplete
<1> QED
  BY <1>1, <1>5, <1>8, <1>9 DEF StreamInv

LEMMA GivesUp ==
  ASSUME StreamInv, at # "done", UNCHANGED <<expired, enabled, toggled>>,
         NEW more, NEW segs \in Seq(Segments), segs = segments \o more, GiveUp(more),
         Frames # {} => Shaped(segs),
         Frames # {} => CalledAfterwards \/ (Flattened(segs) = Frames /\ Right(segs, "partial")),
         Grounded(Frames, segs)
  PROVE  StreamInv'
<1>1. CASE Frames = {}
  BY <1>1, Raised DEF GiveUp
<1>2. CASE Frames # {}
  <2>1. plan' = plan /\ Finish(stream, more, "partial")
    BY <1>2 DEF GiveUp
  <2>2. /\ stream \in Seq(Events) /\ Open(stream) /\ (~toggled => Accepts(stream))
        /\ plan' \in {"none", "plain", "reacts"} /\ FramesIn(stream) = Frames
    BY <2>1 DEF StreamInv, StreamTypes, Shown, Frames
  <2> QED
    BY <1>2, <2>1, <2>2, Finished
<1> QED
  BY <1>1, <1>2

\* No frame of the attempt is out: what is out are the frames of the segments.
LEMMA NoneSent ==
  ASSUME StreamInv, at # "done", attempt.sent = 0
  PROVE  Frames = Flattened(segments)
BY DEF StreamInv, Shown, Sent

LEMMA FramesHaveSegments ==
  ASSUME StreamInv, at # "done"
  PROVE  /\ \A f \in Frames : f.seg \in Nat /\ f.seg <= Index
         /\ \A f \in Flattened(segments) : f.seg \in Nat /\ f.seg < Index
         /\ Index \in Nat
<1>1. Index \in Nat /\ segments \in Seq(Segments)
  BY DEF StreamInv, StreamTypes, Index
<1>2. \A f \in Sent(Index, attempt.held, attempt.sent) : f.seg = Index
  BY DEF Sent, Frame
<1>3. \A f \in Flattened(segments) : f.seg \in Nat /\ f.seg < Index
  BY <1>1, FlattenedSegments DEF Index
<1> QED
  BY <1>1, <1>2, <1>3 DEF StreamInv, Shown

\* The last segment of a turn: without calls.
LEMMA LastSegment ==
  ASSUME StreamInv, at # "done", NEW s \in Segments, s.calls = <<>>,
         s.finish \in {"complete", "partial", "failed"}, s.finish = "failed" <=> s.frames = <<>>,
         Len(s.frames) <= MaxFrames, NEW segs, segs = segments \o <<s>>,
         NEW status \in {"completed", "partial"}, status = "completed" => s.finish = "complete",
         status = "partial" => s.finish # "complete"
  PROVE  /\ segs \in Seq(Segments)
         /\ status = "completed" \/ Flattened(segs) # {} => Shaped(segs) /\ Right(segs, status)
         /\ Flattened(segs) = Flattened(segments) \cup Sent(Index, s.frames, Len(s.frames))
         /\ Grounded(Frames, segs)
         /\ Grounded(Flattened(segments), segments)
<1>1. segments \in Seq(Segments) /\ Ongoing(segments) /\ repairs <= MaxRepairs
  BY DEF StreamInv, StreamTypes
<1>2. segs = Append(segments, s)
  BY <1>1, AppendIsConcat
<1>3. segs \in Seq(Segments)
  BY <1>1, <1>2, AppendedSegment
<1>4. Flattened(segs) = Flattened(segments) \cup Sent(Index, s.frames, Len(s.frames))
  BY <1>1, <1>2, AppendedFrames DEF Ongoing, Counted, Index
<1>5. status = "completed" \/ Flattened(segs) # {} => Shaped(segs) /\ Right(segs, status)
  BY <1>1, <1>2, EndingSegment
<1>6. \A f \in Frames : f.seg \in Nat
  BY FramesHaveSegments
<1>7. Grounded(Frames, segments)
  BY DEF StreamInv
<1>8. Grounded(Frames, segs)
  BY <1>1, <1>2, <1>6, <1>7, GroundedMore
<1>9. Grounded(Flattened(segments), segments)
  BY <1>7 DEF Grounded, StreamInv, Shown
<1> QED
  BY <1>3, <1>4, <1>5, <1>8, <1>9

LEMMA OwnWords ==
  /\ Own \in Seq(Authors) /\ Len(Own) = 1 /\ Own # <<>>
  /\ Segment("complete", Own, <<>>) \in Segments
  /\ \A k \in 1 .. 1 : Own[k] = "runtime"
BY DEF Own, Authors, Segment, Segments

LEMMA SaysInstead ==
  ASSUME StreamInv, at # "done", UNCHANGED <<expired, enabled, toggled>>,
         NEW sent, sent = attempt.sent, sent = 0 \/ CalledAfterwards, SayInstead(sent)
  PROVE  StreamInv'
<1> DEFINE s == Segment("complete", Own, <<>>)
           segs == segments \o <<s>>
           out == WithFrames(Index, Own, sent)
<1>1. plan' = SomePlan /\ Finish(out, <<s>>, "completed")
  BY DEF SayInstead
<1>2. s \in Segments /\ s.calls = <<>> /\ s.finish = "complete" /\ s.frames = Own
  BY OwnWords DEF Segment
<1>3. Len(Own) <= MaxFrames /\ Own # <<>>
  BY OwnWords, Budgets
<1> HIDE DEF s
<1>4. /\ segs \in Seq(Segments) /\ Shaped(segs) /\ Right(segs, "completed")
      /\ Flattened(segs) = Flattened(segments) \cup Sent(Index, Own, 1)
      /\ Grounded(Frames, segs)
  BY <1>2, <1>3, OwnWords, LastSegment
<1>5. plan' \in {"none", "plain", "reacts"} /\ (plan' = "reacts" => plan = "reacts")
  BY <1>1 DEF SomePlan, StreamInv, StreamTypes
<1> HIDE DEF segs
<1>6. CASE sent = 0
  <2>1. Frames = Flattened(segments)
    BY <1>6, NoneSent
  <2>2. segments \in Seq(Segments) /\ Ongoing(segments) /\ Index \in Nat
    BY DEF StreamInv, StreamTypes, Index
  <2>3. Room(Flattened(segments), Index, Len(Own))
    BY <2>2, OngoingHasRoom, OngoingNumbers, OwnWords, Budgets DEF Index
  <2>4. Sent(Index, Own, 0) = {}
    BY <2>2, OwnWords, SentFrames
  <2>5. Frames = With(Flattened(segments), Index, Own, 0)
    BY <2>1, <2>4 DEF With
  <2>6. 0 \in 0 .. Len(Own) /\ out = WithFrames(Index, Own, 0)
    BY <1>6, OwnWords
  <2> HIDE DEF out
  <2>7. /\ out \in Seq(Events) /\ Open(out) /\ (~toggled => Accepts(out))
        /\ FramesIn(out) = With(Flattened(segments), Index, Own, Len(Own))
    <3>1. Own \in Seq(Authors) /\ 0 \in 0 .. Len(Own)
      BY <2>6, OwnWords
    <3> QED
      BY <1>5, <2>2, <2>3, <2>5, <2>6, <3>1, SegmentGoesOut
  <2>8. FramesIn(out) = Flattened(segs)
    BY <1>4, <2>7, OwnWords DEF With
  <2>9. Grounded(FramesIn(out), segs)
    BY <1>4, <2>1, <2>7, OwnWords, GroundedOwn, GroundedUnion DEF With
  <2> QED
    BY <1>1, <1>4, <1>5, <2>7, <2>8, <2>9, Finished DEF segs
<1>7. CASE sent # 0
  <2>1. sent \in Nat /\ Len(Own) <= sent
    BY <1>7, OwnWords DEF StreamInv, StreamTypes, Attempts
  <2>2. out = stream
    BY <2>1 DEF WithFrames
  <2>3. /\ stream \in Seq(Events) /\ Open(stream) /\ (~toggled => Accepts(stream))
        /\ FramesIn(stream) = Frames
    BY DEF StreamInv, StreamTypes, Shown, Frames
  <2> HIDE DEF out
  <2> QED
    BY <1>1, <1>4, <1>5, <1>7, <2>2, <2>3, Finished DEF segs
<1> QED
  BY <1>6, <1>7

-----------------------------------------------------------------------------
(* The turn goes on *)

LEMMA GoesOn ==
  ASSUME StreamInv, at # "done", at' # "done", UNCHANGED <<segments, pending, enabled, toggled>>,
         StreamTypes', repairs' <= MaxRepairs, Attempted',
         Open(stream'), ~toggled => Accepts(stream'), Grounded(Frames', segments),
         Frames' = Flattened(segments) \cup Sent(Index, attempt'.held, attempt'.sent),
         ~toggled /\ enabled /\ plan' = "reacts" /\ Frames' # {} => Reacted(stream')
  PROVE  StreamInv'
<1>1. Shown'
  BY DEF Shown, StreamInv, Index
<1>2. Ongoing(segments')
  BY DEF StreamInv
<1> QED
  BY <1>1, <1>2 DEF StreamInv

\* Steps that write nothing.
LEMMA GoesOnQuietly ==
  ASSUME StreamInv, at # "done", at' # "done",
         UNCHANGED <<segments, stream, pending, enabled, toggled>>,
         StreamTypes', repairs' <= MaxRepairs, Attempted',
         Sent(Index, attempt'.held, attempt'.sent) = Sent(Index, attempt.held, attempt.sent),
         plan' = "reacts" => plan = "reacts" \/ Frames = {}
  PROVE  StreamInv'
<1>1. Frames' = Frames
  BY DEF Frames
<1>2. /\ Open(stream') /\ (~toggled => Accepts(stream')) /\ Grounded(Frames', segments)
      /\ Frames' = Flattened(segments) \cup Sent(Index, attempt'.held, attempt'.sent)
      /\ ~toggled /\ enabled /\ plan' = "reacts" /\ Frames' # {} => Reacted(stream')
  BY <1>1 DEF StreamInv, Shown
<1> QED
  BY <1>2, GoesOn

LEMMA Smaller ==
  ASSUME NEW a \in Nat, NEW b \in Nat, NEW m, m = Min({a, b})
  PROVE  m \in {a, b} /\ m <= a /\ m <= b
<1>1. \E x \in {a, b} : \A y \in {a, b} : x <= y
  <2>1. CASE a <= b
    BY <2>1
  <2>2. CASE b <= a
    BY <2>2
  <2> QED
    BY <2>1, <2>2
<1>2. m \in {a, b} /\ \A y \in {a, b} : m <= y
  BY <1>1 DEF Min
<1> QED
  BY <1>2

\* What the model may hold, in a first or in a repeated attempt at a segment.
LEMMA AttemptBegins ==
  ASSUME StreamInv, at # "done", NEW offered \in SUBSET Tools, Attempt(offered),
         Frames = Flattened(segments), repairs' \in Nat, repairs' <= MaxRepairs,
         UNCHANGED <<plan, segments, pending, acted, stream, expired, enabled, toggled>>,
         offered # {} => /\ Index + 1 < MaxSegments /\ Visible(segments) + 1 < MaxVisible
                         /\ Rounds(segments) < MaxRounds,
         Sent(Index, attempt.held, attempt.sent) = {}
  PROVE  StreamInv'
<1> DEFINE limit == Min({MaxFrames, TurnFrames - Cardinality(Frames)})
<1>1. /\ at' = "stream"
      /\ attempt' = [offered |-> offered, limit |-> limit, fresh |-> plan = "none",
                     calls |-> <<>>, held |-> <<>>, sent |-> 0, end |-> "open"]
  BY DEF Attempt
<1>2. /\ Cardinality(Flattened(segments)) \in Nat
      /\ Cardinality(Flattened(segments)) + 1 <= TurnFrames
  BY OngoingNumbers DEF StreamInv, StreamTypes
<1>3. limit \in 1 .. MaxFrames /\ limit + Cardinality(Flattened(segments)) <= TurnFrames
  <2>1. PICK left \in Nat : left = TurnFrames - Cardinality(Frames)
    BY <1>2, Budgets
  <2>2. limit \in {MaxFrames, left} /\ limit <= MaxFrames /\ limit <= left
    BY <2>1, Smaller, Budgets
  <2> HIDE DEF limit
  <2> QED
    BY <1>2, <2>1, <2>2, Budgets
<1> HIDE DEF limit
<1>4. /\ attempt' \in Attempts /\ attempt'.held = <<>> /\ attempt'.sent = 0 /\ Len(<<>>) = 0
      /\ attempt'.offered = offered /\ attempt'.limit = limit
  BY <1>1, <1>3 DEF Attempts
<1>5. StreamTypes'
  BY <1>1, <1>4 DEF StreamInv, StreamTypes
<1>6. Attempted'
  BY <1>1, <1>3, <1>4 DEF StreamInv, Attempted, Index
<1>7. Sent(Index, attempt'.held, attempt'.sent) = {}
  BY <1>4 DEF Sent
<1> QED
  BY <1>1, <1>5, <1>6, <1>7, GoesOnQuietly

LEMMA BeginKeepsStream ==
  ASSUME StreamInv, Begin, UNCHANGED <<expired, enabled, toggled>>
  PROVE  StreamInv'
<1>1. at = "segment" /\ at # "done" /\ attempt = NoAttempt /\ attempt.sent = 0
  BY DEF Begin, StreamInv, Attempted, NoAttempt
<1>2. Frames = Flattened(segments) /\ Sent(Index, attempt.held, attempt.sent) = {}
  BY <1>1, NoneSent DEF Sent
<1>3. segments \in Seq(Segments) /\ Ongoing(segments) /\ repairs <= MaxRepairs /\ repairs \in Nat
  BY <1>1 DEF StreamInv, StreamTypes
<1>4. CASE SayInstead(0)
  BY <1>1, <1>4, SaysInstead
<1>5. CASE GiveUp(<<>>)
  <2>1. segments = segments \o <<>>
    BY <1>3, ConcatEmptySeq
  <2>2. Frames # {} => Shaped(segments) /\ Right(segments, "partial")
    BY <1>2, <1>3, EndingBatch
  <2>3. Grounded(Frames, segments)
    BY DEF StreamInv
  <2> QED
    BY <1>1, <1>2, <1>3, <1>5, <2>1, <2>2, <2>3, GivesUp
<1>6. CASE ~expired
  <2> DEFINE offered == IF ~AllowTools THEN {} ELSE IF pending THEN Tools \cap {"resume"} ELSE Tools
  <2>1. Attempt(offered) /\ UNCHANGED <<plan, segments, repairs, pending, acted, stream>>
    BY <1>6 DEF Begin
  <2>2. offered \in SUBSET Tools /\ (offered # {} => AllowTools)
    OBVIOUS
  <2> HIDE DEF offered
  <2>3. AllowTools => /\ Index + 1 < MaxSegments /\ Visible(segments) + 1 < MaxVisible
                      /\ Rounds(segments) < MaxRounds
    <3>1. /\ MaxSegments \in Nat /\ MaxVisible \in Nat /\ Index \in Nat /\ Visible(segments) \in Nat
      BY <1>3, OngoingNumbers, Budgets DEF Index
    <3> QED
      BY <3>1 DEF AllowTools
  <2> QED
    BY <1>1, <1>2, <1>3, <2>1, <2>2, <2>3, AttemptBegins
<1> QED
  BY <1>4, <1>5, <1>6 DEF Begin

\* A segment that failed: what was shown stands.
LEMMA Fails ==
  ASSUME StreamInv, at # "done", UNCHANGED <<expired, enabled, toggled>>,
         attempt.sent = 0 \/ CalledAfterwards, GiveUp(<<Segment("failed", <<>>, <<>>)>>)
  PROVE  StreamInv'
<1> PICK s : s = Segment("failed", <<>>, <<>>)
  OBVIOUS
<1> PICK segs : segs = segments \o <<s>>
  OBVIOUS
<1>1. s \in Segments /\ s.calls = <<>> /\ s.frames = <<>> /\ s.finish = "failed" /\ Len(<<>>) = 0
  BY DEF Segment, Segments
<1>2. /\ segs \in Seq(Segments) /\ (Flattened(segs) # {} => Shaped(segs) /\ Right(segs, "partial"))
      /\ Flattened(segs) = Flattened(segments) \cup Sent(Index, s.frames, Len(s.frames))
      /\ Grounded(Frames, segs)
  <2>1. Len(s.frames) <= MaxFrames
    BY <1>1, Budgets
  <2>2. PICK status \in {"completed", "partial"} : status = "partial"
    OBVIOUS
  <2> QED
    BY <1>1, <2>1, <2>2, LastSegment
<1>3. Flattened(segs) = Flattened(segments)
  <2>1. Sent(Index, s.frames, Len(s.frames)) = {}
    BY <1>1 DEF Sent
  <2> QED
    BY <1>2, <2>1
<1>4. attempt.sent = 0 => Flattened(segs) = Frames
  BY <1>3, NoneSent
<1>5. Shaped(segs)
  <2>1. /\ segments \in Seq(Segments) /\ Ongoing(segments)
    BY DEF StreamInv, StreamTypes
  <2>2. segs = Append(segments, s)
    BY <1>1, <2>1, AppendIsConcat
  <2>3. /\ Len(segs) = Len(segments) + 1 /\ segs[Len(segs)] = s
        /\ DOMAIN segs = DOMAIN segments \cup {Len(segs)}
    BY <1>1, <2>1, <2>2, AppendedSegment
  <2>4. \A i \in DOMAIN segments : segs[i] = segments[i]
    BY <1>1, <2>1, <2>2, AppendedSegment
  <2>5. ASSUME NEW i \in DOMAIN segments
        PROVE  /\ segs[i].finish = "tool_batch" /\ Len(segs[i].frames) <= 1
               /\ Len(segs[i].frames) <= MaxFrames
    <3>1. segs[i] = segments[i] /\ IsBatch(segments[i])
      BY <2>1, <2>4 DEF Ongoing
    <3>2. Len(segments[i].frames) \in Nat
      BY <2>1, SegmentTypes
    <3> QED
      BY <3>1, <3>2, Budgets DEF IsBatch
  <2> QED
    BY <1>1, <2>3, <2>5, Budgets DEF Shaped
<1> QED
  BY <1>2, <1>4, <1>5, GivesUp

\* The provider wants a sign-in before anything else: its words are the answer.
LEMMA AsksToSignIn ==
  ASSUME StreamInv, at # "done", UNCHANGED <<expired, enabled, toggled>>, segments = <<>>,
         attempt.sent = 0, AskToSignIn
  PROVE  StreamInv'
<1>0. PICK s : s = Segment("complete", Own, <<>>)
  OBVIOUS
<1>c. PICK authors : authors = Own
  OBVIOUS
<1>d. PICK seg \in Nat : seg = 0
  OBVIOUS
<1>a. PICK segs : segs = segments \o <<s>>
  OBVIOUS
<1>b. PICK out : out = stream \o FramesOf(seg, authors)
  OBVIOUS
<1> DEFINE c == [type |-> "completed", status |-> "completed", segments |-> segs, repairs |-> 0]
<1>1. /\ s \in Segments /\ s.calls = <<>> /\ s.frames = authors /\ s.finish = "complete"
      /\ authors \in Seq(Authors) /\ Len(authors) = 1 /\ authors # <<>> /\ seg \in Nat
      /\ \A k \in 1 .. 1 : authors[k] = "runtime"
  BY <1>0, <1>c, <1>d, OwnWords DEF Segment
<1>2. Len(authors) <= MaxFrames /\ Index = seg
  BY <1>0, <1>1, <1>d, Budgets DEF Index
<1>3. /\ segs \in Seq(Segments) /\ Shaped(segs) /\ Right(segs, "completed")
      /\ Flattened(segs) = Flattened(segments) \cup Sent(Index, s.frames, Len(s.frames))
      /\ Grounded(Frames, segs)
  <2>1. PICK status \in {"completed", "partial"} : status = "completed"
    OBVIOUS
  <2> QED
    BY <1>1, <1>2, <1>a, <2>1, LastSegment
<1>4. Frames = {} /\ Flattened(segments) = {}
  BY NoneSent, NothingFlattened
<1>5. segs = <<s>> /\ segments' = <<s>>
  BY <1>0, <1>1, <1>a DEF AskToSignIn
<1>6. /\ at' = "done" /\ segments' = segs /\ plan' = "plain"
      /\ stream' = out \o <<c>> /\ UNCHANGED <<attempt, repairs, pending, acted>>
  BY <1>0, <1>b, <1>c, <1>d, <1>5 DEF AskToSignIn
<1>7. stream \in Seq(Events) /\ Open(stream) /\ (~toggled => Accepts(stream))
  BY DEF StreamInv, StreamTypes, Shown
<1>8. /\ out \in Seq(Events) /\ Open(out) /\ (~toggled => Accepts(out))
      /\ FramesIn(out) = Sent(seg, authors, 1)
  <2>1. segments \in Seq(Segments) /\ Ongoing(segments)
    BY DEF StreamInv, StreamTypes
  <2>2. Room(Flattened(segments), Len(segments), 1)
    BY <2>1, OngoingHasRoom, OngoingNumbers, Budgets
  <2>0. PICK F : F = {}
    OBVIOUS
  <2>3. Room(F, seg, Len(authors))
    BY <1>1, <1>2, <1>4, <2>0, <2>2 DEF Index
  <2>4. FramesIn(stream) = With(F, seg, authors, 0)
    BY <1>4, <2>0 DEF Frames, Sent, With
  <2>5. out = Going(stream, seg, authors, 0)
    <3>1. DOMAIN authors = 1 .. 1
      BY <1>1
    <3>2. PICK fs : fs = FramesOf(seg, authors)
      OBVIOUS
    <3>3. fs = <<Frame(seg, 0, authors[1])>>
      BY <3>1, <3>2 DEF FramesOf
    <3> QED
      BY <1>1, <1>b, <3>2, <3>3 DEF Going
  <2>6. PICK sent \in 0 .. Len(authors) : sent = 0
    BY <1>1
  <2>7. /\ out \in Seq(Events) /\ Open(out) /\ (Accepts(stream) => Accepts(out))
        /\ Reacted(stream) => Reacted(out)
        /\ FramesIn(out) = With(F, seg, authors, Len(authors))
    <3>1. /\ out = Going(stream, seg, authors, sent)
          /\ FramesIn(stream) = With(F, seg, authors, sent)
      BY <2>4, <2>5, <2>6
    <3>2. authors \in Seq(Authors) /\ seg \in Nat /\ sent \in 0 .. Len(authors)
      BY <1>1, <2>6
    <3> QED
      BY <1>7, <2>3, <3>1, <3>2, FramesGoOut
  <2> QED
    BY <1>1, <1>7, <2>0, <2>7 DEF With
<1>9. /\ c \in Events /\ c.type = "completed" /\ c.status = "completed" /\ c.segments = segs
      /\ c.repairs = 0
  BY <1>3 DEF Events
<1> HIDE DEF c
<1>10. EventFits(out, c)
  <2>1. Flattened(segs) = FramesIn(out)
    BY <1>1, <1>2, <1>3, <1>4, <1>8
  <2>2. ResultFits(FramesIn(out), c)
    BY <1>3, <1>9, <2>1, Budgets DEF ResultFits, Right, Shaped, WithinBudget
  <2>3. \A i \in DOMAIN out : out[i].type \notin {"completed", "error"}
    BY <1>8 DEF Open
  <2> QED
    BY <1>9, <2>2, <2>3 DEF EventFits
<1>11. stream' = Append(out, c)
  BY <1>6, <1>8, <1>9, AppendIsConcat
<1>12. /\ stream' \in Seq(Events) /\ stream' # <<>> /\ Last(stream') = c
       /\ FramesIn(stream') = FramesIn(out) \cup {} /\ (Accepts(out) => Accepts(stream'))
  BY <1>8, <1>9, <1>10, <1>11, AcceptedNext
<1>13. StreamTypes'
  BY <1>3, <1>6, <1>12 DEF StreamInv, StreamTypes
<1>14. Frames' = Sent(seg, authors, 1)
  BY <1>8, <1>12 DEF Frames
<1>15. Grounded(Frames', segments')
  <2>1. Grounded(Sent(seg, authors, 1), segs)
    BY <1>1, GroundedOwn
  <2> QED
    BY <1>6, <1>14, <2>1
<1>16. ShownAnswersStand'
  BY <1>9, <1>12 DEF ShownAnswersStand, ShownTurnsComplete
<1> QED
  BY <1>6, <1>8, <1>12, <1>13, <1>15, <1>16 DEF StreamInv

LEMMA SetupKeepsStream ==
  ASSUME StreamInv, SetupRequired, UNCHANGED <<expired, enabled, toggled>>
  PROVE  StreamInv'
<1>1. at # "done" /\ attempt.sent = 0
  <2>1. at = "stream" /\ attempt.held = <<>>
    BY DEF SetupRequired
  <2>2. attempt.sent \in Nat /\ attempt.sent <= Len(attempt.held)
    BY <2>1 DEF StreamInv, StreamTypes, Attempts, Attempted
  <2> QED
    BY <2>1, <2>2
<1>2. CASE segments = <<>>
  BY <1>1, <1>2, AsksToSignIn DEF SetupRequired
<1>3. CASE segments # <<>> /\ Frames # {}
  BY <1>1, <1>3, Fails DEF SetupRequired
<1>4. CASE segments # <<>> /\ Frames = {}
  <2>1. IF expired THEN Raise ELSE SayInstead(0)
    BY <1>4 DEF SetupRequired
  <2> QED
    BY <1>1, <1>4, <2>1, Raised, SaysInstead
<1> QED
  BY <1>2, <1>3, <1>4

\* What is known of the stream that is being read.
LEMMA Known ==
  ASSUME StreamInv, at # "done"
  PROVE  /\ segments \in Seq(Segments) /\ Ongoing(segments) /\ Index \in Nat
         /\ repairs \in Nat /\ repairs <= MaxRepairs
         /\ stream \in Seq(Events) /\ Open(stream) /\ (~toggled => Accepts(stream))
         /\ Grounded(Frames, segments) /\ plan \in {"none", "plain", "reacts"}
         /\ attempt \in Attempts /\ attempt.sent \in Nat /\ attempt.held \in Seq(Authors)
         /\ Len(attempt.held) \in Nat /\ attempt.sent <= Len(attempt.held)
         /\ Len(attempt.held) <= attempt.limit /\ attempt.limit \in Nat
         /\ \A k \in 1 .. Len(attempt.held) : attempt.held[k] = "model"
         /\ Frames = With(Flattened(segments), Index, attempt.held, attempt.sent)
<1>1. segments \in Seq(Segments) /\ Index \in Nat /\ attempt \in Attempts
  BY DEF StreamInv, StreamTypes, Index
<1>2. /\ attempt.held \in Seq(Authors) /\ Len(attempt.held) \in Nat /\ attempt.sent \in Nat
      /\ \A k \in 1 .. Len(attempt.held) : attempt.held[k] = "model"
  BY HeldIsWritten DEF StreamInv
<1>3. attempt.limit \in Nat
  BY <1>1 DEF Attempts
<1>4. Frames = With(Flattened(segments), Index, attempt.held, attempt.sent)
  BY DEF StreamInv, Shown, With
<1> QED
  BY <1>1, <1>2, <1>3, <1>4 DEF StreamInv, StreamTypes, Attempted, Shown

LEMMA PlanKeepsStream ==
  ASSUME StreamInv, ReadPlan, UNCHANGED <<expired, enabled, toggled>>
  PROVE  StreamInv'
<1>1. /\ at = "stream" /\ plan = "none" /\ plan' \in {"plain", "reacts"}
      /\ UNCHANGED <<at, attempt, segments, repairs, pending, acted, stream>>
  BY DEF ReadPlan
<1>2. segments = <<>> /\ attempt.held = <<>> /\ attempt.sent = 0
  <2>1. segments = <<>> /\ attempt.held = <<>> /\ Len(<<>>) = 0
    BY <1>1 DEF StreamInv, Attempted
  <2> QED
    BY <1>1, <2>1, Known
<1>3. Frames = {}
  BY <1>1, <1>2, NoneSent, NothingFlattened
<1>4. StreamTypes' /\ repairs' <= MaxRepairs
  BY <1>1 DEF StreamInv, StreamTypes
<1>5. Attempted'
  BY <1>1 DEF StreamInv, Attempted, Index
<1> QED
  BY <1>1, <1>3, <1>4, <1>5, GoesOnQuietly

LEMMA CallKeepsStream ==
  ASSUME StreamInv, ReadCall, UNCHANGED <<expired, enabled, toggled>>
  PROVE  StreamInv'
<1>0. PICK kind \in Tools : attempt' = [attempt EXCEPT !.calls = Append(@, kind)]
  BY DEF ReadCall
<1>1. PICK calls : calls = Append(attempt.calls, kind)
  OBVIOUS
<1>2. at = "stream" /\ UNCHANGED <<at, plan, segments, repairs, pending, acted, stream>>
  BY DEF ReadCall
<1>3. attempt \in Attempts /\ attempt' = [attempt EXCEPT !.calls = calls] /\ calls \in Seq(Tools)
  <2>1. attempt \in Attempts
    BY <1>2, Known
  <2>2. attempt.calls \in Seq(Tools)
    BY <2>1 DEF Attempts
  <2> QED
    BY <1>0, <1>1, <2>1, <2>2
<1>4. /\ attempt' \in Attempts /\ attempt'.held = attempt.held /\ attempt'.sent = attempt.sent
      /\ attempt'.offered = attempt.offered /\ attempt'.limit = attempt.limit
  BY <1>3 DEF Attempts
<1>5. StreamTypes' /\ repairs' <= MaxRepairs
  BY <1>2, <1>4 DEF StreamInv, StreamTypes
<1>6. Attempted'
  BY <1>2, <1>4 DEF StreamInv, Attempted, Index
<1> QED
  BY <1>2, <1>4, <1>5, <1>6, GoesOnQuietly

LEMMA EndKeepsStream ==
  ASSUME StreamInv, StreamEnds, UNCHANGED <<expired, enabled, toggled>>
  PROVE  StreamInv'
<1>1. PICK end \in {"stop", "tool_calls", "fault"} : attempt' = [attempt EXCEPT !.end = end]
  BY DEF StreamEnds
<1>2. /\ at = "stream" /\ at' = "judge"
      /\ UNCHANGED <<plan, segments, repairs, pending, acted, stream>>
  BY DEF StreamEnds
<1>3. attempt \in Attempts
  BY <1>2, Known
<1>4. /\ attempt' \in Attempts /\ attempt'.held = attempt.held /\ attempt'.sent = attempt.sent
      /\ attempt'.offered = attempt.offered /\ attempt'.limit = attempt.limit
  BY <1>1, <1>3 DEF Attempts
<1>5. StreamTypes' /\ repairs' <= MaxRepairs
  BY <1>2, <1>4 DEF StreamInv, StreamTypes
<1>6. Attempted'
  BY <1>2, <1>4 DEF StreamInv, Attempted, Index
<1> QED
  BY <1>2, <1>4, <1>5, <1>6, GoesOnQuietly

\* The frames that are out do not depend on those that follow.
LEMMA SentBefore ==
  ASSUME NEW seg, NEW n \in Nat, NEW some, NEW others, \A k \in 1 .. n : some[k] = others[k]
  PROVE  Sent(seg, some, n) = Sent(seg, others, n)
BY DEF Sent

\* While no peer's answer is awaited, a frame of the segment that is being told
\* stands before no call to a peer.
LEMMA ToldIsGrounded ==
  ASSUME StreamInv, at # "done", ~pending, NEW authors, NEW n \in Nat
  PROVE  Grounded(With(Flattened(segments), Index, authors, n), segments)
<1>1. segments \in Seq(Segments)
  BY Known
<1>2. \A j \in DOMAIN segments : ~Called(segments[j].calls, {"ask", "resume"})
  BY DEF StreamInv, Shown
<1>3. Grounded(Sent(Index, authors, n), segments)
  BY <1>1, <1>2, GroundedNow DEF Index
<1>4. Grounded(Flattened(segments), segments)
  BY DEF StreamInv, Shown, Grounded
<1> QED
  BY <1>3, <1>4, GroundedUnion DEF With

LEMMA FrameKeepsStream ==
  ASSUME StreamInv, ReadFrame, UNCHANGED <<expired, enabled, toggled>>
  PROVE  StreamInv'
<1>1. PICK held : held = Append(attempt.held, "model")
  OBVIOUS
<1>2. PICK sent : sent = IF attempt.offered = {} THEN Len(held) ELSE 0
  OBVIOUS
<1>3. /\ at = "stream" /\ ~pending /\ Len(attempt.held) < attempt.limit /\ plan' = SomePlan
      /\ attempt' = [attempt EXCEPT !.held = held, !.sent = sent]
      /\ stream' = IF sent = 0 THEN stream ELSE WithFrames(Index, held, attempt.sent)
      /\ UNCHANGED <<at, segments, repairs, pending, acted>>
  BY <1>1, <1>2 DEF ReadFrame
<1>4. /\ held \in Seq(Authors) /\ held \in Seq({"model"}) /\ Len(held) = Len(attempt.held) + 1
      /\ \A k \in 1 .. Len(attempt.held) : held[k] = attempt.held[k]
      /\ \A k \in 1 .. Len(held) : held[k] = "model"
  <2>1. attempt.held \in Seq(Authors) /\ attempt.held \in Seq({"model"})
    BY <1>3, Known DEF Attempts
  <2> QED
    BY <1>1, <2>1 DEF Authors
<1>5. /\ attempt.sent \in Nat /\ Len(attempt.held) \in Nat /\ attempt.sent <= Len(attempt.held)
      /\ Index \in Nat /\ segments \in Seq(Segments) /\ Ongoing(segments)
      /\ attempt \in Attempts /\ attempt.limit \in Nat /\ plan \in {"none", "plain", "reacts"}
  BY <1>3, Known
<1>6. sent \in Nat /\ sent <= Len(held) /\ Len(held) <= attempt.limit /\ Len(held) \in Nat
  BY <1>2, <1>3, <1>4, <1>5
<1>7. /\ attempt' \in Attempts /\ attempt'.held = held /\ attempt'.sent = sent
      /\ attempt'.offered = attempt.offered /\ attempt'.limit = attempt.limit
  BY <1>3, <1>4, <1>5, <1>6 DEF Attempts
<1>8. plan' \in {"plain", "reacts"} /\ (plan' = "reacts" => plan = "reacts")
  BY <1>3, <1>5 DEF SomePlan
<1>9. Attempted'
  BY <1>2, <1>3, <1>6, <1>7, <1>8 DEF StreamInv, Attempted, Index
<1>10. CASE attempt.offered # {}
  <2>1. sent = 0 /\ attempt.sent = 0 /\ stream' = stream
    BY <1>2, <1>3, <1>10 DEF StreamInv, Attempted
  <2>2. StreamTypes' /\ repairs' <= MaxRepairs
    BY <1>3, <1>7, <1>8, <2>1 DEF StreamInv, StreamTypes
  <2>3. Sent(Index, held, 0) = Sent(Index, attempt.held, 0)
    BY DEF Sent
  <2> QED
    BY <1>3, <1>7, <1>8, <1>9, <2>1, <2>2, <2>3, GoesOnQuietly
<1>11. CASE attempt.offered = {}
  <2>1. sent = Len(held) /\ stream' = WithFrames(Index, held, attempt.sent)
    BY <1>2, <1>3, <1>4, <1>5, <1>11
  <2>2. Frames = With(Flattened(segments), Index, held, attempt.sent)
    <3>1. \A k \in 1 .. attempt.sent : held[k] = attempt.held[k]
      BY <1>4, <1>5
    <3>2. Sent(Index, held, attempt.sent) = Sent(Index, attempt.held, attempt.sent)
      BY <1>5, <3>1, SentBefore
    <3> QED
      BY <1>3, <3>2, Known DEF With
  <2>3. Room(Flattened(segments), Index, Len(held))
    <3>1. /\ attempt.limit \in 1 .. MaxFrames
          /\ attempt.limit + Cardinality(Flattened(segments)) <= TurnFrames
      BY <1>3 DEF StreamInv, Attempted
    <3>2. Cardinality(Flattened(segments)) \in Nat
      BY <1>5, OngoingNumbers
    <3>3. Len(held) <= MaxFrames /\ Cardinality(Flattened(segments)) + Len(held) <= TurnFrames
      BY <1>5, <1>6, <3>1, <3>2, Budgets
    <3> QED
      BY <1>5, <1>6, <3>3, OngoingHasRoom DEF Index
  <2>4. /\ stream' \in Seq(Events) /\ Open(stream') /\ (~toggled => Accepts(stream'))
        /\ FramesIn(stream') = With(Flattened(segments), Index, held, Len(held))
        /\ ~toggled /\ enabled /\ plan' = "reacts" /\ FramesIn(stream') # {} => Reacted(stream')
    <3>1. attempt.sent \in 0 .. Len(held) /\ at # "done"
      BY <1>3, <1>4, <1>5
    <3>2. plan' \in {"none", "plain", "reacts"} /\ (plan' = "reacts" => plan = "reacts")
      BY <1>8
    <3> QED
      BY <1>4, <1>5, <2>1, <2>2, <2>3, <3>1, <3>2, SegmentGoesOut
  <2>5. StreamTypes' /\ repairs' <= MaxRepairs
    BY <1>3, <1>7, <1>8, <2>4 DEF StreamInv, StreamTypes
  <2>6. Grounded(Frames', segments)
    BY <1>3, <1>6, <2>4, ToldIsGrounded DEF Frames
  <2>7. Frames' = Flattened(segments) \cup Sent(Index, attempt'.held, attempt'.sent)
    BY <1>7, <2>1, <2>4 DEF Frames, With
  <2>8. ~toggled /\ enabled /\ plan' = "reacts" /\ Frames' # {} => Reacted(stream')
    BY <2>4 DEF Frames
  <2> QED
    BY <1>3, <1>9, <2>4, <2>5, <2>6, <2>7, <2>8, GoesOn
<1> QED
  BY <1>10, <1>11

LEMMA JudgeKeepsStream ==
  ASSUME StreamInv, Judge, UNCHANGED <<expired, enabled, toggled>>
  PROVE  StreamInv'
<1>1. /\ at = "judge" /\ at # "done"
      /\ UNCHANGED <<attempt, segments, repairs, pending, acted>>
  BY DEF Judge
<1>2. plan \in {"none", "plain", "reacts"} /\ attempt \in Attempts
  BY <1>1, Known
<1>3. CASE attempt.end = "tool_calls" /\ BatchFits
  <2>1. /\ at' = "window" /\ plan' = SomePlan
        /\ stream' = IF Index = 0 THEN WithReaction(stream) ELSE stream
    BY <1>3 DEF Judge
  <2>2. plan' \in {"plain", "reacts"} /\ (plan' = "reacts" => plan = "reacts")
    BY <1>2, <2>1 DEF SomePlan
  <2>3. BatchFits'
    BY <1>1, <1>3 DEF BatchFits
  <2>4. Attempted'
    BY <1>1, <2>1, <2>2, <2>3 DEF StreamInv, Attempted, Index
  <2>5. /\ stream' \in Seq(Events) /\ Open(stream') /\ Frames' = Frames
        /\ (~toggled => Accepts(stream'))
        /\ ~toggled /\ enabled /\ plan' = "reacts" /\ Frames # {} => Reacted(stream')
    <3>1. CASE Index = 0
      <4>1. stream' = WithReaction(stream)
        BY <2>1, <3>1
      <4>2. plan' \in {"none", "plain", "reacts"} /\ (plan' = "reacts" => plan = "reacts")
        BY <2>2
      <4>3. /\ stream' \in Seq(Events) /\ Open(stream') /\ FramesIn(stream') = Frames
            /\ ~toggled => Accepts(stream')
            /\ enabled /\ plan' = "reacts" => Reacted(stream')
        BY <1>1, <4>1, <4>2, ReactionGoesOut
      <4> QED
        BY <4>3 DEF Frames
    <3>2. CASE Index # 0
      <4>1. stream' = stream
        BY <2>1, <3>2
      <4> QED
        BY <1>1, <2>2, <4>1 DEF StreamInv, StreamTypes, Shown, Frames
    <3> QED
      BY <3>1, <3>2
  <2>6. StreamTypes' /\ repairs' <= MaxRepairs
    BY <1>1, <2>1, <2>2, <2>5 DEF StreamInv, StreamTypes
  <2>7. /\ Grounded(Frames', segments)
        /\ Frames' = Flattened(segments) \cup Sent(Index, attempt'.held, attempt'.sent)
    BY <1>1, <2>5 DEF StreamInv, Shown
  <2> QED
    BY <1>1, <2>1, <2>4, <2>5, <2>6, <2>7, GoesOn
<1>4. CASE ~(attempt.end = "tool_calls" /\ BatchFits)
  <2>1. /\ UNCHANGED <<plan, stream>>
        /\ \/ at' = "answer" /\ AnswerFits /\ ~pending
           \/ at' = "failed"
    BY <1>4 DEF Judge
  <2>2. AnswerFits => AnswerFits'
    BY <1>1, <2>1 DEF AnswerFits
  <2>3. Attempted'
    BY <1>1, <2>1, <2>2 DEF StreamInv, Attempted, Index
  <2>4. StreamTypes' /\ repairs' <= MaxRepairs
    BY <1>1, <2>1 DEF StreamInv, StreamTypes
  <2> QED
    BY <1>1, <2>1, <2>3, <2>4, GoesOnQuietly
<1> QED
  BY <1>3, <1>4

-----------------------------------------------------------------------------
(* Answers and tools *)

\* The rest of the model's own words goes out, and they are the last segment.
LEMMA WordsEnd ==
  ASSUME StreamInv, at # "done", UNCHANGED <<plan, expired, enabled, toggled>>, ~pending,
         at # "segment", NEW authors, authors = attempt.held, authors # <<>>,
         NEW finish, NEW status,
         <<finish, status>> \in {<<"complete", "completed">>, <<"partial", "partial">>},
         Finish(WithFrames(Index, authors, attempt.sent),
                <<Segment(finish, authors, <<>>)>>, status)
  PROVE  StreamInv'
<1>1. /\ authors \in Seq(Authors) /\ Len(authors) \in Nat /\ attempt.sent \in 0 .. Len(authors)
      /\ Index \in Nat /\ segments \in Seq(Segments) /\ Ongoing(segments)
      /\ plan' \in {"none", "plain", "reacts"}
      /\ Frames = With(Flattened(segments), Index, authors, attempt.sent)
  BY Known
<1>2. Len(authors) <= MaxFrames /\ Room(Flattened(segments), Index, Len(authors))
  <2>1. /\ attempt.limit \in 1 .. MaxFrames /\ Len(authors) <= attempt.limit
        /\ attempt.limit + Cardinality(Flattened(segments)) <= TurnFrames
    BY DEF StreamInv, Attempted
  <2>2. Cardinality(Flattened(segments)) \in Nat
    BY <1>1, OngoingNumbers
  <2>3. Len(authors) <= MaxFrames /\ Cardinality(Flattened(segments)) + Len(authors) <= TurnFrames
    BY <1>1, <2>1, <2>2, Budgets
  <2> QED
    BY <1>1, <2>3, OngoingHasRoom DEF Index
<1>3. PICK s : s = Segment(finish, authors, <<>>)
  OBVIOUS
<1>4. PICK segs : segs = segments \o <<s>>
  OBVIOUS
<1>5. PICK out : out = WithFrames(Index, authors, attempt.sent)
  OBVIOUS
<1>6. finish \in {"complete", "partial"} /\ status \in {"completed", "partial"}
      /\ (status = "completed" <=> finish = "complete")
  OBVIOUS
<1>7. s \in Segments /\ s.calls = <<>> /\ s.frames = authors /\ s.finish = finish
  BY <1>1, <1>3, <1>6 DEF Segment, Segments
<1>8. /\ out \in Seq(Events) /\ Open(out) /\ (~toggled => Accepts(out))
      /\ FramesIn(out) = With(Flattened(segments), Index, authors, Len(authors))
  BY <1>1, <1>2, <1>5, SegmentGoesOut
<1>9. /\ segs \in Seq(Segments)
      /\ status = "completed" \/ Flattened(segs) # {} => Shaped(segs) /\ Right(segs, status)
      /\ Flattened(segs) = Flattened(segments) \cup Sent(Index, s.frames, Len(s.frames))
  BY <1>2, <1>4, <1>6, <1>7, LastSegment
<1>10. Flattened(segs) = FramesIn(out)
  BY <1>7, <1>8, <1>9 DEF With
<1>11. Flattened(segs) # {}
  <2>1. 1 \in 1 .. Len(authors)
    BY <1>1, NotEmpty
  <2>2. Frame(Index, 1 - 1, authors[1]) \in Sent(Index, authors, Len(authors))
    BY <2>1 DEF Sent
  <2> QED
    BY <1>7, <1>9, <2>2
<1>12. Grounded(FramesIn(out), segs)
  <2>1. Grounded(FramesIn(out), segments)
    BY <1>1, <1>8, ToldIsGrounded
  <2>2. segs = Append(segments, s)
    BY <1>1, <1>4, <1>7, AppendIsConcat
  <2>3. \A f \in FramesIn(out) : f.seg \in Nat
    BY <1>9, <1>10, FlattenedSegments
  <2> QED
    BY <1>1, <1>7, <2>1, <2>2, <2>3, GroundedMore
<1>13. Finish(out, <<s>>, status)
  BY <1>3, <1>5
<1> QED
  BY <1>1, <1>4, <1>6, <1>8, <1>9, <1>10, <1>11, <1>12, <1>13, Finished

LEMMA AnswerKeepsStream ==
  ASSUME StreamInv, Answer, UNCHANGED <<expired, enabled, toggled>>
  PROVE  StreamInv'
<1>1. at = "answer" /\ plan' = plan /\ ~pending /\ attempt.held # <<>>
  BY DEF Answer, StreamInv, Attempted, AnswerFits
<1>2. CASE expired
  BY <1>1, <1>2, WordsEnd DEF Answer
<1>3. CASE ~expired
  BY <1>1, <1>3, WordsEnd DEF Answer
<1> QED
  BY <1>2, <1>3

\* A batch that is about to run: it was offered, so nothing of its segment is out.
LEMMA AboutToRun ==
  ASSUME StreamInv, at \in {"window", "tools"}
  PROVE  /\ attempt.offered # {} /\ attempt.calls # <<>> /\ attempt.calls \in Seq(Tools)
         /\ Index + 1 < MaxSegments /\ Visible(segments) + 1 < MaxVisible
         /\ Rounds(segments) < MaxRounds /\ Calls(segments) + Len(attempt.calls) <= MaxCalls
         /\ Len(attempt.held) <= 1 /\ plan # "none"
         /\ at = "window" => attempt.sent = 0
<1>1. at # "done" /\ BatchFits /\ plan # "none"
  BY DEF StreamInv, Attempted
<1>2. attempt.calls \in Seq(Tools) /\ segments \in Seq(Segments) /\ Ongoing(segments)
  BY <1>1, Known DEF Attempts
<1>3. attempt.offered # {} /\ attempt.calls # <<>>
  <2>1. attempt.calls # <<>> /\ Range(attempt.calls) \subseteq attempt.offered
    BY <1>1 DEF BatchFits
  <2>2. 1 \in DOMAIN attempt.calls
    BY <1>2, <2>1, NotEmpty
  <2>3. attempt.calls[1] \in Range(attempt.calls)
    BY <2>2 DEF Range
  <2> QED
    BY <2>1, <2>3
<1>4. Calls(segments) + Len(attempt.calls) <= MaxCalls
  <2>1. Calls(segments) \in Nat /\ Len(attempt.calls) \in Nat /\ MaxCalls \in Nat
    BY <1>2, OngoingNumbers, Budgets
  <2>2. Len(attempt.calls) <= MaxCalls - Calls(segments)
    BY <1>1 DEF BatchFits
  <2> QED
    BY <2>1, <2>2
<1> QED
  BY <1>1, <1>2, <1>3, <1>4 DEF StreamInv, Attempted, BatchFits

LEMMA StandingIsHeld ==
  ASSUME StreamInv, at # "done"
  PROVE  /\ Standing \in Seq(Authors) /\ Standing \in Seq({"model"}) /\ Len(Standing) \in Nat
         /\ Len(Standing) <= Len(attempt.held)
         /\ Standing = <<>> \/ Standing = attempt.held
         /\ \A k \in 1 .. Len(Standing) : Standing[k] = "model"
         /\ Called(attempt.calls, Acting \cup Peers) => Standing = <<>>
<1>1. /\ attempt.held \in Seq(Authors) /\ attempt.held \in Seq({"model"})
      /\ \A k \in 1 .. Len(attempt.held) : attempt.held[k] = "model"
  BY Known DEF Attempts
<1>2. Len(<<>>) = 0 /\ <<>> \in Seq(Authors) /\ <<>> \in Seq({"model"})
  OBVIOUS
<1> QED
  BY <1>1, <1>2 DEF Standing

LEMMA RunKeepsStream ==
  ASSUME StreamInv, RunTools, UNCHANGED <<expired, enabled, toggled>>
  PROVE  StreamInv'
<1>1. at = "window" /\ at # "done" /\ UNCHANGED <<segments, repairs, pending>>
  BY DEF RunTools
<1>2. /\ segments \in Seq(Segments) /\ Ongoing(segments) /\ Index \in Nat /\ attempt \in Attempts
      /\ attempt.sent = 0 /\ plan \in {"none", "plain", "reacts"} /\ plan # "none"
  BY <1>1, Known, AboutToRun
<1>3. CASE expired
  <2>1. at' = "failed" /\ UNCHANGED <<attempt, plan, acted, stream>>
    BY <1>3 DEF RunTools
  <2>2. Attempted'
    BY <1>1, <1>2, <2>1 DEF StreamInv, Attempted, Index
  <2>3. StreamTypes' /\ repairs' <= MaxRepairs
    BY <1>1, <2>1 DEF StreamInv, StreamTypes
  <2> QED
    BY <1>1, <2>1, <2>2, <2>3, GoesOnQuietly
<1>4. CASE ~expired
  <2>1. PICK held : held = Standing
    OBVIOUS
  <2>2. /\ at' = "tools" /\ plan' = plan /\ acted' = (acted \/ Called(attempt.calls, Acting))
        /\ attempt' = [attempt EXCEPT !.held = held, !.sent = Len(held)]
        /\ stream' = WithFrames(Index, held, 0)
    BY <1>4, <2>1 DEF RunTools
  <2>3. /\ held \in Seq(Authors) /\ held \in Seq({"model"}) /\ Len(held) \in Nat
        /\ Len(held) <= Len(attempt.held) /\ (held = <<>> \/ held = attempt.held)
        /\ Called(attempt.calls, Acting \cup Peers) => held = <<>>
    BY <1>1, <2>1, StandingIsHeld
  <2>4. /\ attempt' \in Attempts /\ attempt'.held = held /\ attempt'.sent = Len(held)
        /\ attempt'.offered = attempt.offered /\ attempt'.limit = attempt.limit
        /\ attempt'.calls = attempt.calls
    BY <1>2, <2>2, <2>3 DEF Attempts
  <2>5. Len(held) <= attempt.limit /\ Len(held) <= 1 /\ (pending => held = <<>>)
    <3>1. Len(attempt.held) \in Nat /\ attempt.limit \in Nat /\ Len(attempt.held) <= attempt.limit
      BY <1>1, Known
    <3>2. Len(attempt.held) <= 1
      BY <1>1, AboutToRun
    <3>3. pending => attempt.held = <<>>
      BY <1>1 DEF StreamInv, Attempted
    <3> QED
      BY <2>3, <3>1, <3>2, <3>3
  <2>6. BatchFits'
    BY <1>1, <2>4, <2>5 DEF StreamInv, Attempted, BatchFits
  <2>7. attempt'.held = Standing'
    BY <2>3, <2>4 DEF Standing
  <2>8. Attempted'
    BY <1>1, <1>2, <2>2, <2>4, <2>5, <2>6, <2>7, Known DEF StreamInv, Attempted, Index
  <2>9. Room(Flattened(segments), Index, Len(held))
    <3>1. /\ attempt.limit \in 1 .. MaxFrames
          /\ attempt.limit + Cardinality(Flattened(segments)) <= TurnFrames
      BY <1>1 DEF StreamInv, Attempted
    <3>2. Cardinality(Flattened(segments)) \in Nat
      BY <1>2, OngoingNumbers
    <3>3. Len(held) <= MaxFrames /\ Cardinality(Flattened(segments)) + Len(held) <= TurnFrames
      BY <2>3, <2>5, <3>1, <3>2, Budgets
    <3> QED
      BY <1>2, <2>3, <3>3, OngoingHasRoom DEF Index
  <2>10. Frames = With(Flattened(segments), Index, held, 0)
    <3>1. Frames = Flattened(segments)
      BY <1>1, <1>2, NoneSent
    <3> QED
      BY <3>1 DEF With, Sent
  <2>11. /\ stream' \in Seq(Events) /\ Open(stream') /\ (~toggled => Accepts(stream'))
         /\ FramesIn(stream') = With(Flattened(segments), Index, held, Len(held))
         /\ ~toggled /\ enabled /\ plan' = "reacts" /\ FramesIn(stream') # {} => Reacted(stream')
    <3>1. /\ 0 \in 0 .. Len(held) /\ plan' \in {"none", "plain", "reacts"}
          /\ (plan' = "reacts" => plan = "reacts")
      BY <1>2, <2>2, <2>3
    <3>2. /\ at # "done" /\ Index \in Nat /\ held \in Seq(Authors)
          /\ stream' = WithFrames(Index, held, 0)
      BY <1>1, <1>2, <2>2, <2>3
    <3> QED
      BY <2>9, <2>10, <3>1, <3>2, SegmentGoesOut
  <2>12. StreamTypes' /\ repairs' <= MaxRepairs
    <3>1. acted' \in BOOLEAN
      BY <2>2
    <3> QED
      BY <1>1, <1>2, <2>2, <2>4, <2>11, <3>1 DEF StreamInv, StreamTypes
  <2>13. Grounded(Frames', segments)
    <3>1. CASE pending
      <4>1. held = <<>> /\ Len(<<>>) = 0
        BY <2>5, <3>1
      <4>2. Frames' = Frames
        BY <2>10, <2>11, <4>1 DEF Frames
      <4> QED
        BY <4>2 DEF StreamInv
    <3>2. CASE ~pending
      BY <1>1, <2>3, <2>11, <3>2, ToldIsGrounded DEF Frames
    <3> QED
      BY <3>1, <3>2
  <2>14. Frames' = Flattened(segments) \cup Sent(Index, attempt'.held, attempt'.sent)
    BY <2>4, <2>11 DEF Frames, With
  <2>15. ~toggled /\ enabled /\ plan' = "reacts" /\ Frames' # {} => Reacted(stream')
    BY <2>11 DEF Frames
  <2> QED
    BY <1>1, <2>2, <2>8, <2>11, <2>12, <2>13, <2>14, <2>15, GoesOn
<1> QED
  BY <1>3, <1>4

LEMMA ToolsFailKeepsStream ==
  ASSUME StreamInv, ToolsFail, UNCHANGED <<expired, enabled, toggled>>
  PROVE  StreamInv'
<1>1. /\ at = "tools" /\ at' = "failed"
      /\ UNCHANGED <<attempt, plan, segments, repairs, pending, acted, stream>>
  BY DEF ToolsFail
<1>2. Standing' = Standing
  BY <1>1 DEF Standing
<1>3. Attempted'
  BY <1>1, <1>2 DEF StreamInv, Attempted, Index
<1>4. StreamTypes' /\ repairs' <= MaxRepairs
  BY <1>1 DEF StreamInv, StreamTypes
<1> QED
  BY <1>1, <1>3, <1>4, GoesOnQuietly

\* A batch has run: it is a segment like those before it, with what it had to say.
LEMMA BatchHasRun ==
  ASSUME StreamInv, at = "tools", NEW more, more = Append(segments, Batch)
  PROVE  /\ more \in Seq(Segments) /\ Ongoing(more) /\ Len(more) = Index + 1
         /\ Flattened(more) = Frames /\ Grounded(Frames, more)
         /\ ~pending /\ ~Called(attempt.calls, {"ask", "resume"}) =>
              \A j \in DOMAIN more : ~Called(more[j].calls, {"ask", "resume"})
<1>1. /\ segments \in Seq(Segments) /\ Ongoing(segments) /\ Index \in Nat
      /\ Frames = With(Flattened(segments), Index, attempt.held, attempt.sent)
      /\ attempt.held \in Seq(Authors) /\ Grounded(Frames, segments)
  BY Known
<1>2. /\ attempt.calls # <<>> /\ attempt.calls \in Seq(Tools) /\ Len(attempt.held) <= 1
      /\ Len(segments) + 1 < MaxSegments /\ Visible(segments) + 1 < MaxVisible
      /\ Rounds(segments) < MaxRounds /\ Calls(segments) + Len(attempt.calls) <= MaxCalls
  BY AboutToRun DEF Index
<1>3. attempt.sent = Len(attempt.held) /\ attempt.held = Standing
  BY DEF StreamInv, Attempted
<1>4. Called(attempt.calls, Acting \cup Peers) => attempt.held = <<>>
  BY <1>3, StandingIsHeld
<1>5. PICK s : s = Batch
  OBVIOUS
<1>6. /\ s \in Segments /\ s.calls = attempt.calls /\ s.frames = attempt.held
      /\ s.finish = "tool_batch" /\ IsBatch(s)
  BY <1>1, <1>2, <1>4, <1>5 DEF Batch, Segment, Segments, IsBatch
<1>7. more = Append(segments, s)
  BY <1>5
<1>8. Ongoing(more)
  BY <1>1, <1>2, <1>6, <1>7, OneMoreBatch
<1>9. /\ more \in Seq(Segments) /\ Len(more) = Len(segments) + 1
      /\ DOMAIN more = DOMAIN segments \cup {Len(more)} /\ more[Len(more)] = s
      /\ \A i \in DOMAIN segments : more[i] = segments[i]
  BY <1>1, <1>6, <1>7, AppendedSegment
<1>10. Flattened(more) = Frames
  <2>1. Flattened(more) = Flattened(segments) \cup Sent(Len(segments), s.frames, Len(s.frames))
    BY <1>1, <1>6, <1>7, AppendedFrames DEF Ongoing, Counted
  <2> QED
    BY <1>1, <1>3, <1>6, <2>1 DEF With, Index
<1>11. Grounded(Frames, more)
  <2>1. \A f \in Frames : f.seg \in Nat
    BY FramesHaveSegments
  <2>2. ASSUME NEW f \in Frames, Len(segments) <= f.seg, Called(s.calls, Acting \cup Peers)
        PROVE  FALSE
    <3>1. attempt.sent = 0
      BY <1>3, <1>4, <1>6, <2>2
    <3>2. f \in Flattened(segments)
      BY <3>1, NoneSent
    <3>3. f.seg \in Nat /\ f.seg < Index
      BY <3>2, FramesHaveSegments
    <3> QED
      BY <1>1, <2>2, <3>3 DEF Index
  <2> QED
    BY <1>1, <1>6, <1>7, <2>1, <2>2, GroundedMore
<1>12. ASSUME ~pending, ~Called(attempt.calls, {"ask", "resume"}), NEW j \in DOMAIN more
       PROVE  ~Called(more[j].calls, {"ask", "resume"})
  <2>1. \A i \in DOMAIN segments : ~Called(segments[i].calls, {"ask", "resume"})
    BY <1>12 DEF StreamInv, Shown
  <2> QED
    BY <1>6, <1>9, <1>12, <2>1
<1> QED
  BY <1>8, <1>9, <1>10, <1>11, <1>12 DEF Index

\* The turn goes on with the next segment, or it is over where time is up.
LEMMA NextSegment ==
  ASSUME StreamInv, at = "tools",
         UNCHANGED <<plan, repairs, acted, stream, expired, enabled, toggled>>,
         at' = "segment", attempt' = NoAttempt, segments' = Append(segments, Batch),
         pending' \in BOOLEAN,
         pending' \/ (~pending /\ ~Called(attempt.calls, {"ask", "resume"}))
  PROVE  StreamInv'
<1>1. PICK more : more = Append(segments, Batch)
  OBVIOUS
<1>2. /\ more \in Seq(Segments) /\ Ongoing(more) /\ Flattened(more) = Frames
      /\ Grounded(Frames, more)
      /\ pending' \/ \A j \in DOMAIN more : ~Called(more[j].calls, {"ask", "resume"})
  BY <1>1, BatchHasRun
<1>3. /\ NoAttempt \in Attempts /\ NoAttempt.held = <<>> /\ NoAttempt.sent = 0
      /\ NoAttempt.offered = {} /\ NoAttempt.limit = 0 /\ Len(<<>>) = 0
  BY DEF NoAttempt, Attempts
<1>4. segments' = more /\ Frames' = Frames
  BY <1>1 DEF Frames
<1>5. StreamTypes' /\ repairs' <= MaxRepairs
  BY <1>2, <1>3, <1>4 DEF StreamInv, StreamTypes
<1>6. plan # "none"
  BY AboutToRun
<1>7. Attempted'
  BY <1>3, <1>6 DEF Attempted
<1>8. Shown'
  <2>1. Sent(Index', attempt'.held, attempt'.sent) = {}
    BY <1>3 DEF Sent
  <2>2. Frames' = Flattened(segments') \cup Sent(Index', attempt'.held, attempt'.sent)
    BY <1>2, <1>4, <2>1
  <2> QED
    BY <1>2, <1>4, <2>2 DEF StreamInv, Shown
<1> QED
  BY <1>2, <1>4, <1>5, <1>7, <1>8 DEF StreamInv

LEMMA BatchEnds ==
  ASSUME StreamInv, at = "tools", UNCHANGED <<expired, enabled, toggled>>, GiveUp(<<Batch>>)
  PROVE  StreamInv'
<1>1. PICK more : more = Append(segments, Batch)
  OBVIOUS
<1>2. /\ more \in Seq(Segments) /\ Ongoing(more) /\ Flattened(more) = Frames
      /\ Grounded(Frames, more)
  BY <1>1, BatchHasRun
<1>3. segments \in Seq(Segments) /\ repairs <= MaxRepairs
  BY Known
<1>4. Batch \in Segments
  BY Known, AboutToRun DEF Batch, Segment, Segments
<1>5. more = segments \o <<Batch>>
  BY <1>1, <1>3, <1>4, AppendIsConcat
<1>6. Frames # {} => Shaped(more) /\ Right(more, "partial")
  BY <1>2, <1>3, EndingBatch
<1> QED
  BY <1>2, <1>5, <1>6, GivesUp

LEMMA ResultsKeepStream ==
  ASSUME StreamInv, Results, UNCHANGED <<expired, enabled, toggled>>
  PROVE  StreamInv'
<1>1. at = "tools" /\ ~Called(attempt.calls, {"ask", "resume"})
  BY DEF Results
<1>2. CASE expired
  BY <1>1, <1>2, BatchEnds DEF Results
<1>3. CASE ~expired
  <2>1. /\ at' = "segment" /\ attempt' = NoAttempt /\ segments' = Append(segments, Batch)
        /\ UNCHANGED <<plan, repairs, pending, acted, stream>>
    BY <1>3 DEF Results
  <2>2. pending' \in BOOLEAN
    BY <2>1 DEF StreamInv, StreamTypes
  <2> QED
    BY <1>1, <2>1, <2>2, NextSegment
<1> QED
  BY <1>2, <1>3

\* The runtime speaks for the peer: a segment of its own after the batch.
LEMMA PeerSpeaks ==
  ASSUME StreamInv, at = "tools",
         UNCHANGED <<plan, expired, enabled, toggled>>,
         Called(attempt.calls, {"ask", "resume"}), NEW answer \in Seq(Authors), answer # <<>>,
         Len(answer) <= attempt.limit, \A k \in 1 .. Len(answer) : answer[k] = "runtime",
         Finish(WithFrames(Index + 1, answer, attempt.sent),
                <<Batch, Segment("complete", answer, <<>>)>>, "completed")
  PROVE  StreamInv'
<1>0. PICK more : more = Append(segments, Batch)
  OBVIOUS
<1>1. PICK s : s = Segment("complete", answer, <<>>)
  OBVIOUS
<1>2. PICK segs : segs = Append(more, s)
  OBVIOUS
<1>3. PICK out : out = WithFrames(Index + 1, answer, 0)
  OBVIOUS
<1>4. PICK seg : seg = Index + 1
  OBVIOUS
<1>5. /\ more \in Seq(Segments) /\ Ongoing(more) /\ Flattened(more) = Frames
      /\ Grounded(Frames, more) /\ seg = Len(more) /\ seg \in Nat
  <2>1. /\ more \in Seq(Segments) /\ Ongoing(more) /\ Flattened(more) = Frames
        /\ Grounded(Frames, more) /\ Len(more) = Index + 1
    BY <1>0, BatchHasRun
  <2>2. Index \in Nat
    BY Known
  <2> QED
    BY <1>4, <2>1, <2>2
<1>6. /\ s \in Segments /\ s.calls = <<>> /\ s.frames = answer /\ s.finish = "complete"
  BY <1>1 DEF Segment, Segments
<1>7. attempt.sent = 0 /\ Frames = Flattened(segments)
  <2>1. Called(attempt.calls, Acting \cup Peers)
    BY DEF Called, Peers
  <2>2. attempt.held = Standing /\ attempt.sent = Len(attempt.held) /\ at # "done"
    BY DEF StreamInv, Attempted
  <2>3. attempt.held = <<>> /\ Len(<<>>) = 0
    BY <2>1, <2>2, StandingIsHeld
  <2> QED
    BY <2>2, <2>3, NoneSent
<1>8. Len(answer) \in Nat /\ Len(answer) <= MaxFrames /\ Room(Flattened(more), seg, Len(answer))
  <2>1. /\ attempt.limit \in 1 .. MaxFrames
        /\ attempt.limit + Cardinality(Flattened(segments)) <= TurnFrames
    BY DEF StreamInv, Attempted
  <2>2. Cardinality(Flattened(more)) \in Nat /\ Flattened(more) = Flattened(segments)
    BY <1>5, <1>7, OngoingNumbers
  <2>3. Len(answer) \in Nat
    OBVIOUS
  <2>4. Len(answer) <= MaxFrames /\ Cardinality(Flattened(more)) + Len(answer) <= TurnFrames
    BY <2>1, <2>2, <2>3, Budgets
  <2> QED
    BY <1>5, <2>3, <2>4, OngoingHasRoom
<1>9. /\ out \in Seq(Events) /\ Open(out) /\ (~toggled => Accepts(out))
      /\ FramesIn(out) = With(Flattened(more), seg, answer, Len(answer))
  <2>1. Frames = With(Flattened(more), seg, answer, 0)
    BY <1>5 DEF With, Sent
  <2>2. 0 \in 0 .. Len(answer) /\ out = WithFrames(seg, answer, 0)
    BY <1>3, <1>4, <1>8
  <2>3. /\ at # "done" /\ plan' \in {"none", "plain", "reacts"}
        /\ (plan' = "reacts" => plan = "reacts")
    BY Known
  <2> QED
    BY <1>5, <1>8, <2>1, <2>2, <2>3, SegmentGoesOut
<1>10. segs \in Seq(Segments) /\ Shaped(segs) /\ Right(segs, "completed")
  <2>1. PICK status \in {"completed", "partial"} : status = "completed"
    OBVIOUS
  <2>2. repairs <= MaxRepairs
    BY Known
  <2>3. s.finish \in {"complete", "partial", "failed"} /\ (s.finish = "failed" <=> s.frames = <<>>)
        /\ Len(s.frames) <= MaxFrames
    BY <1>6, <1>8
  <2> QED
    BY <1>2, <1>5, <1>6, <2>1, <2>2, <2>3, EndingSegment
<1>11. Flattened(segs) = FramesIn(out)
  <2>1. Flattened(segs) = Flattened(more) \cup Sent(Len(more), s.frames, Len(s.frames))
    BY <1>2, <1>5, <1>6, AppendedFrames DEF Ongoing, Counted
  <2> QED
    BY <1>5, <1>6, <1>9, <2>1 DEF With
<1>12. Grounded(FramesIn(out), segs)
  <2>1. Grounded(Sent(seg, answer, Len(answer)), more)
    BY <1>8, GroundedOwn
  <2>2. Grounded(FramesIn(out), more)
    BY <1>5, <1>9, <2>1, GroundedUnion DEF With
  <2>3. \A f \in FramesIn(out) : f.seg \in Nat
    BY <1>10, <1>11, FlattenedSegments
  <2> QED
    BY <1>2, <1>5, <1>6, <2>2, <2>3, GroundedMore
<1>13. segs = segments \o <<Batch, s>>
  <2>1. Batch \in Segments /\ segments \in Seq(Segments)
    BY Known, AboutToRun DEF Batch, Segment, Segments
  <2> QED
    BY <1>0, <1>2, <1>6, <2>1
<1>14. Finish(out, <<Batch, s>>, "completed")
  BY <1>1, <1>3, <1>7
<1>15. at # "done" /\ plan' \in {"none", "plain", "reacts"}
  BY Known
<1> QED
  BY <1>9, <1>10, <1>11, <1>12, <1>13, <1>14, <1>15, Finished

LEMMA PeerKeepsStream ==
  ASSUME StreamInv, PeerAnswers \/ PeerPending, UNCHANGED <<expired, enabled, toggled>>
  PROVE  StreamInv'
<1>1. at = "tools" /\ Called(attempt.calls, {"ask", "resume"}) /\ attempt.limit \in 1 .. MaxFrames
  BY DEF PeerAnswers, PeerPending, StreamInv, Attempted
<1>2. CASE PeerAnswers /\ expired
  BY <1>1, <1>2, BatchEnds DEF PeerAnswers
<1>3. CASE PeerAnswers /\ ~expired
  <2>1. PICK n \in 1 .. attempt.limit :
          /\ plan' = plan
          /\ Finish(WithFrames(Index + 1, [i \in 1 .. n |-> "runtime"], attempt.sent),
                    <<Batch, Segment("complete", [i \in 1 .. n |-> "runtime"], <<>>)>>, "completed")
    BY <1>3 DEF PeerAnswers
  <2>2. PICK answer : answer = [i \in 1 .. n |-> "runtime"]
    OBVIOUS
  <2>3. n \in Nat /\ n >= 1 /\ n <= attempt.limit
    BY <1>1, <2>1
  <2>4. /\ answer \in Seq(Authors) /\ Len(answer) = n
        /\ \A k \in 1 .. Len(answer) : answer[k] = "runtime"
    BY <2>2, <2>3 DEF Authors
  <2>5. answer # <<>>
    BY <2>3, <2>4
  <2>6. Finish(WithFrames(Index + 1, answer, attempt.sent),
               <<Batch, Segment("complete", answer, <<>>)>>, "completed")
    BY <2>1, <2>2
  <2> QED
    BY <1>1, <2>1, <2>3, <2>4, <2>5, <2>6, PeerSpeaks
<1>4. CASE PeerPending /\ expired
  <2>1. /\ plan' = plan
        /\ Finish(WithFrames(Index + 1, Own, attempt.sent),
                  <<Batch, Segment("complete", Own, <<>>)>>, "completed")
    BY <1>4 DEF PeerPending
  <2>2. Len(Own) <= attempt.limit /\ \A k \in 1 .. Len(Own) : Own[k] = "runtime"
    BY <1>1, OwnWords, Budgets
  <2> QED
    BY <1>1, <2>1, <2>2, OwnWords, PeerSpeaks
<1>5. CASE PeerPending /\ ~expired
  <2>1. /\ at' = "segment" /\ pending' = TRUE /\ attempt' = NoAttempt
        /\ segments' = Append(segments, Batch) /\ UNCHANGED <<plan, repairs, acted, stream>>
    BY <1>5 DEF PeerPending
  <2> QED
    BY <1>1, <2>1, NextSegment
<1> QED
  BY <1>2, <1>3, <1>4, <1>5

LEMMA FailureKeepsStream ==
  ASSUME StreamInv, Failure, UNCHANGED <<expired, enabled, toggled>>
  PROVE  StreamInv'
<1>1. /\ at = "failed" /\ at # "done" /\ at # "segment"
      /\ attempt.sent = 0 \/ attempt.offered = {} \/ attempt.held = Standing
  BY DEF Failure, StreamInv, Attempted
<1>2. attempt.sent \in Nat /\ attempt.sent <= Len(attempt.held) /\ Len(attempt.held) \in Nat
  BY <1>1, Known
<1>3. attempt.held = <<>> => attempt.sent = 0
  BY <1>2
<1>4. CASE pending \/ Called(attempt.calls, Peers)
  <2>1. SayInstead(attempt.sent)
    BY <1>4 DEF Failure
  <2>2. attempt.sent = 0 \/ CalledAfterwards
    <3>1. CASE pending
      <4>1. attempt.held = <<>>
        BY <1>1, <3>1 DEF StreamInv, Attempted
      <4> QED
        BY <1>3, <4>1
    <3>2. CASE Called(attempt.calls, Peers)
      <4>1. Called(attempt.calls, Acting \cup Peers)
        BY <3>2 DEF Called
      <4>2. Standing = <<>>
        BY <1>1, <4>1, StandingIsHeld
      <4> QED
        BY <1>1, <1>2, <1>3, <4>1, <4>2 DEF CalledAfterwards
    <3> QED
      BY <1>4, <3>1, <3>2
  <2>3. PICK sent : sent = attempt.sent
    OBVIOUS
  <2> QED
    BY <1>1, <2>1, <2>2, <2>3, SaysInstead
<1>5. CASE ~pending /\ ~Called(attempt.calls, Peers) /\ Standing # <<>>
  <2>1. /\ plan' = plan
        /\ Finish(WithFrames(Index, Standing, attempt.sent),
                  <<Segment("partial", Standing, <<>>)>>, "partial")
    BY <1>5 DEF Failure
  <2>2. Standing = attempt.held
    BY <1>1, <1>5, StandingIsHeld
  <2> QED
    BY <1>1, <1>5, <2>1, <2>2, WordsEnd
<1>6. CASE ~pending /\ ~Called(attempt.calls, Peers) /\ Standing = <<>>
  <2>1. attempt.sent = 0 \/ CalledAfterwards
    <3>1. CASE attempt.held = <<>>
      BY <1>3, <3>1
    <3>2. CASE attempt.held # <<>>
      <4>1. Called(attempt.calls, Acting \cup Peers)
        BY <1>6, <3>2 DEF Standing
      <4> QED
        BY <1>1, <1>2, <1>6, <3>2, <4>1 DEF CalledAfterwards
    <3> QED
      BY <3>1, <3>2
  <2>2. CASE Frames # {} \/ expired \/ segments # <<>> \/ repairs >= MaxRepairs
    <3>1. GiveUp(<<Segment("failed", <<>>, <<>>)>>)
      BY <1>6, <2>2 DEF Failure
    <3> QED
      BY <1>1, <2>1, <3>1, Fails
  <2>3. CASE ~(Frames # {} \/ expired \/ segments # <<>> \/ repairs >= MaxRepairs)
    <3>1. Retry
      BY <1>6, <2>3 DEF Failure
    <3>2. PICK offered : offered = IF acted THEN {} ELSE attempt.offered
      OBVIOUS
    <3>3. /\ repairs' = repairs + 1 /\ Attempt(offered)
          /\ UNCHANGED <<plan, segments, pending, acted, stream>>
      BY <3>1, <3>2 DEF Retry
    <3>4. repairs' \in Nat /\ repairs' <= MaxRepairs
      BY <1>1, <2>3, <3>3, Known, Budgets
    <3>5. attempt \in Attempts /\ attempt.offered \in SUBSET Tools
      BY <1>1, Known DEF Attempts
    <3>6. offered \in SUBSET Tools /\ (offered # {} => attempt.offered # {})
      BY <3>2, <3>5
    <3>7. offered # {} => /\ Index + 1 < MaxSegments /\ Visible(segments) + 1 < MaxVisible
                          /\ Rounds(segments) < MaxRounds
      BY <1>1, <3>6 DEF StreamInv, Attempted
    <3>8. Frames = Flattened(segments) /\ Sent(Index, attempt.held, attempt.sent) = {}
      <4>1. Frames = Flattened(segments) \cup Sent(Index, attempt.held, attempt.sent)
        BY <1>1 DEF StreamInv, Shown
      <4> QED
        BY <2>3, <4>1
    <3> QED
      BY <1>1, <3>3, <3>4, <3>6, <3>7, <3>8, AttemptBegins
  <2> QED
    BY <2>2, <2>3
<1> QED
  BY <1>4, <1>5, <1>6

LEMMA StaleKeepsStream ==
  ASSUME StreamInv, GoesStale
  PROVE  StreamInv'
<1>0. PICK e : e = Error("runtime")
  OBVIOUS
<1>1. /\ at # "done" /\ at' = "done" /\ stream' = Append(stream, e)
      /\ attempt' = NoAttempt /\ segments' = <<>>
      /\ UNCHANGED <<plan, repairs, pending, acted, expired, enabled, toggled>>
  BY <1>0 DEF GoesStale
<1>2. e \in Events /\ e.type = "error"
  BY <1>0 DEF Events, Error
<1>3. /\ stream \in Seq(Events) /\ Open(stream) /\ (~toggled => Accepts(stream))
      /\ repairs <= MaxRepairs
  BY <1>1, Known
<1>4. EventFits(stream, e)
  BY <1>2, <1>3 DEF EventFits, Open
<1>5. /\ stream' \in Seq(Events) /\ stream' # <<>> /\ Last(stream') = e
      /\ FramesIn(stream') = FramesIn(stream) \cup {}
      /\ Accepts(stream) => Accepts(stream')
  BY <1>1, <1>2, <1>3, <1>4, AcceptedNext
<1>6. NoAttempt \in Attempts /\ <<>> \in Seq(Segments) /\ DOMAIN <<>> = {}
  BY DEF NoAttempt, Attempts
<1>7. StreamTypes'
  BY <1>1, <1>5, <1>6 DEF StreamInv, StreamTypes
<1>8. Grounded(Frames', segments')
  BY <1>1, <1>6 DEF Grounded
<1>9. ShownAnswersStand'
  BY <1>0, <1>5 DEF ShownAnswersStand, ShownTurnsComplete
<1> QED
  BY <1>1, <1>3, <1>5, <1>7, <1>8, <1>9 DEF StreamInv

\* The clock and the owner's setting.
LEMMA SurroundingsKeepStream ==
  ASSUME StreamInv, UNCHANGED engineVars, expired' \in BOOLEAN, enabled' \in BOOLEAN,
         toggled' = TRUE \/ UNCHANGED <<enabled, toggled>>
  PROVE  StreamInv'
<1>1. UNCHANGED <<at, attempt, plan, segments, repairs, pending, acted, stream>>
  BY DEF engineVars
<1>2. toggled \in BOOLEAN /\ toggled' \in BOOLEAN /\ (~toggled' => ~toggled /\ enabled' = enabled)
  <2>1. toggled \in BOOLEAN
    BY DEF StreamInv, StreamTypes
  <2>2. CASE toggled' = TRUE
    BY <2>1, <2>2
  <2>3. CASE UNCHANGED <<enabled, toggled>>
    BY <2>1, <2>3
  <2> QED
    BY <2>2, <2>3
<1>3. StreamTypes' /\ repairs' <= MaxRepairs
  BY <1>1, <1>2 DEF StreamInv, StreamTypes
<1>4. Frames' = Frames /\ (Ongoing(segments) => Ongoing(segments'))
  BY <1>1 DEF Frames
<1>5. Attempted => Attempted'
  <2>1. BatchFits' = BatchFits /\ AnswerFits' = AnswerFits /\ Standing' = Standing
    BY <1>1 DEF BatchFits, AnswerFits, Standing
  <2> QED
    BY <1>1, <2>1 DEF Attempted, Index
<1>6. Shown => Shown'
  BY <1>1, <1>2, <1>4 DEF Shown, Index
<1>7. ShownAnswersStand => ShownAnswersStand'
  BY <1>1, <1>4 DEF ShownAnswersStand, ShownTurnsComplete, CalledAfterwards
<1>8. Grounded(Frames', segments')
  BY <1>1, <1>4 DEF StreamInv
<1> QED
  BY <1>1, <1>2, <1>3, <1>4, <1>5, <1>6, <1>7, <1>8 DEF StreamInv

LEMMA StreamInvInit == Init => StreamInv
<1> SUFFICES ASSUME Init PROVE StreamInv
  OBVIOUS
<1>1. /\ at = "segment" /\ plan = "none" /\ segments = <<>> /\ repairs = 0 /\ attempt = NoAttempt
      /\ pending = FALSE /\ acted = FALSE /\ stream = <<>> /\ expired = FALSE
      /\ enabled \in BOOLEAN /\ toggled = FALSE
  BY DEF Init
<1>2. /\ NoAttempt \in Attempts /\ NoAttempt.held = <<>> /\ NoAttempt.sent = 0
      /\ NoAttempt.offered = {} /\ NoAttempt.limit = 0 /\ Len(<<>>) = 0 /\ DOMAIN <<>> = {}
  BY DEF NoAttempt, Attempts
<1>3. Frames = {} /\ Open(stream) /\ Accepts(stream)
  BY <1>1, <1>2 DEF Frames, FramesIn, Range, Open, Accepts
<1>4. StreamTypes /\ repairs <= MaxRepairs
  <2>1. {pending, acted, expired, enabled, toggled} \subseteq BOOLEAN
    BY <1>1
  <2>2. <<>> \in Seq(Segments) /\ <<>> \in Seq(Events) /\ 0 <= MaxRepairs
    BY Budgets
  <2> QED
    BY <1>1, <1>2, <2>1, <2>2 DEF StreamTypes
<1>5. Attempted
  BY <1>1, <1>2 DEF Attempted
<1>6. Shown
  <2>1. Sent(Index, attempt.held, attempt.sent) = {}
    BY <1>1, <1>2 DEF Sent
  <2> QED
    BY <1>1, <1>2, <1>3, <2>1, NothingFlattened DEF Shown
<1>7. Ongoing(segments)
  BY <1>1, NoSegmentsYet
<1> QED
  BY <1>1, <1>3, <1>4, <1>5, <1>6, <1>7, NothingGrounded DEF StreamInv

LEMMA StreamInvNext == StreamInv /\ [Next]_vars => StreamInv'
<1> SUFFICES ASSUME StreamInv, [Next]_vars PROVE StreamInv'
  OBVIOUS
<1>1. CASE Engine
  <2>1. UNCHANGED <<expired, enabled, toggled>>
    BY <1>1 DEF Engine
  <2>2. CASE Begin
    BY <2>1, <2>2, BeginKeepsStream
  <2>3. CASE SetupRequired
    BY <2>1, <2>3, SetupKeepsStream
  <2>4. CASE ReadPlan
    BY <2>1, <2>4, PlanKeepsStream
  <2>5. CASE ReadFrame
    BY <2>1, <2>5, FrameKeepsStream
  <2>6. CASE ReadCall
    BY <2>1, <2>6, CallKeepsStream
  <2>7. CASE StreamEnds
    BY <2>1, <2>7, EndKeepsStream
  <2>8. CASE Judge
    BY <2>1, <2>8, JudgeKeepsStream
  <2>9. CASE Answer
    BY <2>1, <2>9, AnswerKeepsStream
  <2>10. CASE RunTools
    BY <2>1, <2>10, RunKeepsStream
  <2>11. CASE ToolsFail
    BY <2>1, <2>11, ToolsFailKeepsStream
  <2>12. CASE Results
    BY <2>1, <2>12, ResultsKeepStream
  <2>13. CASE PeerAnswers \/ PeerPending
    BY <2>1, <2>13, PeerKeepsStream
  <2>14. CASE Failure
    BY <2>1, <2>14, FailureKeepsStream
  <2> QED
    BY <1>1, <2>2, <2>3, <2>4, <2>5, <2>6, <2>7, <2>8, <2>9, <2>10, <2>11, <2>12, <2>13, <2>14
    DEF Engine
<1>2. CASE GoesStale
  BY <1>2, StaleKeepsStream
<1>3. expired \in BOOLEAN /\ enabled \in BOOLEAN
  BY DEF StreamInv, StreamTypes
<1>4. CASE Tick
  BY <1>3, <1>4, SurroundingsKeepStream DEF Tick
<1>5. CASE Toggle
  BY <1>3, <1>5, SurroundingsKeepStream DEF Toggle
<1>6. CASE UNCHANGED vars
  BY <1>3, <1>6, SurroundingsKeepStream DEF vars
<1> QED
  BY <1>1, <1>2, <1>4, <1>5, <1>6 DEF Next

LEMMA StreamInvHolds == Spec => []StreamInv
<1>1. Init => StreamInv
  BY StreamInvInit
<1>2. StreamInv /\ [Next]_vars => StreamInv'
  BY StreamInvNext
<1> QED
  BY <1>1, <1>2, PTL DEF Spec

\* Whatever the model, the tools, a peer and the clock do, every event that the sandbox
\* writes is one that iter_event_markers and _v3_result_parts accept: both sides count
\* alike, for every budget. (Not if the owner's setting changes during the turn.)
THEOREM HostAcceptsTurn == Spec => []StreamIsAccepted
<1>1. StreamInv => StreamIsAccepted
  BY DEF StreamInv, StreamIsAccepted
<1> QED
  BY <1>1, StreamInvHolds, PTL

\* A turn of which a frame was shown ends with a result that has all of them, unless
\* the model called a tool afterwards that it was not offered.
THEOREM ShownTurnEndsWithResult == Spec => []ShownAnswersStand
<1>1. StreamInv => ShownAnswersStand
  BY DEF StreamInv, ShownAnswersStand, ShownTurnsComplete
<1> QED
  BY <1>1, StreamInvHolds, PTL

\* No frame of the model's stands in or before a segment whose calls it could not
\* know the outcome of.
THEOREM ModelSpeaksAfterResults == Spec => []OnlyGroundedFrames
<1>1. StreamInv => OnlyGroundedFrames
  BY DEF StreamInv, Grounded, OnlyGroundedFrames
<1> QED
  BY <1>1, StreamInvHolds, PTL

-----------------------------------------------------------------------------
(* The turn is finite: every step uses up something *)

\* What one stream can bring, and the steps that an attempt at a segment can take.
MaxReads   == MaxBatch + MaxFrames
PerAttempt == MaxReads + 6

\* How far the attempt is from its end.
Stage ==
  CASE at = "segment" -> PerAttempt
    [] at = "stream"  -> 5 + (MaxBatch - Len(attempt.calls)) + (attempt.limit - Len(attempt.held))
    [] at = "judge"   -> 4
    [] at = "window"  -> 3
    [] at = "tools"   -> 2
    [] at \in {"answer", "failed"} -> 1
    [] at = "done"    -> 0

\* The segments and the repairs that can follow.
AttemptsLeft == (MaxSegments - 1 - Index) + (MaxRepairs - repairs)

\* What happens once: the plan is read, the time is up, the owner changes the setting.
One(b) == IF b THEN 1 ELSE 0
Once   == One(plan = "none") + One(~expired) + One(~toggled)

StepsLeft == IF at = "done" THEN 0 ELSE PerAttempt * AttemptsLeft + Stage + Once

\* The steps that a turn can still take are bounded, by the budgets alone.
StepsAreCounted == StepsLeft \in Nat /\ StepsLeft <= PerAttempt * (MaxSegments + MaxRepairs) + 3

\* Every step leaves fewer: no failure, repair or question to a peer (the loops of
\* respond_iter) starts over with what was spent before.
EveryStepCounts == [][StepsLeft' < StepsLeft]_vars

\* A stream has no more calls than the bound.
BatchInv == at # "done" => Len(attempt.calls) <= MaxBatch

StepsInv == StreamInv /\ BatchInv

LEMMA OnceIs ==
  /\ Once \in 0 .. 3 /\ Once' \in 0 .. 3
  /\ (plan' = "none" => plan = "none") /\ UNCHANGED <<expired, toggled>> => Once' <= Once
  /\ plan = "none" /\ plan' # "none" /\ UNCHANGED <<expired, toggled>> => Once' < Once
  /\ ~expired /\ expired' /\ UNCHANGED <<plan, toggled>> => Once' < Once
  /\ ~toggled /\ toggled' /\ UNCHANGED <<plan, expired>> => Once' < Once
<1>1. Once \in 0 .. 3 /\ Once' \in 0 .. 3
  BY DEF Once, One
<1>2. One(plan = "none") \in 0 .. 1 /\ One(~expired) \in 0 .. 1 /\ One(~toggled) \in 0 .. 1
  BY DEF One
<1>3. (plan' = "none" => plan = "none") /\ UNCHANGED <<expired, toggled>> => Once' <= Once
  BY <1>2 DEF Once, One
<1>4. plan = "none" /\ plan' # "none" /\ UNCHANGED <<expired, toggled>> => Once' < Once
  BY <1>2 DEF Once, One
<1>5. ~expired /\ expired' /\ UNCHANGED <<plan, toggled>> => Once' < Once
  BY <1>2 DEF Once, One
<1>6. ~toggled /\ toggled' /\ UNCHANGED <<plan, expired>> => Once' < Once
  BY <1>2 DEF Once, One
<1> QED
  BY <1>1, <1>3, <1>4, <1>5, <1>6

LEMMA ReadsAreNumbers == MaxReads \in Nat /\ PerAttempt \in Nat /\ MaxBatch \in Nat /\ MaxFrames \in Nat
BY Budgets, ToolsAssumption DEF MaxReads, PerAttempt

\* While the turn goes on there is a step left, and room for it.
LEMMA StageIs ==
  ASSUME StepsInv, at # "done"
  PROVE  /\ Stage \in 1 .. PerAttempt
         /\ AttemptsLeft \in 0 .. (MaxSegments - 1 + MaxRepairs)
<1>1. /\ StreamTypes /\ Ongoing(segments) /\ Attempted /\ repairs <= MaxRepairs
      /\ Len(attempt.calls) <= MaxBatch
  BY DEF StepsInv, StreamInv, BatchInv
<1>2. /\ Len(attempt.calls) \in Nat /\ Len(attempt.held) \in Nat /\ Index \in Nat
      /\ repairs \in Nat
  BY <1>1 DEF StreamTypes, Attempts, Index
<1>3. AttemptsLeft \in 0 .. (MaxSegments - 1 + MaxRepairs)
  BY <1>1, <1>2, Budgets DEF Ongoing, AttemptsLeft, Index
<1>4. CASE at = "stream"
  <2>1. attempt.limit \in 1 .. MaxFrames /\ Len(attempt.held) <= attempt.limit
    BY <1>1, <1>4 DEF Attempted
  <2>2. Stage = 5 + (MaxBatch - Len(attempt.calls)) + (attempt.limit - Len(attempt.held))
    BY <1>4 DEF Stage
  <2>3. Stage \in 5 .. 5 + MaxBatch + MaxFrames
    <3>1. PICK c, h, l : c = Len(attempt.calls) /\ h = Len(attempt.held) /\ l = attempt.limit
      OBVIOUS
    <3>2. c \in Nat /\ h \in Nat /\ l \in 1 .. MaxFrames /\ h <= l /\ c <= MaxBatch
      BY <1>1, <1>2, <2>1, <3>1
    <3>3. 5 + (MaxBatch - c) + (l - h) \in 5 .. 5 + MaxBatch + MaxFrames
      BY <3>2, ReadsAreNumbers
    <3> QED
      BY <2>2, <3>1, <3>3
  <2>4. PerAttempt = 6 + MaxBatch + MaxFrames
    BY ReadsAreNumbers DEF PerAttempt, MaxReads
  <2> QED
    BY <1>3, <2>3, <2>4, ReadsAreNumbers
<1>5. CASE at # "stream"
  <2>1. Stage \in {PerAttempt, 4, 3, 2, 1}
    BY <1>1, <1>5 DEF Stage, StreamTypes
  <2> QED
    BY <1>3, <2>1, ReadsAreNumbers DEF PerAttempt
<1> QED
  BY <1>4, <1>5

LEMMA StageIsNext == (StepsInv /\ at # "done" => Stage \in 1 .. PerAttempt)'
<1>1. StepsInv /\ at # "done" => Stage \in 1 .. PerAttempt
  BY StageIs
<1> QED
  BY <1>1, PTL

\* What a step does to the count: it ends the turn, it brings the attempt nearer to
\* its end, or it uses up an attempt.
StepCounts ==
  \/ at' = "done"
  \/ AttemptsLeft' = AttemptsLeft /\ Stage' + Once' < Stage + Once
  \/ AttemptsLeft' = AttemptsLeft - 1 /\ Once' <= Once

LEMMA LessOfTwo ==
  ASSUME NEW s \in Nat, NEW t \in Nat, NEW o \in Nat, NEW p \in Nat,
         (t < s /\ p <= o) \/ (t <= s /\ p < o)
  PROVE  t + p < s + o
OBVIOUS

LEMMA OneLess == ASSUME NEW m \in Int, NEW n \in Int PROVE m * (n - 1) = m * n - m
OBVIOUS

LEMMA MoreIsMore ==
  ASSUME NEW m \in Nat, NEW n \in Nat, NEW k \in Nat, n <= k
  PROVE  m * n \in Nat /\ m * n <= m * k
OBVIOUS

LEMMA FewerAttempts ==
  ASSUME NEW m \in Nat, NEW n \in Nat, NEW k \in Int, NEW s \in Nat, NEW t \in Nat, NEW o \in Nat,
         NEW p \in Nat, s >= 1, t <= m, p <= o, k = n - 1
  PROVE  m * k + t + p < m * n + s + o
<1>1. m * k = m * n - m
  BY OneLess
<1>2. PICK x \in Int : x = m * n
  OBVIOUS
<1> QED
  BY <1>1, <1>2

LEMMA SameAttempts ==
  ASSUME NEW m \in Nat, NEW n \in Nat, NEW s \in Nat, NEW t \in Nat, NEW o \in Nat, NEW p \in Nat,
         t + p < s + o
  PROVE  m * n + t + p < m * n + s + o
<1>1. PICK x \in Int : x = m * n
  OBVIOUS
<1> QED
  BY <1>1

LEMMA NoAttempts ==
  ASSUME NEW m \in Nat, NEW n \in Nat, NEW s \in Nat, NEW o \in Nat, s >= 1
  PROVE  0 < m * n + s + o
<1>1. m * n \in Nat
  OBVIOUS
<1> QED
  BY <1>1

LEMMA CountGoesDown ==
  ASSUME StepsInv, StepsInv', at # "done", StepCounts
  PROVE  StepsLeft' < StepsLeft
<1>1. PICK m, n, s, o, k, t, p, x, y :
        /\ m = PerAttempt /\ n = AttemptsLeft /\ s = Stage /\ o = Once /\ k = AttemptsLeft'
        /\ t = Stage' /\ p = Once' /\ x = StepsLeft /\ y = StepsLeft'
  OBVIOUS
<1>2. s \in Nat /\ s >= 1 /\ n \in Nat /\ o \in Nat /\ p \in Nat /\ m \in Nat
  <2>1. s \in 1 .. m /\ n \in 0 .. (MaxSegments - 1 + MaxRepairs)
    BY <1>1, StageIs
  <2>2. o \in 0 .. 3 /\ p \in 0 .. 3 /\ m \in Nat
    BY <1>1, OnceIs, ReadsAreNumbers
  <2> QED
    BY <2>1, <2>2, Budgets
<1>3. x = m * n + s + o
  BY <1>1 DEF StepsLeft
<1>4. CASE at' = "done"
  <2>1. y = 0
    BY <1>1, <1>4 DEF StepsLeft
  <2>2. y < x
    BY <1>2, <1>3, <2>1, NoAttempts
  <2> QED
    BY <1>1, <2>2
<1>5. CASE at' # "done"
  <2>1. t \in Nat /\ t <= m
    <3>3. PerAttempt' = PerAttempt
      BY DEF PerAttempt, MaxReads
    <3>4. t \in 1 .. m
      BY <1>1, <1>5, <3>3, StageIsNext
    <3> QED
      BY <1>2, <3>4
  <2>2. y = m * k + t + p
    BY <1>1, <1>5 DEF StepsLeft, PerAttempt, MaxReads
  <2>3. CASE AttemptsLeft' = AttemptsLeft /\ Stage' + Once' < Stage + Once
    <3>1. k = n /\ t + p < s + o
      BY <1>1, <2>3
    <3>2. y < x
      BY <1>2, <1>3, <2>1, <2>2, <3>1, SameAttempts
    <3> QED
      BY <1>1, <3>2
  <2>4. CASE AttemptsLeft' = AttemptsLeft - 1 /\ Once' <= Once
    <3>1. k = n - 1 /\ p <= o
      BY <1>1, <2>4
    <3>2. k \in Int
      BY <1>2, <3>1
    <3>3. y < x
      BY <1>2, <1>3, <2>1, <2>2, <3>1, <3>2, FewerAttempts
    <3> QED
      BY <1>1, <3>3
  <2> QED
    BY <1>5, <2>3, <2>4 DEF StepCounts
<1> QED
  BY <1>4, <1>5

\* A step of the engine that leaves segments and repairs as they are.
LEMMA Nearer ==
  ASSUME segments' = segments, repairs' = repairs, Stage \in Nat, Stage' \in Nat, Stage' < Stage,
         Once' <= Once
  PROVE  StepCounts
<1>1. AttemptsLeft' = AttemptsLeft
  BY DEF AttemptsLeft, Index
<1>2. Once \in Nat /\ Once' \in Nat
  BY OnceIs
<1>3. PICK s, t, o, p : s = Stage /\ t = Stage' /\ o = Once /\ p = Once'
  OBVIOUS
<1>4. s \in Nat /\ t \in Nat /\ o \in Nat /\ p \in Nat /\ t < s /\ p <= o
  BY <1>2, <1>3
<1>5. t + p < s + o
  BY <1>4, LessOfTwo
<1> QED
  BY <1>1, <1>3, <1>5 DEF StepCounts

LEMMA BeginCounts ==
  ASSUME StepsInv, StepsInv', Begin, UNCHANGED <<expired, enabled, toggled>>
  PROVE  StepCounts
<1>1. CASE expired
  <2>1. at' = "done"
    BY <1>1 DEF Begin, SayInstead, GiveUp, Raise, Finish
  <2> QED
    BY <2>1 DEF StepCounts
<1>2. CASE ~expired
  <2>1. /\ at = "segment" /\ at' = "stream" /\ UNCHANGED <<plan, segments, repairs>>
        /\ attempt'.calls = <<>> /\ attempt'.held = <<>>
    BY <1>2 DEF Begin, Attempt
  <2>2. Stage = PerAttempt
    BY <2>1 DEF Stage
  <2>3. attempt'.limit \in 1 .. MaxFrames
    BY <2>1 DEF StepsInv, StreamInv, Attempted
  <2>4. Stage' = 5 + MaxBatch + attempt'.limit
    BY <2>1, <2>3, ReadsAreNumbers DEF Stage
  <2>5. Once' <= Once
    BY <2>1, OnceIs
  <2>6. Stage \in Nat /\ Stage' \in Nat /\ Stage' < Stage
    BY <2>2, <2>3, <2>4, ReadsAreNumbers DEF PerAttempt, MaxReads
  <2> QED
    BY <2>1, <2>5, <2>6, Nearer
<1> QED
  BY <1>1, <1>2

LEMMA SetupCounts == ASSUME SetupRequired PROVE StepCounts
<1>1. at' = "done"
  BY DEF SetupRequired, AskToSignIn, SayInstead, GiveUp, Raise, Finish
<1> QED
  BY <1>1 DEF StepCounts

LEMMA PlanCounts ==
  ASSUME StepsInv, ReadPlan, UNCHANGED <<expired, enabled, toggled>>
  PROVE  StepCounts
<1>1. /\ at = "stream" /\ plan = "none" /\ plan' # "none"
      /\ UNCHANGED <<at, attempt, segments, repairs>>
  BY DEF ReadPlan
<1>2. Once' < Once
  BY <1>1, OnceIs
<1>3. Stage' = Stage /\ AttemptsLeft' = AttemptsLeft
  BY <1>1 DEF Stage, AttemptsLeft, Index, PerAttempt, MaxReads
<1>4. Stage \in Nat /\ Stage' \in Nat /\ Once \in Nat /\ Once' \in Nat /\ Stage' <= Stage
  <2>1. Stage \in 1 .. PerAttempt /\ Once \in 0 .. 3 /\ Once' \in 0 .. 3
    BY <1>1, StageIs, OnceIs
  <2>2. Stage \in Nat /\ Stage <= Stage
    BY <2>1, ReadsAreNumbers
  <2> QED
    BY <1>3, <2>1, <2>2
<1>5. Stage' + Once' < Stage + Once
  BY <1>2, <1>4, LessOfTwo
<1> QED
  BY <1>3, <1>5 DEF StepCounts

\* What is read of the stream, and its end.
LEMMA StreamCounts ==
  ASSUME StepsInv, StepsInv', ReadFrame \/ ReadCall \/ StreamEnds, UNCHANGED <<expired, enabled, toggled>>
  PROVE  StepCounts
<1>1. /\ at = "stream" /\ UNCHANGED <<segments, repairs>>
      /\ (plan' = "none" => plan = "none")
  BY DEF ReadFrame, ReadCall, StreamEnds, SomePlan
<1>2. PICK c, h, l : c = Len(attempt.calls) /\ h = Len(attempt.held) /\ l = attempt.limit
  OBVIOUS
<1>3. /\ attempt \in Attempts
      /\ c \in Nat /\ h \in Nat /\ l \in Nat /\ c <= MaxBatch /\ h <= l
  BY <1>1, <1>2 DEF StepsInv, StreamInv, BatchInv, StreamTypes, Attempted, Attempts
<1>4. Stage = 5 + (MaxBatch - c) + (l - h)
  BY <1>1, <1>2 DEF Stage
<1>5. Once' <= Once
  BY <1>1, OnceIs
<1>6. CASE ReadFrame
  <2>1. /\ at' = "stream" /\ attempt'.calls = attempt.calls /\ attempt'.limit = attempt.limit
        /\ attempt'.held = Append(attempt.held, "model") /\ h < l
    BY <1>2, <1>3, <1>6 DEF ReadFrame, Attempts
  <2>2. Len(attempt'.held) = h + 1
    BY <1>2, <1>3, <2>1 DEF Attempts
  <2>3. Stage' = 5 + (MaxBatch - c) + (l - (h + 1))
    BY <1>2, <2>1, <2>2 DEF Stage
  <2>4. PICK s, t : s = Stage /\ t = Stage'
    OBVIOUS
  <2>5. s \in Nat /\ t \in Nat /\ t < s
    <3>1. s = 5 + (MaxBatch - c) + (l - h) /\ t = 5 + (MaxBatch - c) + (l - (h + 1))
      BY <1>4, <2>3, <2>4
    <3> QED
      BY <1>3, <2>1, <3>1, ReadsAreNumbers
  <2> QED
    BY <1>1, <1>5, <2>4, <2>5, Nearer
<1>7. CASE ReadCall
  <2>1. PICK kind \in Tools : attempt' = [attempt EXCEPT !.calls = Append(@, kind)]
    BY <1>7 DEF ReadCall
  <2>2. /\ at' = "stream" /\ attempt'.held = attempt.held /\ attempt'.limit = attempt.limit
        /\ attempt'.calls = Append(attempt.calls, kind) /\ c < MaxBatch
    BY <1>2, <1>3, <1>7, <2>1 DEF ReadCall, Attempts
  <2>3. Len(attempt'.calls) = c + 1
    BY <1>2, <1>3, <2>2 DEF Attempts
  <2>4. Stage' = 5 + (MaxBatch - (c + 1)) + (l - h)
    BY <1>2, <2>2, <2>3 DEF Stage
  <2>5. PICK s, t : s = Stage /\ t = Stage'
    OBVIOUS
  <2>6. s \in Nat /\ t \in Nat /\ t < s
    <3>1. s = 5 + (MaxBatch - c) + (l - h) /\ t = 5 + (MaxBatch - (c + 1)) + (l - h)
      BY <1>4, <2>4, <2>5
    <3> QED
      BY <1>3, <2>2, <3>1, ReadsAreNumbers
  <2> QED
    BY <1>1, <1>5, <2>5, <2>6, Nearer
<1>8. CASE StreamEnds
  <2>1. at' = "judge"
    BY <1>8 DEF StreamEnds
  <2>2. Stage' = 4
    BY <2>1 DEF Stage
  <2>3. PICK s, t : s = Stage /\ t = Stage'
    OBVIOUS
  <2>4. s \in Nat /\ t \in Nat /\ t < s
    <3>1. s = 5 + (MaxBatch - c) + (l - h) /\ t = 4
      BY <1>4, <2>2, <2>3
    <3> QED
      BY <1>3, <3>1, ReadsAreNumbers
  <2> QED
    BY <1>1, <1>5, <2>3, <2>4, Nearer
<1> QED
  BY <1>6, <1>7, <1>8

LEMMA JudgeCounts ==
  ASSUME StepsInv, Judge, UNCHANGED <<expired, enabled, toggled>>
  PROVE  StepCounts
<1>1. /\ at = "judge" /\ UNCHANGED <<segments, repairs>> /\ (plan' = "none" => plan = "none")
      /\ at' \in {"window", "answer", "failed"}
  BY DEF Judge, SomePlan
<1>2. Stage = 4 /\ Stage' \in {3, 1}
  BY <1>1 DEF Stage
<1> QED
  BY <1>1, <1>2, OnceIs, Nearer

LEMMA AnswerCounts == ASSUME Answer PROVE StepCounts
BY DEF Answer, Finish, StepCounts

LEMMA ToolsCount ==
  ASSUME StepsInv, RunTools \/ ToolsFail, UNCHANGED <<expired, enabled, toggled>>
  PROVE  StepCounts
<1>1. UNCHANGED <<plan, segments, repairs>>
  BY DEF RunTools, ToolsFail
<1>2. CASE RunTools
  <2>1. at = "window" /\ at' \in {"tools", "failed"}
    BY <1>2 DEF RunTools
  <2>2. Stage = 3 /\ Stage' \in {2, 1}
    BY <2>1 DEF Stage
  <2> QED
    BY <1>1, <2>2, OnceIs, Nearer
<1>3. CASE ToolsFail
  <2>1. Stage = 2 /\ Stage' = 1
    BY <1>3 DEF ToolsFail, Stage
  <2> QED
    BY <1>1, <2>1, OnceIs, Nearer
<1> QED
  BY <1>2, <1>3

\* The next segment uses up one of those that were left.
LEMMA SegmentCounts ==
  ASSUME StepsInv, at # "done", segments' = Append(segments, Batch), UNCHANGED <<plan, repairs>>,
         UNCHANGED <<expired, enabled, toggled>>
  PROVE  StepCounts
<1>1. segments \in Seq(Segments) /\ repairs \in Nat
  BY DEF StepsInv, StreamInv, StreamTypes
<1>2. Len(segments) \in Nat /\ Len(segments') = Len(segments) + 1
  BY <1>1
<1>3. AttemptsLeft' = AttemptsLeft - 1
  BY <1>1, <1>2, Budgets DEF AttemptsLeft, Index
<1>4. Once' <= Once
  BY OnceIs
<1> QED
  BY <1>3, <1>4 DEF StepCounts

LEMMA ResultsCount ==
  ASSUME StepsInv, Results \/ PeerAnswers \/ PeerPending, UNCHANGED <<expired, enabled, toggled>>
  PROVE  StepCounts
<1>1. at = "tools"
  BY DEF Results, PeerAnswers, PeerPending
<1>2. \/ at' = "done"
      \/ segments' = Append(segments, Batch) /\ UNCHANGED <<plan, repairs>>
  BY DEF Results, PeerAnswers, PeerPending, GiveUp, Raise, Finish
<1> QED
  BY <1>1, <1>2, SegmentCounts DEF StepCounts

LEMMA FailureCounts ==
  ASSUME StepsInv, Failure, UNCHANGED <<expired, enabled, toggled>>
  PROVE  StepCounts
<1>1. \/ at' = "done"
      \/ repairs' = repairs + 1 /\ UNCHANGED <<plan, segments>>
  BY DEF Failure, SayInstead, GiveUp, Raise, Finish, Retry
<1>2. CASE at' = "done"
  BY <1>2 DEF StepCounts
<1>3. CASE repairs' = repairs + 1 /\ UNCHANGED <<plan, segments>>
  <2>1. repairs \in Nat /\ Len(segments) \in Nat
    BY DEF StepsInv, StreamInv, StreamTypes
  <2>2. AttemptsLeft' = AttemptsLeft - 1
    BY <1>3, <2>1, Budgets DEF AttemptsLeft, Index
  <2>3. Once' <= Once
    BY <1>3, OnceIs
  <2> QED
    BY <2>2, <2>3 DEF StepCounts
<1> QED
  BY <1>1, <1>2, <1>3

LEMMA SurroundingsCount ==
  ASSUME StepsInv, Tick \/ Toggle
  PROVE  StepCounts
<1>1. at # "done" /\ UNCHANGED <<at, attempt, plan, segments, repairs>>
  BY DEF Tick, Toggle, engineVars
<1>2. Once' < Once
  <2>1. {expired, toggled} \subseteq BOOLEAN
    BY DEF StepsInv, StreamInv, StreamTypes
  <2>2. CASE Tick
    BY <1>1, <2>2, OnceIs DEF Tick
  <2>3. CASE Toggle
    BY <1>1, <2>3, OnceIs DEF Toggle, engineVars
  <2> QED
    BY <2>2, <2>3
<1>3. Stage' = Stage /\ AttemptsLeft' = AttemptsLeft
  BY <1>1 DEF Stage, AttemptsLeft, Index, PerAttempt, MaxReads
<1>4. Stage \in Nat /\ Stage' \in Nat /\ Once \in Nat /\ Once' \in Nat /\ Stage' <= Stage
  <2>1. Stage \in 1 .. PerAttempt /\ Once \in 0 .. 3 /\ Once' \in 0 .. 3
    BY <1>1, StageIs, OnceIs
  <2>2. Stage \in Nat /\ Stage <= Stage
    BY <2>1, ReadsAreNumbers
  <2> QED
    BY <1>3, <2>1, <2>2
<1>5. Stage' + Once' < Stage + Once
  BY <1>2, <1>4, LessOfTwo
<1> QED
  BY <1>3, <1>5 DEF StepCounts

LEMMA BatchInvNext == StreamInv /\ BatchInv /\ [Next]_vars => BatchInv'
<1> SUFFICES ASSUME StreamInv, BatchInv, [Next]_vars, at' # "done" PROVE Len(attempt'.calls) <= MaxBatch
  BY DEF BatchInv
<1>1. attempt \in Attempts /\ MaxBatch \in Nat
  BY ReadsAreNumbers DEF StreamInv, StreamTypes
<1>2. CASE ReadCall
  <2>1. PICK kind \in Tools : attempt' = [attempt EXCEPT !.calls = Append(@, kind)]
    BY <1>2 DEF ReadCall
  <2>2. attempt'.calls = Append(attempt.calls, kind) /\ Len(attempt.calls) < MaxBatch
    BY <1>1, <1>2, <2>1 DEF ReadCall, Attempts
  <2> QED
    BY <1>1, <2>2 DEF Attempts
<1>3. CASE attempt'.calls = <<>>
  BY <1>1, <1>3
<1>4. CASE attempt'.calls = attempt.calls /\ at # "done"
  BY <1>4 DEF BatchInv
<1>5. CASE UNCHANGED vars
  BY <1>5 DEF vars, engineVars, BatchInv
<1>6. CASE Begin \/ Failure
  <2>1. CASE Begin
    <3>1. ~expired
      BY <2>1 DEF Begin, SayInstead, GiveUp, Raise, Finish
    <3>2. attempt'.calls = <<>>
      BY <2>1, <3>1 DEF Begin, Attempt
    <3> QED
      BY <1>3, <3>2
  <2>2. CASE Failure
    <3>1. Retry
      BY <2>2 DEF Failure, SayInstead, GiveUp, Raise, Finish
    <3>2. attempt'.calls = <<>>
      BY <3>1 DEF Retry, Attempt
    <3> QED
      BY <1>3, <3>2
  <2> QED
    BY <1>6, <2>1, <2>2
<1>7. CASE SetupRequired \/ Answer \/ GoesStale
  <2>1. at' = "done"
    BY <1>7 DEF SetupRequired, Answer, GoesStale, AskToSignIn, SayInstead, GiveUp, Raise, Finish
  <2> QED
    BY <2>1
<1>8. CASE ReadPlan \/ StreamEnds \/ Judge \/ RunTools \/ ToolsFail \/ ReadFrame \/ Tick \/ Toggle
  <2>1. attempt'.calls = attempt.calls
    BY <1>1, <1>8 DEF ReadPlan, StreamEnds, Judge, RunTools, ToolsFail, ReadFrame, Tick, Toggle,
       engineVars, Attempts
  <2>2. at # "done"
    BY <1>8 DEF ReadPlan, StreamEnds, Judge, RunTools, ToolsFail, ReadFrame, Tick, Toggle
  <2> QED
    BY <1>4, <2>1, <2>2
<1>9. CASE Results \/ PeerAnswers \/ PeerPending
  <2>1. attempt' = NoAttempt
    BY <1>9 DEF Results, PeerAnswers, PeerPending, GiveUp, Raise, Finish
  <2> QED
    BY <1>3, <2>1 DEF NoAttempt
<1> QED
  BY <1>2, <1>5, <1>6, <1>7, <1>8, <1>9 DEF Next, Engine

LEMMA NextCounts ==
  ASSUME StepsInv, StepsInv', Next
  PROVE  at # "done" /\ StepCounts
<1>1. CASE Engine
  <2>1. UNCHANGED <<expired, enabled, toggled>>
    BY <1>1 DEF Engine
  <2>2. at # "done"
    BY <1>1 DEF Engine, Begin, SetupRequired, ReadPlan, ReadFrame, ReadCall, StreamEnds, Judge, Answer,
       RunTools, ToolsFail, Results, PeerAnswers, PeerPending, Failure
  <2>3. StepCounts
    BY <1>1, <2>1, BeginCounts, SetupCounts, PlanCounts, StreamCounts, JudgeCounts, AnswerCounts,
       ToolsCount, ResultsCount, FailureCounts DEF Engine
  <2> QED
    BY <2>2, <2>3
<1>2. CASE GoesStale
  BY <1>2 DEF GoesStale, StepCounts
<1>3. CASE Tick \/ Toggle
  <2>1. at # "done"
    BY <1>3 DEF Tick, Toggle
  <2> QED
    BY <1>3, <2>1, SurroundingsCount
<1> QED
  BY <1>1, <1>2, <1>3 DEF Next

LEMMA StepsAreBounded ==
  ASSUME StepsInv
  PROVE  StepsAreCounted
<1>1. PICK m, k, n, s, o : m = PerAttempt /\ k = MaxSegments + MaxRepairs /\ n = AttemptsLeft /\ s = Stage /\ o = Once
  OBVIOUS
<1>2. m \in Nat /\ k \in Nat /\ k >= 1 /\ m * k \in Nat
  BY <1>1, ReadsAreNumbers, Budgets
<1>3. CASE at = "done"
  BY <1>1, <1>2, <1>3 DEF StepsLeft, StepsAreCounted
<1>4. CASE at # "done"
  <2>1. s \in 1 .. m /\ n \in 0 .. k - 1 /\ o \in 0 .. 3
    BY <1>1, <1>4, StageIs, OnceIs, Budgets
  <2>2. m * n \in Nat /\ m * n <= m * (k - 1)
    BY <1>2, <2>1, MoreIsMore
  <2>3. m * (k - 1) = m * k - m
    BY <1>2, OneLess
  <2>4. m * n + s + o \in Nat /\ m * n + s + o <= m * k + 3
    <3>1. PICK x, y, z : x = m * n /\ y = m * (k - 1) /\ z = m * k
      OBVIOUS
    <3> QED
      BY <1>2, <2>1, <2>2, <2>3, <3>1
  <2> QED
    BY <1>1, <1>4, <2>4 DEF StepsLeft, StepsAreCounted
<1> QED
  BY <1>3, <1>4

\* Every step of a turn uses up one of a number of steps that the budgets bound from the
\* start: if each stream of the model is finite, respond_iter's loops over segments,
\* repairs and a pending peer come to an end whatever they meet; the deadline only makes
\* it sooner.
THEOREM TurnIsFinite == Spec => []StepsAreCounted /\ EveryStepCounts
<1>1. Init => StepsInv
  <2>1. Init => BatchInv
    BY ReadsAreNumbers DEF Init, BatchInv, NoAttempt
  <2> QED
    BY <2>1, StreamInvInit DEF StepsInv
<1>2. StepsInv /\ [Next]_vars => StepsInv'
  BY StreamInvNext, BatchInvNext DEF StepsInv
<1>3. StepsInv => StepsAreCounted
  BY StepsAreBounded
<1>4. StepsInv /\ StepsInv' /\ [Next]_vars => [StepsLeft' < StepsLeft]_vars
  BY NextCounts, CountGoesDown
<1> QED
  BY <1>1, <1>2, <1>3, <1>4, PTL DEF Spec, EveryStepCounts

=============================================================================
