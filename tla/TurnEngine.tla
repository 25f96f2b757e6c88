----------------------------- MODULE TurnEngine -----------------------------
(* One turn in the sandbox: ConversationEngine.respond_iter, which turns what *)
(* the model streams into the frames of an answer, and the runtime, which     *)
(* writes them out for the host. The model answers in segments; a segment may *)
(* end in tool calls, whose results the next one sees. The time of the turn   *)
(* may be up at any moment.                                                   *)
EXTENDS EventStream

CONSTANTS
  Tools,    \* the tools that the turn's registry holds, of those below
  MaxBatch  \* bound: calls of one stream

\* Tools by what the engine tells apart: "search" only reads, "act" changes
\* something, "list" reads at a peer, "ask" puts a question to a peer and
\* changes something, "resume" fetches a peer's answer.
ASSUME ToolsAssumption ==
  Tools \subseteq {"search", "act", "list", "ask", "resume"} /\ MaxBatch \in Nat

VARIABLES
  at,      \* "segment", "stream", "judge", "answer", "window", "tools", "failed", "done"
  attempt, \* [offered, limit, fresh, calls, held, sent, end]: one stream of the model
  plan,    \* "none", "plain", or "reacts": a plan with a reaction
  segments, repairs,
  pending, \* a peer has been asked and has not answered
  acted,   \* a tool that changes something was tried
  expired, \* is the time up?
  enabled, \* the owner's setting: reactions
  stream,  \* the events written so far
  ran,     \* history: batches with such a tool that ran
  toggled  \* history: has the setting changed during the turn?

engineVars == <<at, attempt, plan, segments, repairs, pending, acted, stream, ran>>
vars == <<engineVars, expired, enabled, toggled>>

Index == Len(segments)
Frames == FramesIn(stream)

Peers == {"list", "ask", "resume"}
Acting == {"act", "ask"}           \* change something; alone in their batch
Called(calls, kinds) == Range(calls) \cap kinds # {}

-----------------------------------------------------------------------------
(* Output *)

\* emit_reaction: once, of a plan that has one, if the setting admits it now.
WithReaction(out) ==
  IF plan' = "reacts" /\ enabled /\ \A i \in DOMAIN out : out[i].type # "reaction"
  THEN Append(out, [type |-> "reaction"]) ELSE out

\* emit_segment_frames: those that were not sent before.
WithFrames(seg, authors, sent) ==
  IF Len(authors) <= sent THEN stream
  ELSE WithReaction(stream) \o SubSeq(FramesOf(seg, authors), sent + 1, Len(authors))

NoAttempt == [offered |-> {}, limit |-> 0, fresh |-> FALSE, calls |-> <<>>, held |-> <<>>,
              sent |-> 0, end |-> "open"]

\* The code says who gave up: the "turn", its "result", or the "runtime".
Error(code) == [type |-> "error", code |-> code]

\* completed(): a result over the budget, or of other frames than were sent, is refused.
Completed(out, segs, status) ==
  IF /\ Flattened(segs) = FramesIn(out) /\ EndFits(segs, status) /\ WithinBudget(segs, repairs)
     /\ \A i \in DOMAIN segs : SegmentFits(segs[i])
  THEN [type |-> "completed", status |-> status, segments |-> segs, repairs |-> repairs]
  ELSE Error("result")

\* The turn ends, with the segments `more` added to those it has and `out` written.
Finish(out, more, status) ==
  /\ at' = "done" /\ segments' = segments \o more
  /\ stream' = Append(out, Completed(out, segments \o more, status))
  /\ UNCHANGED <<attempt, repairs, pending, acted, ran>>

Raise ==
  /\ at' = "done" /\ attempt' = NoAttempt /\ stream' = Append(stream, Error("turn"))
  /\ UNCHANGED <<plan, segments, repairs, pending, acted, ran>>

\* Mutant: the clock is asked first.
GiveUpLate(more) ==
  IF expired \/ Frames = {} THEN Raise ELSE plan' = plan /\ Finish(stream, more, "partial")

\* The turn has no time or no means to go on: what was shown stands.
GiveUp(more) ==
  IF Frames = {} THEN Raise ELSE plan' = plan /\ Finish(stream, more, "partial")

Segment(finish, frames, calls) == [finish |-> finish, frames |-> frames, calls |-> calls]

\* A plan of the runtime's own where the model gave none.
SomePlan == IF plan = "none" THEN "plain" ELSE plan

\* The answer is one frame of the runtime's own words.
Own == <<"runtime">>
SayInstead(sent) ==
  /\ plan' = SomePlan
  /\ Finish(WithFrames(Index, Own, sent), <<Segment("complete", Own, <<>>)>>, "completed")

-----------------------------------------------------------------------------
(* One stream of the model *)

AllowTools ==
  /\ ~acted \/ pending
  /\ Index < MaxSegments - 1 /\ Visible(segments) < MaxVisible - 1
  /\ Rounds(segments) < MaxRounds /\ Calls(segments) < MaxCalls

Attempt(offered) ==
  /\ at' = "stream"
  /\ attempt' = [offered |-> offered, limit |-> Min({MaxFrames, TurnFrames - Cardinality(Frames)}),
                 fresh |-> plan = "none", calls |-> <<>>, held |-> <<>>, sent |-> 0, end |-> "open"]

\* The loop over the segments. It never runs out of segments or of frames: tools
\* are offered only where another segment can follow.
Begin ==
  /\ at = "segment"
  /\ \/ /\ expired /\ pending
        /\ SayInstead(0)
     \/ /\ expired /\ ~pending
        /\ GiveUp(<<>>)
     \/ /\ ~expired
        /\ Attempt(IF ~AllowTools THEN {} ELSE IF pending THEN Tools \cap {"resume"} ELSE Tools)
        /\ UNCHANGED <<plan, segments, repairs, pending, acted, stream, ran>>

\* Before any segment, respond_iter answers with the provider's words.
AskToSignIn ==
  /\ plan' = "plain" /\ at' = "done" /\ segments' = <<Segment("complete", Own, <<>>)>>
  /\ stream' = stream \o FramesOf(0, Own)
                 \o <<[type |-> "completed", status |-> "completed", segments |-> segments', repairs |-> 0]>>
  /\ UNCHANGED <<attempt, repairs, pending, acted, ran>>

\* The provider wants the owner to sign in: later the engine says so, if nothing
\* was shown.
SetupRequired ==
  /\ at = "stream" /\ attempt.held = <<>> /\ attempt.calls = <<>> /\ ~(attempt.fresh /\ plan # "none")
  /\ CASE segments = <<>> -> AskToSignIn
       [] segments # <<>> /\ Frames # {} -> GiveUp(<<Segment("failed", <<>>, <<>>)>>)
       [] segments # <<>> /\ Frames = {} -> IF expired THEN Raise ELSE SayInstead(0)

ReadPlan ==
  /\ at = "stream" /\ ~expired /\ attempt.fresh /\ plan = "none"
  /\ plan' \in {"plain", "reacts"}
  /\ UNCHANGED <<at, attempt, segments, repairs, pending, acted, stream, ran>>

\* A frame goes out at once if no tools were offered. While a peer's answer is
\* pending the model's frames are dropped.
ReadFrame ==
  /\ at = "stream" /\ ~expired /\ ~pending /\ Len(attempt.held) < attempt.limit
  /\ plan' = SomePlan
  /\ LET held == Append(attempt.held, "model")
         sent == IF attempt.offered = {} THEN Len(held) ELSE 0
     IN /\ attempt' = [attempt EXCEPT !.held = held, !.sent = sent]
        /\ stream' = IF sent = 0 THEN stream ELSE WithFrames(Index, held, attempt.sent)
  /\ UNCHANGED <<at, segments, repairs, pending, acted, ran>>

\* The model may call what it was not offered.
ReadCall ==
  /\ at = "stream" /\ ~expired /\ Len(attempt.calls) < MaxBatch
  /\ \E kind \in Tools : attempt' = [attempt EXCEPT !.calls = Append(@, kind)]
  /\ UNCHANGED <<at, plan, segments, repairs, pending, acted, stream, ran>>

\* The stream ends with its completion, or it breaks: an error of the provider,
\* an unreadable record, a frame too many, no completion, the time is up.
StreamEnds ==
  /\ at = "stream"
  /\ \E end \in {"stop", "tool_calls", "fault"} :
       /\ end = "fault" \/ ~expired
       /\ at' = "judge" /\ attempt' = [attempt EXCEPT !.end = end]
  /\ UNCHANGED <<plan, segments, repairs, pending, acted, stream, ran>>

-----------------------------------------------------------------------------
(* What a stream amounts to *)

\* Mutant: any number of announcements.
BatchFitsTalkative ==
  LET calls == attempt.calls
  IN /\ calls # <<>> /\ Range(calls) \subseteq attempt.offered
     /\ Len(calls) <= MaxCalls - Calls(segments)
     /\ Called(calls, Acting) => Len(calls) = 1

BatchFits ==
  LET calls == attempt.calls
  IN /\ calls # <<>> /\ Range(calls) \subseteq attempt.offered
     /\ Len(attempt.held) <= 1
     /\ Len(calls) <= MaxCalls - Calls(segments)
     /\ Called(calls, Acting) => Len(calls) = 1

AnswerFits == attempt.calls = <<>> /\ plan # "none" /\ attempt.held # <<>>

Judge ==
  /\ at = "judge"
  /\ CASE attempt.end = "tool_calls" /\ BatchFits ->
            /\ at' = "window" /\ plan' = SomePlan
            /\ stream' = IF Index = 0 THEN WithReaction(stream) ELSE stream
       [] attempt.end = "stop" /\ AnswerFits /\ ~pending -> at' = "answer" /\ UNCHANGED <<plan, stream>>
       [] OTHER -> at' = "failed" /\ UNCHANGED <<plan, stream>>
  /\ UNCHANGED <<attempt, segments, repairs, pending, acted, ran>>

Answer ==
  /\ at = "answer" /\ plan' = plan
  /\ Finish(WithFrames(Index, attempt.held, attempt.sent),
            <<Segment(IF expired THEN "partial" ELSE "complete", attempt.held, <<>>)>>,
            IF expired THEN "partial" ELSE "completed")

\* Mutant: calls that only read at a peer leave the model's words standing.
StandingWithPeers == IF Called(attempt.calls, Acting) THEN <<>> ELSE attempt.held

\* What the model says beside calls that act or go to a peer is dropped: no result
\* could bear it out yet.
Standing == IF Called(attempt.calls, Acting \cup Peers) THEN <<>> ELSE attempt.held

\* An announcement is shown before the tools run, if they only read.
RunTools ==
  /\ at = "window"
  /\ IF expired THEN at' = "failed" /\ UNCHANGED <<attempt, plan, acted, stream, ran>>
     ELSE LET acts == Called(attempt.calls, Acting)
          IN /\ at' = "tools" /\ plan' = plan
             /\ acted' = (acted \/ acts) /\ ran' = ran + IF acts THEN 1 ELSE 0
             /\ attempt' = [attempt EXCEPT !.held = Standing, !.sent = Len(Standing)]
             /\ stream' = WithFrames(Index, Standing, 0)
  /\ UNCHANGED <<segments, repairs, pending>>

ToolsFail ==
  /\ at = "tools" /\ at' = "failed"
  /\ UNCHANGED <<attempt, plan, segments, repairs, pending, acted, stream, ran>>

Batch == Segment("tool_batch", attempt.held, attempt.calls)

\* The results of tools that only read or act go to the next segment.
Results ==
  /\ at = "tools" /\ ~Called(attempt.calls, {"ask", "resume"})
  /\ IF expired THEN GiveUp(<<Batch>>)
     ELSE /\ at' = "segment" /\ attempt' = NoAttempt /\ segments' = Append(segments, Batch)
          /\ UNCHANGED <<plan, repairs, pending, acted, stream, ran>>

\* A peer's answer, or the reason why there is none, is the answer of the turn:
\* the runtime shows it in frames of its own.
PeerAnswers ==
  /\ at = "tools" /\ Called(attempt.calls, {"ask", "resume"})
  /\ IF expired THEN GiveUp(<<Batch>>)
     ELSE \E n \in 1..attempt.limit :
            LET answer == [i \in 1..n |-> "runtime"]
            IN /\ plan' = plan
               /\ Finish(WithFrames(Index + 1, answer, attempt.sent),
                         <<Batch, Segment("complete", answer, <<>>)>>, "completed")

\* The peer has not answered: the next segment may ask again.
PeerPending ==
  /\ at = "tools" /\ Called(attempt.calls, {"ask", "resume"})
  /\ IF expired
     THEN /\ plan' = plan
          /\ Finish(WithFrames(Index + 1, Own, attempt.sent),
                    <<Batch, Segment("complete", Own, <<>>)>>, "completed")
     ELSE /\ at' = "segment" /\ pending' = TRUE
          /\ attempt' = NoAttempt /\ segments' = Append(segments, Batch)
          /\ UNCHANGED <<plan, repairs, acted, stream, ran>>

\* Mutant: the repaired attempt is offered what the first one was.
RetrySame ==
  /\ repairs' = repairs + 1
  /\ Attempt(attempt.offered)
  /\ UNCHANGED <<plan, segments, pending, acted, stream, ran>>

\* Mutant: repairs are not counted.
RetryFree ==
  /\ Attempt(IF acted THEN {} ELSE attempt.offered)
  /\ UNCHANGED <<repairs, plan, segments, pending, acted, stream, ran>>

Retry ==
  /\ repairs' = repairs + 1
  /\ Attempt(IF acted THEN {} ELSE attempt.offered)
  /\ UNCHANGED <<plan, segments, pending, acted, stream, ran>>

Failure ==
  /\ at = "failed"
  /\ CASE pending \/ Called(attempt.calls, Peers) -> SayInstead(attempt.sent)
       [] ~pending /\ ~Called(attempt.calls, Peers) /\ Standing # <<>> ->
            /\ plan' = plan
            /\ Finish(WithFrames(Index, Standing, attempt.sent),
                      <<Segment("partial", Standing, <<>>)>>, "partial")
       [] ~pending /\ ~Called(attempt.calls, Peers) /\ Standing = <<>> ->
            IF Frames # {} \/ expired \/ segments # <<>> \/ repairs >= MaxRepairs
            THEN GiveUp(<<Segment("failed", <<>>, <<>>)>>) ELSE Retry

-----------------------------------------------------------------------------
(* The surroundings *)

\* The runtime stops without a result: the generation was fenced in the database,
\* the request has expired, or a frame for a peer is not borne out.
GoesStale ==
  /\ at # "done" /\ at' = "done" /\ stream' = Append(stream, Error("runtime"))
  /\ attempt' = NoAttempt /\ segments' = <<>>
  /\ UNCHANGED <<plan, repairs, pending, acted, ran, expired, enabled, toggled>>

Tick ==
  /\ at # "done" /\ ~expired /\ expired' = TRUE
  /\ UNCHANGED <<engineVars, enabled, toggled>>

\* The owner changes the setting from another chat (bound: once, while it matters).
Toggle ==
  /\ at # "done" /\ plan # "plain" /\ ~toggled /\ toggled' = TRUE /\ enabled' = ~enabled
  /\ UNCHANGED <<engineVars, expired>>

-----------------------------------------------------------------------------
Engine ==
  /\ \/ Begin \/ SetupRequired \/ ReadPlan \/ ReadFrame \/ ReadCall \/ StreamEnds
     \/ Judge \/ Answer \/ RunTools \/ ToolsFail \/ Results \/ PeerAnswers \/ PeerPending \/ Failure
  /\ UNCHANGED <<expired, enabled, toggled>>

Init ==
  /\ at = "segment" /\ plan = "none" /\ segments = <<>> /\ repairs = 0
  /\ attempt = NoAttempt
  /\ pending = FALSE /\ acted = FALSE /\ stream = <<>> /\ ran = 0
  /\ expired = FALSE /\ enabled \in BOOLEAN /\ toggled = FALSE

Next == Engine \/ GoesStale \/ Tick \/ Toggle

\* The provider's stream and the tools have timeouts of their own.
Spec == Init /\ [][Next]_vars /\ WF_vars(Engine)

-----------------------------------------------------------------------------
(* Properties *)

\* However the turn goes, the host accepts every event and the result at its end:
\* numbering, budget and shape as iter_event_markers and _v3_result_parts count
\* them. (Reactions allowed in the middle of the turn are the exception: the
\* reaction then follows a frame.)
StreamIsAccepted == toggled \/ Accepts(stream)

\* Once a frame was shown the turn ends with a result, completed or partial: no
\* failure of the model, of a tool or of the clock takes the answer away
\* (_respond_iter's failure branches).
ShownTurnsComplete ==
  at = "done" /\ Frames # {} =>
    Last(stream).type = "completed" \/ Last(stream) = Error("runtime")

\* A call of a tool that acts or asks a peer, made after the frames of that
\* segment had gone out because no tools were offered.
CalledAfterwards == attempt.sent > 0 /\ attempt.offered = {} /\ Called(attempt.calls, Acting \cup Peers)

\* The same, but for that call: its failure drops the frames that are out already.
ShownAnswersStand == CalledAfterwards \/ ShownTurnsComplete

\* Nothing the model says before the result is known is shown: no frame of a
\* segment that acts or reads at a peer, and, once a peer was asked, none at all
\* (segment_frames.clear, pending_peer_resume).
OnlyGroundedFrames ==
  \A f \in Frames :
    f.by = "model" =>
      \A j \in DOMAIN segments :
        /\ j = f.seg + 1 => ~Called(segments[j].calls, Acting \cup Peers)
        /\ j <= f.seg + 1 => ~Called(segments[j].calls, {"ask", "resume"})

\* A turn runs at most one batch that changes something, whatever fails after it
\* (mutating_execution_attempted).
ActsOnce == ran <= 1

\* Every turn ends.
TurnEnds == <>(at = "done")

=============================================================================
