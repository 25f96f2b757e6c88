---------------------------- MODULE EventStream -----------------------------
(* The events that a sandbox writes for one turn, and what the host makes of  *)
(* them (sandbox_protocol.py). The host reads the events as they come, shows  *)
(* the user every frame, and gives the whole turn up as soon as an event does *)
(* not fit. Both sides count with the same budget. A frame is known by the    *)
(* segment of the answer it belongs to, its place there and its author.       *)
EXTENDS Naturals, FiniteSets, Sequences, SequencesExt, FiniteSetsExt

CONSTANTS
  MaxSegments, \* TurnBudget: model segments of a turn
  MaxRounds,   \* TurnBudget: segments that end in tool calls
  MaxCalls,    \* TurnBudget: tool calls
  MaxVisible,  \* TurnBudget: segments with frames
  MaxFrames,   \* TurnBudget: frames of a segment
  MaxRepairs,  \* TurnBudget: repeated attempts
  TurnFrames   \* frames of a turn

ASSUME BudgetAssumption ==
  /\ {MaxSegments, MaxVisible, MaxFrames, TurnFrames} \subseteq Nat \ {0}
  /\ {MaxRounds, MaxCalls, MaxRepairs} \subseteq Nat
  /\ MaxRounds <= MaxCalls /\ MaxFrames <= TurnFrames /\ MaxVisible <= TurnFrames

-----------------------------------------------------------------------------
(* Results: a sequence of segments [finish, frames, calls] and a status *)

Frame(seg, idx, by) == [type |-> "frame", seg |-> seg, idx |-> idx, by |-> by]

\* The frames of a segment, of which only the authors are kept.
FramesOf(seg, authors) == [i \in DOMAIN authors |-> Frame(seg, i - 1, authors[i])]

\* Segments are numbered from zero. A frame carries its place, so that the frames of
\* a result are a set: that they come in order and once is what FrameFits asks.
Flattened(segments) == UNION {Range(FramesOf(i - 1, segments[i].frames)) : i \in DOMAIN segments}

Rounds(segments) == Cardinality({i \in DOMAIN segments : segments[i].finish = "tool_batch"})
Visible(segments) == Cardinality({i \in DOMAIN segments : segments[i].frames # <<>>})
Calls(segments) == Cardinality(UNION {{i} \X DOMAIN segments[i].calls : i \in DOMAIN segments})

WithinBudget(segments, repairs) ==
  /\ Len(segments) <= MaxSegments /\ Rounds(segments) <= MaxRounds
  /\ Calls(segments) <= MaxCalls /\ Visible(segments) <= MaxVisible /\ repairs <= MaxRepairs

SegmentFits(s) ==
  /\ s.finish = "failed" => s.frames = <<>>
  /\ (s.finish = "tool_batch") = (s.calls # <<>>)
  /\ s.finish \in {"complete", "partial"} => s.frames # <<>>

\* What the status says of the last segment.
EndFits(segments, status) ==
  /\ segments # <<>>
  /\ status = "completed" => Last(segments).finish = "complete"
  /\ status = "partial" => Last(segments).finish # "complete" /\ Flattened(segments) # {}

-----------------------------------------------------------------------------
(* The parser *)

FramesIn(events) == {e \in Range(events) : e.type = "frame"}

\* The next frame after those that were read.
FrameFits(read, f) ==
  LET shown == {r.seg : r \in read}
  IN /\ Cardinality(read) < TurnFrames /\ f.seg < MaxSegments /\ f.idx < MaxFrames
     /\ f.seg \in shown \/ Cardinality(shown) < MaxVisible
     /\ \A seg \in shown : seg <= f.seg
     /\ {r.idx : r \in {r \in read : r.seg = f.seg}} = {idx \in 0 .. MaxFrames : idx < f.idx}

ResultFits(read, e) ==
  LET before == DOMAIN e.segments \ {Len(e.segments)}
  IN /\ Flattened(e.segments) = read /\ EndFits(e.segments, e.status)
     /\ WithinBudget(e.segments, e.repairs)
     /\ \A i \in before : e.segments[i].finish = "tool_batch"
     /\ \A i \in DOMAIN e.segments :
          /\ SegmentFits(e.segments[i]) /\ Len(e.segments[i].frames) <= MaxFrames
          /\ e.segments[i].finish = "tool_batch" => Len(e.segments[i].frames) <= 1

\* One event after those that were accepted before it.
EventFits(events, e) ==
  /\ \A i \in DOMAIN events : events[i].type \notin {"completed", "error"}
  /\ CASE e.type = "frame" -> FrameFits(FramesIn(events), e)
       [] e.type = "reaction" -> \A i \in DOMAIN events : events[i].type \notin {"frame", "reaction"}
       [] e.type = "completed" -> ResultFits(FramesIn(events), e)
       [] e.type = "error" -> TRUE

Accepts(events) == \A i \in DOMAIN events : EventFits(SubSeq(events, 1, i - 1), events[i])

=============================================================================
