----------------------------- MODULE Recording ------------------------------
(***************************************************************************)
(* The path of a segment event: SegmentationPipeline and ThumbnailPipeline *)
(* put together, as NewCCTVPipeline (pipeline/internal.go) does.  The      *)
(* thread that dispatches the bus runs HandleNewSegment on every message,  *)
(* and HandleNewSegment runs flush of the thumbnails before it returns: as *)
(* long as flush waits for the mutex, no message is dispatched, be it the  *)
(* end of a segment or an error that should end the program.               *)
(***************************************************************************)
EXTENDS Thumbnail

CONSTANT MaxFinalizing  \* the bound of Segments

ASSUME SegmentBoundsAssumption == MaxFinalizing \in Nat

VARIABLES opened, closed, inTurn, bus, tracker, calls, calledOn, finished

Segs == INSTANCE Segments

segmentVars == <<opened, closed, inTurn, bus, tracker, calls, calledOn, finished>>
recordingVars == <<vars, segmentVars>>

RecordingTypeOK == TypeOK /\ Segs!TypeOK

RecordingInit == Init /\ Segs!Init

\* The threads of the two gst pipelines.
Thumbnails ==
  /\ Flow \/ Connect \/ NewSample \/ SampleMissing
  /\ UNCHANGED segmentVars
Sink == Segs!Sink /\ UNCHANGED vars

\* The bus thread: it dispatches a message unless it is still in flush, which it
\* enters from the callback of HandleNewSegment.
Opening == ~flushing /\ ~tracker /\ Segs!HandleNewSegment /\ NewSegment
Closing == ~flushing /\ tracker /\ Segs!HandleNewSegment /\ UNCHANGED vars
FlushReturn == (Flush \/ FlushPanics) /\ UNCHANGED segmentVars
Bus == Opening \/ Closing \/ FlushReturn

RecordingNext == Alive /\ (Thumbnails \/ Sink \/ Bus)

RecordingFairness ==
  /\ WF_recordingVars(ConnectStep /\ UNCHANGED segmentVars)
  /\ WF_recordingVars(Alive /\ NewSample /\ UNCHANGED segmentVars)
  /\ WF_recordingVars(Alive /\ Bus)
  /\ WF_recordingVars(Alive /\ (\E s \in 1 .. opened - 1 : Segs!Close(s)) /\ UNCHANGED vars)

RecordingSpec == RecordingInit /\ [][RecordingNext]_recordingVars /\ RecordingFairness

-----------------------------------------------------------------------------
\* However openings and closings interleave, and whatever happens to the
\* thumbnails meanwhile, flush is called as FlushPerSegment says, with the segments
\* opened for those begun: for each, once and in order, while they are closed in
\* turn; from then on only as often as segments are opened.  That the calls are
\* made in the end holds as long as Connect is not called again.
Promise == INSTANCE FlushPerSegment WITH begun <- opened, called <- calls
FlushPerSegment == Promise!Spec /\ ([](Connects <= 1) => Promise!Fairness)

\* Two threads and a queue apart, thumbnails do not outnumber segments: there are
\* never more frames handed over and files written than calls of flush, nor more
\* calls than segments, and every file has its number out of that many.
ThumbnailPerSegment ==
  /\ Len(queue) + Cardinality(files) <= Len(calls)
  /\ createCount <= Len(calls) /\ Len(calls) <= opened

\* The bus thread gets back from flush to its messages, and to the end of them, as
\* long as Connect is not called again: the Connect that ConnectReturns shows to
\* hang keeps the mutex that flush then waits for.
BusDrains == bus # <<>> ~> bus = <<>> \/ Connects > 1
=============================================================================
