-------------------------- MODULE Recording_proofs --------------------------
(***************************************************************************)
(* The safety of the path of a segment event, for any bounds, and that it  *)
(* implements what FlushPerSegment promises.                               *)
(***************************************************************************)
EXTENDS Recording, Thumbnail_proofs

\* The messages that have been handled.
Handled == Len(calls) + finished

\* Every message is on the bus or has been handled, by turns as an opening and as a
\* closing; none is of a segment that is not open.
CountsInv ==
  /\ Segs!TypeOK
  /\ Len(calls) = (IF tracker THEN finished + 1 ELSE finished)
  /\ Handled + Len(bus) = opened + Cardinality(closed)
  /\ \A j \in 1 .. Len(bus) : bus[j].segment \in 1 .. opened

\* Of the segments opened in turn, the k-th was the message 2k - 1; from the last of them
\* on there are more.
TurnInv ==
  /\ opened + Cardinality(closed) >= 2 * inTurn - 1
  /\ \A j \in 1 .. Len(bus), k \in 1 .. inTurn : Handled + j = 2 * k - 1 => bus[j].segment = k

SegmentsInv == CountsInv /\ TurnInv

\* A call is a flush under way, a frame queued or counted, or came to nothing.
Work ==
  Len(queue) + createCount + (IF task = "count" THEN 1 ELSE 0) + (IF flushing THEN 1 ELSE 0)
WorkInv == Work <= Len(calls)

\* The inductive invariant of the composition.
RecordingInv == ThumbnailInv /\ SegmentsInv /\ WorkInv

\* Before the first segment nothing is on the bus.
LEMMA RecordingStarts == RecordingInit => RecordingInv
<1> SUFFICES ASSUME RecordingInit PROVE RecordingInv
  OBVIOUS
<1>1. ThumbnailInv
  BY ThumbnailInit DEF RecordingInit
<1>2. /\ opened = 0 /\ closed = {} /\ inTurn = 0 /\ tracker = FALSE /\ finished = 0
      /\ calls = <<>> /\ bus = <<>> /\ calledOn = "none"
  BY DEF RecordingInit, Segs!Init
<1>3. Segs!TypeOK
  <2>1. calls \in Seq(Segs!Segment) /\ bus \in Seq(Segs!Message)
    BY <1>2, EmptySeq
  <2>2. opened \in 0 .. MaxSegments /\ inTurn \in 0 .. opened /\ closed \subseteq 1 .. opened
    BY <1>2, BoundsAssumption
  <2> QED
    BY <1>2, <2>1, <2>2 DEF Segs!TypeOK
<1>4. SegmentsInv
  BY <1>2, <1>3, FS_EmptySet DEF SegmentsInv, CountsInv, TurnInv, Handled
<1>5. WorkInv
  BY <1>2 DEF RecordingInit, Init, WorkInv, Work
<1> QED
  BY <1>1, <1>4, <1>5 DEF RecordingInv

\* What the types and the counts say in numbers.
LEMMA SegmentNumbers ==
  ASSUME CountsInv
  PROVE  /\ opened \in Nat /\ inTurn \in Nat /\ inTurn <= opened /\ opened <= MaxSegments
         /\ finished \in Nat /\ Len(calls) \in Nat /\ Len(bus) \in Nat /\ Handled \in Nat
         /\ tracker \in BOOLEAN
         /\ IsFiniteSet(closed) /\ Cardinality(closed) \in Nat /\ Cardinality(closed) <= opened
<1>1. /\ opened \in 0 .. MaxSegments /\ inTurn \in 0 .. opened /\ closed \subseteq 1 .. opened
      /\ finished \in Nat /\ calls \in Seq(Segs!Segment) /\ bus \in Seq(Segs!Message)
      /\ tracker \in BOOLEAN
  BY DEF CountsInv, Segs!TypeOK
<1>2. opened \in Nat /\ inTurn \in Nat /\ inTurn <= opened /\ opened <= MaxSegments
  BY <1>1, BoundsAssumption
<1>3. Len(calls) \in Nat /\ Len(bus) \in Nat
  BY <1>1, LenProperties
<1>4. IsFiniteSet(1 .. opened) /\ Cardinality(1 .. opened) = opened
  BY <1>2, FS_Interval
<1>5. IsFiniteSet(closed) /\ Cardinality(closed) <= opened
  BY <1>1, <1>4, FS_Subset
<1> QED
  BY <1>1, <1>2, <1>3, <1>5, FS_CardinalityType DEF Handled

\* A message posted by the sink is the last one on the bus.
LEMMA SinkStep ==
  ASSUME SegmentsInv, Segs!Sink
  PROVE  SegmentsInv' /\ UNCHANGED calls
<1> USE DEF SegmentsInv
<1>1. bus \in Seq(Segs!Message) /\ closed \subseteq 1 .. opened
  BY DEF CountsInv, Segs!TypeOK
<1>2. UNCHANGED <<tracker, calls, calledOn, finished>> /\ Handled' = Handled
  BY DEF Segs!Sink, Segs!Open, Segs!Close, Segs!handlerVars, Handled
<1>3. ASSUME NEW m \in Segs!Message, bus' = Append(bus, m)
      PROVE  /\ bus' \in Seq(Segs!Message) /\ Len(bus') = Len(bus) + 1
             /\ \A j \in 1 .. Len(bus) : bus'[j] = bus[j]
             /\ bus'[Len(bus) + 1] = m
  BY <1>1, <1>3, AppendProperties
<1>4. CASE Segs!Open
  <2> DEFINE m == [event |-> "opened", segment |-> opened + 1]
  <2>1. /\ opened' = opened + 1 /\ closed' = closed /\ bus' = Append(bus, m)
        /\ opened < MaxSegments
        /\ inTurn' = IF inTurn = opened /\ closed = 1 .. opened THEN opened + 1 ELSE inTurn
    BY <1>4 DEF Segs!Open
  <2>2. m \in Segs!Message /\ opened + 1 \in 1 .. MaxSegments
    BY <2>1, SegmentNumbers, BoundsAssumption DEF Segs!Message, Segs!Segment
  <2>3. m.segment = opened + 1
    OBVIOUS
  <2> HIDE DEF m
  <2>4. /\ bus' \in Seq(Segs!Message) /\ Len(bus') = Len(bus) + 1
        /\ \A j \in 1 .. Len(bus) : bus'[j] = bus[j]
        /\ bus'[Len(bus) + 1] = m
    BY <1>3, <2>1, <2>2
  <2>5. Segs!TypeOK'
    <3>1. /\ opened' \in 0 .. MaxSegments /\ inTurn' \in 0 .. opened'
          /\ closed' \subseteq 1 .. opened'
      BY <1>1, <2>1, SegmentNumbers, BoundsAssumption
    <3> QED
      BY <1>2, <2>4, <3>1 DEF CountsInv, Segs!TypeOK
  <2>6. CountsInv'
    <3>1. \A j \in 1 .. Len(bus') : bus'[j].segment \in 1 .. opened'
      BY <2>1, <2>3, <2>4, SegmentNumbers DEF CountsInv
    <3>2. Handled' + Len(bus') = opened' + Cardinality(closed')
      <4>1. Handled + Len(bus) = opened + Cardinality(closed)
        BY DEF CountsInv
      <4>2. Handled \in Nat /\ Len(bus) \in Nat /\ opened \in Nat /\ Cardinality(closed) \in Nat
        BY SegmentNumbers
      <4>3. Cardinality(closed') = Cardinality(closed)
        BY <2>1
      <4> HIDE DEF SegmentsInv
      <4> QED
        BY <1>2, <2>1, <2>4, <4>1, <4>2, <4>3
    <3> QED
      BY <1>2, <2>5, <3>1, <3>2 DEF CountsInv
  <2>7. TurnInv'
    <3>1. Handled + Len(bus) = opened + Cardinality(closed)
      BY DEF CountsInv
    <3>2. CASE inTurn = opened /\ closed = 1 .. opened
      <4>1. Cardinality(closed) = opened /\ inTurn' = opened + 1
        <5>1. opened \in Nat
          BY SegmentNumbers
        <5>2. Cardinality(1 .. opened) = opened
          BY <5>1, FS_Interval
        <5> QED
          BY <2>1, <3>2, <5>2
      <4>2. ASSUME NEW j \in 1 .. Len(bus'), NEW k \in 1 .. inTurn', Handled' + j = 2 * k - 1
            PROVE  bus'[j].segment = k
        <5>1. CASE j = Len(bus) + 1
          <6>1. k = opened + 1
            BY <1>2, <3>1, <4>1, <4>2, <5>1, SegmentNumbers
          <6> QED
            BY <2>3, <2>4, <5>1, <6>1
        <5>2. CASE j # Len(bus) + 1
          <6>1. j \in 1 .. Len(bus) /\ k \in 1 .. inTurn /\ Handled + j = 2 * k - 1
            BY <1>2, <2>4, <3>1, <3>2, <4>1, <4>2, <5>2, SegmentNumbers
          <6> QED
            BY <2>4, <6>1 DEF TurnInv
        <5> QED
          BY <5>1, <5>2
      <4>3. opened' + Cardinality(closed') >= 2 * inTurn' - 1
        BY <2>1, <4>1, SegmentNumbers
      <4> QED
        BY <4>2, <4>3 DEF TurnInv
    <3>3. CASE ~(inTurn = opened /\ closed = 1 .. opened)
      <4>1. inTurn' = inTurn
        BY <2>1, <3>3
      <4>2. ASSUME NEW j \in 1 .. Len(bus'), NEW k \in 1 .. inTurn', Handled' + j = 2 * k - 1
            PROVE  bus'[j].segment = k
        <5>1. j \in 1 .. Len(bus) /\ k \in 1 .. inTurn /\ Handled + j = 2 * k - 1
          BY <1>2, <2>4, <3>1, <4>1, <4>2, SegmentNumbers DEF TurnInv
        <5> QED
          BY <2>4, <5>1 DEF TurnInv
      <4>3. opened' + Cardinality(closed') >= 2 * inTurn' - 1
        BY <2>1, <4>1, SegmentNumbers DEF TurnInv
      <4> QED
        BY <4>2, <4>3 DEF TurnInv
    <3> QED
      BY <3>2, <3>3
  <2> QED
    BY <1>2, <2>6, <2>7
<1>5. ASSUME NEW s \in Segs!Segment, Segs!Close(s)
      PROVE  SegmentsInv' /\ UNCHANGED calls
  <2> DEFINE m == [event |-> "closed", segment |-> s]
  <2>1. /\ opened' = opened /\ inTurn' = inTurn /\ closed' = closed \cup {s}
        /\ s <= opened /\ s \notin closed /\ bus' = Append(bus, m)
    BY <1>5 DEF Segs!Close
  <2>2. m \in Segs!Message /\ s \in 1 .. opened
    BY <1>5, <2>1, SegmentNumbers, BoundsAssumption DEF Segs!Message, Segs!Segment
  <2>3. m.segment = s
    OBVIOUS
  <2> HIDE DEF m
  <2>4. /\ bus' \in Seq(Segs!Message) /\ Len(bus') = Len(bus) + 1
        /\ \A j \in 1 .. Len(bus) : bus'[j] = bus[j]
        /\ bus'[Len(bus) + 1] = m
    BY <1>3, <2>1, <2>2
  <2>5. Cardinality(closed') = Cardinality(closed) + 1
    BY <2>1, SegmentNumbers, FS_AddElement
  <2>6. CountsInv'
    <3>1. Segs!TypeOK'
      BY <1>1, <1>2, <2>1, <2>2, <2>4 DEF CountsInv, Segs!TypeOK
    <3>2. \A j \in 1 .. Len(bus') : bus'[j].segment \in 1 .. opened'
      BY <2>1, <2>2, <2>3, <2>4, SegmentNumbers DEF CountsInv
    <3>3. Handled' + Len(bus') = opened' + Cardinality(closed')
      <4>1. Handled + Len(bus) = opened + Cardinality(closed)
        BY DEF CountsInv
      <4>2. Handled \in Nat /\ Len(bus) \in Nat /\ opened \in Nat /\ Cardinality(closed) \in Nat
        BY SegmentNumbers
      <4> HIDE DEF SegmentsInv
      <4> QED
        BY <1>2, <2>1, <2>4, <2>5, <4>1, <4>2
    <3> QED
      BY <1>2, <3>1, <3>2, <3>3 DEF CountsInv
  <2>7. TurnInv'
    <3>1. Handled + Len(bus) = opened + Cardinality(closed)
      BY DEF CountsInv
    <3>2. ASSUME NEW j \in 1 .. Len(bus'), NEW k \in 1 .. inTurn', Handled' + j = 2 * k - 1
          PROVE  bus'[j].segment = k
      <4>1. j \in 1 .. Len(bus) /\ k \in 1 .. inTurn /\ Handled + j = 2 * k - 1
        BY <1>2, <2>1, <2>4, <3>1, <3>2, SegmentNumbers DEF TurnInv
      <4> QED
        BY <2>4, <4>1 DEF TurnInv
    <3>3. opened' + Cardinality(closed') >= 2 * inTurn' - 1
      BY <2>1, <2>5, SegmentNumbers DEF TurnInv
    <3> QED
      BY <3>2, <3>3 DEF TurnInv
  <2> QED
    BY <1>2, <2>6, <2>7
<1> QED
  BY <1>4, <1>5 DEF Segs!Sink

\* The first message is handled: as an opening, it is a call for its segment.
LEMMA HandlerStep ==
  ASSUME SegmentsInv, Segs!HandleNewSegment
  PROVE  /\ SegmentsInv'
         /\ calls' = IF tracker THEN calls ELSE Append(calls, Head(bus).segment)
         /\ Len(calls') = IF tracker THEN Len(calls) ELSE Len(calls) + 1
<1> USE DEF SegmentsInv
<1>1. /\ bus # <<>> /\ bus' = Tail(bus) /\ bus \in Seq(Segs!Message)
      /\ UNCHANGED <<opened, closed, inTurn>> /\ tracker' = ~tracker
      /\ calls \in Seq(Segs!Segment)
  BY DEF CountsInv, Segs!TypeOK, Segs!HandleNewSegment
<1>2. /\ bus' \in Seq(Segs!Message) /\ Len(bus') = Len(bus) - 1
      /\ \A j \in 1 .. Len(bus') : bus'[j] = bus[j + 1]
      /\ Head(bus) \in Segs!Message
  BY <1>1, HeadTailProperties
<1>3. Head(bus).segment \in Segs!Segment /\ Head(bus).event \in {"opened", "closed"}
  BY <1>2 DEF Segs!Message
<1>4. CASE tracker
  <2>1. calls' = calls /\ calledOn' = calledOn /\ finished' = finished + 1 /\ ~tracker'
    BY <1>1, <1>4 DEF Segs!HandleNewSegment
  <2>2. Handled' = Handled + 1 /\ Len(calls') = finished'
    <3>1. Len(calls) \in Nat /\ finished \in Nat /\ Len(calls) = finished + 1
      BY <1>4, SegmentNumbers DEF CountsInv
    <3>2. Len(calls') = Len(calls)
      BY <2>1
    <3> QED
      BY <2>1, <3>1, <3>2 DEF Handled
  <2>3. Segs!TypeOK'
    BY <1>1, <1>2, <2>1, SegmentNumbers DEF CountsInv, Segs!TypeOK
  <2>4. CountsInv'
    <3>1. \A j \in 1 .. Len(bus') : bus'[j].segment \in 1 .. opened'
      BY <1>1, <1>2, SegmentNumbers DEF CountsInv
    <3>2. Handled' + Len(bus') = opened' + Cardinality(closed')
      BY <1>1, <1>2, <2>2, SegmentNumbers DEF CountsInv
    <3> QED
      BY <2>1, <2>2, <2>3, <3>1, <3>2 DEF CountsInv
  <2>5. TurnInv'
    BY <1>1, <1>2, <2>2, SegmentNumbers DEF TurnInv
  <2> QED
    BY <1>4, <2>1, <2>4, <2>5
<1>5. CASE ~tracker
  <2>1. /\ calls' = Append(calls, Head(bus).segment) /\ calledOn' = Head(bus).event
        /\ finished' = finished /\ tracker'
    BY <1>1, <1>5 DEF Segs!HandleNewSegment
  <2>2. calls' \in Seq(Segs!Segment) /\ Len(calls') = Len(calls) + 1
    BY <1>1, <1>3, <2>1, AppendProperties
  <2>3. Handled' = Handled + 1 /\ Len(calls') = finished' + 1
    BY <1>5, <2>1, <2>2, SegmentNumbers DEF Handled, CountsInv
  <2>4. Segs!TypeOK'
    <3>1. tracker' \in BOOLEAN
      BY <1>1
    <3> QED
      BY <1>1, <1>2, <1>3, <2>1, <2>2, <3>1 DEF CountsInv, Segs!TypeOK
  <2>5. CountsInv'
    <3>1. \A j \in 1 .. Len(bus') : bus'[j].segment \in 1 .. opened'
      BY <1>1, <1>2, SegmentNumbers DEF CountsInv
    <3>2. Handled' + Len(bus') = opened' + Cardinality(closed')
      BY <1>1, <1>2, <2>3, SegmentNumbers DEF CountsInv
    <3> QED
      BY <2>1, <2>3, <2>4, <3>1, <3>2 DEF CountsInv
  <2>6. TurnInv'
    BY <1>1, <1>2, <2>3, SegmentNumbers DEF TurnInv
  <2> QED
    BY <1>5, <2>1, <2>2, <2>5, <2>6
<1> QED
  BY <1>1, <1>4, <1>5

\* Only a new segment adds work; every other step of the thumbnails moves it on or
\* loses it.
LEMMA WorkStep ==
  ASSUME ThumbnailInv, [Next]_vars
  PROVE  Work' <= Work + (IF flushing' /\ ~flushing THEN 1 ELSE 0)
<1>1. /\ queue \in Seq(Caps) /\ Len(queue) \in Nat /\ createCount \in Nat /\ flushing \in BOOLEAN
      /\ task \in {"idle", "count", "write", "uncount", "stopped", "eos"}
  <2>1. /\ queue \in Seq(Caps) /\ createCount \in Nat /\ flushing \in BOOLEAN
        /\ task \in {"idle", "count", "write", "uncount", "stopped", "eos"}
    BY DEF ThumbnailInv, TypeOK
  <2>2. Len(queue) \in Nat
    BY <2>1, LenProperties
  <2> QED
    BY <2>1, <2>2
<1> USE DEF threadVars, sourceVars, probeVars, frameVars, appsrcVars, sinkVars, flushVars
<1>2. ASSUME UNCHANGED <<queue, createCount, task, flushing>>
      PROVE  Work' <= Work + (IF flushing' /\ ~flushing THEN 1 ELSE 0)
  BY <1>1, <1>2 DEF Work
<1>3. Flow \/ ConnectNoCaps \/ ConnectProbe \/ RebuildFails \/ RebuildPanics \/ ConnectFails
        \/ ConnectDone \/ FlushPanics \/ UNCHANGED vars
      => UNCHANGED <<queue, createCount, task, flushing>>
  BY DEF Flow, Frame, QueueCaps, DecoderCaps, ConnectNoCaps, ConnectProbe, RebuildFails,
         RebuildPanics, ConnectFails, ConnectDone, FlushPanics, vars
<1>4. CASE ConnectNull \/ (ConnectNullFails /\ GoDown)
  <2>1. queue' = <<>> /\ Len(queue') = 0 /\ task' = "idle" /\ UNCHANGED <<createCount, flushing>>
    BY <1>4 DEF ConnectNull, ConnectNullFails, GoDown
  <2> QED
    BY <1>1, <2>1 DEF Work
<1>5. CASE ConnectNullFails /\ ~GoDown
  BY <1>2, <1>5 DEF ConnectNullFails
<1>6. CASE NewSegment
  BY <1>1, <1>6 DEF NewSegment, Work
<1>7. CASE Flush
  <2>1. Len(queue') \in {Len(queue), Len(queue) + 1}
    <3>1. CASE UNCHANGED queue
      BY <3>1
    <3>2. CASE queue' = Append(queue, frame) /\ frame # NoFrame
      <4>1. frame \in Caps
        BY <3>2 DEF ThumbnailInv, TypeOK
      <4> QED
        BY <1>1, <3>2, <4>1, AppendProperties
    <3> QED
      BY <1>7, <3>1, <3>2 DEF Flush
  <2>2. flushing = TRUE /\ flushing' = FALSE /\ UNCHANGED <<createCount, task>>
    BY <1>1, <1>7 DEF Flush
  <2> QED
    BY <1>1, <2>1, <2>2 DEF Work
<1>8. CASE Push
  <2>1. Len(queue') = Len(queue) - 1
    BY <1>1, <1>8, HeadTailProperties DEF Push
  <2> QED
    BY <1>1, <1>8, <2>1 DEF Push, Work
<1>9. CASE SampleMissing \/ Count \/ WriteFile \/ WriteFileFails \/ Uncount
  BY <1>1, <1>9 DEF SampleMissing, Count, WriteFile, WriteFileFails, Uncount, Work
<1> QED
  BY <1>2, <1>3, <1>4, <1>5, <1>6, <1>7, <1>8, <1>9 DEF Next, Connect, ConnectStep, NewSample

\* Every step of every thread keeps the invariant of the composition.
LEMMA RecordingStep == RecordingInv /\ [RecordingNext]_recordingVars => RecordingInv'
<1> SUFFICES ASSUME RecordingInv, [RecordingNext]_recordingVars PROVE RecordingInv'
  OBVIOUS
<1>1. ThumbnailInv /\ SegmentsInv /\ WorkInv
  BY DEF RecordingInv
<1>2. Work \in Nat /\ Len(calls) \in Nat /\ flushing \in BOOLEAN
  BY <1>1, LenProperties, SegmentNumbers DEF ThumbnailInv, TypeOK, SegmentsInv, Work
<1>3. CASE UNCHANGED segmentVars /\ ((Alive /\ (Thumbnails \/ FlushReturn)) \/ UNCHANGED vars)
  <2>1. [Next]_vars
    BY <1>3 DEF Thumbnails, FlushReturn, Next
  <2>2. ~(flushing' /\ ~flushing)
    <3>1. Flow \/ Connect \/ NewSample \/ SampleMissing \/ Flush \/ FlushPanics \/ UNCHANGED vars
      BY <1>3 DEF Thumbnails, FlushReturn
    <3> QED
      BY <3>1 DEF Flow, Frame, QueueCaps, DecoderCaps, Connect, ConnectStep, ConnectNoCaps,
                  ConnectProbe, ConnectNull, ConnectNullFails, RebuildFails, RebuildPanics,
                  ConnectFails, ConnectDone, NewSample, SampleMissing, Push, Count, WriteFile,
                  WriteFileFails, Uncount, Flush, FlushPanics, flushVars, vars
  <2>3. ThumbnailInv' /\ Work' <= Work
    <3>1. Work' <= Work + 0
      BY <1>1, <2>1, <2>2, WorkStep
    <3> QED
      BY <1>1, <1>2, <2>1, <3>1, ThumbnailStep
  <2>4. SegmentsInv' /\ calls' = calls
    BY <1>1, <1>3 DEF segmentVars, SegmentsInv, CountsInv, TurnInv, Handled, Segs!TypeOK
  <2>5. Work' \in Nat
    BY <2>3, LenProperties DEF ThumbnailInv, TypeOK, Work
  <2> QED
    BY <1>1, <1>2, <2>3, <2>4, <2>5 DEF RecordingInv, WorkInv
<1>4. CASE Sink \/ Closing
  <2>1. UNCHANGED vars /\ (Segs!Sink \/ (tracker /\ Segs!HandleNewSegment))
    BY <1>4 DEF Sink, Closing
  <2>2. SegmentsInv' /\ calls' = calls
    BY <1>1, <2>1, SinkStep, HandlerStep
  <2>3. ThumbnailInv' /\ Work' = Work
    BY <1>1, <2>1, ThumbnailStep
    DEF vars, threadVars, sourceVars, probeVars, frameVars, appsrcVars, sinkVars, flushVars, Work
  <2> QED
    BY <1>1, <2>2, <2>3 DEF RecordingInv, WorkInv
<1>5. CASE Alive /\ Opening
  <2>1. Segs!HandleNewSegment /\ NewSegment /\ [Next]_vars /\ ~tracker
    BY <1>5 DEF Opening, Next
  <2>2. SegmentsInv' /\ ThumbnailInv' /\ Len(calls') = Len(calls) + 1
    BY <1>1, <2>1, HandlerStep, ThumbnailStep
  <2>3. Work' <= Work + 1
    <3>1. flushing' /\ ~flushing
      BY <2>1 DEF NewSegment
    <3> QED
      BY <1>1, <2>1, <3>1, WorkStep
  <2>4. Work' \in Nat
    BY <2>2, LenProperties DEF ThumbnailInv, TypeOK, Work
  <2> QED
    BY <1>1, <1>2, <2>2, <2>3, <2>4 DEF RecordingInv, WorkInv
<1>6. UNCHANGED recordingVars => UNCHANGED segmentVars /\ UNCHANGED vars
  BY DEF recordingVars
<1>7. Thumbnails \/ FlushReturn => UNCHANGED segmentVars
  BY DEF Thumbnails, FlushReturn
<1> QED
  BY <1>3, <1>4, <1>5, <1>6, <1>7 DEF RecordingNext, Bus

\* A call goes with a segment that is open: no call is made in advance.
LEMMA CallsWithinOpened ==
  ASSUME CountsInv
  PROVE  Len(calls) <= opened /\ (bus # <<>> /\ ~tracker => Len(calls) < opened)
<1>1. bus # <<>> => Len(bus) > 0
  BY EmptySeq, LenProperties DEF CountsInv, Segs!TypeOK
<1>2. Len(calls) + finished + Len(bus) = opened + Cardinality(closed)
  BY DEF CountsInv, Handled
<1>3. CASE tracker
  <2>1. Len(calls) = finished + 1
    BY <1>3 DEF CountsInv
  <2> QED
    BY <1>2, <1>3, <2>1, SegmentNumbers
<1>4. CASE ~tracker
  <2>1. Len(calls) = finished
    BY <1>4 DEF CountsInv
  <2> QED
    BY <1>1, <1>2, <2>1, SegmentNumbers
<1> QED
  BY <1>3, <1>4

\* The files and the frames handed over are part of the work.
LEMMA FilesWithinCalls == RecordingInv => ThumbnailPerSegment
<1> SUFFICES ASSUME RecordingInv PROVE ThumbnailPerSegment
  OBVIOUS
<1>1. /\ createCount \in Nat /\ Len(queue) \in Nat /\ Len(calls) \in Nat
      /\ Work <= Len(calls)
  BY LenProperties, SegmentNumbers DEF RecordingInv, ThumbnailInv, TypeOK, SegmentsInv, WorkInv
<1>2. Len(queue) + createCount <= Len(calls)
  BY <1>1 DEF Work
<1>3. Cardinality(files) \in Nat /\ Cardinality(files) <= createCount
  <2>1. files = 1 .. createCount \/ (createCount # 0 /\ files = 1 .. createCount - 1)
    BY DEF RecordingInv, ThumbnailInv, CountInv, TypeOK
  <2>2. Cardinality(1 .. createCount) = createCount
    BY <1>1, FS_Interval
  <2>3. createCount # 0 => Cardinality(1 .. createCount - 1) = createCount - 1
    BY <1>1, FS_Interval
  <2> QED
    BY <1>1, <2>1, <2>2, <2>3
<1>4. Len(calls) <= opened
  BY CallsWithinOpened DEF RecordingInv, SegmentsInv
<1> QED
  BY <1>1, <1>2, <1>3, <1>4 DEF ThumbnailPerSegment

\* It is an invariant: whatever the threads and the bus do, in whatever order.
LEMMA RecordingInvariant == RecordingSpec => []RecordingInv
<1> QED
  BY RecordingStarts, RecordingStep, PTL DEF RecordingSpec

\* Every variable of the composition has its type.
THEOREM RecordingTypes == RecordingSpec => []RecordingTypeOK
<1>1. RecordingInv => RecordingTypeOK
  BY DEF RecordingInv, ThumbnailInv, SegmentsInv, CountsInv, RecordingTypeOK
<1> QED
  BY <1>1, RecordingInvariant, PTL

\* Every reference the probe takes on a frame is given back exactly once, whether the
\* bus thread flushes it, the streaming thread drops it, or neither.
THEOREM FramesBalance == RecordingSpec => []FrameRefs
<1>1. RecordingInv => FrameRefs
  BY DEF RecordingInv, ThumbnailInv
<1> QED
  BY <1>1, RecordingInvariant, PTL

\* The thumbnails are numbered without gaps, failed writes and reconnections
\* notwithstanding, though the name is made of createCount read without the mutex.
THEOREM NumbersStayDense == RecordingSpec => []NumbersDense
<1>1. RecordingInv => NumbersDense
  BY ThumbnailNumbers DEF RecordingInv
<1> QED
  BY <1>1, RecordingInvariant, PTL

\* As long as only one pad feeds it, and is not the queue with caps Connect was not
\* told of, no frame of former caps is pushed into a chain set up for others.
THEOREM QueueKeepsCaps == RecordingSpec => []QueueMatchesCaps
<1>1. RecordingInv => QueueMatchesCaps
  BY DEF RecordingInv, ThumbnailInv
<1> QED
  BY <1>1, RecordingInvariant, PTL

\* No pad ever has a probe but the last added to it, although RemoveProbe is given the
\* id of the last added to either.
THEOREM ProbesStaySingle == RecordingSpec => []OneProbe
<1>1. RecordingInv => OneProbe
  BY DEF RecordingInv, ThumbnailInv, ProbeInv
<1> QED
  BY <1>1, RecordingInvariant, PTL

\* There are never more thumbnails, written or on their way, than calls of flush, nor
\* more calls than segments begun.
THEOREM ThumbnailsMatchSegments == RecordingSpec => []ThumbnailPerSegment
<1> QED
  BY FilesWithinCalls, RecordingInvariant, PTL

\* The opening and closing of segments by the sink and their handling on the bus, with
\* all the thumbnails do meanwhile, implement the safety of FlushPerSegment: flush is
\* called for 1, 2, 3 ... in order, each once, as far as segments are opened in turn,
\* and from there on for a segment begun, but maybe a wrong one, and not too often.
THEOREM RecordingImplementsPromise == RecordingSpec => Promise!Spec
<1>1. RecordingInit => Promise!Init
  BY DEF RecordingInit, Segs!Init, Promise!Init
<1>2. RecordingInv /\ [RecordingNext]_recordingVars
        => [Promise!Next]_Promise!vars
  <2> SUFFICES ASSUME RecordingInv, [RecordingNext]_recordingVars
               PROVE  [Promise!Next]_Promise!vars
    OBVIOUS
  <2> USE DEF Promise!Next, Promise!vars
  <2>1. CASE UNCHANGED segmentVars
    BY <2>1 DEF segmentVars
  <2>2. CASE Sink
    BY <2>2 DEF Sink, Segs!Sink, Segs!Open, Segs!Close, Segs!handlerVars, Promise!Begin
  <2>3. CASE Opening
    <3> DEFINE s == Head(bus).segment
    <3>1. /\ UNCHANGED <<opened, inTurn>> /\ ~tracker /\ bus # <<>>
          /\ calls' = Append(calls, s)
      BY <2>3 DEF Opening, Segs!HandleNewSegment
    <3>2. Head(bus) = bus[1] /\ 1 \in 1 .. Len(bus)
      BY <3>1, HeadTailProperties, LenProperties, EmptySeq
      DEF RecordingInv, SegmentsInv, CountsInv, Segs!TypeOK
    <3>3. s \in 1 .. opened
      BY <3>2 DEF RecordingInv, SegmentsInv, CountsInv
    <3>4. Len(calls) < opened
      BY <3>1, CallsWithinOpened DEF RecordingInv, SegmentsInv
    <3>5. Len(calls) < inTurn => s = Len(calls) + 1
      <4> SUFFICES ASSUME Len(calls) < inTurn PROVE s = Len(calls) + 1
        OBVIOUS
      <4>1. Len(calls) \in Nat /\ inTurn \in Nat /\ finished \in Nat
        BY SegmentNumbers DEF RecordingInv, SegmentsInv
      <4>2. Handled + 1 = 2 * (Len(calls) + 1) - 1
        BY <3>1, <4>1 DEF RecordingInv, SegmentsInv, CountsInv, Handled
      <4>3. Len(calls) + 1 \in 1 .. inTurn
        BY <4>1
      <4> QED
        BY <3>2, <4>2, <4>3 DEF RecordingInv, SegmentsInv, TurnInv
    <3> HIDE DEF s
    <3>6. Promise!Call(s)
      BY <3>1, <3>3, <3>4, <3>5 DEF Promise!Call
    <3> QED
      BY <3>3, <3>6
  <2>4. CASE Closing
    BY <2>4 DEF Closing, Segs!HandleNewSegment
  <2> QED
    BY <2>1, <2>2, <2>3, <2>4
    DEF RecordingNext, Thumbnails, Bus, FlushReturn, recordingVars
<1> QED
  BY <1>1, <1>2, RecordingInvariant, PTL DEF RecordingSpec, Promise!Spec
=============================================================================
