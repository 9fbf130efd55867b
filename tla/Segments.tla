------------------------------ MODULE Segments ------------------------------
(***************************************************************************)
(* The segment events of SegmentationPipeline (pipeline/segmentation.go).  *)
(*                                                                         *)
(* splitmuxsink posts a message with the location of a segment when it     *)
(* opens it and another when it has closed it.  HandleNewSegment, run by   *)
(* the thread that dispatches the bus, does not look at the name of the    *)
(* message: fileSegmentTracker makes every other one an opening.  With     *)
(* async-finalize, which the code sets, a segment is closed by a thread of *)
(* its own, before or after the next ones open, and in any order.          *)
(*                                                                         *)
(* Left out: the messages that are not of the sink, or without a location, *)
(* on which HandleNewSegment returns at once, and sg.mutex, taken for the  *)
(* tracker by a handler that only the one thread runs.                     *)
(***************************************************************************)
EXTENDS Naturals, Sequences, FiniteSets

CONSTANTS
  MaxSegments,  \* bound: segments opened
  MaxFinalizing \* bound: segments being closed besides the current one

VARIABLES
  opened,   \* segments opened: SegmentCounter, which HandleFormatLocation counts
  closed,   \* the segments closed
  inTurn,   \* history: the last one opened while every one before it was closed
  bus,      \* the messages on the bus
  tracker,  \* fileSegmentTracker
  calls,    \* the segments onNewFileSegmentCreate was called for, in order
  calledOn, \* the message of the last of them, or "none"
  finished  \* updates of lastFinishedSegment

vars == <<opened, closed, inTurn, bus, tracker, calls, calledOn, finished>>
handlerVars == <<tracker, calls, calledOn, finished>>

Segment == 1 .. MaxSegments
Message == [event : {"opened", "closed"}, segment : Segment]

TypeOK ==
  /\ opened \in 0 .. MaxSegments
  /\ closed \subseteq 1 .. opened
  /\ inTurn \in 0 .. opened
  /\ bus \in Seq(Message)
  /\ tracker \in BOOLEAN
  /\ calls \in Seq(Segment)
  /\ calledOn \in {"none", "opened", "closed"}
  /\ finished \in Nat

Init ==
  /\ opened = 0 /\ closed = {} /\ inTurn = 0 /\ bus = <<>>
  /\ tracker = FALSE /\ calls = <<>> /\ calledOn = "none" /\ finished = 0

\* format-location-full -> HandleFormatLocation, and the message of the opening.
Open ==
  /\ opened < MaxSegments
  /\ opened - Cardinality(closed) <= MaxFinalizing
  /\ opened' = opened + 1
  /\ inTurn' = IF inTurn = opened /\ closed = 1 .. opened THEN opened' ELSE inTurn
  /\ bus' = Append(bus, [event |-> "opened", segment |-> opened'])
  /\ UNCHANGED <<closed, handlerVars>>

\* A segment has been closed; the current one at the end of the stream.
Close(s) ==
  /\ s <= opened /\ s \notin closed
  /\ closed' = closed \cup {s}
  /\ bus' = Append(bus, [event |-> "closed", segment |-> s])
  /\ UNCHANGED <<opened, inTurn, handlerVars>>

\* Mutants of HandleNewSegment: fileSegmentTracker is not looked at; it is set, and
\* never again cleared.
HandleWithoutTracker ==
  /\ bus # <<>>
  /\ bus' = Tail(bus)
  /\ calls' = Append(calls, Head(bus).segment) /\ calledOn' = Head(bus).event
  /\ UNCHANGED <<opened, closed, inTurn, tracker, finished>>
HandleKeepsTracker ==
  /\ bus # <<>>
  /\ bus' = Tail(bus)
  /\ tracker' = TRUE
  /\ IF ~tracker
     THEN /\ calls' = Append(calls, Head(bus).segment)
          /\ calledOn' = Head(bus).event
          /\ UNCHANGED finished
     ELSE finished' = finished + 1 /\ UNCHANGED <<calls, calledOn>>
  /\ UNCHANGED <<opened, closed, inTurn>>

\* HandleNewSegment on a message of the sink that has a location.
HandleNewSegment ==
  /\ bus # <<>>
  /\ bus' = Tail(bus)
  /\ tracker' = ~tracker
  /\ IF ~tracker
     THEN /\ calls' = Append(calls, Head(bus).segment)
          /\ calledOn' = Head(bus).event
          /\ UNCHANGED finished
     ELSE finished' = finished + 1 /\ UNCHANGED <<calls, calledOn>>
  /\ UNCHANGED <<opened, closed, inTurn>>

Sink == Open \/ \E s \in Segment : Close(s)
Next == Sink \/ HandleNewSegment

\* Messages are dispatched, and a segment that is no longer the current one is
\* closed; the stream itself may stop at any time.
Fairness ==
  /\ WF_vars(HandleNewSegment)
  /\ WF_vars(\E s \in 1 .. opened - 1 : Close(s))

Spec == Init /\ [][Next]_vars
FairSpec == Spec /\ Fairness

-----------------------------------------------------------------------------
\* segmentation.go:47 "callback for when new segment is created" : it is called on
\* the message of an opening.
CalledOnOpening == calledOn # "closed"
=============================================================================
