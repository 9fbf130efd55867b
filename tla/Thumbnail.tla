----------------------------- MODULE Thumbnail ------------------------------
(***************************************************************************)
(* ThumbnailPipeline (pipeline/thumbnail_generation.go).                   *)
(*                                                                         *)
(* Three threads share it under th.mutex: the streaming thread of the base *)
(* pipeline, which runs the pad probes on every frame and Connect on every *)
(* change of caps that onNewSource tells of; the thread that dispatches    *)
(* the bus, which runs flush when a segment begins; and the streaming      *)
(* thread of the thumbnail pipeline, which runs NewSampleFunc on every     *)
(* encoded frame.  A frame is abstracted to the caps it was produced       *)
(* under; the caps of a stream are numbered as they come.                  *)
(***************************************************************************)
EXTENDS Integers, Sequences, FiniteSets

CONSTANTS
  MaxCaps,     \* bound: caps set on the pads, those of the queue and the decoder's
  MaxSegments  \* bound: segments begun, each of which is a flush

ASSUME BoundsAssumption == MaxCaps \in Nat \ {0} /\ MaxSegments \in Nat

NoFrame == 0      \* frameBuffer is nil
NoCaps == 0       \* the current caps of a pad are nil
Caps == 1 .. MaxCaps
Sources == {"queue", "decoder"}  \* what segmentation gives to Connect

VARIABLES
  locked,       \* Connect holds th.mutex (the other holders release it at once)
  stream,       \* what the base streaming thread executes
  settled,      \* the source of the stream segmentation has adopted, or "no"
  source,       \* th.source
  lastCaps,     \* the last caps of any pad
  padCaps,      \* the current caps of the src pad of each source
  probes,       \* the ids of the probes on that pad
  lastProbe,    \* the id the next probe of the pad follows
  currentProbe, \* state.currentProbe, 0 for none
  frame,        \* the caps of state.frameBuffer
  held,         \* references on frames taken by Ref and not given back
  chain,        \* the elements from appsrc to the appsink
  appsrcUp,     \* appsrc takes buffers and runs its task
  appsrcCaps,   \* the caps given to appsrc
  queue,        \* the frames queued in appsrc
  task,         \* what the thumbnail streaming thread executes
  createCount,  \* state.createCount
  files,        \* the numbers of the thumbnail files written
  flushing,     \* the bus thread is in flush
  segments      \* segments begun

threadVars == <<locked, stream>>
sourceVars == <<settled, source, lastCaps, padCaps>>
probeVars == <<probes, lastProbe, currentProbe>>
frameVars == <<frame, held>>
appsrcVars == <<chain, appsrcUp, appsrcCaps, queue>>
sinkVars == <<task, createCount, files>>
flushVars == <<flushing, segments>>
vars == <<threadVars, sourceVars, probeVars, frameVars, appsrcVars, sinkVars, flushVars>>

\* "loose": in the pipeline, but not all linked or up; "stale": linked for caps of
\* before; "stuck": an element is out of the pipeline, from which every later
\* Connect removes it; "unbuilt": an element is nil.
ChainStates == {"loose", "linked", "stale", "stuck", "unbuilt"}

TypeOK ==
  /\ locked \in BOOLEAN
  /\ stream \in {"flow", "connect", "null", "rebuild", "panic"}
  /\ settled \in Sources \cup {"no"}
  /\ source \in Sources
  /\ lastCaps \in 0 .. MaxCaps
  /\ padCaps \in [Sources -> 0 .. MaxCaps]
  /\ probes \in [Sources -> SUBSET Nat]
  /\ lastProbe \in [Sources -> Nat]
  /\ currentProbe \in Nat
  /\ frame \in {NoFrame} \cup Caps
  /\ held \in Nat
  /\ chain \in ChainStates /\ appsrcUp \in BOOLEAN
  /\ appsrcCaps \in 0 .. MaxCaps
  /\ queue \in Seq(Caps)
  /\ task \in {"idle", "count", "write", "uncount", "stopped", "eos"}
  /\ createCount \in Nat
  /\ files \subseteq Nat
  /\ flushing \in BOOLEAN
  /\ segments \in 0 .. MaxSegments

\* Prepare and Build have put the elements in the pipeline, not yet linked, and
\* CCTVPipeline.Start has set the pipeline to Playing.
Init ==
  /\ locked = FALSE /\ stream = "flow"
  /\ settled = "no" /\ source = "queue" /\ lastCaps = 0
  /\ padCaps = [s \in Sources |-> NoCaps]
  /\ probes = [s \in Sources |-> {}] /\ lastProbe = [s \in Sources |-> 0]
  /\ currentProbe = 0
  /\ frame = NoFrame /\ held = 0
  /\ chain = "loose" /\ appsrcUp = TRUE /\ appsrcCaps = NoCaps /\ queue = <<>>
  /\ task = "idle" /\ createCount = 0 /\ files = {}
  /\ flushing = FALSE /\ segments = 0

(***************************************************************************)
(* The streaming thread of the base pipeline.                              *)
(***************************************************************************)

\* A frame passes the src pad of the queue, or that of the decoder, and meets the
\* probe there, which keeps, and refs, the first one since the last flush.
Frame(s) ==
  /\ stream = "flow" /\ ~locked
  /\ probes[s] # {} /\ padCaps[s] # NoCaps
  /\ frame = NoFrame
  /\ frame' = padCaps[s] /\ held' = held + 1
  /\ UNCHANGED <<threadVars, sourceVars, probeVars, appsrcVars, sinkVars, flushVars>>

\* New caps on the queue.  A raw stream goes to onNewSource, whatever then becomes
\* of the attempt to adopt it.  An encoded one goes there with the decoder once
\* that is linked.  Any other is not adopted; once one is, the next caps of its
\* type are ignored and those of another are refused.
QueueCaps ==
  /\ stream = "flow" /\ lastCaps < MaxCaps
  /\ lastCaps' = lastCaps + 1
  /\ padCaps' = [padCaps EXCEPT !["queue"] = lastCaps']
  /\ \/ /\ settled = "no"
        /\ settled' \in {"no", "queue"} /\ source' = "queue" /\ stream' = "connect"
     \/ /\ settled = "no"
        /\ settled' = "decoder" /\ source' = "decoder" /\ stream' = "connect"
     \/ UNCHANGED <<settled, source, stream>>
  /\ UNCHANGED <<locked, probeVars, frameVars, appsrcVars, sinkVars, flushVars>>

\* The decoder's pad gets caps, or loses them: onNewSource.
DecoderCaps ==
  /\ stream = "flow" /\ settled = "decoder"
  /\ \/ /\ lastCaps < MaxCaps
        /\ lastCaps' = lastCaps + 1
        /\ padCaps' = [padCaps EXCEPT !["decoder"] = lastCaps']
     \/ /\ padCaps["decoder"] # NoCaps
        /\ padCaps' = [padCaps EXCEPT !["decoder"] = NoCaps]
        /\ UNCHANGED lastCaps
  /\ source' = "decoder" /\ stream' = "connect"
  /\ UNCHANGED <<locked, settled, probeVars, frameVars, appsrcVars, sinkVars, flushVars>>

\* Connect on a pad without caps: th.source is replaced, the probe not moved.
ConnectNoCaps ==
  /\ stream = "connect" /\ ~locked /\ padCaps[source] = NoCaps
  /\ stream' = "flow"
  /\ UNCHANGED <<locked, sourceVars, probeVars, frameVars, appsrcVars, sinkVars,
                 flushVars>>

\* Mutant of ConnectProbe: the probe of an earlier Connect is not removed.
ConnectAddsProbe ==
  /\ stream = "connect" /\ ~locked /\ padCaps[source] # NoCaps
  /\ locked' = TRUE
  /\ lastProbe' = [lastProbe EXCEPT ![source] = @ + 1]
  /\ currentProbe' = lastProbe'[source]
  /\ probes' = [probes EXCEPT ![source] = @ \cup {currentProbe'}]
  /\ stream' = "null"
  /\ UNCHANGED <<sourceVars, frameVars, appsrcVars, sinkVars, flushVars>>

\* Connect takes the mutex, adds a probe to the pad it is given and keeps the
\* mutex.  RemoveProbe is called on that pad, wherever currentProbe was added:
\* the probe of the queue stays there when the decoder takes over.
ConnectProbe ==
  /\ stream = "connect" /\ ~locked /\ padCaps[source] # NoCaps
  /\ locked' = TRUE
  /\ lastProbe' = [lastProbe EXCEPT ![source] = @ + 1]
  /\ currentProbe' = lastProbe'[source]
  /\ probes' = [probes EXCEPT ![source] = (@ \ {currentProbe}) \cup {currentProbe'}]
  /\ stream' = "null"
  /\ UNCHANGED <<sourceVars, frameVars, appsrcVars, sinkVars, flushVars>>

\* The Connects so far that found caps: after the first, unlink is true.
Connects == lastProbe["queue"] + lastProbe["decoder"]

\* The pipeline and appsrc go down: gst waits for the streaming thread to leave the
\* elements, and drops what is queued.
GoDown ==
  /\ task \in {"idle", "stopped", "eos"}
  /\ task' = "idle"
  /\ appsrcUp' = FALSE /\ queue' = <<>>
  /\ UNCHANGED <<appsrcCaps, createCount, files>>

\* SetState(Null) of the pipeline and of appsrc.
ConnectNull ==
  /\ stream = "null" /\ GoDown
  /\ stream' = "rebuild"
  /\ UNCHANGED <<locked, sourceVars, probeVars, frameVars, chain, flushVars>>

\* Either of them fails, and Connect returns.
ConnectNullFails ==
  /\ stream = "null"
  /\ GoDown \/ UNCHANGED <<task, appsrcUp, queue, appsrcCaps, createCount, files>>
  /\ chain' = IF chain = "linked" THEN "stale" ELSE chain
  /\ stream' = "flow" /\ locked' = FALSE
  /\ UNCHANGED <<sourceVars, probeVars, frameVars, flushVars>>

\* With unlink, the chain is to be taken apart and made of new elements.  It cannot
\* be when an element does not go down, is out of the pipeline or is not let in,
\* or is not built: Connect returns there, and again each time when it is out.
RebuildFails ==
  /\ stream = "rebuild" /\ Connects > 1
  /\ chain' \in IF chain \in {"stuck", "unbuilt"} THEN {chain}
                 ELSE {"loose", "stuck", "unbuilt"}
  /\ stream' = "flow" /\ locked' = FALSE
  /\ UNCHANGED <<sourceVars, probeVars, frameVars, appsrcUp, appsrcCaps, queue,
                 sinkVars, flushVars>>

\* SetState of an element that is nil: the program crashes.
RebuildPanics ==
  /\ stream = "rebuild" /\ chain = "unbuilt"
  /\ stream' = "panic"
  /\ UNCHANGED <<locked, sourceVars, probeVars, frameVars, appsrcVars, sinkVars,
                 flushVars>>

Rebuilt == stream = "rebuild" /\ chain \notin {"stuck", "unbuilt"}

\* Mutant of ConnectFails: a return that leaves the mutex locked.
ConnectFailsLocked ==
  /\ Rebuilt
  /\ appsrcCaps' \in {appsrcCaps, padCaps[source]}
  /\ appsrcUp' \in BOOLEAN
  /\ chain' = "loose"
  /\ stream' = "flow"
  /\ UNCHANGED <<locked, sourceVars, probeVars, frameVars, queue, sinkVars, flushVars>>

\* The filter's caps are not set, appsrc does not come up, or a link fails.
ConnectFails ==
  /\ Rebuilt
  /\ appsrcCaps' \in {appsrcCaps, padCaps[source]}
  /\ appsrcUp' \in BOOLEAN
  /\ chain' = "loose"
  /\ locked' = FALSE /\ stream' = "flow"
  /\ UNCHANGED <<sourceVars, probeVars, frameVars, queue, sinkVars, flushVars>>

\* Mutant of ConnectDone: the stale frame is kept.
ConnectKeepsFrame ==
  /\ Rebuilt
  /\ appsrcCaps' = padCaps[source]
  /\ appsrcUp' = TRUE
  /\ chain' \in {"linked", "loose"}
  /\ locked' = FALSE /\ stream' = "flow"
  /\ UNCHANGED <<sourceVars, probeVars, frameVars, queue, sinkVars, flushVars>>

\* The caps are set, everything is linked, the stale frame given back, and the
\* pipeline set to Playing, which may fail: the mutex is released.
ConnectDone ==
  /\ Rebuilt
  /\ appsrcCaps' = padCaps[source]
  /\ appsrcUp' = TRUE
  /\ chain' \in {"linked", "loose"}
  /\ held' = IF frame # NoFrame THEN held - 1 ELSE held
  /\ frame' = NoFrame
  /\ locked' = FALSE /\ stream' = "flow"
  /\ UNCHANGED <<sourceVars, probeVars, queue, sinkVars, flushVars>>

(***************************************************************************)
(* The bus thread: flush.                                                  *)
(***************************************************************************)

\* A new segment begins: onNewFileSegmentCreate -> flush.
NewSegment ==
  /\ ~flushing /\ segments < MaxSegments
  /\ flushing' = TRUE /\ segments' = segments + 1
  /\ UNCHANGED <<threadVars, sourceVars, probeVars, frameVars, appsrcVars, sinkVars>>

\* Mutants of Flush: the reference of the probe is not given back; the frame given
\* back is kept; the return without a buffer leaves the mutex locked.
FlushKeepsRef ==
  /\ flushing /\ ~locked
  /\ queue' = IF frame # NoFrame /\ appsrcUp THEN Append(queue, frame) ELSE queue
  /\ frame' = NoFrame
  /\ flushing' = FALSE
  /\ UNCHANGED <<threadVars, sourceVars, probeVars, held, chain, appsrcUp, appsrcCaps,
                 sinkVars, segments>>
FlushKeepsFrame ==
  /\ flushing /\ ~locked
  /\ queue' = IF frame # NoFrame /\ appsrcUp THEN Append(queue, frame) ELSE queue
  /\ held' = IF frame # NoFrame THEN held - 1 ELSE held
  /\ flushing' = FALSE
  /\ UNCHANGED <<threadVars, sourceVars, probeVars, frame, chain, appsrcUp, appsrcCaps,
                 sinkVars, segments>>
FlushReturnsLocked ==
  /\ flushing /\ ~locked
  /\ locked' = (frame = NoFrame)
  /\ queue' = IF frame # NoFrame /\ appsrcUp THEN Append(queue, frame) ELSE queue
  /\ held' = IF frame # NoFrame THEN held - 1 ELSE held
  /\ frame' = NoFrame
  /\ flushing' = FALSE
  /\ UNCHANGED <<stream, sourceVars, probeVars, chain, appsrcUp, appsrcCaps, sinkVars,
                 segments>>

\* flush gives the frame to appsrc, which takes a reference of its own unless it
\* is down, and gives back the probe's; without a frame it only logs.
Flush ==
  /\ flushing /\ ~locked
  /\ queue' = IF frame # NoFrame /\ appsrcUp THEN Append(queue, frame) ELSE queue
  /\ held' = IF frame # NoFrame THEN held - 1 ELSE held
  /\ frame' = NoFrame
  /\ flushing' = FALSE
  /\ UNCHANGED <<threadVars, sourceVars, probeVars, chain, appsrcUp, appsrcCaps, sinkVars,
                 segments>>

\* The new appsrc is what could not be built: its state, logged because the old one
\* takes no buffer, is that of a nil element.
FlushPanics ==
  /\ flushing /\ ~locked /\ frame # NoFrame /\ chain = "unbuilt"
  /\ stream' = "panic"
  /\ UNCHANGED <<locked, sourceVars, probeVars, frameVars, appsrcVars, sinkVars,
                 flushVars>>

(***************************************************************************)
(* The streaming thread of the thumbnail pipeline: NewSampleFunc.          *)
(***************************************************************************)

\* appsrc pushes a frame down the chain; not complete, its task stops on an error.
Push ==
  /\ task = "idle" /\ appsrcUp /\ queue # <<>>
  /\ task' = IF chain \in {"linked", "stale"} THEN "count" ELSE "stopped"
  /\ queue' = Tail(queue)
  /\ UNCHANGED <<threadVars, sourceVars, probeVars, frameVars, chain, appsrcUp, appsrcCaps,
                 createCount, files, flushVars>>

\* The appsink has no sample any more, or one without a buffer: FlowEOS or FlowError,
\* which ends the task of appsrc.
SampleMissing ==
  /\ task = "count"
  /\ task' = "eos"
  /\ UNCHANGED <<threadVars, sourceVars, probeVars, frameVars, appsrcVars, createCount,
                 files, flushVars>>

\* createCount++ under the mutex.
Count ==
  /\ task = "count" /\ ~locked
  /\ createCount' = createCount + 1
  /\ task' = "write"
  /\ UNCHANGED <<threadVars, sourceVars, probeVars, frameVars, appsrcVars, files, flushVars>>

\* The file is named after createCount, read without the mutex, and written.
WriteFile ==
  /\ task = "write"
  /\ files' = files \cup {createCount}
  /\ task' = "idle"
  /\ UNCHANGED <<threadVars, sourceVars, probeVars, frameVars, appsrcVars, createCount, flushVars>>

\* Mutants of WriteFileFails: createCount is not taken back; FlowError is returned.
WriteFailsUncorrected ==
  /\ task = "write"
  /\ task' = "idle"
  /\ UNCHANGED <<threadVars, sourceVars, probeVars, frameVars, appsrcVars, createCount, files,
                 flushVars>>
WriteFailsFlowError ==
  /\ task = "write"
  /\ task' = "stopped"
  /\ UNCHANGED <<threadVars, sourceVars, probeVars, frameVars, appsrcVars, createCount, files,
                 flushVars>>

WriteFileFails ==
  /\ task = "write"
  /\ task' = "uncount"
  /\ UNCHANGED <<threadVars, sourceVars, probeVars, frameVars, appsrcVars, createCount, files,
                 flushVars>>

\* createCount-- under the mutex.
Uncount ==
  /\ task = "uncount" /\ ~locked
  /\ createCount' = createCount - 1
  /\ task' = "idle"
  /\ UNCHANGED <<threadVars, sourceVars, probeVars, frameVars, appsrcVars, files, flushVars>>

ConnectStep ==
  \/ ConnectNoCaps \/ ConnectProbe \/ ConnectNull
  \/ RebuildFails \/ RebuildPanics \/ ConnectFails \/ ConnectDone
Connect == ConnectStep \/ ConnectNullFails
NewSample == Push \/ Count \/ WriteFile \/ WriteFileFails \/ Uncount
Flow == (\E s \in Sources : Frame(s)) \/ QueueCaps \/ DecoderCaps

Alive == stream # "panic"

Next ==
  /\ Alive
  /\ \/ Flow \/ Connect
     \/ NewSegment \/ Flush \/ FlushPanics
     \/ NewSample \/ SampleMissing

\* Every thread that can go on does; frames, caps and segments may stop coming, and
\* no change of state need fail.
Fairness ==
  WF_vars(ConnectStep) /\ WF_vars(Alive /\ Flush) /\ WF_vars(Alive /\ NewSample)

Spec == Init /\ [][Next]_vars
FairSpec == Spec /\ Fairness

-----------------------------------------------------------------------------
(***************************************************************************)
(* Correctness.                                                            *)
(***************************************************************************)

\* Every reference the probe takes on a frame is given back exactly once, by
\* flush or by Connect: as many are held as frameBuffer has frames.
FrameRefs == held = IF frame = NoFrame THEN 0 ELSE 1

\* Whenever no thumbnail is being written, the files are numbered 1, 2, ... up
\* to createCount, failed writes and reconnections notwithstanding, although
\* the number is read without the mutex.
NumbersDense == task \notin {"write", "uncount"} => files = 1 .. createCount

\* No frame kept from before a change of caps is pushed after it: a chain that a
\* Connect completed is fed frames of the caps appsrc was given and of no other.
\* That is so of a decoder from the start, and of the queue until its caps change:
\* Connect is not called for that change (segmentation.go:346), and the probe on
\* the queue stays when a decoder takes over (thumbnail_generation.go:256).
OneFeed ==
  \/ probes["queue"] = {}
  \/ probes["decoder"] = {} /\ padCaps["queue"] = appsrcCaps
QueueMatchesCaps ==
  chain = "linked" /\ OneFeed => \A i \in 1 .. Len(queue) : queue[i] = appsrcCaps

\* However often Connect is called, on either pad and with whatever result, a pad
\* holds the last probe added to it and no other, although RemoveProbe is given the
\* id of the last probe added to any pad.
OneProbe ==
  \A s \in Sources : probes[s] = IF lastProbe[s] = 0 THEN {} ELSE {lastProbe[s]}

\* flush comes to an end, and gives the bus back to its dispatcher, as long as
\* Connect is not called again.
FlushReturns == flushing ~> ~flushing \/ Connects > 1

\* A frame given to a complete chain is a file or a failed write in the end, as long
\* as Connect is not called again, unless the appsink runs out of samples.
QueueIsServed ==
  chain = "linked" /\ queue # <<>>
    ~> (queue = <<>> /\ task = "idle") \/ task = "eos" \/ Connects > 1

\* thumbnail_generation_test.go:34 "assert.Nil(t, tpipeline.Connect(element))" :
\* Connect returns.  But on a chain in use it waits, with the mutex, for a
\* NewSampleFunc that waits for the mutex.
ConnectReturns == stream # "flow" ~> stream \in {"flow", "panic"}
=============================================================================
