-------------------------- MODULE Thumbnail_proofs --------------------------
(***************************************************************************)
(* The safety of ThumbnailPipeline for any bounds: any number of changes   *)
(* of caps, on either pad, and of segments.                                *)
(***************************************************************************)
EXTENDS Thumbnail, FiniteSetTheorems, SequenceTheorems, TLAPS

\* The mutex is held from ConnectProbe to the end of Connect.
MutexInv == stream \in {"null", "rebuild"} => locked

\* The current probe is the last one of the decoder, once Connect has been called with
\* it and found caps, and that of the queue until then; Connect is never called with the
\* queue again once the decoder is the source.  Past ConnectProbe the source has a probe.
ProbeInv ==
  /\ OneProbe
  /\ settled = "decoder" <=> source = "decoder"
  /\ lastProbe["decoder"] # 0 => source = "decoder"
  /\ currentProbe = IF lastProbe["decoder"] # 0 THEN lastProbe["decoder"]
                    ELSE lastProbe["queue"]
  /\ stream \in {"null", "rebuild"} => lastProbe[source] # 0

\* The files are numbered densely below the one that is being written.
CountInv ==
  /\ task \in {"write", "uncount"} => createCount # 0 /\ files = 1 .. createCount - 1
  /\ task \notin {"write", "uncount"} => files = 1 .. createCount

\* Caps are numbered as they come.  A complete chain with one feed has a frame of the
\* caps it was set up for, if any, and so have the frames the decoder is about to give:
\* while it is the only feed, it has the caps of the chain, or none, or Connect is on
\* its way.  The chain is set up with nothing queued.
CapsInv ==
  /\ appsrcCaps <= lastCaps /\ \A s \in Sources : padCaps[s] <= lastCaps
  /\ chain = "linked" /\ OneFeed => frame \in {NoFrame, appsrcCaps}
  /\ stream = "flow" /\ chain = "linked" /\ probes["queue"] = {} /\ probes["decoder"] # {}
       => padCaps["decoder"] \in {NoCaps, appsrcCaps}
  /\ stream = "rebuild" => queue = <<>>

\* The inductive invariant of the thumbnails.
ThumbnailInv ==
  /\ TypeOK
  /\ MutexInv /\ ProbeInv /\ CountInv /\ CapsInv
  /\ FrameRefs /\ QueueMatchesCaps

\* Before anything is linked or connected the invariant holds.
LEMMA ThumbnailInit == Init => ThumbnailInv
<1> SUFFICES ASSUME Init PROVE ThumbnailInv
  OBVIOUS
<1>1. TypeOK
  <2>1. queue \in Seq(Caps) /\ queue = <<>>
    BY EmptySeq DEF Init
  <2>2. /\ probes \in [Sources -> SUBSET Nat] /\ lastProbe \in [Sources -> Nat]
        /\ padCaps \in [Sources -> 0 .. MaxCaps]
    BY BoundsAssumption DEF Init, NoCaps
  <2>3. segments \in 0 .. MaxSegments /\ lastCaps \in 0 .. MaxCaps /\ appsrcCaps \in 0 .. MaxCaps
    BY BoundsAssumption DEF Init, NoCaps
  <2>4. /\ locked \in BOOLEAN /\ stream \in {"flow", "connect", "null", "rebuild", "panic"}
        /\ settled \in Sources \cup {"no"} /\ source \in Sources
        /\ chain \in ChainStates /\ appsrcUp \in BOOLEAN /\ flushing \in BOOLEAN
        /\ task \in {"idle", "count", "write", "uncount", "stopped", "eos"}
    BY DEF Init, Sources, ChainStates
  <2>5. held \in Nat /\ createCount \in Nat /\ files \subseteq Nat /\ currentProbe \in Nat
        /\ frame \in {NoFrame} \cup Caps
    BY DEF Init
  <2> QED
    BY <2>1, <2>2, <2>3, <2>4, <2>5, Zenon DEF TypeOK
<1>2. MutexInv /\ FrameRefs /\ QueueMatchesCaps
  BY DEF Init, MutexInv, FrameRefs, QueueMatchesCaps, NoFrame
<1>3. ProbeInv
  BY DEF Init, ProbeInv, OneProbe, Sources
<1>4. CountInv
  BY DEF Init, CountInv
<1>5. CapsInv
  BY DEF Init, CapsInv, NoCaps
<1> QED
  BY <1>1, <1>2, <1>3, <1>4, <1>5 DEF ThumbnailInv

\* A frame kept by a probe is of the caps of its pad.
LEMMA FrameStep ==
  ASSUME ThumbnailInv, NEW s \in Sources, Frame(s)
  PROVE  ThumbnailInv'
<1> USE DEF ThumbnailInv, Frame, threadVars, sourceVars, probeVars, appsrcVars, sinkVars, flushVars
<1>1. padCaps[s] \in Caps /\ held = 0
  BY BoundsAssumption DEF TypeOK, Caps, NoCaps, FrameRefs
<1>2. TypeOK' /\ FrameRefs'
  BY <1>1 DEF TypeOK, FrameRefs, Caps, NoFrame
<1>3. MutexInv' /\ ProbeInv' /\ CountInv' /\ QueueMatchesCaps'
  BY DEF MutexInv, ProbeInv, OneProbe, CountInv, QueueMatchesCaps, OneFeed
<1>4. CapsInv'
  <2>1. ASSUME chain = "linked", OneFeed PROVE padCaps[s] = appsrcCaps
    BY <2>1 DEF OneFeed, CapsInv, Sources
  <2> QED
    BY <2>1 DEF CapsInv, OneFeed
<1> QED
  BY <1>2, <1>3, <1>4

\* New caps on the queue are those of no chain; with new caps on the decoder Connect is
\* on its way.
LEMMA CapsStep ==
  ASSUME ThumbnailInv, QueueCaps \/ DecoderCaps
  PROVE  ThumbnailInv'
<1> USE BoundsAssumption
    DEF ThumbnailInv, QueueCaps, DecoderCaps, probeVars, frameVars, appsrcVars, sinkVars, flushVars
<1>1. /\ padCaps' \in [Sources -> 0 .. MaxCaps] /\ lastCaps' \in 0 .. MaxCaps
      /\ lastCaps <= lastCaps'
      /\ \A s \in Sources : padCaps'[s] <= lastCaps'
      /\ padCaps'["queue"] \in {padCaps["queue"], lastCaps + 1}
  BY DEF TypeOK, CapsInv, NoCaps, Sources
<1>2. settled' \in Sources \cup {"no"} /\ source' \in Sources
      /\ (settled' = "decoder" <=> source' = "decoder")
      /\ (source = "decoder" => source' = "decoder")
  BY DEF TypeOK, Sources, ProbeInv
<1>3. stream = "flow" /\ stream' \in {"flow", "connect"} /\ UNCHANGED locked
      /\ (padCaps'["decoder"] = padCaps["decoder"] \/ stream' = "connect")
  BY DEF TypeOK, Sources
<1>4. UNCHANGED <<probeVars, frameVars, appsrcVars, sinkVars, flushVars>>
  OBVIOUS
<1> HIDE DEF QueueCaps, DecoderCaps
<1>5. TypeOK'
  BY <1>1, <1>2, <1>3, <1>4 DEF TypeOK
<1>6. MutexInv' /\ CountInv' /\ FrameRefs'
  BY <1>3, <1>4 DEF MutexInv, CountInv, FrameRefs
<1>7. ProbeInv'
  BY <1>2, <1>3, <1>4 DEF ProbeInv, OneProbe
<1>8. OneFeed' => OneFeed
  BY <1>1, <1>4 DEF OneFeed, CapsInv, TypeOK
<1>9. QueueMatchesCaps'
  BY <1>4, <1>8 DEF QueueMatchesCaps
<1>10. CapsInv'
  <2>1. appsrcCaps' <= lastCaps'
    BY <1>1, <1>4 DEF CapsInv, TypeOK
  <2> QED
    BY <1>1, <1>3, <1>4, <1>8, <2>1 DEF CapsInv
<1> QED
  BY <1>5, <1>6, <1>7, <1>9, <1>10

\* The probe that Connect removes is the one on the pad it is given, if that has one.
LEMMA ProbeStep ==
  ASSUME ThumbnailInv, ConnectProbe
  PROVE  ThumbnailInv'
<1> DEFINE next == lastProbe[source] + 1
<1>1. source \in Sources /\ next \in Nat \ {0} /\ lastProbe \in [Sources -> Nat]
      /\ probes \in [Sources -> SUBSET Nat]
  BY DEF ThumbnailInv, TypeOK
<1>2. /\ lastProbe' = [lastProbe EXCEPT ![source] = next] /\ currentProbe' = next
      /\ stream' = "null" /\ locked' = TRUE
      /\ UNCHANGED <<sourceVars, frameVars, appsrcVars, sinkVars, flushVars>>
  BY <1>1 DEF ConnectProbe
<1>3. probes' = [probes EXCEPT ![source] = {next}]
  <2>1. probes[source] \subseteq {currentProbe}
    BY <1>1 DEF ThumbnailInv, ProbeInv, OneProbe, Sources
  <2>2. probes' = [probes EXCEPT ![source] = (probes[source] \ {currentProbe}) \cup {next}]
    BY <1>2 DEF ConnectProbe
  <2>3. (probes[source] \ {currentProbe}) \cup {next} = {next}
    BY <2>1
  <2> QED
    BY <2>2, <2>3
<1> HIDE DEF next
<1> USE DEF ThumbnailInv, sourceVars, frameVars, appsrcVars, sinkVars, flushVars
<1>4. TypeOK'
  <2>1. /\ lastProbe' \in [Sources -> Nat] /\ probes' \in [Sources -> SUBSET Nat]
        /\ currentProbe' \in Nat /\ stream' \in {"flow", "connect", "null", "rebuild", "panic"}
        /\ locked' \in BOOLEAN
    BY <1>1, <1>2, <1>3
  <2> QED
    BY <1>2, <2>1 DEF TypeOK
<1>5. ProbeInv'
  <2>1. OneProbe'
    BY <1>1, <1>2, <1>3 DEF ProbeInv, OneProbe
  <2>2. currentProbe' = IF lastProbe'["decoder"] # 0 THEN lastProbe'["decoder"]
                        ELSE lastProbe'["queue"]
    BY <1>1, <1>2 DEF ProbeInv, Sources
  <2>3. lastProbe'["decoder"] # 0 => source' = "decoder"
    BY <1>1, <1>2 DEF ProbeInv, Sources
  <2> QED
    BY <1>1, <1>2, <2>1, <2>2, <2>3 DEF ProbeInv
<1>6. OneFeed' => OneFeed
  BY <1>1, <1>2, <1>3 DEF OneFeed, Sources
<1>7. MutexInv' /\ CountInv' /\ FrameRefs' /\ QueueMatchesCaps' /\ CapsInv'
  BY <1>2, <1>6 DEF MutexInv, CountInv, FrameRefs, QueueMatchesCaps, CapsInv
<1> QED
  BY <1>4, <1>5, <1>7

\* The rest of Connect: until the chain is complete nothing is claimed of its frames, and
\* when it is there are none.
LEMMA ConnectKeepsInv ==
  ASSUME ThumbnailInv, Connect
  PROVE  ThumbnailInv'
<1> USE DEF ThumbnailInv, threadVars, sourceVars, probeVars, frameVars, appsrcVars, sinkVars,
            flushVars
<1>1. CASE ConnectNoCaps
  <2>1. TypeOK'
    BY <1>1 DEF ConnectNoCaps, TypeOK
  <2>2. MutexInv' /\ ProbeInv' /\ CountInv' /\ FrameRefs' /\ QueueMatchesCaps'
    BY <1>1 DEF ConnectNoCaps, MutexInv, ProbeInv, OneProbe, CountInv, FrameRefs,
                QueueMatchesCaps, OneFeed
  <2>3. probes["decoder"] # {} => padCaps["decoder"] = NoCaps
    BY <1>1 DEF ConnectNoCaps, ProbeInv, OneProbe, Sources
  <2>4. CapsInv'
    BY <1>1, <2>3 DEF ConnectNoCaps, CapsInv, OneFeed
  <2> QED
    BY <2>1, <2>2, <2>4
<1>2. CASE ConnectProbe
  BY <1>2, ProbeStep
<1>3. ASSUME GoDown
      PROVE  /\ queue' \in Seq(Caps) /\ queue' = <<>> /\ task' = "idle" /\ CountInv'
             /\ appsrcUp' = FALSE /\ UNCHANGED <<appsrcCaps, createCount, files>>
  BY <1>3, EmptySeq DEF GoDown, CountInv
<1>4. CASE ConnectNull
  <2>1. GoDown /\ stream' = "rebuild" /\ stream = "null"
        /\ UNCHANGED <<locked, sourceVars, probeVars, frameVars, chain, flushVars>>
    BY <1>4 DEF ConnectNull
  <2>2. TypeOK'
    BY <1>3, <2>1 DEF TypeOK
  <2>3. MutexInv' /\ ProbeInv' /\ FrameRefs' /\ CapsInv'
    BY <1>3, <2>1 DEF MutexInv, ProbeInv, OneProbe, FrameRefs, CapsInv, OneFeed
  <2>4. QueueMatchesCaps'
    BY <1>3, <2>1 DEF QueueMatchesCaps
  <2> QED
    BY <1>3, <2>1, <2>2, <2>3, <2>4
<1>5. CASE ConnectNullFails
  <2>1. /\ stream = "null" /\ stream' = "flow" /\ locked' = FALSE
        /\ chain' = IF chain = "linked" THEN "stale" ELSE chain
        /\ UNCHANGED <<sourceVars, probeVars, frameVars, flushVars>>
    BY <1>5 DEF ConnectNullFails
  <2>2. chain' # "linked" /\ chain' \in ChainStates
    BY <2>1 DEF TypeOK, ChainStates
  <2>3. /\ queue' \in Seq(Caps) /\ CountInv' /\ UNCHANGED <<appsrcCaps, createCount, files>>
        /\ appsrcUp' \in BOOLEAN /\ task' \in {task, "idle"}
    BY <1>3, <1>5 DEF ConnectNullFails, TypeOK, CountInv
  <2>4. TypeOK'
    BY <2>1, <2>2, <2>3 DEF TypeOK
  <2>5. MutexInv' /\ ProbeInv' /\ FrameRefs' /\ CapsInv' /\ QueueMatchesCaps'
    BY <2>1, <2>2, <2>3
    DEF MutexInv, ProbeInv, OneProbe, FrameRefs, CapsInv, QueueMatchesCaps
  <2> QED
    BY <2>3, <2>4, <2>5
<1>6. CASE RebuildFails
  <2>1. /\ stream' = "flow" /\ locked' = FALSE /\ chain' \in {"loose", "stuck", "unbuilt"}
        /\ UNCHANGED <<sourceVars, probeVars, frameVars, appsrcUp, appsrcCaps, queue,
                       sinkVars, flushVars>>
    BY <1>6 DEF RebuildFails
  <2>2. TypeOK'
    BY <2>1 DEF TypeOK, ChainStates
  <2>3. MutexInv' /\ ProbeInv' /\ CountInv' /\ FrameRefs' /\ CapsInv' /\ QueueMatchesCaps'
    BY <2>1 DEF MutexInv, ProbeInv, OneProbe, CountInv, FrameRefs, CapsInv, QueueMatchesCaps
  <2> QED
    BY <2>2, <2>3
<1>7. CASE RebuildPanics
  <2>1. stream' = "panic" /\ UNCHANGED <<locked, sourceVars, probeVars, frameVars, appsrcVars,
                                         sinkVars, flushVars>>
    BY <1>7 DEF RebuildPanics
  <2>2. TypeOK'
    BY <2>1 DEF TypeOK
  <2>3. MutexInv' /\ ProbeInv' /\ CountInv' /\ FrameRefs' /\ CapsInv' /\ QueueMatchesCaps'
    BY <2>1
    DEF MutexInv, ProbeInv, OneProbe, CountInv, FrameRefs, CapsInv, OneFeed, QueueMatchesCaps
  <2> QED
    BY <2>2, <2>3
<1>8. CASE ConnectFails
  <2>1. /\ stream' = "flow" /\ locked' = FALSE /\ chain' = "loose" /\ appsrcUp' \in BOOLEAN
        /\ appsrcCaps' \in {appsrcCaps, padCaps[source]}
        /\ UNCHANGED <<sourceVars, probeVars, frameVars, queue, sinkVars, flushVars>>
    BY <1>8 DEF ConnectFails
  <2>2. TypeOK'
    BY <2>1 DEF TypeOK, ChainStates
  <2>3. MutexInv' /\ ProbeInv' /\ CountInv' /\ FrameRefs' /\ CapsInv' /\ QueueMatchesCaps'
    BY <2>1
    DEF TypeOK, MutexInv, ProbeInv, OneProbe, CountInv, FrameRefs, CapsInv, QueueMatchesCaps
  <2> QED
    BY <2>2, <2>3
<1>9. CASE ConnectDone
  <2>1. /\ stream = "rebuild" /\ stream' = "flow" /\ locked' = FALSE
        /\ chain' \in {"linked", "loose"} /\ appsrcUp' = TRUE
        /\ appsrcCaps' = padCaps[source] /\ frame' = NoFrame
        /\ UNCHANGED <<sourceVars, probeVars, queue, sinkVars, flushVars>>
    BY <1>9 DEF ConnectDone, Rebuilt
  <2>2. held' = 0
    BY <1>9 DEF ConnectDone, FrameRefs
  <2>3. queue' = <<>>
    BY <2>1 DEF CapsInv
  <2>4. TypeOK'
    BY <2>1, <2>2 DEF TypeOK, ChainStates
  <2>5. MutexInv' /\ ProbeInv' /\ CountInv' /\ FrameRefs' /\ QueueMatchesCaps'
    BY <2>1, <2>2, <2>3
    DEF MutexInv, ProbeInv, OneProbe, CountInv, FrameRefs, QueueMatchesCaps
  <2>6. CapsInv'
    <3>1. probes["queue"] = {} => source = "decoder"
      BY <2>1 DEF ProbeInv, OneProbe, TypeOK, Sources
    <3> QED
      BY <2>1, <3>1 DEF CapsInv, TypeOK
  <2> QED
    BY <2>4, <2>5, <2>6
<1> QED
  BY <1>1, <1>2, <1>4, <1>5, <1>6, <1>7, <1>8, <1>9 DEF Connect, ConnectStep

\* The bus thread: flush moves the frame, and its reference, to the queue.
LEMMA FlushKeepsInv ==
  ASSUME ThumbnailInv, NewSegment \/ Flush \/ FlushPanics
  PROVE  ThumbnailInv'
<1> USE DEF ThumbnailInv, threadVars, sourceVars, probeVars, frameVars, appsrcVars, sinkVars,
            flushVars
<1>1. CASE NewSegment
  <2>1. TypeOK'
    BY <1>1, BoundsAssumption DEF NewSegment, TypeOK
  <2>2. MutexInv' /\ ProbeInv' /\ CountInv' /\ FrameRefs' /\ CapsInv' /\ QueueMatchesCaps'
    BY <1>1 DEF NewSegment, MutexInv, ProbeInv, OneProbe, CountInv, FrameRefs, CapsInv, OneFeed,
                QueueMatchesCaps
  <2> QED
    BY <2>1, <2>2
<1>2. CASE FlushPanics
  <2>1. TypeOK'
    BY <1>2 DEF FlushPanics, TypeOK
  <2>2. MutexInv' /\ ProbeInv' /\ CountInv' /\ FrameRefs' /\ CapsInv' /\ QueueMatchesCaps'
    BY <1>2 DEF FlushPanics, MutexInv, ProbeInv, OneProbe, CountInv, FrameRefs, CapsInv, OneFeed,
                QueueMatchesCaps
  <2> QED
    BY <2>1, <2>2
<1>3. CASE Flush
  <2>1. /\ UNCHANGED <<threadVars, sourceVars, probeVars, chain, appsrcUp, appsrcCaps, sinkVars,
                       segments>>
        /\ flushing' = FALSE /\ frame' = NoFrame /\ ~locked
        /\ queue' = IF frame # NoFrame /\ appsrcUp THEN Append(queue, frame) ELSE queue
    BY <1>3 DEF Flush
  <2>2. held' = 0
    BY <1>3 DEF Flush, FrameRefs
  <2>3. queue' \in Seq(Caps) /\ QueueMatchesCaps'
    <3>1. queue \in Seq(Caps) /\ frame \in {NoFrame} \cup Caps
      BY DEF TypeOK
    <3>2. CASE frame = NoFrame \/ ~appsrcUp
      BY <2>1, <3>1, <3>2 DEF QueueMatchesCaps, OneFeed
    <3>3. CASE frame # NoFrame /\ appsrcUp
      <4>1. queue' = Append(queue, frame) /\ frame \in Caps
        BY <2>1, <3>1, <3>3
      <4>2. /\ queue' \in Seq(Caps) /\ Len(queue') = Len(queue) + 1
            /\ \A i \in 1 .. Len(queue) : queue'[i] = queue[i]
            /\ queue'[Len(queue) + 1] = frame
        BY <3>1, <4>1, AppendProperties
      <4>3. chain = "linked" /\ OneFeed => frame = appsrcCaps
        BY <3>3 DEF CapsInv
      <4>4. Len(queue) \in Nat
        BY <3>1, LenProperties
      <4> QED
        BY <2>1, <4>2, <4>3, <4>4 DEF QueueMatchesCaps, OneFeed
    <3> QED
      BY <3>2, <3>3
  <2>4. TypeOK'
    BY <2>1, <2>2, <2>3 DEF TypeOK
  <2>5. MutexInv' /\ ProbeInv' /\ CountInv' /\ FrameRefs'
    BY <2>1, <2>2 DEF MutexInv, ProbeInv, OneProbe, CountInv, FrameRefs
  <2>6. CapsInv'
    BY <2>1 DEF CapsInv, OneFeed, MutexInv
  <2> QED
    BY <2>3, <2>4, <2>5, <2>6
<1> QED
  BY <1>1, <1>2, <1>3

\* The streaming thread of the thumbnails numbers one file at a time.
LEMMA SampleKeepsInv ==
  ASSUME ThumbnailInv, NewSample \/ SampleMissing
  PROVE  ThumbnailInv'
<1> USE DEF ThumbnailInv, threadVars, sourceVars, probeVars, frameVars, appsrcVars, sinkVars,
            flushVars
<1>1. CASE Push
  <2>1. /\ queue # <<>> /\ queue' = Tail(queue) /\ task = "idle" /\ task' \in {"count", "stopped"}
        /\ UNCHANGED <<threadVars, sourceVars, probeVars, frameVars, chain, appsrcUp, appsrcCaps,
                       createCount, files, flushVars>>
    BY <1>1 DEF Push
  <2>2. /\ queue' \in Seq(Caps) /\ Len(queue') = Len(queue) - 1 /\ Len(queue) \in Nat
        /\ \A i \in 1 .. Len(queue') : queue'[i] = queue[i + 1]
    BY <2>1, HeadTailProperties, LenProperties DEF TypeOK
  <2>3. TypeOK'
    BY <2>1, <2>2 DEF TypeOK
  <2>4. QueueMatchesCaps'
    BY <2>1, <2>2 DEF QueueMatchesCaps, OneFeed
  <2>5. CountInv'
    BY <2>1 DEF CountInv
  <2>6. MutexInv' /\ ProbeInv' /\ FrameRefs' /\ CapsInv'
    BY <2>1 DEF MutexInv, ProbeInv, OneProbe, FrameRefs, CapsInv, OneFeed
  <2> QED
    BY <2>3, <2>4, <2>5, <2>6
<1>2. CASE Count \/ SampleMissing \/ WriteFile \/ WriteFileFails \/ Uncount
  <2>1. UNCHANGED <<threadVars, sourceVars, probeVars, frameVars, appsrcVars, flushVars>>
    BY <1>2 DEF Count, SampleMissing, WriteFile, WriteFileFails, Uncount
  <2>2. createCount \in Nat
    BY DEF TypeOK
  <2>3. CountInv'
    <3>1. CASE Count \/ SampleMissing
      BY <2>2, <3>1 DEF Count, SampleMissing, CountInv
    <3>2. CASE WriteFile
      <4>1. /\ createCount \in Nat \ {0} /\ files = 1 .. createCount - 1 /\ task' = "idle"
            /\ files' = files \cup {createCount} /\ createCount' = createCount
        BY <2>2, <3>2 DEF WriteFile, CountInv
      <4>2. files' = 1 .. createCount'
        BY <4>1
      <4> QED
        BY <4>1, <4>2 DEF CountInv
    <3>3. CASE WriteFileFails \/ Uncount
      BY <2>2, <3>3 DEF WriteFileFails, Uncount, CountInv
    <3> QED
      BY <1>2, <3>1, <3>2, <3>3
  <2>4. createCount' \in Nat /\ files' \subseteq Nat
        /\ task' \in {"idle", "count", "write", "uncount", "stopped", "eos"}
    <3>1. files \subseteq Nat
      BY DEF TypeOK
    <3>2. CASE WriteFile
      BY <2>2, <3>1, <3>2 DEF WriteFile
    <3>3. CASE Uncount
      BY <2>2, <3>1, <3>3 DEF Uncount, CountInv
    <3>4. CASE Count
      <4>1. createCount' = createCount + 1 /\ task' = "write" /\ files' = files
        BY <3>4 DEF Count
      <4> QED
        BY <2>2, <3>1, <4>1
    <3>5. CASE SampleMissing \/ WriteFileFails
      <4>1. createCount' = createCount /\ task' \in {"eos", "uncount"} /\ files' = files
        BY <3>5 DEF SampleMissing, WriteFileFails
      <4> QED
        BY <2>2, <3>1, <4>1
    <3> QED
      BY <1>2, <3>2, <3>3, <3>4, <3>5
  <2>5. TypeOK'
    BY <2>1, <2>4 DEF TypeOK
  <2>6. MutexInv' /\ ProbeInv' /\ FrameRefs' /\ CapsInv' /\ QueueMatchesCaps'
    BY <2>1 DEF MutexInv, ProbeInv, OneProbe, FrameRefs, CapsInv, OneFeed, QueueMatchesCaps
  <2> QED
    BY <2>3, <2>5, <2>6
<1> QED
  BY <1>1, <1>2 DEF NewSample

\* Every step of every thread keeps the invariant.
LEMMA ThumbnailStep == ThumbnailInv /\ [Next]_vars => ThumbnailInv'
<1> SUFFICES ASSUME ThumbnailInv, [Next]_vars PROVE ThumbnailInv'
  OBVIOUS
<1>1. CASE UNCHANGED vars
  <2>1. UNCHANGED <<threadVars, sourceVars, probeVars, frameVars, appsrcVars, sinkVars, flushVars>>
    BY <1>1 DEF vars
  <2> QED
    BY <2>1
    DEF ThumbnailInv, TypeOK, MutexInv, ProbeInv, OneProbe, CountInv, CapsInv, OneFeed, FrameRefs,
        QueueMatchesCaps, threadVars, sourceVars, probeVars, frameVars, appsrcVars, sinkVars,
        flushVars
<1> QED
  BY <1>1, FrameStep, CapsStep, ConnectKeepsInv, FlushKeepsInv, SampleKeepsInv DEF Next, Flow

\* What it says of the numbers is that they are dense whenever no file is written.
LEMMA ThumbnailNumbers == ThumbnailInv => NumbersDense
<1> QED
  BY DEF ThumbnailInv, CountInv, NumbersDense

\* The thumbnail pipeline by itself, with any number of changes of caps and segments:
\* references balance, files are numbered without gaps, a complete chain with one feed
\* is given no frame of former caps, and no pad keeps a probe but its last.
THEOREM ThumbnailCorrect ==
  Spec => [](TypeOK /\ FrameRefs /\ NumbersDense /\ QueueMatchesCaps /\ OneProbe)
<1>1. ThumbnailInv => TypeOK /\ FrameRefs /\ NumbersDense /\ QueueMatchesCaps /\ OneProbe
  BY ThumbnailNumbers DEF ThumbnailInv, ProbeInv
<1>2. QED
  BY <1>1, ThumbnailInit, ThumbnailStep, PTL DEF Spec
=============================================================================
