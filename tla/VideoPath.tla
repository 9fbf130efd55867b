----------------------------- MODULE VideoPath ------------------------------
(***************************************************************************)
(* The path of the video in the base pipeline: SourcePipeline, which links *)
(* the camera to the tee, and the two branches behind the tee, put         *)
(* together as NewCCTVPipeline (pipeline/internal.go) does.  Caps only     *)
(* reach the branches from what the source has linked to the tee.  The     *)
(* tests put a videotestsrc, with any encoder, in the place of the camera. *)
(***************************************************************************)
EXTENDS CapsChange

CONSTANT MaxPads \* bound: pads rtspsrc adds

ASSUME PadsAssumption == MaxPads \in Nat

VARIABLES
  camera,  \* the source of the base pipeline: "rtsp" or "test"
  available, pads, factory, depay, linked, tee, panicked

Src == INSTANCE Source

sourceVars == <<available, pads, factory, depay, linked, tee, panicked>>
pathVars == <<vars, camera, sourceVars>>

PathTypeOK == TypeOK /\ Src!TypeOK

PathInit ==
  /\ Init /\ Src!Init
  /\ camera \in {"rtsp", "test"}
  /\ camera = "test" => available = {}

MediaType == [H264 |-> "h264", H265 |-> "h265"]

\* The caps a branch can be notified of: none when its pads are flushed, and those
\* of the stream as long as all is linked from the camera to the tee.
Reaches(e) ==
  camera = "rtsp" =>
    e = NoCaps \/ (linked \in DOMAIN MediaType /\ tee = linked /\ e = MediaType[linked])

Branch ==
  /\ \E b \in Branches :
       \/ \E e \in Encodings \cup {NoCaps} : Reaches(e) /\ (NotifyIgnored(b, e) \/ Notify(b, e))
       \/ Change(b) \/ Resume(b)
  /\ UNCHANGED <<camera, sourceVars>>
Camera == camera = "rtsp" /\ Src!Next /\ UNCHANGED <<vars, camera>>

PathNext == Branch \/ Camera

PathSpec ==
  /\ PathInit /\ [][PathNext]_pathVars
  /\ \A b \in Branches :
       /\ WF_pathVars(Change(b) /\ UNCHANGED <<camera, sourceVars>>)
       /\ WF_pathVars(Resume(b) /\ UNCHANGED <<camera, sourceVars>>)

-----------------------------------------------------------------------------
\* A camera that announces other streams, or comes back with another encoding,
\* never makes a complete branch change over to it, which HandleStreamChange has not
\* implemented: the source is linked once, in one encoding.  The one change such a
\* branch is asked for is that of the segmentation to no caps at all, when it loses
\* them while the pipeline plays (segmentation.go:350).
NoStreamChange ==
  camera = "rtsp" =>
    \A b \in Branches :
      at[b] = "change" /\ name[b] # NoCaps => b = "segmentation" /\ caps[b] = NoCaps

NeverPanics == Src!NeverPanics
=============================================================================
