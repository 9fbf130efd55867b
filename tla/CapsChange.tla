----------------------------- MODULE CapsChange -----------------------------
(***************************************************************************)
(* The branches of the base pipeline that are completed when the stream is *)
(* known: StreamPipeline (pipeline/stream.go) and SegmentationPipeline     *)
(* (pipeline/segmentation.go).  Each watches the caps of the src pad of    *)
(* its queue; on new caps it pauses the pipeline both belong to, builds,   *)
(* adds and links the elements the encoding calls for, and sets the        *)
(* pipeline to Playing.  Each does so on a streaming thread of its own and *)
(* under a mutex of its own.  A change of state that fails is only logged. *)
(*                                                                         *)
(* What onNewSource, which the segmentation calls with the queue before it *)
(* builds for a raw stream and with the decoder after it has linked an     *)
(* encoded one, does to the thumbnails is in Thumbnail.                    *)
(***************************************************************************)
EXTENDS Naturals, Sequences

CONSTANTS
  Branches,  \* the branches present: "stream", "segmentation" or both
  Encodings, \* the media types the stream may take on
  MaxNotify  \* bound: notifications of new caps to one branch

ASSUME CapsAssumption ==
  /\ Branches \subseteq {"stream", "segmentation"}
  /\ Encodings \subseteq {"raw", "h264", "h265", "other"}
  /\ MaxNotify \in Nat

NoCaps == "" \* the pad has none; also the encodingName of a branch before any

VARIABLES
  gst,      \* the state of the base pipeline
  at,       \* where the callback of a branch is
  caps,     \* the media type of the caps it was last notified of
  notified, \* how many times
  name,     \* state.encodingName, set once the branch is linked from end to end
  inBin,    \* the elements HandleStreamChange has put in the bin
  unbuilt,  \* the decoder of a branch is an element that could not be built
  reported, \* an error was posted on the bus for the caps last notified
  resumeFailed \* the last SetState(Playing) failed, and no branch has paused since

vars == <<gst, at, caps, notified, name, inBin, unbuilt, reported, resumeFailed>>

TypeOK ==
  /\ gst \in {"playing", "paused"}
  /\ at \in [Branches -> {"idle", "change", "resume", "panic"}]
  /\ caps \in [Branches -> Encodings \cup {NoCaps}]
  /\ notified \in [Branches -> 0 .. MaxNotify]
  /\ name \in [Branches -> Encodings \cup {NoCaps}]
  /\ inBin \in [Branches -> SUBSET {"decoder", "encoder", "converter", "parser"}]
  /\ unbuilt \in [Branches -> BOOLEAN]
  /\ reported \in [Branches -> BOOLEAN]
  /\ resumeFailed \in BOOLEAN

Init ==
  /\ gst = "playing"
  /\ at = [b \in Branches |-> "idle"]
  /\ caps = [b \in Branches |-> NoCaps]
  /\ notified = [b \in Branches |-> 0]
  /\ name = [b \in Branches |-> NoCaps]
  /\ inBin = [b \in Branches |-> {}]
  /\ unbuilt = [b \in Branches |-> FALSE]
  /\ reported = [b \in Branches |-> FALSE]
  /\ resumeFailed = FALSE

\* What an encoding calls for, in the order in which it is built and added.
Elements(b, e) ==
  CASE b = "segmentation" /\ e = "raw" -> <<"encoder", "converter", "parser">>
    [] b = "segmentation" /\ e \in {"h264", "h265"} ->
         <<"decoder", "encoder", "converter", "parser">>
    [] b = "stream" /\ e = "h265" -> <<"decoder", "encoder", "converter">>
    [] OTHER -> <<>>
First(b, e, n) == {Elements(b, e)[i] : i \in 1 .. n}

Supported(b, e) ==
  e \in IF b = "stream" THEN {"h264", "h265"} ELSE {"raw", "h264", "h265"}

\* StreamPipeline first takes the decoder of an earlier attempt out of the bin.
Remains(b, e) == IF b = "stream" /\ e = "h265" THEN inBin[b] \ {"decoder"} ELSE inBin[b]

(***************************************************************************)
(* The callback of notify::caps.                                           *)
(***************************************************************************)

\* Nothing is done when the name has not changed, nor when there are no caps: for
\* the stream always, for the segmentation while the pipeline is paused.
NotifyIgnored(b, e) ==
  /\ at[b] = "idle" /\ notified[b] < MaxNotify
  /\ e = name[b] \/ (e = NoCaps /\ (b = "stream" \/ gst = "paused"))
  /\ caps' = [caps EXCEPT ![b] = e]
  /\ notified' = [notified EXCEPT ![b] = @ + 1]
  /\ UNCHANGED <<gst, at, name, inBin, unbuilt, reported, resumeFailed>>

\* Otherwise the branch pauses the pipeline, or goes on although that fails.
Notify(b, e) ==
  /\ at[b] = "idle" /\ notified[b] < MaxNotify
  /\ e # name[b]
  /\ e = NoCaps => b = "segmentation" /\ gst = "playing"
  /\ caps' = [caps EXCEPT ![b] = e]
  /\ notified' = [notified EXCEPT ![b] = @ + 1]
  /\ reported' = [reported EXCEPT ![b] = FALSE]
  /\ gst' \in {"paused", gst} /\ resumeFailed' = FALSE
  /\ at' = [at EXCEPT ![b] = "change"]
  /\ UNCHANGED <<name, inBin, unbuilt>>

\* HandleStreamChange may begin: the encoding is the first, and supported.
Begins(b) == at[b] = "change" /\ name[b] = NoCaps /\ Supported(b, caps[b])
\* In h265 StreamPipeline calls Remove on the nil pointer of an unbuilt decoder.
RemovesNil(b) == b = "stream" /\ caps[b] = "h265" /\ unbuilt[b]

\* Every element is built, added, which takes a name not yet in the bin, and
\* linked.
ChangeSucceeds(b) ==
  LET e == caps[b]
      new == First(b, e, Len(Elements(b, e))) IN
    /\ Begins(b) /\ ~RemovesNil(b)
    /\ new \cap Remains(b, e) = {}
    /\ inBin' = [inBin EXCEPT ![b] = Remains(b, e) \cup new]
    /\ name' = [name EXCEPT ![b] = e]
    /\ unbuilt' = [unbuilt EXCEPT ![b] = FALSE]
    /\ at' = [at EXCEPT ![b] = "resume"]
    /\ UNCHANGED <<gst, caps, notified, reported, resumeFailed>>

\* The element after the first n cannot be built, or be added because its name is
\* in the bin; or, all being added, a link fails.  The error is posted.
ChangeFails(b, n) ==
  LET e == caps[b] IN
    /\ Begins(b) /\ ~RemovesNil(b)
    /\ n <= Len(Elements(b, e)) /\ First(b, e, n) \cap Remains(b, e) = {}
    /\ inBin' = [inBin EXCEPT ![b] = Remains(b, e) \cup First(b, e, n)]
    /\ unbuilt' = [unbuilt EXCEPT ![b] =
                    IF Elements(b, e) # <<>> /\ Head(Elements(b, e)) = "decoder"
                    THEN n = 0 ELSE @]
    /\ reported' = [reported EXCEPT ![b] = TRUE]
    /\ at' = [at EXCEPT ![b] = "resume"]
    /\ UNCHANGED <<gst, caps, notified, name, resumeFailed>>

\* Mutants of ChangeRefused: the error is not posted; the callback returns with it.
ChangeRefusedSilently(b) ==
  /\ at[b] = "change" /\ (name[b] # NoCaps \/ ~Supported(b, caps[b]))
  /\ at' = [at EXCEPT ![b] = "resume"]
  /\ UNCHANGED <<gst, caps, notified, name, inBin, unbuilt, reported, resumeFailed>>
ChangeRefusedReturns(b) ==
  /\ at[b] = "change" /\ (name[b] # NoCaps \/ ~Supported(b, caps[b]))
  /\ reported' = [reported EXCEPT ![b] = TRUE]
  /\ at' = [at EXCEPT ![b] = "idle"]
  /\ UNCHANGED <<gst, caps, notified, name, inBin, unbuilt, resumeFailed>>

\* A change after the first, or an encoding that is not supported: an error.
ChangeRefused(b) ==
  /\ at[b] = "change" /\ (name[b] # NoCaps \/ ~Supported(b, caps[b]))
  /\ reported' = [reported EXCEPT ![b] = TRUE]
  /\ at' = [at EXCEPT ![b] = "resume"]
  /\ UNCHANGED <<gst, caps, notified, name, inBin, unbuilt, resumeFailed>>

ChangePanics(b) ==
  /\ Begins(b) /\ RemovesNil(b)
  /\ at' = [at EXCEPT ![b] = "panic"]
  /\ UNCHANGED <<gst, caps, notified, name, inBin, unbuilt, reported, resumeFailed>>

\* Mutants of Resume: the pipeline is taken down instead of played; it is played
\* only once the other branch stands by.
ResumeToNull(b) ==
  /\ at[b] = "resume"
  /\ gst' = "null"
  /\ at' = [at EXCEPT ![b] = "idle"]
  /\ UNCHANGED <<caps, notified, name, inBin, unbuilt, reported, resumeFailed>>
ResumeWaits(b) ==
  /\ at[b] = "resume" /\ \A c \in Branches \ {b} : at[c] = "idle"
  /\ \/ gst' = "playing" /\ resumeFailed' = FALSE
     \/ resumeFailed' = TRUE /\ UNCHANGED gst
  /\ at' = [at EXCEPT ![b] = "idle"]
  /\ UNCHANGED <<caps, notified, name, inBin, unbuilt, reported>>

\* Handled or not, the pipeline is set to Playing, the other branch whatever; when
\* that fails, it stays as it is.
Resume(b) ==
  /\ at[b] = "resume"
  /\ \/ gst' = "playing" /\ resumeFailed' = FALSE
     \/ resumeFailed' = TRUE /\ UNCHANGED gst
  /\ at' = [at EXCEPT ![b] = "idle"]
  /\ UNCHANGED <<caps, notified, name, inBin, unbuilt, reported>>

Change(b) ==
  \/ ChangeSucceeds(b) \/ ChangeRefused(b) \/ ChangePanics(b)
  \/ \E n \in 0 .. 4 : ChangeFails(b, n)

Next ==
  \E b \in Branches :
    \/ \E e \in Encodings \cup {NoCaps} : NotifyIgnored(b, e) \/ Notify(b, e)
    \/ Change(b) \/ Resume(b)

Spec == Init /\ [][Next]_vars
FairSpec == Spec /\ \A b \in Branches : WF_vars(Change(b)) /\ WF_vars(Resume(b))

-----------------------------------------------------------------------------
\* The two branches do not leave the pipeline paused between them, although each
\* pauses and plays it without a look at the other: with both standing by, it is
\* paused only if the last attempt of either to play it has failed.
PausedByBranch ==
  gst = "paused" => resumeFailed \/ \E b \in Branches : at[b] # "idle"

\* A branch that stands by has the encoding of its caps, or has posted an error for
\* these caps and not just for some before: no change of encoding goes unnoticed.
UnhandledIsReported ==
  \A b \in Branches :
    at[b] = "idle" /\ caps[b] \notin {NoCaps, name[b]} => reported[b]

\* However the branches interleave, neither waits for the other: a pipeline that is
\* paused plays again, unless a callback panics or an attempt to play it fails.
PlaysAgain ==
  gst = "paused" ~> gst = "playing" \/ resumeFailed \/ \E b \in Branches : at[b] = "panic"
=============================================================================
