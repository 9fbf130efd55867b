--------------------------- MODULE CCTVLifecycle ---------------------------
(***************************************************************************)
(* The life of a CCTVPipeline (pipeline/internal.go) and of the gst        *)
(* pipelines it supervises (pipeline/pipeline.go).                         *)
(*                                                                         *)
(* Goroutines: the client, which calls Start, Run and Stop; with an        *)
(* arbitrary user of the type, another one that calls Run; for every       *)
(* pipeline a supervisor (the literal of Start) and an inner goroutine,    *)
(* which runs Pipeline.Start and Pipeline.Finish.  Every pipeline has a    *)
(* GLib main loop of its own, but all the loops share the default main     *)
(* context: the thread that owns the context dispatches the bus watches of *)
(* every pipeline, the others only wait for it.                            *)
(*                                                                         *)
(* Not modelled: a second Start, two Stops at once.                        *)
(***************************************************************************)
EXTENDS Integers, Sequences, FiniteSets

CONSTANTS
  Pipelines,     \* the supervised pipelines (base and thumbnail)
  NoPipeline,    \* the main context has no owner
  RunPipelines,  \* runPipelines: the order in which Start and Stop visit them
  Segmented,     \* the pipeline that holds the segmentation partial
  Finite,        \* the pipelines whose source can end (the base one)
  ErrorsCap,     \* capacity of the errors channel
  MaxPosts,      \* bound: messages gst posts on the bus of one pipeline
  Client         \* who drives it: "main", "test" or "api"

ASSUME PipelinesAssumption ==
  /\ IsFiniteSet(Pipelines)
  /\ Cardinality(Pipelines) > 0
  /\ NoPipeline \notin Pipelines
  /\ RunPipelines \in [1 .. Cardinality(Pipelines) -> Pipelines]
  /\ \A p \in Pipelines : \E i \in 1 .. Cardinality(Pipelines) : RunPipelines[i] = p
  /\ \A i, j \in 1 .. Cardinality(Pipelines) :
       RunPipelines[i] = RunPipelines[j] => i = j
  /\ Segmented \in Pipelines

ASSUME ErrorsCapAssumption ==
  /\ ErrorsCap \in Nat
  /\ ErrorsCap >= Cardinality(Pipelines)

ASSUME MaxPostsAssumption == MaxPosts \in Nat

N == Cardinality(Pipelines)

VARIABLES
  client,     \* what the client executes; "panic": the program has crashed
  visit,      \* the index of the loop over runPipelines in Start and in Stop
  neverStarted, \* Stop met a pipeline whose loop is nil
  wg,         \* counter of the WaitGroup
  errors,     \* content of the errors channel: the failed pipelines, in order
  closed,     \* the errors channel is closed
  got,        \* the pipelines whose error Run or Stop returned to the client
  ctxDone,    \* the context given to Start is done
  sup,        \* where the supervisor of a pipeline is
  inner,      \* where the inner goroutine of a pipeline is
  err,        \* the supervisor's err variable is not nil
  rerr,       \* the named result of Pipeline.Start is not nil
  loopSet,    \* Pipeline.loop is not nil
  running,    \* is_running of the GMainLoop of a pipeline
  owner,      \* the pipeline whose inner goroutine owns the main context
  bus,        \* the messages waiting on the bus of a pipeline
  posted,     \* how many messages gst has posted on it
  gst,        \* the state of the gst pipeline
  quit        \* SegmentationPipeline.quit: "nil", "open" or "closed"

clientVars == <<client, visit, neverStarted>>
channelVars == <<wg, errors, closed, got>>
goVars == <<sup, inner, err, rerr>>
loopVars == <<loopSet, running, owner>>
gstVars == <<bus, posted, gst>>
vars == <<client, visit, neverStarted, wg, errors, closed, got, ctxDone, sup,
          inner, err, rerr, loopSet, running, owner, bus, posted, gst, quit>>

ClientStates == {"start", "started", "run", "ran", "stop", "wait", "close",
                 "stopped", "stopFailed", "panic"}
SupStates == {"none", "spawned", "select", "check", "send", "quit", "done"}
InnerStates == {"none", "start", "watch", "ready", "play", "run", "loop",
                "finish", "complete", "done"}
Messages == {"eos", "error"}

TypeOK ==
  /\ client \in ClientStates
  /\ visit \in 1 .. N
  /\ neverStarted \in BOOLEAN
  /\ wg \in Int
  /\ errors \in Seq(Pipelines)
  /\ closed \in BOOLEAN
  /\ got \in SUBSET Pipelines
  /\ ctxDone \in BOOLEAN
  /\ sup \in [Pipelines -> SupStates]
  /\ inner \in [Pipelines -> InnerStates]
  /\ err \in [Pipelines -> BOOLEAN]
  /\ rerr \in [Pipelines -> BOOLEAN]
  /\ loopSet \in [Pipelines -> BOOLEAN]
  /\ running \in [Pipelines -> BOOLEAN]
  /\ owner \in Pipelines \cup {NoPipeline}
  /\ bus \in [Pipelines -> Seq(Messages)]
  /\ posted \in [Pipelines -> 0 .. MaxPosts]
  /\ gst \in [Pipelines -> {"null", "ready", "playing"}]
  /\ quit \in {"nil", "open", "closed"}

(***************************************************************************)
(* NewCCTVPipeline has built both pipelines (so the Build that             *)
(* Pipeline.Start repeats returns at once) and made the errors channel.    *)
(***************************************************************************)
Init ==
  /\ client = "start" /\ visit = 1 /\ neverStarted = FALSE
  /\ wg = 0 /\ errors = <<>> /\ closed = FALSE /\ got = {}
  /\ ctxDone = FALSE
  /\ sup = [p \in Pipelines |-> "none"]
  /\ inner = [p \in Pipelines |-> "none"]
  /\ err = [p \in Pipelines |-> FALSE]
  /\ rerr = [p \in Pipelines |-> FALSE]
  /\ loopSet = [p \in Pipelines |-> FALSE]
  /\ running = [p \in Pipelines |-> FALSE]
  /\ owner = NoPipeline
  /\ bus = [p \in Pipelines |-> <<>>]
  /\ posted = [p \in Pipelines |-> 0]
  /\ gst = [p \in Pipelines |-> "null"]
  /\ quit = "nil"

(***************************************************************************)
(* The client: Start, Run, Wait, Stop.                                     *)
(***************************************************************************)

\* Mutants of StartNext: wg.Add(1) before the loop instead of in it; a loop that
\* runs past the last pipeline.
StartAddsOnce ==
  /\ client = "start"
  /\ wg' = IF visit = 1 THEN wg + 1 ELSE wg
  /\ sup' = [sup EXCEPT ![RunPipelines[visit]] = "spawned"]
  /\ visit' = IF visit = N THEN 1 ELSE visit + 1
  /\ client' = IF visit = N THEN "started" ELSE "start"
  /\ UNCHANGED <<neverStarted, errors, closed, got, ctxDone, inner, err, rerr,
                 loopVars, gstVars, quit>>
StartOverruns ==
  /\ client = "start"
  /\ wg' = wg + 1
  /\ sup' = [sup EXCEPT ![RunPipelines[visit]] = "spawned"]
  /\ visit' = visit + 1
  /\ client' = IF visit = N THEN "started" ELSE "start"
  /\ UNCHANGED <<neverStarted, errors, closed, got, ctxDone, inner, err, rerr,
                 loopVars, gstVars, quit>>

\* One turn of the loop of CCTVPipeline.Start: wg.Add(1), go func(pipeline).
StartNext ==
  /\ client = "start"
  /\ wg' = wg + 1
  /\ sup' = [sup EXCEPT ![RunPipelines[visit]] = "spawned"]
  /\ visit' = IF visit = N THEN 1 ELSE visit + 1
  /\ client' = IF visit = N THEN "started" ELSE "start"
  /\ UNCHANGED <<neverStarted, errors, closed, got, ctxDone, inner, err, rerr,
                 loopVars, gstVars, quit>>

\* main calls Run once Start has returned; the test never does.
CallRun ==
  /\ client = "started" /\ Client = "main"
  /\ client' = "run"
  /\ UNCHANGED <<visit, neverStarted, channelVars, ctxDone, goVars, loopVars,
                 gstVars, quit>>

Receive ==
  /\ errors # <<>>
  /\ got' = got \cup {Head(errors)}
  /\ errors' = Tail(errors)

\* Run returns the first error it receives.  Only Stop closes the channel, and
\* main's goroutine calls it after Run.
RunReturns ==
  /\ client = "run" /\ Receive
  /\ client' = "ran"
  /\ UNCHANGED <<visit, neverStarted, wg, closed, ctxDone, goVars, loopVars,
                 gstVars, quit>>

\* Any other user may have a goroutine that calls Run, again when it has returned,
\* while the client is in Stop or past it.  A Run that waits, or returns nil from
\* the closed channel, changes nothing.
RunElsewhere ==
  /\ Client = "api" /\ client # "start" /\ Receive
  /\ UNCHANGED <<clientVars, wg, closed, ctxDone, goVars, loopVars, gstVars, quit>>

\* main stops after an error from Run, the test once its context is done, and
\* any other user of the type whenever it likes, and again after Stop returned.
CallStop ==
  /\ \/ client = "ran"
     \/ client = "started" /\ Client = "test" /\ ctxDone
     \/ client \in {"started", "stopped", "stopFailed"} /\ Client = "api"
  /\ client' = "stop" /\ visit' = 1 /\ neverStarted' = FALSE
  /\ UNCHANGED <<channelVars, ctxDone, goVars, loopVars, gstVars, quit>>

\* Mutant of StopNext: no Wait before the channel is closed.
StopSkipsWait ==
  /\ client = "stop"
  /\ LET p == RunPipelines[visit] IN
       /\ running' = [running EXCEPT ![p] = @ /\ ~loopSet[p]]
       /\ neverStarted' = (neverStarted \/ ~loopSet[p])
  /\ visit' = IF visit = N THEN 1 ELSE visit + 1
  /\ client' = IF visit < N THEN "stop"
               ELSE IF neverStarted' THEN "stopFailed" ELSE "close"
  /\ UNCHANGED <<channelVars, ctxDone, goVars, loopSet, owner, gstVars, quit>>

\* One turn of the loop of Stop: an error if val.loop is nil, else Quit; after
\* the last turn, the early return of the errors met or Wait.
StopNext ==
  /\ client = "stop"
  /\ LET p == RunPipelines[visit] IN
       /\ running' = [running EXCEPT ![p] = @ /\ ~loopSet[p]]
       /\ neverStarted' = (neverStarted \/ ~loopSet[p])
  /\ visit' = IF visit = N THEN 1 ELSE visit + 1
  /\ client' = IF visit < N THEN "stop"
               ELSE IF neverStarted' THEN "stopFailed" ELSE "wait"
  /\ UNCHANGED <<channelVars, ctxDone, goVars, loopSet, owner, gstVars, quit>>

\* wg.Wait returns once the counter is zero.
Wait ==
  /\ client = "wait" /\ wg = 0
  /\ client' = "close"
  /\ UNCHANGED <<visit, neverStarted, channelVars, ctxDone, goVars, loopVars,
                 gstVars, quit>>

\* Mutant of CloseErrors: the channel is closed but not drained.
CloseWithoutDrain ==
  /\ client = "close" /\ ~closed
  /\ closed' = TRUE
  /\ client' = "stopped"
  /\ UNCHANGED <<visit, neverStarted, wg, errors, got, ctxDone, goVars, loopVars,
                 gstVars, quit>>

\* close(errors), then the range over what the channel still holds.
CloseErrors ==
  /\ client = "close" /\ ~closed
  /\ closed' = TRUE
  /\ got' = got \cup {errors[i] : i \in 1 .. Len(errors)}
  /\ errors' = <<>>
  /\ client' = "stopped"
  /\ UNCHANGED <<visit, neverStarted, wg, ctxDone, goVars, loopVars, gstVars, quit>>

\* close(errors) on a channel an earlier Stop has closed: the program crashes.
CloseAgain ==
  /\ client = "close" /\ closed
  /\ client' = "panic"
  /\ UNCHANGED <<visit, neverStarted, channelVars, ctxDone, goVars, loopVars,
                 gstVars, quit>>

\* The context is cancelled or times out: never for main's Background.
CancelContext ==
  /\ Client # "main" /\ ~ctxDone
  /\ ctxDone' = TRUE
  /\ UNCHANGED <<clientVars, channelVars, goVars, loopVars, gstVars, quit>>

(***************************************************************************)
(* The supervisor of pipeline p: the literal go func(pipeline) of Start.   *)
(***************************************************************************)

\* It makes its loop, which does not run yet, and starts the inner goroutine.
SpawnInner(p) ==
  /\ sup[p] = "spawned"
  /\ sup' = [sup EXCEPT ![p] = "select"]
  /\ inner' = [inner EXCEPT ![p] = "start"]
  /\ UNCHANGED <<clientVars, channelVars, ctxDone, err, rerr, loopVars, gstVars, quit>>

\* case <-ctx.Done(): the inner goroutine is left as it is.
SelectContext(p) ==
  /\ sup[p] = "select" /\ ctxDone
  /\ sup' = [sup EXCEPT ![p] = "check"]
  /\ UNCHANGED <<clientVars, channelVars, ctxDone, inner, err, rerr, loopVars,
                 gstVars, quit>>

\* case <-complete: the rendezvous with the inner goroutine's last statement.
SelectComplete(p) ==
  /\ sup[p] = "select" /\ inner[p] = "complete"
  /\ sup' = [sup EXCEPT ![p] = "check"]
  /\ inner' = [inner EXCEPT ![p] = "done"]
  /\ UNCHANGED <<clientVars, channelVars, ctxDone, err, rerr, loopVars, gstVars, quit>>

\* if err != nil: read while the inner goroutine may be about to write it.
CheckErr(p) ==
  /\ sup[p] = "check"
  /\ sup' = [sup EXCEPT ![p] = IF err[p] THEN "send" ELSE "quit"]
  /\ UNCHANGED <<clientVars, channelVars, ctxDone, inner, err, rerr, loopVars,
                 gstVars, quit>>

\* Mutant of SendError: the select is in a loop that is not left after the send.
SendErrorAndSelect(p) ==
  /\ sup[p] = "send" /\ Len(errors) < ErrorsCap
  /\ errors' = Append(errors, p)
  /\ sup' = [sup EXCEPT ![p] = "select"]
  /\ UNCHANGED <<clientVars, wg, closed, got, ctxDone, inner, err, rerr, loopVars,
                 gstVars, quit>>

\* cctv.errors <- InternalError{...} blocks while the buffer is full.
SendError(p) ==
  /\ sup[p] = "send" /\ Len(errors) < ErrorsCap
  /\ errors' = Append(errors, p)
  /\ sup' = [sup EXCEPT ![p] = "quit"]
  /\ UNCHANGED <<clientVars, wg, closed, got, ctxDone, inner, err, rerr, loopVars,
                 gstVars, quit>>

\* Mutant of SupervisorExit: no deferred wg.Done.
ExitWithoutDone(p) ==
  /\ sup[p] = "quit"
  /\ running' = [running EXCEPT ![p] = FALSE]
  /\ sup' = [sup EXCEPT ![p] = "done"]
  /\ UNCHANGED <<clientVars, channelVars, ctxDone, inner, err, rerr, loopSet,
                 owner, gstVars, quit>>

\* loop.Quit() and the deferred wg.Done().
SupervisorExit(p) ==
  /\ sup[p] = "quit"
  /\ running' = [running EXCEPT ![p] = FALSE]
  /\ wg' = wg - 1
  /\ sup' = [sup EXCEPT ![p] = "done"]
  /\ UNCHANGED <<clientVars, errors, closed, got, ctxDone, inner, err, rerr,
                 loopSet, owner, gstVars, quit>>

(***************************************************************************)
(* The inner goroutine of p: Pipeline.Start, Pipeline.Finish, complete<-.  *)
(***************************************************************************)

\* Build has nothing left to do; p.loop = mainLoop.
SetLoop(p) ==
  /\ inner[p] = "start"
  /\ loopSet' = [loopSet EXCEPT ![p] = TRUE]
  /\ inner' = [inner EXCEPT ![p] = "watch"]
  /\ UNCHANGED <<clientVars, channelVars, ctxDone, sup, err, rerr, running, owner,
                 gstVars, quit>>

\* Mutant of StartPartials: the watchdog's channel is not made.
StartPartialsNoChannel(p) ==
  /\ inner[p] = "watch"
  /\ inner' = [inner EXCEPT ![p] = "ready"]
  /\ UNCHANGED <<clientVars, channelVars, ctxDone, sup, err, rerr, loopVars,
                 gstVars, quit>>

\* The bus watch, then Start of every partial; only the segmentation's keeps
\* state, the quit channel of its watchdog.
StartPartials(p) ==
  /\ inner[p] = "watch"
  /\ quit' = IF p = Segmented THEN "open" ELSE quit
  /\ inner' = [inner EXCEPT ![p] = "ready"]
  /\ UNCHANGED <<clientVars, channelVars, ctxDone, sup, err, rerr, loopVars, gstVars>>

\* SetState(Ready), then SetState(Playing).
RaiseState(p) ==
  /\ \/ /\ inner[p] = "ready"
        /\ inner' = [inner EXCEPT ![p] = "play"]
        /\ gst' = [gst EXCEPT ![p] = "ready"]
     \/ /\ inner[p] = "play"
        /\ inner' = [inner EXCEPT ![p] = "run"]
        /\ gst' = [gst EXCEPT ![p] = "playing"]
  /\ UNCHANGED <<clientVars, channelVars, ctxDone, sup, err, rerr, loopVars, bus,
                 posted, quit>>

\* Either SetState fails: Pipeline.Start returns its error.
SetStateFails(p) ==
  /\ inner[p] \in {"ready", "play"}
  /\ err' = [err EXCEPT ![p] = TRUE]
  /\ inner' = [inner EXCEPT ![p] = "finish"]
  /\ UNCHANGED <<clientVars, channelVars, ctxDone, sup, rerr, loopVars, gstVars, quit>>

\* mainLoop.RunError(): g_main_loop_run sets is_running, whatever Quit did before.
EnterRun(p) ==
  /\ inner[p] = "run"
  /\ running' = [running EXCEPT ![p] = TRUE]
  /\ inner' = [inner EXCEPT ![p] = "loop"]
  /\ UNCHANGED <<clientVars, channelVars, ctxDone, sup, err, rerr, loopSet, owner,
                 gstVars, quit>>

\* A running loop takes the default context when no other thread owns it.
Acquire(p) ==
  /\ inner[p] = "loop" /\ running[p] /\ owner = NoPipeline
  /\ owner' = p
  /\ UNCHANGED <<clientVars, channelVars, ctxDone, goVars, loopSet, running,
                 gstVars, quit>>

\* Mutant of LeaveRun: the loop that returns keeps the context.
LeaveRunKeepsContext(p) ==
  /\ inner[p] = "loop" /\ ~running[p]
  /\ err' = [err EXCEPT ![p] = rerr[p]]
  /\ inner' = [inner EXCEPT ![p] = "finish"]
  /\ UNCHANGED <<clientVars, channelVars, ctxDone, sup, rerr, loopVars, gstVars, quit>>

\* The loop has been quit: RunError returns, and Pipeline.Start returns rerr.
LeaveRun(p) ==
  /\ inner[p] = "loop" /\ ~running[p]
  /\ owner' = IF owner = p THEN NoPipeline ELSE owner
  /\ err' = [err EXCEPT ![p] = rerr[p]]
  /\ inner' = [inner EXCEPT ![p] = "finish"]
  /\ UNCHANGED <<clientVars, channelVars, ctxDone, sup, rerr, loopSet, running,
                 gstVars, quit>>

\* Pipeline.Finish: the segmentation's Stop closes the watchdog's channel.
Finish(p) ==
  /\ inner[p] = "finish"
  /\ quit' = IF p = Segmented THEN "closed" ELSE quit
  /\ inner' = [inner EXCEPT ![p] = "complete"]
  /\ UNCHANGED <<clientVars, channelVars, ctxDone, sup, err, rerr, loopVars, gstVars>>

(***************************************************************************)
(* GStreamer posts messages; the thread that owns the context dispatches   *)
(* them to the watch Pipeline.Start added, which outlives Pipeline.Start.  *)
(***************************************************************************)

\* Only a playing pipeline with a finite source reaches the end of stream.
Post(p, m) ==
  /\ posted[p] < MaxPosts
  /\ gst[p] # "null"
  /\ m = "eos" => p \in Finite /\ gst[p] = "playing"
  /\ bus' = [bus EXCEPT ![p] = Append(@, m)]
  /\ posted' = [posted EXCEPT ![p] = @ + 1]
  /\ UNCHANGED <<clientVars, channelVars, ctxDone, goVars, loopVars, gst, quit>>

\* case MessageEOS: BlockSetState(Null), which empties the bus, and Quit.
DispatchEOS(p) ==
  /\ owner # NoPipeline /\ bus[p] # <<>> /\ Head(bus[p]) = "eos"
  /\ gst' = [gst EXCEPT ![p] = "null"]
  /\ bus' = [bus EXCEPT ![p] = <<>>]
  /\ running' = [running EXCEPT ![p] = FALSE]
  /\ UNCHANGED <<clientVars, channelVars, ctxDone, goVars, loopSet, owner, posted, quit>>

\* Mutant of DispatchError: the error is recorded, the loop not quit.
DispatchErrorNoQuit(p) ==
  /\ owner # NoPipeline /\ bus[p] # <<>> /\ Head(bus[p]) = "error"
  /\ bus' = [bus EXCEPT ![p] = Tail(@)]
  /\ rerr' = [rerr EXCEPT ![p] = TRUE]
  /\ UNCHANGED <<clientVars, channelVars, ctxDone, sup, inner, err, loopVars,
                 posted, gst, quit>>

\* case MessageError: rerr = err and Quit.
DispatchError(p) ==
  /\ owner # NoPipeline /\ bus[p] # <<>> /\ Head(bus[p]) = "error"
  /\ bus' = [bus EXCEPT ![p] = Tail(@)]
  /\ rerr' = [rerr EXCEPT ![p] = TRUE]
  /\ running' = [running EXCEPT ![p] = FALSE]
  /\ UNCHANGED <<clientVars, channelVars, ctxDone, sup, inner, err, loopSet, owner,
                 posted, gst, quit>>

ClientStep ==
  StartNext \/ RunReturns \/ StopNext \/ Wait \/ CloseErrors \/ CloseAgain
Supervisor(p) ==
  SpawnInner(p) \/ SelectContext(p) \/ SelectComplete(p) \/ CheckErr(p)
    \/ SendError(p) \/ SupervisorExit(p)
Inner(p) ==
  SetLoop(p) \/ StartPartials(p) \/ RaiseState(p) \/ SetStateFails(p)
    \/ EnterRun(p) \/ LeaveRun(p) \/ Finish(p)
Dispatch(p) == DispatchEOS(p) \/ DispatchError(p)
\* What g_main_loop_run of p does: wait for the context, then serve every bus.
MainLoop(p) == Acquire(p) \/ (owner = p /\ \E q \in Pipelines : Dispatch(q))

Alive == client # "panic"

Next ==
  /\ Alive
  /\ \/ ClientStep \/ CallRun \/ RunElsewhere \/ CallStop \/ CancelContext
     \/ \E p \in Pipelines :
          \/ Supervisor(p) \/ Inner(p) \/ MainLoop(p)
          \/ \E m \in Messages : Post(p, m)

(***************************************************************************)
(* Go schedules every goroutine that can run: a loop that waits for the    *)
(* context and one that dispatches are inner goroutines too.  Nothing is   *)
(* assumed of the environment: gst posts, the context ends, and a user     *)
(* calls Stop if and when they like.  A user other than main and the test  *)
(* keeps a call of Run under way; one who never calls it sees prefixes of  *)
(* those behaviours.                                                       *)
(***************************************************************************)
Fairness ==
  /\ WF_vars(ClientStep) /\ WF_vars(Alive /\ RunElsewhere)
  /\ Client # "api" => WF_vars(CallRun) /\ WF_vars(CallStop)
  /\ \A p \in Pipelines :
       /\ WF_vars(Alive /\ Supervisor(p))
       /\ WF_vars(Alive /\ (Inner(p) \/ MainLoop(p)))

Spec == Init /\ [][Next]_vars
FairSpec == Spec /\ Fairness

-----------------------------------------------------------------------------
(***************************************************************************)
(* Correctness.                                                            *)
(***************************************************************************)

\* The supervisors the WaitGroup counts, and what the channel holds.
Live == {p \in Pipelines : sup[p] \notin {"none", "done"}}
Queued == {errors[i] : i \in 1 .. Len(errors)}

\* However Run and Stop overlap and are repeated, no supervisor blocks or panics
\* on the errors channel: whoever sends finds it open and with room.  And a Stop
\* that failed has left it open, so that the next one can still close it.  (A Stop
\* after one that succeeded does panic: CloseAgain.)
ErrorsChannelSafe ==
  /\ \A p \in Pipelines : sup[p] = "send" => ~closed /\ Len(errors) < ErrorsCap
  /\ client = "stopFailed" => ~closed

\* SegmentationPipeline.Stop closes a channel that Start made and nobody has
\* closed: however Pipeline.Start returns, its partials were started before.
WatchdogQuitSafe == inner[Segmented] = "finish" => quit = "open"

\* Stop closes the channel and returns only when every supervisor is gone.  (Of
\* the inner goroutines it promises nothing: a cancelled context ends the
\* supervisor, and with it wg, while Pipeline.Start goes on.)
StopJoins ==
  closed \/ client \in {"close", "stopped"} => \A p \in Pipelines : sup[p] = "done"

\* As long as the context is not done, a supervisor reads err after the inner
\* goroutine wrote it for the last time (the two share the variable unlocked).
ErrReadAfterJoin ==
  ~ctxDone =>
    \A p \in Pipelines : sup[p] \in {"check", "send", "quit", "done"} => inner[p] = "done"

\* Every pipeline failure reaches the client exactly once, through Run or
\* through the multierr of Stop, even when several pipelines fail together.
NoErrorLost ==
  client = "stopped" /\ ~ctxDone => got = {p \in Pipelines : err[p]}

\* No failure is delivered twice: it is in one place of the channel or with the
\* client, and its supervisor is past the send.
DeliveredOnce ==
  /\ Queued \cap got = {}
  /\ \A i, j \in 1 .. Len(errors) : errors[i] = errors[j] => i = j
  /\ \A p \in Queued \cup got : sup[p] \in {"quit", "done"}

\* The thread that owns the default context is in its main loop, so that a
\* pipeline which stopped never keeps the others from being dispatched.
OwnerLoops == owner # NoPipeline => inner[owner] = "loop"

AllLooping == \A p \in Pipelines : inner[p] = "loop" /\ running[p]

\* Once every loop runs and no Stop is quitting them one by one, a fatal error at
\* the head of a pipeline's bus is returned to the client by Run or by Stop, or
\* Stop ends that pipeline first, or the context is done, or the program crashes.
ErrorReachesRun ==
  \A p \in Pipelines :
    AllLooping /\ client # "stop" /\ bus[p] # <<>> /\ Head(bus[p]) = "error"
      ~> p \in got \/ client = "stopped" \/ ctxDone \/ ~Alive

\* A Stop that begins when every loop runs comes to its end, its pipelines joined,
\* although all the loops compete for one context.
LoopingStopReturns ==
  (AllLooping /\ client = "stop" /\ visit = 1) ~> client = "stopped" \/ ~Alive

\* As long as some loop runs, one that runs owns the context and dispatches the
\* buses: a pipeline that stops hands the context on.
Serving == owner # NoPipeline /\ inner[owner] = "loop" /\ running[owner]
BusIsServed ==
  (\E p \in Pipelines : inner[p] = "loop" /\ running[p])
    ~> Serving \/ ~Alive \/ ~(\E p \in Pipelines : inner[p] = "loop" /\ running[p])

-----------------------------------------------------------------------------
(***************************************************************************)
(* What the comments of the code say and the code does not do.             *)
(***************************************************************************)

\* internal.go:176 "Stop all pipelines" : a call of Stop comes to an end.  But
\* a Quit that precedes g_main_loop_run has no effect, and Stop waits for ever.
StopReturns == client = "stop" ~> client \in {"stopped", "stopFailed", "panic"}

\* internal.go:163 "Run until an error occurs" (and pipeline.go:107 "Error
\* messages are always fatal") : Run returns once the watch of a pipeline has
\* handled an error.  But the other loop may dispatch it before this pipeline's
\* own loop runs: the Quit is lost, and rerr is not returned.
FatalErrorStopsRun == \A p \in Pipelines : rerr[p] /\ client = "run" ~> client = "ran"

-----------------------------------------------------------------------------
(***************************************************************************)
(* The inductive strengthening of the invariants above.                    *)
(***************************************************************************)

\* The inner goroutine exists once its supervisor has made it.
SpawnedOnce == \A p \in Pipelines : sup[p] \in {"none", "spawned"} => inner[p] = "none"

\* quit follows the inner goroutine of the pipeline that holds the watchdog.
QuitFollows ==
  /\ inner[Segmented] \in {"none", "start", "watch"} => quit = "nil"
  /\ inner[Segmented] \in {"ready", "play", "run", "loop", "finish"} => quit = "open"
  /\ inner[Segmented] \in {"complete", "done"} => quit = "closed"

\* Start has made a supervisor for the pipelines it has visited.
StartProgress ==
  /\ client = "start" =>
       \A i \in 1 .. N : sup[RunPipelines[i]] = "none" <=> i >= visit
  /\ client # "start" => \A p \in Pipelines : sup[p] # "none"

WgCounts == wg = Cardinality(Live)

\* Only a Stop that has found every pipeline started goes on to close the channel,
\* and what it left empty stays empty.
ClosedAtEnd ==
  /\ closed \/ client \in {"wait", "close"} => \A p \in Pipelines : loopSet[p]
  /\ client = "stop" /\ ~neverStarted =>
       \A i \in 1 .. N : i < visit => loopSet[RunPipelines[i]]
  /\ (client = "stop" /\ neverStarted) \/ client = "stopFailed" => ~closed
  /\ client = "stopped" => closed
  /\ closed => errors = <<>>

\* What a supervisor has found in err is what it sends.
ErrAccounted ==
  ~ctxDone =>
    \A p \in Pipelines :
      /\ sup[p] = "send" => err[p]
      /\ sup[p] \in {"quit", "done"} => (err[p] <=> p \in Queued \cup got)

\* The inductive invariant.
IInv ==
  /\ SpawnedOnce /\ QuitFollows /\ OwnerLoops
  /\ StartProgress /\ WgCounts /\ StopJoins
  /\ ClosedAtEnd /\ DeliveredOnce
  /\ ErrReadAfterJoin /\ ErrAccounted

=============================================================================
