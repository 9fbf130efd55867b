# cctv-pipeline: a verification project

cctv-pipeline reads an RTSP camera, relays its video to an RTSP server, cuts it
into segment files and writes a thumbnail for every segment. It is a Go program
that drives GStreamer through bindings. This directory holds TLA+ models of its
core, the TLC runs that check them, and proofs checked by TLAPS.

## The system

The *base* pipeline holds three partial pipelines (source, stream,
segmentation); the *thumbnail* pipeline is a gst pipeline of its own, so that
frames can be pushed into it one at a time.

| component | state it keeps | operations | talks to |
|---|---|---|---|
| `CCTVPipeline` (`pipeline/internal.go`) | errors channel, WaitGroup | New, Start, Run, Wait, Stop | two `Pipeline`s; wires segmentation to thumbnail by two callbacks |
| `Pipeline` (`pipeline/pipeline.go`) | loop, built, elements, watches, partials | Build, Start, Finish, Quit | gst bus, GLib main loop, every partial |
| `SourcePipeline` (`pipeline/source.go`) | the depay element | callback of `pad-added` | links a pad of rtspsrc to the tee |
| `StreamPipeline` (`pipeline/stream.go`) | encodingName, decoder | `notify::caps`, HandleStreamChange | pauses and plays the base pipeline |
| `SegmentationPipeline` (`pipeline/segmentation.go`) | encodingName, fileSegmentTracker, SegmentCounter, lastFinishedSegment, quit | `notify::caps`, HandleStreamChange, HandleNewSegment, HandleFormatLocation, Start, Stop | pauses and plays the base pipeline; onNewSource and onNewFileSegmentCreate call the thumbnail |
| `ThumbnailPipeline` (`pipeline/thumbnail_generation.go`) | frameBuffer, currentProbe, createCount, its elements | Connect, pad probe, flush, NewSampleFunc | appsrc and appsink of the thumbnail pipeline |
| `Element` (`pipeline/element.go`) | the gst element, once built | Build, Link, LinkFiltered, Unlink | gst; GValue for its properties |
| `ServerHandler` (`internal/rtsp/server.go`) | stream, publisher | the handlers of gortsplib | relays packets of one publisher; the counterpart of the program in its tests |
| `cctver` (`cmd/cctver/main.go`) | flags | main | Start, Run, Stop |
| go-glib: callbacks (`connect.go`, `glib.go`) | closures.m, signals.m | ClosureNew, Connect, IdleAdd, SourceRemove, HandlerDisconnect, goMarshal, removeClosure | GLib, which invokes and finalises closures |
| go-glib: objects (`gobject.go`) | references, finalizers | Take, TransferFull, the With functions, Emit, properties | GObject; the collector |
| go-glib: types (`go_object.go`, its exports, `register.go`) | registeredTypes, the table of go-pointer | RegisterGoType, class_init, instance_init, constructed, finalize | the type system of GLib, which calls back |
| go-glib: values (`gvalue.go`) | the marshalers | gValue, GoValue, the setters | every property, signal and return value |

What is hard about it is who runs what. There are goroutines (a client, a
supervisor and an inner goroutine per pipeline, a watchdog), gst streaming
threads (which run pad probes, `notify::caps`, `pad-added`, NewSampleFunc), and
the one thread that at a time owns the default GLib main context, which runs the
bus watches of *every* pipeline. They share `Pipeline.loop`, the `err` of a
supervisor, `rerr` of Pipeline.Start, the state of the base pipeline, and the
state of the thumbnail under its mutex. Below them the bindings keep Go callbacks
and Go objects in maps whose keys are addresses of C, which GLib frees and uses
again, and the collector runs finalizers when it likes. `PROJECT.json` lists every hazard with
its line and the properties that cover it.

What makes each component correct:

* supervision: no failure is lost or delivered twice, no supervisor blocks or
  panics on the errors channel, Stop returns with the supervisors joined;
* bus and loop: whoever owns the context gives it up, errors end the loop;
* segmentation: one callback for every segment, on its opening (the code does so
  only as long as each segment is closed before the next is opened);
* thumbnail: references on frames balance, files are numbered without gaps, no
  frame of former caps is pushed, no thread waits for another that waits for it;
* stream changes: neither branch leaves the pipeline paused to the other, and a
  change that is not handled posts an error;
* source: no panic, one encoding from the pad to the tee;
* RTSP server: one open stream, that of the live publisher;
* construction: a pipeline is built once, in one piece, whatever failed before, and
  its elements have the properties that were asked for;
* callbacks: a closure finds its own callback, for as long as it lives and no longer;
* objects: the reference count is the number of owners;
* types: one registration, one Go object for each GObject, no deadlock.

## The modules

| module | models | state and actions |
|---|---|---|
| `CCTVLifecycle` | `internal.go`, `pipeline.go` and the calls of `main` | `client`, `visit`: the goroutine in Start, Run and Stop, one action for each turn of the loops over `runPipelines`; `RunElsewhere`: another goroutine in Run. `sup[p]`, `inner[p]`: the two goroutines of a pipeline. `running[p]`, `owner`: GLib's loops and their shared context. `bus[p]`: what gst has posted |
| `MCCCTVLifecycle` | | the two pipelines, in the order of `runPipelines`, for TLC |
| `CCTVLifecycle_proofs` | | its theorems, as of every `_proofs` below |
| `Thumbnail` | `thumbnail_generation.go` | `stream`: the base streaming thread in Connect, which returns at once without caps (`ConnectNoCaps`), or moves the probe, waits for gst, takes the chain apart and links it, and may fail at each; `probes[s]`: the probes on the src pads of queue and decoder, each of which feeds frames (`Frame`) whatever the current source; `chain`: what Connect has left of the elements; `flushing`: the bus thread; `task`: the thread in NewSampleFunc |
| `Thumbnail_proofs` | | the inductive invariant of the thumbnails |
| `Segments` | the segment events of `segmentation.go` | Open and Close of splitmuxsink, which name their segment, HandleNewSegment on the bus; `calls`: the segments the callback was called for |
| `FlushPerSegment` | what the callback can count on | an abstract specification: which segments were begun, how far they were in turn (`inTurn`), which were called for |
| `Recording` | `Thumbnail` and `Segments` together | the bus thread is one: it runs flush inside HandleNewSegment and dispatches nothing meanwhile. Implements `FlushPerSegment` (`begun <- opened, inTurn <- inTurn, called <- calls`) |
| `Recording_proofs` | | extends `Thumbnail_proofs`; the composition and its refinement |
| `CapsChange` | the `notify::caps` callbacks and HandleStreamChange of both branches | `at[b]`: a callback that is to change elements, that is to play; `inBin[b]`: what a failed attempt left behind; `resumeFailed`: the last SetState(Playing) failed |
| `Source` | the callback of `pad-added` | one action for each way through the callback |
| `VideoPath` | `Source` and `CapsChange` together | caps reach a branch only as the source has linked them to the tee, or from a test source in its place |
| `VideoPath_proofs` | | both parts and their composition |
| `PipelineBuild` | Pipeline.Build, Prepare and Build of the partials, Element.Build, and the Connects of NewCCTVPipeline | `at`: the step of Build in progress; `parent`: which bin has which element; each step fails where the code returns an error |
| `PipelineBuild_proofs` | | the order of construction, and Build after a failure |
| `GValue` | `gvalue.go`, the property functions and ParamSpecs | operators: gValue, the casts of the setters, the marshalers, SetPropertyValue, the loop of Element.Build |
| `GlibClosures` | `connect.go`, the sources and goMarshal of `glib.go` | `memory`: what lives at an address; `contexts`, `signals`: the maps; `running`: invocations; HandlerDisconnect in its three steps |
| `GlibObject` | the references of `gobject.go` | one object, with its count, its floating flag and its owners; IsFloating and what follows are two steps |
| `Bindings`, `MCBindings` | the two together | an emission holds the object, callbacks keep wrappers, and the last reference destroys the handlers |
| `Bindings_proofs` | | both parts and their composition |
| `GoTypes` | `go_object.go`, its exports, `register.go` | `pc`: threads in RegisterGoType or in g_object_new; `mutex`, `classLock`; `saved`: the table of go-pointer |
| `GoTypes_proofs` | | who holds the mutex and the class lock, and what follows |
| `RtspServer` | `server.go` | one action per handler, two for OnSetup, which reads `stream` twice without the mutex |
| `RtspServer_proofs` | | any set of sessions |

Operators whose comment says *mutant* are wrong on purpose: each changes the
definition that follows it as a plausible bug would, and the property it belongs
to (see `mutants` in `PROJECT.json`) fails with it. No specification uses them.

### What is assumed of the libraries

* The main loops are made with `glib.MainContextDefault()`. The thread that owns
  the context dispatches all its sources; the others wait. `g_main_loop_run`
  sets `is_running`, so a quit before it has no effect.
* `Finite` holds the base pipeline only: the thumbnail's appsrc is never given an
  end of stream. Any pipeline that is up may post errors.
* `set_state(NULL)` waits for the streaming threads of the elements, or fails.
  Every other change of state may fail too, and leaves the state as it was
  (`CapsChange`) or the chain incomplete (`Thumbnail`). `appsrc` takes a reference
  of its own and drops buffers when it is down; its task stops when a push fails.
* Probe ids are counted per pad; removing an id the pad does not have does nothing.
  The decoder hands out no buffer before it has caps. The caps of queue and decoder
  are numbered as they come, so that new caps never equal old ones.
* splitmuxsink posts a message on the opening and on the closing of a fragment;
  with `async-finalize` the closing comes from a thread of its own, at any time
  after the opening.
* gortsplib runs the requests of one session in order, those of several at once;
  `Close` is a request, and `OnSessionClose` the last call of a session.
* rtspsrc emits `pad-added` one pad at a time, and removes and adds pads when it
  reconnects. An element is built if and only if its plugin is installed
  (`Source`, `PipelineBuild`), or may fail at any time (`CapsChange`).
* A gst bin refuses an element that has a parent, and a second one of a name; a
  bin the program has dropped is finalised at any time, and lets its elements go.
* GLib frees a closure when nobody holds it, after running its finalize notifier,
  and any later closure may get its address. A handler holds its closure, and an
  invocation does. Invalidating freed memory may or may not do harm.
* `g_object_ref_sink` takes over a floating reference. Whoever passes an object to
  Go keeps a reference to it until Go has its own. A finalizer runs once nothing
  reaches its wrapper.
* GLib runs class_init under a recursive lock of its own, which adding an
  interface takes too.

## The runs

| run | asks | bounds |
|---|---|---|
| `lifecycle` | with a user who stops at any time and again, has another goroutine in Run, and whose context may end: no supervisor finds the channel closed or full, supervisors are joined, every failure is delivered once; and once all loops run a fatal error reaches Run or Stop, Stop returns, and the context is handed on | 2 pipelines, 1 message each |
| `recording` | references, numbers, probes, stale frames while one pad feeds the chain; no more thumbnails than calls of flush, nor calls than segments; flushes as `FlushPerSegment` specifies them; and, as long as Connect is not called twice, that flush returns, queued frames are consumed, and the bus, which flush holds up, is served | 2 sources, 3 caps, 2 segments, 1 being closed besides the current one |
| `video_path` | source and both branches: paused with both standing by only if playing failed, no change of encoding unhandled without its error, no panic, and no camera makes a complete branch change over to another encoding | 4 encodings, 2 notifications each, 3 pads |
| `build` | builds that fail and are tried again; every type of property with every type of value | gint of 4 bits, int of 6, 2 builds of each pipeline, one plugin missing at most |
| `bindings` | callbacks, addresses, references and finalizers of one object | 2 addresses, 2 connections, 1 invocation at a time, 2 threads, 1 wrapper, 1 reference of C |
| `types` | registration, construction and finalisation by several threads | 3 threads, 2 types, 2 objects |
| `rtsp_server` | publishers that replace one another | 3 sessions |

Two pipelines are what the program has, and one message on each bus lets an error
meet an error, an end of stream, a Start, a Run and a Stop at every step of theirs;
that more messages change nothing for the safety is proved. Two sources and
three caps let a first attempt with the queue give way to a decoder that gets caps
after the first Connect, loses them or gets new ones; two segments are one that is
closed in turn, or after the next has opened, on which the toggle of HandleNewSegment
stumbles.
Three pads are audio, video and the video of a reconnection, in any order. Three
sessions are a publisher, one that replaces it while it still ends, and a third
that replaces that one or reads. Two notifications are the first attempt and the
one that stumbles over what it left; a second Build is what a caller tries after a
failure, and what it tries later stumbles in the same way. The widths are not those
of C, but the casts are taken on both sides of every boundary, which a width of 4
has like one of 32. Two addresses and two connections let a closure move into the
memory of another; a handler that fires within itself adds nothing the maps could
tell apart. `Bindings` bounds, in `Few` and in `Begin`, how much of both parts
happens at once: with two threads inside a With function there has been one
connection at most, and two WithTransferOriginal overlap once. Three threads are
one that holds a lock and two that wait, for the mutex and for GLib.

Deadlock is not checked: a client that stopped, a Run that waits for an error, a
process that panicked, or an exhausted bound are ends of the models.

These runs find a *violation*, of something a comment or a test of the code says
(`findings` in `PROJECT.json` quotes it):

| run | shows |
|---|---|
| `stop_hangs` | a Quit before the main loop runs is lost, and Stop waits for ever |
| `run_misses_error` | an error dispatched before the pipeline's own loop runs does not end Run |
| `thumbnail_deadlock` | Connect on a chain in use and NewSampleFunc wait for one another |
| `segments_misplaced` | with async-finalize the callback may be called on a closing |
| `rtsp_old_publisher` | packets of a replaced publisher go to the new stream |

More weaknesses are in the models. No comment of the code says otherwise, but for
the interfaces below, and the properties except them by name:

* A second Stop after one that succeeded closes the errors channel again, and
  panics (`CloseAgain`).
* Stop leaves the gst pipelines in the state they are in (only the end of the
  stream sets one to Null), and when the stream simply ends Run waits for ever.
  After a cancelled context Wait leaves the inner goroutine of a pipeline behind,
  and what becomes of a failure then is open: `NoErrorLost` is about contexts that
  are not done.
* The probe of the queue stays when a decoder takes over (RemoveProbe is called on
  the decoder's pad, with the queue's id), and a raw stream that changes its caps
  does not tell Connect. Either feeds the chain frames of other caps (`OneFeed`).
* A Connect that fails between taking the chain apart and putting it together
  cannot be made good by another (`chain = "stuck"`); when an element could not be
  built, the next Connect or flush uses what is nil, and panics (`RebuildPanics`,
  `FlushPanics`). An appsrc whose push failed stops for good.
* Connect deadlocks as `thumbnail_deadlock` shows; flush and the bus then wait too,
  which `FlushReturns`, `QueueIsServed` and `BusDrains` except (`Connects > 1`).
* The changes of state around a change of caps are only logged when they fail: a
  failed SetState(Playing) leaves the pipeline paused and nobody at work
  (`resumeFailed`).
* Caps lost while the pipeline plays ask a complete segmentation to change over to
  none, which is refused with an error (`NoStreamChange`).
* OnSetup may answer 200 without a stream (`setup = "okNil"`).
* With both branches notified, one may play the pipeline while the other changes
  its elements, and a second h265 attempt of the stream after a decoder that could
  not be built panics (`at = "panic"`). The video of a camera that comes back is
  not linked again (`linked`).
* A Build that failed is never repaired by another: what it left in `elements`
  makes the next one fail too.
* HandlerDisconnect uses what signals.m has under its handle after GLib has let go
  of it (`lost`, `status`): it may take the callback of another signal away, whose
  next emission panics. Connect to an unknown signal reports no error, and leaks.
* A number outside the bounds of a property is refused without an error the
  caller sees (`InRange`).
* A Go type with an interface panics when its class is initialised, for a
  variable that hides another, and may deadlock before it comes to that. This does
  contradict comments: `go_object.go:93-100` has Init called during class_init, and
  `go_object.go:154-156` offers interfaces to libraries. No run states it, and
  `ObjectsHaveTheirGoObject` and `CallsReturn` except it; the program registers no
  type.
* The comment on GoObject (`go_object.go:50`) says that a property's id is its
  index+1, while the exports (`go_object_exports.go:20`) pass the index. The ids
  are in no model, since no Go type of the program has properties.

### Fairness

Weak fairness stands for Go scheduling every goroutine that can go on, GLib every
thread waiting for the context and every ready source, gst every streaming
thread. It is given to the steps of the code only: nothing is assumed of frames,
caps, messages, pads or sessions coming, nor of a user who may never call Stop
(`main` and the test do call what comes next in them). A context is never assumed
to be done. A segment is assumed to be closed once another has opened. In the
compositions the fairness of a part is that of its threads, and flush and the
dispatching of messages share that of the bus thread. Connect is not assumed to go on
where `set_state(NULL)` fails (`ConnectStep`). In `lifecycle` the other goroutine that
calls Run does so again and again. `GoTypes` assumes strong
fairness of a thread in a call: a lock that comes free again and again is got, as
the starvation mode of Go's mutex provides and GLib's lock is taken to. `Bindings`
and `PipelineBuild` state safety only, and no fairness.

## The proofs

TLAPS proves every safety property of the passing runs, for all values of the
constants the assumptions allow. Each is proved of an inductive invariant,
which was checked by TLC first; the invariant is what is said below, and why the
property alone does not do.

**`CCTVLifecycle_proofs`**: any number of pipelines, any order of `runPipelines`,
any bound on the messages and any client.

* `TypeCorrect`: the type invariant, which is inductive by itself.
* `InnerCorrect`: `StartProgress` (Start has made the supervisors of the pipelines
  it has visited), `SpawnedOnce`, `QuitFollows` (the quit channel of the watchdog
  goes nil, open, closed as its inner goroutine goes) and `OwnerLoops`.
  `WatchdogQuitCorrect` follows.
* `WgCorrect`: the WaitGroup counts the supervisors that are not done. The
  counter alone says nothing about who is done, and Wait tests the counter alone:
  `StopJoinsCorrect` needs the equality, by cardinalities of finite sets.
* `DeliveredOnceCorrect`: an error is in one place of the channel or with the
  client, and its supervisor is past the send.
* `ErrorsChannelCorrect`: what the channel holds maps one to one into the
  pipelines other than the one that is to send, so there is room. It rests on
  `ErrorsCapAssumption`, that the capacity is at least the number of pipelines;
  the code has 2 and 2. That a Stop which failed has not closed the channel takes
  `ClosedCorrect`: only a Stop that found every loop set goes on to close, and then
  every later Stop finds them set too. Such a later Stop panics: the theorem is
  about the supervisors, and about Stops before the first that succeeds.
* `ErrCorrect` and `NoErrorLostCorrect`: short of a cancelled context a
  supervisor reads `err` after the inner goroutine has written it for the last
  time, what it found is what it sends, and so Run and Stop return exactly the
  failures there were.

**`Thumbnail_proofs`, `Recording_proofs`**: any number of caps, segments and
segments being closed.

* `ThumbnailCorrect`: `ThumbnailInv` adds to `FrameRefs`, `OneProbe` and
  `QueueMatchesCaps` who holds the mutex at which step of Connect (`MutexInv`), whose
  id the current probe is (`ProbeInv`: the id RemoveProbe gets on the decoder's pad is
  the queue's only the first time, when that pad has no probe to lose), that files are
  `1 .. createCount`, less the one being written (`CountInv`), and, with one feed, that
  the frame in hand and those to come are of the caps of a linked chain (`CapsInv`:
  the decoder's caps are those, or gone, or a Connect is on its way). It is proved
  again of the steps of `Recording` (`FramesBalance`, `NumbersStayDense`,
  `QueueKeepsCaps`, `ProbesStaySingle`, `RecordingTypes`), which are steps of
  `Thumbnail` or leave it alone.
* `RecordingImplementsPromise`: every behaviour of `Recording` is one of
  `FlushPerSegment`, without its fairness. HandleNewSegment takes openings and
  closings by turns. `CountsInv`: what was called, finished or is on the bus makes up
  the openings and closings there were, so there are no more calls than segments.
  `TurnInv`: of segments opened in turn the k-th is in message 2k - 1, and that is the
  message of the k-th call. Past them nothing ties a call to its segment.
* `ThumbnailsMatchSegments`: `WorkInv` counts what a call can become: a flush under
  way, a frame in the queue, a sample, a number.

**`VideoPath_proofs`**: any set of encodings, one branch or both, any number of
notifications and pads.

* `NoLastPause`, `PathTypes`: the branches keep `BranchesInv`.
* `ChangesReported`: `ReportInv` says of the callbacks about to play, too, that they
  have posted an error for the caps they were notified of, if the branch is not at
  their encoding.
* `PadsNeverPanic`, `BranchesNeverChangeOver`: `DepayInv` says what the source has
  made its depay element for and `TeeInv` that behind a camera no branch was ever
  notified of another encoding than that of the tee. Neither module says so by
  itself; it takes the composition. `ChangeInv` leaves only the change of the
  segmentation to no caps.

**`PipelineBuild_proofs`**: any number of Builds, missing plugins and properties.

* `BuiltAtFirst`: `PrepareInv` counts the calls of Prepare: after one, p.elements has
  the name of the first element; after two it has it twice, and keeps it. A gst
  pipeline takes no name twice, so AddElements succeeds only after one Prepare, in
  the first Build; `PlaceInv` carries that to the end of it, past the collector,
  which takes the bins of earlier Builds only.
* `PropertiesAsAsked`: `AskInv` says that the caller's element holds what
  Element.Build made of its value, and `RoundTrip` that GetProperty undoes that, for
  any number and any width. It needs that powers of two double (`PowersDouble`),
  which the provers do not know of a variable: it is taken from the number of
  subsets of a set, FS_SUBSET of the library, whose own proof there assumes it.
* `BuildTypes`.

**`Bindings_proofs`**: any set of addresses, finite sets of frames and threads, any
number of calls, wrappers and references of C.

* `ContextsFollowClosures`: `ClosuresInv` says that every holder of a closure (a
  source, a handler, an invocation) has it alive in memory, that no two handlers
  have one handle, and how far each HandlerDisconnect has come; an address may
  have belonged to any number of closures before.
* `ReferencesAreOwned`: `ObjectInv` counts the owners one by one: C, wrappers,
  values, threads between two steps of a With function, emissions. The exception
  is WithTransferOriginal overlapping with itself, and the invariant says how much
  of it may be left.
* `FinalisedObjectsLetGo`: `BetweenInv` ties the parts: there are at least as many
  references of emissions as frames that emit, and as many wrappers as callbacks
  keep. Without it either part could finalise what the other still uses.
* `BindingsTypes`.

**`GoTypes_proofs`**: any sets of threads and types, any number of objects.

* `ObjectsKeepTheirGoObject`: `TypesInv` says of each step of RegisterGoType and of
  g_object_new what the thread at it knows (`ThreadInv`: that it holds the mutex,
  that the name was free when it looked), that an object is made by one thread
  (`MakersInv`), that a type GLib knows and the map does not is being registered by
  the holder of the mutex (`RegisteredInv`), and what the table of go-pointer has
  (`TableInv`).
* `TypesAreTyped`.

**`RtspServer_proofs`**: any set of sessions.

* `StreamsCorrect`, `PublisherKeepsStreamCorrect`: stream and publisher change
  together (`StreamOfPublisher` strengthens the invariant), so the late
  OnSessionClose of a replaced publisher is not taken for the publisher's.
* `SessionsTyped`.

Assumptions are the named ASSUMEs of the modules, which TLC evaluates in the
runs: bounds are natural numbers, a null or a nobody is not one of the things it
stands in for, the sets whose members are counted are finite, and the errors
channel has room for every pipeline.

Model-checked only, on the instances of the runs, is liveness under fairness, which
the prover cannot treat: `ErrorReachesRun`, `BusIsServed`, `LoopingStopReturns`,
`FlushReturns`, `QueueIsServed`, `BusDrains`, `PlaysAgain`, `CallsReturn`,
`ReplacedLeaves`, and the fairness of `FlushPerSegment` (its safety is proved).

## What is not modelled, and the plan

Not modelled: a second Start and two Stops at once, logging, flags, the text of names and paths (two segments within
a second have the same one), what the watchdog reads off its clock, which it only
logs, nil caps and structures in the callback of pad-added (`source.go:72`, `:78`),
and DebugGSTState. CopySample and OnBuffer of the thumbnails are called by
tests only. Of go-glib: the gio wrappers and the variants, which are one-line
calls into C without state in Go; the lists, which the program does not use; and
block and unblock of handlers, interfaces and bindings of properties.

1. Done: the lifecycle; thumbnails, segments, stream changes and source, composed;
   construction and properties; callbacks, references and types of go-glib; the
   RTSP server; the proofs of their safety.
2. Extend, if worth it: `Supervisor`, an abstract specification (pipelines fail, the
   client learns of each failure once, Stop joins) which `CCTVLifecycle`
   implements step by step; handlers that are blocked.
