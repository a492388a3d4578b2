---------------------------- MODULE VideoSwitch ----------------------------
(***************************************************************************)
(* One video stream of gz_video_streamer: class Stream of                  *)
(* src/modules/sim/gz_video_streamer/main.cc.                              *)
(*                                                                         *)
(* A zoom lens is simulated with several Gazebo cameras on one mount (the  *)
(* "framings", widest first) and a crop between them.  The stream          *)
(* subscribes to the camera it reads, switches to another when the lens    *)
(* asks for a narrower or a wider field of view, and encodes what it       *)
(* reads in a GStreamer pipeline that it rebuilds whenever it fails.       *)
(*                                                                         *)
(* Three kinds of step interleave.  The main loop ticks once a second:     *)
(* TryBind, ServiceBus, ServiceSources.  The zoom callback OnZoom computes *)
(* its target under the stream's mutex, releases it, and takes it again in *)
(* Select; it subscribes with no lock held.  The frame callback OnImage    *)
(* runs under the mutex from end to end.                                   *)
(*                                                                         *)
(* Fields of view are natural numbers that stand for the tangent of the    *)
(* half angle, so the crop is a ratio.  The 0.1 % of kCoverMargin is below *)
(* the resolution of that scale.  The gz-transport node is the set of      *)
(* topics it is subscribed to, and a topic is the index of its framing.    *)
(***************************************************************************)
EXTENDS Integers

CONSTANTS
  Narrowest,   \* index of the last framing; 0 is the widest, found by regex
  Width,       \* the field of view each framing's camera renders
  PixelSize,   \* the size of picture each framing's camera renders
  Silent,      \* framings whose topic carries no frame this stream can use
  Refused,     \* framings whose topic name the transport refuses
  Asks,        \* the fields of view the lens asks for
  Serial       \* the transport runs one callback at a time

Framings == 0 .. Narrowest

ASSUME NarrowestAssumption == Narrowest \in Nat
ASSUME WidthAssumption ==
  /\ Width \in [Framings -> Nat \ {0}]
  /\ \A i, j \in Framings : i < j => Width[i] > Width[j]
ASSUME SourceAssumption ==
  /\ Silent \subseteq Framings \ {0}
  /\ Refused \subseteq Framings \ {0}
ASSUME AsksAssumption == Asks \subseteq Nat \ {0}
ASSUME SerialAssumption == Serial \in BOOLEAN

(* kNone: no switch is under way. *)
None == -1

VARIABLES
  bound,       \* bound_: the widest camera's topic has been found
  hfov,        \* framings_[i].hfov_rad; 0 takes a framing out of the running
  asked,       \* asked_hfov_rad_
  active,      \* active_: the framing the picture is taken to come from
  pending,     \* pending_: the framing a switch is waiting for, or None
  retiring,    \* retiring_: topics to unsubscribe on the next tick
  subscribed,  \* topics the transport delivers frames from
  crop,        \* zoom_fraction_, as the pair <<kept, rendered>>
  applied,     \* the crop set on the pipeline's videocrop element
  pipeline,    \* pipeline_: down, up, or failed with its error on the bus
  caps,        \* source_width_/height_: the size the pipeline was built for
  shown,       \* the framing whose camera rendered the last buffer pushed
  backoff,     \* retry_after_ is still in the future
  sink,        \* the encoder session and the router can take the stream
  zoom,        \* where the zoom callback stands
  target,      \* wanted: the framing that callback decided on
  main,        \* where the main loop's tick stands
  dropping     \* ServiceSources' own copy of retiring_

switch   == <<bound, hfov, asked, active, pending, retiring, crop>>
encoding == <<applied, pipeline, caps, shown, backoff, sink>>
threads  == <<zoom, target, main, dropping>>
vars     == <<switch, encoding, subscribed, threads>>

(***************************************************************************)
(* The picture                                                             *)
(***************************************************************************)

(* Nothing is cropped away. *)
Whole == <<1, 1>>

(* The part of a picture rendered at r that shows the field of view a. *)
Crop(a, r) == IF 0 < a /\ a < r THEN <<a, r>> ELSE Whole

(* TeardownLocked.  What described the pipeline means nothing once it is   *)
(* gone, and is set back to what it was before the first one.              *)
TornDown ==
  /\ pipeline' = "down"
  /\ applied' = Whole
  /\ caps' = PixelSize[0]
  /\ shown' = 0

(* One place computes the crop and, while a pipeline stands, sets it on the *)
(* pipeline's element.                                                      *)
ApplyFraming(a, h, cam) ==
  /\ crop' = Crop(a, h[cam])
  /\ applied' = IF pipeline = "down" THEN Whole ELSE crop'

(* The framings that may serve a request: those that cover it, and the     *)
(* widest when none does.                                                  *)
Candidates(h, a) == {0} \cup {i \in Framings : h[i] >= a}

-----------------------------------------------------------------------------
Init ==
  /\ bound = FALSE
  /\ hfov = [i \in Framings |-> IF i = 0 THEN Width[0] ELSE 0]
  /\ asked = Width[0]
  /\ active = 0
  /\ pending = None
  /\ retiring = {}
  /\ subscribed = {}
  /\ crop = Whole
  /\ applied = Whole
  /\ pipeline = "down"
  /\ caps = PixelSize[0]
  /\ shown = 0
  /\ backoff = FALSE
  /\ sink = TRUE
  /\ zoom = "idle"
  /\ target = 0
  /\ main = "bind"
  /\ dropping = {}

-----------------------------------------------------------------------------
(***************************************************************************)
(* The zoom callback                                                       *)
(***************************************************************************)

(* OnZoom, under the lock: the narrowest camera that still covers the      *)
(* request, and the crop of the camera the stream is reading now.  A       *)
(* request of zero or less, for which the code takes the width of the      *)
(* camera in use, is left out: no lens sends one (AsksAssumption).         *)
OnZoom(a) ==
  /\ zoom = "idle"
  /\ asked' = a
  /\ ApplyFraming(a, hfov, active)
  /\ \E i \in Candidates(hfov, a) :
       /\ \A j \in Candidates(hfov, a) : j <= i
       /\ target' = i
  /\ zoom' = "select"
  /\ UNCHANGED <<bound, hfov, active, pending, retiring, subscribed, pipeline,
                 caps, shown, backoff, sink, main, dropping>>

(* The callback is over, and its local with it. *)
Returned == zoom' = "idle" /\ target' = 0

(* Select returns early: not bound, or the target is already in hand. *)
SelectNothing ==
  /\ zoom = "select"
  /\ ~bound \/ target \in {active, pending}
  /\ Returned
  /\ UNCHANGED <<switch, encoding, subscribed, main, dropping>>

(* Mutant of SelectPending: the switch it abandons is not retired. *)
SelectPendingForgetful ==
  /\ zoom = "select"
  /\ bound
  /\ target \notin {active, pending}
  /\ pending' = target
  /\ zoom' = "subscribe"
  /\ UNCHANGED <<bound, hfov, asked, active, retiring, crop, encoding,
                 subscribed, target, main, dropping>>

(* Select starts a switch, abandoning one that is still waiting. *)
SelectPending ==
  /\ zoom = "select"
  /\ bound
  /\ target \notin {active, pending}
  /\ retiring' = retiring \cup ({pending} \ {None})
  /\ pending' = target
  /\ zoom' = "subscribe"
  /\ UNCHANGED <<bound, hfov, asked, active, crop, encoding, subscribed,
                 target, main, dropping>>

(* Select subscribes, the lock released. *)
SelectSubscribe ==
  /\ zoom = "subscribe"
  /\ target \notin Refused
  /\ subscribed' = subscribed \cup {target}
  /\ Returned
  /\ UNCHANGED <<switch, encoding, main, dropping>>

(* The transport refused: the framing is taken out of the running. *)
SelectRefused ==
  /\ zoom = "subscribe"
  /\ target \in Refused
  /\ hfov' = [hfov EXCEPT ![target] = 0]
  /\ pending' = IF pending = target THEN None ELSE pending
  /\ ApplyFraming(asked, hfov', active)
  /\ Returned
  /\ UNCHANGED <<bound, asked, active, retiring, subscribed, pipeline, caps,
                 shown, backoff, sink, main, dropping>>

-----------------------------------------------------------------------------
(***************************************************************************)
(* The frame callback                                                      *)
(***************************************************************************)

(* The framing this frame is treated as: any frame completes a switch. *)
Treated == IF pending = None THEN active ELSE pending

(* Mutant of Promote: the crop is left as it was. *)
PromoteUncropped ==
  /\ active' = Treated
  /\ pending' = None
  /\ retiring' = IF pending = None THEN retiring ELSE retiring \cup {active}
  /\ crop' = crop

(* PromoteLocked, when a switch is under way. *)
Promote ==
  /\ active' = Treated
  /\ pending' = None
  /\ retiring' = IF pending = None THEN retiring ELSE retiring \cup {active}
  /\ crop' = Crop(asked, hfov[Treated])

(* Mutant of Fits: the size the pipeline was built for is not compared. *)
FitsAnySize(c) == c \in Framings /\ pipeline # "down"

(* The pipeline standing can take a picture of this size. *)
Fits(c) == pipeline # "down" /\ caps = PixelSize[c]

(* gst_app_src_push_buffer took the buffer. *)
Pushed(c) ==
  /\ Fits(c)
  /\ applied' = crop'
  /\ shown' = c
  /\ UNCHANGED <<pipeline, caps, backoff>>

(* The pipeline has failed and refuses the buffer: TeardownLocked. *)
PushRefused(c) ==
  /\ Fits(c)
  /\ pipeline = "failed"
  /\ TornDown
  /\ UNCHANGED backoff

(* No pipeline fits and the last attempt is less than two seconds old. *)
Waiting(c) ==
  /\ ~Fits(c)
  /\ backoff
  /\ TornDown
  /\ UNCHANGED backoff

(* BuildLocked failed. *)
BuildFails(c) ==
  /\ ~Fits(c)
  /\ ~backoff
  /\ ~sink
  /\ backoff' = TRUE
  /\ TornDown

(* BuildLocked succeeded, and the frame is the first one pushed. *)
Built(c) ==
  /\ ~Fits(c)
  /\ ~backoff
  /\ backoff' = TRUE
  /\ pipeline' = "up"
  /\ caps' = PixelSize[c]
  /\ applied' = crop'
  /\ shown' = c

OnImage(c) ==
  /\ Serial => zoom = "idle"
  /\ c \in subscribed \ Silent
  /\ Promote
  /\ \/ Pushed(c)
     \/ PushRefused(c)
     \/ Waiting(c)
     \/ BuildFails(c)
     \/ Built(c)
  /\ UNCHANGED <<bound, hfov, asked, subscribed, sink, threads>>

-----------------------------------------------------------------------------
(***************************************************************************)
(* The main loop                                                           *)
(***************************************************************************)

(* TryBind found no topic that matches, or could not subscribe to it. *)
TryBindNothing ==
  /\ main = "bind"
  /\ main' = "bus"
  /\ UNCHANGED <<switch, encoding, subscribed, zoom, target, dropping>>

(* TryBind subscribes to the widest camera, with no lock held. *)
TryBindSubscribe ==
  /\ main = "bind"
  /\ subscribed' = subscribed \cup {0}
  /\ main' = "fill"
  /\ UNCHANGED <<switch, encoding, zoom, target, dropping>>

(* TryBind fills in the framings, under the lock. *)
TryBindFill ==
  /\ main = "fill"
  /\ bound' = TRUE
  /\ hfov' = Width
  /\ active' = 0
  /\ ApplyFraming(asked, Width, 0)
  /\ main' = "bus"
  /\ UNCHANGED <<asked, pending, retiring, subscribed, pipeline, caps, shown,
                 backoff, sink, zoom, target, dropping>>

(* Mutant of ServiceBus: the error is read and the pipeline left standing. *)
ServiceBusDeaf ==
  /\ main = "bus"
  /\ main' = "sources"
  /\ UNCHANGED <<switch, encoding, subscribed, zoom, target, dropping>>

(* ServiceBus: a pipeline whose error is on the bus is torn down. *)
ServiceBus ==
  /\ main = "bus"
  /\ IF pipeline = "failed" THEN TornDown
     ELSE UNCHANGED <<pipeline, applied, caps, shown>>
  /\ main' = "sources"
  /\ UNCHANGED <<switch, backoff, sink, subscribed, zoom, target, dropping>>

(* Mutant of ServiceSourcesTake: retiring_ is cleared before it is copied. *)
ServiceSourcesTakeCleared ==
  /\ main = "sources"
  /\ retiring' = {}
  /\ main' = "drop"
  /\ UNCHANGED <<bound, hfov, asked, active, pending, crop, encoding,
                 subscribed, zoom, target, dropping>>

(* ServiceSources takes the retiring topics. *)
ServiceSourcesTake ==
  /\ main = "sources"
  /\ dropping' = retiring
  /\ retiring' = {}
  /\ main' = "drop"
  /\ UNCHANGED <<bound, hfov, asked, active, pending, crop, encoding,
                 subscribed, zoom, target>>

(* The same with a switch past its deadline: the framing is taken out of   *)
(* the running.  The code has no guard on zoom: that a call to Subscribe   *)
(* returns within kSwitchTimeout, so that nothing is given up before it is *)
(* subscribed, is an assumption about time.                                *)
ServiceSourcesExpire ==
  /\ main = "sources"
  /\ pending # None
  /\ zoom # "subscribe"
  /\ dropping' = retiring \cup {pending}
  /\ retiring' = {}
  /\ hfov' = [hfov EXCEPT ![pending] = 0]
  /\ pending' = None
  /\ ApplyFraming(asked, hfov', active)
  /\ main' = "drop"
  /\ UNCHANGED <<bound, asked, active, pipeline, caps, shown, backoff, sink,
                 subscribed, zoom, target>>

(* ServiceSources unsubscribes, the lock released. *)
Unsubscribe(c) ==
  /\ main = "drop"
  /\ c \in dropping
  /\ subscribed' = subscribed \ {c}
  /\ dropping' = dropping \ {c}
  /\ UNCHANGED <<switch, encoding, zoom, target, main>>

(* The tick is over; the loop sleeps for a second, and tries again to bind *)
(* if it has to.                                                           *)
TickEnds ==
  /\ main = "drop"
  /\ dropping = {}
  /\ main' = IF bound THEN "bus" ELSE "bind"
  /\ UNCHANGED <<switch, encoding, subscribed, zoom, target, dropping>>

-----------------------------------------------------------------------------
(***************************************************************************)
(* What surrounds the stream                                               *)
(***************************************************************************)

(* The router, or the encoder session, goes away or comes back. *)
SinkChanges ==
  /\ sink' = ~sink
  /\ UNCHANGED <<switch, applied, pipeline, caps, shown, backoff, subscribed,
                 threads>>

(* A pipeline with nowhere to send posts an error on its bus. *)
PipelineFails ==
  /\ pipeline = "up"
  /\ ~sink
  /\ pipeline' = "failed"
  /\ UNCHANGED <<switch, applied, caps, shown, backoff, sink, subscribed,
                 threads>>

(* Two seconds have passed since the last attempt to build. *)
BackoffEnds ==
  /\ backoff
  /\ backoff' = FALSE
  /\ UNCHANGED <<switch, applied, pipeline, caps, shown, sink, subscribed,
                 threads>>

-----------------------------------------------------------------------------
ZoomStep ==
  \/ SelectNothing
  \/ SelectPending
  \/ SelectSubscribe
  \/ SelectRefused

Tick ==
  \/ TryBindNothing
  \/ TryBindSubscribe
  \/ TryBindFill
  \/ ServiceBus
  \/ ServiceSourcesTake
  \/ ServiceSourcesExpire
  \/ \E c \in Framings : Unsubscribe(c)
  \/ TickEnds

Next ==
  \/ \E a \in Asks : OnZoom(a)
  \/ ZoomStep
  \/ \E c \in Framings : OnImage(c)
  \/ Tick
  \/ SinkChanges
  \/ PipelineFails
  \/ BackoffEnds

(* The program's own threads keep running, time passes, and frames keep    *)
(* coming while any camera that renders has a subscriber.  Nothing makes the lens move or the sink  *)
(* come back.                                                              *)
Fairness ==
  /\ WF_vars(ZoomStep)
  /\ WF_vars(Tick)
  /\ WF_vars(\E c \in Framings : OnImage(c))
  /\ WF_vars(PipelineFails)
  /\ WF_vars(BackoffEnds)

Spec == Init /\ [][Next]_vars

FairSpec == Spec /\ Fairness

-----------------------------------------------------------------------------
(***************************************************************************)
(* Properties                                                              *)
(***************************************************************************)

FlagsOK == bound \in BOOLEAN /\ backoff \in BOOLEAN /\ sink \in BOOLEAN

SwitchOK ==
  /\ hfov \in [Framings -> Nat]
  /\ asked \in Nat \ {0}
  /\ active \in Framings
  /\ pending \in Framings \cup {None}
  /\ retiring \subseteq Framings
  /\ subscribed \subseteq Framings
  /\ dropping \subseteq Framings
  /\ target \in Framings

PictureOK ==
  /\ crop \in Nat \X Nat
  /\ applied \in Nat \X Nat
  /\ caps \in {PixelSize[c] : c \in Framings}
  /\ shown \in Framings

ControlOK ==
  /\ pipeline \in {"down", "up", "failed"}
  /\ zoom \in {"idle", "select", "subscribe"}
  /\ main \in {"bind", "fill", "bus", "sources", "drop"}

TypeOK == FlagsOK /\ SwitchOK /\ PictureOK /\ ControlOK

(* "A zoom command and a change of camera cannot leave the two describing  *)
(* different pictures": the crop is the one of the camera the stream is    *)
(* taken to read, and a standing pipeline has it.                          *)
CropMatchesCamera ==
  /\ crop = Crop(asked, hfov[active])
  /\ pipeline # "down" => applied = crop

(* Every topic still subscribed is read, waited for, or on its way out:    *)
(* no camera is left rendering for nobody.                                 *)
NothingForgotten == subscribed \subseteq {active, pending} \cup retiring \cup dropping

(* The last buffer pushed into a standing pipeline had the size the        *)
(* pipeline was built for; another size stalls the stream silently.        *)
BufferFitsCaps == pipeline # "down" => PixelSize[shown] = caps

(* A camera the stream has stopped using stops rendering. *)
UnusedCameraStops ==
  \A c \in Framings :
    c \in subscribed ~> (c \notin subscribed \/ c \in {active, pending})

(* The stream recovers on its own: while the sink takes it and some camera *)
(* feeds it, a pipeline that is down is built again, whatever the lens     *)
(* does meanwhile.                                                         *)
Feeding == sink /\ subscribed \ Silent # {}
StreamRecovers == <>[]Feeding => []<>(pipeline = "up")

(* "The stream never runs out of frames across a switch": once bound and   *)
(* with no subscription being made, some camera it is subscribed to        *)
(* renders.                                                                *)
NeverRunsDry == bound /\ zoom # "subscribe" => subscribed \ Silent # {}

=============================================================================
