------------------------- MODULE VideoSwitchProofs -------------------------
(***************************************************************************)
(* Safety of VideoSwitch for any number of framings, any fields of view,   *)
(* any set of silent or refused cameras and either way of running the      *)
(* callbacks.                                                              *)
(***************************************************************************)
EXTENDS VideoSwitch, TLAPS

(* The main loop's locals: before the widest camera is bound nothing has   *)
(* been switched, and outside the unsubscribing part of a tick there is    *)
(* nothing to unsubscribe.                                                 *)
MainLoopInv ==
  /\ main \in {"bind", "fill"} => ~bound
  /\ ~bound => active = 0 /\ pending = None /\ zoom # "subscribe"
  /\ main # "drop" => dropping = {}

(* A subscription under way is for the camera a switch waits for, or for   *)
(* one a frame has promoted since, with no other switch begun.             *)
SubscribingInv ==
  zoom = "subscribe" => target = pending \/ (target = active /\ pending = None)

(* A topic the transport refuses is never subscribed. *)
RefusedInv == subscribed \cap Refused = {}

SourcesInv == MainLoopInv /\ SubscribingInv /\ RefusedInv /\ NothingForgotten

PictureInv == CropMatchesCamera /\ BufferFitsCaps

-----------------------------------------------------------------------------
LEMMA WidestIsFraming == 0 \in Framings
BY NarrowestAssumption DEF Framings

LEMMA NoneIsNoFraming == None \notin Framings
BY DEF Framings, None

LEMMA CropType ==
  ASSUME NEW a \in Nat, NEW r \in Nat
  PROVE  Crop(a, r) \in Nat \X Nat
BY DEF Crop, Whole

LEMMA FlagsStep == FlagsOK /\ [Next]_vars => FlagsOK'
<1> SUFFICES ASSUME FlagsOK, [Next]_vars PROVE FlagsOK'
  OBVIOUS
<1> USE DEF FlagsOK, switch, encoding, threads
<1>1. ASSUME NEW a \in Asks, OnZoom(a) PROVE FlagsOK'
  BY <1>1, Zenon DEF OnZoom
<1>2. CASE ZoomStep
  BY <1>2, Zenon DEF ZoomStep, SelectNothing, SelectPending, SelectSubscribe,
                     SelectRefused
<1>3. ASSUME NEW c \in Framings, OnImage(c) PROVE FlagsOK'
  BY <1>3, Zenon DEF OnImage, Pushed, PushRefused, Waiting, BuildFails, Built
<1>4. CASE Tick
  BY <1>4, Zenon DEF Tick, TryBindNothing, TryBindSubscribe, TryBindFill,
       ServiceBus, ServiceSourcesTake, ServiceSourcesExpire, Unsubscribe, TickEnds
<1>5. CASE SinkChanges
  BY <1>5, Zenon DEF SinkChanges
<1>6. CASE PipelineFails \/ BackoffEnds \/ UNCHANGED vars
  BY <1>6, Zenon DEF PipelineFails, BackoffEnds, vars
<1> QED
  BY <1>1, <1>2, <1>3, <1>4, <1>5, <1>6, Zenon DEF Next

LEMMA SwitchStep == SwitchOK /\ [Next]_vars => SwitchOK'
<1> SUFFICES ASSUME SwitchOK, [Next]_vars PROVE SwitchOK'
  OBVIOUS
<1> USE DEF SwitchOK, switch, encoding, threads
<1>1. ASSUME NEW a \in Asks, OnZoom(a) PROVE SwitchOK'
  BY <1>1, AsksAssumption, WidestIsFraming DEF OnZoom, Candidates
<1>2. CASE SelectNothing \/ SelectSubscribe
  BY <1>2, WidestIsFraming DEF SelectNothing, SelectSubscribe, Returned
<1>3. CASE SelectPending
  BY <1>3 DEF SelectPending
<1>4. CASE SelectRefused
  BY <1>4, WidestIsFraming DEF SelectRefused, Returned
<1>5. ASSUME NEW c \in Framings, OnImage(c) PROVE SwitchOK'
  BY <1>5 DEF OnImage, Promote, Treated
<1>6. CASE TryBindNothing \/ TryBindSubscribe
  BY <1>6, WidestIsFraming DEF TryBindNothing, TryBindSubscribe
<1>7. CASE TryBindFill
  <2>1. Width \in [Framings -> Nat]
    BY WidthAssumption
  <2> QED
    BY <1>7, <2>1, WidestIsFraming DEF TryBindFill
<1>8. CASE ServiceBus \/ ServiceSourcesTake \/ TickEnds
  BY <1>8 DEF ServiceBus, ServiceSourcesTake, TickEnds
<1>9. CASE ServiceSourcesExpire
  BY <1>9 DEF ServiceSourcesExpire
<1>10. ASSUME NEW c \in Framings, Unsubscribe(c) PROVE SwitchOK'
  BY <1>10 DEF Unsubscribe
<1>11. CASE SinkChanges \/ PipelineFails \/ BackoffEnds \/ UNCHANGED vars
  BY <1>11 DEF SinkChanges, PipelineFails, BackoffEnds, vars
<1> QED
  BY <1>1, <1>2, <1>3, <1>4, <1>5, <1>6, <1>7, <1>8, <1>9, <1>10, <1>11
  DEF Next, ZoomStep, Tick

LEMMA ControlStep == ControlOK /\ [Next]_vars => ControlOK'
<1> SUFFICES ASSUME ControlOK, [Next]_vars PROVE ControlOK'
  OBVIOUS
<1> USE DEF ControlOK, switch, encoding, threads
<1>1. ASSUME NEW a \in Asks, OnZoom(a) PROVE ControlOK'
  BY <1>1 DEF OnZoom
<1>2. CASE ZoomStep
  BY <1>2 DEF ZoomStep, SelectNothing, SelectPending, SelectSubscribe,
              SelectRefused, Returned
<1>3. ASSUME NEW c \in Framings, OnImage(c) PROVE ControlOK'
  BY <1>3 DEF OnImage, Pushed, PushRefused, Waiting, BuildFails, Built, TornDown
<1>4. CASE Tick
  BY <1>4 DEF Tick, TryBindNothing, TryBindSubscribe, TryBindFill, ServiceBus,
       ServiceSourcesTake, ServiceSourcesExpire, Unsubscribe, TickEnds, TornDown
<1>5. CASE SinkChanges \/ PipelineFails \/ BackoffEnds \/ UNCHANGED vars
  BY <1>5 DEF SinkChanges, PipelineFails, BackoffEnds, vars
<1> QED
  BY <1>1, <1>2, <1>3, <1>4, <1>5 DEF Next

(* What each kind of step leaves of the picture: nothing changed, a crop   *)
(* computed for the camera now taken to be read, or a pipeline torn down.  *)
LEMMA PictureStep ==
  ASSUME SwitchOK, PictureOK, ControlOK, [Next]_vars
  PROVE  /\ \/ crop' = Crop(asked', hfov'[active'])
            \/ UNCHANGED <<crop, asked, hfov, active>>
         /\ \/ /\ pipeline' = "down" /\ applied' = Whole
               /\ caps' = PixelSize[0] /\ shown' = 0
            \/ /\ applied' = crop' /\ shown' \in Framings /\ caps' = PixelSize[shown']
               /\ pipeline' # "down"
            \/ /\ UNCHANGED <<caps, shown, pipeline>>
               /\ applied' = IF pipeline = "down" THEN Whole ELSE crop'
            \/ UNCHANGED <<caps, shown, applied, crop>> /\ pipeline # "down"
            \/ UNCHANGED <<caps, shown, applied, pipeline, crop>>
<1> USE DEF switch, encoding, threads
<1>1. ASSUME NEW a \in Asks, OnZoom(a) 
      PROVE  /\ crop' = Crop(asked', hfov'[active'])
             /\ UNCHANGED <<caps, shown, pipeline>>
             /\ applied' = IF pipeline = "down" THEN Whole ELSE crop'
  BY <1>1 DEF OnZoom, ApplyFraming
<1>2. CASE SelectNothing \/ SelectPending \/ SelectSubscribe
  BY <1>2 DEF SelectNothing, SelectPending, SelectSubscribe
<1>3. CASE SelectRefused
  BY <1>3 DEF SelectRefused, ApplyFraming
<1>4. ASSUME NEW c \in Framings, OnImage(c)
      PROVE  /\ crop' = Crop(asked', hfov'[active'])
             /\ \/ /\ pipeline' = "down" /\ applied' = Whole
                   /\ caps' = PixelSize[0] /\ shown' = 0
                \/ /\ applied' = crop' /\ shown' = c /\ caps' = PixelSize[shown']
                   /\ pipeline' # "down"
  <2>1. crop' = Crop(asked', hfov'[active'])
    BY <1>4 DEF OnImage, Promote
  <2>2. CASE Pushed(c)
    BY <2>1, <2>2 DEF Pushed, Fits
  <2>3. CASE PushRefused(c) \/ Waiting(c) \/ BuildFails(c)
    BY <2>1, <2>3 DEF PushRefused, Waiting, BuildFails, TornDown
  <2>4. CASE Built(c)
    BY <2>1, <2>4 DEF Built
  <2> QED
    BY <1>4, <2>2, <2>3, <2>4 DEF OnImage
<1>5. CASE TryBindNothing \/ TryBindSubscribe \/ ServiceSourcesTake \/ TickEnds
  BY <1>5 DEF TryBindNothing, TryBindSubscribe, ServiceSourcesTake, TickEnds
<1>6. CASE TryBindFill
  BY <1>6 DEF TryBindFill, ApplyFraming
<1>7. CASE ServiceBus
  BY <1>7 DEF ServiceBus, TornDown
<1>8. CASE ServiceSourcesExpire
  BY <1>8 DEF ServiceSourcesExpire, ApplyFraming
<1>9. ASSUME NEW c \in Framings, Unsubscribe(c)
      PROVE  UNCHANGED <<crop, asked, hfov, active, caps, shown, applied, pipeline>>
  BY <1>9 DEF Unsubscribe
<1>10. CASE SinkChanges \/ PipelineFails \/ BackoffEnds \/ UNCHANGED vars
  BY <1>10 DEF SinkChanges, PipelineFails, BackoffEnds, vars
<1> QED
  BY <1>1, <1>2, <1>3, <1>4, <1>5, <1>6, <1>7, <1>8, <1>9, <1>10
  DEF Next, ZoomStep, Tick

(* The types of the variables, for every value of the constants. *)
THEOREM TypeCorrect == Spec => []TypeOK
<1>1. Init => FlagsOK
  BY Zenon DEF Init, FlagsOK
<1>2. Init => SwitchOK /\ PictureOK /\ ControlOK
  BY WidestIsFraming, WidthAssumption
  DEF Init, SwitchOK, PictureOK, ControlOK, Whole
<1>3. SwitchOK /\ PictureOK /\ ControlOK /\ [Next]_vars => PictureOK'
  <2> SUFFICES ASSUME SwitchOK, PictureOK, ControlOK, [Next]_vars PROVE PictureOK'
    OBVIOUS
  <2>1. crop' \in Nat \X Nat
    <3>1. SwitchOK'
      BY SwitchStep
    <3>2. Crop(asked', hfov'[active']) \in Nat \X Nat
      BY <3>1, CropType DEF SwitchOK
    <3> QED
      BY <3>2, PictureStep DEF PictureOK
  <2>2. applied' \in Nat \X Nat
    BY <2>1, PictureStep DEF PictureOK, Whole
  <2>3. caps' \in {PixelSize[c] : c \in Framings} /\ shown' \in Framings
    BY PictureStep, WidestIsFraming DEF PictureOK
  <2> QED
    BY <2>1, <2>2, <2>3 DEF PictureOK
<1>4. TypeOK /\ [Next]_vars => TypeOK'
  BY <1>3, FlagsStep, SwitchStep, ControlStep DEF TypeOK
<1> QED
  BY <1>1, <1>2, <1>4, PTL DEF Spec, TypeOK

-----------------------------------------------------------------------------
LEMMA PictureInit == Init => PictureInv
BY WidestIsFraming, WidthAssumption
DEF Init, PictureInv, CropMatchesCamera, BufferFitsCaps, Crop

LEMMA PictureInvStep ==
  SwitchOK /\ PictureOK /\ ControlOK /\ PictureInv /\ [Next]_vars => PictureInv'
<1> SUFFICES ASSUME SwitchOK, PictureOK, ControlOK, PictureInv, [Next]_vars
             PROVE PictureInv'
  OBVIOUS
<1>1. crop' = Crop(asked', hfov'[active'])
  BY PictureStep DEF PictureInv, CropMatchesCamera
<1>2. pipeline' # "down" => applied' = crop'
  BY PictureStep DEF PictureInv, CropMatchesCamera
<1>3. pipeline' # "down" => PixelSize[shown'] = caps'
  BY PictureStep DEF PictureInv, BufferFitsCaps
<1> QED
  BY <1>1, <1>2, <1>3 DEF PictureInv, CropMatchesCamera, BufferFitsCaps

(* The crop, and what a standing pipeline applies of it, always belong to  *)
(* the camera the stream is taken to read (ApplyFramingLocked).            *)
THEOREM CropMatches == Spec => []CropMatchesCamera
<1>1. PictureInv /\ TypeOK /\ [Next]_vars => PictureInv'
  BY PictureInvStep DEF TypeOK
<1>2. PictureInv => CropMatchesCamera
  BY DEF PictureInv
<1> QED
  BY <1>1, <1>2, PictureInit, TypeCorrect, PTL DEF Spec

(* No buffer is pushed into a pipeline built for another size (OnImage).   *)
THEOREM BuffersFit == Spec => []BufferFitsCaps
<1>1. PictureInv /\ TypeOK /\ [Next]_vars => PictureInv'
  BY PictureInvStep DEF TypeOK
<1>2. PictureInv => BufferFitsCaps
  BY DEF PictureInv
<1> QED
  BY <1>1, <1>2, PictureInit, TypeCorrect, PTL DEF Spec

-----------------------------------------------------------------------------
LEMMA SourcesStep == SwitchOK /\ SourcesInv /\ [Next]_vars => SourcesInv'
<1> SUFFICES ASSUME SwitchOK, SourcesInv, [Next]_vars PROVE SourcesInv'
  OBVIOUS
<1> USE DEF SourcesInv, MainLoopInv, SubscribingInv, RefusedInv,
            NothingForgotten, switch, encoding, threads
<1>1. ASSUME NEW a \in Asks, OnZoom(a) PROVE SourcesInv'
  BY <1>1 DEF OnZoom
<1>2. CASE SelectNothing
  BY <1>2 DEF SelectNothing, Returned
<1>3. CASE SelectPending
  <2>1. MainLoopInv'
    <3>1. bound /\ bound' /\ UNCHANGED <<main, dropping>>
      BY <1>3, Zenon DEF SelectPending
    <3> QED
      BY <3>1
  <2>2. SubscribingInv' /\ RefusedInv' /\ NothingForgotten'
    BY <1>3, NoneIsNoFraming DEF SelectPending, SwitchOK
  <2> QED
    BY <2>1, <2>2
<1>4. CASE SelectSubscribe
  BY <1>4 DEF SelectSubscribe, Returned
<1>5. CASE SelectRefused
  <2>1. MainLoopInv'
    <3>1. zoom = "subscribe" /\ UNCHANGED <<bound, main, dropping>>
      BY <1>5, Zenon DEF SelectRefused
    <3>2. bound /\ bound'
      BY <3>1
    <3> QED
      BY <3>1, <3>2
  <2>2. SubscribingInv' /\ RefusedInv' /\ NothingForgotten'
    BY <1>5 DEF SelectRefused, Returned
  <2> QED
    BY <2>1, <2>2
<1>6. ASSUME NEW c \in Framings, OnImage(c) PROVE SourcesInv'
  <2>1. MainLoopInv'
    <3>1. UNCHANGED <<bound, zoom, main, dropping>>
      BY <1>6, Zenon DEF OnImage
    <3>2. pending' = None /\ (pending = None => active' = active)
      BY <1>6, Zenon DEF OnImage, Promote, Treated
    <3> QED
      BY <3>1, <3>2
  <2>2. SubscribingInv' /\ RefusedInv'
    BY <1>6 DEF OnImage, Promote, Treated
  <2>3. NothingForgotten'
    <3>1. CASE pending = None
      BY <1>6, <3>1 DEF OnImage, Promote, Treated
    <3>2. CASE pending # None
      BY <1>6, <3>2 DEF OnImage, Promote, Treated
    <3> QED
      BY <3>1, <3>2
  <2> QED
    BY <2>1, <2>2, <2>3
<1>7. CASE TryBindNothing
  BY <1>7 DEF TryBindNothing
<1>8. CASE TryBindSubscribe
  BY <1>8, SourceAssumption DEF TryBindSubscribe
<1>9. CASE TryBindFill
  BY <1>9 DEF TryBindFill
<1>10. CASE ServiceBus
  BY <1>10 DEF ServiceBus
<1>11. CASE ServiceSourcesTake
  BY <1>11 DEF ServiceSourcesTake
<1>12. CASE ServiceSourcesExpire
  BY <1>12 DEF ServiceSourcesExpire
<1>13. ASSUME NEW c \in Framings, Unsubscribe(c) PROVE SourcesInv'
  BY <1>13 DEF Unsubscribe
<1>14. CASE TickEnds
  BY <1>14 DEF TickEnds
<1>15. CASE SinkChanges \/ PipelineFails \/ BackoffEnds \/ UNCHANGED vars
  BY <1>15 DEF SinkChanges, PipelineFails, BackoffEnds, vars
<1> QED
  BY <1>1, <1>2, <1>3, <1>4, <1>5, <1>6, <1>7, <1>8, <1>9, <1>10, <1>11, <1>12,
     <1>13, <1>14, <1>15 DEF Next, ZoomStep, Tick

(* However the callbacks and the main loop interleave, every camera left   *)
(* subscribed is read, waited for, or about to be unsubscribed (Select,    *)
(* PromoteLocked, ServiceSources).                                         *)
THEOREM NoCameraForgotten == Spec => []NothingForgotten
<1>1. Init => SourcesInv
  BY DEF Init, SourcesInv, MainLoopInv, SubscribingInv, RefusedInv,
         NothingForgotten
<1>2. TypeOK /\ SourcesInv /\ [Next]_vars => SourcesInv'
  BY SourcesStep DEF TypeOK
<1>3. SourcesInv => NothingForgotten
  BY DEF SourcesInv
<1> QED
  BY <1>1, <1>2, <1>3, TypeCorrect, PTL DEF Spec

=============================================================================
