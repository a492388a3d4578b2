---------------------------- MODULE BenchProofs ----------------------------
(***************************************************************************)
(* Safety of the verification harness (MCBench): of a command that flies,  *)
(* of one that writes rows, of one that reads several topics and of the    *)
(* scenarios of mission.py, for all values of the constants but where a    *)
(* theorem says otherwise.                                                 *)
(***************************************************************************)
EXTENDS MCBench, Sequences, FiniteSetTheorems, WellFoundedInduction, TLAPS

-----------------------------------------------------------------------------
(***************************************************************************)
(* A command that flies                                                    *)
(***************************************************************************)

(* What it has heard, and the locals of its wait.                          *)
Cameras == [ours : BOOLEAN, pointed : BOOLEAN, listened : BOOLEAN, moves : Int]
Modes == {"hold", "takeoff", "land", "fly"}
States == [armed : BOOLEAN, mode : Modes \cup {"unheard"}]
Messages == [state : States, local : Int, report : BOOLEAN, attitude : BOOLEAN]
WaitsFor == [left : Nat, closest : Int, from : Int, best : Int, quiet : Nat]
FlightTyped ==
  /\ height \in Nat /\ armed \in BOOLEAN /\ mode \in Modes
  /\ camera \in Cameras /\ heard \in Messages /\ heard.local \in Nat \cup {Unheard}
  /\ wait \in WaitsFor /\ tries \in Int /\ exit \in Int

(* A click is not sent before it has a listener, and each one that was     *)
(* sent moved the camera.                                                  *)
ClickInv ==
  command = "click" =>
    /\ pc \in {"click mode", "attitude", "listener", "send", "done"}
    /\ pc \in {"click mode", "attitude", "listener"} => tries = Repeat /\ camera.moves = 0
    /\ pc = "send" =>
         camera.listened /\ tries \in 1 .. Repeat /\ camera.moves = Repeat - tries
    /\ pc # "done" => exit = Running
    /\ pc = "done" /\ exit = 0 => camera.moves = Repeat

(* What is the closest it came to is the best that was heard of it, and    *)
(* what is left of the deadline went while nothing better was heard.       *)
WaitInv ==
  pc \in Measured /\ wait.from # Unheard =>
    /\ heard.local # Unheard
    /\ wait.best = wait.closest
    /\ wait.left + wait.quiet >= Deadline

FlightHolds == FlightTyped /\ ClickInv /\ WaitInv

LEMMA UnheardIs == Unheard \in Int /\ Unheard \notin Nat
BY DEF Unheard

LEMMA NoWaitTyped == NoWait \in WaitsFor /\ NoWait.from = Unheard
BY UnheardIs DEF NoWait, WaitsFor

LEMMA FlightStarts == Init => FlightHolds
<1> SUFFICES ASSUME Init PROVE FlightHolds
  OBVIOUS
<1> USE BoundsAssumption
<1>1. height \in Nat /\ armed \in BOOLEAN /\ mode \in Modes
  <2>1. height \in Nat
    BY DEF Init
  <2>2. armed \in BOOLEAN /\ mode \in Modes
    BY DEF Init, Modes
  <2> QED
    BY <2>1, <2>2
<1>2. camera \in Cameras /\ heard \in Messages /\ heard.local = Unheard
  BY UnheardIs DEF Init, Cameras, Messages, States, Modes, NoState
<1>3. wait \in WaitsFor /\ wait.from = Unheard /\ tries \in Int /\ exit \in Int
  BY NoWaitTyped DEF Init, WaitsFor, Running
<1>4. FlightTyped
  BY <1>1, <1>2, <1>3 DEF FlightTyped
<1>5. ClickInv
  <2>1. CASE command = "click"
    <3>1. pc = "click mode" /\ exit = Running
      BY <2>1 DEF Init, Start
    <3>2. tries = Repeat /\ camera.moves = 0
      BY <2>1 DEF Init
    <3> QED
      BY <2>1, <3>1, <3>2 DEF ClickInv
  <2> QED
    BY <2>1 DEF ClickInv
<1> QED
  BY <1>3, <1>4, <1>5 DEF WaitInv, FlightHolds

(* What begins a wait, goes on without one, or ends the command.           *)
LEMMA BeginKeeps ==
  ASSUME FlightTyped, NEW where, Begin(where)
  PROVE  /\ wait' \in WaitsFor /\ pc' = where
         /\ wait'.left = Deadline /\ wait'.quiet = 0 /\ wait'.from = heard.local
         /\ wait'.best = Unheard /\ wait'.closest = Unheard
<1>1. heard.local \in Int /\ Deadline \in Nat
  BY BoundsAssumption DEF FlightTyped, Messages
<1>2. wait' = [NoWait EXCEPT !.left = Deadline, !.from = heard.local] /\ pc' = where
  BY DEF Begin
<1>3. wait' \in WaitsFor
  BY <1>1, <1>2, NoWaitTyped DEF WaitsFor
<1> QED
  BY <1>1, <1>2, <1>3 DEF NoWait

LEMMA HeardTyped ==
  ASSUME FlightTyped, NEW msg \in Hears
  PROVE  /\ msg \in Messages /\ msg.local \in Nat \cup {Unheard}
         /\ heard.local # Unheard => msg.local # Unheard
<1> USE UnheardIs DEF FlightTyped, Hears, Messages, States
<1>1. CASE msg = heard
  BY <1>1
<1>2. CASE msg = [heard EXCEPT !.state = [armed |-> armed, mode |-> mode]]
  BY <1>2
<1>3. CASE msg = [heard EXCEPT !.local = height]
  BY <1>3
<1>4. CASE msg = [heard EXCEPT !.report = TRUE] \/ msg = [heard EXCEPT !.attitude = TRUE]
  BY <1>4
<1> QED
  BY <1>1, <1>2, <1>3, <1>4

LEMMA RemainingTyped ==
  ASSUME NEW msg \in Messages, msg.local \in Nat \cup {Unheard}
  PROVE  Remaining(msg) \in Nat
BY BoundsAssumption, UnheardIs DEF Remaining, Messages

(* A poll that was not what was waited for.                                *)
LEMMA PollWaits ==
  ASSUME FlightTyped, WaitInv, pc \in Waits, wait.left > 0, NEW msg \in Hears,
         heard' = msg, pc' = pc,
         LET left == Remaining(msg)
             gain == pc \in Measured /\ Closer(left, wait.closest)
         IN wait' = [wait EXCEPT !.left = Left(gain),
                                 !.closest = IF gain THEN left ELSE @,
                                 !.best = IF Better(msg) THEN Remaining(msg) ELSE @,
                                 !.quiet = IF Better(msg) THEN 0
                                           ELSE IF @ < Deadline THEN @ + 1 ELSE @]
  PROVE  wait' \in WaitsFor /\ WaitInv'
<1> DEFINE left == Remaining(msg)
           gain == pc \in Measured /\ Closer(left, wait.closest)
<1> USE BoundsAssumption
<1>1. left \in Nat /\ msg.local \in Nat \cup {Unheard} /\ wait \in WaitsFor
  BY HeardTyped, RemainingTyped DEF FlightTyped
<1>2. /\ wait'.left = Left(gain)
      /\ wait'.closest = IF gain THEN left ELSE wait.closest
      /\ wait'.best = IF Better(msg) THEN left ELSE wait.best
      /\ wait'.quiet = IF Better(msg) THEN 0
                       ELSE IF wait.quiet < Deadline THEN wait.quiet + 1 ELSE wait.quiet
      /\ wait'.from = wait.from
      /\ wait' \in WaitsFor
  <2> DEFINE l == Left(gain)
             c == IF gain THEN left ELSE wait.closest
             b == IF Better(msg) THEN left ELSE wait.best
             q == IF Better(msg) THEN 0
                  ELSE IF wait.quiet < Deadline THEN wait.quiet + 1 ELSE wait.quiet
  <2>1. l \in Nat /\ c \in Int /\ b \in Int /\ q \in Nat
    BY <1>1 DEF Left, WaitsFor
  <2>2. wait' = [wait EXCEPT !.left = l, !.closest = c, !.best = b, !.quiet = q]
    OBVIOUS
  <2>3. /\ wait'.left = l /\ wait'.closest = c /\ wait'.best = b /\ wait'.quiet = q
        /\ wait'.from = wait.from /\ wait' \in WaitsFor
    <3> HIDE DEF l, c, b, q
    <3> QED
      BY <1>1, <2>1, <2>2 DEF WaitsFor
  <2> QED
    BY <2>3
<1>3. SUFFICES ASSUME (pc \in Measured /\ wait.from # Unheard)' PROVE WaitInv'
  BY <1>2 DEF WaitInv
<1>4. /\ pc \in Measured /\ heard.local # Unheard /\ wait.best = wait.closest
      /\ wait.left + wait.quiet >= Deadline
  BY <1>2, <1>3 DEF WaitInv
<1>5. msg.local # Unheard
  BY <1>4, HeardTyped
<1>6. Better(msg) <=> gain
  BY <1>4, <1>5 DEF Better, Closer
<1>7. wait'.best = wait'.closest
  BY <1>2, <1>4, <1>6
<1>8. wait'.left + wait'.quiet >= Deadline
  <2>1. wait.left \in Nat /\ wait.quiet \in Nat /\ Deadline \in Nat
    BY <1>1 DEF WaitsFor
  <2>2. CASE gain
    <3>1. wait'.left = Deadline /\ wait'.quiet = 0
      BY <1>2, <1>6, <2>2 DEF Left
    <3> QED
      BY <2>1, <3>1
  <2>3. CASE ~gain
    <3>1. wait'.left = wait.left - 1
      BY <1>2, <2>3 DEF Left
    <3>2. wait'.quiet = IF wait.quiet < Deadline THEN wait.quiet + 1 ELSE wait.quiet
      BY <1>2, <1>6, <2>3
    <3> QED
      BY <1>4, <2>1, <3>1, <3>2
  <2> QED
    BY <2>2, <2>3
<1> QED
  BY <1>5, <1>7, <1>8 DEF WaitInv

(* A wait that begins has everything of its deadline left; without one     *)
(* there is nothing to keep.                                               *)
LEMMA FreshWait ==
  ASSUME FlightTyped, heard' = heard,
         \/ \E where : Begin(where)
         \/ wait' = NoWait
  PROVE  wait' \in WaitsFor /\ WaitInv'
<1>1. CASE wait' = NoWait
  BY <1>1, NoWaitTyped DEF WaitInv
<1>2. CASE \E where : Begin(where)
  <2>1. PICK where : Begin(where)
    BY <1>2
  <2>2. /\ wait' \in WaitsFor /\ wait'.left = Deadline /\ wait'.quiet = 0
        /\ wait'.from = heard.local /\ wait'.best = wait'.closest
    BY <2>1, BeginKeeps
  <2> QED
    BY <2>2, BoundsAssumption DEF WaitInv
<1> QED
  BY <1>1, <1>2

(* A click that failed, and one that is sent.                              *)
LEMMA ClickFails == pc' = "done" /\ exit' = 1 => ClickInv'
BY DEF ClickInv

LEMMA ClickSends ==
  ASSUME pc' = "send", camera'.listened, tries' \in 1 .. Repeat,
         camera'.moves = Repeat - tries', exit' = Running
  PROVE  ClickInv'
BY DEF ClickInv

LEMMA AfterIs ==
  /\ DOMAIN After = {"telemetry", "home", "disarmed", "armed", "mode", "state", "listener"}
  /\ After["listener"] = "send"
  /\ \A where \in DOMAIN After : After[where] \notin Measured
BY DEF After, Measured

LEMMA PollKeeps == FlightHolds /\ Poll => FlightHolds'
<1> SUFFICES ASSUME FlightHolds, Poll PROVE FlightHolds'
  OBVIOUS
<1> USE DEF FlightHolds
<1>1. PICK msg \in Hears :
        /\ heard' = msg
        /\ IF ReadyWhen(msg) THEN Waited
           ELSE /\ LET left == Remaining(msg)
                       gain == pc \in Measured /\ Closer(left, wait.closest)
                   IN wait' = [wait EXCEPT !.left = Left(gain),
                                           !.closest = IF gain THEN left ELSE @,
                                           !.best = IF Better(msg) THEN Remaining(msg) ELSE @,
                                           !.quiet = IF Better(msg) THEN 0
                                                     ELSE IF @ < Deadline THEN @ + 1 ELSE @]
                /\ Proceed /\ UNCHANGED pc
  BY DEF Poll
<1>2. /\ heard' \in Messages /\ heard'.local \in Nat \cup {Unheard}
      /\ UNCHANGED <<height, armed, mode, camera, tries>> /\ pc \in Waits /\ wait.left > 0
  BY <1>1, HeardTyped DEF Poll, vehicleVars
<1>3. CASE ~ReadyWhen(msg)
  <2>1. UNCHANGED <<command, exit, pc>>
    BY <1>1, <1>3 DEF Proceed
  <2>2. wait' \in WaitsFor /\ WaitInv'
    BY <1>1, <1>2, <1>3, <2>1, PollWaits
  <2>3. FlightTyped'
    BY <1>2, <2>1, <2>2 DEF FlightTyped
  <2>4. ClickInv'
    BY <1>2, <2>1 DEF ClickInv
  <2> QED
    BY <2>2, <2>3, <2>4
<1>4. CASE ReadyWhen(msg)
  <2>1. Waited
    BY <1>1, <1>4
  <2>2. CASE pc \in DOMAIN After
    <3>1. pc' = After[pc] /\ wait' = NoWait /\ UNCHANGED <<command, exit>>
      BY <2>1, <2>2 DEF Waited, Goto, Proceed
    <3>2. pc' \notin Measured
      BY <3>1, <2>2, AfterIs
    <3>3. FlightTyped' /\ WaitInv'
      BY <1>2, <3>1, <3>2, NoWaitTyped DEF FlightTyped, WaitInv
    <3>4. ClickInv'
      <4>1. SUFFICES ASSUME command = "click" PROVE ClickInv'
        BY <3>1 DEF ClickInv
      <4>2. pc = "listener" /\ pc' = "send"
        BY <4>1, <2>2, <3>1, AfterIs DEF ClickInv
      <4>3. camera.listened
        BY <1>4, <4>2 DEF ReadyWhen
      <4>4. tries = Repeat /\ camera.moves = 0 /\ exit = Running
        BY <4>1, <4>2 DEF ClickInv
      <4>5. tries' \in 1 .. Repeat /\ 0 = Repeat - tries'
        BY <1>2, <4>4, BoundsAssumption
      <4> QED
        BY <1>2, <3>1, <4>2, <4>3, <4>4, <4>5, ClickSends
    <3> QED
      BY <3>3, <3>4
  <2>3. CASE pc \notin DOMAIN After /\ pc = "attitude"
    <3>1. /\ pc' = "listener" /\ UNCHANGED <<command, exit>>
          /\ wait' = [NoWait EXCEPT !.left = Deadline, !.from = heard.local]
      BY <2>1, <2>3 DEF Waited, Begin, Proceed
    <3>2. wait' \in WaitsFor
      BY <2>1, <2>3, BeginKeeps DEF Waited
    <3>3. FlightTyped' /\ WaitInv' /\ ClickInv'
      BY <1>2, <2>3, <3>1, <3>2 DEF FlightTyped, WaitInv, ClickInv, Measured
    <3> QED
      BY <3>3
  <2>4. CASE pc \notin DOMAIN After /\ pc # "attitude"
    <3>1. pc' = "done" /\ exit' = 0 /\ wait' = NoWait /\ UNCHANGED command
      BY <2>1, <2>4 DEF Waited, Return
    <3>2. FlightTyped' /\ WaitInv'
      BY <1>2, <3>1, NoWaitTyped DEF FlightTyped, WaitInv
    <3>3. command # "click"
      BY <1>2, <2>4, AfterIs DEF ClickInv, Waits
    <3> QED
      BY <3>1, <3>2, <3>3 DEF ClickInv
  <2> QED
    BY <2>2, <2>3, <2>4
<1> QED
  BY <1>3, <1>4

LEMMA GiveUpKeeps == FlightHolds /\ GiveUp => FlightHolds'
<1> SUFFICES ASSUME FlightHolds, GiveUp PROVE FlightHolds'
  OBVIOUS
<1> USE DEF FlightHolds
<1>1. UNCHANGED <<height, armed, mode, camera, heard, command>> /\ pc \in Waits
  BY DEF GiveUp, GaveUp, vehicleVars, Proceed
<1>2. wait' = NoWait /\ tries' \in Int
  BY DEF GiveUp, GaveUp, Goto, Return, FlightTyped
<1>3. exit' \in Int
  BY DEF GiveUp, GaveUp, Goto, Return, FlightTyped, Proceed
<1>4. FlightTyped' /\ WaitInv'
  BY <1>1, <1>2, <1>3, NoWaitTyped DEF FlightTyped, WaitInv
<1>5. ClickInv'
  <2>1. SUFFICES ASSUME command = "click" PROVE ClickInv'
    BY <1>1 DEF ClickInv
  <2>2. pc \in {"attitude", "listener"}
    BY <1>1, <2>1 DEF ClickInv, Waits
  <2>3. pc' = "done" /\ exit' = 1
    BY <2>2 DEF GiveUp, GaveUp, Return
  <2> QED
    BY <2>3, ClickFails
<1> QED
  BY <1>4, <1>5

(* Calls that a click does not make.                                       *)
LEMMA CallsKeep ==
  ASSUME FlightHolds, Stale \/ Arm \/ Ask \/ Climb \/ Land \/ Reposition
  PROVE  FlightHolds'
<1> USE DEF FlightHolds
<1>1. pc \in {"stale", "arm", "ask", "climb", "land", "reposition"} /\ UNCHANGED <<command, heard, tries>>
  BY DEF Stale, Arm, Ask, Climb, Land, Reposition, Proceed, Refused
<1>2. ClickInv'
  BY <1>1 DEF ClickInv
<1>3. (\E where : Begin(where)) \/ wait' = NoWait
  BY Zenon DEF Stale, Arm, Ask, Climb, Land, Reposition, Refused, Goto, Return
<1>4. wait' \in WaitsFor /\ WaitInv'
  BY <1>1, <1>3, FreshWait
<1>5. height' = height /\ camera' = camera
  BY DEF Stale, Arm, Ask, Climb, Land, Reposition, Refused, vehicleVars
<1>6. armed' \in BOOLEAN /\ mode' \in Modes
  BY DEF Stale, Arm, Ask, Climb, Land, Reposition, Refused, vehicleVars, FlightTyped, Modes
<1>7. exit' \in Int
  BY DEF Stale, Arm, Ask, Climb, Land, Reposition, Refused, Return, Proceed, FlightTyped
<1>8. FlightTyped'
  BY <1>1, <1>4, <1>5, <1>6, <1>7 DEF FlightTyped
<1> QED
  BY <1>2, <1>4, <1>8

LEMMA GimbalKeeps ==
  ASSUME FlightHolds, Reassert \/ Point
  PROVE  FlightHolds'
<1> USE DEF FlightHolds
<1>1. pc \in {"reassert", "point"} /\ UNCHANGED <<command, heard, height, armed, mode, exit>>
  BY DEF Reassert, Point, Proceed
<1>2. ClickInv'
  BY <1>1 DEF ClickInv
<1>3. CASE Reassert
  <2>1. wait' = NoWait /\ UNCHANGED tries
    BY <1>3 DEF Reassert, Goto
  <2>2. camera' \in Cameras
    BY <1>3 DEF Reassert, FlightTyped, Cameras
  <2> QED
    BY <1>1, <1>2, <2>1, <2>2, FreshWait DEF FlightTyped
<1>4. CASE Point
  <2>1. tries' \in Int
    BY <1>4 DEF Point, FlightTyped
  <2>2. camera' \in Cameras
    BY <1>4 DEF Point, FlightTyped, Cameras
  <2>3. wait' \in WaitsFor /\ WaitInv'
    <3>1. CASE Begin("aim")
      BY <1>1, <3>1, FreshWait
    <3>2. CASE UNCHANGED <<pc, wait>>
      BY <1>1, <3>2 DEF FlightTyped, WaitInv, Measured
    <3> QED
      BY <1>4, <3>1, <3>2 DEF Point
  <2> QED
    BY <1>1, <1>2, <2>1, <2>2, <2>3 DEF FlightTyped
<1> QED
  BY <1>3, <1>4

LEMMA ClickModeKeeps == FlightHolds /\ ClickMode => FlightHolds'
<1> SUFFICES ASSUME FlightHolds, ClickMode PROVE FlightHolds'
  OBVIOUS
<1> USE DEF FlightHolds
<1>1. pc = "click mode" /\ UNCHANGED <<command, heard, height, armed, mode, camera, tries>>
  BY DEF ClickMode, Proceed, vehicleVars
<1>2. CASE Begin("attitude") /\ Proceed
  <2>1. wait' \in WaitsFor /\ WaitInv' /\ pc' = "attitude" /\ exit' = exit
    BY <1>1, <1>2, FreshWait, BeginKeeps DEF Proceed
  <2> QED
    BY <1>1, <2>1 DEF FlightTyped, ClickInv
<1>3. CASE Return(1)
  <2>1. pc' = "done" /\ exit' = 1 /\ wait' = NoWait
    BY <1>3 DEF Return
  <2>2. ClickInv'
    BY <2>1, ClickFails
  <2>3. wait' \in WaitsFor /\ WaitInv'
    BY <1>1, <2>1, FreshWait
  <2>4. exit' \in Int
    BY <2>1
  <2> QED
    BY <1>1, <2>2, <2>3, <2>4, Zenon DEF FlightTyped
<1> QED
  BY <1>2, <1>3 DEF ClickMode

LEMMA TriggerKeeps == FlightHolds /\ Trigger => FlightHolds'
<1> SUFFICES ASSUME FlightHolds, Trigger PROVE FlightHolds'
  OBVIOUS
<1> USE DEF FlightHolds
<1>1. /\ pc = "trigger" /\ UNCHANGED <<command, heard, height, armed, mode, camera, tries>>
      /\ wait' = NoWait /\ exit' \in Int
  BY DEF Trigger, Return, vehicleVars
<1>2. ClickInv'
  BY <1>1 DEF ClickInv
<1> QED
  BY <1>1, <1>2, FreshWait DEF FlightTyped

(* The last click that is sent makes as many as there were to send.        *)
LEMMA SendKeeps == FlightHolds /\ Send => FlightHolds'
<1> SUFFICES ASSUME FlightHolds, Send PROVE FlightHolds'
  OBVIOUS
<1> USE DEF FlightHolds
<1>1. /\ pc = "send" /\ UNCHANGED <<command, heard, height, armed, mode>>
      /\ tries' = tries - 1
      /\ camera' = [camera EXCEPT !.moves = IF camera.listened THEN @ + 1 ELSE @]
  BY DEF Send, Proceed
<1>2. /\ camera' \in Cameras /\ tries' \in Int /\ camera'.listened = camera.listened
      /\ camera.listened => camera'.moves = camera.moves + 1
  BY <1>1 DEF FlightTyped, Cameras
<1>3. CASE tries = 1
  <2>1. pc' = "done" /\ exit' = 0 /\ wait' = NoWait
    BY <1>3 DEF Send, Return
  <2>2. FlightTyped' /\ WaitInv'
    BY <1>1, <1>2, <2>1, FreshWait DEF FlightTyped
  <2>3. ClickInv'
    <3>1. SUFFICES ASSUME command = "click" PROVE camera'.moves = Repeat
      BY <1>1, <2>1 DEF ClickInv
    <3>2. camera.listened /\ camera.moves = Repeat - 1
      BY <1>1, <1>3, <3>1 DEF ClickInv
    <3> QED
      BY <1>2, <3>2, BoundsAssumption
  <2> QED
    BY <2>2, <2>3
<1>4. CASE tries # 1
  <2>1. UNCHANGED <<pc, wait, exit>>
    BY <1>4 DEF Send, Proceed
  <2>2. FlightTyped' /\ WaitInv'
    BY <1>1, <1>2, <2>1 DEF FlightTyped, WaitInv, Measured
  <2>3. ClickInv'
    <3>1. SUFFICES ASSUME command = "click" PROVE ClickInv'
      BY <1>1 DEF ClickInv
    <3>2. /\ camera.listened /\ camera.moves = Repeat - tries /\ tries \in 1 .. Repeat
          /\ exit = Running
      BY <1>1, <3>1 DEF ClickInv
    <3>3. tries' \in 1 .. Repeat /\ camera'.moves = Repeat - tries'
      BY <1>1, <1>2, <1>4, <3>2, BoundsAssumption
    <3> QED
      BY <1>1, <1>2, <2>1, <3>2, <3>3, ClickSends
  <2> QED
    BY <2>2, <2>3
<1> QED
  BY <1>3, <1>4

LEMMA VehicleKeeps == FlightHolds /\ Surroundings => FlightHolds'
<1> SUFFICES ASSUME FlightHolds, Surroundings PROVE FlightHolds'
  OBVIOUS
<1> USE DEF FlightHolds
<1>1. UNCHANGED <<armed, mode, heard, command, pc, wait, tries, exit>>
  BY DEF Surroundings, Moved, Listens
<1>2. /\ height' \in Nat /\ camera' \in Cameras
      /\ camera'.moves = camera.moves /\ (camera.listened => camera'.listened)
  <2>1. CASE Moved
    BY <2>1 DEF Moved, Moves, FlightTyped
  <2>2. CASE Listens
    BY <2>2 DEF Listens, FlightTyped, Cameras
  <2> QED
    BY <2>1, <2>2 DEF Surroundings
<1>3. FlightTyped' /\ WaitInv' /\ ClickInv'
  BY <1>1, <1>2 DEF FlightTyped, WaitInv, ClickInv
<1> QED
  BY <1>3

LEMMA FlightKeeps == FlightHolds /\ [Next]_vars => FlightHolds'
<1> SUFFICES ASSUME FlightHolds, [Next]_vars PROVE FlightHolds'
  OBVIOUS
<1>1. CASE UNCHANGED vars
  BY <1>1 DEF vars, vehicleVars, FlightHolds, FlightTyped, ClickInv, WaitInv
<1>2. CASE Next
  BY <1>2, PollKeeps, GiveUpKeeps, CallsKeep, GimbalKeeps, ClickModeKeeps, TriggerKeeps,
     SendKeeps, VehicleKeeps DEF Next, Call
<1> QED
  BY <1>1, <1>2

LEMMA CommandStays == Next => command' = command
BY DEF Next, Call, Poll, GiveUp, Stale, Arm, Ask, Climb, Land, Reposition, Reassert, Point,
       ClickMode, Trigger, Send, Surroundings, Moved, Listens, Waited, GaveUp, Proceed, Refused

(* Of the parts of the bench only the one that was begun takes steps.      *)
FlightInv == command # "none" => FlightHolds

LEMMA FlightHeld == Bench => []FlightInv
<1>1. BenchInit => FlightInv
  BY FlightStarts DEF BenchInit, NoFlight, FlightInv
<1>2. FlightInv /\ [BenchNext]_benchVars => FlightInv'
  <2> SUFFICES ASSUME FlightInv, [BenchNext]_benchVars PROVE FlightInv'
    OBVIOUS
  <2>1. CASE command # "none" /\ Next
    BY <2>1, FlightKeeps DEF FlightInv
  <2>2. CASE UNCHANGED vars
    <3>1. command' = command
      BY <2>2 DEF vars
    <3> QED
      BY <2>2, <3>1, FlightKeeps DEF FlightInv
  <2> QED
    BY <2>1, <2>2 DEF BenchNext, benchVars
<1> QED
  BY <1>1, <1>2, PTL DEF Bench

(* verify/component/uas.py, click: a click that is reported as made moved  *)
(* the camera exactly as often as it was asked to, whatever came first of  *)
(* the attitude and the listener.                                          *)
THEOREM ClicksCounted == Bench => []ClickCounts
<1>1. FlightInv => ClickCounts
  <2> SUFFICES ASSUME FlightInv, command = "click", exit = 0 PROVE camera.moves = Repeat
    BY DEF ClickCounts
  <2>1. ClickInv
    BY DEF FlightInv, FlightHolds
  <2>2. exit # Running
    BY DEF Running
  <2> QED
    BY <2>1, <2>2, Zenon DEF ClickInv
<1> QED
  BY <1>1, FlightHeld, PTL

(* verify/component/uas.py, wait_until: who gives up on a vehicle has      *)
(* heard nothing better of it for a whole deadline, however it moved.      *)
THEOREM Patient == Bench => PatientWhenItFlies
<1>1. FlightInv /\ [BenchNext]_benchVars
        => [GiveUp /\ pc \in Measured /\ wait.from # Unheard => wait.quiet >= Deadline]_vars
  <2> SUFFICES ASSUME FlightInv, [BenchNext]_benchVars, ~UNCHANGED vars,
                      GiveUp, pc \in Measured, wait.from # Unheard
               PROVE  wait.quiet >= Deadline
    OBVIOUS
  <2>1. command # "none"
    BY DEF BenchNext, benchVars
  <2>2. FlightTyped /\ wait.left + wait.quiet >= Deadline
    BY <2>1 DEF FlightInv, FlightHolds, WaitInv
  <2> QED
    BY <2>2, BoundsAssumption DEF GiveUp, FlightTyped, WaitsFor
<1> QED
  BY <1>1, FlightHeld, PTL DEF Bench, PatientWhenItFlies

-----------------------------------------------------------------------------
(***************************************************************************)
(* A scenario                                                              *)
(***************************************************************************)

Kinds == {"item", "started", "declined", "capture", "survey", "nothing", "ignored",
          "localized", "succeeded", "advanced", "putdown", "discarded", "abort", "back",
          "expired"}
LogLines == [kind : Kinds, item : Int, op : Int]
Stages == {"none", "asked", "capture", "gate", "survey", "settled", "advance"}
Operations == [item : Int, id : Int, stage : Stages, cancelled : BOOLEAN]
FlightModes == {"hold", "mission", "land"}
Heres == [at : Int, mode : FlightModes]
Locals == [noticed : Nat, op : Int, item : Int, from : Int, tries : Int, mark_no : Int,
           aloft : BOOLEAN]

VehicleTyped == at \in Int /\ flightMode \in FlightModes /\ flightArmed \in BOOLEAN
NodeTyped ==
  /\ told \in Heres /\ cursor \in Int /\ op \in Operations /\ opened \in Int
  /\ abort \in BOOLEAN /\ said \in Seq(LogLines)
HarnessTyped == h \in Locals
MissionTyped == VehicleTyped /\ NodeTyped /\ HarnessTyped

LEMMA NoOpTyped == Mission!NoOp \in Operations
BY DEF Mission!NoOp, Operations, Stages

LEMMA LineTyped ==
  ASSUME op \in Operations, NEW kind \in Kinds
  PROVE  Mission!Line(kind) \in LogLines
BY DEF Mission!Line, Operations, LogLines

LEMMA SayTyped ==
  ASSUME said \in Seq(LogLines), NEW lines \in Seq(LogLines), Mission!Say(lines)
  PROVE  said' \in Seq(LogLines)
BY DEF Mission!Say

LEMMA SayOne ==
  ASSUME NodeTyped, NEW kind \in Kinds, Mission!Say(<<Mission!Line(kind)>>)
  PROVE  said' \in Seq(LogLines)
<1>1. Mission!Line(kind) \in LogLines /\ said \in Seq(LogLines)
  BY LineTyped DEF NodeTyped
<1>2. <<Mission!Line(kind)>> \in Seq(LogLines)
  BY <1>1
<1> QED
  BY <1>1, <1>2, SayTyped

LEMMA NowTyped == VehicleTyped => Mission!Now \in Heres
BY DEF Mission!Now, VehicleTyped, Heres

LEMMA PlaceTyped == \A c \in Int : Mission!Way(c) \in Int /\ Mission!Hold(c) \in Int
BY DEF Mission!Way, Mission!Hold

LEMMA PointsFinite == IsFiniteSet(Mission!Points) /\ Mission!Points \subseteq Int
BY FS_Interval, MissionAssumption DEF Mission!Points

LEMMA SameCardinality == \A S : Mission!Cardinality(S) = Cardinality(S)
BY DEF Mission!Cardinality, Cardinality

LEMMA VehicleStepTyped ==
  ASSUME MissionTyped, Mission!Vehicle
  PROVE  VehicleTyped' /\ NodeTyped'
<1>1. UNCHANGED Mission!nodeVars
  BY DEF Mission!Vehicle, Mission!Reach, Mission!Carried, Mission!Landed
<1>2. NodeTyped'
  BY <1>1 DEF Mission!nodeVars, NodeTyped, MissionTyped
<1>3. VehicleTyped'
  <2>1. at' \in Int
    BY PlaceTyped DEF Mission!Vehicle, Mission!Reach, Mission!Carried, Mission!Landed,
       MissionTyped, VehicleTyped
  <2>2. flightMode' \in FlightModes /\ flightArmed' \in BOOLEAN
    BY DEF Mission!Vehicle, Mission!Reach, Mission!Carried, Mission!Landed, MissionTyped,
           VehicleTyped, FlightModes
  <2> QED
    BY <2>1, <2>2 DEF VehicleTyped
<1> QED
  BY <1>2, <1>3

LEMMA TellTyped ==
  ASSUME MissionTyped, Mission!Tell
  PROVE  VehicleTyped' /\ NodeTyped'
<1> DEFINE back == at < told.at
           cut == op # Mission!NoOp /\ ~op.cancelled /\ (at # Mission!Hold(op.item) \/ flightMode # "mission")
           lines == (IF back THEN <<Mission!Line("back")>> ELSE <<>>)
                    \o (IF cut THEN <<Mission!Line("expired")>> ELSE <<>>)
<1>1. told' \in Heres
  BY NowTyped DEF MissionTyped, Mission!Tell
<1>2. cursor' \in Int
  <2>1. IsFiniteSet({c \in Mission!Points : Mission!Hold(c) <= at})
    BY PointsFinite, FS_Subset
  <2>2. Cardinality({c \in Mission!Points : Mission!Hold(c) <= at}) \in Nat
    BY <2>1, FS_CardinalityType
  <2>3. cursor' \in {Cardinality({c \in Mission!Points : Mission!Hold(c) <= at}), cursor}
    <3>1. cursor' = IF back THEN Cardinality({c \in Mission!Points : Mission!Hold(c) <= at})
                    ELSE cursor
      BY SameCardinality DEF Mission!Tell
    <3> QED
      BY <3>1
  <2> QED
    BY <2>2, <2>3 DEF MissionTyped, NodeTyped
<1>3. op' \in Operations
  BY DEF Mission!Tell, MissionTyped, NodeTyped, Operations
<1>4. abort' \in BOOLEAN
  BY DEF Mission!Tell, MissionTyped, NodeTyped
<1>5. said' \in Seq(LogLines)
  <2>1. lines \in Seq(LogLines)
    <3>1. Mission!Line("back") \in LogLines /\ Mission!Line("expired") \in LogLines
      BY LineTyped DEF MissionTyped, NodeTyped, Kinds
    <3> HIDE DEF back, cut
    <3> QED
      BY <3>1
  <2>2. Mission!Say(lines)
    BY DEF Mission!Tell
  <2> QED
    BY <2>1, <2>2, SayTyped DEF MissionTyped, NodeTyped
<1> QED
  BY <1>1, <1>2, <1>3, <1>4, <1>5
  DEF Mission!Tell, Mission!fcuVars, MissionTyped, NodeTyped, VehicleTyped

LEMMA ProcessTyped ==
  ASSUME MissionTyped, Mission!Process
  PROVE  VehicleTyped' /\ NodeTyped'
<1> DEFINE c == cursor + 1
           new == [item |-> c, id |-> opened + 1, stage |-> "asked", cancelled |-> FALSE]
           line(kind) == [kind |-> kind, item |-> c, op |-> new.id]
<1>1. cursor' \in Int /\ UNCHANGED <<told, abort, at, flightMode, flightArmed>> /\ opened' \in Int
  BY DEF Mission!Process, MissionTyped, NodeTyped, Mission!fcuVars
<1>2. op' \in Operations
  <2>1. new \in Operations
    BY DEF MissionTyped, NodeTyped, Operations, Stages
  <2> QED
    BY <2>1 DEF Mission!Process, MissionTyped, NodeTyped
<1>3. said' \in Seq(LogLines)
  <2>1. line("item") \in LogLines /\ line("started") \in LogLines /\ line("declined") \in LogLines
    BY DEF MissionTyped, NodeTyped, LogLines, Kinds
  <2>2. <<line("item"), line("started")>> \in Seq(LogLines) /\ <<line("item"), line("declined")>> \in Seq(LogLines)
    BY <2>1
  <2>3. Mission!Say(<<line("item"), line("started")>>) \/ Mission!Say(<<line("item"), line("declined")>>)
    BY DEF Mission!Process
  <2> QED
    BY <2>2, <2>3, SayTyped DEF MissionTyped, NodeTyped
<1> QED
  BY <1>1, <1>2, <1>3 DEF MissionTyped, NodeTyped, VehicleTyped

LEMMA WorkingTyped ==
  ASSUME MissionTyped, Mission!Working
  PROVE  VehicleTyped' /\ NodeTyped'
<1>1. PICK from \in Stages, to \in Stages, lines \in Seq(LogLines) : Mission!Does(from, to, lines)
  <2>1. \A kind \in Kinds : <<Mission!Line(kind)>> \in Seq(LogLines)
    BY LineTyped DEF MissionTyped, NodeTyped
  <2>2. <<>> \in Seq(LogLines)
    OBVIOUS
  <2> QED
    BY <2>1, <2>2 DEF Mission!Working, Stages, Kinds
<1>2. op' = [op EXCEPT !.stage = to] /\ Mission!Say(lines)
      /\ UNCHANGED <<told, cursor, opened, abort, at, flightMode, flightArmed>>
  BY <1>1 DEF Mission!Does, Mission!fcuVars
<1>3. op' \in Operations
  BY <1>2 DEF MissionTyped, NodeTyped, Operations
<1>4. said' \in Seq(LogLines)
  BY <1>2, SayTyped DEF MissionTyped, NodeTyped
<1> QED
  BY <1>2, <1>3, <1>4 DEF MissionTyped, NodeTyped, VehicleTyped

LEMMA RestTyped ==
  ASSUME MissionTyped, Mission!Advance \/ Mission!Stop \/ Mission!AbortReply \/ Mission!GoOn
  PROVE  VehicleTyped' /\ NodeTyped'
<1>1. \E kind \in Kinds : Mission!Say(<<Mission!Line(kind)>>)
  BY DEF Mission!Advance, Mission!Stop, Mission!AbortReply, Mission!GoOn, Kinds
<1>2. said' \in Seq(LogLines)
  BY <1>1, SayOne DEF MissionTyped
<1>3. op' \in Operations
  <2>1. op' \in {Mission!NoOp, op, [op EXCEPT !.stage = "survey"], [op EXCEPT !.stage = "advance"]}
    BY DEF Mission!Advance, Mission!Stop, Mission!AbortReply, Mission!GoOn
  <2>2. [op EXCEPT !.stage = "survey"] \in Operations /\ [op EXCEPT !.stage = "advance"] \in Operations
    BY DEF MissionTyped, NodeTyped, Operations, Stages
  <2> QED
    BY <2>1, <2>2, NoOpTyped DEF MissionTyped, NodeTyped
<1>4. at' \in Int
  <2>1. op.item \in Int
    BY DEF MissionTyped, NodeTyped, Operations
  <2> QED
    BY <2>1, PlaceTyped DEF Mission!Advance, Mission!Stop, Mission!AbortReply, Mission!GoOn, Mission!fcuVars,
         MissionTyped, VehicleTyped
<1>5. UNCHANGED <<told, cursor, opened, flightMode, flightArmed>> /\ abort' \in BOOLEAN
  BY DEF Mission!Advance, Mission!Stop, Mission!AbortReply, Mission!GoOn, Mission!fcuVars,
         MissionTyped, NodeTyped
<1> QED
  BY <1>2, <1>3, <1>4, <1>5 DEF MissionTyped, NodeTyped, VehicleTyped

LEMMA Least ==
  ASSUME NEW S \in SUBSET Nat, S # {}
  PROVE  \E n \in S : \A m \in S : n <= m
<1>1. PICK n \in S : \A m \in S : ~ (<<m, n>> \in OpToRel(<, Nat))
  BY NatLessThanWellFounded, WFMin, Zenon
<1>2. \A m \in S : ~ (m < n)
  BY <1>1 DEF OpToRel
<1> QED
  BY <1>2

LEMMA FirstIs ==
  ASSUME NEW S \in SUBSET Nat, S # {}
  PROVE  Mission!FirstOf(S) \in S /\ \A j \in S : Mission!FirstOf(S) <= j
<1>1. \E n \in S : \A m \in S : n <= m
  BY Least
<1> QED
  BY <1>1, Zenon DEF Mission!FirstOf

LEMMA LinesAre ==
  ASSUME NodeTyped, NEW from \in Nat, NEW kinds
  PROVE  /\ Mission!Lines(from, kinds) \subseteq {i \in 1 .. Len(said) : i > from}
         /\ Mission!Lines(from, kinds) \in SUBSET Nat
         /\ \A i \in Mission!Lines(from, kinds) : said[i] \in LogLines /\ said[i].kind \in kinds
BY DEF Mission!Lines, NodeTyped

LEMMA AwaitedAre ==
  ASSUME MissionTyped
  PROVE  /\ Mission!Awaited \in SUBSET Nat
         /\ \A i \in Mission!Awaited : i \in 1 .. Len(said) /\ said[i] \in LogLines
<1>1. PICK from \in Nat : \E kinds : Mission!Awaited \subseteq Mission!Lines(from, kinds)
  <2>1. h.noticed \in Nat
    BY DEF MissionTyped, HarnessTyped, Locals
  <2> QED
    BY <2>1, Zenon DEF Mission!Awaited, Mission!OfOp
<1> QED
  BY <1>1, LinesAre DEF MissionTyped

LEMMA NoticedTyped == MissionTyped => Mission!Noticed \in Nat
<1> SUFFICES ASSUME MissionTyped PROVE Mission!Noticed \in Nat
  OBVIOUS
<1> DEFINE told_ == Mission!Lines(0, Mission!Notice)
<1>1. CASE told_ = {}
  BY <1>1 DEF Mission!Noticed
<1>2. CASE told_ # {}
  <2>1. Mission!FirstOf(told_) \in told_ /\ told_ \subseteq {i \in 1 .. Len(said) : i > 0}
    BY <1>2, FirstIs, LinesAre DEF MissionTyped
  <2>2. Mission!FirstOf(told_) \in Nat /\ Mission!FirstOf(told_) > 0
    BY <2>1
  <2>3. Mission!Noticed = Mission!FirstOf(told_) - 1
    BY <1>2 DEF Mission!Noticed
  <2> QED
    BY <2>2, <2>3
<1> QED
  BY <1>1, <1>2

LEMMA HarnessStepTyped ==
  ASSUME MissionTyped, Mission!Harness
  PROVE  MissionTyped'
<1>1. NodeTyped'
  <2>1. UNCHANGED <<told, op, opened, abort>>
    BY DEF Mission!Harness, Mission!StartMission, Mission!Load, Mission!Land, Mission!Down,
      Mission!Rewind, Mission!Arm, Mission!Auto, Mission!Interrupting, Mission!Look, Mission!Seen,
      Mission!Fired, Mission!OutOfTime, Mission!Mark, Mission!Interrupt, Mission!Settle,
      Mission!Chain, Mission!Moved, Mission!Judging, Mission!Judge, Mission!Grace, Mission!After,
      Mission!Passed, Mission!Flying, Mission!Fly, Mission!Item, Mission!Set, Mission!Read,
      Mission!Watch, Mission!nodeVars
  <2>2. said' \in {said, <<>>} /\ cursor' \in {cursor, 0}
    BY DEF Mission!Harness, Mission!StartMission, Mission!Load, Mission!Land, Mission!Down,
      Mission!Rewind, Mission!Arm, Mission!Auto, Mission!Interrupting, Mission!Look, Mission!Seen,
      Mission!Fired, Mission!OutOfTime, Mission!Mark, Mission!Interrupt, Mission!Settle,
      Mission!Chain, Mission!Moved, Mission!Judging, Mission!Judge, Mission!Grace, Mission!After,
      Mission!Passed, Mission!Flying, Mission!Fly, Mission!Item, Mission!Set, Mission!Read,
      Mission!Watch, Mission!nodeVars, Mission!Forget
  <2>3. said' \in Seq(LogLines)
    <3>1. said \in Seq(LogLines) /\ <<>> \in Seq(LogLines)
      BY DEF MissionTyped, NodeTyped
    <3> QED
      BY <2>2, <3>1
  <2>4. cursor' \in Int
    BY <2>2 DEF MissionTyped, NodeTyped
  <2> QED
    BY <2>1, <2>3, <2>4 DEF MissionTyped, NodeTyped
<1>2. flightMode' \in FlightModes /\ flightArmed' \in BOOLEAN
  BY DEF Mission!Harness, Mission!StartMission, Mission!Load, Mission!Land, Mission!Down,
      Mission!Rewind, Mission!Arm, Mission!Auto, Mission!Interrupting, Mission!Look, Mission!Seen,
      Mission!Fired, Mission!OutOfTime, Mission!Mark, Mission!Interrupt, Mission!Settle,
      Mission!Chain, Mission!Moved, Mission!Judging, Mission!Judge, Mission!Grace, Mission!After,
      Mission!Passed, Mission!Flying, Mission!Fly, Mission!Item, Mission!Set, Mission!Read,
      Mission!Watch, Mission!fcuVars, MissionTyped, VehicleTyped, FlightModes
<1>3. at' \in Int
  <2>1. Mission!Hold(h.item) \in Int /\ Mission!Way(1) \in Int /\ Mission!Hold(Captures) \in Int
    BY PlaceTyped, MissionAssumption DEF MissionTyped, HarnessTyped, Locals
  <2>2. at' \in {at, 0, Mission!Hold(h.item) + 1, Mission!Way(1), Mission!Hold(Captures)}
    <3>1. CASE Mission!Interrupt
      BY <3>1, Zenon DEF Mission!Interrupt
    <3>2. CASE ~Mission!Interrupt
      BY <3>2 DEF Mission!Harness, Mission!StartMission, Mission!Load, Mission!Land, Mission!Down,
      Mission!Rewind, Mission!Arm, Mission!Auto, Mission!Interrupting, Mission!Look, Mission!Seen,
      Mission!Fired, Mission!OutOfTime, Mission!Mark, Mission!Settle,
      Mission!Chain, Mission!Moved, Mission!Judging, Mission!Judge, Mission!Grace, Mission!After,
      Mission!Passed, Mission!Flying, Mission!Fly, Mission!Item, Mission!Set, Mission!Read,
      Mission!Watch, Mission!fcuVars
    <3> QED
      BY <3>1, <3>2
  <2> QED
    BY <2>1, <2>2 DEF MissionTyped, VehicleTyped
<1>4. h' \in Locals
  <2> USE DEF MissionTyped, HarnessTyped, Locals
  <2>1. CASE Mission!StartMission
    <3>1. CASE Mission!Down
      BY <3>1 DEF Mission!Down
    <3>2. CASE Mission!NextTry
      <4>1. (IF h.tries = Tries THEN 1 ELSE h.tries + 1) \in Int
        OBVIOUS
      <4> QED
        BY <3>2, <4>1 DEF Mission!NextTry
    <3>3. CASE Mission!Auto
      BY <3>2, <3>3 DEF Mission!Auto
    <3>4. CASE Mission!Load \/ Mission!Land \/ Mission!Rewind \/ Mission!Arm
      BY <3>2, <3>4 DEF Mission!Load, Mission!Land, Mission!Rewind, Mission!Arm
    <3> QED
      BY <2>1, <3>1, <3>3, <3>4 DEF Mission!StartMission
  <2>2. CASE Mission!Look
    <3>1. Mission!Hit => Mission!FirstOf(Mission!Awaited) \in Mission!Awaited
      BY AwaitedAre, FirstIs DEF Mission!Hit
    <3>2. Mission!Hit => said[Mission!FirstOf(Mission!Awaited)] \in LogLines
      BY <3>1, AwaitedAre
    <3> QED
      BY <2>2, <3>2 DEF Mission!Look, LogLines
  <2>3. CASE Mission!Judge
    BY <2>3, NoticedTyped DEF Mission!Judge
  <2>4. CASE Mission!Mark \/ Mission!Settle \/ Mission!Chain \/ Mission!Moved \/ Mission!Read
    <3>1. h' \in {h, [h EXCEPT !.from = IF scen = "G" THEN at ELSE 0], [h EXCEPT !.tries = @ + 1],
                  [h EXCEPT !.mark_no = @ + 1],
                  [h EXCEPT !.noticed = IF Mission!Informed THEN 1 ELSE 0]}
      BY <2>4, Zenon DEF Mission!Mark, Mission!Settle, Mission!Chain, Mission!Moved, Mission!Read
    <3>2. [h EXCEPT !.from = IF scen = "G" THEN at ELSE 0] \in Locals
      BY DEF VehicleTyped
    <3>3. [h EXCEPT !.tries = @ + 1] \in Locals /\ [h EXCEPT !.mark_no = @ + 1] \in Locals
      OBVIOUS
    <3>4. [h EXCEPT !.noticed = IF Mission!Informed THEN 1 ELSE 0] \in Locals
      OBVIOUS
    <3> QED
      BY <3>1, <3>2, <3>3, <3>4
  <2>5. CASE Mission!Seen \/ Mission!Fired \/ Mission!OutOfTime \/ Mission!Interrupt
             \/ Mission!Grace \/ Mission!After \/ Mission!Passed \/ Mission!Fly \/ Mission!Item
             \/ Mission!Set \/ Mission!Watch
    BY <2>5 DEF Mission!Seen, Mission!Fired, Mission!OutOfTime, Mission!Interrupt,
             Mission!Grace, Mission!After, Mission!Passed, Mission!Fly, Mission!Item,
             Mission!Set, Mission!Watch
  <2> QED
    BY <2>1, <2>2, <2>3, <2>4, <2>5
    DEF Mission!Harness, Mission!Interrupting, Mission!Judging, Mission!Flying
<1> QED
  BY <1>1, <1>2, <1>3, <1>4 DEF MissionTyped, VehicleTyped, HarnessTyped

(* What is not cancelled is an operation of the hold the node was told of. *)
OpenAsTold ==
  op # Mission!NoOp /\ ~op.cancelled =>
    /\ told.at = Mission!Hold(op.item) /\ told.mode = "mission"
    /\ op.stage # "none"

(* While a mission is started, the vehicle is on the ground and nobody     *)
(* moves it from the first item, but one that would not come down.         *)
Starting == {"rewind", "arm", "auto"}
TopInv ==
  \/ h.aloft
  \/ /\ stage \in {"rewind", "arm"} => ~flightArmed
     /\ stage \in {"arm", "auto"} => at = 0
     /\ stage \in Starting => told.mode # "mission"
     /\ ~flightArmed => flightMode = "hold" /\ told.mode # "mission"
     /\ stage = "auto" => flightArmed /\ flightMode = "hold"
     /\ stage = "down" => flightMode \in {"hold", "land"}
     /\ stage \notin Starting \cup {"load", "land", "down", "done"} =>
          flightArmed /\ flightMode # "land"
TopHolds == MissionTyped /\ OpenAsTold /\ TopInv

LEMMA OpenKept ==
  ASSUME MissionTyped, OpenAsTold, Mission!Next
  PROVE  OpenAsTold'
<1> USE DEF OpenAsTold
<1>1. CASE UNCHANGED <<told, op>>
  BY <1>1
<1>2. CASE Mission!Tell
  <2> DEFINE cut == /\ op # Mission!NoOp /\ ~op.cancelled
                    /\ (at # Mission!Hold(op.item) \/ flightMode # "mission")
  <2>1. op' = [op EXCEPT !.cancelled = @ \/ cut] /\ told' = [at |-> at, mode |-> flightMode]
    BY <1>2 DEF Mission!Tell, Mission!Now
  <2>2. /\ op'.cancelled = (op.cancelled \/ cut) /\ op'.item = op.item /\ op'.stage = op.stage
        /\ op = Mission!NoOp /\ ~op'.cancelled => op' = Mission!NoOp
    BY <2>1 DEF MissionTyped, NodeTyped, Operations, Mission!NoOp
  <2> QED
    BY <2>1, <2>2
<1>3. CASE Mission!Process
  BY <1>3 DEF Mission!Process
<1>4. CASE Mission!Working
  <2>1. PICK from \in Stages \ {"none"}, to \in Stages \ {"none"} : \E lines : Mission!Does(from, to, lines)
    BY <1>4 DEF Mission!Working, Stages
  <2> QED
    BY <2>1 DEF Mission!Does, MissionTyped, NodeTyped, Operations, Mission!NoOp
<1>5. CASE Mission!Advance \/ Mission!Stop
  BY <1>5 DEF Mission!Advance, Mission!Stop
<1>6. CASE Mission!GoOn
  BY <1>6 DEF Mission!GoOn, MissionTyped, NodeTyped, Operations
<1>7. CASE Mission!AbortReply \/ Mission!Vehicle
  BY <1>1, <1>7 DEF Mission!AbortReply, Mission!Vehicle, Mission!Reach, Mission!Carried,
     Mission!Landed, Mission!nodeVars
<1>8. CASE Mission!Harness
  <2>1. UNCHANGED <<told, op>>
    BY <1>8 DEF Mission!Harness, Mission!StartMission, Mission!Load, Mission!Land, Mission!Down,
      Mission!Rewind, Mission!Arm, Mission!Auto, Mission!Interrupting, Mission!Look, Mission!Seen,
      Mission!Fired, Mission!OutOfTime, Mission!Mark, Mission!Interrupt, Mission!Settle,
      Mission!Chain, Mission!Moved, Mission!Judging, Mission!Judge, Mission!Grace, Mission!After,
      Mission!Passed, Mission!Flying, Mission!Fly, Mission!Item, Mission!Set, Mission!Read,
      Mission!Watch, Mission!nodeVars
  <2> QED
    BY <1>1, <2>1
<1> QED
  BY <1>2, <1>3, <1>4, <1>5, <1>6, <1>7, <1>8 DEF Mission!Next, Mission!Surroundings, Mission!Node

LEMMA TopKeptAround ==
  ASSUME MissionTyped, OpenAsTold, TopInv, Mission!Surroundings
  PROVE  TopInv'
<1> USE DEF TopInv, Starting
<1>1. UNCHANGED <<stage, h>>
  BY DEF Mission!Surroundings, Mission!harnessVars
<1>2. CASE Mission!Reach \/ Mission!Carried \/ Mission!Landed
  BY <1>1, <1>2 DEF Mission!Reach, Mission!Carried, Mission!Landed, Mission!nodeVars
<1>3. CASE Mission!Tell
  <2>1. UNCHANGED <<at, flightMode, flightArmed>> /\ told'.mode = flightMode
    BY <1>3 DEF Mission!Tell, Mission!Now, Mission!fcuVars
  <2> QED
    BY <1>1, <2>1
<1>4. CASE Mission!Advance
  <2>1. told.mode = "mission"
    BY <1>4 DEF Mission!Advance, OpenAsTold, Mission!NoOp
  <2>2. UNCHANGED <<flightMode, flightArmed, told>>
    BY <1>4 DEF Mission!Advance
  <2> QED
    BY <1>1, <2>1, <2>2
<1>5. CASE Mission!Process \/ Mission!Working \/ Mission!Stop \/ Mission!AbortReply \/ Mission!GoOn
  <2>1. UNCHANGED <<told, at, flightMode, flightArmed>>
    BY <1>5 DEF Mission!Process, Mission!Working, Mission!Does, Mission!Stop, Mission!AbortReply,
       Mission!GoOn, Mission!fcuVars
  <2> QED
    BY <1>1, <2>1
<1> QED
  BY <1>2, <1>3, <1>4, <1>5 DEF Mission!Surroundings, Mission!Vehicle, Mission!Node

LEMMA OpeningIs == \A s \in {"A", "B", "C", "D", "F", "G", "H", "I", "J"} :
  Mission!Opening[s] \in {"fly", "item", "seek"}
BY DEF Mission!Opening

LEMMA TopKept ==
  ASSUME MissionTyped, TopInv, scen \in Scenarios, Mission!Harness
  PROVE  TopInv'
<1> USE DEF TopInv, Starting
<1>1. CASE Mission!Load
  BY <1>1 DEF Mission!Load, Mission!Goto, Mission!Report, Mission!fcuVars
<1>2. CASE Mission!Land
  BY <1>2 DEF Mission!Land, Mission!Goto, Mission!nodeVars
<1>3. CASE Mission!Down
  <2>1. CASE h' = [h EXCEPT !.aloft = TRUE]
    BY <2>1 DEF MissionTyped, HarnessTyped, Locals
  <2>2. CASE UNCHANGED h
    BY <1>3, <2>2 DEF Mission!Down, Mission!Goto, Mission!nodeVars, MissionTyped, HarnessTyped, Locals,
      Mission!Informed, Mission!Now
  <2> QED
    BY <1>3, <2>1, <2>2 DEF Mission!Down
<1>4. CASE Mission!Rewind
  BY <1>4 DEF Mission!Rewind, Mission!Goto, Mission!nodeVars
<1>5. Mission!NextTry => h'.aloft = h.aloft /\ stage' \in {"land", "done"}
  BY DEF Mission!NextTry, Mission!Goto, Mission!Report, MissionTyped, HarnessTyped, Locals
<1>6. CASE Mission!Arm
  BY <1>5, <1>6 DEF Mission!Arm, Mission!Goto, Mission!nodeVars
<1>7. CASE Mission!Auto
  <2>1. CASE flightMode' = "mission" /\ Mission!Goto(Mission!Opening[scen]) /\ h' = [h EXCEPT !.tries = 1]
    <3>1. h'.aloft = h.aloft
      BY <2>1 DEF MissionTyped, HarnessTyped, Locals
    <3>2. stage' \in {"fly", "item", "seek"}
      BY <2>1, OpeningIs, MissionAssumption DEF Mission!Goto
    <3>3. UNCHANGED <<at, flightArmed, told>> /\ flightMode' = "mission" /\ stage = "auto"
      BY <1>7, <2>1 DEF Mission!Auto, Mission!nodeVars
    <3> QED
      BY <3>1, <3>2, <3>3
  <2> QED
    BY <1>5, <1>7, <2>1 DEF Mission!Auto, Mission!nodeVars
<1>8. CASE Mission!Interrupting \/ Mission!Judging \/ Mission!Flying
  <2> DEFINE Before == Starting \cup {"load", "land", "down", "done"}
  <2>1. stage \notin Before
    BY <1>8 DEF Mission!Interrupting, Mission!Look, Mission!Seen,
      Mission!Fired, Mission!OutOfTime, Mission!Mark, Mission!Interrupt, Mission!Settle,
      Mission!Chain, Mission!Moved, Mission!Judging, Mission!Judge, Mission!Grace, Mission!After,
      Mission!Passed, Mission!Flying, Mission!Fly, Mission!Item, Mission!Set, Mission!Read,
      Mission!Watch
  <2>2. stage' \notin Before \ {"done"}
    BY <1>8 DEF Mission!Interrupting, Mission!Look, Mission!Seen,
      Mission!Fired, Mission!OutOfTime, Mission!Mark, Mission!Interrupt, Mission!Settle,
      Mission!Chain, Mission!Moved, Mission!Judging, Mission!Judge, Mission!Grace, Mission!After,
      Mission!Passed, Mission!Flying, Mission!Fly, Mission!Item, Mission!Set, Mission!Read,
      Mission!Watch, Mission!Goto, Mission!Note, Mission!Report
  <2>3. UNCHANGED <<told, flightArmed>> /\ flightMode' \in {flightMode, "hold", "mission"}
    BY <1>8 DEF Mission!Interrupting, Mission!Look, Mission!Seen,
      Mission!Fired, Mission!OutOfTime, Mission!Mark, Mission!Interrupt, Mission!Settle,
      Mission!Chain, Mission!Moved, Mission!Judging, Mission!Judge, Mission!Grace, Mission!After,
      Mission!Passed, Mission!Flying, Mission!Fly, Mission!Item, Mission!Set, Mission!Read,
      Mission!Watch, Mission!fcuVars, Mission!nodeVars
  <2>4. h'.aloft = h.aloft
    BY <1>8 DEF MissionTyped, HarnessTyped, Locals, Mission!Interrupting, Mission!Look, Mission!Seen,
      Mission!Fired, Mission!OutOfTime, Mission!Mark, Mission!Interrupt, Mission!Settle,
      Mission!Chain, Mission!Moved, Mission!Judging, Mission!Judge, Mission!Grace, Mission!After,
      Mission!Passed, Mission!Flying, Mission!Fly, Mission!Item, Mission!Set, Mission!Read,
      Mission!Watch
  <2> QED
    BY <2>1, <2>2, <2>3, <2>4
<1> QED
  BY <1>1, <1>2, <1>3, <1>4, <1>6, <1>7, <1>8 DEF Mission!Harness, Mission!StartMission

LEMMA MissionTypedKept ==
  ASSUME MissionTyped, Mission!Next
  PROVE  MissionTyped'
<1>1. CASE Mission!Surroundings
  <2>1. HarnessTyped'
    BY <1>1 DEF Mission!Surroundings, Mission!harnessVars, MissionTyped, HarnessTyped
  <2> QED
    BY <1>1, <2>1, VehicleStepTyped, TellTyped, ProcessTyped, WorkingTyped, RestTyped
    DEF Mission!Surroundings, Mission!Node, MissionTyped
<1> QED
  BY <1>1, HarnessStepTyped DEF Mission!Next

LEMMA Bits == TRUE \in BOOLEAN /\ FALSE \in BOOLEAN /\ 0 \in Int /\ 1 \in Int
OBVIOUS

LEMMA MissionStarts ==
  ASSUME Mission!Init
  PROVE  scen \in Scenarios /\ stage = "load" /\ TopHolds
<1>1. HarnessTyped /\ ~h.aloft
  BY DEF Mission!Init, HarnessTyped, Locals
<1>2. CASE Mission!Grounded
  <2>1. VehicleTyped /\ told \in Heres /\ told.mode = "hold"
    <3>1. told = [at |-> 0, mode |-> "hold"] /\ at = 0 /\ flightMode = "hold" /\ flightArmed = FALSE
      BY <1>2 DEF Mission!Grounded
    <3>2. told \in Heres /\ told.mode = "hold"
      BY <3>1 DEF Heres, FlightModes
    <3>3. flightArmed \in BOOLEAN /\ flightMode \in FlightModes
      BY <3>1, Zenon DEF FlightModes
    <3>4. at \in Int
      BY <3>1
    <3> QED
      BY <3>2, <3>3, <3>4, Zenon DEF VehicleTyped
  <2>2. NodeTyped
    <3>1. op \in Operations /\ cursor = 0 /\ opened = 0 /\ abort = FALSE
      BY <1>2, NoOpTyped, Zenon DEF Mission!Grounded
    <3>2. said \in Seq(LogLines)
      BY <1>2 DEF Mission!Grounded
    <3> QED
      BY <2>1, <3>1, <3>2, Bits, Zenon DEF NodeTyped
  <2>3. OpenAsTold
    BY <1>2 DEF Mission!Grounded, OpenAsTold
  <2> QED
    BY <1>1, <1>2, <2>1, <2>2, <2>3 DEF Mission!Init, Mission!Grounded, TopInv, Starting, TopHolds, MissionTyped
<1>3. CASE Mission!LeftFlying
  <2>1. VehicleTyped /\ told \in Heres
    BY <1>3, PlaceTyped DEF Mission!LeftFlying, VehicleTyped, Heres, FlightModes, Mission!Now
  <2>2. op \in Operations /\ op.item = 1 /\ op.stage = "asked"
    BY <1>3 DEF Mission!LeftFlying, Operations, Stages
  <2>3. said \in Seq(LogLines)
    <3>1. Mission!Line("item") \in LogLines /\ Mission!Line("started") \in LogLines
      BY <2>2, LineTyped DEF Kinds
    <3> QED
      BY <1>3, <3>1 DEF Mission!LeftFlying
  <2>4. NodeTyped
    <3>1. cursor = 1 /\ opened = 1 /\ abort = FALSE
      BY <1>3, Zenon DEF Mission!LeftFlying
    <3> QED
      BY <2>1, <2>2, <2>3, <3>1, Bits, Zenon DEF NodeTyped
  <2>5. OpenAsTold
    BY <1>3, <2>2 DEF Mission!LeftFlying, OpenAsTold, Mission!Now
  <2> QED
    BY <1>1, <1>3, <2>1, <2>4, <2>5 DEF Mission!Init, Mission!LeftFlying, TopInv, Starting, TopHolds, MissionTyped
<1> QED
  BY <1>2, <1>3 DEF Mission!Init

LEMMA TopHoldsKept ==
  ASSUME TopHolds, scen \in Scenarios, [Mission!Next]_checking
  PROVE  TopHolds'
<1>1. CASE UNCHANGED checking
  BY <1>1 DEF checking, TopHolds, MissionTyped, VehicleTyped, NodeTyped, HarnessTyped, OpenAsTold, TopInv
<1>2. CASE Mission!Next
  BY <1>2, MissionTypedKept, OpenKept, TopKept, TopKeptAround DEF TopHolds, Mission!Next
<1> QED
  BY <1>1, <1>2

LEMMA ScenarioStays == [Mission!Next]_checking => scen' = scen
BY DEF Mission!Next, Mission!Surroundings, Mission!harnessVars, checking,
      Mission!Harness, Mission!StartMission, Mission!Load, Mission!Land, Mission!Down,
      Mission!Rewind, Mission!Arm, Mission!Auto, Mission!Interrupting, Mission!Look, Mission!Seen,
      Mission!Fired, Mission!OutOfTime, Mission!Mark, Mission!Interrupt, Mission!Settle,
      Mission!Chain, Mission!Moved, Mission!Judging, Mission!Judge, Mission!Grace, Mission!After,
      Mission!Passed, Mission!Flying, Mission!Fly, Mission!Item, Mission!Set, Mission!Read,
      Mission!Watch, Mission!Goto, Mission!Note, Mission!Report, Mission!NextTry

MissionInv == scen # "none" => scen \in Scenarios /\ TopHolds

LEMMA MissionHeld == Bench => []MissionInv
<1>1. BenchInit => MissionInv
  BY MissionStarts DEF BenchInit, NoMission, MissionInv
<1>2. MissionInv /\ [BenchNext]_benchVars => MissionInv'
  <2> SUFFICES ASSUME MissionInv, [BenchNext]_benchVars PROVE MissionInv'
    OBVIOUS
  <2>1. CASE UNCHANGED checking \/ (scen # "none" /\ Mission!Next)
    BY <2>1, ScenarioStays, TopHoldsKept DEF MissionInv
  <2> QED
    BY <2>1 DEF BenchNext, benchVars
<1> QED
  BY <1>1, <1>2, PTL DEF Bench

(* verify/component/mission.py, start_mission: what is reported as flying  *)
(* flies from its first item, whatever was left flying or armed before and *)
(* however often it is tried, unless the vehicle would not come down.      *)
THEOREM StartsFromTheTop == Bench => FromTheTop
<1>1. MissionInv /\ [BenchNext]_benchVars
        => [stage = "auto" /\ stage' = Mission!Opening[scen] => at = 0 \/ h.aloft]_(Mission!vars)
  <2> SUFFICES ASSUME MissionInv, [BenchNext]_benchVars, ~UNCHANGED Mission!vars, stage = "auto"
               PROVE  at = 0 \/ h.aloft
    OBVIOUS
  <2>1. scen # "none"
    BY DEF BenchNext, benchVars, checking, Mission!vars, Mission!fcuVars, Mission!nodeVars, Mission!harnessVars
  <2> QED
    BY <2>1 DEF MissionInv, TopHolds, TopInv
<1> QED
  BY <1>1, MissionHeld, PTL DEF Bench, FromTheTop, Mission!FromTheTop

-----------------------------------------------------------------------------
(***************************************************************************)
(* A verdict.  Until it is interrupted, what is under way is of the hold   *)
(* that the vehicle is at (Steady); then the node goes on with it, until   *)
(* it is told (Pending); and from then on nothing is cut that the harness  *)
(* did not ask for (Calm).                                                 *)
(***************************************************************************)
Going == op # Mission!NoOp /\ ~op.cancelled
AtHold == at = Mission!Hold(op.item) /\ flightMode = "mission"
Steady ==
  /\ flightMode # "land"
  /\ Going => AtHold /\ op.item <= cursor
  /\ ~Going /\ told.mode = "mission" =>
       \A c \in Mission!Points :
         c > cursor /\ told.at = Mission!Hold(c) => at = told.at /\ flightMode = "mission"
Pending ==
  flightMode # "land" /\ Going /\ op.id = h.op /\ op.item = h.item /\ op.item <= cursor /\ ~AtHold
Calm == Steady /\ (scen = "H" => told.at <= at)
Turned == scen = "H" /\ op = Mission!NoOp /\ cursor >= Captures /\ Steady

(* How many steps the operation that is followed has made since it was     *)
(* opened: what is done with it before the interruption is bounded by Lag. *)
RankOf(s) ==
  IF s = "asked" THEN 0 ELSE IF s = "capture" THEN 1 ELSE IF s \in {"gate", "advance"} THEN 2
  ELSE IF s = "survey" THEN 3 ELSE 4
OpenWithin(n) == Going /\ op.id = h.op /\ op.item = h.item /\ RankOf(op.stage) <= n
ClosedWithin(n) ==
  /\ op = Mission!NoOp /\ cursor >= h.item /\ told.mode = "mission"
  /\ \/ n >= 3 /\ told.at = Mission!Hold(h.item) /\ at = Mission!Way(h.item + 1)
     \/ /\ n >= 4 /\ told.at < Mission!Hold(h.item + 1)
        /\ at \in {Mission!Way(h.item + 1), Mission!Hold(h.item + 1)}
Within(n) == OpenWithin(n) \/ ClosedWithin(n)

(* The log: what is not wanted after a line that cuts is an offence.       *)
Says(kinds) == Mission!Lines(0, kinds)
Cuts == {"expired", "back"}
Stops == {"discarded", "putdown"}
Forbidden == {"localized", "succeeded", "advanced"}
Charges == {"forbidden", "still running"}
CutStays == \A j \in Says(Cuts) : (\A s \in Says({"started"}) : s < j) => ~Going
OffenceNoted ==
  \A j \in Says(Cuts), i \in Says(Forbidden) :
    j < i /\ (\A s \in Says({"started"}) : s < j \/ i < s) => i \in offended
NodeInv ==
  /\ op.id <= opened /\ opened >= 0
  /\ op # Mission!NoOp => op.item \in Mission!Points
LogInv == CutStays /\ OffenceNoted /\ NodeInv

EarlyInv ==
  /\ op = Mission!NoOp /\ told.mode # "mission" /\ flightMode # "mission"
  /\ Says({"started"}) = {}

SeekInv ==
  stage = "seek" =>
    \A i \in Mission!Awaited :
      /\ Going /\ said[i].op = op.id /\ said[i].item = op.item /\ RankOf(op.stage) <= late
      /\ op.stage # "asked" => \E k \in Says({"capture"}) : said[k].op = op.id
FiredInv ==
  stage = "fired" =>
    /\ \A n \in 0 .. 1 : late = n => Within(n + 1)
    /\ Going /\ op.stage # "asked" => \E k \in Says({"capture"}) : said[k].op = h.op
NothingYet ==
  /\ Says(Cuts \cup Stops) = {} /\ offended = {}
  /\ late = 0 => Says({"localized"}) = {}
  /\ Says({"localized"}) # {} => Going /\ op.stage = "survey"
FollowInv ==
  /\ Steady /\ ~op.cancelled /\ flightMode = "mission"
  /\ SeekInv /\ FiredInv
  /\ stage \in {"fired", "mark", "interrupt"} =>
       h.op <= opened /\ h.item \in Mission!Points /\ (scen = "H" => h.item >= Captures)
  /\ stage = "mark" => \A n \in 0 .. 1 : late = n => Within(n + 2)
  /\ stage = "interrupt" => (\A n \in 0 .. 1 : late = n => Within(n + 3)) /\ NothingYet

Notified == Says(Mission!Notice) # {}
Blind == \E i \in Says({"localized"}) : \A n \in Says(Mission!Notice) : i < n
PutDown == \E i \in Says({"putdown"}) : \E n \in Says(Mission!Notice) : n < i
Stopped == \E i \in Says(Stops) : said[i].op = h.op

OwnLines == \A i \in Says({"expired"} \cup Stops) : said[i].op = h.op
OwnCut ==
  op.cancelled =>
    /\ op.id = h.op /\ Says({"expired"}) # {}
    /\ \A k \in Says({"expired"}), s \in Says({"started"}) : s < k
OwnOffences ==
  \A i \in offended :
    /\ i \in Says(Forbidden) /\ \E j \in Says({"expired"}) : j < i
    /\ \A k \in Says({"expired"}), s \in Says({"started"}) : ~ (k < s /\ s < i)
OwnClosed == h.op <= opened /\ (Stopped => ~ (op # Mission!NoOp /\ op.id = h.op))
OwnInv == OwnLines /\ OwnCut /\ OwnOffences /\ OwnClosed

Unnotified ==
  ~Notified =>
    \/ Pending /\ (Says({"localized"}) # {} => op.stage = "survey")
    \/ Calm
    \/ Turned /\ Says({"localized"}) = {}
CutShort ==
  Notified /\ Blind => offended # {} \/ (op.cancelled /\ op.stage = "survey") \/ PutDown
CutInv ==
  /\ Pending \/ Steady
  /\ Pending => Says(Cuts) = {}
  /\ Unnotified /\ CutShort

Decided ==
  stage \in {"judge", "grace", "after"} \/ (stage \in {"chain", "moved"} /\ h.mark_no >= 2)
MarksInv ==
  /\ scen = "B" => flightMode = "mission"
  /\ stage = "settle" => scen \in {"B", "C"} /\ h.mark_no = 1 /\ notes = {}
  /\ stage = "chain" => scen \in {"B", "C"} /\ h.mark_no \in 1 .. 3
  /\ stage = "moved" => scen = "H" /\ h.mark_no \in 1 .. 2
JudgeInv ==
  /\ Decided /\ ~Notified => Calm
  /\ notes \cap Charges # {} => stage \in {"grace", "after"} /\ (offended # {} \/ ~Notified)
  /\ stage = "grace" => Notified /\ Blind /\ \A n \in Says(Mission!Notice) : h.noticed < n
PassInv ==
  scen \in {"B", "C"} /\ notes = {} =>
    /\ stage \in {"judge", "grace", "after"} \/ (stage = "chain" /\ h.mark_no = 3) => Stopped
    /\ stage \in {"grace", "after"} => offended = {}

Early == {"load", "land", "down", "rewind", "arm", "auto"}
Follow == {"seek", "seen", "fired", "mark", "interrupt"}
Behind == {"settle", "chain", "moved", "judge", "grace", "after"}
Fresh == notes = {} /\ h.mark_no = 1
CheckInv ==
  /\ stage \in Early \cup Follow \cup Behind \cup {"done"}
  /\ late \in 0 .. 1
  /\ stage # "done" => LogInv /\ verdict = "none"
  /\ stage \in Early => EarlyInv /\ Fresh
  /\ stage \in Follow => FollowInv /\ Fresh
  /\ stage \in Behind => OwnInv /\ CutInv /\ MarksInv /\ JudgeInv /\ PassInv
  /\ stage = "done" => Mission!FairlyJudged /\ Mission!PassMeans
Judged == {"B", "C", "H"}

LEMMA SaysAre ==
  ASSUME NodeTyped
  PROVE  /\ Len(said) \in Nat
         /\ \A K, i : i \in Says(K) <=> i \in 1 .. Len(said) /\ said[i].kind \in K
         /\ \A K : Says(K) \in SUBSET Nat
         /\ \A i \in 1 .. Len(said) : said[i] \in LogLines
BY DEF Says, Mission!Lines, NodeTyped

Places(lines, K) == {Len(said) + m : m \in {x \in 1 .. Len(lines) : lines[x].kind \in K}}
GrownBy(lines) ==
  /\ Len(said') = Len(said) + Len(lines)
  /\ \A i \in 1 .. Len(said) : said'[i] = said[i]
  /\ \A i \in 1 .. Len(lines) : said'[Len(said) + i] = lines[i]
  /\ \A K : Says(K)' = Says(K) \cup Places(lines, K)
LEMMA Appended ==
  ASSUME NodeTyped, NEW lines \in Seq(LogLines), Mission!Say(lines)
  PROVE  GrownBy(lines)
<1>1. said' = said \o lines /\ said \in Seq(LogLines)
  BY DEF Mission!Say, NodeTyped
<1>2. /\ Len(said') = Len(said) + Len(lines) /\ Len(said) \in Nat /\ Len(lines) \in Nat
      /\ \A i \in 1 .. Len(said) : said'[i] = said[i]
      /\ \A i \in 1 .. Len(lines) : said'[Len(said) + i] = lines[i]
  BY <1>1
<1>3. ASSUME NEW K PROVE Says(K)' = Says(K) \cup Places(lines, K)
  <2>1. Says(K) = {i \in 1 .. Len(said) : said[i].kind \in K} /\ Says(K)' = {i \in 1 .. Len(said') : said'[i].kind \in K}
    BY DEF Says, Mission!Lines
  <2> DEFINE new == {Len(said) + m : m \in {x \in 1 .. Len(lines) : lines[x].kind \in K}}
  <2>2. ASSUME NEW i \in Says(K)' PROVE i \in Says(K) \cup new
    <3>1. CASE i <= Len(said)
      BY <1>2, <2>1, <3>1
    <3>2. CASE i > Len(said)
      <4>1. i - Len(said) \in 1 .. Len(lines) /\ i = Len(said) + (i - Len(said))
        BY <1>2, <2>1, <3>2
      <4>2. said'[i] = lines[i - Len(said)]
        BY <1>2, <4>1
      <4>3. i - Len(said) \in {x \in 1 .. Len(lines) : lines[x].kind \in K}
        BY <2>1, <4>1, <4>2
      <4> QED
        BY <4>1, <4>3
    <3> QED
      BY <1>2, <2>1, <3>1, <3>2
  <2>3. ASSUME NEW i \in Says(K) PROVE i \in Says(K)'
    BY <1>2, <2>1
  <2>4. ASSUME NEW i \in new PROVE i \in Says(K)'
    <3>1. PICK m \in 1 .. Len(lines) : lines[m].kind \in K /\ i = Len(said) + m
      OBVIOUS
    <3>2. said'[i] = lines[m] /\ i \in 1 .. Len(said')
      BY <1>2, <3>1
    <3> QED
      BY <2>1, <3>1, <3>2
  <2> HIDE DEF new
  <2>5. Says(K)' = Says(K) \cup new
    BY <2>2, <2>3, <2>4
  <2> QED
    BY <2>5 DEF new, Places
<1> QED
  BY <1>2, <1>3 DEF GrownBy

(* The lines that a verdict is made of.                                    *)
Telling == Cuts \cup Stops \cup Forbidden \cup {"started", "capture"}
Unsaid(kinds) == Says(kinds)' = Says(kinds)
Old == \A i \in 1 .. Len(said) : said'[i] = said[i]
Silent == Old /\ \A K \in SUBSET Telling : Unsaid(K)
Adds(kind, n, line) ==
  /\ Old /\ n \in Nat /\ n > Len(said) /\ said'[n] = line
  /\ \A K \in SUBSET Telling :
       /\ kind \in K => Says(K)' = Says(K) \cup {n}
       /\ kind \notin K => Unsaid(K)

LEMMA OneLine ==
  ASSUME NodeTyped, NEW line \in LogLines, Mission!Say(<<line>>)
  PROVE  /\ line.kind \notin Telling => Silent
         /\ Adds(line.kind, Len(said) + 1, line)
<1> DEFINE lines == <<line>>
<1>1. lines \in Seq(LogLines) /\ Len(lines) = 1 /\ lines[1] = line /\ Len(said) \in Nat /\ Mission!Say(lines)
  BY DEF NodeTyped
<1> HIDE DEF lines
<1>0. GrownBy(lines)
  BY <1>1, Appended, Zenon
<1>2. /\ Old /\ said'[Len(said) + 1] = line
      /\ \A K : Says(K)' = Says(K) \cup Places(lines, K)
  BY <1>0, <1>1 DEF Old, GrownBy
<1>3. ASSUME NEW K
      PROVE  /\ line.kind \in K => Places(lines, K) = {Len(said) + 1}
             /\ line.kind \notin K => Places(lines, K) = {}
  <2>1. \A x \in 1 .. Len(lines) : x = 1 /\ lines[x] = line
    BY <1>1
  <2>2. 1 \in 1 .. Len(lines)
    BY <1>1
  <2>3. /\ line.kind \in K => {x \in 1 .. Len(lines) : lines[x].kind \in K} = {1}
        /\ line.kind \notin K => {x \in 1 .. Len(lines) : lines[x].kind \in K} = {}
    BY <2>1, <2>2
  <2> QED
    BY <2>3 DEF Places
<1>4. \A K : /\ line.kind \in K => Says(K)' = Says(K) \cup {Len(said) + 1}
             /\ line.kind \notin K => Unsaid(K)
  BY <1>2, <1>3 DEF Unsaid
<1> QED
  BY <1>1, <1>2, <1>4 DEF Silent, Adds

LEMMA TwoLines ==
  ASSUME NodeTyped, NEW one \in LogLines, NEW two \in LogLines, Mission!Say(<<one, two>>),
         one.kind \notin Telling
  PROVE  /\ two.kind \notin Telling => Silent
         /\ Adds(two.kind, Len(said) + 2, two)
<1> DEFINE lines == <<one, two>>
<1>1. /\ lines \in Seq(LogLines) /\ Len(lines) = 2 /\ lines[1] = one /\ lines[2] = two
      /\ Len(said) \in Nat /\ Mission!Say(lines)
  BY DEF NodeTyped
<1> HIDE DEF lines
<1>0. GrownBy(lines)
  BY <1>1, Appended, Zenon
<1>2. /\ Old /\ said'[Len(said) + 2] = two
      /\ \A K : Says(K)' = Says(K) \cup Places(lines, K)
  BY <1>0, <1>1 DEF Old, GrownBy
<1>3. ASSUME NEW K \in SUBSET Telling
      PROVE  /\ two.kind \in K => Places(lines, K) = {Len(said) + 2}
             /\ two.kind \notin K => Places(lines, K) = {}
  <2>1. \A x \in 1 .. Len(lines) : lines[x].kind \in K <=> x = 2 /\ two.kind \in K
    <3> TAKE x \in 1 .. Len(lines)
    <3>1. x = 1 \/ x = 2
      BY <1>1
    <3>2. one.kind \notin K
      OBVIOUS
    <3> QED
      BY <1>1, <3>1, <3>2
  <2>2. 2 \in 1 .. Len(lines)
    BY <1>1
  <2>3. /\ two.kind \in K => {x \in 1 .. Len(lines) : lines[x].kind \in K} = {2}
        /\ two.kind \notin K => {x \in 1 .. Len(lines) : lines[x].kind \in K} = {}
    BY <2>1, <2>2
  <2> QED
    BY <2>3 DEF Places
<1>4. \A K \in SUBSET Telling :
        /\ two.kind \in K => Says(K)' = Says(K) \cup {Len(said) + 2}
        /\ two.kind \notin K => Unsaid(K)
  BY <1>2, <1>3 DEF Unsaid
<1> QED
  BY <1>1, <1>2, <1>4 DEF Silent, Adds

LEMMA NoLine ==
  ASSUME NodeTyped, said' = said
  PROVE  Silent
BY DEF Silent, Old, Unsaid, Says, Mission!Lines

(* The sets of lines that the invariants speak of.                         *)
LEMMA Sets ==
  /\ {"started"} \in SUBSET Telling /\ Cuts \in SUBSET Telling /\ Forbidden \in SUBSET Telling
  /\ Stops \in SUBSET Telling /\ {"localized"} \in SUBSET Telling /\ {"expired"} \in SUBSET Telling
  /\ {"putdown"} \in SUBSET Telling /\ {"capture"} \in SUBSET Telling
  /\ ({"expired"} \cup Stops) \in SUBSET Telling /\ (Cuts \cup Stops) \in SUBSET Telling
  /\ {"back"} \in SUBSET Telling
BY DEF Telling, Cuts, Forbidden, Stops

AllUnsaid ==
  /\ Unsaid({"started"}) /\ Unsaid(Cuts) /\ Unsaid(Forbidden) /\ Unsaid(Stops) /\ Unsaid({"localized"})
  /\ Unsaid({"expired"}) /\ Unsaid({"putdown"}) /\ Unsaid({"capture"}) /\ Unsaid({"expired"} \cup Stops)
  /\ Unsaid(Cuts \cup Stops) /\ Unsaid({"back"})
LEMMA SilentTable ==
  ASSUME Silent PROVE Old /\ AllUnsaid
BY Sets, Zenon DEF Silent, AllUnsaid

StartedAt(n) ==
  /\ Says({"started"})' = Says({"started"}) \cup {n}
  /\ Unsaid(Cuts) /\ Unsaid(Forbidden) /\ Unsaid(Stops) /\ Unsaid({"localized"})
  /\ Unsaid({"expired"}) /\ Unsaid({"putdown"}) /\ Unsaid({"capture"}) /\ Unsaid({"expired"} \cup Stops)
  /\ Unsaid(Cuts \cup Stops) /\ Unsaid({"back"})
LEMMA StartedTable ==
  ASSUME NEW n, NEW line, Adds("started", n, line) PROVE StartedAt(n)
<1>1. /\ "started" \notin Cuts /\ "started" \notin Forbidden /\ "started" \notin Stops
      /\ "started" \notin {"localized"} /\ "started" \notin {"expired"} /\ "started" \notin {"putdown"}
      /\ "started" \notin {"capture"} /\ "started" \notin ({"expired"} \cup Stops)
      /\ "started" \notin (Cuts \cup Stops) /\ "started" \notin {"back"} /\ "started" \in {"started"}
  BY Sets DEF Cuts, Forbidden, Stops
<1> QED
  BY <1>1, Sets, Zenon DEF StartedAt, Adds

CaptureAt(n) ==
  /\ Says({"capture"})' = Says({"capture"}) \cup {n}
  /\ Unsaid({"started"}) /\ Unsaid(Cuts) /\ Unsaid(Forbidden) /\ Unsaid(Stops) /\ Unsaid({"localized"})
  /\ Unsaid({"expired"}) /\ Unsaid({"putdown"}) /\ Unsaid({"expired"} \cup Stops)
  /\ Unsaid(Cuts \cup Stops) /\ Unsaid({"back"})
LEMMA CaptureTable ==
  ASSUME NEW n, NEW line, Adds("capture", n, line) PROVE CaptureAt(n)
<1>1. /\ "capture" \notin Cuts /\ "capture" \notin Forbidden /\ "capture" \notin Stops
      /\ "capture" \notin {"localized"} /\ "capture" \notin {"expired"} /\ "capture" \notin {"putdown"}
      /\ "capture" \notin {"started"} /\ "capture" \notin ({"expired"} \cup Stops)
      /\ "capture" \notin (Cuts \cup Stops) /\ "capture" \notin {"back"} /\ "capture" \in {"capture"}
  BY Sets DEF Cuts, Forbidden, Stops
<1> QED
  BY <1>1, Sets, Zenon DEF CaptureAt, Adds

(* A line of what is not wanted; only a box that is localized is looked    *)
(* for by itself.                                                          *)
ForbiddenAt(kind, n) ==
  /\ Says(Forbidden)' = Says(Forbidden) \cup {n}
  /\ kind = "localized" => Says({"localized"})' = Says({"localized"}) \cup {n}
  /\ kind # "localized" => Unsaid({"localized"})
  /\ Unsaid({"started"}) /\ Unsaid(Cuts) /\ Unsaid({"capture"}) /\ Unsaid(Stops)
  /\ Unsaid({"expired"}) /\ Unsaid({"putdown"}) /\ Unsaid({"expired"} \cup Stops)
  /\ Unsaid(Cuts \cup Stops) /\ Unsaid({"back"})
LEMMA ForbiddenTable ==
  ASSUME NEW kind \in Forbidden, NEW n, NEW line, Adds(kind, n, line) PROVE ForbiddenAt(kind, n)
<1>1. /\ kind \notin Cuts /\ kind \notin Stops
      /\ kind \notin {"expired"} /\ kind \notin {"putdown"}
      /\ kind \notin {"started"} /\ kind \notin {"capture"} /\ kind \notin ({"expired"} \cup Stops)
      /\ kind \notin (Cuts \cup Stops) /\ kind \notin {"back"}
  BY Sets DEF Cuts, Forbidden, Stops
<1>2. kind \in {"localized"} <=> kind = "localized"
  OBVIOUS
<1> QED
  BY <1>1, <1>2, Sets, Zenon DEF ForbiddenAt, Adds

StopAt(kind, n) ==
  /\ Says(Stops)' = Says(Stops) \cup {n}
  /\ Says({"expired"} \cup Stops)' = Says({"expired"} \cup Stops) \cup {n}
  /\ Says(Cuts \cup Stops)' = Says(Cuts \cup Stops) \cup {n}
  /\ kind = "putdown" => Says({"putdown"})' = Says({"putdown"}) \cup {n}
  /\ kind # "putdown" => Unsaid({"putdown"})
  /\ Unsaid({"started"}) /\ Unsaid(Cuts) /\ Unsaid({"capture"}) /\ Unsaid(Forbidden)
  /\ Unsaid({"expired"}) /\ Unsaid({"localized"}) /\ Unsaid({"back"})
LEMMA StopTable ==
  ASSUME NEW kind \in Stops, NEW n, NEW line, Adds(kind, n, line) PROVE StopAt(kind, n)
<1>1. /\ kind \notin Cuts /\ kind \notin Forbidden
      /\ kind \notin {"expired"} /\ kind \notin {"localized"}
      /\ kind \notin {"started"} /\ kind \notin {"capture"} /\ kind \in ({"expired"} \cup Stops)
      /\ kind \in (Cuts \cup Stops) /\ kind \notin {"back"}
  BY Sets DEF Cuts, Forbidden, Stops
<1>2. kind \in {"putdown"} <=> kind = "putdown"
  OBVIOUS
<1> QED
  BY <1>1, <1>2, Sets, Zenon DEF StopAt, Adds

(* What each of the node's steps does, and what it says of it.             *)
Same == UNCHANGED <<told, cursor, opened, at, flightMode, flightArmed>>
NextLine == Len(said) + 1
LineOf(kind) == [kind |-> kind, item |-> op.item, op |-> op.id]

LEMMA OneSaid ==
  ASSUME NodeTyped, NEW kind \in Kinds, Mission!Say(<<Mission!Line(kind)>>)
  PROVE  /\ kind \notin Telling => Silent
         /\ Adds(kind, NextLine, LineOf(kind))
<1>1. Mission!Line(kind) \in LogLines /\ Mission!Line(kind) = LineOf(kind) /\ LineOf(kind).kind = kind
  BY LineTyped DEF NodeTyped, Mission!Line, LineOf
<1>2. /\ LineOf(kind).kind \notin Telling => Silent
      /\ Adds(LineOf(kind).kind, NextLine, LineOf(kind))
  BY <1>1, OneLine DEF NextLine
<1> QED
  BY <1>1, <1>2

Works(from, to) ==
  /\ Going /\ Going' /\ op.stage = from /\ op'.stage = to /\ op'.cancelled = FALSE
  /\ op'.id = op.id /\ op'.item = op.item /\ op' # Mission!NoOp
  /\ UNCHANGED offended /\ Same

LEMMA DoesIs ==
  ASSUME NodeTyped, NEW from \in Stages, NEW to \in Stages, NEW lines, Mission!Does(from, to, lines),
         from # "none", to # "none"
  PROVE  Works(from, to) /\ Mission!Say(lines)
BY DEF Works, Going, Same, Mission!Does, Mission!NoOp, NodeTyped, Operations, Mission!fcuVars

LEMMA WorkingIs ==
  ASSUME NodeTyped, Mission!Working
  PROVE  \/ Works("asked", "capture") /\ Adds("capture", NextLine, LineOf("capture"))
         \/ Works("capture", "gate") /\ Silent
         \/ Works("capture", "advance") /\ Silent
         \/ Works("gate", "survey") /\ Adds("localized", NextLine, LineOf("localized"))
         \/ told = Mission!Now /\ Works("survey", "settled") /\ Silent
         \/ Works("settled", "advance") /\ Adds("succeeded", NextLine, LineOf("succeeded"))
<1>1. /\ "capture" \in Kinds /\ "survey" \in Kinds /\ "nothing" \in Kinds /\ "ignored" \in Kinds
      /\ "localized" \in Kinds /\ "succeeded" \in Kinds
      /\ "survey" \notin Telling /\ "nothing" \notin Telling /\ "ignored" \notin Telling
  BY DEF Kinds, Telling, Cuts, Stops, Forbidden
<1>2. /\ "asked" \in Stages /\ "capture" \in Stages /\ "gate" \in Stages /\ "advance" \in Stages
      /\ "survey" \in Stages /\ "settled" \in Stages
  BY DEF Stages
<1>3. CASE Mission!Does("asked", "capture", <<Mission!Line("capture")>>)
  BY <1>1, <1>2, <1>3, DoesIs, OneSaid
<1>4. CASE Mission!Does("capture", "gate", <<Mission!Line("survey")>>)
  BY <1>1, <1>2, <1>4, DoesIs, OneSaid
<1>5. CASE Mission!Does("capture", "advance", <<Mission!Line("nothing")>>)
  BY <1>1, <1>2, <1>5, DoesIs, OneSaid
<1>6. CASE Mission!Does("capture", "advance", <<Mission!Line("ignored")>>)
  BY <1>1, <1>2, <1>6, DoesIs, OneSaid
<1>7. CASE Mission!Does("gate", "survey", <<Mission!Line("localized")>>)
  BY <1>1, <1>2, <1>7, DoesIs, OneSaid
<1>8. CASE told = Mission!Now /\ Mission!Does("survey", "settled", <<>>)
  <2>1. Works("survey", "settled") /\ Mission!Say(<<>>)
    BY <1>2, <1>8, DoesIs
  <2>2. said' = said
    BY <2>1 DEF Mission!Say, NodeTyped
  <2> QED
    BY <1>8, <2>1, <2>2, NoLine
<1>9. CASE Mission!Does("settled", "advance", <<Mission!Line("succeeded")>>)
  BY <1>1, <1>2, <1>9, DoesIs, OneSaid
<1> QED
  BY <1>3, <1>4, <1>5, <1>6, <1>7, <1>8, <1>9, Zenon DEF Mission!Working

LEMMA AdvanceIs ==
  ASSUME NodeTyped, Mission!Advance
  PROVE  /\ Going /\ op.stage = "advance" /\ op' = Mission!NoOp /\ at' = Mission!Way(op.item + 1)
         /\ UNCHANGED <<told, cursor, opened, offended, flightMode, flightArmed>>
         /\ Adds("advanced", NextLine, LineOf("advanced"))
<1>1. "advanced" \in Kinds
  BY DEF Kinds
<1>2. Mission!Say(<<Mission!Line("advanced")>>)
  BY DEF Mission!Advance
<1> QED
  BY <1>1, <1>2, OneSaid DEF Mission!Advance, Going, Mission!NoOp

Settling == {"gate", "survey", "settled"}
LEMMA StopIs ==
  ASSUME NodeTyped, Mission!Stop
  PROVE  /\ op.cancelled /\ op # Mission!NoOp /\ op' = Mission!NoOp /\ Same /\ UNCHANGED offended
         /\ \E kind \in Stops : Adds(kind, NextLine, LineOf(kind))
                                /\ (kind = "putdown" <=> op.stage \in Settling)
<1> DEFINE kind == IF op.stage \in Settling THEN "putdown" ELSE "discarded"
<1>1. kind \in Kinds /\ kind \in Stops /\ (kind = "putdown" <=> op.stage \in Settling)
  BY DEF Kinds, Stops
<1>2. Mission!Say(<<Mission!Line(kind)>>)
  BY DEF Mission!Stop, Settling
<1> HIDE DEF kind
<1>3. Adds(kind, NextLine, LineOf(kind))
  BY <1>1, <1>2, OneSaid
<1>4. op.cancelled /\ op # Mission!NoOp /\ op' = Mission!NoOp /\ Same /\ UNCHANGED offended
  BY DEF Mission!Stop, Same, Mission!fcuVars, Mission!NoOp
<1> QED
  BY <1>1, <1>3, <1>4

LEMMA ReplyIs ==
  ASSUME NodeTyped, Mission!AbortReply
  PROVE  Silent /\ Same /\ UNCHANGED <<op, offended>>
<1>1. "abort" \in Kinds /\ "abort" \notin Telling
  BY DEF Kinds, Telling, Cuts, Stops, Forbidden
<1>2. Mission!Say(<<Mission!Line("abort")>>)
  BY DEF Mission!AbortReply
<1> QED
  BY <1>1, <1>2, OneSaid DEF Mission!AbortReply, Same, Mission!fcuVars

LEMMA GoOnIs ==
  ASSUME NodeTyped, Mission!GoOn
  PROVE  /\ op.cancelled /\ op'.cancelled /\ op'.id = op.id /\ op'.item = op.item /\ Same
         /\ offended' = offended \cup {NextLine}
         /\ \E kind \in Forbidden : Adds(kind, NextLine, LineOf(kind))
<1> DEFINE kind == IF op.stage = "gate" THEN "localized" ELSE "advanced"
<1>1. kind \in Kinds /\ kind \in Forbidden
  BY DEF Kinds, Forbidden
<1>2. Mission!Say(<<Mission!Line(kind)>>)
  BY DEF Mission!GoOn
<1> HIDE DEF kind
<1>3. Adds(kind, NextLine, LineOf(kind))
  BY <1>1, <1>2, OneSaid
<1>4. /\ op.cancelled /\ op'.cancelled /\ op'.id = op.id /\ op'.item = op.item /\ Same
      /\ offended' = offended \cup {NextLine}
  BY DEF Mission!GoOn, Same, Mission!fcuVars, NodeTyped, Operations, NextLine
<1> QED
  BY <1>1, <1>3, <1>4

Opens ==
  /\ told.at = Mission!Hold(cursor + 1) /\ opened' = opened + 1
  /\ op' = [item |-> cursor + 1, id |-> opened + 1, stage |-> "asked", cancelled |-> FALSE]
  /\ Adds("started", Len(said) + 2, [kind |-> "started", item |-> cursor + 1, op |-> opened + 1])
Declines == Silent /\ UNCHANGED <<op, opened>>
LEMMA ProcessIs ==
  ASSUME NodeTyped, Mission!Process
  PROVE  /\ op = Mission!NoOp /\ told.mode = "mission" /\ cursor + 1 \in Mission!Points
         /\ cursor' = cursor + 1 /\ UNCHANGED <<told, offended, at, flightMode, flightArmed>>
         /\ Opens \/ Declines
<1> DEFINE new == [item |-> cursor + 1, id |-> opened + 1, stage |-> "asked", cancelled |-> FALSE]
           line(kind) == [kind |-> kind, item |-> cursor + 1, op |-> opened + 1]
<1>1. \A kind \in Kinds : line(kind) \in LogLines /\ line(kind).kind = kind
  BY DEF LogLines, NodeTyped
<1>2. /\ "item" \in Kinds /\ "started" \in Kinds /\ "declined" \in Kinds
      /\ "item" \notin Telling /\ "declined" \notin Telling
  BY DEF Kinds, Telling, Cuts, Stops, Forbidden
<1>3. /\ op = Mission!NoOp /\ told.mode = "mission" /\ cursor + 1 \in Mission!Points
      /\ cursor' = cursor + 1 /\ UNCHANGED <<told, offended, at, flightMode, flightArmed>>
  BY DEF Mission!Process, Mission!fcuVars
<1>4. \/ /\ told.at = Mission!Hold(cursor + 1) /\ opened' = opened + 1 /\ op' = new
         /\ Mission!Say(<<line("item"), line("started")>>)
      \/ Mission!Say(<<line("item"), line("declined")>>) /\ UNCHANGED <<opened, op>>
  BY DEF Mission!Process
<1> HIDE DEF line
<1>5. CASE /\ told.at = Mission!Hold(cursor + 1) /\ opened' = opened + 1 /\ op' = new
           /\ Mission!Say(<<line("item"), line("started")>>)
  <2>1. Adds("started", Len(said) + 2, line("started"))
    BY <1>1, <1>2, <1>5, TwoLines
  <2>2. line("started") = [kind |-> "started", item |-> cursor + 1, op |-> opened + 1]
    BY DEF line
  <2> QED
    BY <1>3, <1>5, <2>1, <2>2 DEF Opens
<1>6. CASE Mission!Say(<<line("item"), line("declined")>>) /\ UNCHANGED <<opened, op>>
  BY <1>1, <1>2, <1>3, <1>6, TwoLines DEF Declines
<1> QED
  BY <1>4, <1>5, <1>6

LEMMA Both == \A A, B : /\ Says(A \cup B) = Says(A) \cup Says(B)
                        /\ Says(A \cup B)' = Says(A)' \cup Says(B)'
BY DEF Says, Mission!Lines

Cutting == Going /\ ~AtHold
Backward == at < told.at
TellSays ==
  /\ Old /\ Unsaid({"started"}) /\ Unsaid(Forbidden) /\ Unsaid(Stops) /\ Unsaid({"localized"})
  /\ Unsaid({"putdown"}) /\ Unsaid({"capture"})
  /\ \A K : /\ \A j \in Says(K)' : j \in Says(K) \/ (j \in Nat /\ j > Len(said))
            /\ Says(K) \subseteq Says(K)'
  /\ ~Cutting => Unsaid({"expired"})
  /\ ~Backward => Unsaid({"back"})
  /\ Cutting => \E n \in Nat : /\ n > Len(said) /\ said'[n].op = op.id
                               /\ Says({"expired"})' = Says({"expired"}) \cup {n}
LEMMA TellIs ==
  ASSUME NodeTyped, Mission!Tell
  PROVE  /\ TellSays /\ told' = Mission!Now /\ told'.at = at /\ told'.mode = flightMode
         /\ UNCHANGED <<opened, offended, at, flightMode, flightArmed>>
         /\ ~Backward => cursor' = cursor
         /\ op' = [op EXCEPT !.cancelled = op.cancelled \/ Cutting]
<1> DEFINE one == Mission!Line("back")
           two == Mission!Line("expired")
           lines == (IF Backward THEN <<one>> ELSE <<>>) \o (IF Cutting THEN <<two>> ELSE <<>>)
<1>1. /\ told' = Mission!Now /\ told'.at = at /\ told'.mode = flightMode
      /\ UNCHANGED <<opened, offended, at, flightMode, flightArmed>>
      /\ ~Backward => cursor' = cursor
      /\ op' = [op EXCEPT !.cancelled = op.cancelled \/ Cutting]
  BY DEF Mission!Tell, Mission!Now, Mission!fcuVars, Going, AtHold, Cutting, Backward
<1>2. Mission!Say(lines)
  BY DEF Mission!Tell, Going, AtHold, Cutting, Backward
<1>3. /\ one \in LogLines /\ two \in LogLines /\ one.kind = "back" /\ two.kind = "expired" /\ two.op = op.id
      /\ Len(said) \in Nat
  BY LineTyped DEF NodeTyped, Kinds, Mission!Line
<1> HIDE DEF one, two
<1>4. /\ lines \in Seq(LogLines) /\ Len(lines) \in Nat
      /\ \A m \in 1 .. Len(lines) : lines[m] \in {one, two}
      /\ ~Backward => \A m \in 1 .. Len(lines) : lines[m] = two
      /\ ~Cutting => \A m \in 1 .. Len(lines) : lines[m] = one
  <2>1. CASE Backward /\ Cutting
    BY <1>3, <2>1
  <2>2. CASE Backward /\ ~Cutting
    BY <1>3, <2>2
  <2>3. CASE ~Backward /\ Cutting
    BY <1>3, <2>3
  <2>4. CASE ~Backward /\ ~Cutting
    BY <1>3, <2>4
  <2> QED
    BY <2>1, <2>2, <2>3, <2>4
<1>5. Cutting => \E m \in 1 .. Len(lines) : /\ lines[m] = two
                                             /\ \A x \in 1 .. Len(lines) : lines[x].kind = "expired" => x = m
  <2>1. CASE Backward /\ Cutting
    <3>1. Len(lines) = 2 /\ lines[1] = one /\ lines[2] = two
      BY <1>3, <2>1
    <3> QED
      BY <1>3, <3>1
  <2>2. CASE ~Backward /\ Cutting
    <3>1. Len(lines) = 1 /\ lines[1] = two
      BY <1>3, <2>2
    <3> QED
      BY <1>3, <3>1
  <2> QED
    BY <2>1, <2>2
<1> HIDE DEF lines
<1>6. GrownBy(lines)
  BY <1>2, <1>4, Appended
<1>7. Old
  BY <1>6 DEF GrownBy, Old
<1>8. \A K : /\ \A j \in Says(K)' : j \in Says(K) \/ (j \in Nat /\ j > Len(said))
             /\ Says(K) \subseteq Says(K)'
  <2> TAKE K
  <2>1. Says(K)' = Says(K) \cup Places(lines, K)
    BY <1>6 DEF GrownBy
  <2>2. \A j \in Places(lines, K) : j \in Nat /\ j > Len(said)
    BY <1>3, <1>4 DEF Places
  <2> QED
    BY <2>1, <2>2
<1>9. ASSUME NEW K, \A m \in 1 .. Len(lines) : lines[m].kind \notin K
      PROVE  Unsaid(K)
  <2>1. Places(lines, K) = {}
    BY <1>9 DEF Places
  <2> QED
    BY <1>6, <2>1 DEF GrownBy, Unsaid
<1>10. /\ Unsaid({"started"}) /\ Unsaid(Forbidden) /\ Unsaid(Stops) /\ Unsaid({"localized"})
       /\ Unsaid({"putdown"}) /\ Unsaid({"capture"})
  <2>1. \A m \in 1 .. Len(lines) : lines[m].kind = "back" \/ lines[m].kind = "expired"
    BY <1>3, <1>4
  <2> QED
    BY <1>9, <2>1 DEF Forbidden, Stops
<1>11. (~Cutting => Unsaid({"expired"})) /\ (~Backward => Unsaid({"back"}))
  BY <1>3, <1>4, <1>9
<1>12. Cutting => \E n \in Nat : /\ n > Len(said) /\ said'[n].op = op.id
                                 /\ Says({"expired"})' = Says({"expired"}) \cup {n}
  <2> HAVE Cutting
  <2>1. PICK m \in 1 .. Len(lines) : /\ lines[m] = two
                                     /\ \A x \in 1 .. Len(lines) : lines[x].kind = "expired" => x = m
    BY <1>5
  <2>2. {x \in 1 .. Len(lines) : lines[x].kind \in {"expired"}} = {m}
    BY <1>3, <2>1
  <2>3. Places(lines, {"expired"}) = {Len(said) + m}
    BY <2>2 DEF Places
  <2>4. said'[Len(said) + m] = two
    BY <1>6, <2>1 DEF GrownBy
  <2>5. Says({"expired"})' = Says({"expired"}) \cup {Len(said) + m}
    BY <1>6, <2>3 DEF GrownBy
  <2> QED
    BY <1>3, <1>4, <2>1, <2>4, <2>5
<1> QED
  BY <1>1, <1>7, <1>8, <1>10, <1>11, <1>12 DEF TellSays

(* A line that is there was said before any new one.                       *)
LEMMA Before ==
  ASSUME NodeTyped
  PROVE  \A K : \A i \in Says(K) : i \in Nat /\ i <= Len(said) /\ i < NextLine /\ i < Len(said) + 2
BY SaysAre DEF NextLine

LEMMA VehicleIs ==
  ASSUME Mission!Vehicle, flightMode # "land"
  PROVE  /\ at \in {0} \cup {Mission!Way(c) : c \in Mission!Points} /\ flightMode = "mission"
         /\ at' = IF at = 0 THEN Mission!Way(1) ELSE at + 1
         /\ UNCHANGED <<flightMode, flightArmed>> /\ UNCHANGED Mission!nodeVars
BY DEF Mission!Vehicle, Mission!Reach, Mission!Carried, Mission!Landed

LEMMA VehicleSilent ==
  ASSUME NodeTyped, Mission!Vehicle
  PROVE  Silent /\ UNCHANGED <<told, cursor, op, opened, offended>>
<1>1. UNCHANGED Mission!nodeVars
  BY DEF Mission!Vehicle, Mission!Reach, Mission!Carried, Mission!Landed
<1> QED
  BY <1>1, NoLine DEF Mission!nodeVars

(* Who is told that he was cut off, is.                                    *)
LEMMA ToldIs ==
  ASSUME NodeTyped, Mission!Tell
  PROVE  /\ op'.id = op.id /\ op'.item = op.item /\ op'.stage = op.stage
         /\ op'.cancelled = (op.cancelled \/ Cutting)
         /\ (op = Mission!NoOp) <=> (op' = Mission!NoOp)
         /\ Going' <=> (Going /\ ~Cutting)
         /\ ~Cutting => op' = op
<1>1. op' = [op EXCEPT !.cancelled = op.cancelled \/ Cutting]
  BY TellIs
<1>2. /\ op'.id = op.id /\ op'.item = op.item /\ op'.stage = op.stage
      /\ op'.cancelled = (op.cancelled \/ Cutting) /\ (~Cutting => op' = op)
  BY <1>1 DEF NodeTyped, Operations
<1>3. Cutting => op # Mission!NoOp /\ ~op.cancelled
  BY DEF Cutting, Going
<1>4. (op' # Mission!NoOp /\ op # Mission!NoOp) \/ op' = op
  <2>1. Mission!NoOp.cancelled = FALSE
    BY DEF Mission!NoOp
  <2>2. CASE Cutting
    BY <1>2, <1>3, <2>1, <2>2
  <2> QED
    BY <1>2, <2>2
<1> QED
  BY <1>2, <1>3, <1>4 DEF Going

LEMMA BackCuts ==
  ASSUME MissionTyped, OpenAsTold, Backward, Going
  PROVE  Cutting
BY DEF Backward, Going, Cutting, AtHold, OpenAsTold, MissionTyped, VehicleTyped, NodeTyped, Heres

LEMMA NodeInvKeeps ==
  ASSUME MissionTyped, NodeInv, Mission!Vehicle \/ Mission!Node
  PROVE  NodeInv'
<1> USE DEF NodeInv
<1>0. NodeTyped /\ opened \in Int /\ op.id \in Int /\ cursor \in Int
  BY DEF MissionTyped, NodeTyped, Operations
<1>1. CASE Mission!Vehicle \/ Mission!AbortReply
  <2>1. UNCHANGED <<op, opened>>
    BY <1>0, <1>1, VehicleSilent, ReplyIs DEF Same
  <2> QED
    BY <2>1 DEF Mission!Points
<1>2. CASE Mission!Tell
  <2>1. opened' = opened /\ op'.id = op.id /\ op'.item = op.item /\ (op = Mission!NoOp <=> op' = Mission!NoOp)
    BY <1>0, <1>2, TellIs, ToldIs
  <2> QED
    BY <2>1 DEF Mission!Points
<1>3. CASE Mission!Process
  <2>1. CASE Opens
    <3>1. op'.id = opened + 1 /\ opened' = opened + 1 /\ op'.item = cursor + 1 /\ cursor + 1 \in Mission!Points
      BY <1>0, <1>3, <2>1, ProcessIs DEF Opens
    <3> QED
      BY <1>0, <3>1 DEF Mission!Points
  <2>2. CASE Declines
    BY <2>2 DEF Declines, Mission!Points
  <2> QED
    BY <1>0, <1>3, <2>1, <2>2, ProcessIs
<1>4. CASE Mission!Working
  <2>1. PICK from, to : Works(from, to)
    BY <1>0, <1>4, WorkingIs
  <2> QED
    BY <2>1 DEF Works, Same, Going, Mission!Points
<1>5. CASE Mission!Advance \/ Mission!Stop
  <2>1. op' = Mission!NoOp /\ opened' = opened
    BY <1>0, <1>5, AdvanceIs, StopIs DEF Same
  <2> QED
    BY <1>0, <2>1 DEF Mission!NoOp
<1>6. CASE Mission!GoOn
  <2>1. op'.id = op.id /\ op'.item = op.item /\ opened' = opened /\ op.cancelled
    BY <1>0, <1>6, GoOnIs DEF Same
  <2>2. op # Mission!NoOp
    BY <2>1 DEF Mission!NoOp
  <2> QED
    BY <2>1, <2>2 DEF Mission!Points
<1> QED
  BY <1>1, <1>2, <1>3, <1>4, <1>5, <1>6 DEF Mission!Node

LEMMA CutStaysKeeps ==
  ASSUME MissionTyped, OpenAsTold, CutStays, Mission!Vehicle \/ Mission!Node
  PROVE  CutStays'
<1>0. NodeTyped
  BY DEF MissionTyped
<1> DEFINE starts == Says({"started"})
           cuts == Says(Cuts)
<1>a. \A i \in starts \cup cuts : i \in Nat /\ i <= Len(said) /\ i < NextLine /\ i < Len(said) + 2
  BY <1>0, Before
<1>b. (\E j \in cuts : \A s \in starts : s < j) => ~Going
  BY DEF CutStays
<1>c. CutStays' <=> ((\E j \in cuts' : \A s \in starts' : s < j) => ~Going')
  BY DEF CutStays
<1> HIDE DEF starts, cuts
<1>1. CASE Mission!Vehicle \/ Mission!AbortReply
  <2>1. op' = op /\ starts' = starts /\ cuts' = cuts
    BY <1>0, <1>1, VehicleSilent, ReplyIs, SilentTable DEF AllUnsaid, Unsaid, starts, cuts
  <2> QED
    BY <1>b, <1>c, <2>1 DEF Going
<1>2. CASE Mission!Tell
  <2>1. starts' = starts /\ (Going' => Going /\ ~Cutting)
    BY <1>0, <1>2, TellIs, ToldIs DEF TellSays, Unsaid, starts
  <2>2. ~Cutting /\ ~Backward => cuts' = cuts
    <3>1. ~Cutting /\ ~Backward => Unsaid({"expired"}) /\ Unsaid({"back"})
      BY <1>0, <1>2, TellIs DEF TellSays
    <3> QED
      BY <3>1, Both DEF Unsaid, cuts, Cuts
  <2>3. Going' => ~Cutting /\ ~Backward
    BY <2>1, BackCuts
  <2> QED
    BY <1>b, <1>c, <2>1, <2>2, <2>3
<1>3. CASE Mission!Process
  <2>1. CASE Opens
    <3>1. starts' = starts \cup {Len(said) + 2} /\ cuts' = cuts
      BY <2>1, StartedTable DEF Opens, StartedAt, Unsaid, starts, cuts
    <3>2. \A j \in cuts' : ~ (Len(said) + 2 < j)
      BY <1>a, <3>1
    <3> QED
      BY <1>c, <3>1, <3>2
  <2>2. CASE Declines
    <3>1. op' = op /\ starts' = starts /\ cuts' = cuts
      BY <2>2, SilentTable DEF Declines, AllUnsaid, Unsaid, starts, cuts
    <3> QED
      BY <1>b, <1>c, <3>1 DEF Going
  <2> QED
    BY <1>0, <1>3, <2>1, <2>2, ProcessIs
<1>4. CASE Mission!Working
  <2>1. Going
    BY <1>0, <1>4, WorkingIs DEF Works
  <2>2. starts' = starts /\ cuts' = cuts
    BY <1>0, <1>4, WorkingIs, SilentTable, CaptureTable, ForbiddenTable
    DEF AllUnsaid, CaptureAt, ForbiddenAt, Unsaid, starts, cuts, Forbidden
  <2> QED
    BY <1>b, <1>c, <2>1, <2>2
<1>5. CASE Mission!Advance \/ Mission!Stop \/ Mission!GoOn
  <2>1. ~Going'
    BY <1>0, <1>5, AdvanceIs, StopIs, GoOnIs DEF Going
  <2> QED
    BY <1>c, <2>1
<1> QED
  BY <1>1, <1>2, <1>3, <1>4, <1>5 DEF Mission!Node

LEMMA OffencesKeep ==
  ASSUME MissionTyped, OpenAsTold, CutStays, OffenceNoted, Mission!Vehicle \/ Mission!Node
  PROVE  OffenceNoted'
<1>0. NodeTyped
  BY DEF MissionTyped
<1> DEFINE starts == Says({"started"})
           cuts == Says(Cuts)
           wrong == Says(Forbidden)
           Apart(j, i, S) == j < i /\ \A s \in S : s < j \/ i < s
<1>a. \A i \in starts \cup cuts \cup wrong : i \in Nat /\ i <= Len(said) /\ i < NextLine /\ i < Len(said) + 2
  BY <1>0, Before
<1>b. Len(said) \in Nat /\ NextLine = Len(said) + 1
  BY <1>0, SaysAre DEF NextLine
<1>c. \A j \in cuts, i \in wrong : Apart(j, i, starts) => i \in offended
  BY DEF OffenceNoted
<1>d. OffenceNoted' <=> \A j \in cuts', i \in wrong' : Apart(j, i, starts') => i \in offended'
  BY DEF OffenceNoted
<1>e. (\E j \in cuts : \A s \in starts : s < j) => ~Going
  BY DEF CutStays
<1> HIDE DEF starts, cuts, wrong
<1>1. CASE Mission!Vehicle \/ Mission!AbortReply \/ (Declines /\ UNCHANGED offended)
  <2>1. starts' = starts /\ cuts' = cuts /\ wrong' = wrong /\ offended' = offended
    BY <1>0, <1>1, VehicleSilent, ReplyIs, SilentTable DEF Declines, AllUnsaid, Unsaid, starts, cuts, wrong
  <2> QED
    BY <1>c, <1>d, <2>1
<1>2. CASE Mission!Tell
  <2>1. starts' = starts /\ wrong' = wrong /\ offended' = offended
        /\ \A j \in cuts' : j \in cuts \/ (j \in Nat /\ j > Len(said))
    BY <1>0, <1>2, TellIs DEF TellSays, Unsaid, starts, wrong, cuts
  <2>2. \A j \in cuts', i \in wrong' : j < i => j \in cuts
    BY <1>a, <1>b, <2>1
  <2> QED
    BY <1>c, <1>d, <2>1, <2>2
<1>3. CASE Opens /\ UNCHANGED offended
  <2>1. starts' = starts \cup {Len(said) + 2} /\ cuts' = cuts /\ wrong' = wrong /\ offended' = offended
    BY <1>3, StartedTable DEF Opens, StartedAt, Unsaid, starts, cuts, wrong
  <2> QED
    BY <1>c, <1>d, <2>1
<1>4. CASE Mission!Working \/ Mission!Advance
  <2>1. Going /\ offended' = offended
    BY <1>0, <1>4, WorkingIs, AdvanceIs DEF Works
  <2>2. starts' = starts /\ cuts' = cuts
    BY <1>0, <1>4, WorkingIs, AdvanceIs, SilentTable, CaptureTable, ForbiddenTable
    DEF AllUnsaid, CaptureAt, ForbiddenAt, Unsaid, starts, cuts, Forbidden
  <2>3. \A i \in wrong' : i \in wrong \/ i = NextLine
    BY <1>0, <1>4, WorkingIs, AdvanceIs, SilentTable, CaptureTable, ForbiddenTable
    DEF AllUnsaid, CaptureAt, ForbiddenAt, Unsaid, wrong, Forbidden
  <2>4. ASSUME NEW j \in cuts', NEW i \in wrong', Apart(j, i, starts') PROVE i \in offended'
    <3>1. CASE i \in wrong
      BY <1>c, <2>1, <2>2, <2>4, <3>1
    <3>2. CASE i = NextLine
      <4>1. \A s \in starts : s < j
        BY <1>a, <1>b, <2>2, <2>4, <3>2
      <4> QED
        BY <1>e, <2>1, <2>2, <4>1
    <3> QED
      BY <2>3, <3>1, <3>2
  <2> QED
    BY <1>d, <2>4
<1>5. CASE Mission!Stop
  <2>1. starts' = starts /\ cuts' = cuts /\ wrong' = wrong /\ offended' = offended
    BY <1>0, <1>5, StopIs, StopTable DEF StopAt, Unsaid, starts, cuts, wrong
  <2> QED
    BY <1>c, <1>d, <2>1
<1>6. CASE Mission!GoOn
  <2>1. /\ starts' = starts /\ cuts' = cuts /\ offended' = offended \cup {NextLine}
        /\ \A i \in wrong' : i \in wrong \/ i = NextLine
    BY <1>0, <1>6, GoOnIs, ForbiddenTable DEF ForbiddenAt, Unsaid, starts, cuts, wrong
  <2> QED
    BY <1>c, <1>d, <2>1
<1> QED
  BY <1>0, <1>1, <1>2, <1>3, <1>4, <1>5, <1>6, ProcessIs DEF Mission!Node

LEMMA LogKeeps ==
  ASSUME MissionTyped, OpenAsTold, LogInv, Mission!Vehicle \/ Mission!Node
  PROVE  LogInv'
BY NodeInvKeeps, CutStaysKeeps, OffencesKeep DEF LogInv

LEMMA Odd ==
  \A c, d \in Int : /\ Mission!Hold(c) # Mission!Way(d) /\ Mission!Hold(c) # 0 /\ Mission!Way(c) \in Int
                    /\ Mission!Hold(c) \in Int /\ (Mission!Hold(c) = Mission!Hold(d) => c = d)
                    /\ Mission!Way(d) + 1 = Mission!Hold(d) /\ Mission!Way(d + 1) = Mission!Hold(d) + 1
                    /\ (c < d => Mission!Hold(c) < Mission!Hold(d) /\ Mission!Hold(c) < Mission!Way(d))
BY DEF Mission!Hold, Mission!Way

LEMMA TypesAre ==
  ASSUME MissionTyped, NodeInv
  PROVE  /\ NodeTyped /\ at \in Int /\ told.at \in Int /\ cursor \in Int /\ opened \in Int /\ op.id \in Int
         /\ h.op \in Int /\ h.item \in Int /\ op.item \in Int /\ Mission!Points \subseteq Int
         /\ op.stage \in Stages /\ op.cancelled \in BOOLEAN /\ h.noticed \in Nat /\ h.mark_no \in Int
         /\ (op # Mission!NoOp => op.item \in Mission!Points)
         /\ (op.cancelled => op # Mission!NoOp)
BY DEF MissionTyped, VehicleTyped, NodeTyped, HarnessTyped, Heres, Operations, Locals, Mission!Points,
       NodeInv, Mission!NoOp

LEMMA HeldIs ==
  ASSUME MissionTyped, NodeInv, Steady, Mission!Vehicle
  PROVE  ~Going /\ ~ (\E c \in Mission!Points : at = Mission!Hold(c))
<1>1. \A c \in Mission!Points : at # Mission!Hold(c)
  BY VehicleIs, Odd, TypesAre DEF Steady
<1> QED
  BY <1>1, TypesAre DEF Steady, Going, AtHold

Ahead ==
  told.mode = "mission" =>
    \A c \in Mission!Points :
      c > cursor /\ told.at = Mission!Hold(c) => at = told.at /\ flightMode = "mission"
LEMMA SteadyIs ==
  Steady <=> /\ flightMode # "land"
             /\ Going => AtHold /\ op.item <= cursor
             /\ ~Going => Ahead
BY DEF Steady, Ahead

(* Whatever is done, what is under way is of the hold it is at ...         *)
LEMMA SteadyKeeps ==
  ASSUME MissionTyped, OpenAsTold, NodeInv, Steady, Mission!Vehicle \/ Mission!Node
  PROVE  Steady'
<1> USE TypesAre
<1>0. /\ flightMode # "land"
      /\ Going => AtHold /\ op.item <= cursor
      /\ ~Going => Ahead
  BY SteadyIs
<1>g. Steady' <=> /\ flightMode' # "land"
                  /\ Going' => AtHold' /\ op'.item <= cursor'
                  /\ ~Going' => Ahead'
  BY DEF Steady, Ahead
<1>1. CASE Mission!Vehicle
  <2>1. ~Going /\ ~ (\E c \in Mission!Points : at = Mission!Hold(c))
    BY <1>1, HeldIs
  <2>2. UNCHANGED <<told, cursor, op, flightMode>>
    BY <1>0, <1>1, VehicleIs DEF Mission!nodeVars
  <2>3. ~Going'
    BY <2>1, <2>2 DEF Going
  <2>4. Ahead'
    BY <1>0, <2>1, <2>2 DEF Ahead, Mission!Points, Mission!Hold
  <2> QED
    BY <1>0, <1>g, <2>2, <2>3, <2>4
<1>2. CASE Mission!Tell
  <2>1. /\ ~Cutting /\ UNCHANGED <<op, at, flightMode>> /\ told'.at = at /\ told'.mode = flightMode
        /\ ~Backward => cursor' = cursor
    BY <1>0, <1>2, TellIs, ToldIs DEF Cutting
  <2>2. Going => cursor' = cursor
    BY <2>1, BackCuts
  <2>3. Ahead'
    BY <2>1 DEF Ahead
  <2>4. /\ Going' <=> Going
        /\ AtHold' <=> AtHold
    BY <2>1 DEF Going, AtHold, Mission!Hold
  <2> QED
    BY <1>0, <1>g, <2>1, <2>2, <2>3, <2>4
<1>3. CASE Mission!Process
  <2>1. /\ op = Mission!NoOp /\ told.mode = "mission" /\ cursor + 1 \in Mission!Points
        /\ cursor' = cursor + 1 /\ UNCHANGED <<told, at, flightMode>>
    BY <1>3, ProcessIs
  <2>2. ~Going /\ Ahead
    BY <1>0, <2>1 DEF Going
  <2>3. CASE Opens
    <3>1. op'.item = cursor + 1 /\ op'.cancelled = FALSE /\ op'.stage = "asked" /\ told.at = Mission!Hold(cursor + 1)
      BY <2>3 DEF Opens
    <3>2. at = Mission!Hold(cursor + 1) /\ flightMode = "mission"
      BY <2>1, <2>2, <3>1 DEF Ahead
    <3>3. AtHold' /\ Going'
      <4>1. AtHold'
        BY <2>1, <3>1, <3>2 DEF AtHold, Mission!Hold
      <4>2. Mission!NoOp.stage = "none"
        BY DEF Mission!NoOp
      <4> QED
        BY <3>1, <4>1, <4>2 DEF Going
    <3> QED
      BY <1>0, <1>g, <2>1, <3>1, <3>3
  <2>4. CASE Declines
    <3>1. ~Going'
      BY <2>2, <2>4 DEF Declines, Going
    <3>2. Ahead'
      BY <2>1, <2>2 DEF Ahead, Mission!Points, Mission!Hold
    <3> QED
      BY <1>0, <1>g, <2>1, <3>1, <3>2
  <2> QED
    BY <1>3, <2>3, <2>4, ProcessIs
<1>4. CASE Mission!Working
  <2>1. PICK from, to : Works(from, to)
    BY <1>4, WorkingIs
  <2>2. Going /\ Going' /\ op'.item = op.item /\ UNCHANGED <<cursor, at, flightMode>>
    BY <2>1 DEF Works, Same
  <2>3. AtHold' <=> AtHold
    BY <2>2 DEF AtHold, Mission!Hold
  <2> QED
    BY <1>0, <1>g, <2>2, <2>3
<1>5. CASE Mission!Advance
  <2>1. Going /\ op' = Mission!NoOp /\ UNCHANGED <<told, cursor, flightMode>>
    BY <1>5, AdvanceIs
  <2>2. told.at = Mission!Hold(op.item) /\ op.item <= cursor
    BY <1>0, <2>1 DEF OpenAsTold, Going
  <2>3. ~Going'
    BY <2>1 DEF Going
  <2>4. Ahead'
    <3>1. \A c \in Mission!Points : ~ (c > cursor /\ told.at = Mission!Hold(c))
      BY <2>2 DEF Mission!Hold
    <3> QED
      BY <2>1, <3>1 DEF Ahead, Mission!Points, Mission!Hold
  <2> QED
    BY <1>0, <1>g, <2>1, <2>3, <2>4
<1>6. CASE Mission!Stop \/ Mission!GoOn
  <2>1. op.cancelled /\ ~Going' /\ UNCHANGED <<told, cursor, at, flightMode>>
    BY <1>6, StopIs, GoOnIs DEF Going, Same
  <2>2. Ahead'
    BY <1>0, <2>1 DEF Ahead, Mission!Points, Mission!Hold, Going
  <2> QED
    BY <1>0, <1>g, <2>1, <2>2
<1>7. CASE Mission!AbortReply
  <2>1. UNCHANGED <<told, cursor, at, flightMode, op>>
    BY <1>7, ReplyIs DEF Same
  <2> QED
    BY <2>1 DEF Steady, Going, AtHold, Mission!Points, Mission!Hold
<1> QED
  BY <1>1, <1>2, <1>3, <1>4, <1>5, <1>6, <1>7 DEF Mission!Node

(* ... and the node is not told of what it is not to hear.                 *)
Level == told.at <= at
LEMMA LevelKeeps ==
  ASSUME MissionTyped, OpenAsTold, NodeInv, flightMode # "land", Level, Mission!Vehicle \/ Mission!Node
  PROVE  Level'
<1> USE TypesAre
<1>1. CASE Mission!Vehicle
  BY <1>1, VehicleIs DEF Level, Mission!nodeVars, Mission!Way
<1>2. CASE Mission!Tell
  BY <1>2, TellIs DEF Level
<1>3. CASE Mission!Advance
  <2>1. told.at = Mission!Hold(op.item) /\ at' = Mission!Way(op.item + 1) /\ told' = told
    BY <1>3, AdvanceIs DEF OpenAsTold, Going
  <2> QED
    BY <2>1 DEF Level, Mission!Hold, Mission!Way
<1>4. CASE Mission!Process \/ Mission!Working \/ Mission!Stop \/ Mission!GoOn \/ Mission!AbortReply
  <2>1. UNCHANGED <<told, at>>
    BY <1>4, ProcessIs, WorkingIs, StopIs, GoOnIs, ReplyIs DEF Works, Same
  <2> QED
    BY <2>1 DEF Level
<1> QED
  BY <1>1, <1>2, <1>3, <1>4 DEF Mission!Node

LEMMA CalmIs == Calm <=> Steady /\ (scen = "H" => Level)
BY DEF Calm, Level

LEMMA CalmKeeps ==
  ASSUME MissionTyped, OpenAsTold, NodeInv, Calm, scen' = scen, Mission!Vehicle \/ Mission!Node
  PROVE  /\ Calm'
         /\ Mission!Tell => Unsaid({"expired"}) /\ (scen = "H" => Unsaid({"back"}))
<1>1. Steady' /\ (scen = "H" => Level')
  BY SteadyKeeps, LevelKeeps, CalmIs DEF Steady
<1>2. Calm'
  BY <1>1 DEF Calm, Level
<1>3. Mission!Tell => Unsaid({"expired"}) /\ (scen = "H" => Unsaid({"back"}))
  <2>1. ~Cutting
    BY DEF Calm, Steady, Cutting
  <2> QED
    BY <2>1, TypesAre, TellIs DEF TellSays, Calm, Backward
<1> QED
  BY <1>2, <1>3

(* What was moved away from, and the node not told, goes on.               *)
LEMMA PendingKeeps ==
  ASSUME MissionTyped, OpenAsTold, NodeInv, Pending, h' = h, scen' = scen, Mission!Vehicle \/ Mission!Node
  PROVE  \/ Pending'
         \/ Steady' /\ Level' /\ (Mission!Tell \/ Mission!Vehicle \/ Mission!Advance)
<1> USE TypesAre
<1>0. /\ flightMode # "land" /\ Going /\ op.id = h.op /\ op.item = h.item /\ op.item <= cursor /\ ~AtHold
      /\ told.at = Mission!Hold(op.item)
  BY DEF Pending, OpenAsTold, Going
<1>1. CASE Mission!Vehicle
  <2>1. UNCHANGED <<told, cursor, op, flightMode, opened>> /\ flightMode = "mission"
    BY <1>0, <1>1, VehicleIs DEF Mission!nodeVars
  <2>2. Going'
    BY <1>0, <2>1 DEF Going
  <2>3. CASE at' = Mission!Hold(op.item)
    <3>1. AtHold' /\ Level'
      BY <1>0, <2>1, <2>3 DEF AtHold, Level, Mission!Hold
    <3>2. Steady'
      BY <1>0, <2>1, <2>2, <3>1 DEF Steady
    <3> QED
      BY <1>1, <3>1, <3>2
  <2>4. CASE at' # Mission!Hold(op.item)
    <3>1. ~AtHold'
      BY <2>1, <2>4 DEF AtHold, Mission!Hold
    <3> QED
      BY <1>0, <2>1, <2>2, <3>1 DEF Pending
  <2> QED
    BY <2>3, <2>4
<1>2. CASE Mission!Tell
  <2>1. ~Going' /\ UNCHANGED <<at, flightMode>> /\ told'.at = at /\ told'.mode = flightMode
    BY <1>0, <1>2, TellIs, ToldIs DEF Cutting
  <2> QED
    BY <1>0, <1>2, <2>1 DEF Steady, Level
<1>3. CASE Mission!Process \/ Mission!Stop \/ Mission!GoOn
  BY <1>0, <1>3, ProcessIs, StopIs, GoOnIs DEF Going
<1>4. CASE Mission!Working
  <2>1. PICK from, to : Works(from, to)
    BY <1>4, WorkingIs
  <2>2. Going' /\ op'.item = op.item /\ op'.id = op.id /\ UNCHANGED <<cursor, at, flightMode, told>>
    BY <2>1 DEF Works, Same
  <2>3. ~AtHold'
    BY <1>0, <2>2 DEF AtHold, Mission!Hold
  <2> QED
    BY <1>0, <2>2, <2>3 DEF Pending
<1>5. CASE Mission!Advance
  <2>1. op' = Mission!NoOp /\ UNCHANGED <<told, cursor, flightMode>> /\ at' = Mission!Way(op.item + 1)
    BY <1>5, AdvanceIs
  <2>2. ~Going'
    BY <2>1 DEF Going
  <2>3. \A c \in Mission!Points : ~ (c > cursor /\ told.at = Mission!Hold(c))
    BY <1>0 DEF Mission!Hold
  <2>4. Steady'
    BY <1>0, <2>1, <2>2, <2>3 DEF Steady, Mission!Points, Mission!Hold
  <2>5. Level'
    BY <1>0, <2>1 DEF Level, Mission!Hold, Mission!Way
  <2> QED
    BY <1>5, <2>4, <2>5
<1>6. CASE Mission!AbortReply
  <2>1. UNCHANGED <<told, cursor, at, flightMode, op>>
    BY <1>6, ReplyIs DEF Same
  <2> QED
    BY <1>0, <2>1 DEF Pending, Going, AtHold, Mission!Hold
<1> QED
  BY <1>1, <1>2, <1>3, <1>4, <1>5, <1>6 DEF Mission!Node

(* A step of the node or the vehicle, as the harness sees it.              *)
Around ==
  /\ MissionTyped /\ OpenAsTold /\ LogInv
  /\ UNCHANGED <<h, scen, stage, notes>> /\ (Mission!Vehicle \/ Mission!Node)
LEMMA AroundIs ==
  ASSUME Around
  PROVE  /\ MissionTyped /\ NodeTyped /\ OpenAsTold /\ NodeInv /\ CutStays /\ OffenceNoted
         /\ UNCHANGED <<h, scen, stage, notes>> /\ (Mission!Vehicle \/ Mission!Node)
BY DEF Around, LogInv, MissionTyped

Quiet == Mission!Vehicle \/ Mission!AbortReply
LEMMA QuietIs ==
  ASSUME NodeTyped, Quiet
  PROVE  Old /\ AllUnsaid /\ UNCHANGED <<told, cursor, op, opened, offended>>
BY VehicleSilent, ReplyIs, SilentTable DEF Quiet, Same

LEMMA Steps ==
  ASSUME NodeTyped, Mission!Vehicle \/ Mission!Node
  PROVE  \/ Quiet \/ Mission!Tell \/ Mission!Process \/ Mission!Working \/ Mission!Advance
         \/ Mission!Stop \/ Mission!GoOn
BY DEF Mission!Node, Quiet

(* Who has nothing to cancel says that it was not told.                    *)
LEMMA NotTold ==
  ASSUME NodeTyped, Mission!Vehicle \/ Mission!Node, ~Mission!Tell
  PROVE  Old /\ Unsaid(Cuts) /\ Unsaid({"expired"}) /\ Unsaid({"back"})
<1>1. CASE Quiet
  BY <1>1, QuietIs DEF AllUnsaid
<1>2. CASE Mission!Process
  <2>1. CASE Opens
    BY <2>1, StartedTable DEF Opens, StartedAt, Adds
  <2>2. CASE Declines
    BY <2>2, SilentTable DEF Declines, AllUnsaid
  <2> QED
    BY <1>2, <2>1, <2>2, ProcessIs
<1>3. CASE Mission!Working \/ Mission!Advance
  <2>1. \/ Silent
        \/ \E line : Adds("capture", NextLine, line)
        \/ \E kind \in Forbidden : \E line : Adds(kind, NextLine, line)
    BY <1>3, WorkingIs, AdvanceIs DEF Forbidden
  <2> QED
    BY <2>1, SilentTable, CaptureTable, ForbiddenTable DEF AllUnsaid, CaptureAt, ForbiddenAt, Adds
<1>4. CASE Mission!Stop
  BY <1>4, StopIs, StopTable DEF StopAt, Adds
<1>5. CASE Mission!GoOn
  BY <1>5, GoOnIs, ForbiddenTable DEF ForbiddenAt, Adds
<1> QED
  BY <1>1, <1>2, <1>3, <1>4, <1>5, Steps

Later(K) == /\ Says(K) \subseteq Says(K)'
            /\ \A j \in Says(K)' : j \in Says(K) \/ (j \in Nat /\ j > Len(said))
LEMMA LogGrows ==
  ASSUME NodeTyped, Mission!Vehicle \/ Mission!Node
  PROVE  Old /\ \A K \in SUBSET Telling : Later(K)
<1>0. \A n \in Nat : \A kind, line : Adds(kind, n, line) => Old /\ \A K \in SUBSET Telling : Later(K)
  BY DEF Adds, Later, Unsaid
<1>a. Silent => Old /\ \A K \in SUBSET Telling : Later(K)
  BY DEF Silent, Later, Unsaid
<1>b. NextLine \in Nat /\ Len(said) + 2 \in Nat
  BY SaysAre DEF NextLine
<1>1. CASE Quiet
  BY <1>1, <1>a, VehicleSilent, ReplyIs DEF Quiet
<1>2. CASE Mission!Tell
  BY <1>2, TellIs DEF TellSays, Later
<1>3. CASE Mission!Process
  BY <1>0, <1>a, <1>b, <1>3, ProcessIs DEF Opens, Declines
<1>4. CASE Mission!Working \/ Mission!Advance
  BY <1>0, <1>a, <1>b, <1>4, WorkingIs, AdvanceIs
<1>5. CASE Mission!Stop \/ Mission!GoOn
  BY <1>0, <1>b, <1>5, StopIs, GoOnIs
<1> QED
  BY <1>1, <1>2, <1>3, <1>4, <1>5, Steps

Notices == Says(Mission!Notice)
LEMMA NoticesAre ==
  ASSUME scen' = scen
  PROVE  \/ scen = "H" /\ Notices = Says({"back"}) /\ Notices' = Says({"back"})'
         \/ scen # "H" /\ Notices = Says({"expired"}) /\ Notices' = Says({"expired"})'
BY DEF Notices, Mission!Notice, Says, Mission!Lines

LEMMA NoticesGrow ==
  ASSUME NodeTyped, scen' = scen, Mission!Vehicle \/ Mission!Node
  PROVE  /\ Notices \subseteq Notices'
         /\ \A n \in Notices' : n \in Notices \/ (n \in Nat /\ n > Len(said))
         /\ \A n \in Notices : n \in Nat /\ n <= Len(said)
         /\ ~Mission!Tell => Notices' = Notices
<1>1. Later({"back"}) /\ Later({"expired"})
  BY LogGrows, Sets
<1>2. ~Mission!Tell => Unsaid({"back"}) /\ Unsaid({"expired"})
  BY NotTold
<1>3. \A n \in Says({"back"}) \cup Says({"expired"}) : n \in Nat /\ n <= Len(said)
  BY Before
<1> QED
  BY <1>1, <1>2, <1>3, NoticesAre DEF Later, Unsaid

(* Nothing is cut but what was interrupted.                                *)
LEMMA CutIsOurs ==
  ASSUME Pending \/ Steady, Cutting
  PROVE  Pending
BY DEF Cutting, Steady

LEMMA WhereKeeps ==
  ASSUME Around, Pending \/ Steady
  PROVE  /\ Pending' \/ Steady'
         /\ Pending' => Pending /\ ~Mission!Tell
<1>0. /\ NodeTyped /\ MissionTyped /\ OpenAsTold /\ NodeInv /\ UNCHANGED <<h, scen>>
      /\ Mission!Vehicle \/ Mission!Node
  BY AroundIs
<1>1. Pending' \/ Steady'
  BY <1>0, SteadyKeeps, PendingKeeps
<1>2. ASSUME Pending', ~Pending PROVE FALSE
  <2>1. Steady'
    BY <1>0, <1>2, SteadyKeeps
  <2> QED
    BY <1>2, <2>1 DEF Pending, Steady
<1>3. ASSUME Pending', Mission!Tell PROVE FALSE
  <2>1. Cutting
    BY <1>2, <1>3 DEF Pending, Cutting
  <2> QED
    BY <1>0, <1>3, <2>1, ToldIs DEF Pending
<1> QED
  BY <1>1, <1>2, <1>3

LEMMA OwnLinesKeep ==
  ASSUME Around, Pending \/ Steady, OwnInv
  PROVE  OwnLines'
<1>0. NodeTyped /\ h' = h /\ (Mission!Vehicle \/ Mission!Node)
  BY AroundIs
<1> DEFINE ends == Says({"expired"} \cup Stops)
<1>a. \A i \in ends : said[i].op = h.op /\ i \in 1 .. Len(said)
  BY <1>0, SaysAre DEF OwnInv, OwnLines
<1>b. OwnLines' <=> \A i \in ends' : said'[i].op = h.op
  BY <1>0 DEF OwnLines
<1>c. Old /\ (Old => \A i \in ends : said'[i].op = h.op)
  BY <1>0, <1>a, LogGrows DEF Old
<1> HIDE DEF ends
<1>1. CASE ends' = ends
  BY <1>b, <1>c, <1>1
<1>2. CASE Mission!Tell
  <2>1. Says({"expired"} \cup Stops)' = Says({"expired"})' \cup Says(Stops)' /\ ends = Says({"expired"}) \cup Says(Stops)
    BY Both DEF ends
  <2>2. CASE Cutting
    <3>1. op.id = h.op
      BY <2>2, CutIsOurs DEF Pending
    <3>2. PICK n \in Nat : said'[n].op = op.id /\ Says({"expired"})' = Says({"expired"}) \cup {n}
      BY <1>0, <1>2, <2>2, TellIs DEF TellSays
    <3>3. Says(Stops)' = Says(Stops)
      BY <1>0, <1>2, TellIs DEF TellSays, Unsaid
    <3>4. ends' = ends \cup {n}
      BY <2>1, <3>2, <3>3 DEF ends
    <3> QED
      BY <1>b, <1>c, <3>1, <3>2, <3>4
  <2>3. CASE ~Cutting
    <3>1. ends' = ends
      BY <1>0, <1>2, <2>1, <2>3, TellIs DEF TellSays, Unsaid, ends
    <3> QED
      BY <1>1, <3>1
  <2> QED
    BY <2>2, <2>3
<1>3. CASE Mission!Stop
  <2>1. PICK kind \in Stops : Adds(kind, NextLine, LineOf(kind))
    BY <1>0, <1>3, StopIs
  <2>2. said'[NextLine].op = op.id /\ ends' = ends \cup {NextLine}
    <3>1. said'[NextLine] = LineOf(kind)
      BY <2>1, Zenon DEF Adds
    <3>2. StopAt(kind, NextLine)
      BY <2>1, StopTable
    <3>3. LineOf(kind).op = op.id
      BY DEF LineOf
    <3>4. ends' = ends \cup {NextLine}
      BY <3>2 DEF StopAt, ends
    <3> QED
      BY <3>1, <3>3, <3>4
  <2>3. op.id = h.op
    BY <1>0, <1>3, StopIs DEF OwnInv, OwnCut
  <2> QED
    BY <1>b, <1>c, <2>2, <2>3
<1>4. CASE Quiet \/ Mission!Process \/ Mission!Working \/ Mission!Advance \/ Mission!GoOn
  <2>1. \/ AllUnsaid
        \/ \E n : StartedAt(n)
        \/ \E n : CaptureAt(n)
        \/ \E kind \in Forbidden : \E n : ForbiddenAt(kind, n)
    <3>1. CASE Quiet \/ Mission!Process
      BY <1>0, <3>1, QuietIs, ProcessIs, StartedTable, SilentTable DEF Opens, Declines
    <3>2. CASE Mission!Working \/ Mission!Advance \/ Mission!GoOn
      BY <1>0, <3>2, WorkingIs, AdvanceIs, GoOnIs, CaptureTable, SilentTable, ForbiddenTable DEF Forbidden
    <3> QED
      BY <1>4, <3>1, <3>2
  <2>2. ends' = ends
    BY <2>1 DEF AllUnsaid, StartedAt, CaptureAt, ForbiddenAt, Unsaid, ends
  <2> QED
    BY <1>1, <2>2
<1> QED
  BY <1>0, <1>2, <1>3, <1>4, Steps

LEMMA OwnCutKeeps ==
  ASSUME Around, Pending \/ Steady, Pending => Says(Cuts) = {}, OwnInv
  PROVE  OwnCut'
<1>0. NodeTyped /\ h' = h /\ (Mission!Vehicle \/ Mission!Node)
  BY AroundIs
<1> DEFINE cut == Says({"expired"})
           starts == Says({"started"})
<1>a. op.cancelled => op.id = h.op /\ cut # {} /\ \A k \in cut, s \in starts : s < k
  BY DEF OwnInv, OwnCut
<1>b. OwnCut' <=> (op'.cancelled => op'.id = h.op /\ cut' # {} /\ \A k \in cut', s \in starts' : s < k)
  BY <1>0 DEF OwnCut
<1>c. \A s \in starts : s <= Len(said) /\ s \in Nat
  BY <1>0, Before
<1>d. Mission!NoOp.cancelled = FALSE
  BY DEF Mission!NoOp
<1>e. Len(said) \in Nat
  BY <1>0, SaysAre
<1>f. cut = {} \/ ~Pending
  BY DEF Says, Mission!Lines, Cuts
<1> HIDE DEF cut, starts
<1>1. CASE Quiet
  <2>1. op' = op /\ cut' = cut /\ starts' = starts
    BY <1>0, <1>1, QuietIs DEF AllUnsaid, Unsaid, cut, starts
  <2> QED
    BY <1>a, <1>b, <2>1
<1>2. CASE Mission!Tell
  <2>1. starts' = starts
    BY <1>0, <1>2, TellIs DEF TellSays, Unsaid, starts
  <2>2. CASE Cutting
    <3>1. Pending
      BY <2>2, CutIsOurs
    <3>2. op'.id = h.op
      BY <1>0, <1>2, <3>1, ToldIs DEF Pending
    <3>3. PICK n \in Nat : n > Len(said) /\ Says({"expired"})' = Says({"expired"}) \cup {n}
      BY <1>0, <1>2, <2>2, TellIs DEF TellSays
    <3>4. cut' = {n}
      BY <1>f, <3>1, <3>3 DEF cut
    <3> QED
      BY <1>b, <1>c, <1>e, <2>1, <3>2, <3>3, <3>4
  <2>3. CASE ~Cutting
    <3>1. op' = op /\ cut' = cut
      BY <1>0, <1>2, <2>3, TellIs, ToldIs DEF TellSays, Unsaid, cut
    <3> QED
      BY <1>a, <1>b, <2>1, <3>1
  <2> QED
    BY <2>2, <2>3
<1>3. CASE Mission!Process
  <2>1. ~op'.cancelled
    BY <1>0, <1>3, <1>d, ProcessIs DEF Opens, Declines
  <2> QED
    BY <1>b, <2>1
<1>4. CASE Mission!Working \/ Mission!Advance \/ Mission!Stop
  <2>1. ~op'.cancelled
    BY <1>0, <1>4, <1>d, WorkingIs, AdvanceIs, StopIs DEF Works
  <2> QED
    BY <1>b, <2>1
<1>5. CASE Mission!GoOn
  <2>1. op.cancelled /\ op'.id = op.id /\ cut' = cut /\ starts' = starts
    BY <1>0, <1>5, GoOnIs, ForbiddenTable DEF ForbiddenAt, Unsaid, cut, starts
  <2> QED
    BY <1>a, <1>b, <2>1
<1> QED
  BY <1>0, <1>1, <1>2, <1>3, <1>4, <1>5, Steps

LEMMA OwnOffencesKeep ==
  ASSUME Around, OwnInv
  PROVE  OwnOffences'
<1>0. NodeTyped /\ h' = h /\ (Mission!Vehicle \/ Mission!Node)
  BY AroundIs
<1> DEFINE cut == Says({"expired"})
           starts == Says({"started"})
           wrong == Says(Forbidden)
<1>a. \A i \in offended :
        /\ i \in wrong /\ \E j \in cut : j < i
        /\ \A k \in cut, s \in starts : ~ (k < s /\ s < i)
  BY DEF OwnInv, OwnOffences
<1>b. OwnOffences' <=>
      \A i \in offended' :
        /\ i \in wrong' /\ \E j \in cut' : j < i
        /\ \A k \in cut', s \in starts' : ~ (k < s /\ s < i)
  BY DEF OwnOffences
<1>c. \A s \in starts \cup wrong \cup cut : s <= Len(said) /\ s \in Nat
  BY <1>0, Before
<1>d. Len(said) \in Nat /\ NextLine = Len(said) + 1
  BY <1>0, SaysAre DEF NextLine
<1>e. op.cancelled => cut # {} /\ \A k \in cut, s \in starts : s < k
  BY DEF OwnInv, OwnCut
<1> HIDE DEF cut, starts, wrong
<1>1. CASE Quiet
  <2>1. offended' = offended /\ cut' = cut /\ starts' = starts /\ wrong' = wrong
    BY <1>0, <1>1, QuietIs DEF AllUnsaid, Unsaid, cut, starts, wrong
  <2> QED
    BY <1>a, <1>b, <2>1
<1>2. CASE Mission!Tell
  <2>1. starts' = starts /\ wrong' = wrong /\ offended' = offended
    BY <1>0, <1>2, TellIs DEF TellSays, Unsaid, starts, wrong
  <2>2. cut \subseteq cut' /\ \A k \in cut' : k \in cut \/ (k \in Nat /\ k > Len(said))
    BY <1>0, <1>2, TellIs DEF TellSays, cut
  <2>3. \A k \in cut', s \in starts : k < s => k \in cut
    BY <1>c, <1>d, <2>2
  <2> QED
    BY <1>a, <1>b, <2>1, <2>2, <2>3
<1>3. CASE Mission!Process
  <2>1. CASE Opens
    <3>1. starts' = starts \cup {Len(said) + 2} /\ wrong' = wrong /\ cut' = cut
      BY <2>1, StartedTable DEF Opens, StartedAt, Unsaid, starts, wrong, cut
    <3>2. \A i \in wrong : ~ (Len(said) + 2 < i)
      BY <1>c, <1>d
    <3>3. offended' = offended
      BY <1>0, <1>3, ProcessIs
    <3> QED
      BY <1>a, <1>b, <3>1, <3>2, <3>3
  <2>2. CASE Declines
    <3>1. offended' = offended /\ starts' = starts /\ wrong' = wrong /\ cut' = cut
      BY <1>0, <1>3, <2>2, ProcessIs, SilentTable DEF Declines, AllUnsaid, Unsaid, starts, wrong, cut
    <3> QED
      BY <1>a, <1>b, <3>1
  <2> QED
    BY <1>0, <1>3, <2>1, <2>2, ProcessIs
<1>4. CASE Mission!Working \/ Mission!Advance
  <2>1. offended' = offended
    BY <1>0, <1>4, WorkingIs, AdvanceIs DEF Works
  <2>2. starts' = starts /\ cut' = cut /\ wrong \subseteq wrong'
    BY <1>0, <1>4, WorkingIs, AdvanceIs, SilentTable, CaptureTable, ForbiddenTable
    DEF AllUnsaid, CaptureAt, ForbiddenAt, Unsaid, starts, cut, wrong, Forbidden
  <2> QED
    BY <1>a, <1>b, <2>1, <2>2
<1>5. CASE Mission!Stop
  <2>1. offended' = offended /\ starts' = starts /\ cut' = cut /\ wrong' = wrong
    BY <1>0, <1>5, StopIs, StopTable DEF StopAt, Unsaid, starts, cut, wrong
  <2> QED
    BY <1>a, <1>b, <2>1
<1>6. CASE Mission!GoOn
  <2>1. starts' = starts /\ cut' = cut /\ wrong' = wrong \cup {NextLine} /\ offended' = offended \cup {NextLine}
        /\ op.cancelled
    BY <1>0, <1>6, GoOnIs, ForbiddenTable DEF ForbiddenAt, Unsaid, starts, cut, wrong
  <2>2. PICK j \in cut : TRUE
    BY <1>e, <2>1
  <2>3. j < NextLine /\ \A k \in cut, s \in starts : ~ (k < s /\ s < NextLine)
    BY <1>c, <1>d, <1>e, <2>1, <2>2
  <2> QED
    BY <1>a, <1>b, <2>1, <2>3
<1> QED
  BY <1>0, <1>1, <1>2, <1>3, <1>4, <1>5, <1>6, Steps

LEMMA StoppedStays ==
  ASSUME Around
  PROVE  (Stopped => Stopped') /\ (~Mission!Stop => (Stopped' <=> Stopped))
<1>0. NodeTyped /\ h' = h /\ (Mission!Vehicle \/ Mission!Node)
  BY AroundIs
<1> DEFINE ends == Says(Stops)
<1>a. (Stopped <=> \E i \in ends : said[i].op = h.op) /\ (Stopped' <=> \E i \in ends' : said'[i].op = h.op)
  BY <1>0 DEF Stopped
<1>b. \A i \in ends : i \in 1 .. Len(said)
  BY <1>0, SaysAre
<1>c. Old /\ ends \subseteq ends'
  BY <1>0, LogGrows, Sets DEF Later
<1> HIDE DEF ends
<1>1. \A i \in ends : said'[i] = said[i]
  BY <1>b, <1>c DEF Old
<1>2. Stopped => Stopped'
  BY <1>a, <1>c, <1>1
<1>3. ASSUME ~Mission!Stop PROVE ends' = ends
  <2>1. CASE Quiet \/ Mission!Process
    BY <1>0, <2>1, QuietIs, ProcessIs, StartedTable, SilentTable
    DEF Opens, Declines, AllUnsaid, StartedAt, Unsaid, ends
  <2>2. CASE Mission!Working \/ Mission!Advance \/ Mission!GoOn
    <3>1. \/ AllUnsaid
          \/ \E n : CaptureAt(n)
          \/ \E kind \in Forbidden : \E n : ForbiddenAt(kind, n)
      BY <1>0, <2>2, WorkingIs, AdvanceIs, GoOnIs, CaptureTable, SilentTable, ForbiddenTable DEF Forbidden
    <3> QED
      BY <3>1 DEF AllUnsaid, CaptureAt, ForbiddenAt, Unsaid, ends
  <2>3. CASE Mission!Tell
    BY <1>0, <2>3, TellIs DEF TellSays, Unsaid, ends
  <2> QED
    BY <1>0, <1>3, <2>1, <2>2, <2>3, Steps
<1> QED
  BY <1>a, <1>1, <1>2, <1>3

LEMMA OwnClosedKeeps ==
  ASSUME Around, OwnInv
  PROVE  OwnClosed'
<1>0. NodeTyped /\ h' = h /\ opened \in Int /\ h.op \in Int /\ (Mission!Vehicle \/ Mission!Node)
  BY AroundIs, TypesAre
<1>a. h.op <= opened /\ (Stopped => ~ (op # Mission!NoOp /\ op.id = h.op))
  BY DEF OwnInv, OwnClosed
<1>1. CASE Mission!Stop \/ Mission!Advance
  <2>1. op' = Mission!NoOp /\ opened' = opened
    BY <1>0, <1>1, StopIs, AdvanceIs DEF Same
  <2> QED
    BY <1>0, <1>a, <2>1 DEF OwnClosed
<1>2. CASE Mission!Process
  <2>1. Stopped' <=> Stopped
    BY <1>0, <1>2, ProcessIs, StopIs, StoppedStays DEF Mission!NoOp
  <2>2. CASE Opens
    <3>1. opened' = opened + 1 /\ op'.id = opened + 1
      BY <2>2 DEF Opens
    <3> QED
      BY <1>0, <1>a, <3>1 DEF OwnClosed
  <2>3. CASE Declines
    BY <1>0, <1>a, <2>1, <2>3 DEF Declines, OwnClosed
  <2> QED
    BY <1>0, <1>2, <2>2, <2>3, ProcessIs
<1>3. CASE Quiet \/ Mission!Tell \/ Mission!Working \/ Mission!GoOn
  <2>1. CASE ~Mission!Stop
    <3>1. Stopped' <=> Stopped
      BY <2>1, StoppedStays
    <3>2. opened' = opened
      BY <1>0, <1>3, QuietIs, TellIs, WorkingIs, GoOnIs DEF Works, Same
    <3>3. op'.id = op.id /\ (op' # Mission!NoOp => op # Mission!NoOp)
      <4>1. CASE Quiet
        BY <1>0, <4>1, QuietIs
      <4>2. CASE Mission!Tell
        BY <1>0, <4>2, ToldIs
      <4>3. CASE Mission!Working
        BY <1>0, <4>3, WorkingIs DEF Works, Going
      <4>4. CASE Mission!GoOn
        BY <1>0, <4>4, GoOnIs DEF Mission!NoOp
      <4> QED
        BY <1>3, <4>1, <4>2, <4>3, <4>4
    <3> QED
      BY <1>0, <1>a, <3>1, <3>2, <3>3 DEF OwnClosed
  <2>2. CASE Mission!Stop
    BY <1>1, <2>2
  <2> QED
    BY <2>1, <2>2
<1> QED
  BY <1>0, <1>1, <1>2, <1>3, Steps

LEMMA OwnKeeps ==
  ASSUME Around, CutInv, OwnInv
  PROVE  OwnInv'
BY OwnLinesKeep, OwnCutKeeps, OwnOffencesKeep, OwnClosedKeeps DEF OwnInv, CutInv

(* Until the node says that it was told.                                   *)
LocatedThen == Says({"localized"}) # {} => op.stage = "survey"
LEMMA UnnotifiedIs ==
  Unnotified <=> (~Notified => \/ Pending /\ LocatedThen
                               \/ Calm
                               \/ Turned /\ Says({"localized"}) = {})
BY DEF Unnotified, LocatedThen

LEMMA LocatedKeeps ==
  ASSUME Around, Pending, Pending', LocatedThen
  PROVE  LocatedThen'
<1>0. NodeTyped /\ (Mission!Vehicle \/ Mission!Node) /\ ~Mission!Tell /\ OpenAsTold /\ Going /\ ~AtHold
  BY AroundIs, WhereKeeps DEF Pending
<1>1. CASE Quiet
  BY <1>0, <1>1, QuietIs DEF AllUnsaid, Unsaid, LocatedThen
<1>2. CASE Mission!Process \/ Mission!Stop \/ Mission!GoOn
  BY <1>0, <1>2, ProcessIs, StopIs, GoOnIs DEF Going
<1>3. CASE Mission!Advance
  BY <1>0, <1>3, AdvanceIs DEF Pending, Going
<1>4. CASE Mission!Working
  <2>1. CASE Works("gate", "survey")
    BY <2>1 DEF Works, LocatedThen
  <2>2. CASE Works("survey", "settled") /\ told = Mission!Now
    BY <1>0, <2>2 DEF OpenAsTold, Going, AtHold, Mission!Now
  <2>3. CASE \/ Works("asked", "capture") /\ Adds("capture", NextLine, LineOf("capture"))
             \/ Works("capture", "gate") /\ Silent
             \/ Works("capture", "advance") /\ Silent
             \/ Works("settled", "advance") /\ Adds("succeeded", NextLine, LineOf("succeeded"))
    <3>1. op.stage # "survey"
      BY <2>3 DEF Works
    <3>2. Unsaid({"localized"})
      BY <2>3, SilentTable, CaptureTable, ForbiddenTable DEF AllUnsaid, CaptureAt, ForbiddenAt, Forbidden
    <3> QED
      BY <3>1, <3>2 DEF LocatedThen, Unsaid
  <2> QED
    BY <1>0, <1>4, <2>1, <2>2, <2>3, WorkingIs
<1> QED
  BY <1>0, <1>1, <1>2, <1>3, <1>4, Steps

LEMMA TurnedKeeps ==
  ASSUME Around, Turned, Says({"localized"}) = {}
  PROVE  Calm' \/ (Turned' /\ Says({"localized"})' = {})
<1>0. /\ NodeTyped /\ (Mission!Vehicle \/ Mission!Node) /\ MissionTyped /\ OpenAsTold /\ NodeInv
      /\ op = Mission!NoOp /\ cursor >= Captures /\ scen = "H" /\ scen' = scen /\ cursor \in Int /\ Captures \in Int
  BY AroundIs, TypesAre, MissionAssumption DEF Turned
<1>1. Steady'
  BY <1>0, SteadyKeeps DEF Turned
<1>2. CASE Quiet
  BY <1>0, <1>1, <1>2, QuietIs DEF AllUnsaid, Unsaid, Turned
<1>3. CASE Mission!Tell
  BY <1>0, <1>1, <1>3, TellIs, TypesAre DEF Calm
<1>4. CASE Mission!Process
  BY <1>0, <1>4, ProcessIs DEF Mission!Points
<1>5. CASE Mission!Working \/ Mission!Advance \/ Mission!Stop \/ Mission!GoOn
  <2>1. op # Mission!NoOp
    BY <1>0, <1>5, WorkingIs, AdvanceIs, StopIs, GoOnIs DEF Works, Going, Mission!NoOp
  <2> QED
    BY <1>0, <2>1
<1> QED
  BY <1>0, <1>2, <1>3, <1>4, <1>5, Steps

LEMMA NotifiedIs == Notified <=> Notices # {}
BY DEF Notified, Notices

LEMMA UnnotifiedKeeps ==
  ASSUME Around, CutInv
  PROVE  Unnotified'
<1>0. /\ NodeTyped /\ (Mission!Vehicle \/ Mission!Node) /\ MissionTyped /\ OpenAsTold /\ NodeInv
      /\ scen' = scen /\ h' = h
  BY AroundIs
<1>1. SUFFICES ASSUME ~Notified'
               PROVE  (Pending' /\ LocatedThen') \/ Calm' \/ (Turned' /\ Says({"localized"})' = {})
  BY DEF Unnotified, LocatedThen
<1>2. ~Notified
  BY <1>0, <1>1, NoticesGrow DEF Notified, Notices
<1>3. \/ Pending /\ LocatedThen
      \/ Calm
      \/ Turned /\ Says({"localized"}) = {}
  BY <1>2, UnnotifiedIs DEF CutInv
<1>4. CASE Pending /\ LocatedThen
  <2>1. Pending' \/ (Steady' /\ Level')
    BY <1>0, <1>4, PendingKeeps
  <2> QED
    BY <1>4, <2>1, LocatedKeeps DEF Calm, Level
<1>5. CASE Calm
  BY <1>0, <1>5, CalmKeeps
<1>6. CASE Turned /\ Says({"localized"}) = {}
  BY <1>6, TurnedKeeps
<1> QED
  BY <1>3, <1>4, <1>5, <1>6

Surveying == op.cancelled /\ op.stage = "survey"
LEMMA CutShortIs ==
  /\ CutShort <=> (Notified /\ Blind => offended # {} \/ Surveying \/ PutDown)
  /\ Blind <=> \E i \in Says({"localized"}) : \A n \in Notices : i < n
  /\ PutDown <=> \E i \in Says({"putdown"}) : \E n \in Notices : n < i
BY DEF CutShort, Surveying, Blind, PutDown, Notices

LEMMA CutShortKeeps ==
  ASSUME Around, CutInv
  PROVE  CutShort'
<1>0. NodeTyped /\ scen' = scen /\ (Mission!Vehicle \/ Mission!Node)
  BY AroundIs
<1> DEFINE located == Says({"localized"})
           put == Says({"putdown"})
           notice == Notices
           IsBlind(S, N) == \E i \in S : \A n \in N : i < n
           IsDown(P, N) == \E i \in P : \E n \in N : n < i
<1>a. notice # {} /\ IsBlind(located, notice) => offended # {} \/ Surveying \/ IsDown(put, notice)
  BY CutShortIs, NotifiedIs DEF CutInv
<1>b. CutShort' <=> (notice' # {} /\ IsBlind(located', notice') =>
                      offended' # {} \/ Surveying' \/ IsDown(put', notice'))
  BY DEF CutShort, Surveying, Blind, PutDown, Notices, Notified
<1>c. /\ notice \subseteq notice'
      /\ \A n \in notice : n \in Nat /\ n <= Len(said)
      /\ ~Mission!Tell => notice' = notice
  BY <1>0, NoticesGrow
<1>d. Len(said) \in Nat /\ NextLine = Len(said) + 1
  BY <1>0, SaysAre DEF NextLine
<1>e. put \subseteq put' /\ IsDown(put, notice) => IsDown(put', notice')
  BY <1>c
<1> HIDE DEF located, put, notice
<1>1. CASE Quiet
  <2>1. UNCHANGED <<op, offended>> /\ located' = located /\ put' = put
    BY <1>0, <1>1, QuietIs DEF AllUnsaid, Unsaid, located, put
  <2>2. Surveying' <=> Surveying
    BY <2>1 DEF Surveying
  <2>3. CASE notice' = notice
    BY <1>a, <1>b, <2>1, <2>2, <2>3
  <2>4. CASE Mission!Tell
    <3>1. FALSE
      BY <1>0, <1>1, <2>1, <2>4, TellIs, VehicleSilent, ReplyIs DEF Quiet, Mission!Tell, Same
    <3> QED
      BY <3>1
  <2> QED
    BY <1>c, <2>3, <2>4
<1>2. CASE Mission!Tell
  <2>1. offended' = offended /\ located' = located /\ put' = put
    BY <1>0, <1>2, TellIs DEF TellSays, Unsaid, located, put
  <2>2. Surveying => Surveying'
    BY <1>0, <1>2, ToldIs DEF Surveying
  <2>3. CASE notice # {}
    <3>1. IsBlind(located', notice') => IsBlind(located, notice)
      BY <1>c, <2>1
    <3> QED
      BY <1>a, <1>b, <1>e, <2>1, <2>2, <2>3, <3>1
  <2>4. CASE notice = {} /\ notice' # {}
    <3>1. \/ Pending /\ LocatedThen
          \/ Calm
          \/ Turned /\ located = {}
      BY <2>4, UnnotifiedIs, NotifiedIs DEF CutInv, notice, located
    <3>2. CASE Calm
      <4>1. Unsaid({"expired"}) /\ (scen = "H" => Unsaid({"back"}))
        BY <1>0, <1>2, <3>2, AroundIs, CalmKeeps
      <4>2. notice' = notice
        BY <1>0, <4>1, NoticesAre DEF Unsaid, notice
      <4> QED
        BY <2>4, <4>2
    <3>3. CASE Pending /\ LocatedThen
      <4>1. Cutting
        BY <3>3 DEF Pending, Cutting
      <4>2. op'.cancelled /\ op'.stage = op.stage
        BY <1>0, <1>2, <4>1, ToldIs
      <4>3. located # {} => Surveying'
        BY <3>3, <4>2 DEF LocatedThen, Surveying, located
      <4> QED
        BY <1>b, <2>1, <4>3
    <3>4. CASE Turned /\ located = {}
      BY <1>b, <2>1, <3>4
    <3> QED
      BY <3>1, <3>2, <3>3, <3>4
  <2>5. CASE notice' = {}
    BY <1>b, <2>5
  <2> QED
    BY <2>3, <2>4, <2>5
<1>3. CASE ~Mission!Tell /\ (Mission!Process \/ Mission!Advance)
  <2>1. offended' = offended /\ located' = located /\ put' = put
    <3>1. CASE Mission!Process
      BY <1>0, <3>1, ProcessIs, StartedTable, SilentTable
      DEF Opens, Declines, AllUnsaid, StartedAt, Unsaid, located, put
    <3>2. CASE Mission!Advance
      BY <1>0, <3>2, AdvanceIs, ForbiddenTable DEF ForbiddenAt, Unsaid, located, put, Forbidden
    <3> QED
      BY <1>3, <3>1, <3>2
  <2>2. ~Surveying
    BY <1>0, <1>3, ProcessIs, AdvanceIs DEF Surveying, Going, Mission!NoOp
  <2> QED
    BY <1>3, <1>a, <1>b, <1>c, <2>1, <2>2
<1>4. CASE ~Mission!Tell /\ Mission!Working
  <2>1. offended' = offended /\ put' = put /\ (located' = located \/ located' = located \cup {NextLine})
    BY <1>0, <1>4, WorkingIs, SilentTable, CaptureTable, ForbiddenTable
    DEF Works, AllUnsaid, CaptureAt, ForbiddenAt, Unsaid, located, put, Forbidden
  <2>2. ~Surveying
    BY <1>0, <1>4, WorkingIs DEF Surveying, Going, Works
  <2>3. notice' # {} /\ IsBlind(located', notice') => IsBlind(located, notice)
    BY <1>4, <1>c, <1>d, <2>1
  <2> QED
    BY <1>4, <1>a, <1>b, <1>c, <2>1, <2>2, <2>3
<1>5. CASE ~Mission!Tell /\ Mission!Stop
  <2>1. PICK kind \in Stops : Adds(kind, NextLine, LineOf(kind)) /\ (kind = "putdown" <=> op.stage \in Settling)
    BY <1>0, <1>5, StopIs
  <2>2. offended' = offended /\ located' = located /\ (kind = "putdown" => put' = put \cup {NextLine})
        /\ put \subseteq put'
    BY <1>0, <1>5, <2>1, StopIs, StopTable DEF StopAt, Unsaid, located, put
  <2>3. Surveying => kind = "putdown"
    BY <2>1 DEF Surveying, Settling
  <2>4. notice # {} /\ NextLine \in put' => IsDown(put', notice)
    BY <1>c, <1>d
  <2> QED
    BY <1>5, <1>a, <1>b, <1>c, <1>e, <2>2, <2>3, <2>4
<1>6. CASE Mission!GoOn
  <2>1. offended' # {}
    BY <1>0, <1>6, GoOnIs
  <2> QED
    BY <1>b, <2>1
<1> QED
  BY <1>0, <1>1, <1>2, <1>3, <1>4, <1>5, <1>6, Steps

LEMMA CutKeeps ==
  ASSUME Around, CutInv
  PROVE  CutInv'
<1>1. Pending' => Says(Cuts)' = {}
  BY AroundIs, WhereKeeps, NotTold DEF CutInv, Unsaid
<1> QED
  BY <1>1, WhereKeeps, UnnotifiedKeeps, CutShortKeeps DEF CutInv

LEMMA MarksKeep ==
  ASSUME Around, CutInv, MarksInv
  PROVE  MarksInv'
<1>1. flightMode' = flightMode
  <2>1. flightMode # "land" /\ NodeTyped /\ (Mission!Vehicle \/ Mission!Node)
    BY AroundIs DEF CutInv, Pending, Steady
  <2>2. CASE Mission!Vehicle
    BY <2>1, <2>2, VehicleIs
  <2>3. CASE Mission!Node
    BY <2>3 DEF Mission!Node, Mission!Tell, Mission!Process, Mission!Working, Mission!Does, Mission!Advance,
       Mission!Stop, Mission!AbortReply, Mission!GoOn, Mission!fcuVars
  <2> QED
    BY <2>1, <2>2, <2>3
<1> QED
  BY <1>1, AroundIs DEF MarksInv

LEMMA JudgeKeeps ==
  ASSUME Around, CutInv, JudgeInv
  PROVE  JudgeInv'
<1>0. /\ NodeTyped /\ MissionTyped /\ OpenAsTold /\ NodeInv /\ UNCHANGED <<scen, stage, h, notes>>
      /\ Mission!Vehicle \/ Mission!Node
      /\ h.noticed \in Nat
  BY AroundIs, TypesAre
<1>1. Decided /\ ~Notified => Calm' /\ ~Notified'
  <2> HAVE Decided /\ ~Notified
  <2>1. Calm
    BY DEF JudgeInv
  <2>2. Calm' /\ (Mission!Tell => Unsaid({"expired"}) /\ (scen = "H" => Unsaid({"back"})))
    BY <1>0, <2>1, CalmKeeps
  <2>3. Notices' = Notices
    BY <1>0, <2>2, NoticesAre, NoticesGrow DEF Unsaid
  <2> QED
    BY <2>2, <2>3 DEF Notified, Notices
<1>2. Decided' <=> Decided
  BY <1>0 DEF Decided
<1>3. Notified => Notified'
  BY <1>0, NoticesGrow DEF Notified, Notices
<1>4. offended # {} => offended' # {}
  BY <1>0, QuietIs, TellIs, ProcessIs, WorkingIs, AdvanceIs, StopIs, GoOnIs, Steps DEF Works
<1>5. /\ Decided' /\ ~Notified' => Calm'
      /\ notes' \cap Charges # {} => stage' \in {"grace", "after"} /\ (offended' # {} \/ ~Notified')
  BY <1>0, <1>1, <1>2, <1>3, <1>4 DEF JudgeInv, Decided
<1>6. ASSUME stage' = "grace"
      PROVE  Notified' /\ Blind' /\ \A n \in Notices' : h'.noticed < n
  <2>1. /\ Notices # {} /\ \A n \in Notices : h.noticed < n
        /\ \E i \in Says({"localized"}) : \A n \in Notices : i < n
    BY <1>0, <1>6, NotifiedIs, CutShortIs DEF JudgeInv, Notices
  <2>2. /\ Notices \subseteq Notices'
        /\ \A n \in Notices' : n \in Notices \/ (n \in Nat /\ n > Len(said))
        /\ \A n \in Notices : n \in Nat /\ n <= Len(said)
    BY <1>0, NoticesGrow
  <2>3. Says({"localized"}) \subseteq Says({"localized"})' /\ \A i \in Says({"localized"}) : i \in Nat /\ i <= Len(said)
    BY <1>0, LogGrows, Sets, Before DEF Later
  <2>4. Len(said) \in Nat
    BY <1>0, SaysAre
  <2>5. \A n \in Notices' : h.noticed < n
    BY <1>0, <2>1, <2>2, <2>4
  <2>6. \E i \in Says({"localized"})' : \A n \in Notices' : i < n
    BY <2>1, <2>2, <2>3, <2>4
  <2> QED
    BY <1>0, <2>1, <2>2, <2>5, <2>6 DEF Notified, Blind, Notices
<1> QED
  BY <1>5, <1>6 DEF JudgeInv, Notices

LEMMA PassKeeps ==
  ASSUME Around, OwnInv, PassInv
  PROVE  PassInv'
<1>0. NodeTyped /\ NodeInv /\ UNCHANGED <<scen, stage, h, notes>> /\ (Mission!Vehicle \/ Mission!Node)
  BY AroundIs
<1>1. Stopped => Stopped'
  BY StoppedStays
<1>2. Stopped => offended' = offended
  <2>1. ASSUME Stopped, Mission!GoOn PROVE FALSE
    <3>1. op.cancelled
      BY <1>0, <2>1, GoOnIs
    <3> QED
      BY <2>1, <3>1 DEF OwnInv, OwnCut, OwnClosed, Mission!NoOp
  <2> QED
    BY <1>0, <2>1, QuietIs, TellIs, ProcessIs, WorkingIs, AdvanceIs, StopIs, Steps DEF Works
<1> QED
  BY <1>0, <1>1, <1>2 DEF PassInv

BehindInv == OwnInv /\ CutInv /\ MarksInv /\ JudgeInv /\ PassInv
LEMMA BehindKeeps ==
  ASSUME Around, BehindInv
  PROVE  BehindInv'
BY OwnKeeps, CutKeeps, MarksKeep, JudgeKeeps, PassKeeps DEF BehindInv

LEMMA Ranks ==
  /\ RankOf("asked") = 0 /\ RankOf("capture") = 1 /\ RankOf("gate") = 2 /\ RankOf("advance") = 2
  /\ RankOf("survey") = 3 /\ RankOf("settled") = 4
BY DEF RankOf

LEMMA RankIs == \A s \in Stages : RankOf(s) \in 0 .. 4 /\ (RankOf(s) = 0 => s = "asked")
BY DEF RankOf

LEMMA WorksRank ==
  ASSUME NodeTyped, Mission!Working
  PROVE  /\ Going /\ Going' /\ op'.id = op.id /\ op'.item = op.item
         /\ RankOf(op'.stage) <= RankOf(op.stage) + 1
         /\ op'.stage # "asked"
<1>1. \E from, to : Works(from, to) /\ RankOf(to) <= RankOf(from) + 1 /\ to # "asked"
  BY WorkingIs, Ranks
<1> QED
  BY <1>1 DEF Works

(* A step of the node is one step further.                                 *)
LEMMA OpenGrows ==
  ASSUME Around, Steady, NEW n \in Nat, OpenWithin(n)
  PROVE  Within(n + 1)'
<1>0. /\ NodeTyped /\ OpenAsTold /\ NodeInv /\ h' = h /\ (Mission!Vehicle \/ Mission!Node) /\ op.stage \in Stages
      /\ Going /\ op.id = h.op /\ op.item = h.item /\ RankOf(op.stage) <= n /\ RankOf(op.stage) \in 0 .. 4
      /\ op.item \in Int /\ h.item \in Int /\ cursor \in Int
  BY AroundIs, TypesAre, RankIs DEF OpenWithin
<1>1. CASE Quiet
  <2>1. op' = op
    BY <1>0, <1>1, QuietIs
  <2> QED
    BY <1>0, <2>1 DEF Within, OpenWithin, Going
<1>2. CASE Mission!Tell
  <2>1. op' = op
    BY <1>0, <1>2, ToldIs DEF Steady, Cutting
  <2> QED
    BY <1>0, <2>1 DEF Within, OpenWithin, Going
<1>3. CASE Mission!Process \/ Mission!Stop \/ Mission!GoOn
  BY <1>0, <1>3, ProcessIs, StopIs, GoOnIs DEF Going
<1>4. CASE Mission!Working
  <2>1. /\ Going' /\ op'.id = op.id /\ op'.item = op.item
        /\ RankOf(op'.stage) <= RankOf(op.stage) + 1
        /\ op'.stage \in Stages
    BY <1>0, <1>4, WorksRank, WorkingIs DEF Works, Stages
  <2>2. RankOf(op'.stage) <= n + 1
    BY <1>0, <2>1, RankIs
  <2> QED
    BY <1>0, <2>1, <2>2 DEF Within, OpenWithin
<1>5. CASE Mission!Advance
  <2>1. op.stage = "advance" /\ op' = Mission!NoOp /\ at' = Mission!Way(op.item + 1) /\ UNCHANGED <<told, cursor>>
    BY <1>0, <1>5, AdvanceIs
  <2>2. n + 1 >= 3
    BY <1>0, <2>1, Ranks
  <2>3. told.at = Mission!Hold(op.item) /\ told.mode = "mission" /\ op.item <= cursor
    BY <1>0 DEF OpenAsTold, Going, Steady
  <2>4. cursor' >= h'.item /\ told'.at = Mission!Hold(h'.item) /\ at' = Mission!Way(h'.item + 1) /\ told'.mode = "mission"
    BY <1>0, <2>1, <2>3
  <2> QED
    BY <2>1, <2>2, <2>4 DEF Within, ClosedWithin, Mission!Hold, Mission!Way
<1> QED
  BY <1>0, <1>1, <1>2, <1>3, <1>4, <1>5, Steps

LEMMA ClosedGrows ==
  ASSUME Around, Steady, flightMode = "mission", h.item >= 1, NEW n \in 0 .. 3, ClosedWithin(n)
  PROVE  Within(n + 1)' /\ ~Backward
<1>0. /\ NodeTyped /\ OpenAsTold /\ h' = h /\ (Mission!Vehicle \/ Mission!Node)
      /\ op = Mission!NoOp /\ cursor >= h.item /\ told.mode = "mission"
      /\ n = 3 /\ told.at = Mission!Hold(h.item) /\ at = Mission!Way(h.item + 1)
      /\ cursor \in Int /\ h.item \in Int /\ at \in Int /\ told.at \in Int
  BY AroundIs, TypesAre DEF ClosedWithin
<1>a. ~Backward
  BY <1>0 DEF Backward, Mission!Hold, Mission!Way
<1>b. ASSUME UNCHANGED <<told, at, op>>, cursor' >= cursor, cursor' \in Int
      PROVE  Within(n + 1)'
  <2>1. /\ op' = Mission!NoOp /\ cursor' >= h'.item /\ told'.mode = "mission" /\ n + 1 >= 3
        /\ told'.at = Mission!Hold(h'.item) /\ at' = Mission!Way(h'.item + 1)
    BY <1>0, <1>b
  <2> QED
    BY <2>1 DEF Within, ClosedWithin, Mission!Hold, Mission!Way
<1>c. ASSUME op' = Mission!NoOp, cursor' = cursor, told'.mode = "mission",
             told'.at < Mission!Hold(h.item + 1),
             at' = Mission!Way(h.item + 1) \/ at' = Mission!Hold(h.item + 1)
      PROVE  Within(n + 1)'
  <2>1. n + 1 >= 4 /\ cursor' >= h'.item
    BY <1>0, <1>c
  <2>2. told'.at < Mission!Hold(h'.item + 1) /\ at' \in {Mission!Way(h'.item + 1), Mission!Hold(h'.item + 1)}
    BY <1>0, <1>c
  <2> QED
    BY <1>c, <2>1, <2>2 DEF Within, ClosedWithin, Mission!Hold, Mission!Way
<1>1. CASE Mission!Vehicle
  <2>1. UNCHANGED <<told, cursor, op>> /\ (at' = at + 1 \/ at = 0)
    BY <1>0, <1>1, VehicleIs DEF Mission!nodeVars
  <2>2. told.at < Mission!Hold(h.item + 1) /\ (at # 0 => at' = Mission!Hold(h.item + 1))
    BY <1>0, <2>1 DEF Mission!Hold, Mission!Way
  <2>3. at # 0
    BY <1>0 DEF Mission!Way
  <2> QED
    BY <1>0, <1>a, <1>c, <2>1, <2>2, <2>3
<1>2. CASE Mission!Tell
  <2>1. op' = op /\ cursor' = cursor /\ told'.at = at /\ told'.mode = flightMode /\ at' = at
    BY <1>0, <1>a, <1>2, TellIs, ToldIs DEF Cutting, Going
  <2>2. told'.at < Mission!Hold(h.item + 1)
    BY <1>0, <2>1 DEF Mission!Hold, Mission!Way
  <2> QED
    BY <1>0, <1>a, <1>c, <2>1, <2>2
<1>3. CASE Mission!Process
  <2>1. cursor' = cursor + 1 /\ UNCHANGED <<told, at>> /\ (Opens \/ Declines)
    BY <1>0, <1>3, ProcessIs
  <2>2. ~Opens
    BY <1>0 DEF Opens, Mission!Hold
  <2> QED
    BY <1>0, <1>a, <1>b, <2>1, <2>2 DEF Declines
<1>4. CASE Mission!Working \/ Mission!Advance \/ Mission!Stop \/ Mission!GoOn
  BY <1>0, <1>4, WorkingIs, AdvanceIs, StopIs, GoOnIs DEF Works, Going, Mission!NoOp
<1>5. CASE Mission!AbortReply
  BY <1>0, <1>a, <1>b, <1>5, ReplyIs DEF Same
<1> QED
  BY <1>a, <1>0, <1>1, <1>2, <1>3, <1>4, <1>5 DEF Mission!Node

LEMMA WithinGrows ==
  ASSUME Around, Steady, flightMode = "mission", h.item >= 1, NEW n \in 0 .. 3, Within(n)
  PROVE  Within(n + 1)' /\ ~Backward
<1>1. CASE OpenWithin(n)
  <2>1. Within(n + 1)'
    BY <1>1, OpenGrows
  <2>2. ~Backward
    BY <1>1, AroundIs, BackCuts DEF OpenWithin, Steady, Cutting
  <2> QED
    BY <2>1, <2>2
<1> QED
  BY <1>1, ClosedGrows DEF Within

LEMMA OnlyOpens ==
  ASSUME NodeTyped, Mission!Vehicle \/ Mission!Node
  PROVE  Unsaid({"started"}) \/ (Mission!Process /\ Opens)
<1>1. CASE Quiet \/ Mission!Tell
  BY <1>1, QuietIs, TellIs DEF AllUnsaid, TellSays
<1>2. CASE Mission!Process
  BY <1>2, ProcessIs, SilentTable DEF Declines, AllUnsaid
<1>3. CASE Mission!Working \/ Mission!Advance \/ Mission!GoOn
  <2>1. \/ AllUnsaid
        \/ \E n : CaptureAt(n)
        \/ \E kind \in Forbidden : \E n : ForbiddenAt(kind, n)
    BY <1>3, WorkingIs, AdvanceIs, GoOnIs, CaptureTable, SilentTable, ForbiddenTable DEF Forbidden
  <2> QED
    BY <2>1 DEF AllUnsaid, CaptureAt, ForbiddenAt
<1>4. CASE Mission!Stop
  BY <1>4, StopIs, StopTable DEF StopAt
<1> QED
  BY <1>1, <1>2, <1>3, <1>4, Steps

LEMMA AwaitedStarts ==
  /\ stage = "seek" =>
       Mission!Awaited = {i \in Says({"started"}) : said[i].item >= Mission!MinItem}
  /\ stage' = "seek" =>
       Mission!Awaited' = {i \in Says({"started"})' : said'[i].item >= Mission!MinItem'}
BY DEF Mission!Awaited, Says

LEMMA AwaitedCaptures ==
  /\ stage = "fired" =>
       Mission!Awaited = {i \in Says({"capture"}) : said[i].op = h.op}
  /\ stage' = "fired" =>
       Mission!Awaited' = {i \in Says({"capture"})' : said'[i].op = h'.op}
BY DEF Mission!Awaited, Says, Mission!OfOp

Hasty == Lag <= 1 /\ late \in 0 .. 1 /\ Mission!Surroundings
LEMMA LateIs ==
  ASSUME Hasty
  PROVE  /\ late' \in 0 .. 1
         /\ stage \in {"seek", "fired"} =>
              \/ Mission!Awaited # {} /\ late = 0 /\ late' = 1
              \/ Mission!Awaited = {} /\ late' = 0
         /\ stage \in {"mark", "interrupt"} => late = 0 /\ late' = 1
<1>1. late' = (IF Mission!Sleeps \/ Mission!Waits THEN 0 ELSE late + 1) /\ late' <= Lag /\ Lag \in Nat
  BY MissionAssumption DEF Hasty, Mission!Surroundings
<1>2. /\ stage \in {"seek", "fired"} => ~Mission!Sleeps /\ (Mission!Waits <=> Mission!Awaited = {})
      /\ stage \in {"mark", "interrupt"} => ~Mission!Sleeps /\ ~Mission!Waits
  BY DEF Mission!Sleeps, Mission!Waits, Mission!Hit
<1> QED
  BY <1>1, <1>2 DEF Hasty

LEMMA MinItemStays == scen' = scen => Mission!MinItem' = Mission!MinItem
BY DEF Mission!MinItem

LEMMA SeekKeeps ==
  ASSUME Around, Hasty, Steady, ~op.cancelled, SeekInv
  PROVE  SeekInv'
<1>1. SUFFICES ASSUME stage = "seek" PROVE SeekInv'
  BY AroundIs DEF SeekInv
<1>0. /\ NodeTyped /\ (Mission!Vehicle \/ Mission!Node) /\ stage' = "seek" /\ op.stage \in Stages
      /\ Mission!MinItem' = Mission!MinItem
  BY <1>1, AroundIs, TypesAre, MinItemStays
<1> DEFINE starts == Says({"started"})
           wanted == Mission!Awaited
           min == Mission!MinItem
           Right(i) == /\ Going /\ said[i].op = op.id /\ said[i].item = op.item /\ RankOf(op.stage) <= late
                       /\ op.stage # "asked" => \E k \in Says({"capture"}) : said[k].op = op.id
           RightThen(i) ==
             /\ Going' /\ said'[i].op = op'.id /\ said'[i].item = op'.item /\ RankOf(op'.stage) <= late'
             /\ op'.stage # "asked" => \E k \in Says({"capture"})' : said'[k].op = op'.id
<1>2. /\ wanted = {i \in starts : said[i].item >= min}
      /\ wanted' = {i \in starts' : said'[i].item >= min}
  BY <1>0, <1>1, AwaitedStarts
<1>3. \A i \in wanted : Right(i)
  BY <1>1 DEF SeekInv
<1>4. SUFFICES ASSUME NEW i \in wanted' PROVE RightThen(i)
  BY <1>0 DEF SeekInv
<1>5. \A j \in starts : j \in 1 .. Len(said) /\ said'[j] = said[j]
  BY <1>0, SaysAre, LogGrows DEF Old
<1>6. CASE starts' = starts
  <2>1. i \in wanted /\ said'[i] = said[i]
    BY <1>2, <1>4, <1>5, <1>6
  <2>2. /\ Going /\ said[i].op = op.id /\ said[i].item = op.item /\ RankOf(op.stage) <= late
        /\ late = 0 /\ late' = 1
    BY <1>1, <1>3, <2>1, LateIs
  <2>3. op.stage = "asked" /\ RankOf("asked") = 0 /\ RankOf("capture") = 1
    BY <1>0, <2>2, RankIs, Ranks
  <2>4. ASSUME op' = op PROVE RightThen(i)
    BY <2>1, <2>2, <2>3, <2>4 DEF Going
  <2>5. CASE Mission!Working
    <3>1. Works("asked", "capture") /\ Adds("capture", NextLine, LineOf("capture"))
      BY <1>0, <2>3, <2>5, WorkingIs DEF Works
    <3>2. NextLine \in Says({"capture"})' /\ said'[NextLine] = LineOf("capture")
      BY <3>1, CaptureTable DEF CaptureAt, Adds
    <3>3. LineOf("capture").op = op.id
      BY DEF LineOf
    <3>4. Going' /\ op'.stage = "capture" /\ op'.id = op.id /\ op'.item = op.item
      BY <3>1 DEF Works
    <3> QED
      BY <2>1, <2>2, <2>3, <3>2, <3>3, <3>4
  <2>6. CASE Quiet \/ Mission!Tell
    <3>1. op' = op
      BY <1>0, <2>6, QuietIs, ToldIs DEF Steady, Cutting
    <3> QED
      BY <2>4, <3>1
  <2>7. CASE Mission!Process \/ Mission!Advance \/ Mission!Stop \/ Mission!GoOn
    BY <1>0, <2>2, <2>3, <2>7, ProcessIs, AdvanceIs, StopIs, GoOnIs DEF Going
  <2> QED
    BY <1>0, <2>5, <2>6, <2>7, Steps
<1>7. CASE Mission!Process /\ Opens
  <2>1. op = Mission!NoOp
    BY <1>0, <1>7, ProcessIs
  <2>2. wanted = {}
    BY <1>3, <2>1 DEF Going
  <2>3. late' = 0
    BY <1>1, <2>2, LateIs
  <2>4. starts' = starts \cup {Len(said) + 2}
    BY <1>7, StartedTable DEF Opens, StartedAt
  <2>5. i = Len(said) + 2
    BY <1>2, <1>4, <1>5, <2>2, <2>4
  <2>6. /\ said'[i].op = opened + 1 /\ said'[i].item = cursor + 1
        /\ op'.id = opened + 1 /\ op'.item = cursor + 1 /\ op'.stage = "asked" /\ op'.cancelled = FALSE
    BY <1>7, <2>5 DEF Opens, Adds
  <2>7. Going'
    <3>1. Mission!NoOp.stage = "none"
      BY DEF Mission!NoOp
    <3> QED
      BY <2>6, <3>1 DEF Going
  <2> QED
    BY <2>3, <2>6, <2>7, Ranks
<1> QED
  BY <1>0, <1>6, <1>7, OnlyOpens DEF Unsaid

LEMMA NotClosed ==
  ASSUME NEW n \in 0 .. 2, Within(n)
  PROVE  OpenWithin(n)
BY DEF Within, ClosedWithin

LEMMA FiredKeeps ==
  ASSUME Around, Hasty, Steady, flightMode = "mission", h.item >= 1, FiredInv
  PROVE  FiredInv'
<1>1. SUFFICES ASSUME stage = "fired" PROVE FiredInv'
  BY AroundIs DEF FiredInv
<1>0. /\ NodeTyped /\ (Mission!Vehicle \/ Mission!Node) /\ stage' = "fired" /\ op.stage \in Stages
      /\ h' = h /\ late \in 0 .. 1 /\ late' \in 0 .. 1
  BY <1>1, AroundIs, TypesAre, LateIs DEF Hasty
<1>2. PICK m \in 0 .. 1 : late = m
  BY <1>0
<1>3. Within(m + 1)
  BY <1>1, <1>2 DEF FiredInv
<1>4. OpenWithin(m + 1)
  <2>1. m + 1 \in 0 .. 2
    BY <1>2
  <2> QED
    BY <1>3, <2>1, NotClosed
<1>5. Going /\ op.id = h.op /\ op.item = h.item /\ RankOf(op.stage) <= m + 1
  BY <1>4 DEF OpenWithin
<1> DEFINE taken == Says({"capture"})
<1>6. op.stage # "asked" => \E k \in taken : said[k].op = h.op
  BY <1>1, <1>5 DEF FiredInv
<1>7. (\E k \in taken : said[k].op = h.op) => \E k \in taken' : said'[k].op = h.op
  <2>1. taken \subseteq taken' /\ \A k \in taken : k \in 1 .. Len(said) /\ said'[k] = said[k]
    BY <1>0, LogGrows, Sets, SaysAre DEF Later, Old
  <2> QED
    BY <2>1
<1>8. CASE Mission!Awaited # {}
  <2>1. m = 0 /\ late' = 1 /\ late = 0
    BY <1>1, <1>2, <1>8, LateIs
  <2>2. Within(2)'
    <3>1. Within(1) /\ 1 \in 0 .. 3 /\ 1 + 1 = 2
      BY <1>3, <2>1
    <3>2. Within(1 + 1)'
      BY <3>1, WithinGrows
    <3> QED
      BY <3>1, <3>2
  <2>3. \E k \in taken : said[k].op = h.op
    BY <1>1, <1>8, AwaitedCaptures
  <2>4. \A n \in 0 .. 1 : late' = n => n = 1
    BY <2>1
  <2>5. \A n \in 0 .. 1 : late' = n => Within(n + 1)'
    BY <2>2, <2>4
  <2> QED
    BY <1>0, <1>7, <2>3, <2>5 DEF FiredInv
<1>9. CASE Mission!Awaited = {}
  <2>1. late' = 0
    BY <1>1, <1>9, LateIs
  <2>2. op.stage = "asked"
    BY <1>1, <1>6, <1>9, AwaitedCaptures
  <2>3. /\ Going' => op'.id = h.op
        /\ Within(1)'
        /\ op'.stage # "asked" /\ Going' => \E k \in taken' : said'[k].op = h.op
    <3>1. CASE op' = op
      <4>1. Going' /\ op'.id = h'.op /\ op'.item = h'.item /\ RankOf(op'.stage) <= 1
        BY <1>0, <1>5, <2>2, <3>1, Ranks DEF Going
      <4> QED
        BY <2>2, <3>1, <4>1, <1>0 DEF Within, OpenWithin
    <3>2. CASE Mission!Working
      <4>1. Works("asked", "capture") /\ Adds("capture", NextLine, LineOf("capture"))
        BY <1>0, <2>2, <3>2, WorkingIs DEF Works
      <4>2. NextLine \in taken' /\ said'[NextLine] = LineOf("capture")
        BY <4>1, CaptureTable DEF CaptureAt, Adds
      <4>3. LineOf("capture").op = op.id
        BY DEF LineOf
      <4>4. Going' /\ op'.stage = "capture" /\ op'.id = op.id /\ op'.item = op.item
        BY <4>1 DEF Works
      <4>5. Within(1)'
        BY <1>0, <1>5, <4>4, Ranks DEF Within, OpenWithin
      <4> QED
        BY <1>5, <4>2, <4>3, <4>4, <4>5
    <3>3. CASE Quiet \/ Mission!Tell
      <4>1. op' = op
        BY <1>0, <3>3, QuietIs, ToldIs DEF Steady, Cutting
      <4> QED
        BY <3>1, <4>1
    <3>4. CASE Mission!Process \/ Mission!Advance \/ Mission!Stop \/ Mission!GoOn
      BY <1>0, <1>5, <2>2, <3>4, ProcessIs, AdvanceIs, StopIs, GoOnIs DEF Going
    <3> QED
      BY <1>0, <3>2, <3>3, <3>4, Steps
  <2>4. \A n \in 0 .. 1 : late' = n => n = 0
    BY <2>1
  <2>5. \A n \in 0 .. 1 : late' = n => Within(n + 1)'
    <3>1. 0 + 1 = 1
      OBVIOUS
    <3> QED
      BY <2>3, <2>4, <3>1
  <2> QED
    BY <1>0, <2>3, <2>5 DEF FiredInv
<1> QED
  BY <1>8, <1>9

LEMMA NothingKeeps ==
  ASSUME Around, Hasty, Steady, ~op.cancelled, ~Backward, stage = "interrupt", NothingYet
  PROVE  NothingYet'
<1>0. NodeTyped /\ (Mission!Vehicle \/ Mission!Node) /\ late = 0 /\ late' = 1
  BY AroundIs, LateIs
<1>1. /\ Says(Cuts) = {} /\ Says(Stops) = {} /\ offended = {} /\ Says({"localized"}) = {}
  BY <1>0, Both DEF NothingYet
<1>2. Says(Cuts)' = {}
  <2>1. CASE Mission!Tell
    <3>1. Unsaid({"expired"}) /\ Unsaid({"back"})
      BY <1>0, <2>1, TellIs DEF Steady, Cutting, TellSays
    <3> QED
      BY <1>1, <3>1, Both DEF Unsaid, Cuts
  <2>2. CASE ~Mission!Tell
    BY <1>0, <1>1, <2>2, NotTold DEF Unsaid
  <2> QED
    BY <2>1, <2>2
<1>3. /\ ~Mission!Stop /\ ~Mission!GoOn
  BY <1>0, StopIs, GoOnIs
<1>4. /\ Says(Stops)' = {} /\ offended' = {}
      /\ Says({"localized"})' # {} => Going' /\ op'.stage = "survey"
  <2>1. CASE Quiet
    BY <1>0, <1>1, <2>1, QuietIs DEF AllUnsaid, Unsaid
  <2>2. CASE Mission!Tell
    BY <1>0, <1>1, <2>2, TellIs DEF TellSays, Unsaid
  <2>3. CASE Mission!Process
    BY <1>0, <1>1, <2>3, ProcessIs, StartedTable, SilentTable DEF Opens, Declines, AllUnsaid, StartedAt, Unsaid
  <2>4. CASE Mission!Advance
    BY <1>0, <1>1, <2>4, AdvanceIs, ForbiddenTable DEF ForbiddenAt, Unsaid, Forbidden
  <2>5. CASE Mission!Working
    <3>1. \/ Works("gate", "survey") /\ Adds("localized", NextLine, LineOf("localized"))
          \/ /\ \E from, to : Works(from, to)
             /\ \/ Silent
                \/ Adds("capture", NextLine, LineOf("capture"))
                \/ Adds("succeeded", NextLine, LineOf("succeeded"))
      BY <1>0, <2>5, WorkingIs
    <3>2. offended' = offended
      BY <3>1 DEF Works
    <3>3. CASE Works("gate", "survey") /\ Adds("localized", NextLine, LineOf("localized"))
      BY <1>1, <3>2, <3>3, ForbiddenTable DEF Works, ForbiddenAt, Unsaid, Forbidden
    <3>4. CASE Silent \/ Adds("capture", NextLine, LineOf("capture")) \/ Adds("succeeded", NextLine, LineOf("succeeded"))
      BY <1>1, <3>2, <3>4, SilentTable, CaptureTable, ForbiddenTable
      DEF AllUnsaid, CaptureAt, ForbiddenAt, Unsaid, Forbidden
    <3> QED
      BY <3>1, <3>3, <3>4
  <2> QED
    BY <1>0, <1>3, <2>1, <2>2, <2>3, <2>4, <2>5, Steps
<1>5. Says(Cuts \cup Stops)' = {}
  BY <1>2, <1>4, Both
<1> QED
  BY <1>0, <1>4, <1>5 DEF NothingYet

LEMMA FollowKeeps ==
  ASSUME Around, Hasty, stage \in Follow, FollowInv
  PROVE  FollowInv'
<1>0. /\ NodeTyped /\ MissionTyped /\ OpenAsTold /\ NodeInv /\ (Mission!Vehicle \/ Mission!Node)
      /\ UNCHANGED <<h, scen, stage>> /\ Steady /\ ~op.cancelled /\ flightMode = "mission"
      /\ opened \in Int /\ h.op \in Int /\ late \in 0 .. 1
  BY AroundIs, TypesAre DEF FollowInv, Hasty
<1>1. Steady' /\ flightMode' = "mission"
  <2>1. CASE Mission!Vehicle
    BY <1>0, <2>1, VehicleIs, SteadyKeeps
  <2>2. CASE Mission!Node
    BY <1>0, <2>2, SteadyKeeps
    DEF Mission!Node, Mission!Tell, Mission!Process, Mission!Working, Mission!Does, Mission!Advance,
       Mission!Stop, Mission!AbortReply, Mission!GoOn, Mission!fcuVars
  <2> QED
    BY <1>0, <2>1, <2>2
<1>2. ~op'.cancelled /\ opened' >= opened /\ opened' \in Int
  <2>1. Mission!NoOp.cancelled = FALSE
    BY DEF Mission!NoOp
  <2>2. CASE Quiet \/ Mission!Tell
    BY <1>0, <2>2, QuietIs, ToldIs, TellIs DEF Steady, Cutting
  <2>3. CASE Mission!Process
    BY <1>0, <2>3, ProcessIs DEF Opens, Declines
  <2>4. CASE Mission!Working \/ Mission!Advance
    <3>1. ~op'.cancelled
      BY <1>0, <2>1, <2>4, WorkingIs, AdvanceIs DEF Works
    <3>2. opened' = opened
      BY <2>4 DEF Mission!Working, Mission!Does, Mission!Advance
    <3> QED
      BY <1>0, <3>1, <3>2
  <2>5. CASE Mission!Stop \/ Mission!GoOn
    BY <1>0, <2>5, StopIs, GoOnIs
  <2> QED
    BY <1>0, <2>2, <2>3, <2>4, <2>5, Steps
<1>3. stage \in {"fired", "mark", "interrupt"} => h.item >= 1
  BY DEF FollowInv, Mission!Points
<1>4. SeekInv'
  BY <1>0, SeekKeeps DEF FollowInv
<1>5. FiredInv'
  BY <1>0, <1>3, FiredKeeps DEF FollowInv, FiredInv
<1>6. stage' \in {"fired", "mark", "interrupt"} =>
        h'.op <= opened' /\ h'.item \in Mission!Points' /\ (scen' = "H" => h'.item >= Captures)
  BY <1>0, <1>2 DEF FollowInv, Mission!Points
<1>7. stage = "mark" => \A n \in 0 .. 1 : late' = n => Within(n + 2)'
  <2> HAVE stage = "mark"
  <2>1. late = 0 /\ late' = 1
    BY LateIs
  <2>2. Within(0 + 2) /\ 0 + 2 = 2 /\ 2 \in 0 .. 3
    BY <2>1 DEF FollowInv
  <2>3. Within(2 + 1)'
    BY <1>0, <1>3, <2>2, WithinGrows
  <2>4. \A n \in 0 .. 1 : late' = n => n + 2 = 2 + 1
    BY <2>1
  <2> QED
    BY <2>3, <2>4
<1>8. stage = "interrupt" => (\A n \in 0 .. 1 : late' = n => Within(n + 3)') /\ NothingYet'
  <2> HAVE stage = "interrupt"
  <2>1. late = 0 /\ late' = 1
    BY LateIs
  <2>2. Within(0 + 3) /\ 0 + 3 = 3 /\ 3 \in 0 .. 3 /\ NothingYet
    BY <2>1 DEF FollowInv
  <2>3. Within(3 + 1)' /\ ~Backward
    BY <1>0, <1>3, <2>2, WithinGrows
  <2>4. \A n \in 0 .. 1 : late' = n => n + 3 = 3 + 1
    BY <2>1
  <2>5. NothingYet'
    BY <1>0, <2>2, <2>3, NothingKeeps
  <2> QED
    BY <2>3, <2>4, <2>5
<1> QED
  BY <1>0, <1>1, <1>2, <1>4, <1>5, <1>6, <1>7, <1>8 DEF FollowInv

LEMMA EarlyKeeps ==
  ASSUME Around, EarlyInv
  PROVE  EarlyInv'
<1>0. /\ NodeTyped /\ (Mission!Vehicle \/ Mission!Node) /\ op = Mission!NoOp /\ ~op.cancelled
      /\ told.mode # "mission" /\ flightMode # "mission" /\ Says({"started"}) = {}
  BY AroundIs DEF EarlyInv, Mission!NoOp
<1>1. CASE Quiet
  <2>1. UNCHANGED <<op, told>> /\ Unsaid({"started"})
    BY <1>0, <1>1, QuietIs DEF AllUnsaid
  <2>2. flightMode' \in {flightMode, "hold"}
    BY <1>1 DEF Quiet, Mission!Vehicle, Mission!Reach, Mission!Carried, Mission!Landed, Mission!AbortReply,
       Mission!fcuVars
  <2> QED
    BY <1>0, <2>1, <2>2 DEF EarlyInv, Unsaid
<1>2. CASE Mission!Tell
  <2>1. op' = op /\ told'.mode = flightMode /\ flightMode' = flightMode /\ Unsaid({"started"})
    BY <1>0, <1>2, TellIs, ToldIs DEF Cutting, Going, TellSays
  <2> QED
    BY <1>0, <2>1 DEF EarlyInv, Unsaid
<1>3. CASE Mission!Process \/ Mission!Working \/ Mission!Advance \/ Mission!Stop \/ Mission!GoOn
  BY <1>0, <1>3, ProcessIs, WorkingIs, AdvanceIs, StopIs, GoOnIs DEF Works, Going
<1> QED
  BY <1>0, <1>1, <1>2, <1>3, Steps

LEMMA AroundKeeps ==
  ASSUME MissionTyped, OpenAsTold, CheckInv, Lag <= 1, Mission!Surroundings
  PROVE  CheckInv'
<1>1. stage # "done" /\ UNCHANGED <<scen, stage, h, notes, verdict>> /\ (Mission!Vehicle \/ Mission!Node)
  BY DEF Mission!Surroundings, Mission!harnessVars
<1>2. Around /\ Hasty /\ verdict = "none"
  BY <1>1 DEF Around, Hasty, CheckInv
<1>3. late' \in 0 .. 1
  BY <1>2, LateIs
<1>4. LogInv'
  BY <1>1, LogKeeps DEF CheckInv
<1>5. /\ stage \in Early => EarlyInv'
      /\ stage \in Follow => FollowInv'
      /\ stage \in Behind => BehindInv'
  BY <1>2, EarlyKeeps, FollowKeeps, BehindKeeps DEF CheckInv, BehindInv
<1> QED
  BY <1>1, <1>2, <1>3, <1>4, <1>5 DEF CheckInv, BehindInv, Fresh

LEMMA LogSame ==
  ASSUME LogInv, UNCHANGED <<said, offended, op, opened>>
  PROVE  LogInv'
BY DEF LogInv, CutStays, OffenceNoted, NodeInv, Going, Says, Mission!Lines, Mission!Points

LEMMA Forgotten ==
  ASSUME LogInv, Mission!Forget, UNCHANGED <<op, opened>>
  PROVE  LogInv' /\ said' = <<>> /\ offended' = {} /\ \A K : Says(K)' = {}
<1>1. said' = <<>> /\ offended' = {}
  BY DEF Mission!Forget
<1>2. \A K : Says(K)' = {}
  <2>1. Len(said') = 0
    BY <1>1
  <2> QED
    BY <2>1 DEF Says, Mission!Lines
<1> QED
  BY <1>1, <1>2 DEF LogInv, CutStays, OffenceNoted, NodeInv, Mission!Points

LEMMA GivenUp ==
  ASSUME Mission!Report(FALSE), late' = 0, notes = {}
  PROVE  CheckInv'
<1>1. stage' = "done" /\ verdict' = "fail" /\ notes' = {} /\ late' \in 0 .. 1
  BY DEF Mission!Report
<1>2. Mission!FairlyJudged' /\ Mission!PassMeans'
  BY <1>1 DEF Mission!FairlyJudged, Mission!PassMeans
<1> QED
  BY <1>1, <1>2 DEF CheckInv, Early, Follow, Behind

LEMMA EarlyOn ==
  ASSUME stage' \in Early, late' = 0, LogInv', verdict' = "none", EarlyInv', notes' = {}, h'.mark_no = 1
  PROVE  CheckInv'
BY DEF CheckInv, Early, Follow, Behind, Fresh

LEMMA EarlySame ==
  ASSUME EarlyInv, UNCHANGED <<said, op, told>>, flightMode' \in {flightMode, "hold", "land"}
  PROVE  EarlyInv'
BY DEF EarlyInv, Says, Mission!Lines

LEMMA HIs ==
  ASSUME MissionTyped
  PROVE  \A x : /\ [h EXCEPT !.tries = x].mark_no = h.mark_no /\ [h EXCEPT !.aloft = x].mark_no = h.mark_no
                /\ [h EXCEPT !.tries = x].op = h.op /\ [h EXCEPT !.tries = x].item = h.item
                /\ [h EXCEPT !.from = x].op = h.op /\ [h EXCEPT !.from = x].item = h.item
                /\ [h EXCEPT !.from = x].mark_no = h.mark_no
                /\ [h EXCEPT !.mark_no = x].op = h.op /\ [h EXCEPT !.mark_no = x].item = h.item
                /\ [h EXCEPT !.mark_no = x].noticed = h.noticed
                /\ [h EXCEPT !.mark_no = x].mark_no = x
                /\ [h EXCEPT !.noticed = x].op = h.op /\ [h EXCEPT !.noticed = x].item = h.item
                /\ [h EXCEPT !.noticed = x].mark_no = h.mark_no
                /\ [h EXCEPT !.noticed = x].noticed = x
BY DEF MissionTyped, HarnessTyped, Locals

LEMMA EarlySteps ==
  ASSUME MissionTyped, CheckInv, stage \in Early, scen \in Judged, Mission!StartMission, late' = 0
  PROVE  CheckInv'
<1>0. LogInv /\ verdict = "none" /\ EarlyInv /\ notes = {} /\ h.mark_no = 1
  BY DEF CheckInv, Fresh, Early
<1>a. \A x : [h EXCEPT !.tries = x].mark_no = h.mark_no /\ [h EXCEPT !.aloft = x].mark_no = h.mark_no
  BY HIs
<1>b. Mission!NextTry => \/ Mission!Report(FALSE)
                         \/ stage' = "land" /\ UNCHANGED <<notes, verdict>> /\ h'.mark_no = 1
  BY <1>0, <1>a DEF Mission!NextTry, Mission!Goto
<1>c. ASSUME UNCHANGED <<said, offended, op, opened, told, notes, verdict>>, h'.mark_no = 1,
             flightMode' \in {flightMode, "hold", "land"}, stage' \in Early
      PROVE  CheckInv'
  BY <1>0, <1>c, LogSame, EarlySame, EarlyOn
<1>1. CASE Mission!Load
  <2>1. CASE Mission!Report(FALSE)
    BY <1>0, <2>1, GivenUp
  <2>2. CASE Mission!Goto("land")
    <3>1. Mission!Forget /\ UNCHANGED <<op, opened, told, flightMode, h>>
      BY <1>1 DEF Mission!Load, Mission!fcuVars
    <3>2. LogInv' /\ Says({"started"})' = {}
      BY <1>0, <3>1, Forgotten
    <3>3. EarlyInv'
      BY <1>0, <3>1, <3>2 DEF EarlyInv
    <3> QED
      BY <1>0, <2>2, <3>1, <3>2, <3>3, EarlyOn DEF Mission!Goto, Early
  <2> QED
    BY <1>1, <2>1, <2>2 DEF Mission!Load
<1>2. CASE Mission!Land
  BY <1>0, <1>2, <1>c DEF Mission!Land, Mission!Goto, Mission!nodeVars, Early
<1>3. CASE Mission!Down
  <2>1. h'.mark_no = 1
    BY <1>0, <1>3, <1>a DEF Mission!Down
  <2> QED
    BY <1>0, <1>3, <2>1, <1>c DEF Mission!Down, Mission!Goto, Mission!nodeVars, Early
<1>4. CASE Mission!Rewind
  BY <1>0, <1>4, <1>c DEF Mission!Rewind, Mission!Goto, Mission!nodeVars, Early
<1>5. CASE Mission!Arm
  <2>1. CASE Mission!NextTry
    BY <1>0, <1>5, <1>b, <1>c, <2>1, GivenUp DEF Mission!Arm, Mission!nodeVars, Early
  <2>2. CASE ~Mission!NextTry
    BY <1>0, <1>5, <1>c, <2>2 DEF Mission!Arm, Mission!Goto, Mission!nodeVars, Early
  <2> QED
    BY <2>1, <2>2
<1>6. CASE Mission!Auto
  <2>1. CASE Mission!NextTry /\ UNCHANGED flightMode
    BY <1>0, <1>6, <1>b, <1>c, <2>1, GivenUp DEF Mission!Auto, Mission!nodeVars, Early
  <2>2. CASE flightMode' = "mission" /\ Mission!Goto(Mission!Opening[scen]) /\ h' = [h EXCEPT !.tries = 1]
    <3>1. UNCHANGED <<said, offended, op, opened, told, notes, verdict>>
      BY <1>6, <2>2 DEF Mission!Auto, Mission!nodeVars, Mission!Goto
    <3>2. stage' = "seek"
      BY <2>2 DEF Mission!Goto, Mission!Opening, Judged
    <3>3. LogInv' /\ h'.mark_no = 1
      BY <1>0, <2>2, <3>1, <1>a, LogSame
    <3>4. Mission!Awaited' = {}
      <4>1. Says({"started"})' = {}
        BY <1>0, <3>1 DEF EarlyInv, Says, Mission!Lines
      <4> QED
        BY <3>2, <4>1, AwaitedStarts
    <3>5. Steady' /\ ~op'.cancelled
      BY <1>0, <2>2, <3>1 DEF EarlyInv, Steady, Going, Mission!NoOp
    <3>6. FollowInv'
      BY <2>2, <3>2, <3>4, <3>5 DEF FollowInv, SeekInv, FiredInv
    <3> QED
      BY <1>0, <3>1, <3>2, <3>3, <3>6 DEF CheckInv, Follow, Early, Behind, Fresh
  <2> QED
    BY <1>6, <2>1, <2>2 DEF Mission!Auto
<1> QED
  BY <1>1, <1>2, <1>3, <1>4, <1>5, <1>6 DEF Mission!StartMission

LEMMA FollowOn ==
  ASSUME stage' \in Follow, late' = 0, LogInv', verdict' = "none", FollowInv', notes' = {}, h'.mark_no = 1
  PROVE  CheckInv'
BY DEF CheckInv, Early, Follow, Behind, Fresh

LEMMA WithinMore ==
  ASSUME NEW n \in 0 .. 4, NEW m \in 0 .. 4, n <= m, op.stage \in Stages
  PROVE  /\ Within(n) => Within(m)
         /\ UNCHANGED <<op, told, cursor, at>> /\ h'.op = h.op /\ h'.item = h.item =>
              (Within(n) => Within(m)')
<1>1. Within(n) => Within(m)
  BY RankIs DEF Within, OpenWithin, ClosedWithin
<1>2. UNCHANGED <<op, told, cursor, at>> /\ h'.op = h.op /\ h'.item = h.item => (Within(m) => Within(m)')
  BY DEF Within, OpenWithin, ClosedWithin, Going, Mission!Hold, Mission!Way
<1> QED
  BY <1>1, <1>2

LEMMA SteadySame ==
  ASSUME UNCHANGED <<op, told, cursor, at, flightMode>>
  PROVE  (Steady' <=> Steady) /\ (Pending /\ h'.op = h.op /\ h'.item = h.item => Pending')
BY DEF Steady, Pending, Going, AtHold, Mission!Hold, Mission!Points

LEMMA SaidSame ==
  ASSUME UNCHANGED said
  PROVE  \A K : Says(K)' = Says(K)
BY DEF Says, Mission!Lines

LEMMA LookSteps ==
  ASSUME MissionTyped, CheckInv, stage = "seek", scen \in Judged, Mission!Look, late' = 0
  PROVE  CheckInv'
<1>0. /\ LogInv /\ verdict = "none" /\ notes = {} /\ h.mark_no = 1 /\ late \in 0 .. 1
      /\ Steady /\ ~op.cancelled /\ flightMode = "mission" /\ SeekInv
      /\ op.stage \in Stages /\ op.id \in Int /\ op.item \in Int /\ said \in Seq(LogLines)
  BY DEF CheckInv, Fresh, Follow, FollowInv, MissionTyped, NodeTyped, Operations
<1>1. UNCHANGED <<at, flightMode, told, cursor, op, opened, said, offended>> /\ stage' \in {"seen", "fired"}
      /\ UNCHANGED <<scen, notes, verdict>>
  BY DEF Mission!Look, Mission!fcuVars, Mission!nodeVars, Mission!Goto, Judged
<1>2. LogInv' /\ Steady' /\ ~op'.cancelled /\ flightMode' = "mission"
  BY <1>0, <1>1, LogSame, SteadySame
<1>3. CASE ~Mission!Hit
  <2>1. h' = h /\ stage' = "seen"
    BY <1>3 DEF Mission!Look, Mission!Goto
  <2>2. FollowInv'
    BY <1>2, <2>1 DEF FollowInv, SeekInv, FiredInv
  <2> QED
    BY <1>0, <1>1, <1>2, <2>1, <2>2, FollowOn DEF Follow
<1>4. CASE Mission!Hit
  <2> DEFINE i == Mission!FirstOf(Mission!Awaited)
  <2>1. i \in Mission!Awaited
    BY <1>4, AwaitedAre, FirstIs DEF Mission!Hit
  <2>2. h' = [h EXCEPT !.op = said[i].op, !.item = said[i].item] /\ stage' = "fired"
    BY <1>4 DEF Mission!Look, Mission!Goto, Judged
  <2>3. /\ Going /\ said[i].op = op.id /\ said[i].item = op.item /\ RankOf(op.stage) <= late
        /\ op.stage # "asked" => \E k \in Says({"capture"}) : said[k].op = op.id
    BY <1>0, <2>1 DEF SeekInv
  <2>4. said[i].item >= Mission!MinItem
    BY <2>1, AwaitedStarts
  <2> HIDE DEF i
  <2>5. h'.op = op.id /\ h'.item = op.item /\ h'.mark_no = 1
    BY <1>0, <2>2, <2>3 DEF MissionTyped, HarnessTyped, Locals
  <2>6. Within(0 + 1)' /\ Going'
    <3>1. RankOf(op.stage) \in 0 .. 4 /\ RankOf(op.stage) <= 1
      BY <1>0, <2>3, RankIs
    <3>2. OpenWithin(0 + 1)'
      BY <1>1, <2>3, <2>5, <3>1 DEF OpenWithin, Going
    <3> QED
      BY <1>1, <2>3, <3>2 DEF Within, Going
  <2>7. FiredInv'
    <3>1. \A n \in 0 .. 1 : late' = n => n = 0
      OBVIOUS
    <3>2. (\A n \in 0 .. 1 : late = n => Within(n + 1))'
      BY <2>6, <3>1
    <3>3. op'.stage # "asked" => \E k \in Says({"capture"})' : said'[k].op = h'.op
      BY <1>1, <2>3, <2>5, SaidSame
    <3> QED
      BY <3>2, <3>3 DEF FiredInv
  <2>8. h'.op <= opened' /\ h'.item \in Mission!Points' /\ (scen' = "H" => h'.item >= Captures)
    BY <1>0, <1>1, <2>3, <2>4, <2>5 DEF LogInv, NodeInv, Going, Mission!MinItem, Mission!Points
  <2>9. FollowInv'
    BY <1>2, <2>2, <2>7, <2>8 DEF FollowInv, SeekInv
  <2> QED
    BY <1>0, <1>1, <1>2, <2>2, <2>5, <2>9, FollowOn DEF Follow
<1> QED
  BY <1>3, <1>4

LEMMA FollowSteps ==
  ASSUME MissionTyped, CheckInv, stage \in Follow, scen \in Judged, late' = 0,
         Mission!Look \/ Mission!Seen \/ Mission!Fired \/ Mission!OutOfTime \/ Mission!Mark
  PROVE  CheckInv'
<1>0. /\ LogInv /\ verdict = "none" /\ notes = {} /\ h.mark_no = 1 /\ late \in 0 .. 1
      /\ Steady /\ ~op.cancelled /\ flightMode = "mission" /\ FollowInv
      /\ op.stage \in Stages
  BY DEF CheckInv, Fresh, Follow, FollowInv, MissionTyped, NodeTyped, Operations
<1>1. CASE Mission!Look
  BY <1>1, LookSteps DEF Mission!Look
<1>2. CASE Mission!Seen
  <2>1. /\ Mission!Forget /\ stage' = "seek" /\ UNCHANGED <<scen, notes, verdict, h>>
        /\ UNCHANGED <<at, flightMode, told, cursor, op, opened>>
    BY <1>2 DEF Mission!Seen, Mission!Goto, Mission!fcuVars
  <2>2. LogInv' /\ Steady' /\ \A K : Says(K)' = {}
    BY <1>0, <2>1, Forgotten, SteadySame
  <2>3. Mission!Awaited' = {}
    BY <2>1, <2>2, AwaitedStarts
  <2>4. FollowInv'
    BY <1>0, <2>1, <2>2, <2>3 DEF FollowInv, SeekInv, FiredInv
  <2> QED
    BY <1>0, <2>1, <2>2, <2>4, FollowOn DEF Follow
<1>3. CASE Mission!Fired
  <2>1. /\ stage = "fired" /\ stage' = "mark" /\ UNCHANGED <<scen, notes, verdict, h>>
        /\ UNCHANGED <<at, flightMode, told, cursor, op, opened, said, offended>>
    BY <1>3 DEF Mission!Fired, Mission!Goto, Mission!fcuVars, Mission!nodeVars
  <2>2. LogInv' /\ Steady'
    BY <1>0, <2>1, LogSame, SteadySame
  <2>3. Within(2)'
    <3>1. Within(1) \/ Within(2)
      <4>1. CASE late = 0
        <5>1. Within(0 + 1) /\ 0 + 1 = 1
          BY <1>0, <2>1, <4>1 DEF FollowInv, FiredInv
        <5> QED
          BY <5>1
      <4>2. CASE late = 1
        <5>1. Within(1 + 1) /\ 1 + 1 = 2
          BY <1>0, <2>1, <4>2 DEF FollowInv, FiredInv
        <5> QED
          BY <5>1
      <4> QED
        BY <1>0, <4>1, <4>2
    <3>2. (Within(1) => Within(2)') /\ (Within(2) => Within(2)')
      BY <1>0, <2>1, WithinMore
    <3> QED
      BY <3>1, <3>2
  <2>4. (\A n \in 0 .. 1 : late = n => Within(n + 2))'
    <3>1. \A n \in 0 .. 1 : late' = n => n + 2 = 2
      OBVIOUS
    <3> QED
      BY <2>3, <3>1
  <2>5. h'.op <= opened' /\ h'.item \in Mission!Points' /\ (scen' = "H" => h'.item >= Captures)
    BY <1>0, <2>1 DEF FollowInv, Mission!Points
  <2>6. FollowInv'
    BY <1>0, <2>1, <2>2, <2>4, <2>5 DEF FollowInv, SeekInv, FiredInv
  <2> QED
    BY <1>0, <2>1, <2>2, <2>6, FollowOn DEF Follow
<1>4. CASE Mission!OutOfTime
  BY <1>0, <1>4, GivenUp DEF Mission!OutOfTime
<1>5. CASE Mission!Mark
  <2>1. /\ stage = "mark" /\ stage' = "interrupt" /\ UNCHANGED <<scen, notes, verdict>>
        /\ UNCHANGED <<at, flightMode, told, cursor, op, opened>> /\ Mission!Forget
    BY <1>5 DEF Mission!Mark, Mission!Goto, Mission!fcuVars
  <2>2. h'.op = h.op /\ h'.item = h.item /\ h'.mark_no = 1
    BY <1>0, <1>5, HIs DEF Mission!Mark
  <2>3. LogInv' /\ Steady' /\ offended' = {} /\ \A K : Says(K)' = {}
    BY <1>0, <2>1, Forgotten, SteadySame
  <2>4. Within(3)'
    <3>1. Within(2) \/ Within(3)
      <4>1. CASE late = 0
        <5>1. Within(0 + 2) /\ 0 + 2 = 2
          BY <1>0, <2>1, <4>1 DEF FollowInv
        <5> QED
          BY <5>1
      <4>2. CASE late = 1
        <5>1. Within(1 + 2) /\ 1 + 2 = 3
          BY <1>0, <2>1, <4>2 DEF FollowInv
        <5> QED
          BY <5>1
      <4> QED
        BY <1>0, <4>1, <4>2
    <3>2. (Within(2) => Within(3)') /\ (Within(3) => Within(3)')
      BY <1>0, <2>1, <2>2, WithinMore
    <3> QED
      BY <3>1, <3>2
  <2>5. (\A n \in 0 .. 1 : late = n => Within(n + 3))'
    <3>1. \A n \in 0 .. 1 : late' = n => n + 3 = 3
      OBVIOUS
    <3> QED
      BY <2>4, <3>1
  <2>6. NothingYet'
    <3>1. Says(Cuts \cup Stops)' = {} /\ Says({"localized"})' = {}
      BY <2>3
    <3> QED
      BY <2>3, <3>1 DEF NothingYet
  <2>7. h'.op <= opened' /\ h'.item \in Mission!Points' /\ (scen' = "H" => h'.item >= Captures)
    BY <1>0, <2>1, <2>2 DEF FollowInv, Mission!Points
  <2>8. FollowInv'
    BY <1>0, <2>1, <2>3, <2>5, <2>6, <2>7 DEF FollowInv, SeekInv, FiredInv
  <2> QED
    BY <1>0, <2>1, <2>2, <2>3, <2>8, FollowOn DEF Follow
<1> QED
  BY <1>1, <1>2, <1>3, <1>4, <1>5

LEMMA BehindOn ==
  ASSUME stage' \in Behind, late' = 0, LogInv', verdict' = "none", BehindInv'
  PROVE  CheckInv'
BY DEF CheckInv, Early, Follow, Behind, BehindInv

LEMMA SaysLess ==
  ASSUME NEW K, NEW L
  PROVE  /\ K \subseteq L => Says(K) \subseteq Says(L)
         /\ Says(K \cup L) = Says(K) \cup Says(L)
BY DEF Says, Mission!Lines

LEMMA NoNotice ==
  /\ Says(Cuts) = {} => ~Notified /\ Says({"expired"}) = {} /\ Says({"back"}) = {}
  /\ (Says(Cuts) = {})' => ~Notified'
BY DEF Notified, Mission!Notice, Says, Mission!Lines, Cuts

LEMMA InterruptMoves ==
  ASSUME MissionTyped, NodeInv, Within(4), Steady, ~op.cancelled, NothingYet, scen \in Judged,
         flightMode = "mission", scen = "H" => h.item >= Captures, h.item \in Mission!Points,
         Mission!Interrupt
  PROVE  \/ Pending' /\ (Says({"localized"})' # {} => op'.stage = "survey")
         \/ Calm'
         \/ Turned' /\ Says({"localized"})' = {}
<1>0. /\ UNCHANGED <<told, cursor, op, opened, said, offended, h, scen>>
      /\ at' = CASE scen = "B" -> Mission!Hold(h.item) + 1 [] scen = "H" -> Mission!Way(1) [] OTHER -> at
      /\ flightMode' = IF scen = "C" THEN "hold" ELSE "mission"
  BY DEF Mission!Interrupt, Mission!Goto, Mission!nodeVars, Judged
<1>1. /\ h.item \in Int /\ op.item \in Int /\ at \in Int /\ told.at \in Int /\ cursor \in Int /\ Captures \in Nat
  BY MissionAssumption DEF MissionTyped, HarnessTyped, Locals, VehicleTyped, NodeTyped, Operations, Heres
<1>2. Says({"localized"})' = Says({"localized"})
  BY <1>0, SaidSame
<1>3. CASE OpenWithin(4)
  <2>1. Going /\ op.id = h.op /\ op.item = h.item /\ op.item <= cursor
    BY <1>3 DEF OpenWithin, Steady
  <2>2. at' # Mission!Hold(op.item) \/ flightMode' # "mission"
    <3>1. CASE scen = "B"
      BY <1>0, <1>1, <2>1, <3>1 DEF Mission!Hold
    <3>2. CASE scen = "C"
      BY <1>0, <3>2
    <3>3. CASE scen = "H"
      <4>1. at' = 2 * 1
        BY <1>0, <3>3 DEF Mission!Way
      <4> QED
        BY <1>1, <4>1 DEF Mission!Hold
    <3> QED
      BY <3>1, <3>2, <3>3 DEF Judged
  <2>3. ~AtHold'
    BY <1>0, <2>2 DEF AtHold, Mission!Hold
  <2>4. Pending'
    BY <1>0, <2>1, <2>3 DEF Pending, Going
  <2>5. Says({"localized"})' # {} => op'.stage = "survey"
    BY <1>0, <1>2 DEF NothingYet
  <2> QED
    BY <2>4, <2>5
<1>4. CASE ClosedWithin(4)
  <2>1. op = Mission!NoOp /\ cursor >= h.item /\ ~Going /\ ~op.cancelled /\ ~Going'
    BY <1>0, <1>4 DEF ClosedWithin, Going, Mission!NoOp
  <2>2. told.at = Mission!Hold(h.item) \/ told.at < Mission!Hold(h.item + 1)
    BY <1>4 DEF ClosedWithin
  <2>3. \A c \in Mission!Points : ~ (c > cursor /\ told.at = Mission!Hold(c))
    BY <1>1, <2>1, <2>2 DEF Mission!Hold, Mission!Points
  <2>4. Steady'
    <3>1. \A c \in Mission!Points : ~ (c > cursor' /\ told'.at = Mission!Hold(c))
      BY <1>0, <2>3
    <3> QED
      BY <1>0, <2>1, <3>1 DEF Steady, Mission!Points, Mission!Hold
  <2>5. CASE scen = "H"
    <3>1. Says({"localized"})' = {}
      BY <1>2, <2>1 DEF NothingYet
    <3>2. Turned'
      BY <1>0, <1>1, <2>1, <2>4, <2>5 DEF Turned, Mission!NoOp
    <3> QED
      BY <3>1, <3>2
  <2>6. CASE scen # "H"
    BY <1>0, <2>4, <2>6 DEF Calm
  <2> QED
    BY <2>5, <2>6
<1> QED
  BY <1>3, <1>4 DEF Within

LEMMA InterruptSteps ==
  ASSUME MissionTyped, CheckInv, scen \in Judged, late' = 0, Mission!Interrupt
  PROVE  CheckInv'
<1>0. /\ LogInv /\ verdict = "none" /\ notes = {} /\ h.mark_no = 1 /\ late \in 0 .. 1
      /\ Steady /\ ~op.cancelled /\ flightMode = "mission" /\ FollowInv /\ stage = "interrupt"
      /\ op.stage \in Stages
  BY DEF CheckInv, Fresh, Follow, FollowInv, MissionTyped, NodeTyped, Operations, Mission!Interrupt
<1>1. /\ h.op <= opened /\ h.item \in Mission!Points /\ (scen = "H" => h.item >= Captures) /\ NothingYet
      /\ \A n \in 0 .. 1 : late = n => Within(n + 3)
  BY <1>0 DEF FollowInv
<1>2. Within(4)
  <2>1. Within(3) \/ Within(4)
    <3>1. CASE late = 0
      <4>1. Within(0 + 3) /\ 0 + 3 = 3
        BY <1>1, <3>1
      <4> QED
        BY <4>1
    <3>2. CASE late = 1
      <4>1. Within(1 + 3) /\ 1 + 3 = 4
        BY <1>1, <3>2
      <4> QED
        BY <4>1
    <3> QED
      BY <1>0, <3>1, <3>2
  <2>2. Within(3) => Within(4)
    BY <1>0, WithinMore
  <2> QED
    BY <2>1, <2>2
<1>3. /\ UNCHANGED <<told, cursor, op, opened, said, offended, h, scen, notes, verdict>>
      /\ stage' = IF scen = "H" THEN "moved" ELSE "settle"
      /\ scen = "B" => flightMode' = "mission"
  BY <1>0 DEF Mission!Interrupt, Mission!Goto, Mission!nodeVars, Judged
<1>4. LogInv'
  BY <1>0, <1>3, LogSame
<1>5. /\ Says(Cuts) = {} /\ Says(Stops) = {} /\ Says({"expired"} \cup Stops) = {} /\ offended = {}
      /\ Says(Cuts)' = {} /\ Says(Stops)' = {} /\ Says({"expired"} \cup Stops)' = {}
  <2>1. Says(Cuts \cup Stops) = {} /\ offended = {}
    BY <1>1 DEF NothingYet
  <2>2. Says(Cuts) = {} /\ Says(Stops) = {} /\ Says({"expired"} \cup Stops) = {}
    BY <2>1, SaysLess DEF Cuts
  <2> QED
    BY <1>3, <2>1, <2>2, SaidSame
<1>6. OwnInv'
  <2>1. OwnLines'
    BY <1>5 DEF OwnLines
  <2>2. OwnCut'
    BY <1>0, <1>3 DEF OwnCut
  <2>3. OwnOffences'
    BY <1>3, <1>5 DEF OwnOffences
  <2>4. OwnClosed'
    BY <1>1, <1>3, <1>5 DEF OwnClosed, Stopped
  <2> QED
    BY <2>1, <2>2, <2>3, <2>4 DEF OwnInv
<1>7. CutInv'
  <2>1. ~Notified'
    BY <1>5, NoNotice
  <2>2. \/ Pending' /\ (Says({"localized"})' # {} => op'.stage = "survey")
        \/ Calm'
        \/ Turned' /\ Says({"localized"})' = {}
    BY <1>0, <1>1, <1>2, InterruptMoves DEF LogInv
  <2>3. Unnotified' /\ (Pending' \/ Steady')
    BY <2>2 DEF Unnotified, Calm, Turned
  <2>4. CutShort'
    BY <2>1 DEF CutShort
  <2> QED
    BY <1>5, <2>3, <2>4 DEF CutInv
<1>8. MarksInv' /\ JudgeInv' /\ PassInv'
  BY <1>0, <1>3 DEF MarksInv, JudgeInv, PassInv, Decided, Judged, Charges
<1> QED
  BY <1>0, <1>3, <1>4, <1>6, <1>7, <1>8, BehindOn DEF BehindInv, Behind

LEMMA StillKeeps ==
  ASSUME OwnInv, CutInv, h'.op = h.op, h'.item = h.item,
         UNCHANGED <<said, offended, op, opened, told, cursor, at, flightMode, scen>>
  PROVE  OwnInv' /\ CutInv'
<1>1. OwnInv'
  <2>1. OwnLines' /\ OwnCut' /\ OwnOffences'
    BY DEF OwnInv, OwnLines, OwnCut, OwnOffences, Says, Mission!Lines
  <2>2. OwnClosed'
    BY DEF OwnInv, OwnClosed, Stopped, Says, Mission!Lines
  <2> QED
    BY <2>1, <2>2 DEF OwnInv
<1>2. CutInv'
  <2>1. (Pending' <=> Pending) /\ (Steady' <=> Steady) /\ (Calm' <=> Calm) /\ (Turned' <=> Turned)
    BY DEF Pending, Steady, Calm, Turned, Going, AtHold, Mission!Hold, Mission!Points, Mission!NoOp
  <2>2. (Notified' <=> Notified) /\ (Blind' <=> Blind) /\ (PutDown' <=> PutDown)
    BY DEF Notified, Blind, PutDown, Says, Mission!Lines, Mission!Notice
  <2>3. Unnotified'
    BY <2>1, <2>2, SaidSame DEF CutInv, Unnotified
  <2>4. CutShort'
    BY <2>2 DEF CutInv, CutShort
  <2>5. Pending' => Says(Cuts)' = {}
    BY <2>1, SaidSame DEF CutInv
  <2> QED
    BY <2>1, <2>3, <2>4, <2>5 DEF CutInv
<1> QED
  BY <1>1, <1>2

LEMMA InformedIs ==
  ASSUME OpenAsTold, Mission!Informed
  PROVE  ~Pending
<1>1. told.at = at /\ told.mode = flightMode
  BY DEF Mission!Informed, Mission!Now
<1> QED
  BY <1>1 DEF Pending, Going, AtHold, OpenAsTold

LEMMA NoticeIs ==
  /\ scen \in {"B", "C"} => (Notified <=> Says({"expired"}) # {})
  /\ scen = "H" => (Notified <=> Says({"back"}) # {})
BY DEF Notified, Mission!Notice

LEMMA SettledSteps ==
  ASSUME MissionTyped, OpenAsTold, CheckInv, late' = 0, Mission!Settle
  PROVE  CheckInv'
<1>0. /\ LogInv /\ verdict = "none" /\ notes = {} /\ h.mark_no = 1 /\ scen \in {"B", "C"}
      /\ stage = "settle" /\ OwnInv /\ CutInv /\ (scen = "B" => flightMode = "mission")
      /\ flightMode \in FlightModes
  BY DEF CheckInv, Behind, MarksInv, Mission!Settle, MissionTyped, VehicleTyped
<1>1. Mission!Awaited = {i \in Says({"expired"}) : said[i].op = h.op}
  BY <1>0, Zenon DEF Mission!Awaited, Mission!OfOp, Says
<1>2. Mission!Awaited = Says({"expired"})
  <2>1. Says({"expired"}) \subseteq Says({"expired"} \cup Stops)
    BY SaysLess
  <2> QED
    BY <1>0, <1>1, <2>1 DEF OwnInv, OwnLines
<1> DEFINE finished == Mission!Lines(0, {"nothing", "succeeded"}) # {}
           again == ~Mission!Hit /\ finished
<1>3. /\ UNCHANGED <<at, told, cursor, op, opened, scen, notes, verdict>>
      /\ flightMode' = IF again /\ scen = "C" THEN "mission" ELSE flightMode
      /\ \/ again /\ Mission!Forget /\ stage' = "seek" /\ h' = [h EXCEPT !.tries = @ + 1]
         \/ UNCHANGED <<said, offended, h>> /\ stage' = "chain"
      /\ Mission!Hit \/ Mission!Informed
  BY DEF Mission!Settle, Mission!Goto
<1> HIDE DEF again
<1>4. ASSUME stage' = "chain", h' = h, scen = "B" => flightMode' = "mission"
      PROVE  MarksInv' /\ JudgeInv' /\ PassInv'
  BY <1>0, <1>3, <1>4 DEF MarksInv, JudgeInv, PassInv, Decided, Charges
<1>5. CASE ~again
  <2>1. flightMode' = flightMode /\ UNCHANGED <<said, offended, h>> /\ stage' = "chain"
    BY <1>3, <1>5
  <2>2. LogInv' /\ OwnInv' /\ CutInv'
    BY <1>0, <1>3, <2>1, LogSame, StillKeeps
  <2> QED
    BY <1>0, <1>3, <1>4, <2>1, <2>2, BehindOn DEF BehindInv, Behind
<1>6. CASE again
  <2>1. ~Mission!Hit /\ Mission!Informed /\ flightMode' = "mission"
    <3>1. ~Mission!Hit
      BY <1>6 DEF again
    <3> QED
      BY <1>0, <1>3, <1>6, <3>1
  <2>2. Says({"expired"}) = {}
    BY <1>2, <2>1 DEF Mission!Hit
  <2>3. ~op.cancelled /\ ~Notified /\ ~Pending /\ Steady
    BY <1>0, <2>1, <2>2, InformedIs, NoticeIs DEF OwnInv, OwnCut, CutInv
  <2>4. Steady' /\ ~Pending'
    BY <1>3, <2>1, <2>3 DEF Steady, Pending, Going, AtHold, Mission!Hold, Mission!Points
  <2>5. CASE Mission!Forget /\ stage' = "seek" /\ h' = [h EXCEPT !.tries = @ + 1]
    <3>1. LogInv' /\ \A K : Says(K)' = {}
      BY <1>0, <1>3, <2>5, Forgotten
    <3>2. h'.mark_no = 1
      BY <1>0, <2>5, HIs
    <3>3. Mission!Awaited' = {}
      BY <2>5, <3>1, AwaitedStarts
    <3>4. FollowInv'
      BY <1>3, <2>1, <2>3, <2>4, <2>5, <3>3 DEF FollowInv, SeekInv, FiredInv
    <3> QED
      BY <1>0, <1>3, <2>5, <3>1, <3>2, <3>4, FollowOn DEF Follow
  <2>6. CASE UNCHANGED <<said, offended, h>> /\ stage' = "chain"
    <3>1. LogInv' /\ (Notified' <=> Notified)
      BY <1>0, <1>3, <2>6, LogSame DEF Notified, Says, Mission!Lines, Mission!Notice
    <3>2. OwnInv'
      <4>1. OwnLines' /\ OwnCut' /\ OwnOffences'
        BY <1>0, <1>3, <2>6 DEF OwnInv, OwnLines, OwnCut, OwnOffences, Says, Mission!Lines
      <4>2. OwnClosed'
        BY <1>0, <1>3, <2>6 DEF OwnInv, OwnClosed, Stopped, Says, Mission!Lines
      <4> QED
        BY <4>1, <4>2 DEF OwnInv
    <3>3. Calm'
      BY <1>0, <1>3, <2>4 DEF Calm
    <3>4. CutInv'
      BY <2>3, <2>4, <3>1, <3>3 DEF CutInv, Unnotified, CutShort
    <3> QED
      BY <1>0, <1>3, <1>4, <2>1, <2>6, <3>1, <3>2, <3>4, BehindOn DEF BehindInv, Behind
  <2> QED
    BY <1>3, <2>5, <2>6
<1> QED
  BY <1>5, <1>6

LEMMA ChainSteps ==
  ASSUME MissionTyped, OpenAsTold, CheckInv, late' = 0, Mission!Chain
  PROVE  CheckInv'
<1>0. /\ LogInv /\ verdict = "none" /\ scen \in {"B", "C"} /\ stage = "chain"
      /\ h.mark_no \in 1 .. 3 /\ OwnInv /\ CutInv /\ JudgeInv /\ PassInv
      /\ notes \cap Charges = {} /\ (scen = "B" => flightMode = "mission")
  BY DEF CheckInv, Behind, MarksInv, Mission!Chain, JudgeInv
<1>1. /\ h.mark_no = 1 => Mission!Awaited = Says({"expired"})
      /\ h.mark_no = 2 => Mission!Awaited = Says(Stops)
  BY <1>0 DEF Mission!Awaited, Mission!CancelMarks, Says, Stops
<1>2. /\ UNCHANGED <<at, flightMode, told, cursor, op, opened, said, offended, scen, verdict>>
      /\ h' = [h EXCEPT !.mark_no = @ + 1]
      /\ stage' = IF h.mark_no = 3 THEN "judge" ELSE "chain"
      /\ \/ Mission!Hit /\ notes' = notes
         \/ ~Mission!Hit /\ Mission!Quiet /\ notes' = notes \cup {"missing"}
  BY DEF Mission!Chain, Mission!Goto, Mission!Note, Mission!fcuVars, Mission!nodeVars, Mission!CancelMarks
<1>3. h'.mark_no = h.mark_no + 1 /\ h'.op = h.op /\ h'.item = h.item
  BY <1>2, HIs
<1>4. LogInv' /\ OwnInv' /\ CutInv'
  BY <1>0, <1>2, <1>3, LogSame, StillKeeps
<1>5. (Notified' <=> Notified) /\ (Calm' <=> Calm) /\ (Stopped' <=> Stopped)
  BY <1>2, <1>3 DEF Notified, Calm, Steady, Stopped, Going, AtHold, Says, Mission!Lines, Mission!Notice,
     Mission!Hold, Mission!Points
<1>6. MarksInv'
  BY <1>0, <1>2, <1>3 DEF MarksInv
<1>7. ~Notified => Calm
  <2>1. CASE h.mark_no >= 2
    BY <1>0, <2>1 DEF JudgeInv, Decided
  <2>2. CASE h.mark_no = 1
    <3>1. CASE Mission!Hit
      BY <1>0, <1>1, <2>2, <3>1, NoticeIs DEF Mission!Hit
    <3>2. CASE ~Mission!Hit
      BY <1>0, <1>2, <3>2, InformedIs DEF Mission!Quiet, CutInv, Unnotified, Turned
    <3> QED
      BY <3>1, <3>2
  <2> QED
    BY <1>0, <2>1, <2>2
<1>8. JudgeInv'
  <2>1. notes' \cap Charges = {}
    BY <1>0, <1>2 DEF Charges
  <2>2. stage' # "grace"
    BY <1>2
  <2> QED
    BY <1>5, <1>7, <2>1, <2>2 DEF JudgeInv
<1>9. PassInv'
  <2>1. SUFFICES ASSUME notes' = {}, h.mark_no >= 2 PROVE Stopped
    BY <1>0, <1>2, <1>3, <1>5 DEF PassInv
  <2>2. notes = {} /\ Mission!Hit
    BY <1>2, <2>1
  <2>3. CASE h.mark_no = 2
    <3>1. PICK i \in Says(Stops) : TRUE
      BY <1>1, <2>2, <2>3 DEF Mission!Hit
    <3>2. i \in Says({"expired"} \cup Stops)
      BY <3>1, SaysLess
    <3> QED
      BY <1>0, <3>1, <3>2 DEF OwnInv, OwnLines, Stopped
  <2>4. CASE h.mark_no = 3
    BY <1>0, <2>2, <2>4 DEF PassInv
  <2> QED
    BY <1>0, <2>1, <2>3, <2>4
<1> QED
  BY <1>0, <1>2, <1>4, <1>6, <1>8, <1>9, BehindOn DEF BehindInv, Behind

LEMMA MovedSteps ==
  ASSUME MissionTyped, OpenAsTold, CheckInv, late' = 0, Mission!Moved
  PROVE  CheckInv'
<1>0. /\ LogInv /\ verdict = "none" /\ scen = "H" /\ stage = "moved"
      /\ h.mark_no \in 1 .. 2 /\ OwnInv /\ CutInv /\ JudgeInv
      /\ notes \cap Charges = {}
      /\ at \in Int /\ told.at \in Int
  BY DEF CheckInv, Behind, MarksInv, Mission!Moved, JudgeInv, MissionTyped, VehicleTyped, NodeTyped, Heres
<1>1. h.mark_no = 1 => Mission!Awaited = Says({"back"})
  BY <1>0 DEF Mission!Awaited, Says
<1>2. /\ UNCHANGED <<at, flightMode, told, cursor, op, opened, said, offended, scen, verdict>>
      /\ h' = [h EXCEPT !.mark_no = @ + 1]
      /\ stage' = IF h.mark_no = 2 THEN "judge" ELSE "moved"
      /\ \/ Mission!Hit /\ notes' = notes
         \/ ~Mission!Hit /\ Mission!Informed /\ notes' = notes \cup {"missing"}
  BY DEF Mission!Moved, Mission!Goto, Mission!Note, Mission!fcuVars, Mission!nodeVars
<1>3. h'.mark_no = h.mark_no + 1 /\ h'.op = h.op /\ h'.item = h.item
  BY <1>2, HIs
<1>4. LogInv' /\ OwnInv' /\ CutInv'
  BY <1>0, <1>2, <1>3, LogSame, StillKeeps
<1>5. (Notified' <=> Notified) /\ (Calm' <=> Calm)
  BY <1>2 DEF Notified, Calm, Steady, Going, AtHold, Says, Mission!Lines, Mission!Notice,
     Mission!Hold, Mission!Points
<1>6. MarksInv' /\ PassInv'
  BY <1>0, <1>2, <1>3 DEF MarksInv, PassInv
<1>7. ~Notified => Calm
  <2>1. CASE h.mark_no = 2
    BY <1>0, <2>1 DEF JudgeInv, Decided
  <2>2. CASE h.mark_no = 1
    <3>1. CASE Mission!Hit
      BY <1>0, <1>1, <2>2, <3>1, NoticeIs DEF Mission!Hit
    <3>2. CASE ~Mission!Hit
      <4>1. ~Pending /\ told.at <= at
        BY <1>0, <1>2, <3>2, InformedIs DEF Mission!Informed, Mission!Now
      <4> QED
        BY <1>0, <4>1 DEF CutInv, Unnotified, Turned, Calm
    <3> QED
      BY <3>1, <3>2
  <2> QED
    BY <1>0, <2>1, <2>2
<1>8. JudgeInv'
  <2>1. notes' \cap Charges = {}
    BY <1>0, <1>2 DEF Charges
  <2>2. stage' # "grace"
    BY <1>2
  <2> QED
    BY <1>5, <1>7, <2>1, <2>2 DEF JudgeInv
<1> QED
  BY <1>0, <1>2, <1>4, <1>6, <1>8, BehindOn DEF BehindInv, Behind

(* The window that is judged, from the first notice to the next operation. *)
LEMMA WindowIs ==
  ASSUME NodeTyped
  PROVE  /\ ~Notified => Mission!Noticed = 0
         /\ Notified =>
              \E j \in Notices : Mission!Noticed = j - 1 /\ \A n \in Notices : j <= n
<1> DEFINE told_ == Mission!Lines(0, Mission!Notice)
<1>1. Notices = told_ /\ told_ \in SUBSET Nat /\ (Notified <=> told_ # {})
  BY LinesAre DEF Notices, Says, Notified
<1>2. Mission!Noticed = IF told_ = {} THEN 0 ELSE Mission!FirstOf(told_) - 1
  BY DEF Mission!Noticed
<1>3. told_ # {} => Mission!FirstOf(told_) \in told_ /\ \A n \in told_ : Mission!FirstOf(told_) <= n
  BY <1>1, FirstIs
<1> HIDE DEF told_
<1> QED
  BY <1>1, <1>2, <1>3

LEMMA EndIs ==
  ASSUME NodeTyped, NEW noticed \in Nat
  PROVE  \A i \in 1 .. Len(said) :
           i <= Mission!WindowEnd(noticed) <=>
             \A s \in Says({"started"}) : s <= noticed \/ i < s
<1> DEFINE next == Mission!Lines(noticed, {"started"})
<1>1. /\ next \in SUBSET Nat /\ next = {s \in Says({"started"}) : s > noticed}
      /\ Says({"started"}) \in SUBSET Nat /\ Len(said) \in Nat
  BY LinesAre DEF Says, Mission!Lines, NodeTyped
<1>2. Mission!WindowEnd(noticed) = IF next = {} THEN Len(said) ELSE Mission!FirstOf(next) - 1
  BY DEF Mission!WindowEnd
<1>3. next # {} => Mission!FirstOf(next) \in next /\ \A n \in next : Mission!FirstOf(next) <= n
  BY <1>1, FirstIs
<1> HIDE DEF next
<1>4. CASE next = {}
  BY <1>1, <1>2, <1>4
<1>5. CASE next # {}
  <2> DEFINE f == Mission!FirstOf(next)
  <2>1. f \in next /\ (\A n \in next : f <= n) /\ Mission!WindowEnd(noticed) = f - 1
    BY <1>2, <1>3, <1>5
  <2> HIDE DEF f
  <2> QED
    BY <1>1, <2>1
<1> QED
  BY <1>4, <1>5

Offenders ==
  Mission!Between(Mission!Noticed, Mission!WindowEnd(Mission!Noticed), Mission!Forbidden)

LEMMA OffendersAre ==
  ASSUME NodeTyped, Notified
  PROVE  \E j \in Notices :
           /\ Mission!Noticed = j - 1 /\ \A n \in Notices : j <= n
           /\ \A i : i \in Offenders <=>
                /\ i \in Says(Forbidden) /\ j < i
                /\ \A s \in Says({"started"}) : s < j \/ i < s
<1>1. PICK j \in Notices : Mission!Noticed = j - 1 /\ \A n \in Notices : j <= n
  BY WindowIs
<1>2. /\ j \in 1 .. Len(said) /\ said[j].kind \in Mission!Notice /\ Len(said) \in Nat
      /\ \A K : \A i \in Says(K) : i \in 1 .. Len(said) /\ said[i].kind \in K
  BY DEF Notices, Says, Mission!Lines, NodeTyped
<1>3. said[j].kind \notin Forbidden /\ said[j].kind # "started"
  BY <1>2 DEF Mission!Notice, Forbidden
<1>4. \A i \in Says(Forbidden) : i # j /\ i \in 1 .. Len(said)
  BY <1>2, <1>3
<1>5. \A s \in Says({"started"}) : s # j /\ s \in 1 .. Len(said)
  BY <1>2, <1>3
<1>6. \A i \in 1 .. Len(said) :
        i <= Mission!WindowEnd(j - 1) <=> \A s \in Says({"started"}) : s <= j - 1 \/ i < s
  <2>1. j - 1 \in Nat
    BY <1>2
  <2> QED
    BY <2>1, EndIs
<1>7. \A i : i \in Offenders <=> i \in Says(Forbidden) /\ i > j - 1 /\ i <= Mission!WindowEnd(j - 1)
  <2>1. Offenders = {i \in Mission!Lines(j - 1, Forbidden) : i <= Mission!WindowEnd(j - 1)}
    BY <1>1 DEF Offenders, Mission!Between, Mission!Forbidden, Forbidden
  <2>2. Mission!Lines(j - 1, Forbidden) = {i \in Says(Forbidden) : i > j - 1}
    BY <1>2 DEF Mission!Lines, Says
  <2> QED
    BY <2>1, <2>2
<1>8. \A i : i \in Offenders <=>
        /\ i \in Says(Forbidden) /\ j < i
        /\ \A s \in Says({"started"}) : s < j \/ i < s
  BY <1>2, <1>4, <1>5, <1>6, <1>7
<1> QED
  BY <1>1, <1>8

LEMMA JudgeSteps ==
  ASSUME MissionTyped, CheckInv, scen \in Judged, late' = 0, Mission!Judge
  PROVE  CheckInv'
<1>0. /\ LogInv /\ verdict = "none" /\ stage = "judge" /\ NodeTyped
      /\ OwnInv /\ CutInv /\ JudgeInv /\ PassInv /\ MarksInv
      /\ notes \cap Charges = {}
  BY DEF CheckInv, Behind, Mission!Judge, JudgeInv, MissionTyped
<1> DEFINE blind == Mission!Between(0, Mission!Noticed, {"localized"})
<1>1. /\ UNCHANGED <<at, flightMode, told, cursor, op, opened, said, offended, scen, verdict>>
      /\ h' = [h EXCEPT !.noticed = Mission!Noticed]
      /\ stage' = IF blind # {} THEN "grace" ELSE "after"
      /\ notes' = IF Offenders # {} THEN notes \cup {"forbidden"} ELSE notes
  BY DEF Mission!Judge, Mission!Goto, Mission!Note, Mission!fcuVars, Mission!nodeVars, Offenders
<1>2. h'.noticed = Mission!Noticed /\ h'.op = h.op /\ h'.item = h.item
  <2>1. \A x : [h EXCEPT !.noticed = x].noticed = x /\ [h EXCEPT !.noticed = x].op = h.op
               /\ [h EXCEPT !.noticed = x].item = h.item
    BY HIs
  <2> QED
    BY <1>1, <2>1
<1>3. LogInv' /\ OwnInv' /\ CutInv'
  BY <1>0, <1>1, <1>2, LogSame, StillKeeps
<1>4. (Notified' <=> Notified) /\ (Calm' <=> Calm) /\ (Stopped' <=> Stopped) /\ (Blind' <=> Blind)
  BY <1>1, <1>2 DEF Notified, Calm, Steady, Stopped, Blind, Going, AtHold, Says, Mission!Lines, Mission!Notice,
     Mission!Hold, Mission!Points
<1>5. MarksInv'
  BY <1>0, <1>1 DEF MarksInv
<1>6. Notified /\ Offenders # {} => offended # {}
  <2> HAVE Notified /\ Offenders # {}
  <2>1. PICK j \in Notices :
           \A i : i \in Offenders <=>
             /\ i \in Says(Forbidden) /\ j < i
             /\ \A s \in Says({"started"}) : s < j \/ i < s
    BY <1>0, OffendersAre
  <2>2. PICK i \in Offenders : TRUE
    OBVIOUS
  <2>3. i \in Says(Forbidden) /\ j < i /\ \A s \in Says({"started"}) : s < j \/ i < s
    BY <2>1, <2>2
  <2>4. j \in Says(Cuts)
    BY DEF Notices, Says, Mission!Lines, Mission!Notice, Cuts
  <2> QED
    BY <1>0, <2>3, <2>4 DEF LogInv, OffenceNoted
<1>7. blind # {} => Notified /\ Blind /\ \A n \in Notices : Mission!Noticed < n
  <2> HAVE blind # {}
  <2>1. PICK i \in Says({"localized"}) : i <= Mission!Noticed
    BY DEF Mission!Between, Says
  <2>2. i > 0 /\ i \in Nat /\ Notices \in SUBSET Nat
    BY <1>0 DEF Says, Mission!Lines, Notices, NodeTyped
  <2>3. Notified
    BY <1>0, <2>1, <2>2, WindowIs
  <2>4. PICK j \in Notices : Mission!Noticed = j - 1 /\ \A n \in Notices : j <= n
    BY <1>0, <2>3, WindowIs
  <2>5. \A n \in Notices : Mission!Noticed < n /\ i < n
    BY <2>1, <2>2, <2>4
  <2> QED
    BY <2>3, <2>5, CutShortIs
<1>8. JudgeInv'
  <2>1. ~Notified' => Calm'
    BY <1>0, <1>4 DEF JudgeInv, Decided
  <2>2. notes' \cap Charges # {} => stage' \in {"grace", "after"} /\ (offended' # {} \/ ~Notified')
    BY <1>0, <1>1, <1>4, <1>6 DEF Charges
  <2>3. stage' = "grace" => Notified' /\ Blind' /\ \A n \in Says(Mission!Notice)' : h'.noticed < n
    <3> HAVE stage' = "grace"
    <3>1. blind # {}
      BY <1>1
    <3>2. Says(Mission!Notice)' = Notices
      BY <1>1 DEF Notices, Says, Mission!Lines, Mission!Notice
    <3> QED
      BY <1>2, <1>4, <1>7, <3>1, <3>2
  <2> QED
    BY <2>1, <2>2, <2>3 DEF JudgeInv
<1>9. PassInv'
  <2>1. SUFFICES ASSUME scen \in {"B", "C"}, notes = {}, Offenders = {}
                 PROVE  Stopped /\ offended = {}
    <3>1. notes' = {} => notes = {} /\ Offenders = {}
      BY <1>1
    <3> QED
      BY <1>1, <1>4, <2>1, <3>1 DEF PassInv
  <2>2. Stopped
    BY <1>0, <2>1 DEF PassInv
  <2>3. SUFFICES ASSUME NEW i \in offended PROVE FALSE
    BY <2>2
  <2>4. /\ i \in Says(Forbidden) /\ (\E k \in Says({"expired"}) : k < i)
        /\ \A k \in Says({"expired"}), s \in Says({"started"}) : ~ (k < s /\ s < i)
    BY <1>0, <2>3 DEF OwnInv, OwnOffences
  <2>5. Notices = Says({"expired"}) /\ Notified
    BY <2>1, <2>4, NoticeIs DEF Notices, Mission!Notice
  <2>6. PICK j \in Notices :
          /\ \A n \in Notices : j <= n
          /\ \A x : x \in Offenders <=>
               /\ x \in Says(Forbidden) /\ j < x
               /\ \A s \in Says({"started"}) : s < j \/ x < s
    BY <1>0, <2>5, OffendersAre
  <2>7. \A K : \A x \in Says(K) : x \in 1 .. Len(said) /\ said[x].kind \in K
    BY <1>0 DEF Says, Mission!Lines, NodeTyped
  <2>8. j < i
    <3>1. PICK k \in Says({"expired"}) : k < i
      BY <2>4
    <3>2. k \in Nat /\ i \in Nat /\ j \in Nat
      BY <2>4, <2>5, <2>6, <2>7, <3>1
    <3> QED
      BY <2>5, <2>6, <3>1, <3>2
  <2>9. ASSUME NEW s \in Says({"started"}) PROVE s < j \/ i < s
    <3>1. said[s].kind = "started" /\ said[i].kind \in Forbidden /\ said[j].kind = "expired"
      BY <2>4, <2>5, <2>6, <2>7, <2>9
    <3>2. s # j /\ s # i /\ s \in Nat /\ i \in Nat /\ j \in Nat
      BY <2>4, <2>5, <2>6, <2>7, <2>9, <3>1 DEF Forbidden
    <3>3. ~ (j < s /\ s < i)
      BY <2>4, <2>5, <2>6, <2>9
    <3> QED
      BY <3>2, <3>3
  <2> QED
    BY <2>1, <2>4, <2>6, <2>8, <2>9
<1> QED
  BY <1>0, <1>1, <1>3, <1>5, <1>8, <1>9, BehindOn DEF BehindInv, Behind

LEMMA GraceSteps ==
  ASSUME MissionTyped, CheckInv, scen \in Judged, late' = 0, Mission!Grace
  PROVE  CheckInv'
<1>0. /\ LogInv /\ verdict = "none" /\ stage = "grace" /\ NodeTyped /\ h.noticed \in Nat
      /\ OwnInv /\ CutInv /\ JudgeInv /\ PassInv /\ MarksInv
      /\ Notified /\ Blind /\ \A n \in Notices : h.noticed < n
  BY DEF CheckInv, Behind, Mission!Grace, JudgeInv, MissionTyped, HarnessTyped, Locals, Notices
<1>1. /\ UNCHANGED <<at, flightMode, told, cursor, op, opened, said, offended, scen, verdict, h>>
      /\ stage' = "after"
      /\ \/ Mission!Hit /\ notes' = notes
         \/ ~Mission!Hit /\ Mission!Quiet /\ notes' = notes \cup {"still running"}
  BY DEF Mission!Grace, Mission!Goto, Mission!Note, Mission!fcuVars, Mission!nodeVars
<1>2. LogInv' /\ OwnInv' /\ CutInv'
  BY <1>0, <1>1, LogSame, StillKeeps
<1>3. (Notified' <=> Notified) /\ (Stopped' <=> Stopped)
  BY <1>1 DEF Notified, Stopped, Says, Mission!Lines, Mission!Notice
<1>4. ~Mission!Hit /\ Mission!Quiet => offended # {}
  <2> HAVE ~Mission!Hit /\ Mission!Quiet
  <2>1. ~Surveying
    BY DEF Mission!Quiet, Surveying
  <2>2. SUFFICES ASSUME PutDown PROVE FALSE
    BY <1>0, <2>1, CutShortIs DEF CutInv
  <2>3. PICK i \in Says({"putdown"}) : \E n \in Notices : n < i
    BY <2>2, CutShortIs
  <2>4. i \in Nat /\ Notices \in SUBSET Nat
    BY <1>0 DEF Says, Mission!Lines, Notices, NodeTyped
  <2>5. h.noticed < i
    BY <1>0, <2>3, <2>4
  <2>6. Mission!Awaited = Mission!Lines(h.noticed, {"putdown"})
    BY <1>0 DEF Mission!Awaited
  <2>7. i \in Mission!Lines(h.noticed, {"putdown"})
    BY <1>0, <2>3, <2>5 DEF Says, Mission!Lines, NodeTyped
  <2> QED
    BY <2>6, <2>7 DEF Mission!Hit
<1>5. JudgeInv'
  BY <1>0, <1>1, <1>3, <1>4 DEF JudgeInv
<1>6. PassInv'
  <2>1. notes' = {} => notes = {}
    BY <1>1
  <2> QED
    BY <1>0, <1>1, <1>3, <2>1 DEF PassInv
<1>7. MarksInv'
  BY <1>0, <1>1 DEF MarksInv
<1> QED
  BY <1>0, <1>1, <1>2, <1>5, <1>6, <1>7, BehindOn DEF BehindInv, Behind

LEMMA JudgedFairly ==
  JudgeInv /\ stage \in Behind => Mission!FairlyJudged
BY DEF JudgeInv, Mission!FairlyJudged, Notified, Says, Charges

LEMMA AfterSteps ==
  ASSUME CheckInv, scen \in Judged, late' = 0, Mission!After
  PROVE  CheckInv'
<1>0. stage = "after" /\ JudgeInv /\ PassInv /\ late \in 0 .. 1
  BY DEF CheckInv, Behind, Mission!After
<1>1. /\ UNCHANGED <<said, offended, scen, notes, h>> /\ stage' = "done"
      /\ verdict' = "pass" => notes = {}
  BY DEF Mission!After, Mission!Report, Mission!nodeVars
<1>2. Mission!FairlyJudged'
  <2>1. Mission!FairlyJudged
    BY <1>0, JudgedFairly DEF Behind
  <2> QED
    BY <1>1, <2>1 DEF Mission!FairlyJudged, Mission!Lines, Mission!Notice
<1>3. Mission!PassMeans'
  <2>1. SUFFICES ASSUME verdict' = "pass", scen \in {"B", "C"}
                 PROVE  Mission!OfOp(Mission!Lines(0, {"discarded", "putdown"}))' # {} /\ Mission!OfOp(offended)' = {}
    BY <1>1 DEF Mission!PassMeans
  <2>2. Stopped /\ offended = {}
    BY <1>0, <1>1, <2>1 DEF PassInv
  <2>3. Mission!OfOp(Mission!Lines(0, {"discarded", "putdown"})) # {}
    BY <2>2 DEF Stopped, Stops, Says, Mission!OfOp
  <2>4. Mission!OfOp(Mission!Lines(0, {"discarded", "putdown"}))' # {}
    BY <1>1, <2>3 DEF Mission!OfOp, Mission!Lines
  <2>5. Mission!OfOp(offended)' = {}
    BY <1>1, <2>2 DEF Mission!OfOp
  <2> QED
    BY <2>4, <2>5
<1> QED
  BY <1>1, <1>2, <1>3 DEF CheckInv, Early, Follow, Behind

LEMMA CheckStarts ==
  ASSUME Mission!Init, scen \in Judged, LeftFor \cap Judged = {}
  PROVE  CheckInv
<1>1. /\ Mission!Grounded /\ stage = "load" /\ notes = {} /\ h.mark_no = 1 /\ verdict = "none" /\ late = 0
  BY DEF Mission!Init
<1>2. /\ said = <<>> /\ offended = {} /\ op = Mission!NoOp /\ opened = 0 /\ flightMode = "hold"
      /\ told.mode = "hold"
  BY <1>1 DEF Mission!Grounded
<1>3. \A K : Says(K) = {}
  <2>1. Len(said) = 0
    BY <1>2
  <2> QED
    BY <2>1 DEF Says, Mission!Lines
<1>4. LogInv
  BY <1>2, <1>3 DEF LogInv, CutStays, OffenceNoted, NodeInv, Mission!NoOp
<1>5. EarlyInv
  BY <1>2, <1>3 DEF EarlyInv
<1> QED
  BY <1>1, <1>4, <1>5 DEF CheckInv, Early, Follow, Behind, Fresh

LEMMA CheckStutters ==
  ASSUME CheckInv, UNCHANGED checking
  PROVE  CheckInv'
<1>0. /\ UNCHANGED <<at, flightMode, told, cursor, op, opened, said, offended>>
      /\ UNCHANGED <<scen, stage, h, notes, verdict, late>>
  BY DEF checking
<1>1. \A K : Says(K)' = Says(K)
  BY <1>0, SaidSame
<1>2. LogInv => LogInv'
  BY <1>0, LogSame
<1>3. EarlyInv => EarlyInv'
  BY <1>0, EarlySame
<1>4. FollowInv => FollowInv'
  <2> HAVE FollowInv
  <2>1. Steady' /\ (\A n \in 0 .. 4 : Within(n)' <=> Within(n))
    BY <1>0 DEF FollowInv, Steady, Within, OpenWithin, ClosedWithin, Going, AtHold, Mission!Hold, Mission!Way,
       Mission!Points
  <2>2. SeekInv'
    <3>1. stage = "seek" => Mission!Awaited' = Mission!Awaited
      BY <1>0, <1>1, AwaitedStarts, MinItemStays
    <3>2. Says({"capture"})' = Says({"capture"}) /\ (Going' <=> Going)
      BY <1>0, <1>1 DEF Going
    <3> QED
      BY <1>0, <3>1, <3>2 DEF FollowInv, SeekInv
  <2>3. FiredInv'
    <3>1. Says({"capture"})' = Says({"capture"}) /\ (Going' <=> Going)
      BY <1>0, <1>1 DEF Going
    <3>2. (\A n \in 0 .. 1 : late = n => Within(n + 1)) => (\A n \in 0 .. 1 : late = n => Within(n + 1))'
      BY <1>0 DEF Within, OpenWithin, ClosedWithin, Going, Mission!Hold, Mission!Way
    <3> QED
      BY <1>0, <3>1, <3>2 DEF FollowInv, FiredInv
  <2>4. stage = "mark" => (\A n \in 0 .. 1 : late = n => Within(n + 2))'
    BY <1>0 DEF FollowInv, Within, OpenWithin, ClosedWithin, Going, Mission!Hold, Mission!Way
  <2>5. stage = "interrupt" => (\A n \in 0 .. 1 : late = n => Within(n + 3))' /\ NothingYet'
    <3>1. NothingYet => NothingYet'
      BY <1>0, <1>1 DEF NothingYet, Going
    <3>2. stage = "interrupt" => (\A n \in 0 .. 1 : late = n => Within(n + 3))'
      BY <1>0 DEF FollowInv, Within, OpenWithin, ClosedWithin, Going, Mission!Hold, Mission!Way
    <3> QED
      BY <3>1, <3>2 DEF FollowInv
  <2> QED
    BY <1>0, <2>1, <2>2, <2>3, <2>4, <2>5 DEF FollowInv, Mission!Points
<1>5. BehindInv => BehindInv'
  <2> HAVE BehindInv
  <2>1. OwnInv' /\ CutInv'
    BY <1>0, StillKeeps DEF BehindInv
  <2>2. (Notified' <=> Notified) /\ (Calm' <=> Calm) /\ (Stopped' <=> Stopped) /\ (Blind' <=> Blind)
        /\ Says(Mission!Notice)' = Notices
    BY <1>0 DEF Notified, Calm, Steady, Stopped, Blind, Going, AtHold, Says, Mission!Lines,
       Mission!Notice, Mission!Hold, Mission!Points, Notices
  <2>3. MarksInv' /\ PassInv'
    BY <1>0, <2>2 DEF BehindInv, MarksInv, PassInv
  <2>4. JudgeInv'
    BY <1>0, <2>2 DEF BehindInv, JudgeInv, Decided, Notices
  <2> QED
    BY <2>1, <2>3, <2>4 DEF BehindInv
<1>6. Mission!FairlyJudged /\ Mission!PassMeans => Mission!FairlyJudged' /\ Mission!PassMeans'
  BY <1>0 DEF Mission!FairlyJudged, Mission!PassMeans, Mission!Lines, Mission!Notice, Mission!OfOp
<1> QED
  BY <1>0, <1>2, <1>3, <1>4, <1>5, <1>6 DEF CheckInv, BehindInv, Fresh

LEMMA CheckKept ==
  ASSUME MissionTyped, OpenAsTold, scen \in Judged, CheckInv, Lag <= 1, [Mission!Next]_checking
  PROVE  CheckInv'
<1>0. stage \in Early \cup Follow \cup Behind \cup {"done"}
  BY DEF CheckInv
<1>1. CASE UNCHANGED checking
  BY <1>1, CheckStutters
<1>2. CASE Mission!Surroundings
  BY <1>2, AroundKeeps
<1>3. CASE Mission!StartMission /\ late' = 0
  <2>1. stage \in Early
    BY <1>3 DEF Early, Mission!StartMission, Mission!Load, Mission!Land, Mission!Down, Mission!Rewind,
       Mission!Arm, Mission!Auto
  <2> QED
    BY <1>3, <2>1, EarlySteps
<1>4. CASE Mission!Interrupting /\ late' = 0
  <2>1. CASE Mission!Look \/ Mission!Seen \/ Mission!Fired \/ Mission!OutOfTime \/ Mission!Mark
    <3>1. stage \in Follow
      BY <1>0, <2>1 DEF Early, Follow, Behind, Mission!Look, Mission!Seen, Mission!Fired, Mission!OutOfTime,
         Mission!Mark
    <3> QED
      BY <1>4, <2>1, <3>1, FollowSteps
  <2> QED
    BY <1>4, <2>1, InterruptSteps, SettledSteps, ChainSteps, MovedSteps DEF Mission!Interrupting
<1>5. CASE Mission!Judging /\ late' = 0
  <2>1. ~Mission!Passed
    BY <1>0 DEF Early, Follow, Behind, Mission!Passed
  <2> QED
    BY <1>5, <2>1, JudgeSteps, GraceSteps, AfterSteps DEF Mission!Judging
<1>6. ~Mission!Flying
  BY <1>0 DEF Early, Follow, Behind, Mission!Flying, Mission!Fly, Mission!Item, Mission!Set, Mission!Read,
     Mission!Watch
<1> QED
  BY <1>1, <1>2, <1>3, <1>4, <1>5, <1>6 DEF Mission!Next, Mission!Harness

LEMMA CheckJudges == CheckInv => Mission!FairlyJudged /\ Mission!PassMeans
<1> SUFFICES ASSUME CheckInv PROVE Mission!FairlyJudged /\ Mission!PassMeans
  OBVIOUS
<1>1. CASE stage \in Early \cup Follow
  BY <1>1 DEF CheckInv, Fresh, Early, Follow, Mission!FairlyJudged, Mission!PassMeans
<1>2. CASE stage \in Behind
  BY <1>2, JudgedFairly DEF CheckInv, Behind, Mission!PassMeans
<1> QED
  BY <1>1, <1>2 DEF CheckInv

(* The other scenarios charge the node with nothing.                       *)
OtherInv == stage \notin {"settle", "chain", "moved", "judge", "grace"} /\ notes \cap Charges = {}

LEMMA OtherKept ==
  ASSUME OtherInv, scen \notin Judged, scen \in Scenarios, [Mission!Next]_checking
  PROVE  OtherInv'
<1>0. scen \in {"A", "B", "C", "D", "F", "G", "H", "I", "J"} \ {"B", "C", "H"}
  BY MissionAssumption DEF Judged
<1>1. CASE UNCHANGED checking \/ Mission!Surroundings
  BY <1>1 DEF checking, OtherInv, Mission!Surroundings, Mission!harnessVars
<1>2. CASE Mission!StartMission
  <2>1. notes' = notes /\ stage' \in Early \cup {"done", Mission!Opening[scen]}
    BY <1>2 DEF Mission!StartMission, Mission!Load, Mission!Land, Mission!Down, Mission!Rewind,
       Mission!Arm, Mission!Auto, Mission!Goto, Mission!Report, Mission!NextTry, Early
  <2>2. Mission!Opening[scen] \in {"fly", "item", "seek"}
    BY <1>0, Zenon, OpeningIs
  <2> QED
    BY <2>1, <2>2 DEF OtherInv, Early
<1>3. CASE Mission!Interrupting
  <2>1. ~ (Mission!Settle \/ Mission!Chain \/ Mission!Moved)
    BY DEF OtherInv, Mission!Settle, Mission!Chain, Mission!Moved
  <2> QED
    BY <1>0, <1>3, <2>1 DEF OtherInv, Mission!Interrupting, Mission!Look, Mission!Seen, Mission!Fired,
       Mission!OutOfTime, Mission!Mark, Mission!Interrupt, Mission!Goto, Mission!Report
<1>4. CASE Mission!Judging
  <2>1. ~ (Mission!Judge \/ Mission!Grace)
    BY DEF OtherInv, Mission!Judge, Mission!Grace
  <2> QED
    BY <1>4, <2>1 DEF OtherInv, Mission!Judging, Mission!After, Mission!Passed, Mission!Report
<1>5. CASE Mission!Flying
  BY <1>5 DEF OtherInv, Charges, Mission!Flying, Mission!Fly, Mission!Item, Mission!Set, Mission!Read,
     Mission!Watch, Mission!Goto, Mission!Note, Mission!Report
<1> QED
  BY <1>1, <1>2, <1>3, <1>4, <1>5 DEF Mission!Next, Mission!Harness

VerdictInv ==
  scen # "none" => IF scen \in Judged THEN CheckInv ELSE OtherInv

(* verify/component/mission.py, judge_cancel_window: a node that was told  *)
(* is charged only when it went on with what it had cancelled, and B and C *)
(* pass only when what they interrupted was cancelled and stopped.  Both   *)
(* conditions are needed: a harness that is held up between a line and its *)
(* command interrupts what has ended, and a vehicle that is left flying    *)
(* opens operations while it is being landed.                              *)
THEOREM VerdictsEarned ==
  ASSUME Lag <= 1, LeftFor \cap Judged = {}
  PROVE  Bench => []VerdictTrue
<1>1. BenchInit => VerdictInv
  <2>1. Mission!Init => VerdictInv
    <3>1. Mission!Init /\ scen \notin Judged => OtherInv
      BY DEF Mission!Init, OtherInv
    <3> QED
      BY <3>1, CheckStarts DEF VerdictInv
  <2> QED
    BY <2>1 DEF BenchInit, NoMission, VerdictInv
<1>2. MissionInv /\ VerdictInv /\ [BenchNext]_benchVars => VerdictInv'
  <2> SUFFICES ASSUME MissionInv, VerdictInv, [BenchNext]_benchVars PROVE VerdictInv'
    OBVIOUS
  <2>1. [Mission!Next]_checking /\ (scen = "none" => UNCHANGED checking)
    BY DEF BenchNext, benchVars
  <2>2. scen' = scen
    BY <2>1, ScenarioStays
  <2> QED
    BY <2>1, <2>2, CheckKept, OtherKept DEF VerdictInv, MissionInv, TopHolds
<1>3. VerdictInv => VerdictTrue
  <2>1. OtherInv /\ scen \notin Judged => Mission!FairlyJudged /\ Mission!PassMeans
    BY DEF OtherInv, Charges, Judged, Mission!FairlyJudged, Mission!PassMeans
  <2> QED
    BY <2>1, CheckJudges DEF VerdictInv, VerdictTrue
<1> QED
  BY <1>1, <1>2, <1>3, MissionHeld, PTL DEF Bench

-----------------------------------------------------------------------------
(***************************************************************************)
(* A command that reads several topics                                     *)
(***************************************************************************)

(* A correction is asked for with the mark of the shot that is held.       *)
MarkedInv ==
  /\ place = "localize" => mark = shot.pose
  /\ \A m \in moves : m.right

(* What is read of a vehicle that does not turn is how it stands and how   *)
(* it is drawn.                                                            *)
Facings == [heading : Reading!Quarters, drawn : Reading!Quarters, told : BOOLEAN,
            laid : {0, 1}, down : BOOLEAN, turned : BOOLEAN]
Findings == [compass : Int, airframe : Int, camera : Int, footprint : Int]
HeadingInv ==
  task = "heading" =>
    /\ facing \in Facings /\ found \in Findings
    /\ place \in {"compass", "airframe", "camera", "footprint", "judge", "done"}
    /\ ~facing.turned =>
         /\ facing.told => facing.drawn = facing.heading
         /\ place \notin {"compass", "done"} => found.compass = facing.heading
         /\ place \in {"camera", "footprint", "judge"} => found.airframe = facing.drawn
         /\ place \in {"footprint", "judge"} => found.camera = facing.drawn
         /\ found.footprint \in {Reading!Unread, (facing.drawn + facing.laid) % 4}
         /\ result = "fault" =>
              facing.drawn # facing.heading \/ (facing.laid # 0 /\ facing.down)
         /\ result = "right" =>
              /\ facing.drawn = facing.heading
              /\ ~facing.down \/ found.footprint = Reading!Unread \/ facing.laid = 0
    /\ place # "done" => result = "none"

Drawings == [{"east", "north", "turned", "backwards", "columns"} -> BOOLEAN]
SceneInv ==
  task = "scene" =>
    /\ drawn \in Drawings
    /\ place \in {"judge", "done"}
    /\ place = "done" =>
         (result = "right" <=> ~drawn.east /\ ~drawn.north /\ ~drawn.turned)

ReadsHold == MarkedInv /\ HeadingInv /\ SceneInv

LEMMA NoSceneIs == DOMAIN Reading!NoScene = {"east", "north", "turned", "backwards", "columns"}
BY DEF Reading!NoScene

LEMMA ReadsStart == Reading!ReadsInit => ReadsHold
<1> SUFFICES ASSUME Reading!ReadsInit PROVE ReadsHold
  OBVIOUS
<1>1. task \in {"topic", "heading", "fiducial", "scene"} /\ result = "none" /\ moves = {}
      /\ place = Reading!Start[task]
  BY DEF Reading!ReadsInit, Reading!Start
<1>2. MarkedInv
  BY <1>1 DEF MarkedInv, Reading!Start
<1>3. HeadingInv
  <2>1. SUFFICES ASSUME task = "heading" PROVE HeadingInv
    BY DEF HeadingInv
  <2>2. place = "compass"
    BY <1>1, <2>1 DEF Reading!Start
  <2>3. PICK q \in Reading!Quarters, hears \in BOOLEAN, down \in BOOLEAN, laid \in {0, 1} :
          facing = [heading |-> q, drawn |-> IF hears THEN q ELSE 0, told |-> hears,
                    laid |-> laid, down |-> down, turned |-> FALSE]
    BY <2>1 DEF Reading!ReadsInit
  <2>4. facing \in Facings /\ (facing.told => facing.drawn = facing.heading)
    BY <2>3 DEF Facings, Reading!Quarters
  <2>5. found = [compass |-> Reading!Unread, airframe |-> Reading!Unread, camera |-> Reading!Unread,
                 footprint |-> Reading!Unread]
    BY DEF Reading!ReadsInit
  <2>6. found \in Findings /\ found.footprint = Reading!Unread
    BY <2>5 DEF Findings, Reading!Unread
  <2> QED
    BY <1>1, <2>2, <2>4, <2>6 DEF HeadingInv
<1>4. SceneInv
  <2>1. SUFFICES ASSUME task = "scene" PROVE SceneInv
    BY DEF SceneInv
  <2>2. place = "judge"
    BY <1>1, <2>1 DEF Reading!Start
  <2>3. drawn \in Drawings
    BY <2>1, NoSceneIs DEF Reading!ReadsInit, Drawings
  <2> QED
    BY <2>2, <2>3 DEF SceneInv
<1> QED
  BY <1>2, <1>3, <1>4 DEF ReadsHold

LEMMA MarkKept ==
  ASSUME MarkedInv, Reading!ReadsNext
  PROVE  MarkedInv'
<1> USE DEF MarkedInv, Reading!Goto, Reading!Exit, Reading!Others, Reading!Same, Reading!SameTopic,
            Reading!SameHeading, Reading!SameSurvey
<1>1. CASE Reading!ReadTopic \/ Reading!JudgeHeading \/ Reading!JudgeScene \/ Reading!LookupLate
  BY <1>1 DEF Reading!ReadTopic, Reading!JudgeHeading, Reading!JudgeScene, Reading!LookupLate
<1>2. CASE Reading!Compass \/ Reading!Lookup \/ Reading!Turn \/ Reading!Redraw
  BY <1>2 DEF Reading!Compass, Reading!Lookup, Reading!Turn, Reading!Redraw
<1>3. CASE Reading!Shoot \/ Reading!TakeShot \/ Reading!Correction \/ Reading!TakeCorrection
  BY <1>3 DEF Reading!Shoot, Reading!TakeShot, Reading!Correction, Reading!TakeCorrection
<1>4. CASE Reading!WorkOut
  BY <1>4 DEF Reading!WorkOut, Reading!PoseOf
<1>5. CASE Reading!Localize
  <2> DEFINE fair == mark = shot.pose
             asked_ == [right |-> fair, ours |-> TRUE]
  <2>1. fair = TRUE /\ place' # "localize"
    BY <1>5 DEF Reading!Localize
  <2>2. moves' \subseteq moves \cup {asked_}
    BY <1>5, Zenon DEF Reading!Localize
  <2>3. asked_.right
    BY <2>1, Zenon
  <2> QED
    BY <2>1, <2>2, <2>3
<1>6. CASE Reading!Move \/ Reading!PoseArrives
  BY <1>6 DEF Reading!Move, Reading!PoseArrives
<1>7. CASE Reading!OtherSurvey
  BY <1>7 DEF Reading!OtherSurvey
<1> QED
  BY <1>1, <1>2, <1>3, <1>4, <1>5, <1>6, <1>7 DEF Reading!ReadsNext

Asks == <<task, drawn>>

LEMMA TaskStays == Reading!ReadsNext => UNCHANGED Asks
BY DEF Asks, Reading!Others, Reading!Same, Reading!ReadTopic, Reading!JudgeHeading,
  Reading!JudgeScene, Reading!LookupLate, Reading!Compass, Reading!Lookup, Reading!Turn,
  Reading!Redraw, Reading!Shoot, Reading!TakeShot, Reading!Correction, Reading!TakeCorrection,
  Reading!WorkOut, Reading!Localize, Reading!Move, Reading!PoseArrives, Reading!OtherSurvey,
  Reading!ReadsNext


(***************************************************************************)
(* The mesh                                                                *)
(***************************************************************************)
LEMMA MeshIs ==
  /\ Reading!Mesh[1] = <<0, 0>> /\ Reading!Mesh[2] = <<1, 0>> /\ Reading!Mesh[3] = <<2, 0>>
  /\ Reading!Mesh[4] = <<0, 1>> /\ Reading!Mesh[5] = <<1, 1>> /\ Reading!Mesh[6] = <<2, 1>>
  /\ Reading!Mesh[7] = <<0, 2>> /\ Reading!Mesh[8] = <<1, 2>> /\ Reading!Mesh[9] = <<2, 2>>
BY DEF Reading!Mesh

LEMMA FirstWithIs ==
  ASSUME NEW best \in SUBSET (1 .. 9), NEW k \in best, \A j \in best : k <= j
  PROVE  Reading!FirstWith(best) = k
<1>1. Reading!FirstWith(best) \in best /\ \A j \in best : Reading!FirstWith(best) <= j
  BY Zenon DEF Reading!FirstWith
<1>2. Reading!FirstWith(best) <= k /\ k <= Reading!FirstWith(best)
  BY <1>1
<1>3. \A j \in best : j \in Int
  OBVIOUS
<1>4. \A a, b \in Int : a <= b /\ b <= a => a = b
  OBVIOUS
<1> QED
  BY <1>1, <1>2, <1>3, <1>4, Zenon

(* The first vertices of the four edges.                                   *)
TopAt == Reading!FirstWith({i \in 1 .. 9 : Reading!North(i) = 2})
BottomAt == Reading!FirstWith({i \in 1 .. 9 : Reading!North(i) = 0})
RightAt == Reading!FirstWith({i \in 1 .. 9 : Reading!East(i) = 2})
LeftAt == Reading!FirstWith({i \in 1 .. 9 : Reading!East(i) = 0})

(* Those of two that face each other lie one above the other, in whatever  *)
(* order the mesh comes.                                                   *)
LEMMA EdgesAre ==
  ASSUME drawn \in Drawings
  PROVE  /\ Reading!North(TopAt) = 2 /\ Reading!North(BottomAt) = 0
         /\ Reading!East(RightAt) = 2 /\ Reading!East(LeftAt) = 0
         /\ Reading!East(TopAt) \in {0, 2} /\ Reading!East(BottomAt) = Reading!East(TopAt)
<1>1. CASE ~drawn.backwards /\ ~drawn.columns
  <2>1. /\ Reading!North(1) = 0 /\ Reading!North(2) = 0 /\ Reading!North(3) = 0
        /\ Reading!North(4) = 1 /\ Reading!North(5) = 1 /\ Reading!North(6) = 1
        /\ Reading!North(7) = 2 /\ Reading!North(8) = 2 /\ Reading!North(9) = 2
    BY <1>1, MeshIs DEF Reading!North, Reading!Vertex
  <2>2. /\ Reading!East(1) = 0 /\ Reading!East(2) = 1 /\ Reading!East(3) = 2
        /\ Reading!East(4) = 0 /\ Reading!East(5) = 1 /\ Reading!East(6) = 2
        /\ Reading!East(7) = 0 /\ Reading!East(8) = 1 /\ Reading!East(9) = 2
    BY <1>1, MeshIs DEF Reading!East, Reading!Vertex
  <2>3. TopAt = 7 /\ BottomAt = 1
    BY <2>1, FirstWithIs DEF TopAt, BottomAt
  <2>4. RightAt = 3 /\ LeftAt = 1
    BY <2>2, FirstWithIs DEF RightAt, LeftAt
  <2> QED
    BY <2>1, <2>2, <2>3, <2>4
<1>2. CASE ~drawn.backwards /\ drawn.columns
  <2>1. /\ Reading!North(1) = 0 /\ Reading!North(2) = 1 /\ Reading!North(3) = 2
        /\ Reading!North(4) = 0 /\ Reading!North(5) = 1 /\ Reading!North(6) = 2
        /\ Reading!North(7) = 0 /\ Reading!North(8) = 1 /\ Reading!North(9) = 2
    BY <1>2, MeshIs DEF Reading!North, Reading!Vertex
  <2>2. /\ Reading!East(1) = 0 /\ Reading!East(2) = 0 /\ Reading!East(3) = 0
        /\ Reading!East(4) = 1 /\ Reading!East(5) = 1 /\ Reading!East(6) = 1
        /\ Reading!East(7) = 2 /\ Reading!East(8) = 2 /\ Reading!East(9) = 2
    BY <1>2, MeshIs DEF Reading!East, Reading!Vertex
  <2>3. TopAt = 3 /\ BottomAt = 1
    BY <2>1, FirstWithIs DEF TopAt, BottomAt
  <2>4. RightAt = 7 /\ LeftAt = 1
    BY <2>2, FirstWithIs DEF RightAt, LeftAt
  <2> QED
    BY <2>1, <2>2, <2>3, <2>4
<1>3. CASE drawn.backwards /\ ~drawn.columns
  <2>1. /\ Reading!North(1) = 2 /\ Reading!North(2) = 2 /\ Reading!North(3) = 2
        /\ Reading!North(4) = 1 /\ Reading!North(5) = 1 /\ Reading!North(6) = 1
        /\ Reading!North(7) = 0 /\ Reading!North(8) = 0 /\ Reading!North(9) = 0
    BY <1>3, MeshIs DEF Reading!North, Reading!Vertex
  <2>2. /\ Reading!East(1) = 2 /\ Reading!East(2) = 1 /\ Reading!East(3) = 0
        /\ Reading!East(4) = 2 /\ Reading!East(5) = 1 /\ Reading!East(6) = 0
        /\ Reading!East(7) = 2 /\ Reading!East(8) = 1 /\ Reading!East(9) = 0
    BY <1>3, MeshIs DEF Reading!East, Reading!Vertex
  <2>3. TopAt = 1 /\ BottomAt = 7
    BY <2>1, FirstWithIs DEF TopAt, BottomAt
  <2>4. RightAt = 1 /\ LeftAt = 3
    BY <2>2, FirstWithIs DEF RightAt, LeftAt
  <2> QED
    BY <2>1, <2>2, <2>3, <2>4
<1>4. CASE drawn.backwards /\ drawn.columns
  <2>1. /\ Reading!North(1) = 2 /\ Reading!North(2) = 1 /\ Reading!North(3) = 0
        /\ Reading!North(4) = 2 /\ Reading!North(5) = 1 /\ Reading!North(6) = 0
        /\ Reading!North(7) = 2 /\ Reading!North(8) = 1 /\ Reading!North(9) = 0
    BY <1>4, MeshIs DEF Reading!North, Reading!Vertex
  <2>2. /\ Reading!East(1) = 2 /\ Reading!East(2) = 2 /\ Reading!East(3) = 2
        /\ Reading!East(4) = 1 /\ Reading!East(5) = 1 /\ Reading!East(6) = 1
        /\ Reading!East(7) = 0 /\ Reading!East(8) = 0 /\ Reading!East(9) = 0
    BY <1>4, MeshIs DEF Reading!East, Reading!Vertex
  <2>3. TopAt = 1 /\ BottomAt = 3
    BY <2>1, FirstWithIs DEF TopAt, BottomAt
  <2>4. RightAt = 1 /\ LeftAt = 7
    BY <2>2, FirstWithIs DEF RightAt, LeftAt
  <2> QED
    BY <2>1, <2>2, <2>3, <2>4
<1> QED
  BY <1>1, <1>2, <1>3, <1>4

LEMMA SceneFaultsAre ==
  ASSUME drawn \in Drawings
  PROVE  Reading!SceneFaults = {} <=> ~drawn.east /\ ~drawn.north /\ ~drawn.turned
<1> USE EdgesAre
<1>1. Reading!SceneFaults = {} <=>
        /\ Reading!Uv(TopAt)[2] = 0 /\ Reading!Uv(BottomAt)[2] = 2
        /\ Reading!Uv(RightAt)[1] = 2 /\ Reading!Uv(LeftAt)[1] = 0
  BY DEF Reading!SceneFaults, TopAt, BottomAt, RightAt, LeftAt
<1>2. CASE ~drawn.turned
  <2>1. /\ Reading!Uv(TopAt)[2] = IF drawn.north THEN 2 ELSE 0
        /\ Reading!Uv(BottomAt)[2] = IF drawn.north THEN 0 ELSE 2
        /\ Reading!Uv(RightAt)[1] = IF drawn.east THEN 0 ELSE 2
        /\ Reading!Uv(LeftAt)[1] = IF drawn.east THEN 2 ELSE 0
    BY <1>2 DEF Reading!Uv
  <2> QED
    BY <1>1, <1>2, <2>1
<1>3. CASE drawn.turned
  <2>1. Reading!Uv(TopAt)[2] = Reading!Uv(BottomAt)[2]
    BY <1>3 DEF Reading!Uv
  <2> QED
    BY <1>1, <1>3, <2>1
<1> QED
  BY <1>2, <1>3

LEMMA SceneKept ==
  ASSUME SceneInv, Reading!ReadsNext
  PROVE  SceneInv'
<1>1. SUFFICES ASSUME task = "scene" PROVE SceneInv'
  BY TaskStays DEF SceneInv, Asks
<1>2. Reading!JudgeScene
  BY <1>1 DEF Reading!ReadsNext, Reading!ReadTopic, Reading!JudgeHeading,
  Reading!LookupLate, Reading!Compass, Reading!Lookup, Reading!Turn,
  Reading!Redraw, Reading!Shoot, Reading!TakeShot, Reading!Correction, Reading!TakeCorrection,
  Reading!WorkOut, Reading!Localize, Reading!Move, Reading!PoseArrives, Reading!OtherSurvey,
  Reading!Surveying
<1>3. UNCHANGED <<task, drawn>> /\ place' = "done"
      /\ result' = IF Reading!SceneFaults = {} THEN "right" ELSE "fault"
  BY <1>2 DEF Reading!JudgeScene, Reading!Same, Reading!Exit
<1> QED
  BY <1>1, <1>3, SceneFaultsAre DEF SceneInv

LEMMA HeadingKept ==
  ASSUME HeadingInv, Reading!ReadsNext
  PROVE  HeadingInv'
<1>1. SUFFICES ASSUME task = "heading" PROVE HeadingInv'
  BY TaskStays DEF HeadingInv, Asks
<1>2. task' = task
  BY TaskStays DEF Asks
<1>3. /\ facing \in Facings /\ found \in Findings
      /\ place \in {"compass", "airframe", "camera", "footprint", "judge", "done"}
      /\ facing.drawn \in 0 .. 3 /\ facing.heading \in 0 .. 3 /\ facing.laid \in {0, 1}
  BY <1>1 DEF HeadingInv, Facings, Reading!Quarters
<1>4. CASE Reading!Turn
  <2>1. UNCHANGED <<found, place, result>> /\ facing' \in Facings /\ facing'.turned /\ place # "done"
    BY <1>3, <1>4 DEF Reading!Turn, Reading!Goto, Facings
  <2> QED
    BY <1>1, <1>2, <1>3, <2>1 DEF HeadingInv
<1>5. CASE Reading!Redraw
  <2>1. UNCHANGED <<found, place, result>> /\ facing' \in Facings /\ place # "done"
    BY <1>3, <1>5 DEF Reading!Redraw, Reading!Goto, Facings
  <2>2. facing'.turned
    BY <1>1, <1>3, <1>5 DEF Reading!Redraw, HeadingInv, Facings
  <2> QED
    BY <1>1, <1>2, <1>3, <2>1, <2>2 DEF HeadingInv
<1>6. CASE Reading!Compass
  <2>1. UNCHANGED <<facing, result>> /\ place # "done"
        /\ found' = [found EXCEPT !.compass = facing.heading]
    BY <1>6 DEF Reading!Compass, Reading!Goto
  <2>4. place' = IF place = "compass" THEN "airframe" ELSE place
    BY <1>6, Zenon DEF Reading!Compass, Reading!Goto
  <2>5. facing.heading \in Int
    BY <1>3
  <2>2. found' \in Findings /\ found'.compass = facing.heading
        /\ found'.airframe = found.airframe /\ found'.camera = found.camera
        /\ found'.footprint = found.footprint
    BY <1>3, <2>1, <2>5 DEF Findings
  <2>3. result = "none"
    BY <1>1, <2>1 DEF HeadingInv
  <2> QED
    BY <1>1, <1>2, <1>3, <2>1, <2>2, <2>3, <2>4 DEF HeadingInv
<1>7. CASE Reading!Lookup
  <2>1. UNCHANGED <<facing, result>> /\ place \in {"airframe", "camera", "footprint"}
        /\ place' = (CASE place = "airframe" -> "camera" [] place = "camera" -> "footprint"
                       [] OTHER -> "judge")
        /\ found' = [found EXCEPT ![place] =
                IF place = "footprint" THEN (facing.drawn + facing.laid) % 4 ELSE facing.drawn]
    BY <1>7 DEF Reading!Lookup, Reading!Goto
  <2>2. result = "none"
    BY <1>1, <2>1 DEF HeadingInv
  <2>3. (facing.drawn + facing.laid) % 4 \in Int /\ facing.drawn \in Int
    BY <1>3
  <2>4. CASE place = "airframe"
    <3>1. /\ place' = "camera" /\ found' \in Findings /\ found'.airframe = facing.drawn
          /\ found'.compass = found.compass /\ found'.footprint = found.footprint
      BY <1>3, <2>1, <2>3, <2>4 DEF Findings
    <3> QED
      BY <1>1, <1>2, <1>3, <2>1, <2>2, <2>4, <3>1 DEF HeadingInv
  <2>5. CASE place = "camera"
    <3>1. /\ place' = "footprint" /\ found' \in Findings /\ found'.camera = facing.drawn
          /\ found'.compass = found.compass /\ found'.footprint = found.footprint
          /\ found'.airframe = found.airframe
      BY <1>3, <2>1, <2>3, <2>5 DEF Findings
    <3> QED
      BY <1>1, <1>2, <1>3, <2>1, <2>2, <2>5, <3>1 DEF HeadingInv
  <2>6. CASE place = "footprint"
    <3>1. /\ place' = "judge" /\ found' \in Findings
          /\ found'.compass = found.compass /\ found'.airframe = found.airframe
          /\ found'.camera = found.camera
          /\ found'.footprint = (facing.drawn + facing.laid) % 4
      BY <1>3, <2>1, <2>3, <2>6 DEF Findings
    <3> QED
      BY <1>1, <1>2, <1>3, <2>1, <2>2, <2>6, <3>1 DEF HeadingInv
  <2> QED
    BY <2>1, <2>4, <2>5, <2>6
<1>8. CASE Reading!LookupLate
  <2>1. UNCHANGED <<facing, found>> /\ place \in {"compass", "airframe", "camera", "footprint"}
    BY <1>8 DEF Reading!LookupLate, Reading!SameHeading
  <2>2. IF place = "footprint" THEN place' = "judge" /\ result' = result
        ELSE place' = "done" /\ result' = "nothing"
    BY <1>8 DEF Reading!LookupLate, Reading!Goto, Reading!Exit
  <2> QED
    BY <1>1, <1>2, <1>3, <2>1, <2>2 DEF HeadingInv
<1>9. CASE Reading!JudgeHeading
  <2>1. UNCHANGED <<facing, found>> /\ place = "judge" /\ place' = "done"
        /\ result' = IF Reading!HeadingFaults = {} THEN "right" ELSE "fault"
    BY <1>9 DEF Reading!JudgeHeading, Reading!SameHeading, Reading!Exit
  <2>2. Reading!HeadingFaults = {} <=>
          /\ found.airframe = found.compass
          /\ ~(facing.down /\ found.footprint \notin {Reading!Unread, found.camera})
    BY DEF Reading!HeadingFaults
  <2>3. SUFFICES ASSUME ~facing.turned PROVE HeadingInv'
    BY <1>1, <1>2, <1>3, <2>1 DEF HeadingInv
  <2>4. /\ found.compass = facing.heading /\ found.airframe = facing.drawn
        /\ found.camera = facing.drawn
        /\ found.footprint \in {Reading!Unread, (facing.drawn + facing.laid) % 4}
    BY <1>1, <2>1, <2>3 DEF HeadingInv
  <2>5. (facing.drawn + facing.laid) % 4 = facing.drawn <=> facing.laid = 0
    BY <1>3
  <2> QED
    BY <1>1, <1>2, <1>3, <2>1, <2>2, <2>3, <2>4, <2>5 DEF HeadingInv
<1> QED
  BY <1>1, <1>4, <1>5, <1>6, <1>7, <1>8, <1>9 DEF Reading!ReadsNext, Reading!ReadTopic, Reading!JudgeScene,
  Reading!Shoot, Reading!TakeShot, Reading!Correction, Reading!TakeCorrection,
  Reading!WorkOut, Reading!Localize, Reading!Move, Reading!PoseArrives, Reading!OtherSurvey,
  Reading!Surveying

ReadsInv == task # "none" => ReadsHold

LEMMA ReadsHeld == Bench => []ReadsInv
<1>1. BenchInit => ReadsInv
  BY ReadsStart DEF BenchInit, NoReads, ReadsInv
<1>2. ReadsInv /\ [BenchNext]_benchVars => ReadsInv'
  <2> SUFFICES ASSUME ReadsInv, [BenchNext]_benchVars PROVE ReadsInv'
    OBVIOUS
  <2>1. CASE task # "none" /\ Reading!ReadsNext
    BY <2>1, TaskStays, MarkKept, HeadingKept, SceneKept DEF ReadsInv, ReadsHold, Asks
  <2>2. CASE UNCHANGED reading
    BY <2>2 DEF reading, ReadsInv, ReadsHold, MarkedInv, HeadingInv, SceneInv
  <2> QED
    BY <2>1, <2>2 DEF BenchNext, benchVars
<1> QED
  BY <1>1, <1>2, PTL DEF Bench

(* verify/component/uas.py, fiducial_check, heading_check and scene_check: *)
(* what is drawn wrong, and nothing else, is a fault, and the marker is    *)
(* marked where the shot shows it.                                         *)
THEOREM ReadsAreTrue == Bench => []ReadsTrue
<1>1. ReadsInv => ReadsTrue
  BY DEF ReadsInv, ReadsHold, MarkedInv, HeadingInv, SceneInv, ReadsTrue, Reading!DrawnIsJudged,
         Reading!MarkedWhereItStood
<1> QED
  BY <1>1, ReadsHeld, PTL

-----------------------------------------------------------------------------
(***************************************************************************)
(* A command that writes the rows of its frames                            *)
(***************************************************************************)

Times == [Rows!Stamps -> Int]
BoxRow == [stamp : Rows!Stamps, index : {0, 1}, held : BOOLEAN,
           citing : SUBSET [index : Int, stamp : Int]]
Written == [stamp : Rows!Stamps, boxes : SUBSET BoxRow]
RowsTyped ==
  /\ clock \in Nat /\ came \in Times /\ heardAt \in Times
  /\ judged \in Seq(Rows!Stamps) /\ pending \in Seq(Rows!Stamps) /\ rows \in Seq(Written)

(* Nothing came, or was heard, after now.                                  *)
Past == {Rows!Never} \cup 0 .. clock
TimesInv == \A s \in Rows!Stamps : came[s] \in Past /\ heardAt[s] \in Past

(* What was heard since a verdict was.                                     *)
Since(s) == {t \in Rows!Stamps : heardAt[t] >= heardAt[s]} \ {s}

(* The verdicts that are kept are the last that were heard, in that order; *)
(* since one that was forgotten, as many others were heard as are kept.    *)
JudgedInv ==
  /\ Len(judged) <= Depth
  /\ \A i \in 1 .. Len(judged) : heardAt[judged[i]] # Rows!Never
  /\ \A i, j \in 1 .. Len(judged) :
       i < j => judged[i] # judged[j] /\ heardAt[judged[i]] <= heardAt[judged[j]]
ForgottenInv ==
  \A s \in Rows!Stamps :
    heardAt[s] # Rows!Never /\ ~Rows!Contains(judged, s) => Cardinality(Since(s)) >= Depth

(* A frame that came waits or is written, and not twice.                   *)
PendingInv ==
  /\ \A i \in 1 .. Len(pending) : came[pending[i]] # Rows!Never
  /\ \A i, j \in 1 .. Len(pending) : pending[i] = pending[j] => i = j
WrittenInv ==
  /\ \A i \in 1 .. Len(rows) : came[rows[i].stamp] # Rows!Never
  /\ \A i, j \in 1 .. Len(rows) : rows[i].stamp = rows[j].stamp => i = j
  /\ \A i \in 1 .. Len(rows), j \in 1 .. Len(pending) : rows[i].stamp # pending[j]
  /\ \A s \in Rows!Stamps : came[s] # Rows!Never =>
       (\E j \in 1 .. Len(pending) : pending[j] = s) \/ (\E i \in 1 .. Len(rows) : rows[i].stamp = s)
DoneInv == phase = "done" => pending = <<>>

(* A row that cites no verdict of a frame of the window has missed none,   *)
(* one that was late, or one that was forgotten.                           *)
Missed(s) ==
  \/ came[s] > Window
  \/ heardAt[s] = Rows!Never /\ clock >= came[s] + Wait
  \/ heardAt[s] >= came[s] + Wait
  \/ heardAt[s] # Rows!Never /\ Cardinality(Since(s)) >= Depth
NamedInv ==
  \A i \in 1 .. Len(rows) : \A row \in rows[i].boxes :
    /\ row.stamp = rows[i].stamp
    /\ \A v \in row.citing : v.index = row.index /\ v.stamp = row.stamp
    /\ ~row.held => Missed(row.stamp)

RowsHold ==
  RowsTyped /\ TimesInv /\ JudgedInv /\ ForgottenInv /\ PendingInv /\ WrittenInv /\ DoneInv
  /\ NamedInv

LEMMA RowsBounds ==
  /\ Frames \in Nat /\ Depth \in Nat /\ Depth >= 1 /\ Wait \in Nat /\ Wait >= 1 /\ Window \in Nat
  /\ Rows!Stamps \subseteq Int /\ Rows!Never = -1
  /\ Rows!End \in Nat /\ Rows!End >= Window + Wait
BY RowsAssumption DEF Rows!Stamps, Rows!Never, Rows!End

LEMMA RowsStart == Rows!RowsInit => RowsHold
<1> SUFFICES ASSUME Rows!RowsInit PROVE RowsHold
  OBVIOUS
<1> USE RowsBounds
<1>1. /\ clock = 0 /\ judged = <<>> /\ pending = <<>> /\ rows = <<>>
      /\ came \in Times /\ heardAt \in Times
      /\ \A s \in Rows!Stamps : came[s] = Rows!Never /\ heardAt[s] = Rows!Never
  BY DEF Rows!RowsInit, Times
<1>2. RowsTyped /\ TimesInv
  BY <1>1 DEF RowsTyped, TimesInv, Past
<1>3. JudgedInv /\ ForgottenInv /\ PendingInv /\ WrittenInv /\ DoneInv /\ NamedInv
  BY <1>1 DEF JudgedInv, ForgottenInv, PendingInv, WrittenInv, DoneInv, NamedInv
<1> QED
  BY <1>2, <1>3 DEF RowsHold

LEMMA RowsSameCardinality == \A S : Rows!Cardinality(S) = Cardinality(S)
BY DEF Rows!Cardinality, Cardinality

LEMMA SinceFinite ==
  ASSUME NEW S \in SUBSET Rows!Stamps
  PROVE  IsFiniteSet(S) /\ Cardinality(S) \in Nat
<1>1. IsFiniteSet(Rows!Stamps)
  BY RowsBounds, FS_Interval DEF Rows!Stamps
<1> QED
  BY <1>1, FS_Subset, FS_CardinalityType

LEMMA SinceGrows ==
  ASSUME NEW S \in SUBSET Rows!Stamps, NEW T \in SUBSET S, Cardinality(T) >= Depth
  PROVE  Cardinality(S) >= Depth
<1>1. Cardinality(T) <= Cardinality(S)
  BY SinceFinite, FS_Subset
<1>2. Cardinality(T) \in Nat /\ Cardinality(S) \in Nat
  BY SinceFinite
<1> QED
  BY <1>1, <1>2, RowsBounds

(* As many as there are places.                                            *)
LEMMA AsMany ==
  ASSUME NEW S \in SUBSET Rows!Stamps, NEW f \in [1 .. Depth -> S],
         \A i, j \in 1 .. Depth : f[i] = f[j] => i = j
  PROVE  Cardinality(S) >= Depth
<1>1. f \in Injection(1 .. Depth, S)
  BY DEF Injection, IsInjective
<1>2. Cardinality(1 .. Depth) <= Cardinality(S)
  BY <1>1, SinceFinite, FS_Injection
<1>3. Cardinality(1 .. Depth) = Depth
  BY RowsBounds, FS_Interval
<1> QED
  BY <1>2, <1>3, SinceFinite

LEMMA RowTyped ==
  ASSUME RowsTyped, NEW i \in 1 .. Len(rows)
  PROVE  /\ rows[i].stamp \in Rows!Stamps
         /\ \A row \in rows[i].boxes : row.stamp \in Rows!Stamps
<1>1. rows[i] \in Written
  BY DEF RowsTyped
<1>2. rows[i].stamp \in Rows!Stamps /\ rows[i].boxes \subseteq BoxRow
  BY <1>1 DEF Written
<1> QED
  BY <1>2 DEF BoxRow

LEMMA RowsStay ==
  ASSUME RowsHold, UNCHANGED <<clock, judged, pending, rows, came, heardAt>>,
         phase' = phase \/ phase' # "done"
  PROVE  RowsHold'
<1> USE DEF RowsHold
<1>1. RowsTyped' /\ TimesInv'
  BY DEF RowsTyped, TimesInv, Past
<1>2. JudgedInv' /\ PendingInv' /\ WrittenInv' /\ DoneInv'
  BY DEF JudgedInv, PendingInv, WrittenInv, DoneInv
<1>3. \A s : Since(s)' = Since(s)
  BY DEF Since
<1>4. ForgottenInv'
  BY <1>3 DEF ForgottenInv
<1>5. \A s : Missed(s)' <=> Missed(s)
  BY <1>3 DEF Missed
<1>6. NamedInv'
  BY <1>5 DEF NamedInv
<1> QED
  BY <1>1, <1>2, <1>4, <1>6

LEMMA VerdictsKeep ==
  ASSUME RowsHold, Rows!OnVerdicts
  PROVE  RowsHold'
<1> USE RowsBounds DEF RowsHold
<1>1. PICK s \in Rows!Stamps :
        /\ heardAt[s] = Rows!Never \/ (judged # <<>> /\ s = Rows!Last(judged))
        /\ LET kept == IF Rows!Contains(judged, s) THEN judged ELSE Append(judged, s)
           IN judged' = IF Len(kept) > Depth THEN Tail(kept) ELSE kept
        /\ heardAt' = [heardAt EXCEPT ![s] = IF @ = Rows!Never THEN clock ELSE @]
        /\ UNCHANGED <<asked, phase, clock, pending, rows, came>>
  BY DEF Rows!OnVerdicts
<1>2. /\ Len(judged) \in Nat /\ \A i \in 1 .. Len(judged) : judged[i] \in Rows!Stamps
      /\ \A t \in Rows!Stamps : heardAt[t] \in Int /\ came[t] \in Int
      /\ clock \in Nat /\ judged \in Seq(Rows!Stamps)
  BY DEF RowsTyped, Times
<1>5. \A t \in Rows!Stamps : heardAt[t] <= clock /\ (heardAt[t] # Rows!Never => heardAt[t] >= 0)
  BY <1>2 DEF TimesInv, Past
<1>3. CASE heardAt[s] # Rows!Never
  <2>1. Rows!Contains(judged, s)
    BY <1>1, <1>2, <1>3 DEF Rows!Contains, Rows!Last
  <2>2. judged' = judged
    BY <1>1, <2>1 DEF JudgedInv
  <2>3. heardAt' = heardAt
    BY <1>1, <1>3 DEF RowsTyped, Times
  <2> QED
    BY <1>1, <2>2, <2>3, RowsStay
<1>4. CASE heardAt[s] = Rows!Never
  <2>1. ~Rows!Contains(judged, s)
    BY <1>4 DEF Rows!Contains, JudgedInv
  <2>2. /\ heardAt' \in Times /\ heardAt'[s] = clock
        /\ \A t \in Rows!Stamps : t # s => heardAt'[t] = heardAt[t]
    BY <1>1, <1>4 DEF RowsTyped, Times
  <2>3. TimesInv'
    BY <1>1, <1>2, <2>2 DEF TimesInv, Past
  <2>4. \A t \in Rows!Stamps : heardAt[t] # Rows!Never => Since(t) \subseteq Since(t)'
    <3> SUFFICES ASSUME NEW t \in Rows!Stamps, heardAt[t] # Rows!Never, NEW u \in Since(t)
                 PROVE  u \in Since(t)'
      OBVIOUS
    <3>1. u \in Rows!Stamps /\ u # t /\ heardAt[u] >= heardAt[t]
      BY DEF Since
    <3>2. u # s /\ t # s
      BY <1>2, <1>4, <1>5, <3>1
    <3> QED
      BY <2>2, <3>1, <3>2 DEF Since
  <2> DEFINE kept == Append(judged, s)
  <2>5. judged' = IF Len(kept) > Depth THEN Tail(kept) ELSE kept
    BY <1>1, <2>1
  <2>6. /\ kept \in Seq(Rows!Stamps) /\ Len(kept) = Len(judged) + 1
        /\ \A i \in 1 .. Len(judged) : kept[i] = judged[i]
        /\ kept[Len(judged) + 1] = s
    BY <1>2
  <2> HIDE DEF kept
  <2>7. /\ \A i \in 1 .. Len(kept) : heardAt'[kept[i]] # Rows!Never /\ kept[i] \in Rows!Stamps
        /\ \A i, j \in 1 .. Len(kept) :
             i < j => kept[i] # kept[j] /\ heardAt'[kept[i]] <= heardAt'[kept[j]]
    <3>1. \A i \in 1 .. Len(judged) : judged[i] # s /\ heardAt'[judged[i]] = heardAt[judged[i]]
      BY <1>2, <1>4, <2>2 DEF JudgedInv
    <3>2. \A i \in 1 .. Len(judged) : heardAt[judged[i]] <= clock
      BY <1>2, <1>5
    <3>3. \A i \in 1 .. Len(kept) : i \in 1 .. Len(judged) \/ i = Len(judged) + 1
      BY <1>2, <2>6
    <3>4. \A i \in 1 .. Len(kept) : heardAt'[kept[i]] # Rows!Never /\ kept[i] \in Rows!Stamps
      BY <1>2, <2>2, <2>6, <3>1, <3>3 DEF JudgedInv
    <3>5. ASSUME NEW i \in 1 .. Len(kept), NEW j \in 1 .. Len(kept), i < j
          PROVE  kept[i] # kept[j] /\ heardAt'[kept[i]] <= heardAt'[kept[j]]
      <4>1. i \in 1 .. Len(judged) /\ kept[i] = judged[i]
        BY <1>2, <2>6, <3>5
      <4>2. CASE j = Len(judged) + 1
        BY <2>2, <2>6, <3>1, <3>2, <4>1, <4>2
      <4>3. CASE j \in 1 .. Len(judged)
        BY <2>6, <3>1, <3>5, <4>1, <4>3 DEF JudgedInv
      <4> QED
        BY <3>3, <4>2, <4>3
    <3> QED
      BY <3>4, <3>5
  <2>8. /\ JudgedInv' /\ judged' \in Seq(Rows!Stamps)
        /\ \A i \in 1 .. Len(kept) : i > 1 => Rows!Contains(judged', kept[i])
        /\ Len(kept) <= Depth => Len(kept) >= 1 /\ Rows!Contains(judged', kept[1])
    <3>1. CASE Len(kept) > Depth
      <4>1. Len(kept) = Depth + 1 /\ judged' = Tail(kept)
        BY <1>2, <2>5, <2>6, <3>1 DEF JudgedInv
      <4>2. /\ judged' \in Seq(Rows!Stamps) /\ Len(judged') = Depth
            /\ \A i \in 1 .. Len(judged') : judged'[i] = kept[i + 1]
        BY <2>6, <4>1
      <4>3. JudgedInv'
        BY <2>7, <4>1, <4>2 DEF JudgedInv
      <4>4. \A i \in 1 .. Len(kept) : i > 1 => Rows!Contains(judged', kept[i])
        <5> SUFFICES ASSUME NEW i \in 1 .. Len(kept), i > 1 PROVE Rows!Contains(judged', kept[i])
          OBVIOUS
        <5>1. i - 1 \in 1 .. Len(judged') /\ judged'[i - 1] = kept[i]
          BY <4>1, <4>2
        <5> QED
          BY <5>1 DEF Rows!Contains
      <4> QED
        BY <2>6, <3>1, <4>1, <4>2, <4>3, <4>4
    <3>2. CASE ~(Len(kept) > Depth)
      <4>1. judged' = kept
        BY <2>5, <3>2
      <4> QED
        BY <1>2, <2>6, <2>7, <3>2, <4>1 DEF JudgedInv, Rows!Contains
    <3> QED
      BY <3>1, <3>2
  <2>9. ForgottenInv'
    <3> SUFFICES ASSUME NEW t \in Rows!Stamps, heardAt'[t] # Rows!Never,
                        ~Rows!Contains(judged', t)
                 PROVE  Cardinality(Since(t)') >= Depth
      BY DEF ForgottenInv
    <3>1. CASE heardAt[t] # Rows!Never /\ ~Rows!Contains(judged, t)
      <4>1. Cardinality(Since(t)) >= Depth
        BY <3>1 DEF ForgottenInv
      <4>2. Since(t) \subseteq Since(t)' /\ Since(t)' \subseteq Rows!Stamps
        BY <2>4, <3>1 DEF Since
      <4> QED
        BY <4>1, <4>2, SinceGrows
    <3>2. CASE ~(heardAt[t] # Rows!Never /\ ~Rows!Contains(judged, t))
      <4>1. \E i \in 1 .. Len(kept) : kept[i] = t
        <5>1. CASE t = s
          BY <1>2, <2>6, <5>1
        <5>2. CASE t # s
          <6>1. Rows!Contains(judged, t)
            BY <2>2, <3>2, <5>2
          <6> QED
            BY <1>2, <2>6, <6>1 DEF Rows!Contains
        <5> QED
          BY <5>1, <5>2
      <4>2. Len(kept) > Depth /\ kept[1] = t
        BY <1>2, <2>6, <2>8, <4>1
      <4>3. Len(kept) = Depth + 1
        BY <1>2, <2>6, <4>2 DEF JudgedInv
      <4> DEFINE f == [i \in 1 .. Depth |-> kept[i + 1]]
      <4>4. f \in [1 .. Depth -> Since(t)']
        <5> SUFFICES ASSUME NEW i \in 1 .. Depth PROVE kept[i + 1] \in Since(t)'
          OBVIOUS
        <5>1. i + 1 \in 1 .. Len(kept) /\ 1 \in 1 .. Len(kept) /\ 1 < i + 1
          BY <4>3
        <5>2. kept[i + 1] \in Rows!Stamps /\ kept[1] # kept[i + 1]
              /\ heardAt'[kept[1]] <= heardAt'[kept[i + 1]]
          BY <2>7, <5>1
        <5>3. heardAt'[t] \in Int /\ heardAt'[kept[i + 1]] \in Int
          BY <2>2, <5>2 DEF Times
        <5> QED
          BY <4>2, <5>2, <5>3 DEF Since
      <4>5. \A i, j \in 1 .. Depth : f[i] = f[j] => i = j
        <5> SUFFICES ASSUME NEW i \in 1 .. Depth, NEW j \in 1 .. Depth, kept[i + 1] = kept[j + 1]
                     PROVE  i = j
          OBVIOUS
        <5>1. i + 1 \in 1 .. Len(kept) /\ j + 1 \in 1 .. Len(kept)
          BY <4>3
        <5>2. ~(i + 1 < j + 1) /\ ~(j + 1 < i + 1)
          BY <2>7, <5>1
        <5> QED
          BY <5>2
      <4>6. Since(t)' \subseteq Rows!Stamps
        BY DEF Since
      <4> HIDE DEF f
      <4> QED
        BY <4>4, <4>5, <4>6, AsMany
    <3> QED
      BY <3>1, <3>2
  <2>10. NamedInv'
    <3> SUFFICES ASSUME NEW t \in Rows!Stamps, Missed(t) PROVE Missed(t)'
      <4>1. ASSUME NEW i \in 1 .. Len(rows), NEW row \in rows[i].boxes
            PROVE  row.stamp \in Rows!Stamps
        BY <4>1, RowTyped
      <4> QED
        BY <1>1, <4>1 DEF NamedInv
    <3>1. CASE heardAt[t] = Rows!Never
      BY <1>1, <1>2, <2>2, <3>1 DEF Missed
    <3>2. CASE heardAt[t] # Rows!Never
      <4>1. heardAt'[t] = heardAt[t] /\ Since(t) \subseteq Since(t)' /\ Since(t)' \subseteq Rows!Stamps
        BY <1>4, <2>2, <2>4, <3>2 DEF Since
      <4>2. Cardinality(Since(t)) >= Depth => Cardinality(Since(t)') >= Depth
        BY <4>1, SinceGrows
      <4> QED
        BY <1>1, <3>2, <4>1, <4>2 DEF Missed
    <3> QED
      BY <3>1, <3>2
  <2>11. RowsTyped'
    BY <1>1, <2>2, <2>8 DEF RowsTyped
  <2>12. PendingInv' /\ WrittenInv' /\ DoneInv'
    BY <1>1 DEF PendingInv, WrittenInv, DoneInv
  <2> QED
    BY <2>3, <2>8, <2>9, <2>10, <2>11, <2>12
<1> QED
  BY <1>3, <1>4

LEMMA CollectKeeps ==
  ASSUME RowsHold, Rows!Collect
  PROVE  RowsHold'
<1> USE RowsBounds DEF RowsHold
<1>1. PICK s \in Rows!Stamps :
        /\ came[s] = Rows!Never /\ came' = [came EXCEPT ![s] = clock]
        /\ pending' = Append(pending, s)
        /\ phase # "done" /\ UNCHANGED <<asked, phase, clock, judged, rows, heardAt>>
  BY DEF Rows!Collect
<1>2. clock \in Nat /\ Len(pending) \in Nat /\ pending \in Seq(Rows!Stamps)
  BY DEF RowsTyped
<1>3. /\ came' \in Times /\ came'[s] = clock
      /\ \A t \in Rows!Stamps : t # s => came'[t] = came[t]
  BY <1>1, <1>2 DEF RowsTyped, Times
<1>4. /\ pending' \in Seq(Rows!Stamps) /\ Len(pending') = Len(pending) + 1
      /\ \A i \in 1 .. Len(pending) : pending'[i] = pending[i] /\ pending[i] \in Rows!Stamps
      /\ pending'[Len(pending) + 1] = s
      /\ \A i \in 1 .. Len(pending') : i \in 1 .. Len(pending) \/ i = Len(pending) + 1
  BY <1>1, <1>2
<1>5. RowsTyped' /\ TimesInv'
  BY <1>1, <1>2, <1>3, <1>4 DEF RowsTyped, TimesInv, Past
<1>6. JudgedInv' /\ ForgottenInv'
  BY <1>1 DEF JudgedInv, ForgottenInv, Since
<1>7. \A i \in 1 .. Len(pending) : pending[i] # s
  BY <1>1 DEF PendingInv
<1>8. PendingInv'
  BY <1>1, <1>2, <1>3, <1>4, <1>7 DEF PendingInv
<1>9. \A i \in 1 .. Len(rows) : rows[i].stamp \in Rows!Stamps /\ rows[i].stamp # s
  BY <1>1, RowTyped DEF WrittenInv
<1>10. WrittenInv'
  <2>1. \A i \in 1 .. Len(rows) : came'[rows[i].stamp] # Rows!Never
    BY <1>3, <1>9 DEF WrittenInv
  <2>2. \A i \in 1 .. Len(rows), j \in 1 .. Len(pending') : rows[i].stamp # pending'[j]
    BY <1>4, <1>9 DEF WrittenInv
  <2>3. ASSUME NEW t \in Rows!Stamps, came'[t] # Rows!Never
        PROVE  (\E j \in 1 .. Len(pending') : pending'[j] = t) \/ (\E i \in 1 .. Len(rows) : rows[i].stamp = t)
    <3>1. CASE t = s
      BY <1>2, <1>4, <3>1
    <3>2. CASE t # s
      <4>1. came[t] # Rows!Never
        BY <1>3, <2>3, <3>2
      <4>2. CASE \E j \in 1 .. Len(pending) : pending[j] = t
        BY <1>2, <1>4, <4>2
      <4> QED
        BY <4>1, <4>2 DEF WrittenInv
    <3> QED
      BY <3>1, <3>2
  <2> QED
    BY <1>1, <2>1, <2>2, <2>3 DEF WrittenInv
<1>11. DoneInv'
  BY <1>1 DEF DoneInv
<1>12. NamedInv'
  <2> SUFFICES ASSUME NEW i \in 1 .. Len(rows), NEW row \in rows[i].boxes, Missed(row.stamp)
               PROVE  Missed(row.stamp)'
    BY <1>1 DEF NamedInv
  <2>1. row.stamp \in Rows!Stamps /\ row.stamp # s
    BY <1>9, RowTyped DEF NamedInv
  <2>2. came'[row.stamp] = came[row.stamp] /\ Since(row.stamp)' = Since(row.stamp)
    BY <1>1, <1>3, <2>1 DEF Since
  <2> QED
    BY <1>1, <2>2 DEF Missed
<1> QED
  BY <1>5, <1>6, <1>8, <1>10, <1>11, <1>12

LEMMA TickKeeps ==
  ASSUME RowsHold, Rows!Tick
  PROVE  RowsHold'
<1> USE RowsBounds DEF RowsHold
<1>1. clock' = clock + 1 /\ clock \in Nat /\ UNCHANGED <<asked, phase, judged, pending, rows, came, heardAt>>
  BY DEF Rows!Tick, RowsTyped
<1>2. RowsTyped' /\ TimesInv'
  BY <1>1 DEF RowsTyped, TimesInv, Past
<1>3. JudgedInv' /\ ForgottenInv' /\ PendingInv' /\ WrittenInv' /\ DoneInv'
  <2>1. JudgedInv' /\ PendingInv' /\ WrittenInv' /\ DoneInv'
    BY <1>1 DEF JudgedInv, PendingInv, WrittenInv, DoneInv
  <2>2. ForgottenInv'
    BY <1>1 DEF ForgottenInv, Since
  <2> QED
    BY <2>1, <2>2
<1>4. NamedInv'
  <2> SUFFICES ASSUME NEW i \in 1 .. Len(rows), NEW row \in rows[i].boxes, Missed(row.stamp)
               PROVE  Missed(row.stamp)'
    BY <1>1 DEF NamedInv
  <2>1. row.stamp \in Rows!Stamps
    BY RowTyped
  <2>2. came[row.stamp] \in Int /\ Since(row.stamp)' = Since(row.stamp)
    BY <1>1, <2>1 DEF Since, RowsTyped, Times
  <2> QED
    BY <1>1, <2>2 DEF Missed
<1> QED
  BY <1>2, <1>3, <1>4

(* What is popped while it has waited.                                     *)
LEMMA RipeIs ==
  ASSUME RowsTyped, NEW after
  PROVE  /\ Rows!Ripe(after) \in 0 .. Len(pending)
         /\ \A i \in 1 .. Rows!Ripe(after) : Rows!Waited(after, pending[i])
         /\ Rows!Ripe(after) = Len(pending) \/ ~Rows!Waited(after, pending[Rows!Ripe(after) + 1])
<1> DEFINE Ends(n) == n = Len(pending) \/ ~Rows!Waited(after, pending[n + 1])
           S == {n \in 0 .. Len(pending) : Ends(n)}
<1>1. Len(pending) \in S /\ S \subseteq Nat
  BY DEF RowsTyped
<1>2. PICK n \in S : \A m \in S : n <= m
  BY <1>1, Least
<1>3. n \in 0 .. Len(pending) /\ Ends(n)
  OBVIOUS
<1>4. \A i \in 1 .. n : Rows!Waited(after, pending[i])
  <2> SUFFICES ASSUME NEW i \in 1 .. n, ~Rows!Waited(after, pending[i]) PROVE FALSE
    OBVIOUS
  <2>1. i - 1 \in 0 .. Len(pending) /\ (i - 1) + 1 = i /\ ~(n <= i - 1)
    BY <1>3
  <2>2. i - 1 \in S
    BY <2>1
  <2> QED
    BY <1>2, <2>1, <2>2
<1> QED
  BY <1>3, <1>4, Zenon DEF Rows!Ripe

LEMMA VerdictIs ==
  ASSUME NEW stamp \in Rows!Stamps
  PROVE  \A v \in Rows!Range(Rows!Verdict(stamp)) :
           v.stamp = stamp /\ v \in [index : Int, stamp : Int]
<1>1. stamp \in Int
  BY RowsBounds
<1> QED
  BY <1>1 DEF Rows!Range, Rows!Verdict

LEMMA OfIs ==
  ASSUME NEW stamp \in Rows!Stamps, NEW index \in {0, 1}
  PROVE  LET row == Rows!Of(stamp, index)
         IN /\ row \in BoxRow /\ row.stamp = stamp
            /\ row.held <=> Rows!Contains(judged, stamp)
            /\ \A v \in row.citing : v.index = row.index /\ v.stamp = row.stamp
<1> DEFINE cites == IF Rows!Contains(judged, stamp) THEN Rows!ByIndex(stamp, index) ELSE {}
           kept == Rows!Contains(judged, stamp)
           row == [stamp |-> stamp, index |-> index, held |-> kept, citing |-> cites]
<1>1. Rows!Of(stamp, index) = row
  BY Zenon DEF Rows!Of
<1>2. \A v \in cites : v.index = index /\ v.stamp = stamp /\ v \in [index : Int, stamp : Int]
  BY VerdictIs DEF Rows!ByIndex
<1>3. kept \in BOOLEAN
  BY DEF Rows!Contains
<1> HIDE DEF kept, cites
<1>4. row \in BoxRow /\ row.stamp = stamp /\ row.index = index /\ row.held = kept /\ row.citing = cites
  BY <1>2, <1>3 DEF BoxRow
<1>5. row.held <=> Rows!Contains(judged, stamp)
  BY <1>4 DEF kept
<1> HIDE DEF row
<1> QED
  BY <1>1, <1>2, <1>4, <1>5

LEMMA RowsOfIs ==
  ASSUME NEW stamp \in Rows!Stamps
  PROVE  LET frame == Rows!RowsOf(stamp)
         IN /\ frame \in Written /\ frame.stamp = stamp
            /\ \A row \in frame.boxes :
                 /\ row.stamp = stamp
                 /\ row.held <=> Rows!Contains(judged, stamp)
                 /\ \A v \in row.citing : v.index = row.index /\ v.stamp = row.stamp
<1> DEFINE boxes == {Rows!Of(stamp, index) : index \in Rows!Localized(stamp)}
<1>1. Rows!RowsOf(stamp) = [stamp |-> stamp, boxes |-> boxes]
  BY Zenon DEF Rows!RowsOf
<1>2. Rows!Localized(stamp) \subseteq {0, 1}
  BY DEF Rows!Localized, Rows!Boxes
<1>3. \A row \in boxes :
        /\ row \in BoxRow /\ row.stamp = stamp
        /\ row.held <=> Rows!Contains(judged, stamp)
        /\ \A v \in row.citing : v.index = row.index /\ v.stamp = row.stamp
  <2> SUFFICES ASSUME NEW index \in Rows!Localized(stamp)
               PROVE  LET row == Rows!Of(stamp, index)
                      IN /\ row \in BoxRow /\ row.stamp = stamp
                         /\ row.held <=> Rows!Contains(judged, stamp)
                         /\ \A v \in row.citing : v.index = row.index /\ v.stamp = row.stamp
    BY Zenon
  <2>1. index \in {0, 1}
    BY <1>2
  <2> QED
    BY <2>1, OfIs, Zenon
<1> HIDE DEF boxes
<1>4. [stamp |-> stamp, boxes |-> boxes] \in Written
  BY <1>3 DEF Written
<1> QED
  BY <1>1, <1>3, <1>4

LEMMA FlushKeeps ==
  ASSUME RowsHold, NEW after, Rows!Flush(after), UNCHANGED <<clock, judged, came, heardAt>>,
         \A s \in Rows!Stamps : Rows!Waited(after, s) =>
           came[s] > Window \/ clock >= came[s] + Wait,
         phase' = "done" => Rows!Ripe(after) = Len(pending)
  PROVE  RowsHold'
<1> USE RowsBounds DEF RowsHold
<1> DEFINE n == Rows!Ripe(after)
           new == [i \in 1 .. n |-> Rows!RowsOf(pending[i])]
<1>1. /\ n \in 0 .. Len(pending) /\ Len(pending) \in Nat /\ Len(rows) \in Nat
      /\ pending \in Seq(Rows!Stamps) /\ rows \in Seq(Written)
      /\ \A i \in 1 .. Len(pending) : pending[i] \in Rows!Stamps
  BY RipeIs DEF RowsTyped
<1>2. \A i \in 1 .. n : i \in 1 .. Len(pending) /\ Rows!Waited(after, pending[i])
  BY <1>1, RipeIs
<1>3. rows' = rows \o new /\ pending' = SubSeq(pending, n + 1, Len(pending))
  BY DEF Rows!Flush
<1>4. phase' = "done" => n = Len(pending)
  OBVIOUS
<1> HIDE DEF n
<1>5. /\ pending' \in Seq(Rows!Stamps) /\ Len(pending') = Len(pending) - n
      /\ \A j \in 1 .. Len(pending') : pending'[j] = pending[n + j] /\ n + j \in 1 .. Len(pending)
  BY <1>1, <1>3
<1>6. new \in Seq(Written) /\ Len(new) = n /\ \A i \in 1 .. n : new[i] = Rows!RowsOf(pending[i])
  <2>1. \A i \in 1 .. n : Rows!RowsOf(pending[i]) \in Written
    BY <1>1, <1>2, RowsOfIs
  <2> QED
    BY <1>1, <2>1
<1> HIDE DEF new
<1>7. /\ rows' \in Seq(Written) /\ Len(rows') = Len(rows) + n
      /\ \A i \in 1 .. Len(rows) : rows'[i] = rows[i]
      /\ \A i \in 1 .. n : rows'[Len(rows) + i] = Rows!RowsOf(pending[i])
      /\ \A i \in 1 .. Len(rows') : i \notin 1 .. Len(rows) =>
           i - Len(rows) \in 1 .. n /\ i = Len(rows) + (i - Len(rows))
  <2>1. rows' \in Seq(Written) /\ Len(rows') = Len(rows) + n
    <3>1. rows \in Seq(Written) /\ new \in Seq(Written) /\ Len(rows) \in Nat /\ n \in Nat
      BY <1>1, <1>6
    <3>2. rows \o new \in Seq(Written)
      BY <3>1
    <3>3. Len(rows \o new) = Len(rows) + Len(new)
      BY <3>1
    <3> QED
      BY <1>3, <1>6, <3>2, <3>3
  <2>2. \A i \in 1 .. Len(rows) : rows'[i] = rows[i]
    BY <1>1, <1>3, <1>6
  <2>3. \A i \in 1 .. n : rows'[Len(rows) + i] = new[i]
    BY <1>1, <1>3, <1>6
  <2>4. \A i \in 1 .. Len(rows') : i \notin 1 .. Len(rows) =>
           i - Len(rows) \in 1 .. n /\ i = Len(rows) + (i - Len(rows))
    BY <1>1, <2>1
  <2> QED
    BY <1>6, <2>1, <2>2, <2>3, <2>4
<1>8. \A i \in 1 .. Len(rows') : i \notin 1 .. Len(rows) =>
        \E k \in 1 .. n : i = Len(rows) + k /\ rows'[i] = Rows!RowsOf(pending[k])
                          /\ rows'[i].stamp = pending[k]
  <2> SUFFICES ASSUME NEW i \in 1 .. Len(rows'), i \notin 1 .. Len(rows)
               PROVE  \E k \in 1 .. n : i = Len(rows) + k /\ rows'[i] = Rows!RowsOf(pending[k])
                          /\ rows'[i].stamp = pending[k]
    OBVIOUS
  <2> DEFINE k == i - Len(rows)
  <2>1. k \in 1 .. n /\ i = Len(rows) + k
    BY <1>7
  <2> HIDE DEF k
  <2>2. rows'[i] = Rows!RowsOf(pending[k]) /\ pending[k] \in Rows!Stamps
    BY <1>1, <1>2, <1>7, <2>1
  <2>3. Rows!RowsOf(pending[k]).stamp = pending[k]
    BY <2>2, RowsOfIs
  <2> QED
    BY <2>1, <2>2, <2>3
<1>9. RowsTyped' /\ TimesInv'
  BY <1>5, <1>7 DEF RowsTyped, TimesInv, Past
<1>10. JudgedInv' /\ ForgottenInv'
  <2>1. JudgedInv'
    BY DEF JudgedInv
  <2>2. ForgottenInv'
    BY DEF ForgottenInv, Since
  <2> QED
    BY <2>1, <2>2
<1>11. PendingInv'
  <2>1. \A i \in 1 .. Len(pending') : came'[pending'[i]] # Rows!Never
    BY <1>5 DEF PendingInv
  <2>2. ASSUME NEW i \in 1 .. Len(pending'), NEW j \in 1 .. Len(pending'), pending'[i] = pending'[j]
        PROVE  i = j
    <3>1. n + i = n + j
      BY <1>5, <2>2 DEF PendingInv
    <3> QED
      BY <1>1, <3>1
  <2> QED
    BY <2>1, <2>2 DEF PendingInv
<1>12. WrittenInv'
  <2>1. ASSUME NEW i \in 1 .. Len(rows')
        PROVE  \/ i \in 1 .. Len(rows) /\ rows'[i].stamp = rows[i].stamp
               \/ \E k \in 1 .. n : i = Len(rows) + k /\ rows'[i].stamp = pending[k]
    BY <1>7, <1>8
  <2>2. \A i \in 1 .. Len(rows') : came'[rows'[i].stamp] # Rows!Never
    BY <1>2, <2>1 DEF WrittenInv, PendingInv
  <2>3. ASSUME NEW i \in 1 .. Len(rows'), NEW j \in 1 .. Len(rows'), rows'[i].stamp = rows'[j].stamp
        PROVE  i = j
    <3>1. CASE i \in 1 .. Len(rows) /\ j \in 1 .. Len(rows)
      BY <1>7, <2>3, <3>1 DEF WrittenInv
    <3>2. CASE i \in 1 .. Len(rows) /\ j \notin 1 .. Len(rows)
      <4>1. PICK k \in 1 .. n : rows'[j].stamp = pending[k]
        BY <2>1, <3>2
      <4>2. k \in 1 .. Len(pending) /\ rows[i].stamp # pending[k] /\ rows'[i].stamp = rows[i].stamp
        BY <1>2, <1>7, <3>2 DEF WrittenInv
      <4> QED
        BY <2>3, <4>1, <4>2
    <3>3. CASE i \notin 1 .. Len(rows) /\ j \in 1 .. Len(rows)
      <4>1. PICK k \in 1 .. n : rows'[i].stamp = pending[k]
        BY <2>1, <3>3
      <4>2. k \in 1 .. Len(pending) /\ rows[j].stamp # pending[k] /\ rows'[j].stamp = rows[j].stamp
        BY <1>2, <1>7, <3>3 DEF WrittenInv
      <4> QED
        BY <2>3, <4>1, <4>2
    <3>4. CASE i \notin 1 .. Len(rows) /\ j \notin 1 .. Len(rows)
      BY <1>2, <2>1, <2>3, <3>4 DEF PendingInv
    <3> QED
      BY <3>1, <3>2, <3>3, <3>4
  <2>4. ASSUME NEW i \in 1 .. Len(rows'), NEW j \in 1 .. Len(pending')
        PROVE  rows'[i].stamp # pending'[j]
    <3>1. pending'[j] = pending[n + j] /\ n + j \in 1 .. Len(pending)
      BY <1>5
    <3>2. CASE i \in 1 .. Len(rows)
      BY <1>7, <3>1, <3>2 DEF WrittenInv
    <3>3. CASE i \notin 1 .. Len(rows)
      <4>1. PICK k \in 1 .. n : rows'[i].stamp = pending[k]
        BY <2>1, <3>3
      <4>2. k \in 1 .. Len(pending) /\ k # n + j
        BY <1>1, <1>2, <1>5
      <4> QED
        BY <3>1, <4>1, <4>2 DEF PendingInv
    <3> QED
      BY <3>2, <3>3
  <2>5. ASSUME NEW s \in Rows!Stamps, came[s] # Rows!Never
        PROVE  (\E j \in 1 .. Len(pending') : pending'[j] = s)
               \/ (\E i \in 1 .. Len(rows') : rows'[i].stamp = s)
    <3>1. CASE \E i \in 1 .. Len(rows) : rows[i].stamp = s
      BY <1>1, <1>7, <3>1
    <3>2. CASE \E j \in 1 .. Len(pending) : pending[j] = s
      <4>1. PICK j \in 1 .. Len(pending) : pending[j] = s
        BY <3>2
      <4>2. CASE j <= n
        <5>1. j \in 1 .. n /\ Len(rows) + j \in 1 .. Len(rows')
          BY <1>1, <1>7, <4>2
        <5>2. rows'[Len(rows) + j].stamp = s
          BY <1>1, <1>7, <4>1, <5>1, RowsOfIs
        <5> QED
          BY <5>1, <5>2
      <4>3. CASE ~(j <= n)
        <5>1. j - n \in 1 .. Len(pending') /\ n + (j - n) = j
          BY <1>1, <1>5, <4>3
        <5> QED
          BY <1>5, <4>1, <5>1
      <4> QED
        BY <4>2, <4>3
    <3> QED
      BY <2>5, <3>1, <3>2 DEF WrittenInv
  <2> QED
    BY <2>2, <2>3, <2>4, <2>5 DEF WrittenInv
<1>13. DoneInv'
  <2>1. phase' = "done" => Len(pending') = 0
    BY <1>1, <1>4, <1>5
  <2> QED
    BY <1>5, <2>1 DEF DoneInv
<1>14. NamedInv'
  <2>1. \A s : Missed(s)' <=> Missed(s)
    BY DEF Missed, Since
  <2> SUFFICES ASSUME NEW i \in 1 .. Len(rows'), NEW row \in rows'[i].boxes
               PROVE  /\ row.stamp = rows'[i].stamp
                      /\ \A v \in row.citing : v.index = row.index /\ v.stamp = row.stamp
                      /\ ~row.held => Missed(row.stamp)
    BY <2>1 DEF NamedInv
  <2>2. CASE i \in 1 .. Len(rows)
    BY <1>7, <2>2 DEF NamedInv
  <2>3. CASE i \notin 1 .. Len(rows)
    <3>1. PICK k \in 1 .. n : rows'[i] = Rows!RowsOf(pending[k]) /\ rows'[i].stamp = pending[k]
      BY <1>8, <2>3
    <3>2. pending[k] \in Rows!Stamps /\ Rows!Waited(after, pending[k])
          /\ came[pending[k]] # Rows!Never
      BY <1>1, <1>2 DEF PendingInv
    <3>3. /\ row.stamp = pending[k] /\ (row.held <=> Rows!Contains(judged, pending[k]))
          /\ \A v \in row.citing : v.index = row.index /\ v.stamp = row.stamp
      <4>1. row \in Rows!RowsOf(pending[k]).boxes
        BY <3>1
      <4> QED
        BY <3>2, <4>1, RowsOfIs
    <3>4. ~row.held => Missed(pending[k])
      BY <3>2, <3>3 DEF Missed, ForgottenInv
    <3> QED
      BY <3>1, <3>3, <3>4
  <2> QED
    BY <2>2, <2>3
<1> QED
  BY <1>9, <1>10, <1>11, <1>12, <1>13, <1>14

LEMMA RowsKept ==
  ASSUME RowsHold, Rows!RowsNext
  PROVE  RowsHold'
<1>1. CASE Rows!OnVerdicts \/ Rows!Tick \/ Rows!Collect
  BY <1>1, VerdictsKeep, TickKeeps, CollectKeeps
<1>2. CASE Rows!Prepared \/ Rows!Close
  BY <1>2, RowsStay DEF Rows!Prepared, Rows!Close
<1>3. CASE Rows!RowTimer
  <2>1. Rows!Flush(Wait) /\ UNCHANGED <<clock, judged, came, heardAt>> /\ phase' # "done"
    BY <1>3 DEF Rows!RowTimer
  <2>2. \A s \in Rows!Stamps : Rows!Waited(Wait, s) => clock >= came[s] + Wait
    <3> SUFFICES ASSUME NEW s \in Rows!Stamps, Rows!Waited(Wait, s) PROVE clock >= came[s] + Wait
      OBVIOUS
    <3>1. came[s] \in Int /\ clock \in Int /\ Wait \in Int
      BY RowsBounds DEF RowsHold, RowsTyped, Times
    <3> QED
      BY <3>1 DEF Rows!Waited
  <2> QED
    BY <2>1, <2>2, FlushKeeps
<1>4. CASE Rows!Finish
  <2>1. Rows!Flush(0) /\ UNCHANGED <<clock, judged, came, heardAt>> /\ clock >= Rows!End
    BY <1>4 DEF Rows!Finish
  <2>2. \A s \in Rows!Stamps :
          Rows!Waited(0, s) /\ (came[s] > Window \/ clock >= came[s] + Wait)
    <3> SUFFICES ASSUME NEW s \in Rows!Stamps
                 PROVE  Rows!Waited(0, s) /\ (came[s] > Window \/ clock >= came[s] + Wait)
      OBVIOUS
    <3>1. came[s] \in Int /\ clock \in Nat /\ came[s] <= clock
      BY RowsBounds DEF RowsHold, RowsTyped, Times, TimesInv, Past
    <3> QED
      BY <2>1, <3>1, RowsBounds DEF Rows!Waited
  <2>3. Rows!Ripe(0) = Len(pending)
    <3>1. RowsTyped /\ pending \in Seq(Rows!Stamps) /\ Len(pending) \in Nat
      BY DEF RowsHold, RowsTyped
    <3>2. Rows!Ripe(0) \in 0 .. Len(pending)
          /\ (Rows!Ripe(0) = Len(pending) \/ ~Rows!Waited(0, pending[Rows!Ripe(0) + 1]))
      BY <3>1, RipeIs
    <3>3. Rows!Ripe(0) # Len(pending) => pending[Rows!Ripe(0) + 1] \in Rows!Stamps
      BY <3>1, <3>2
    <3> QED
      BY <2>2, <3>2, <3>3
  <2> QED
    BY <2>1, <2>2, <2>3, FlushKeeps
<1> QED
  BY <1>1, <1>2, <1>3, <1>4 DEF Rows!RowsNext

LEMMA AskedStays == Rows!RowsNext => asked' = asked
BY DEF Rows!RowsNext, Rows!OnVerdicts, Rows!Tick, Rows!Prepared, Rows!Collect, Rows!RowTimer,
       Rows!Close, Rows!Finish

RowsInv == asked # "none" => RowsHold

LEMMA RowsHeld == Bench => []RowsInv
<1>1. BenchInit => RowsInv
  BY RowsStart DEF BenchInit, NoRows, RowsInv
<1>2. RowsInv /\ [BenchNext]_benchVars => RowsInv'
  <2> SUFFICES ASSUME RowsInv, [BenchNext]_benchVars PROVE RowsInv'
    OBVIOUS
  <2>1. CASE asked # "none" /\ Rows!RowsNext
    BY <2>1, AskedStays, RowsKept DEF RowsInv
  <2>2. CASE UNCHANGED rowing
    <3>1. UNCHANGED <<asked, phase, clock, judged, pending, rows, came, heardAt>>
      BY <2>2 DEF rowing
    <3> QED
      BY <3>1, RowsStay DEF RowsInv
  <2> QED
    BY <2>1, <2>2 DEF BenchNext, benchVars
<1> QED
  BY <1>1, <1>2, PTL DEF Bench

(* verify/component/uas.py, command_record and command_published: a row    *)
(* cites the verdict on its own box of its own frame, and has one when the *)
(* scorer judged that frame in time; no frame is written twice or left     *)
(* out, however frames and verdicts come.                                  *)
THEOREM RowsAreTrue == Bench => []RowsTrue
<1>1. RowsHold => Rows!NamedByScorer
  <2> SUFFICES ASSUME RowsHold, NEW frame \in Rows!Range(rows), NEW row \in frame.boxes
               PROVE  /\ \A v \in row.citing : v.index = row.index /\ v.stamp = row.stamp
                      /\ /\ came[row.stamp] <= Window
                         /\ heardAt[row.stamp] \in 0 .. came[row.stamp] + Wait - 1
                         /\ Rows!Cardinality(Rows!Newer(row)) < Depth
                         => row.held
    BY DEF Rows!NamedByScorer
  <2>1. PICK i \in 1 .. Len(rows) : frame = rows[i]
    BY DEF Rows!Range, RowsHold, RowsTyped
  <2>2. /\ row.stamp \in Rows!Stamps
        /\ \A v \in row.citing : v.index = row.index /\ v.stamp = row.stamp
        /\ ~row.held => Missed(row.stamp)
    BY <2>1, RowTyped DEF RowsHold, NamedInv
  <2>3. Rows!Cardinality(Rows!Newer(row)) = Cardinality(Since(row.stamp))
    BY RowsSameCardinality DEF Rows!Newer, Since
  <2>4. Cardinality(Since(row.stamp)) \in Nat
    BY SinceFinite DEF Since
  <2>5. came[row.stamp] \in Int /\ heardAt[row.stamp] \in Int
    BY <2>2 DEF RowsHold, RowsTyped, Times
  <2>6. ASSUME came[row.stamp] <= Window,
               heardAt[row.stamp] \in 0 .. came[row.stamp] + Wait - 1,
               Rows!Cardinality(Rows!Newer(row)) < Depth
        PROVE  row.held
    <3> DEFINE c == came[row.stamp]
               t == heardAt[row.stamp]
               since == Cardinality(Since(row.stamp))
    <3>1. /\ c \in Int /\ t \in Int /\ since \in Nat
          /\ c <= Window /\ t \in 0 .. c + Wait - 1 /\ since < Depth
      BY <2>3, <2>4, <2>5, <2>6
    <3>2. ~row.held => \/ c > Window
                       \/ t = Rows!Never /\ clock >= c + Wait
                       \/ t >= c + Wait
                       \/ t # Rows!Never /\ since >= Depth
      BY <2>2 DEF Missed
    <3> HIDE DEF c, t, since
    <3>3. Rows!Never = -1
      BY DEF Rows!Never
    <3> QED
      BY <3>1, <3>2, <3>3, RowsBounds
  <2> QED
    BY <2>2, <2>6
<1>2. RowsHold => Rows!EachFrameOnce
  <2> SUFFICES ASSUME RowsHold, phase = "done", NEW s \in Rows!Stamps
               PROVE  LET written == {i \in DOMAIN rows : rows[i].stamp = s}
                      IN IF came[s] = Rows!Never THEN written = {}
                         ELSE \E i \in written : written = {i}
    BY DEF Rows!EachFrameOnce
  <2> DEFINE written == {i \in DOMAIN rows : rows[i].stamp = s}
  <2>1. DOMAIN rows = 1 .. Len(rows) /\ pending = <<>>
    BY DEF RowsHold, RowsTyped, DoneInv
  <2>2. CASE came[s] = Rows!Never
    BY <2>1, <2>2 DEF RowsHold, WrittenInv
  <2>3. CASE came[s] # Rows!Never
    <3>1. PICK i \in 1 .. Len(rows) : rows[i].stamp = s
      BY <2>1, <2>3 DEF RowsHold, WrittenInv
    <3>2. written = {i}
      BY <2>1, <3>1 DEF RowsHold, WrittenInv
    <3> QED
      BY <2>3, <3>2
  <2> QED
    BY <2>2, <2>3
<1>3. RowsInv => RowsTrue
  BY <1>1, <1>2 DEF RowsInv, RowsTrue
<1> QED
  BY <1>3, RowsHeld, PTL
=============================================================================
