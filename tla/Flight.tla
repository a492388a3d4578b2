------------------------------- MODULE Flight -------------------------------
(***************************************************************************)
(* verify/component/uas.py: one command of a verify stage, and the vehicle *)
(* it asks.  Everything it knows of the vehicle is the last message it     *)
(* heard on each topic; it hears one between any two polls of a wait.      *)
(* Heights are counted in steps of PROGRESS_M; a height below 1 is on the  *)
(* ground.  A service call is refused, or lost, or done before the next    *)
(* statement.                                                              *)
(***************************************************************************)
EXTENDS Integers

CONSTANTS
  Commands, \* the commands that may be run
  Top,      \* the height asked of takeoff and of goto
  Deadline, \* bound: a deadline, in polls
  Attempts, \* --attempts of takeoff
  Repeat    \* --repeat of gimbal and of click

ASSUME CommandsAssumption ==
  Commands \subseteq {"arm", "takeoff", "land", "goto", "gimbal", "click", "status",
               "detect", "capture"}
ASSUME BoundsAssumption ==
  /\ Top \in Nat \ {0} /\ Deadline \in Nat \ {0}
  /\ Attempts \in Nat \ {0} /\ Repeat \in Nat \ {0}

VARIABLES
  height, armed, mode, \* the vehicle
  camera,  \* its gimbal: who controls it, clicks that moved it, its listeners
  heard,   \* the last message of each topic
  command, pc, \* the command, and where it stands
  wait,    \* the locals of wait_until
  tries,   \* attempts, or messages, that are left
  exit     \* the exit status

vehicleVars == <<height, armed, mode, camera>>
vars == <<vehicleVars, heard, command, pc, wait, tries, exit>>

Unheard == -1 \* a height
Running == 2
Heights == 0 .. Top + 1
NoWait == [left |-> 0, closest |-> Unheard, from |-> Unheard, best |-> Unheard,
           quiet |-> 0]

-----------------------------------------------------------------------------
(***************************************************************************)
(* What a wait is for                                                      *)
(***************************************************************************)
NoState == [armed |-> FALSE, mode |-> "unheard"]
Knows(h) == h.state # NoState
ReadyWhen(h) ==
  CASE pc \in {"telemetry", "status"} -> Knows(h) /\ h.report
    [] pc = "state" -> Knows(h)
    [] pc = "home" -> h.local # Unheard /\ h.report
    [] pc = "disarmed" -> Knows(h) /\ ~h.state.armed
    [] pc = "armed" -> Knows(h) /\ h.state.armed
    [] pc = "mode" -> Knows(h) /\ h.state.mode = "takeoff"
    [] pc = "height" -> h.local # Unheard /\ h.local >= Top
    [] pc = "ground" -> h.local # Unheard /\ h.local < 1
    [] pc = "arrived" -> h.local = Top
    [] pc \in {"attitude", "aim"} -> h.attitude
    [] pc = "listener" -> camera.listened
    [] OTHER -> FALSE
Waits == {"telemetry", "status", "state", "home", "disarmed", "armed", "mode", "height",
          "ground", "arrived", "attitude", "aim", "listener"}

(* How far there is to go: nothing, for a height nobody has heard, because *)
(* max(0.0, nan) is 0.0.                                                   *)
Measured == {"height", "arrived"}
Remaining(h) ==
  IF h.local = Unheard THEN 0
  ELSE IF pc = "height" /\ h.local > Top THEN 0
  ELSE IF h.local > Top THEN h.local - Top ELSE Top - h.local

(* A mutant: any movement pushes the deadline back.                        *)
CloserMoved(left, closest) == closest = Unheard \/ left # closest
Closer(left, closest) == closest = Unheard \/ left < closest

(* A mutant: the deadline stands, whatever the vehicle does.               *)
LeftOnly(gain) == wait.left - 1
Left(gain) == IF gain THEN Deadline ELSE wait.left - 1

Better(h) == pc \in Measured /\ h.local # Unheard
             /\ (wait.best = Unheard \/ Remaining(h) < wait.best)

Begin(where) ==
  /\ pc' = where
  /\ wait' = [NoWait EXCEPT !.left = Deadline, !.from = heard.local]
Goto(where) == pc' = where /\ wait' = NoWait
Return(code) == exit' = code /\ pc' = "done" /\ wait' = NoWait
Proceed == UNCHANGED <<command, exit>>

(* Where a command goes on when the wait ends well, and when it does not.  *)
After == [telemetry |-> "stale", home |-> "reposition", disarmed |-> "arm", armed |-> "ask",
          mode |-> "climb", state |-> "reassert", listener |-> "send"]
Waited ==
  IF pc \in DOMAIN After THEN Goto(After[pc]) /\ Proceed
  ELSE IF pc = "attitude" THEN Begin("listener") /\ Proceed
  ELSE Return(0) /\ UNCHANGED command

GaveUp ==
  CASE pc \in {"disarmed", "armed", "state"} -> Goto(After[pc]) /\ Proceed /\ UNCHANGED tries
    [] pc = "height" /\ tries > 1 -> Goto("stale") /\ tries' = tries - 1 /\ Proceed
    [] pc = "ground" \/ (pc = "status" /\ Knows(heard)) ->
         Return(0) /\ UNCHANGED <<command, tries>>
    [] OTHER -> Return(1) /\ UNCHANGED <<command, tries>>

Hears ==
  {heard} \cup {[heard EXCEPT !.state = [armed |-> armed, mode |-> mode]],
                [heard EXCEPT !.local = height],
                [heard EXCEPT !.report = TRUE],
                [heard EXCEPT !.attitude = TRUE]}

Poll ==
  /\ pc \in Waits /\ wait.left > 0
  /\ \E h \in Hears :
       /\ heard' = h
       /\ IF ReadyWhen(h) THEN Waited
          ELSE /\ LET left == Remaining(h)
                      gain == pc \in Measured /\ Closer(left, wait.closest)
                  IN wait' = [wait EXCEPT !.left = Left(gain),
                                          !.closest = IF gain THEN left ELSE @,
                                          !.best = IF Better(h) THEN Remaining(h) ELSE @,
                                          !.quiet = IF Better(h) THEN 0
                                                    ELSE IF @ < Deadline THEN @ + 1 ELSE @]
               /\ Proceed /\ UNCHANGED pc
  /\ UNCHANGED <<vehicleVars, tries>>

GiveUp ==
  /\ pc \in Waits /\ wait.left = 0
  /\ GaveUp
  /\ UNCHANGED <<vehicleVars, heard>>

-----------------------------------------------------------------------------
(***************************************************************************)
(* The calls                                                               *)
(***************************************************************************)
Refused(then) == then /\ UNCHANGED vehicleVars

Stale ==
  LET down == heard.local # Unheard /\ heard.local < 1
  IN /\ pc = "stale"
     /\ IF down /\ heard.state.armed
        THEN /\ Begin("disarmed")
             /\ \/ height = 0 /\ armed' = FALSE /\ UNCHANGED <<height, mode, camera>>
                \/ UNCHANGED vehicleVars
        ELSE Goto("arm") /\ UNCHANGED vehicleVars
     /\ Proceed /\ UNCHANGED <<heard, tries>>

Arm ==
  /\ pc = "arm"
  /\ \/ /\ command = "takeoff" /\ heard.state.armed
        /\ Goto("ask") /\ Proceed /\ UNCHANGED vehicleVars
     \/ /\ command = "arm" \/ ~heard.state.armed
        /\ \/ /\ armed' = TRUE /\ UNCHANGED <<height, mode, camera>>
              /\ IF command = "arm" THEN Return(0) /\ UNCHANGED command
                 ELSE Begin("armed") /\ Proceed
           \/ Refused(Return(1) /\ UNCHANGED command)
  /\ UNCHANGED <<heard, tries>>

(* AUTO.TAKEOFF, and the height: what is sent next needs both.             *)
Ask ==
  /\ pc = "ask"
  /\ \/ mode' = "takeoff" /\ Begin("mode") /\ Proceed /\ UNCHANGED <<height, armed, camera>>
     \/ Refused(Return(1) /\ UNCHANGED command)
  /\ UNCHANGED <<heard, tries>>

Climb ==
  /\ pc = "climb"
  /\ \/ Begin("height") /\ Proceed /\ UNCHANGED vehicleVars
     \/ Refused(Return(1) /\ UNCHANGED command)
  /\ UNCHANGED <<heard, tries>>

Land ==
  /\ pc = "land"
  /\ \/ mode' = "land" /\ Begin("ground") /\ Proceed /\ UNCHANGED <<height, armed, camera>>
     \/ Refused(Return(1) /\ UNCHANGED command)
  /\ UNCHANGED <<heard, tries>>

Reposition ==
  /\ pc = "reposition"
  /\ \/ mode' = "fly" /\ Begin("arrived") /\ Proceed /\ UNCHANGED <<height, armed, camera>>
     \/ Refused(Return(1) /\ UNCHANGED command)
  /\ UNCHANGED <<heard, tries>>

(* Take the gimbal back and point it: a message reaches only those who     *)
(* listen by then.                                                         *)
Reassert ==
  /\ pc = "reassert"
  /\ camera' = [camera EXCEPT !.ours = @ \/ camera.listened]
  /\ Goto("point") /\ Proceed
  /\ UNCHANGED <<height, armed, mode, heard, tries>>

Point ==
  /\ pc = "point"
  /\ camera' = [camera EXCEPT !.pointed = @ \/ (camera.listened /\ camera.ours)]
  /\ tries' = tries - 1
  /\ IF tries = 1 THEN Begin("aim") ELSE UNCHANGED <<pc, wait>>
  /\ Proceed /\ UNCHANGED <<height, armed, mode, heard>>

ClickMode ==
  /\ pc = "click mode"
  /\ \/ Begin("attitude") /\ Proceed
     \/ Return(1) /\ UNCHANGED command
  /\ UNCHANGED <<vehicleVars, heard, tries>>

(* detect, capture, and the click mode that is off: one call, and what it  *)
(* answers.                                                                *)
Trigger ==
  /\ pc = "trigger"
  /\ \E code \in {0, 1} : Return(code)
  /\ UNCHANGED <<vehicleVars, heard, command, tries>>

(* A mutant: sent more than once, to make up for a listener not there yet. *)
SendTwice ==
  /\ pc = "send"
  /\ camera' = [camera EXCEPT !.moves = IF camera.listened THEN @ + 2 ELSE @]
  /\ tries' = tries - 1
  /\ IF tries = 1 THEN Return(0) /\ UNCHANGED command
     ELSE UNCHANGED <<pc, wait>> /\ Proceed
  /\ UNCHANGED <<height, armed, mode, heard>>

(* A click is relative: each one that is heard moves the camera.           *)
Send ==
  /\ pc = "send"
  /\ camera' = [camera EXCEPT !.moves = IF camera.listened THEN @ + 1 ELSE @]
  /\ tries' = tries - 1
  /\ IF tries = 1 THEN Return(0) /\ UNCHANGED command
     ELSE UNCHANGED <<pc, wait>> /\ Proceed
  /\ UNCHANGED <<height, armed, mode, heard>>

Call ==
  Stale \/ Arm \/ Ask \/ Climb \/ Land \/ Reposition \/ Reassert \/ Point
  \/ ClickMode \/ Trigger \/ Send

-----------------------------------------------------------------------------
(***************************************************************************)
(* The vehicle                                                             *)
(***************************************************************************)
Moves ==
  \/ armed /\ mode \in {"takeoff", "fly"} /\ height < Top /\ height' = height + 1
  \/ armed /\ mode \in {"land", "fly"} /\ height > 0 /\ height' = height - 1
Moved ==
  /\ Moves
  /\ UNCHANGED <<armed, mode, camera, heard, command, pc, wait, tries, exit>>
Listens ==
  /\ ~camera.listened
  /\ camera' = [camera EXCEPT !.listened = TRUE]
  /\ UNCHANGED <<height, armed, mode, heard, command, pc, wait, tries, exit>>

Surroundings == exit = Running /\ (Moved \/ Listens)

Start == [arm |-> "arm", takeoff |-> "telemetry", land |-> "land", goto |-> "home",
          gimbal |-> "state", click |-> "click mode", status |-> "status",
          detect |-> "trigger", capture |-> "trigger"]

Init ==
  /\ \/ height = 0 /\ armed = FALSE /\ mode = "hold"
     \/ height \in {0, Top} /\ armed = TRUE /\ mode \in {"hold", "land"}
  /\ camera = [ours |-> FALSE, pointed |-> FALSE, listened |-> FALSE, moves |-> 0]
  /\ heard = [state |-> NoState, local |-> Unheard, report |-> FALSE, attitude |-> FALSE]
  /\ command \in Commands /\ pc = Start[command]
  /\ wait = [NoWait EXCEPT !.left = Deadline]
  /\ tries = IF command = "takeoff" THEN Attempts ELSE Repeat
  /\ exit = Running

Next == Poll \/ GiveUp \/ Call \/ Surroundings
Spec == Init /\ [][Next]_vars /\ WF_vars(Poll \/ GiveUp \/ Call)

-----------------------------------------------------------------------------
(***************************************************************************)
(* Properties                                                              *)
(***************************************************************************)

(* While there is less and less to go the deadline is pushed back: who     *)
(* gives up on a vehicle has heard nothing better of it for a deadline.    *)
PatientWhenItFlies ==
  [][GiveUp /\ pc \in Measured /\ wait.from # Unheard => wait.quiet >= Deadline]_vars

(* A click that is reported as made moved the camera exactly as often as   *)
(* it was asked to.                                                        *)
ClickCounts == command = "click" /\ exit = 0 => camera.moves = Repeat

(* No wait is for ever, however the vehicle moves.                         *)
CommandEnds == <>(exit # Running)
=============================================================================
