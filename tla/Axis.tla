-------------------------------- MODULE Axis --------------------------------
(***************************************************************************)
(* One stepper channel of the emulated lens: class Axis of                 *)
(* src/modules/sim/scf4_emulator.py, with the commands of Controller that  *)
(* act on it.                                                              *)
(*                                                                         *)
(* The motor turns one step at a time.  The code integrates those steps    *)
(* over the time since the last command, before it acts on the next one;   *)
(* nobody sees the axis in between, so a step is an action of its own      *)
(* here, and any number of them fall between two commands.  The speed      *)
(* (M240) only says how many, and is left out.                             *)
(*                                                                         *)
(* Positions are steps from the centre of the switch.                      *)
(***************************************************************************)
EXTENDS Integers

CONSTANTS
  Counters,   \* how many values the unsigned step counter has: 65536
  StopLow,    \* the hard stops
  StopHigh,
  Half,       \* half of the switch band
  Rises,      \* the direction in which the flag goes from 0 to 1
  Backlash,   \* lost motion on a reversal
  Coasts,     \* how many steps an axis may carry on after a seek
  Start,      \* where the axis was left
  Goals,      \* the arguments of G0
  Seats       \* the arguments of G92

ASSUME CountersAssumption == Counters \in Nat \ {0}
ASSUME TravelAssumption ==
  /\ StopLow \in Int /\ StopHigh \in Int /\ Half \in Nat
  /\ StopLow < -Half /\ Half < StopHigh
  /\ Start \in StopLow .. StopHigh
ASSUME RisesAssumption == Rises \in {-1, 1}
ASSUME MotionAssumption == Backlash \in Nat /\ Coasts \subseteq Nat
ASSUME CommandAssumption == Goals \subseteq Int /\ Seats \subseteq Int

VARIABLES
  counter,    \* what the controller reports
  position,   \* where the mechanism is
  slack,      \* how much of the lost motion is taken up, signed
  flag,       \* the comparator's last reading
  forced,     \* M231: a G0 seeks the flag
  absolute,   \* G90: a G0 names a counter value (one for the whole board)
  pending,    \* steps still to run, signed
  direction,  \* the direction of a seek, 0 when not seeking
  goal        \* history: the counter value an absolute G0 is on its way to

axisVars == <<counter, position, slack, flag, forced, absolute, pending,
              direction, goal>>

NoGoal == -1
Directions == {-1, 1}
Sign(n) == IF n > 0 THEN 1 ELSE -1
Magnitude(n) == IF n < 0 THEN -n ELSE n

Moving == pending # 0 \/ direction # 0

(* Mutant of Level: one trip point where there are two. *)
LevelSharp(p, reading) == IF Rises * p > Half THEN 1 ELSE 0

(* The comparator's reading at p, given what it last read. *)
Level(p, reading) ==
  IF Rises * p > Half THEN 1 ELSE IF Rises * p < -Half THEN 0 ELSE reading

AxisInit ==
  /\ counter = 0
  /\ position = Start
  /\ slack = 0
  /\ flag = Level(Start, 0)
  /\ forced = FALSE
  /\ absolute = FALSE
  /\ pending = 0
  /\ direction = 0
  /\ goal = NoGoal

-----------------------------------------------------------------------------
(***************************************************************************)
(* The motor                                                               *)
(***************************************************************************)

(* The lost motion taken up when the motor turns in direction d. *)
Taken(d) == IF slack * d < 0 THEN 0 ELSE slack
Lost(d) == Magnitude(Taken(d)) < Backlash

(* The mechanism follows, unless it has run into a hard stop. *)
Driven(d) == ~Lost(d) /\ position + d \in StopLow .. StopHigh

(* Mutant of StepAxis: the counter clamps where it should wrap. *)
StepAxisClamped(d) ==
  /\ counter' = IF counter + d \in 0 .. Counters - 1 THEN counter + d ELSE counter
  /\ slack' = IF Lost(d) THEN Taken(d) + d ELSE Taken(d)
  /\ position' = IF Driven(d) THEN position + d ELSE position
  /\ flag' = IF Driven(d) THEN Level(position + d, flag) ELSE flag

(* Mutant of StepAxis: the flag is read before the mechanism moves. *)
StepAxisEarly(d) ==
  /\ counter' = (counter + d) % Counters
  /\ slack' = IF Lost(d) THEN Taken(d) + d ELSE Taken(d)
  /\ position' = IF Driven(d) THEN position + d ELSE position
  /\ flag' = Level(position, flag)

(* _step: one step of the motor, and what the mechanism does about it. *)
StepAxis(d) ==
  /\ counter' = (counter + d) % Counters
  /\ slack' = IF Lost(d) THEN Taken(d) + d ELSE Taken(d)
  /\ position' = IF Driven(d) THEN position + d ELSE position
  /\ flag' = IF Driven(d) THEN Level(position + d, flag) ELSE flag

(* A seek: the controller stops the motor where the flag changes, and what *)
(* is left to run becomes an ordinary step count.                          *)
TurnSeeking ==
  /\ direction # 0
  /\ StepAxis(direction)
  /\ IF flag' = flag
     THEN UNCHANGED <<pending, direction>>
     ELSE direction' = 0 /\ \E c \in Coasts : pending' = direction * c
  /\ UNCHANGED <<forced, absolute, goal>>

TurnCounted ==
  /\ direction = 0
  /\ pending # 0
  /\ StepAxis(Sign(pending))
  /\ pending' = pending - Sign(pending)
  /\ UNCHANGED <<forced, absolute, direction, goal>>

Turn == TurnSeeking \/ TurnCounted

-----------------------------------------------------------------------------
(***************************************************************************)
(* The commands                                                            *)
(***************************************************************************)

(* G0 in forced mode uses the sign of its argument and nothing else. *)
Seek(v) ==
  /\ forced
  /\ pending' = 0
  /\ direction' = IF v > 0 THEN 1 ELSE -1
  /\ goal' = NoGoal
  /\ UNCHANGED <<counter, position, slack, flag, forced, absolute>>

(* G0 in normal mode, absolute. *)
MoveTo(v) ==
  /\ ~forced
  /\ absolute
  /\ pending' = v - counter
  /\ goal' = v % Counters
  /\ UNCHANGED <<counter, position, slack, flag, forced, absolute, direction>>

(* G0 in normal mode, relative. *)
MoveBy(v) ==
  /\ ~forced
  /\ ~absolute
  /\ pending' = v
  /\ goal' = NoGoal
  /\ UNCHANGED <<counter, position, slack, flag, forced, absolute, direction>>

(* M0 *)
Halt ==
  /\ pending' = 0
  /\ direction' = 0
  /\ goal' = NoGoal
  /\ UNCHANGED <<counter, position, slack, flag, forced, absolute>>

(* Mutant of Normal: the seek under way goes on. *)
NormalSeeking ==
  /\ forced' = FALSE
  /\ UNCHANGED <<counter, position, slack, flag, absolute, pending, direction,
                 goal>>

(* M230: a seek under way ends; a step count goes on. *)
Normal ==
  /\ forced' = FALSE
  /\ direction' = 0
  /\ UNCHANGED <<counter, position, slack, flag, absolute, pending, goal>>

(* M231 *)
Forced ==
  /\ forced' = TRUE
  /\ UNCHANGED <<counter, position, slack, flag, absolute, pending, direction,
                 goal>>

(* G90 and G91 *)
Units ==
  /\ absolute' \in BOOLEAN
  /\ UNCHANGED <<counter, position, slack, flag, forced, pending, direction,
                 goal>>

(* G92 *)
SetCounter(v) ==
  /\ counter' = v % Counters
  /\ goal' = NoGoal
  /\ UNCHANGED <<position, slack, flag, forced, absolute, pending, direction>>

Command ==
  \/ \E v \in Goals : Seek(v) \/ MoveTo(v) \/ MoveBy(v)
  \/ \E v \in Seats : SetCounter(v)
  \/ Halt
  \/ Normal
  \/ Forced
  \/ Units

-----------------------------------------------------------------------------
(***************************************************************************)
(* Properties                                                              *)
(***************************************************************************)

AxisTypeOK ==
  /\ counter \in 0 .. Counters - 1
  /\ position \in StopLow .. StopHigh
  /\ slack \in -Backlash .. Backlash
  /\ flag \in {0, 1}
  /\ forced \in BOOLEAN
  /\ absolute \in BOOLEAN
  /\ pending \in Int
  /\ direction \in {-1, 0, 1}
  /\ goal \in (0 .. Counters - 1) \cup {NoGoal}

(* "There is one thing that stops this axis, not two": no axis seeks and   *)
(* counts at once, and none seeks outside forced mode.                     *)
OneEnd == direction # 0 => forced /\ pending = 0

(* The flag says on which side of the switch the mechanism is, however it  *)
(* got there; homing measures nothing else.                                *)
FlagHonest ==
  /\ Rises * position > Half => flag = 1
  /\ Rises * position < -Half => flag = 0

(* "The step counters are unsigned 16-bit and wrap rather than clamp": an  *)
(* absolute move that nothing disturbs ends on the counter value it names. *)
MoveLands == goal # NoGoal => (counter + pending) % Counters = goal

(* A seek that ends of itself ends one step past the trip point it came    *)
(* to, which is what makes two homings agree.                              *)
SeekEndsAtTrip ==
  [][direction # 0 /\ direction' = 0 /\ flag' # flag
       => position' = direction * (Half + 1)]_axisVars

=============================================================================
