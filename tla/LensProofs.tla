----------------------------- MODULE LensProofs -----------------------------
(***************************************************************************)
(* Proofs about Lens, for every travel, switch, lost motion, coast and set *)
(* of commands.                                                            *)
(*                                                                         *)
(* Every step of the lens is a step of the motor, a command, or leaves the *)
(* axis alone (AxisSteps).  The rest argues about the motor and the        *)
(* commands only.                                                          *)
(***************************************************************************)
EXTENDS Lens, TLAPS

(* What a step of the lens does to the axis. *)
LEMMA AxisSteps ==
  ASSUME [Next]_vars
  PROVE  Turn \/ Command \/ UNCHANGED axisVars
<1>1. CASE Answer
  BY <1>1 DEF Answer
<1>2. CASE Run
  BY <1>2 DEF Run
<1>3. CASE Poll \/ ThrottleEnds \/ Dial \/ Accept \/ Close \/ Kill \/ IdleDrop
  BY <1>3 DEF Poll, ThrottleEnds, Dial, Accept, Close, Kill, IdleDrop
<1>4. CASE UNCHANGED vars
  BY <1>4 DEF vars
<1> QED
  BY <1>1, <1>2, <1>3, <1>4 DEF Next

(* The comparator reads 0 or 1. *)
LEMMA LevelType ==
  ASSUME NEW p \in Int, NEW r \in {0, 1}
  PROVE  Level(p, r) \in {0, 1}
BY DEF Level

(* One step of the motor keeps the axis well typed. *)
LEMMA StepType ==
  ASSUME AxisTypeOK, NEW d \in Directions, StepAxis(d)
  PROVE  /\ counter' \in 0 .. Counters - 1
         /\ position' \in StopLow .. StopHigh
         /\ slack' \in -Backlash .. Backlash
         /\ flag' \in {0, 1}
<1> USE DEF Directions
<1>1. counter' \in 0 .. Counters - 1
  BY CountersAssumption DEF AxisTypeOK, StepAxis
<1>2. position' \in StopLow .. StopHigh
  BY TravelAssumption DEF AxisTypeOK, StepAxis, Driven
<1>3. Taken(d) \in -Backlash .. Backlash
  BY MotionAssumption DEF AxisTypeOK, Taken
<1>4. slack' \in -Backlash .. Backlash
  BY <1>3, MotionAssumption DEF StepAxis, Lost, Magnitude
<1>5. position \in Int /\ position + d \in Int
  BY TravelAssumption DEF AxisTypeOK
<1>6. flag' \in {0, 1}
  BY <1>5, LevelType DEF AxisTypeOK, StepAxis
<1> QED
  BY <1>1, <1>2, <1>4, <1>6

(* The initial state is well typed. *)
LEMMA AxisInitType ==
  ASSUME AxisInit
  PROVE  AxisTypeOK
<1>1. Start \in Int
  BY TravelAssumption
<1>2. flag \in {0, 1}
  BY <1>1, LevelType DEF AxisInit
<1>3. /\ counter \in 0 .. Counters - 1
      /\ position \in StopLow .. StopHigh
      /\ slack \in -Backlash .. Backlash
      /\ pending \in Int
  BY CountersAssumption, TravelAssumption, MotionAssumption DEF AxisInit
<1>4. /\ forced \in BOOLEAN
      /\ absolute \in BOOLEAN
      /\ direction \in {-1, 0, 1}
      /\ goal \in (0 .. Counters - 1) \cup {NoGoal}
  BY ZenonT(20) DEF AxisInit
<1> QED
  BY <1>2, <1>3, <1>4 DEF AxisTypeOK

(* A step of the motor keeps the axis well typed. *)
LEMMA TurnType ==
  ASSUME AxisTypeOK, Turn
  PROVE  AxisTypeOK'
<1>1. CASE TurnSeeking
  <2>1. direction \in Directions
    BY <1>1 DEF TurnSeeking, AxisTypeOK, Directions
  <2>2. StepAxis(direction)
    BY <1>1 DEF TurnSeeking
  <2>3. pending' \in Int /\ direction' \in {-1, 0, 1}
    BY <1>1, <2>1, MotionAssumption DEF TurnSeeking, AxisTypeOK, Directions
  <2> QED
    BY <1>1, <2>1, <2>2, <2>3, StepType DEF TurnSeeking, AxisTypeOK
<1>2. CASE TurnCounted
  <2>1. Sign(pending) \in Directions
    BY DEF Sign, Directions
  <2>2. StepAxis(Sign(pending))
    BY <1>2 DEF TurnCounted
  <2>3. pending' \in Int
    BY <1>2, <2>1 DEF TurnCounted, AxisTypeOK, Directions
  <2> QED
    BY <1>2, <2>1, <2>2, <2>3, StepType DEF TurnCounted, AxisTypeOK
<1> QED
  BY <1>1, <1>2 DEF Turn

(* A command keeps the axis well typed. *)
LEMMA CommandType ==
  ASSUME AxisTypeOK, Command
  PROVE  AxisTypeOK'
<1>1. ASSUME NEW v \in Goals, Seek(v) \/ MoveTo(v) \/ MoveBy(v)
      PROVE  AxisTypeOK'
  BY <1>1, CommandAssumption, CountersAssumption
  DEF AxisTypeOK, Seek, MoveTo, MoveBy, NoGoal
<1>2. ASSUME NEW v \in Seats, SetCounter(v)
      PROVE  AxisTypeOK'
  BY <1>2, CommandAssumption, CountersAssumption DEF AxisTypeOK, SetCounter, NoGoal
<1>3. ASSUME Halt \/ Normal \/ Forced \/ Units
      PROVE  AxisTypeOK'
  <2>1. forced' \in BOOLEAN /\ absolute' \in BOOLEAN
    BY <1>3, Zenon DEF AxisTypeOK, Halt, Normal, Forced, Units
  <2>2. /\ counter' = counter /\ position' = position /\ slack' = slack
        /\ flag' = flag
    BY <1>3, Zenon DEF Halt, Normal, Forced, Units
  <2>3. pending' \in Int /\ direction' \in {-1, 0, 1}
    BY <1>3 DEF AxisTypeOK, Halt, Normal, Forced, Units
  <2>4. goal' \in (0 .. Counters - 1) \cup {NoGoal}
    BY <1>3 DEF AxisTypeOK, Halt, Normal, Forced, Units
  <2> QED
    BY <2>1, <2>2, <2>3, <2>4 DEF AxisTypeOK
<1> QED
  BY <1>1, <1>2, <1>3 DEF Command

(* The axis alone is well typed in every state. *)
LEMMA AxisTyped == Spec => []AxisTypeOK
<1>1. Init => AxisTypeOK
  BY AxisInitType DEF Init
<1>2. AxisTypeOK /\ [Next]_vars => AxisTypeOK'
  <2> SUFFICES ASSUME AxisTypeOK, [Next]_vars
               PROVE  AxisTypeOK'
    OBVIOUS
  <2>1. CASE UNCHANGED axisVars
    BY <2>1 DEF axisVars, AxisTypeOK
  <2> QED
    BY <2>1, AxisSteps, TurnType, CommandType
<1> QED
  BY <1>1, <1>2, PTL DEF Spec

-----------------------------------------------------------------------------
(* The axis, the link and the output have their types in every state       *)
(* (scf4_emulator.py: Axis, serve, ZoomOutput).                            *)
THEOREM TypeCorrect == Spec => []TypeOK
<1> DEFINE OuterOK == /\ link \in {"none", "live", "half-open"}
                      /\ waiting \in BOOLEAN
                      /\ shown \in Narrow .. Wide
                      /\ recent \in BOOLEAN
<1>1. \A p \in Int : Picture(p) \in Narrow .. Wide
  BY PictureAssumption DEF Picture
<1>2. Init => OuterOK
  <2>1. Picture(Start) \in Narrow .. Wide
    BY <1>1, TravelAssumption
  <2> QED
    BY <2>1 DEF Init
<1>3. AxisTypeOK /\ OuterOK /\ [Next]_vars => OuterOK'
  <2> SUFFICES ASSUME AxisTypeOK, OuterOK, [Next]_vars
               PROVE  OuterOK'
    OBVIOUS
  <2>1. Picture(position) \in Narrow .. Wide
    BY <1>1, TravelAssumption DEF AxisTypeOK
  <2>2. Offer => shown' \in Narrow .. Wide /\ recent' \in BOOLEAN
    BY <2>1 DEF Offer, outputVars
  <2>3. CASE Answer
    BY <2>2, <2>3 DEF Answer, linkVars
  <2>4. CASE Poll
    BY <2>2, <2>4 DEF Poll, linkVars
  <2>5. CASE Run
    BY <2>5 DEF Run, linkVars, outputVars
  <2>6. CASE ThrottleEnds
    BY <2>6 DEF ThrottleEnds, linkVars
  <2>7. CASE Dial \/ Accept \/ Close \/ Kill \/ IdleDrop
    BY <2>7 DEF Dial, Accept, Close, Kill, IdleDrop, outputVars
  <2>8. CASE UNCHANGED vars
    BY <2>8 DEF vars, linkVars, outputVars
  <2> QED
    BY <2>3, <2>4, <2>5, <2>6, <2>7, <2>8 DEF Next
<1>4. AxisTypeOK /\ OuterOK => TypeOK
  BY DEF TypeOK
<1> QED
  BY <1>2, <1>3, <1>4, AxisTyped, PTL DEF Spec

(* An axis never seeks and counts at once, and seeks in forced mode only:  *)
(* there is one thing that stops it (Axis.advance, Axis.start, M230).      *)
THEOREM OneThingStops == Spec => []OneEnd
<1>1. Init => OneEnd
  BY DEF Init, AxisInit, OneEnd
<1>2. AxisTypeOK /\ OneEnd /\ [Next]_vars => OneEnd'
  <2> SUFFICES ASSUME AxisTypeOK, OneEnd, [Next]_vars
               PROVE  OneEnd'
    OBVIOUS
  <2>1. CASE TurnSeeking
    BY <2>1 DEF TurnSeeking, OneEnd
  <2>2. CASE TurnCounted
    BY <2>2 DEF TurnCounted, OneEnd
  <2>3. CASE Command
    <3>1. ASSUME NEW v \in Goals, Seek(v) \/ MoveTo(v) \/ MoveBy(v)
          PROVE  OneEnd'
      BY <3>1 DEF OneEnd, Seek, MoveTo, MoveBy
    <3>2. ASSUME NEW v \in Seats, SetCounter(v)
          PROVE  OneEnd'
      BY <3>2 DEF OneEnd, SetCounter
    <3>3. CASE Halt \/ Normal \/ Forced \/ Units
      BY <3>3 DEF OneEnd, Halt, Normal, Forced, Units
    <3> QED
      BY <2>3, <3>1, <3>2, <3>3 DEF Command
  <2>4. CASE UNCHANGED axisVars
    BY <2>4 DEF axisVars, OneEnd
  <2> QED
    BY <2>1, <2>2, <2>3, <2>4, AxisSteps DEF Turn
<1> QED
  BY <1>1, <1>2, AxisTyped, PTL DEF Spec

-----------------------------------------------------------------------------
(* A comparator read at p is honest about p, if it was honest about a      *)
(* place inside the band.                                                  *)
LEMMA LevelHonest ==
  ASSUME NEW p \in Int, NEW r \in {0, 1}
  PROVE  /\ Rises * p > Half => Level(p, r) = 1
         /\ Rises * p < -Half => Level(p, r) = 0
BY RisesAssumption, TravelAssumption DEF Level

(* A step of the motor keeps the flag honest. *)
LEMMA StepHonest ==
  ASSUME AxisTypeOK, FlagHonest, NEW d \in Directions, StepAxis(d)
  PROVE  FlagHonest'
<1>1. position \in Int /\ position + d \in Int
  BY TravelAssumption DEF AxisTypeOK, Directions
<1>2. CASE Driven(d)
  <2>1. position' = position + d /\ flag' = Level(position + d, flag)
    BY <1>2 DEF StepAxis
  <2> QED
    BY <1>1, <2>1, LevelHonest DEF FlagHonest, AxisTypeOK
<1>3. CASE ~Driven(d)
  BY <1>3 DEF StepAxis, FlagHonest
<1> QED
  BY <1>2, <1>3

(* The flag tells the side of the switch in every state (Axis._level,      *)
(* Axis._step, build).                                                     *)
THEOREM FlagIsHonest == Spec => []FlagHonest
<1>1. Init => FlagHonest
  <2>1. Start \in Int
    BY TravelAssumption
  <2> QED
    BY <2>1, LevelHonest DEF Init, AxisInit, FlagHonest
<1>2. AxisTypeOK /\ FlagHonest /\ [Next]_vars => FlagHonest'
  <2> SUFFICES ASSUME AxisTypeOK, FlagHonest, [Next]_vars
               PROVE  FlagHonest'
    OBVIOUS
  <2>1. CASE TurnSeeking
    <3>1. direction \in Directions /\ StepAxis(direction)
      BY <2>1 DEF TurnSeeking, AxisTypeOK, Directions
    <3> QED
      BY <3>1, StepHonest
  <2>2. CASE TurnCounted
    <3>1. Sign(pending) \in Directions /\ StepAxis(Sign(pending))
      BY <2>2 DEF TurnCounted, Sign, Directions
    <3> QED
      BY <3>1, StepHonest
  <2>3. CASE Command
    <3>1. position' = position /\ flag' = flag
      BY <2>3 DEF Command, Seek, MoveTo, MoveBy, SetCounter, Halt, Normal,
                  Forced, Units
    <3> QED
      BY <3>1 DEF FlagHonest
  <2>4. CASE UNCHANGED axisVars
    BY <2>4 DEF axisVars, FlagHonest
  <2> QED
    BY <2>1, <2>2, <2>3, <2>4, AxisSteps DEF Turn
<1> QED
  BY <1>1, <1>2, AxisTyped, PTL DEF Spec

(* Where the flag changes, the axis is one step past the trip point.       *)
LEMMA FlagChangesAtTrip ==
  ASSUME AxisTypeOK, FlagHonest, NEW d \in Directions, StepAxis(d),
         flag' # flag
  PROVE  position' = d * (Half + 1)
<1>1. position \in Int /\ Half \in Nat /\ flag \in {0, 1}
  BY TravelAssumption DEF AxisTypeOK
<1>2. Driven(d)
  BY DEF StepAxis
<1>3. position' = position + d /\ flag' = Level(position + d, flag)
  BY <1>2 DEF StepAxis
<1>4. CASE Rises = 1
  BY <1>1, <1>3, <1>4 DEF Level, FlagHonest, Directions
<1>5. CASE Rises = -1
  BY <1>1, <1>3, <1>5 DEF Level, FlagHonest, Directions
<1> QED
  BY <1>4, <1>5, RisesAssumption

(* A seek that ends of itself ends one step past the trip point it came    *)
(* to, from whichever side and with whatever lost motion (Axis.advance).   *)
THEOREM SeeksEndAtTrip == Spec => SeekEndsAtTrip
<1> DEFINE A == direction # 0 /\ direction' = 0 /\ flag' # flag
                  => position' = direction * (Half + 1)
<1>1. AxisTypeOK /\ FlagHonest /\ [Next]_vars => [A]_axisVars
  <2> SUFFICES ASSUME AxisTypeOK, FlagHonest, [Next]_vars,
                      direction # 0, flag' # flag
               PROVE  position' = direction * (Half + 1)
    OBVIOUS
  <2>1. direction \in Directions
    BY DEF AxisTypeOK, Directions
  <2>2. CASE TurnSeeking
    BY <2>1, <2>2, FlagChangesAtTrip DEF TurnSeeking
  <2>3. CASE TurnCounted
    BY <2>3 DEF TurnCounted
  <2>4. CASE Command
    BY <2>4 DEF Command, Seek, MoveTo, MoveBy, SetCounter, Halt, Normal,
                Forced, Units
  <2>5. CASE UNCHANGED axisVars
    BY <2>5 DEF axisVars
  <2> QED
    BY <2>2, <2>3, <2>4, <2>5, AxisSteps DEF Turn
<1> QED
  BY <1>1, AxisTyped, FlagIsHonest, PTL DEF Spec, SeekEndsAtTrip

-----------------------------------------------------------------------------
(* A quotient and a remainder are the only ones. *)
LEMMA DivUnique ==
  ASSUME NEW n \in Nat \ {0}, NEW q \in Int, NEW r \in 0 .. n - 1, NEW x \in Int, x = n * q + r
  PROVE  x % n = r
<1>1. x = n * (x \div n) + (x % n) /\ x % n \in 0 .. n - 1 /\ x \div n \in Int
  OBVIOUS
<1>2. n * (q - (x \div n)) = (x % n) - r
  BY <1>1
<1>3. q - (x \div n) = 0
  <2> DEFINE k == q - (x \div n)
  <2>1. k \in Int /\ n * k = (x % n) - r
    BY <1>1, <1>2
  <2>2. -n < n * k /\ n * k < n
    BY <1>1, <2>1
  <2> HIDE DEF k
  <2>3. k < 1
    <3> SUFFICES ASSUME k >= 1 PROVE FALSE
      BY <2>1
    <3>1. n * k >= n
      BY <2>1
    <3> QED
      BY <2>1, <2>2, <3>1
  <2>4. k > -1
    <3> SUFFICES ASSUME k <= -1 PROVE FALSE
      BY <2>1
    <3>1. n * k <= -n
      BY <2>1
    <3> QED
      BY <2>1, <2>2, <3>1
  <2> QED
    BY <2>1, <2>3, <2>4 DEF k
<1> QED
  BY <1>1, <1>3

(* Once around the counter is nowhere. *)
LEMMA ModShift ==
  ASSUME NEW n \in Nat \ {0}, NEW x \in Int
  PROVE  (x + n) % n = x % n /\ (x - n) % n = x % n
<1>1. PICK q \in Int, r \in 0 .. n - 1 : x = n * q + r
  <2>1. x = n * (x \div n) + (x % n) /\ x % n \in 0 .. n - 1 /\ x \div n \in Int
    OBVIOUS
  <2> QED
    BY <2>1
<1>2. x + n = n * (q + 1) + r /\ x - n = n * (q - 1) + r
  BY <1>1
<1>3. x % n = r
  BY <1>1, DivUnique
<1>4. (x + n) % n = r
  <2>1. q + 1 \in Int /\ x + n \in Int
    OBVIOUS
  <2> QED
    BY <1>2, <2>1, DivUnique
<1>5. (x - n) % n = r
  <2>1. q - 1 \in Int /\ x - n \in Int
    OBVIOUS
  <2> QED
    BY <1>2, <2>1, DivUnique
<1> QED
  BY <1>3, <1>4, <1>5

(* A step of the motor is taken from what is left to run, around the end   *)
(* of the counter too. *)
LEMMA CounterTurns ==
  ASSUME NEW n \in Nat \ {0}, NEW c \in 0 .. n - 1, NEW p \in Int, NEW d \in {-1, 1}
  PROVE  (((c + d) % n) + (p - d)) % n = (c + p) % n
<1>1. (c + d) % n \in {c + d, c + d + n, c + d - n}
  <2>1. CASE c + d \in 0 .. n - 1
    <3>1. c + d = n * 0 + (c + d)
      OBVIOUS
    <3>2. (c + d) % n = c + d
      BY <2>1, <3>1, DivUnique
    <3> QED
      BY <3>2
  <2>2. CASE c + d = n
    <3>1. c + d = n * 1 + 0
      BY <2>2
    <3>2. (c + d) % n = 0
      BY <3>1, DivUnique
    <3> QED
      BY <2>2, <3>2
  <2>3. CASE c + d = -1
    <3>1. c + d = n * (-1) + (n - 1)
      BY <2>3
    <3>2. (c + d) % n = n - 1
      BY <3>1, DivUnique
    <3> QED
      BY <2>3, <3>2
  <2> QED
    BY <2>1, <2>2, <2>3
<1> DEFINE turned == (c + d) % n
<1> HIDE DEF turned
<1>2. turned \in {c + d, c + d + n, c + d - n}
  BY <1>1 DEF turned
<1>3. turned + (p - d) \in {c + p, c + p + n, c + p - n} /\ c + p \in Int
  BY <1>2
<1>4. (turned + (p - d)) % n = (c + p) % n
  <2> DEFINE sum == c + p
  <2> DEFINE left == turned + (p - d)
  <2>1. left \in {sum, sum + n, sum - n} /\ sum \in Int
    BY <1>3
  <2> HIDE DEF sum, left
  <2>2. (sum + n) % n = sum % n /\ (sum - n) % n = sum % n
    BY <2>1, ModShift
  <2>3. left % n = sum % n
    BY <2>1, <2>2
  <2> QED
    BY <2>3 DEF sum, left
<1> QED
  BY <1>4 DEF turned

(* An absolute move that nothing disturbs ends on the counter value that   *)
(* it names, however often the counter wraps on the way (Axis._step,       *)
(* Axis.start): what is left to run and the counter add up to it, and no   *)
(* axis seeks on its way there.                                            *)
THEOREM MovesLand == Spec => []MoveLands
<1> DEFINE Straight == direction # 0 => goal = NoGoal
<1>1. Init => Straight /\ MoveLands
  BY DEF Init, AxisInit, MoveLands
<1>2. AxisTypeOK /\ OneEnd /\ Straight /\ MoveLands /\ [Next]_vars => Straight' /\ MoveLands'
  <2> SUFFICES ASSUME AxisTypeOK, OneEnd, Straight, MoveLands, [Next]_vars
               PROVE  Straight' /\ MoveLands'
    OBVIOUS
  <2>1. CASE TurnSeeking
    BY <2>1 DEF TurnSeeking, MoveLands
  <2>2. CASE TurnCounted
    <3> DEFINE d == Sign(pending)
    <3>1. d \in {-1, 1} /\ counter \in 0 .. Counters - 1 /\ pending \in Int
      BY DEF Sign, AxisTypeOK
    <3>2. /\ counter' = (counter + d) % Counters /\ pending' = pending - d
          /\ goal' = goal /\ direction' = direction
      BY <2>2 DEF TurnCounted, StepAxis
    <3> HIDE DEF d
    <3>3. (((counter + d) % Counters) + (pending - d)) % Counters = (counter + pending) % Counters
      BY <3>1, CountersAssumption, CounterTurns
    <3>4. (counter' + pending') % Counters = (counter + pending) % Counters
      BY <3>2, <3>3
    <3> QED
      BY <3>2, <3>4 DEF MoveLands
  <2>3. ASSUME NEW v \in Goals, Seek(v) \/ MoveBy(v)
        PROVE  Straight' /\ MoveLands'
    BY <2>3 DEF Seek, MoveBy, MoveLands, OneEnd
  <2>4. ASSUME NEW v \in Goals, MoveTo(v)
        PROVE  Straight' /\ MoveLands'
    <3>1. counter + (v - counter) = v
      BY CommandAssumption, CountersAssumption DEF AxisTypeOK
    <3>2. /\ counter' = counter /\ pending' = v - counter /\ goal' = v % Counters
          /\ direction' = direction /\ direction = 0
      BY <2>4 DEF MoveTo, OneEnd
    <3> QED
      BY <3>1, <3>2 DEF MoveLands
  <2>5. ASSUME NEW v \in Seats, SetCounter(v)
        PROVE  Straight' /\ MoveLands'
    BY <2>5 DEF SetCounter, MoveLands
  <2>6. CASE Halt \/ Normal \/ Forced \/ Units
    BY <2>6 DEF Halt, Normal, Forced, Units, MoveLands
  <2>7. CASE UNCHANGED axisVars
    BY <2>7 DEF axisVars, MoveLands
  <2> QED
    BY <2>1, <2>2, <2>3, <2>4, <2>5, <2>6, <2>7, AxisSteps DEF Turn, Command
<1> QED
  BY <1>1, <1>2, AxisTyped, OneThingStops, PTL DEF Spec

=============================================================================
