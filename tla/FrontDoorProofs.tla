-------------------------- MODULE FrontDoorProofs --------------------------
(***************************************************************************)
(* The numbering of the fleet, for every fleet it has room for, and safety *)
(* of FrontDoor: for any fleet, words, selections and scenes, any order of *)
(* commands, each cut short anywhere, and a person who edits .env.         *)
(***************************************************************************)
EXTENDS FrontDoor, Functions, SequenceTheorems, TLAPS

(* A word a setting holds names the same vehicle in the simulator and on   *)
(* the real ground, or names nobody in both (fleet_number,                 *)
(* scripts/fleet.sh:82-99).                                                *)
THEOREM SameVehicle ==
  ASSUME NEW word \in Nat, NEW count \in Nat, NEW b \in Bases, NEW c \in Bases
  PROVE  /\ FleetNumber(word, b, count) = Nobody
              <=> FleetNumber(word, c, count) = Nobody
         /\ FleetNumber(word, b, count) # Nobody
              => RealNumber(FleetNumber(word, b, count), b)
                   = RealNumber(FleetNumber(word, c, count), c)
  BY DEF FleetNumber, RealNumber, Nobody, Bases, SimBase

(* A word resolves to a number of the fleet, and a resolved number, stored *)
(* as it is or as its real number, resolves to itself in its own world:    *)
(* px4sim exports resolved numbers and is run again by itself              *)
(* (px4sim:194-205, fleet_number).  With ten vehicles or more this fails:  *)
(* 11 is then a real number and a simulator number of two vehicles.        *)
THEOREM ResolvesToItself ==
  ASSUME NEW word \in Nat, NEW count \in 0 .. MostVehicles, NEW b \in Bases,
         FleetNumber(word, b, count) # Nobody
  PROVE  LET n == FleetNumber(word, b, count)
         IN /\ n \in FleetNumbers(b, count)
            /\ FleetNumber(n, b, count) = n
            /\ FleetNumber(RealNumber(n, b), b, count) = n
  BY DEF FleetNumber, FleetNumbers, RealNumber, Nobody, Bases, SimBase, MostVehicles

(* What `mode` and `active` write selects the vehicles that the words      *)
(* selected, in whichever world reads it next (px4sim:308-316, active_uas).*)
THEOREM SelectionSurvives ==
  ASSUME NEW words \in SUBSET Nat, NEW count \in 0 .. MostVehicles,
         NEW b \in Bases, NEW c \in Bases,
         Unknown(words, b, count) = {}
  PROVE  LET numbers == {FleetNumber(w, b, count) : w \in words}
             stored == Places(numbers, b)
         IN Places(ActiveUas(stored, c, count), c) = Places(ActiveUas(words, b, count), b)
<1> DEFINE numbers == {FleetNumber(w, b, count) : w \in words}
           stored == {RealNumber(n, b) : n \in numbers}
           Place(w) == RealNumber(FleetNumber(w, b, count), b)
<1> SUFFICES {RealNumber(n, c) : n \in ActiveUas(stored, c, count)}
               = {RealNumber(n, b) : n \in ActiveUas(words, b, count)}
  BY DEF Places
<1>1. \A w \in words : FleetNumber(w, b, count) # Nobody
  BY DEF Unknown
<1>2. \A w \in words :
        /\ Place(w) \in 1 .. count
        /\ FleetNumber(w, b, count) = b + Place(w)
        /\ FleetNumber(Place(w), c, count) = c + Place(w)
  BY <1>1 DEF FleetNumber, RealNumber, Nobody, Bases, SimBase, MostVehicles
<1>3. stored = {Place(w) : w \in words}
  OBVIOUS
<1>4. CASE words = {}
  <2>1. stored = {}
    BY <1>4
  <2>2. /\ ActiveUas(stored, c, count) = c + 1 .. c + count
        /\ ActiveUas(words, b, count) = b + 1 .. b + count
    BY <1>4, <2>1 DEF ActiveUas, FleetNumbers
  <2>3. \A d \in Bases : {RealNumber(n, d) : n \in d + 1 .. d + count} = 1 .. count
    <3>1. SUFFICES ASSUME NEW d \in Bases
                   PROVE  {n - d : n \in d + 1 .. d + count} = 1 .. count
      BY DEF RealNumber
    <3>2. \A m \in 1 .. count : d + m \in d + 1 .. d + count /\ (d + m) - d = m
      BY DEF Bases, SimBase
    <3>3. \A n \in d + 1 .. d + count : n - d \in 1 .. count
      BY DEF Bases, SimBase
    <3> QED
      BY <3>2, <3>3
  <2> QED
    BY <2>2, <2>3
<1>5. CASE words # {}
  <2>1. stored # {}
    BY <1>3, <1>5
  <2>2. ActiveUas(stored, c, count) = {c + Place(w) : w \in words}
    <3>1. ActiveUas(stored, c, count)
            = {n \in c + 1 .. c + count :
                 \E s \in stored : FleetNumber(s, c, count) = n}
      BY <2>1 DEF ActiveUas, FleetNumbers
    <3>2. \A w \in words : c + Place(w) \in c + 1 .. c + count
      BY <1>2 DEF Bases, SimBase
    <3>3. \A w \in words : FleetNumber(Place(w), c, count) = c + Place(w)
      BY <1>2
    <3> HIDE DEF Place, stored
    <3> QED
      BY <1>3, <3>1, <3>2, <3>3
  <2>3. ActiveUas(words, b, count) = {b + Place(w) : w \in words}
    <3>1. ActiveUas(words, b, count)
            = {n \in b + 1 .. b + count :
                 \E w \in words : FleetNumber(w, b, count) = n}
      BY <1>5 DEF ActiveUas, FleetNumbers
    <3>2. \A w \in words : b + Place(w) \in b + 1 .. b + count
      BY <1>2 DEF Bases, SimBase
    <3>3. \A w \in words : FleetNumber(w, b, count) = b + Place(w)
      BY <1>2
    <3> HIDE DEF Place
    <3> QED
      BY <3>1, <3>2, <3>3
  <2>4. \A w \in words : (c + Place(w)) - c = Place(w) /\ (b + Place(w)) - b = Place(w)
    BY <1>2 DEF Bases, SimBase
  <2> HIDE DEF Place, stored, numbers
  <2>5. /\ {RealNumber(n, c) : n \in ActiveUas(stored, c, count)} = {Place(w) : w \in words}
        /\ {RealNumber(n, b) : n \in ActiveUas(words, b, count)} = {Place(w) : w \in words}
    BY <2>2, <2>3, <2>4 DEF RealNumber
  <2> QED
    BY <2>5
<1> QED
  BY <1>4, <1>5

(* A simulator and the real fleet never share a ROS domain: neither        *)
(* vehicles, nor ground stations, nor the one with the other               *)
(* (scripts/fleet.sh:70-79, docs/uas-contract.md).  It takes the limit of  *)
(* nine vehicles: a tenth real one would have the simulated ground's.      *)
THEOREM WorldsApart ==
  ASSUME NEW n \in FleetNumbers(0, MostVehicles),
         NEW m \in FleetNumbers(SimBase, MostVehicles)
  PROVE  /\ UasDomain(n) # UasDomain(m)
         /\ UasDomain(n) \notin {GroundDomain(0), GroundDomain(SimBase)}
         /\ UasDomain(m) \notin {GroundDomain(0), GroundDomain(SimBase)}
         /\ GroundDomain(0) # GroundDomain(SimBase)
  BY DEF FleetNumbers, MostVehicles, SimBase, UasDomain, GroundDomain

(* What one simulator publishes on its host collides with nothing else it  *)
(* publishes: the MAVLink and Foxglove ports of every vehicle and the      *)
(* ground's bridge; nor do addresses on the shared network collide, of     *)
(* either fleet and its ground station (uas_tcp_port, uas_foxglove_port,   *)
(* uas_gcs_port, uas_address).                                             *)
THEOREM NothingCollides ==
  ASSUME NEW n \in FleetNumbers(SimBase, MostVehicles),
         NEW m \in FleetNumbers(SimBase, MostVehicles),
         NEW r \in FleetNumbers(0, MostVehicles)
  PROVE  /\ n # m => /\ UasTcpPort(n, SimBase) # UasTcpPort(m, SimBase)
                     /\ UasFoxglovePort(n, SimBase) # UasFoxglovePort(m, SimBase)
                     /\ UasGcsPort(n) # UasGcsPort(m)
                     /\ UasAddress(n, SimBase) # UasAddress(m, SimBase)
         /\ UasTcpPort(n, SimBase) # UasFoxglovePort(m, SimBase)
         /\ UasTcpPort(n, SimBase) # UasTcpPort(r, 0)
         /\ GroundFoxglove \notin {UasFoxglovePort(n, SimBase), UasTcpPort(n, SimBase)}
         /\ UasAddress(n, SimBase) \notin {UasAddress(r, 0), GroundAddress(0)}
         /\ UasAddress(r, 0) # GroundAddress(0)
  BY DEF FleetNumbers, MostVehicles, SimBase, UasTcpPort, UasFoxglovePort,
         UasGcsPort, UasAddress, GroundAddress, GroundFoxglove, Simulated

-----------------------------------------------------------------------------
(***************************************************************************)
(* The steps of a command, as a set: what a command will still do does not *)
(* depend on their order, but where it is said.                            *)
(***************************************************************************)
LEMMA RangeConcat ==
  ASSUME NEW S, NEW s \in Seq(S), NEW t \in Seq(S)
  PROVE  s \o t \in Seq(S) /\ Range(s \o t) = Range(s) \cup Range(t)
<1>0. s \o t \in Seq(S)
  OBVIOUS
<1>1. ASSUME NEW i \in DOMAIN (s \o t) PROVE (s \o t)[i] \in Range(s) \cup Range(t)
  BY DEF Range
<1>2. ASSUME NEW i \in DOMAIN s PROVE s[i] \in Range(s \o t)
  <2>1. i \in DOMAIN (s \o t) /\ (s \o t)[i] = s[i]
    OBVIOUS
  <2> QED
    BY <2>1 DEF Range
<1>3. ASSUME NEW i \in DOMAIN t PROVE t[i] \in Range(s \o t)
  <2>1. Len(s) + i \in DOMAIN (s \o t) /\ (s \o t)[Len(s) + i] = t[i]
    OBVIOUS
  <2> QED
    BY <2>1 DEF Range
<1> QED
  BY <1>0, <1>1, <1>2, <1>3 DEF Range

LEMMA RangeOne ==
  ASSUME NEW S, NEW x \in S
  PROVE  <<x>> \in Seq(S) /\ Range(<<x>>) = {x} /\ Head(<<x>>) = x /\ <<x>> # <<>>
BY DEF Range

LEMMA RangeNone ==
  ASSUME NEW S
  PROVE  <<>> \in Seq(S) /\ Range(<<>>) = {}
BY DEF Range

LEMMA HeadConcat ==
  ASSUME NEW S, NEW s \in Seq(S), NEW t \in Seq(S), s # <<>>
  PROVE  Head(s \o t) = Head(s) /\ s \o t # <<>>
OBVIOUS

LEMMA RangeTail ==
  ASSUME NEW S, NEW s \in Seq(S), s # <<>>
  PROVE  /\ Tail(s) \in Seq(S) /\ Head(s) \in S
         /\ Range(s) = {Head(s)} \cup Range(Tail(s))
         /\ Len(s) = 1 => Range(Tail(s)) = {}
<1>1. /\ Tail(s) \in Seq(S) /\ Head(s) \in S
      /\ Len(s) \in Nat /\ Len(s) > 0 /\ Head(s) = s[1]
  OBVIOUS
<1>2. ASSUME NEW i \in DOMAIN s PROVE s[i] \in {Head(s)} \cup Range(Tail(s))
  <2>1. CASE i = 1
    BY <2>1, <1>1
  <2>2. CASE i # 1
    <3>1. i - 1 \in DOMAIN Tail(s) /\ Tail(s)[i - 1] = s[i]
      BY <2>2
    <3> QED
      BY <3>1 DEF Range
  <2> QED
    BY <2>1, <2>2
<1>3. ASSUME NEW i \in DOMAIN Tail(s) PROVE Tail(s)[i] \in Range(s)
  <2>1. i + 1 \in DOMAIN s /\ Tail(s)[i] = s[i + 1]
    OBVIOUS
  <2> QED
    BY <2>1 DEF Range
<1>4. Head(s) \in Range(s)
  BY <1>1 DEF Range
<1>5. Len(s) = 1 => Range(Tail(s)) = {}
  <2>1. Len(s) = 1 => DOMAIN Tail(s) = {}
    OBVIOUS
  <2> QED
    BY <2>1 DEF Range
<1> QED
  BY <1>1, <1>2, <1>3, <1>4, <1>5 DEF Range

-----------------------------------------------------------------------------
(***************************************************************************)
(* Types                                                                   *)
(***************************************************************************)
Settings ==
  [base : Bases, profiles : ProfileLists, count : 1 .. MaxFleet, active : SUBSET Nat,
   mosaic : Nat, scene : Scenes, bench : BOOLEAN, previous : Scenes \cup {""}]
Names ==
  {"none", "restart", "stop", "active", "mosaic", "scenario-select", "mode",
   "bench enable", "bench disable", "fleet", "reload"}
SetSteps ==
  [do : {"set"}, key : {"base"}, value : Bases]
    \cup [do : {"set"}, key : {"profiles"}, value : ProfileLists]
    \cup [do : {"set"}, key : {"count"}, value : 1 .. MaxFleet]
    \cup [do : {"set"}, key : {"active"}, value : SUBSET Nat]
    \cup [do : {"set"}, key : {"mosaic"}, value : Nat]
    \cup [do : {"set"}, key : {"scene"}, value : Scenes]
    \cup [do : {"set"}, key : {"bench"}, value : BOOLEAN]
    \cup [do : {"set"}, key : {"previous"}, value : Scenes \cup {""}]
UpSteps == [do : {"up"}, services : SUBSET Services, active : SUBSET Nat, mosaic : Nat]
Steps ==
  SetSteps \cup UpSteps \cup [do : {"down"}] \cup [do : {"remove"}, services : SUBSET Services]

TypeInv ==
  /\ aircraft \in BOOLEAN
  /\ env \in Settings
  /\ command \in [name : Names, steps : Seq(Steps), flying : SUBSET Nat, known : BOOLEAN]
  /\ running \subseteq Services
  /\ given \in [active : SUBSET Nat, mosaic : Nat, bench : BOOLEAN]
  /\ kept \in Scenes \cup {"", "lost"}
  /\ strayed \in BOOLEAN

-----------------------------------------------------------------------------
(***************************************************************************)
(* The inductive invariant.  It speaks of what the command that runs will  *)
(* still do, and of what .env will hold once it has.                       *)
(***************************************************************************)
Left == Range(command.steps)
Sets(key) == {s \in Left : s.do = "set" /\ s.key = key}
WillBe(key, value) ==
  IF Sets(key) = {} THEN env[key] = value ELSE \A s \in Sets(key) : s.value = value

(* Which command does what.                                                *)
Starters == {"restart", "active", "mosaic", "scenario-select", "fleet", "reload"}
Writes(name) ==
  CASE name = "mode" -> {"profiles", "base", "active", "mosaic"}
    [] name \in {"bench enable", "bench disable"} -> {"bench", "scene", "previous"}
    [] name = "active" -> {"active"}
    [] name = "mosaic" -> {"mosaic"}
    [] name = "scenario-select" -> {"scene"}
    [] name = "fleet" -> {"count"}
    [] OTHER -> {}
Planned(name, steps) ==
  \A s \in steps :
    /\ s.do = "set" => s.key \in Writes(name)
    /\ s.do = "remove" => name = "fleet"
    /\ s.do = "up" => name \in Starters
PlanInv == Planned(command.name, Left) /\ (IsIdle => Left = {})

(* What is about to be started is of the world that .env describes, and    *)
(* that world changes only while nothing runs.                             *)
OfWorld(services) == \A s \in services : OfSimulator(s) <=> IsSimulated
Agreed == RealSelected(env.profiles) <=> ~IsSimulated
WorldInv ==
  /\ command.name = "mode" => ~StackRuns
  /\ \A s \in Left : s.do = "up" => Agreed /\ OfWorld(s.services)

(* Bench mode changes only while nothing runs, or after what runs is down, *)
(* which is the first step and not the last.                               *)
BenchInv ==
  /\ command.name = "bench enable" => ~StackRuns
  /\ command.name = "bench disable" =>
       \/ ~StackRuns /\ \A s \in Left : s.do = "set"
       \/ /\ MoreSteps /\ Step.do = "down" /\ Sets("previous") # {}
          /\ \A s \in Range(Tail(command.steps)) : s.do = "set"

(* What will still run is of the fleet that .env will hold.                *)
VehiclesOf(services) == {s \in services : s[1] \in {"uas", "onboard"} /\ s[2] # 0}
Removing == UNION {s.services : s \in {t \in Left : t.do = "remove"}}
HousedInv ==
  \E c \in 1 .. MaxFleet :
    /\ WillBe("count", c)
    /\ ~strayed => Vehicles \ Removing \subseteq OfVehicles(FleetNumbers(env.base, c))
    /\ \A s \in Left : s.do = "up" =>
         VehiclesOf(s.services) \subseteq OfVehicles(FleetNumbers(env.base, c))

(* `mode` stores the vehicles that fly, in words that either world reads.  *)
ModeInv ==
  command.name = "mode" /\ command.known =>
    /\ Flying = command.flying
    /\ \A s \in Sets("active") : \A b \in Bases :
         Places(ActiveUas(s.value, b, env.count), b) = command.flying

(* What bench mode will leave in .env: nothing of it, or UROC and the      *)
(* scene that it replaced.                                                 *)
Before(scene) == IF scene = Uroc THEN "" ELSE scene
KeptInv ==
  /\ command.name = "scenario-select" => kept \notin Scenes
  /\ command.name = "bench enable" => kept # ""
  /\ kept = "" \/ command.name = "bench disable" =>
       WillBe("bench", FALSE) /\ WillBe("previous", "")
  /\ kept \in Scenes =>
       IF command.name = "bench disable" THEN WillBe("scene", kept)
       ELSE /\ WillBe("bench", TRUE) /\ WillBe("scene", Uroc)
            /\ WillBe("previous", Before(kept))

IInv ==
  /\ TypeInv /\ PlanInv /\ WorldInv /\ BenchInv /\ HousedInv /\ ModeInv /\ KeptInv
  /\ OneWorld /\ BenchSettled

-----------------------------------------------------------------------------
(***************************************************************************)
(* The fleet                                                               *)
(***************************************************************************)
LEMMA CountBound ==
  ASSUME NEW c \in 1 .. MaxFleet
  PROVE  c \in 1 .. MostVehicles /\ c \in Nat
BY FleetAssumption DEF MostVehicles

LEMMA SettingTypes ==
  ASSUME TypeInv
  PROVE  /\ env.base \in Bases /\ env.profiles \in ProfileLists
         /\ env.count \in 1 .. MaxFleet /\ env.active \in SUBSET Nat
         /\ env.mosaic \in Nat /\ env.scene \in Scenes /\ env.previous \in Scenes \cup {""}
BY DEF TypeInv, Settings

LEMMA FleetNumberType ==
  ASSUME NEW b \in Bases, NEW c \in 1 .. MaxFleet, NEW word \in Nat
  PROVE  /\ FleetNumber(word, b, c) \in FleetNumbers(b, c) \cup {Nobody}
         /\ FleetNumbers(b, c) \subseteq Nat \ {0}
         /\ \A n \in FleetNumbers(b, c) : RealNumber(n, b) \in Nat
BY CountBound DEF FleetNumber, FleetNumbers, RealNumber, Bases, SimBase, Nobody

LEMMA ActiveType ==
  ASSUME NEW b \in Bases, NEW c \in 1 .. MaxFleet, NEW words \in SUBSET Nat
  PROVE  ActiveUas(words, b, c) \subseteq FleetNumbers(b, c)
BY DEF ActiveUas

LEMMA PlacesType ==
  ASSUME NEW b \in Bases, NEW c \in 1 .. MaxFleet, NEW numbers \in SUBSET FleetNumbers(b, c)
  PROVE  Places(numbers, b) \in SUBSET Nat
BY FleetNumberType, 0 \in Nat DEF Places

(* Which world reads a selection makes no difference to where its vehicles *)
(* are in the fleet.                                                       *)
LEMMA FlyingWithin ==
  ASSUME NEW words \in SUBSET Nat, NEW count \in 1 .. MaxFleet,
         NEW b \in Bases, NEW c \in Bases
  PROVE  Places(ActiveUas(words, b, count), b) \subseteq Places(ActiveUas(words, c, count), c)
<1> SUFFICES ASSUME NEW n \in ActiveUas(words, b, count)
             PROVE  \E m \in ActiveUas(words, c, count) : RealNumber(m, c) = RealNumber(n, b)
  BY DEF Places
<1>1. /\ n - b \in 1 .. count /\ c + (n - b) \in FleetNumbers(c, count)
      /\ RealNumber(c + (n - b), c) = RealNumber(n, b)
  BY ActiveType, CountBound DEF FleetNumbers, RealNumber, Bases, SimBase
<1>2. CASE words = {}
  BY <1>1, <1>2 DEF ActiveUas
<1>3. CASE words # {}
  <2> PICK w \in words : FleetNumber(w, b, count) = n
    BY <1>3 DEF ActiveUas
  <2>1. FleetNumber(w, c, count) = c + (n - b)
    BY <1>1, CountBound DEF FleetNumber, Bases, SimBase, Nobody
  <2> QED
    BY <1>1, <1>3, <2>1 DEF ActiveUas
<1> QED
  BY <1>2, <1>3

LEMMA FlyingAnywhere ==
  ASSUME NEW words \in SUBSET Nat, NEW count \in 1 .. MaxFleet,
         NEW b \in Bases, NEW c \in Bases
  PROVE  Places(ActiveUas(words, b, count), b) = Places(ActiveUas(words, c, count), c)
<1>1. Places(ActiveUas(words, b, count), b) \subseteq Places(ActiveUas(words, c, count), c)
  BY FlyingWithin
<1>2. Places(ActiveUas(words, c, count), c) \subseteq Places(ActiveUas(words, b, count), b)
  BY FlyingWithin
<1> QED
  BY <1>1, <1>2

LEMMA ServicesTyped ==
  ASSUME NEW b \in Bases, NEW c \in 1 .. MaxFleet, NEW numbers \in SUBSET FleetNumbers(b, c),
         NEW profiles \in ProfileLists
  PROVE  /\ Simulated(b) => OfVehicles(numbers) \subseteq Services
         /\ Started(profiles, numbers, b) \subseteq Services
<1>1. Simulated(b) => numbers \subseteq FleetNumbers(SimBase, MaxFleet)
  BY CountBound, FleetAssumption DEF Simulated, Bases, SimBase, FleetNumbers
<1>2. Simulated(b) => OfVehicles(numbers) \subseteq Services
  BY <1>1 DEF OfVehicles, Services
<1>3. \A p \in profiles \cup {"sim"} : OfProfile(p) \in Services
  BY DEF ProfileLists, Services
<1> QED
  BY <1>2, <1>3 DEF Started

(* What is started for a list of profiles is of one world, and its         *)
(* vehicles are those that fly.                                            *)
LEMMA StartedIs ==
  ASSUME TypeInv, NEW profiles \in ProfileLists, RealSelected(profiles) <=> ~IsSimulated,
         NEW c \in 1 .. MaxFleet, NEW numbers \in SUBSET FleetNumbers(env.base, c)
  PROVE  /\ OfWorld(Started(profiles, numbers, env.base))
         /\ VehiclesOf(Started(profiles, numbers, env.base))
              \subseteq OfVehicles(FleetNumbers(env.base, c))
<1>1. numbers \subseteq Nat \ {0}
  BY SettingTypes, FleetNumberType, 0 \in Nat
<1>2. /\ \A s \in OfVehicles(numbers) : OfSimulator(s)
      /\ OfVehicles(numbers) \subseteq OfVehicles(FleetNumbers(env.base, c))
  BY <1>1 DEF OfVehicles, OfSimulator, Router, Companion
<1>3. \A p \in profiles \cup {"sim"} :
        /\ OfSimulator(OfProfile(p)) <=> p \notin {"ground", "aircraft"}
        /\ OfProfile(p)[2] = 0
  BY DEF ProfileLists, OfProfile, OfSimulator
<1>4. CASE IsSimulated
  <2>1. profiles \cap {"ground", "aircraft"} = {}
    BY <1>4 DEF RealSelected
  <2> QED
    BY <1>2, <1>3, <1>4, <2>1 DEF Started, OfWorld, VehiclesOf, IsSimulated
<1>5. CASE ~IsSimulated
  <2>1. profiles \in {{"ground"}, {"aircraft"}}
    BY <1>5 DEF RealSelected, ProfileLists
  <2> QED
    BY <1>3, <1>5, <2>1 DEF Started, OfWorld, VehiclesOf, IsSimulated
<1> QED
  BY <1>4, <1>5

-----------------------------------------------------------------------------
(***************************************************************************)
(* One step of a command                                                   *)
(***************************************************************************)
LEMMA StepTypes ==
  ASSUME NEW s \in Steps
  PROVE  /\ s.do \in {"set", "up", "down", "remove"}
         /\ s.do = "set" => s \in SetSteps
         /\ s.do = "up" => s \in UpSteps
         /\ s.do = "remove" => s.services \subseteq Services
BY DEF Steps, SetSteps, UpSteps

LEMMA Executed ==
  ASSUME TypeInv, MoreSteps, Advance
  PROVE  /\ Step \in Steps
         /\ Left = {Step} \cup Left' /\ Left' = Range(Tail(command.steps))
         /\ command' \in [name : Names, steps : Seq(Steps), flying : SUBSET Nat, known : BOOLEAN]
         /\ \/ command'.name = "none" /\ Left' = {} /\ Ended
            \/ /\ command'.name = command.name /\ command'.flying = command.flying
               /\ command'.known = command.known /\ ~Ended
<1>1. command.steps \in Seq(Steps) /\ command.steps # <<>>
  BY DEF TypeInv, MoreSteps
<1>2. /\ Tail(command.steps) \in Seq(Steps) /\ Step \in Steps
      /\ Left = {Step} \cup Range(Tail(command.steps))
      /\ Ended => Range(Tail(command.steps)) = {}
  BY <1>1, RangeTail DEF Step, Ended, Left
<1>3. CASE Ended
  <2>1. command' = Idle
    BY <1>3 DEF Advance
  <2>2. Idle.steps = <<>> /\ Idle.name = "none"
    BY DEF Idle
  <2>3. Left' = {}
    BY <2>1, <2>2, RangeNone DEF Left
  <2>4. Idle \in [name : Names, steps : Seq(Steps), flying : SUBSET Nat, known : BOOLEAN]
    BY RangeNone DEF Idle, Names
  <2> QED
    BY <1>2, <1>3, <2>1, <2>2, <2>3, <2>4
<1>4. CASE ~Ended
  <2>1. command' = [command EXCEPT !.steps = Tail(command.steps)]
    BY <1>4 DEF Advance
  <2>2. /\ command' \in [name : Names, steps : Seq(Steps), flying : SUBSET Nat, known : BOOLEAN]
        /\ command'.steps = Tail(command.steps) /\ command'.name = command.name
        /\ command'.flying = command.flying /\ command'.known = command.known
    BY <1>2, <2>1 DEF TypeInv
  <2> QED
    BY <1>2, <1>4, <2>2 DEF Left
<1> QED
  BY <1>3, <1>4

LEMMA SetEffect ==
  ASSUME TypeInv, EnvSet
  PROVE  /\ Step \in SetSteps
         /\ env' \in Settings
         /\ \A key \in DOMAIN env : env'[key] = IF key = Step.key THEN Step.value ELSE env[key]
         /\ DOMAIN env = {"base", "profiles", "count", "active", "mosaic", "scene", "bench",
                          "previous"}
<1>1. Step \in SetSteps
  BY Executed, StepTypes DEF EnvSet
<1>2. env \in Settings /\ env' = [env EXCEPT ![Step.key] = Step.value]
  BY DEF EnvSet, TypeInv
<1> QED
  BY <1>1, <1>2 DEF SetSteps, Settings

(* A step neither adds to nor takes from what .env will hold.              *)
LEMMA WillBeKept ==
  ASSUME TypeInv, EnvSet \/ StackDown \/ RemoveRetired \/ StackUp,
         NEW key \in {"base", "profiles", "count", "active", "mosaic", "scene", "bench", "previous"},
         NEW value, WillBe(key, value)
  PROVE  IF Sets(key)' = {} THEN env'[key] = value ELSE \A s \in Sets(key)' : s.value = value
<1>1. Left = {Step} \cup Left'
  BY Executed DEF EnvSet, StackDown, RemoveRetired, StackUp
<1>2. CASE EnvSet
  BY <1>1, <1>2, SetEffect DEF WillBe, Sets, EnvSet
<1>3. CASE ~EnvSet
  <2>1. env' = env /\ Step.do # "set"
    BY <1>3 DEF StackDown, RemoveRetired, StackUp
  <2>2. Sets(key)' = Sets(key)
    BY <1>1, <2>1 DEF Sets
  <2> QED
    BY <2>1, <2>2 DEF WillBe
<1> QED
  BY <1>2, <1>3

LEMMA EnvSetKeeps ==
  ASSUME IInv, EnvSet
  PROVE  IInv' /\ (kept \in Scenes /\ kept' = "" => env'.scene = kept)
<1>1. /\ Left = {Step} \cup Left' /\ Step.do = "set" /\ Step.key \in Writes(command.name)
      /\ UNCHANGED <<aircraft, running, given, strayed>>
      /\ kept' = IF command.name = "bench disable" /\ Ended THEN "" ELSE kept
  BY Executed DEF EnvSet, IInv, PlanInv, Planned
<1>2. \/ command'.name = "none" /\ Left' = {} /\ Ended
      \/ /\ command'.name = command.name /\ command'.flying = command.flying
         /\ command'.known = command.known /\ ~Ended
  BY Executed DEF EnvSet, IInv
<1>3. TypeInv'
  <2>1. kept' \in Scenes \cup {"", "lost"}
    BY <1>1 DEF IInv, TypeInv
  <2> QED
    BY <1>1, <2>1, Executed, SetEffect DEF EnvSet, IInv, TypeInv
<1>4. PlanInv'
  BY <1>1, <1>2 DEF IInv, PlanInv, Planned, IsIdle
<1>5. \A key \in DOMAIN env : env'[key] = IF key = Step.key THEN Step.value ELSE env[key]
  BY SetEffect DEF IInv
<1>6. /\ env.base = env["base"] /\ env.profiles = env["profiles"] /\ env.bench = env["bench"]
      /\ env.active = env["active"] /\ env.count = env["count"] /\ env.scene = env["scene"]
  OBVIOUS
<1>7. Step.key \in {"base", "profiles"} \/ (env'.base = env.base /\ env'.profiles = env.profiles)
  BY SetEffect DEF IInv
<1>8. Step.key \in {"base", "profiles"} =>
        ~StackRuns /\ command.name = "mode" /\ \A s \in Left : s.do # "up"
  BY <1>1 DEF IInv, PlanInv, Planned, WorldInv, Writes, Starters
<1>9. WorldInv'
  BY <1>1, <1>2, <1>7, <1>8 DEF IInv, WorldInv, StackRuns, Agreed, OfWorld, IsSimulated
<1>10. OneWorld'
  BY <1>1, <1>7, <1>8 DEF IInv, OneWorld, StackRuns, IsSimulated
<1>11. BenchInv' /\ BenchSettled'
  <2>1. Step.key = "bench" => ~StackRuns
    BY <1>1 DEF IInv, BenchInv, Writes
  <2>2. Step.key # "bench" => env'.bench = env.bench
    BY SetEffect DEF IInv
  <2> QED
    BY <1>1, <1>2, <2>1, <2>2 DEF IInv, BenchInv, BenchSettled, StackRuns
<1>12. HousedInv'
  <2> PICK c \in 1 .. MaxFleet :
        /\ WillBe("count", c)
        /\ ~strayed => Vehicles \ Removing \subseteq OfVehicles(FleetNumbers(env.base, c))
        /\ \A s \in Left : s.do = "up" =>
             VehiclesOf(s.services) \subseteq OfVehicles(FleetNumbers(env.base, c))
    BY DEF IInv, HousedInv
  <2>1. WillBe("count", c)'
    BY WillBeKept DEF IInv, WillBe
  <2>2. Removing' = Removing
    <3>1. {t \in Left' : t.do = "remove"} = {t \in Left : t.do = "remove"}
      BY <1>1
    <3> QED
      BY <3>1 DEF Removing
  <2>3. Vehicles' = Vehicles /\ (~StackRuns => Vehicles = {})
    BY <1>1 DEF Vehicles, StackRuns
  <2> QED
    BY <1>1, <1>7, <1>8, <2>1, <2>2, <2>3 DEF HousedInv, VehiclesOf
<1>13. ModeInv'
  <2> SUFFICES ASSUME command'.name = "mode", command'.known
               PROVE  /\ Flying' = command.flying
                      /\ \A s \in Sets("active")' : \A b \in Bases :
                           Places(ActiveUas(s.value, b, env'.count), b) = command.flying
    BY <1>2 DEF ModeInv
  <2>1. command.name = "mode" /\ command.known
    BY <1>2
  <2>2. /\ Flying = command.flying
        /\ \A s \in Sets("active") : \A b \in Bases :
             Places(ActiveUas(s.value, b, env.count), b) = command.flying
    BY <2>1 DEF IInv, ModeInv
  <2>3. env'.count = env.count
    BY <1>1, <2>1, SetEffect DEF IInv, Writes
  <2>4. CASE Step.key = "active"
    <3>1. env'.active = Step.value /\ env'.base \in Bases /\ Step \in Sets("active")
      BY <1>1, <1>3, <2>4, SetEffect DEF IInv, TypeInv, Settings, Sets
    <3>2. Flying' = Places(ActiveUas(Step.value, env'.base, env.count), env'.base)
      BY <2>3, <3>1 DEF Flying, Active
    <3> QED
      BY <1>1, <2>2, <2>3, <3>1, <3>2 DEF Sets
  <2>5. CASE Step.key # "active"
    <3>1. env'.active = env.active /\ env'.base \in Bases
      BY <2>5, <1>3, SetEffect, SettingTypes DEF IInv, TypeInv, Settings
    <3>2. env.base \in Bases /\ env.active \in SUBSET Nat /\ env.count \in 1 .. MaxFleet
      BY SettingTypes DEF IInv
    <3>3. Places(ActiveUas(env.active, env'.base, env.count), env'.base)
            = Places(ActiveUas(env.active, env.base, env.count), env.base)
      BY <3>1, <3>2, FlyingAnywhere
    <3>4. Flying' = Flying
      BY <2>3, <3>1, <3>3 DEF Flying, Active
    <3> QED
      BY <1>1, <2>2, <2>3, <3>4 DEF Sets
  <2> QED
    BY <2>4, <2>5
<1>14. KeptInv' /\ (kept \in Scenes /\ kept' = "" => env'.scene = kept)
  <2>1. ASSUME NEW key \in {"scene", "bench", "previous"}, NEW value, WillBe(key, value)
        PROVE  IF Sets(key)' = {} THEN env'[key] = value
               ELSE \A s \in Sets(key)' : s.value = value
    BY <2>1, WillBeKept DEF IInv
  <2>2. CASE kept' = kept /\ command'.name = command.name
    <3>1. kept = "" \/ command.name = "bench disable" =>
            WillBe("bench", FALSE)' /\ WillBe("previous", "")'
      BY <2>1 DEF IInv, KeptInv, WillBe
    <3>2. kept \in Scenes /\ command.name = "bench disable" => WillBe("scene", kept)'
      BY <2>1, <2>2 DEF IInv, KeptInv, WillBe
    <3>3. kept \in Scenes /\ command.name # "bench disable" =>
            /\ WillBe("bench", TRUE)' /\ WillBe("scene", Uroc)'
            /\ WillBe("previous", Before(kept))'
      BY <2>1, <2>2 DEF IInv, KeptInv, WillBe, Before
    <3>4. KeptInv'
      BY <2>2, <3>1, <3>2, <3>3 DEF IInv, KeptInv
    <3> QED
      BY <2>2, <3>4, SceneAssumption
  <2>3. CASE command'.name = "none" /\ Left' = {} /\ Ended /\ command.name = "bench disable"
    <3>1. kept' = ""
      BY <1>1, <2>3
    <3>2. env'["bench"] = FALSE /\ env'["previous"] = ""
          /\ (kept \in Scenes => env'["scene"] = kept)
      BY <2>1, <2>3 DEF IInv, KeptInv, Sets
    <3>3. KeptInv'
      BY <2>3, <3>1, <3>2, SceneAssumption DEF KeptInv, WillBe, Sets
    <3> QED
      BY <3>2, <3>3
  <2>4. CASE command'.name = "none" /\ Left' = {} /\ Ended /\ command.name # "bench disable"
    BY <1>1, <2>1, <2>4, SceneAssumption DEF IInv, KeptInv, WillBe, Before
  <2> QED
    BY <1>1, <1>2, <2>2, <2>3, <2>4, SceneAssumption
<1> QED
  BY <1>3, <1>4, <1>9, <1>10, <1>11, <1>12, <1>13, <1>14 DEF IInv

(* The steps that leave .env alone.                                        *)
LEMMA ComposeStep ==
  ASSUME IInv, StackDown \/ RemoveRetired \/ StackUp
  PROVE  /\ Left = {Step} \cup Left' /\ Step \in Left /\ Step.do # "set"
         /\ UNCHANGED <<aircraft, env, kept>>
         /\ \/ command'.name = "none" /\ Left' = {}
            \/ /\ command'.name = command.name /\ command'.flying = command.flying
               /\ command'.known = command.known
         /\ PlanInv' /\ ModeInv' /\ KeptInv'
         /\ command' \in [name : Names, steps : Seq(Steps), flying : SUBSET Nat, known : BOOLEAN]
<1>1. /\ Left = {Step} \cup Left' /\ Step.do # "set" /\ UNCHANGED <<aircraft, env, kept>>
      /\ command' \in [name : Names, steps : Seq(Steps), flying : SUBSET Nat, known : BOOLEAN]
  BY Executed DEF StackDown, RemoveRetired, StackUp, IInv
<1>2. \/ command'.name = "none" /\ Left' = {}
      \/ /\ command'.name = command.name /\ command'.flying = command.flying
         /\ command'.known = command.known
  BY Executed DEF StackDown, RemoveRetired, StackUp, IInv
<1>3. PlanInv'
  BY <1>1, <1>2 DEF IInv, PlanInv, Planned, IsIdle
<1>4. ModeInv'
  BY <1>1, <1>2 DEF IInv, ModeInv, Flying, Active, Sets
<1>5. \A key \in {"scene", "bench", "previous"} : Sets(key)' = Sets(key)
  BY <1>1 DEF Sets
<1>6. KeptInv'
  <2>1. CASE command'.name = command.name
    BY <1>1, <1>5, <2>1 DEF IInv, KeptInv, WillBe, Before
  <2>2. CASE command'.name = "none" /\ Left' = {}
    <3>1. command.name # "bench disable"
      BY <1>1, <1>5, <2>2 DEF IInv, BenchInv, Sets
    <3> QED
      BY <1>1, <1>5, <2>2, <3>1 DEF IInv, KeptInv, WillBe, Before
  <2> QED
    BY <1>2, <2>1, <2>2
<1> QED
  BY <1>1, <1>2, <1>3, <1>4, <1>6

LEMMA HousedKept ==
  ASSUME IInv, StackDown \/ RemoveRetired \/ StackUp,
         NEW c \in 1 .. MaxFleet, WillBe("count", c),
         \A s \in Left : s.do = "up" =>
           VehiclesOf(s.services) \subseteq OfVehicles(FleetNumbers(env.base, c)),
         ~strayed' => Vehicles' \ Removing' \subseteq OfVehicles(FleetNumbers(env.base, c))
  PROVE  HousedInv'
<1>1. WillBe("count", c)'
  BY WillBeKept DEF IInv, WillBe
<1>2. Left' \subseteq Left /\ env' = env
  BY ComposeStep
<1> QED
  BY <1>1, <1>2 DEF HousedInv, VehiclesOf

LEMMA ComposeKeeps == IInv /\ (StackDown \/ RemoveRetired \/ StackUp) => IInv'
<1> SUFFICES ASSUME IInv, StackDown \/ RemoveRetired \/ StackUp PROVE IInv'
  OBVIOUS
<1>1. /\ Left = {Step} \cup Left' /\ Step \in Left /\ Step.do # "set" /\ UNCHANGED <<aircraft, env, kept>>
      /\ \/ command'.name = "none" /\ Left' = {}
         \/ /\ command'.name = command.name /\ command'.flying = command.flying
            /\ command'.known = command.known
      /\ command' \in [name : Names, steps : Seq(Steps), flying : SUBSET Nat, known : BOOLEAN]
  BY ComposeStep
<1>2. PlanInv' /\ ModeInv' /\ KeptInv'
  BY ComposeStep
<1>3. Step \in Steps /\ Left' = Range(Tail(command.steps))
  BY Executed DEF IInv, StackDown, RemoveRetired, StackUp
<1> PICK c \in 1 .. MaxFleet :
      /\ WillBe("count", c)
      /\ ~strayed => Vehicles \ Removing \subseteq OfVehicles(FleetNumbers(env.base, c))
      /\ \A s \in Left : s.do = "up" =>
           VehiclesOf(s.services) \subseteq OfVehicles(FleetNumbers(env.base, c))
  BY DEF IInv, HousedInv
<1>4. \A s \in Left' : s.do = "up" => Agreed' /\ OfWorld(s.services)'
  BY <1>1 DEF IInv, WorldInv, Agreed, OfWorld, IsSimulated
<1>5. CASE StackDown
  <2>1. running' = {} /\ strayed' = FALSE /\ given' = given
    BY <1>5 DEF StackDown
  <2>2. TypeInv'
    <3>1. strayed' \in BOOLEAN
      BY <2>1, Zenon
    <3> QED
      BY <1>1, <2>1, <3>1 DEF IInv, TypeInv
  <2>3. BenchInv'
    BY <1>1, <1>3, <2>1 DEF IInv, BenchInv, StackRuns, Sets
  <2>4. HousedInv'
    BY <2>1, HousedKept DEF Vehicles
  <2> QED
    BY <1>2, <1>4, <2>1, <2>2, <2>3, <2>4
    DEF IInv, WorldInv, OneWorld, BenchSettled, StackRuns
<1>6. CASE RemoveRetired
  <2>1. running' = running \ Step.services /\ Step.do = "remove" /\ UNCHANGED <<given, strayed>>
    BY <1>6 DEF RemoveRetired
  <2>2. TypeInv'
    BY <1>1, <2>1 DEF IInv, TypeInv
  <2>3. command.name = "fleet"
    BY <1>1, <2>1 DEF IInv, PlanInv, Planned
  <2>4. BenchInv' /\ WorldInv'
    BY <1>1, <1>4, <2>3 DEF BenchInv, WorldInv
  <2>5. Removing \subseteq Removing' \cup Step.services
    BY <1>1 DEF Removing
  <2>6. HousedInv'
    BY <2>1, <2>5, HousedKept DEF Vehicles
  <2>7. OneWorld' /\ BenchSettled'
    BY <1>1, <2>1 DEF IInv, OneWorld, BenchSettled, StackRuns, IsSimulated
  <2> QED
    BY <1>2, <2>2, <2>4, <2>6, <2>7 DEF IInv
<1>7. CASE StackUp
  <2>1. /\ running' = running \cup Step.services /\ strayed' = strayed /\ Step.do = "up"
        /\ given' = [active |-> Step.active, mosaic |-> Step.mosaic, bench |-> env.bench]
    BY <1>7 DEF StackUp
  <2>2. TypeInv'
    <3>1. Step \in UpSteps /\ env.bench \in BOOLEAN
      BY <1>3, <2>1, StepTypes DEF IInv, TypeInv, Settings
    <3>2. given' \in [active : SUBSET Nat, mosaic : Nat, bench : BOOLEAN]
          /\ running' \subseteq Services
      BY <2>1, <3>1 DEF UpSteps, IInv, TypeInv
    <3> QED
      BY <1>1, <2>1, <3>2 DEF IInv, TypeInv
  <2>3. command.name \in Starters
    BY <1>1, <2>1 DEF IInv, PlanInv, Planned
  <2>4. BenchInv' /\ WorldInv'
    BY <1>1, <1>4, <2>3 DEF BenchInv, WorldInv, Starters
  <2>5. {t \in Left : t.do = "remove"} = {t \in Left' : t.do = "remove"}
    BY <1>1, <2>1
  <2>6. Removing = Removing'
    BY <2>5 DEF Removing
  <2>7. Vehicles' = Vehicles \cup VehiclesOf(Step.services)
    BY <2>1 DEF Vehicles, VehiclesOf
  <2>8. HousedInv'
    BY <1>1, <2>1, <2>6, <2>7, HousedKept
  <2>9. OneWorld'
    BY <1>1, <2>1 DEF IInv, OneWorld, WorldInv, Agreed, OfWorld, StackRuns, IsSimulated
  <2>10. BenchSettled'
    BY <1>1, <2>1 DEF BenchSettled
  <2> QED
    BY <1>2, <2>2, <2>4, <2>8, <2>9, <2>10 DEF IInv
<1> QED
  BY <1>5, <1>6, <1>7

LEMMA IdleCommand ==
  /\ Idle \in [name : Names, steps : Seq(Steps), flying : SUBSET Nat, known : BOOLEAN]
  /\ Idle.name = "none" /\ Range(Idle.steps) = {}
BY RangeNone DEF Idle, Names

(* Nothing that is left to do is lost on the fleet or on bench mode but    *)
(* what the cut takes down with it.                                        *)
LEMMA CutShortKeeps == IInv /\ CutShort => IInv'
<1> SUFFICES ASSUME IInv, CutShort PROVE IInv'
  OBVIOUS
<1>1. /\ command'.name = "none" /\ Left' = {}
      /\ UNCHANGED <<aircraft, env, running, given>>
      /\ kept' = IF command.name \in {"bench enable", "bench disable"} THEN "lost" ELSE kept
      /\ strayed' = (strayed \/ (command.name = "fleet" /\ StackRuns))
  BY IdleCommand DEF CutShort, Left
<1>2. TypeInv'
  <2>1. kept' \in Scenes \cup {"", "lost"}
    BY <1>1 DEF IInv, TypeInv
  <2>2. strayed' \in BOOLEAN
    BY <1>1
  <2>3. command' \in [name : Names, steps : Seq(Steps), flying : SUBSET Nat, known : BOOLEAN]
    BY IdleCommand DEF CutShort
  <2> QED
    BY <1>1, <2>1, <2>2, <2>3 DEF IInv, TypeInv
<1>3. PlanInv' /\ WorldInv' /\ BenchInv' /\ ModeInv'
  BY <1>1 DEF PlanInv, Planned, WorldInv, BenchInv, ModeInv
<1>4. OneWorld' /\ BenchSettled'
  BY <1>1 DEF IInv, OneWorld, BenchSettled, StackRuns, IsSimulated
<1>5. HousedInv'
  <2>1. env.count \in 1 .. MaxFleet
    BY SettingTypes DEF IInv
  <2>2. Sets("count")' = {} /\ Removing' = {}
    BY <1>1 DEF Sets, Removing
  <2>3. ASSUME ~strayed' PROVE Vehicles' \subseteq OfVehicles(FleetNumbers(env.base, env.count))
    <3>1. ~strayed /\ (command.name # "fleet" \/ ~StackRuns)
      BY <1>1, <2>3
    <3>2. ~StackRuns => Vehicles' = {}
      BY <1>1 DEF StackRuns, Vehicles
    <3>3. CASE command.name # "fleet"
      <4>1. Sets("count") = {}
        BY <3>3 DEF IInv, PlanInv, Planned, Sets, Writes
      <4>2. {t \in Left : t.do = "remove"} = {}
        BY <3>3 DEF IInv, PlanInv, Planned
      <4>3. Removing = {}
        BY <4>2 DEF Removing
      <4>4. Vehicles \subseteq OfVehicles(FleetNumbers(env.base, env.count))
        BY <3>1, <4>1, <4>3 DEF IInv, HousedInv, WillBe
      <4> QED
        BY <1>1, <4>4 DEF Vehicles
    <3> QED
      BY <3>1, <3>2, <3>3
  <2> QED
    BY <1>1, <2>1, <2>2, <2>3 DEF HousedInv, WillBe
<1>6. KeptInv'
  <2>1. \A key \in {"scene", "bench", "previous"} : Sets(key)' = {} /\ env'[key] = env[key]
    BY <1>1 DEF Sets
  <2>2. CASE command.name \in {"bench enable", "bench disable"}
    BY <1>1, <2>2, SceneAssumption DEF KeptInv
  <2>3. CASE command.name \notin {"bench enable", "bench disable"}
    <3>1. Sets("bench") = {} /\ Sets("previous") = {}
      BY <2>3 DEF IInv, PlanInv, Planned, Sets, Writes
    <3>2. kept \in Scenes => Sets("scene") = {}
      BY <2>3 DEF IInv, PlanInv, Planned, KeptInv, Sets, Writes
    <3>3. kept = "" => WillBe("bench", FALSE)' /\ WillBe("previous", "")'
      BY <2>1, <2>3, <3>1 DEF IInv, KeptInv, WillBe
    <3>4. kept \in Scenes =>
            /\ WillBe("bench", TRUE)' /\ WillBe("scene", Uroc)'
            /\ WillBe("previous", Before(kept))'
      BY <1>1, <2>1, <2>3, <3>1, <3>2 DEF IInv, KeptInv, WillBe, Before
    <3> QED
      BY <1>1, <2>3, <3>3, <3>4 DEF KeptInv, Before
  <2> QED
    BY <2>2, <2>3
<1> QED
  BY <1>2, <1>3, <1>4, <1>5, <1>6 DEF IInv

(* Between commands the file is what it will be.                           *)
LEMMA WhenIdle ==
  ASSUME IInv, IsIdle
  PROVE  /\ Left = {}
         /\ \A key \in {"base", "profiles", "count", "active", "mosaic", "scene", "bench",
                        "previous"} : Sets(key) = {}
         /\ Removing = {}
         /\ ~strayed => Vehicles \subseteq OfVehicles(Numbers)
<1>1. Left = {}
  BY DEF IInv, PlanInv
<1>2. Removing = {} /\ \A key : Sets(key) = {}
  BY <1>1 DEF Removing, Sets
<1> QED
  BY <1>1, <1>2 DEF IInv, HousedInv, WillBe, Numbers

LEMMA EditKeeps ==
  ASSUME IInv,
         \/ \E words \in Selections : EditActive(words)
         \/ \E count \in 1 .. MaxFleet : EditFleet(count)
  PROVE  IInv'
<1>1. /\ IsIdle /\ command' = command
      /\ UNCHANGED <<aircraft, running, given, kept>>
      /\ Left' = Left /\ Left = {}
  BY WhenIdle DEF EditActive, EditFleet, Left
<1>2. env' \in Settings /\ strayed' \in BOOLEAN
  <2>1. env' \in Settings
    <3>1. ASSUME NEW words \in Selections, EditActive(words) PROVE env' \in Settings
      <4>1. words \in SUBSET Nat
        BY WordsAssumption
      <4> QED
        BY <3>1, <4>1 DEF EditActive, IInv, TypeInv, Settings
    <3>2. ASSUME NEW count \in 1 .. MaxFleet, EditFleet(count) PROVE env' \in Settings
      BY <3>2 DEF EditFleet, IInv, TypeInv, Settings
    <3> QED
      BY <3>1, <3>2
  <2>2. strayed' \in {strayed, running # {}}
    BY DEF EditActive, EditFleet, StackRuns
  <2> QED
    BY <2>1, <2>2, Zenon DEF IInv, TypeInv
<1>3. \A key \in {"base", "profiles", "mosaic", "scene", "bench", "previous"} : env'[key] = env[key]
  BY DEF EditActive, EditFleet, IInv, TypeInv, Settings
<1>4. TypeInv'
  BY <1>1, <1>2 DEF IInv, TypeInv
<1>5. PlanInv' /\ WorldInv' /\ BenchInv' /\ ModeInv'
  BY <1>1 DEF PlanInv, Planned, WorldInv, BenchInv, ModeInv, IsIdle
<1>6. OneWorld' /\ BenchSettled'
  BY <1>1, <1>3 DEF IInv, OneWorld, BenchSettled, StackRuns, IsSimulated
<1>7. KeptInv'
  <2>1. \A key : Sets(key) = {} /\ Sets(key)' = {}
    BY <1>1 DEF Sets
  <2> QED
    BY <1>1, <1>3, <2>1 DEF IInv, KeptInv, WillBe, Before
<1>8. HousedInv'
  <2>1. env'.count \in 1 .. MaxFleet /\ env'.base = env.base
    BY <1>2, <1>3 DEF Settings
  <2>2. Sets("count")' = {} /\ Removing' = {} /\ Vehicles' = Vehicles
    BY <1>1 DEF Sets, Removing, Vehicles
  <2>3. ~strayed' => Vehicles \subseteq OfVehicles(FleetNumbers(env'.base, env'.count))
    <3>1. CASE \E words \in Selections : EditActive(words)
      <4>1. env'.count = env.count /\ strayed' = strayed
        BY <3>1 DEF EditActive, IInv, TypeInv, Settings
      <4> QED
        BY <1>1, <2>1, <4>1, WhenIdle DEF Numbers
    <3>2. CASE \E count \in 1 .. MaxFleet : EditFleet(count)
      BY <3>2 DEF EditFleet, StackRuns, Vehicles
    <3> QED
      BY <3>1, <3>2
  <2> QED
    BY <1>1, <2>1, <2>2, <2>3 DEF HousedInv, WillBe
<1> QED
  BY <1>4, <1>5, <1>6, <1>7, <1>8 DEF IInv

-----------------------------------------------------------------------------
(***************************************************************************)
(* A command begins                                                        *)
(***************************************************************************)
Removes(steps) == UNION {s.services : s \in {t \in Range(steps) : t.do = "remove"}}

(* What a command's plan has to be, when c vehicles will be the fleet.      *)
Fits(name, steps, c) ==
  /\ Planned(name, Range(steps))
  /\ name \in {"mode", "bench enable"} => ~StackRuns
  /\ name = "bench disable" =>
       \/ ~StackRuns /\ \A s \in Range(steps) : s.do = "set"
       \/ /\ steps # <<>> /\ Head(steps).do = "down"
          /\ \E s \in Range(steps) : s.do = "set" /\ s.key = "previous"
          /\ \A s \in Range(Tail(steps)) : s.do = "set"
  /\ \A s \in Range(steps) : s.do = "up" =>
       /\ Agreed /\ OfWorld(s.services)
       /\ VehiclesOf(s.services) \subseteq OfVehicles(FleetNumbers(env.base, c))
  /\ \A s \in Range(steps) : s.do = "set" /\ s.key = "count" => s.value = c
  /\ (\A s \in Range(steps) : ~(s.do = "set" /\ s.key = "count")) => c = env.count
  /\ c # env.count /\ StackRuns =>
       OfVehicles(Numbers) \ Removes(steps) \subseteq OfVehicles(FleetNumbers(env.base, c))
  /\ name = "mode" /\ Unknown(env.active, env.base, env.count) = {} =>
       \A s \in Range(steps) : s.do = "set" /\ s.key = "active" =>
         \A b \in Bases : Places(ActiveUas(s.value, b, env.count), b) = Flying

LEMMA BeginKeeps ==
  ASSUME IInv, NEW name \in Names \ {"none"}, NEW steps \in Seq(Steps), Begin(name, steps),
         kept' \in Scenes \cup {"", "lost"},
         NEW c \in 1 .. MaxFleet, Fits(name, steps, c)
  PROVE  /\ TypeInv' /\ PlanInv' /\ WorldInv' /\ BenchInv' /\ HousedInv' /\ ModeInv'
         /\ OneWorld' /\ BenchSettled'
<1>1. /\ IsIdle /\ command'.name = name /\ command'.steps = steps
      /\ command'.flying = Flying
      /\ command'.known = (Unknown(env.active, env.base, env.count) = {})
      /\ UNCHANGED <<aircraft, env, running, given, strayed>>
  BY DEF Begin
<1>2. Left' = Range(steps)
  BY <1>1 DEF Left
<1>3. TypeInv'
  <2>1. Flying \in SUBSET Nat
    BY SettingTypes, ActiveType, PlacesType DEF Flying, Active, IInv
  <2>2. (Unknown(env.active, env.base, env.count) = {}) \in BOOLEAN
    BY Zenon
  <2>3. command' \in [name : Names, steps : Seq(Steps), flying : SUBSET Nat, known : BOOLEAN]
    BY <2>1, <2>2 DEF Begin
  <2> QED
    BY <1>1, <2>3 DEF IInv, TypeInv
<1>4. PlanInv'
  BY <1>1, <1>2 DEF Fits, PlanInv, IsIdle
<1>5. WorldInv'
  BY <1>1, <1>2 DEF Fits, WorldInv, StackRuns, Agreed, OfWorld, IsSimulated
<1>6. BenchInv'
  BY <1>1, <1>2 DEF Fits, BenchInv, StackRuns, MoreSteps, Step, Sets
<1>7. HousedInv'
  <2>1. WillBe("count", c)'
    BY <1>1, <1>2 DEF Fits, WillBe, Sets
  <2>2. Removing' = Removes(steps)
    BY <1>2 DEF Removing, Removes
  <2>3. ASSUME ~strayed
        PROVE  Vehicles \ Removes(steps) \subseteq OfVehicles(FleetNumbers(env.base, c))
    <3>1. Vehicles \subseteq OfVehicles(Numbers)
      BY <1>1, <2>3, WhenIdle
    <3>2. ~StackRuns => Vehicles = {}
      BY DEF StackRuns, Vehicles
    <3> QED
      BY <3>1, <3>2 DEF Fits, Numbers
  <2> QED
    BY <1>1, <1>2, <2>1, <2>2, <2>3 DEF Fits, HousedInv, Vehicles, VehiclesOf
<1>8. ModeInv'
  <2>1. Flying' = Flying
    BY <1>1 DEF Flying, Active
  <2> QED
    BY <1>1, <1>2, <2>1 DEF Fits, ModeInv, Sets
<1>9. OneWorld' /\ BenchSettled'
  BY <1>1 DEF IInv, OneWorld, BenchSettled, StackRuns, IsSimulated
<1> QED
  BY <1>3, <1>4, <1>5, <1>6, <1>7, <1>8, <1>9

(* A command that is not of bench mode leaves what bench mode keeps.       *)
LEMMA BeginKept ==
  ASSUME IInv, NEW name \in Names \ {"none", "bench enable", "bench disable"},
         NEW steps \in Seq(Steps), Begin(name, steps), Planned(name, Range(steps)),
         IF name = "scenario-select" THEN kept' = IF kept = "" THEN "" ELSE "lost"
         ELSE kept' = kept
  PROVE  KeptInv' /\ kept' \in Scenes \cup {"", "lost"}
<1>1. /\ IsIdle /\ command'.name = name /\ command'.steps = steps /\ env' = env
  BY DEF Begin
<1>2. Left' = Range(steps)
  BY <1>1 DEF Left
<1>3. \A key \in {"scene", "bench", "previous"} : Sets(key) = {}
  BY <1>1, WhenIdle
<1>4. /\ Sets("bench")' = {} /\ Sets("previous")' = {}
      /\ name # "scenario-select" => Sets("scene")' = {}
  BY <1>2 DEF Sets, Planned, Writes, Names
<1>5. command.name = "none"
  BY <1>1 DEF IsIdle
<1>6. KeptInv'
  BY <1>1, <1>3, <1>4, <1>5, SceneAssumption DEF IInv, KeptInv, WillBe, Before
<1> QED
  BY <1>6 DEF IInv, TypeInv

(* The steps a command is made of.                                         *)
LEMMA SetStep ==
  ASSUME NEW key, NEW value, [do |-> "set", key |-> key, value |-> value] \in Steps
  PROVE  /\ Set(key, value) \in Seq(Steps) /\ Set(key, value) # <<>>
         /\ Range(Set(key, value)) = {[do |-> "set", key |-> key, value |-> value]}
BY RangeOne DEF Set

LEMMA SetTypes ==
  /\ \A v \in Bases : [do |-> "set", key |-> "base", value |-> v] \in Steps
  /\ \A v \in ProfileLists : [do |-> "set", key |-> "profiles", value |-> v] \in Steps
  /\ \A v \in 1 .. MaxFleet : [do |-> "set", key |-> "count", value |-> v] \in Steps
  /\ \A v \in SUBSET Nat : [do |-> "set", key |-> "active", value |-> v] \in Steps
  /\ \A v \in Nat : [do |-> "set", key |-> "mosaic", value |-> v] \in Steps
  /\ \A v \in Scenes : [do |-> "set", key |-> "scene", value |-> v] \in Steps
  /\ \A v \in BOOLEAN : [do |-> "set", key |-> "bench", value |-> v] \in Steps
  /\ \A v \in Scenes \cup {""} : [do |-> "set", key |-> "previous", value |-> v] \in Steps
BY Zenon DEF Steps, SetSteps

LEMMA DownStep ==
  /\ Down \in Seq(Steps) /\ Range(Down) = {[do |-> "down"]}
  /\ Head(Down).do = "down" /\ Down # <<>>
<1>1. [do |-> "down"] \in Steps /\ [do |-> "down"].do = "down"
  BY DEF Steps
<1> QED
  BY <1>1, RangeOne DEF Down

(* The vehicles a command may name.                                        *)
LEMMA ResolvedTypes ==
  ASSUME TypeInv
  PROVE  /\ Active \subseteq Numbers /\ Numbers \subseteq Nat \ {0}
         /\ Resolved \in SUBSET Nat /\ Resolved \subseteq Active /\ Mosaic \in Nat
<1>1. Active \subseteq Numbers /\ Numbers \subseteq Nat \ {0}
  BY SettingTypes, ActiveType, FleetNumberType, 0 \in Nat DEF Active, Numbers
<1>2. FleetNumber(env.mosaic, env.base, env.count) \in Nat
  BY SettingTypes, FleetNumberType, 0 \in Nat DEF Nobody
<1> QED
  BY <1>1, <1>2 DEF Resolved, Mosaic, MosaicUas, Nobody

LEMMA UpStep ==
  ASSUME TypeInv, NEW profiles \in ProfileLists, RealSelected(profiles) <=> ~IsSimulated,
         NEW c \in 1 .. MaxFleet, NEW numbers \in SUBSET FleetNumbers(env.base, c),
         NEW active \in SUBSET Nat, NEW mosaic \in Nat
  PROVE  LET services == Started(profiles, numbers, env.base)
             up == Up(services, active, mosaic)
         IN /\ up \in Seq(Steps)
            /\ Range(up) = {[do |-> "up", services |-> services, active |-> active,
                             mosaic |-> mosaic]}
            /\ OfWorld(services)
            /\ VehiclesOf(services) \subseteq OfVehicles(FleetNumbers(env.base, c))
<1> DEFINE services == Started(profiles, numbers, env.base)
           step == [do |-> "up", services |-> services, active |-> active, mosaic |-> mosaic]
<1>1. services \subseteq Services
  BY SettingTypes, ServicesTyped
<1>2. step \in Steps
  BY <1>1, Zenon DEF Steps, UpSteps
<1>3. <<step>> \in Seq(Steps) /\ Range(<<step>>) = {step}
  BY <1>2, RangeOne
<1> QED
  BY <1>3, StartedIs DEF Up

(* A command that writes at most its own setting, and starts only what     *)
(* flies, in the world that .env describes.                                *)
LEMMA StarterKeeps ==
  ASSUME IInv, NEW name \in (Starters \cup {"stop"}) \ {"fleet"},
         NEW steps \in Seq(Steps), Begin(name, steps),
         IF name = "scenario-select" THEN kept' = IF kept = "" THEN "" ELSE "lost"
         ELSE kept' = kept,
         \A s \in Range(steps) :
           \/ s.do = "set" /\ s.key \in Writes(name)
           \/ s.do = "down"
           \/ /\ s.do = "up" /\ name \in Starters /\ Agreed /\ OfWorld(s.services)
              /\ VehiclesOf(s.services) \subseteq OfVehicles(Numbers)
  PROVE  IInv'
<1>1. /\ name \in Names \ {"none", "bench enable", "bench disable"} /\ name # "mode"
      /\ "count" \notin Writes(name)
  BY DEF Starters, Names, Writes
<1>2. Planned(name, Range(steps))
  BY DEF Planned
<1>3. KeptInv' /\ kept' \in Scenes \cup {"", "lost"}
  BY <1>1, <1>2, BeginKept
<1>4. env.count \in 1 .. MaxFleet
  BY SettingTypes DEF IInv
<1>5. Fits(name, steps, env.count)
  BY <1>1, <1>2 DEF Fits, Numbers
<1>6. /\ TypeInv' /\ PlanInv' /\ WorldInv' /\ BenchInv' /\ HousedInv' /\ ModeInv'
      /\ OneWorld' /\ BenchSettled'
  BY <1>1, <1>3, <1>4, <1>5, BeginKeeps
<1> QED
  BY <1>3, <1>6 DEF IInv

(* Down and up again, for a list of profiles of the world in .env.         *)
LEMMA RestartSteps ==
  ASSUME TypeInv, NEW profiles \in ProfileLists, RealSelected(profiles) <=> ~IsSimulated,
         Agreed, NEW numbers \in SUBSET Numbers,
         NEW active \in SUBSET Nat, NEW mosaic \in Nat
  PROVE  LET steps == Down \o Up(Started(profiles, numbers, env.base), active, mosaic)
         IN /\ steps \in Seq(Steps)
            /\ \A s \in Range(steps) :
                 \/ s.do = "down"
                 \/ /\ s.do = "up" /\ Agreed /\ OfWorld(s.services)
                    /\ VehiclesOf(s.services) \subseteq OfVehicles(Numbers)
<1> DEFINE services == Started(profiles, numbers, env.base)
           up == Up(services, active, mosaic)
           step == [do |-> "up", services |-> services, active |-> active, mosaic |-> mosaic]
<1>1. /\ up \in Seq(Steps) /\ Range(up) = {step} /\ OfWorld(services)
      /\ VehiclesOf(services) \subseteq OfVehicles(Numbers)
  <2>1. env.count \in 1 .. MaxFleet /\ numbers \in SUBSET FleetNumbers(env.base, env.count)
    BY SettingTypes DEF Numbers
  <2> QED
    BY <2>1, UpStep DEF Numbers
<1>2. Down \o up \in Seq(Steps) /\ Range(Down \o up) = {[do |-> "down"], step}
  BY <1>1, DownStep, RangeConcat
<1>3. [do |-> "down"].do = "down" /\ step.do = "up" /\ step.services = services
  OBVIOUS
<1> HIDE DEF services, up, step
<1>4. \A s \in Range(Down \o up) :
        \/ s.do = "down"
        \/ /\ s.do = "up" /\ Agreed /\ OfWorld(s.services)
           /\ VehiclesOf(s.services) \subseteq OfVehicles(Numbers)
  BY <1>1, <1>2, <1>3
<1> QED
  BY <1>2, <1>4 DEF services, up

(* The same after one setting was written.                                 *)
LEMMA SetAndRestart ==
  ASSUME TypeInv, NEW key, NEW value, [do |-> "set", key |-> key, value |-> value] \in Steps,
         NEW rest \in Seq(Steps),
         \A s \in Range(rest) :
           \/ s.do = "down"
           \/ /\ s.do = "up" /\ Agreed /\ OfWorld(s.services)
              /\ VehiclesOf(s.services) \subseteq OfVehicles(Numbers)
  PROVE  /\ Set(key, value) \o rest \in Seq(Steps)
         /\ \A s \in Range(Set(key, value) \o rest) :
              \/ s.do = "set" /\ s.key = key
              \/ s.do = "down"
              \/ /\ s.do = "up" /\ Agreed /\ OfWorld(s.services)
                 /\ VehiclesOf(s.services) \subseteq OfVehicles(Numbers)
<1> DEFINE step == [do |-> "set", key |-> key, value |-> value]
<1>1. /\ Set(key, value) \o rest \in Seq(Steps)
      /\ Range(Set(key, value) \o rest) = {step} \cup Range(rest)
  BY SetStep, RangeConcat
<1>2. step.do = "set" /\ step.key = key
  OBVIOUS
<1> HIDE DEF step
<1> QED
  BY <1>1, <1>2

(* restart, core and start.                                                *)
LEMMA RestartKeeps ==
  ASSUME IInv, NEW profiles \in ProfileLists, CheckMode(env.profiles), CheckMode(profiles),
         Begin("restart", Restarting(profiles)), kept' = kept
  PROVE  IInv'
<1>1. TypeInv /\ Agreed /\ (RealSelected(profiles) <=> ~IsSimulated)
  BY DEF IInv, CheckMode, Agreed
<1>2. Active \in SUBSET Numbers /\ Resolved \in SUBSET Nat /\ Mosaic \in Nat
  BY <1>1, ResolvedTypes
<1>3. /\ Restarting(profiles) \in Seq(Steps)
      /\ \A s \in Range(Restarting(profiles)) :
           \/ s.do = "down"
           \/ /\ s.do = "up" /\ Agreed /\ OfWorld(s.services)
              /\ VehiclesOf(s.services) \subseteq OfVehicles(Numbers)
  BY <1>1, <1>2, RestartSteps DEF Restarting
<1> QED
  BY <1>3, StarterKeeps DEF Starters

LEMMA StopKeeps == IInv /\ Stop => IInv'
<1> SUFFICES ASSUME IInv, Stop PROVE IInv'
  OBVIOUS
<1>1. Down \in Seq(Steps) /\ \A s \in Range(Down) : s.do = "down"
  BY DownStep
<1>2. "stop" \in (Starters \cup {"stop"}) \ {"fleet"} /\ "stop" # "scenario-select"
  BY DEF Starters
<1> QED
  BY <1>1, <1>2, StarterKeeps DEF Stop

LEMMA ActiveKeeps ==
  ASSUME IInv, NEW words \in Selections, ActiveCommand(words)
  PROVE  IInv'
<1> DEFINE chosen == {FleetNumber(w, env.base, env.count) : w \in words}
           flying == IF words = {} THEN Numbers ELSE chosen
           mosaic == FleetNumber(env.mosaic, env.base, env.count)
           told == IF mosaic \in flying THEN mosaic ELSE Nobody
           stored == Places(chosen, env.base)
           rest == Down \o Up(Started(env.profiles, flying, env.base), chosen, told)
<1>1. /\ TypeInv /\ Agreed /\ words \in SUBSET Nat /\ kept' = kept
      /\ Unknown(words, env.base, env.count) = {}
      /\ Begin("active", Set("active", stored) \o Down
                           \o Up(Started(env.profiles, flying, env.base), chosen, told))
  BY WordsAssumption DEF IInv, ActiveCommand, CheckMode, Agreed
<1>2. chosen \in SUBSET Numbers
  BY <1>1, SettingTypes, FleetNumberType DEF Unknown, Numbers
<1>3. /\ flying \in SUBSET Numbers /\ chosen \in SUBSET Nat /\ stored \in SUBSET Nat
      /\ mosaic \in Nat /\ told \in Nat
  <2>1. chosen \in SUBSET Nat
    BY <1>1, <1>2, ResolvedTypes
  <2>2. stored \in SUBSET Nat
    BY <1>1, <1>2, SettingTypes, PlacesType DEF Numbers
  <2>3. mosaic \in Nat
    BY <1>1, SettingTypes, FleetNumberType, 0 \in Nat DEF Nobody
  <2> QED
    BY <1>2, <2>1, <2>2, <2>3, 0 \in Nat DEF Nobody
<1> HIDE DEF chosen, flying, mosaic, told, stored
<1>4. /\ rest \in Seq(Steps)
      /\ \A s \in Range(rest) :
           \/ s.do = "down"
           \/ /\ s.do = "up" /\ Agreed /\ OfWorld(s.services)
              /\ VehiclesOf(s.services) \subseteq OfVehicles(Numbers)
  BY <1>1, <1>3, SettingTypes, RestartSteps DEF Agreed
<1>5. [do |-> "set", key |-> "active", value |-> stored] \in Steps
  BY <1>3, SetTypes
<1>6. Set("active", stored) \o Down \o Up(Started(env.profiles, flying, env.base), chosen, told)
        = Set("active", stored) \o rest
  <2>1. Up(Started(env.profiles, flying, env.base), chosen, told) \in Seq(Steps)
    BY <1>1, <1>3, SettingTypes, UpStep DEF Agreed, Numbers
  <2>2. Set("active", stored) \in Seq(Steps) /\ Down \in Seq(Steps)
    BY <1>5, SetStep, DownStep
  <2> QED
    BY <2>1, <2>2
<1> HIDE DEF rest
<1>7. /\ Set("active", stored) \o rest \in Seq(Steps)
      /\ \A s \in Range(Set("active", stored) \o rest) :
           \/ s.do = "set" /\ s.key = "active"
           \/ s.do = "down"
           \/ /\ s.do = "up" /\ Agreed /\ OfWorld(s.services)
              /\ VehiclesOf(s.services) \subseteq OfVehicles(Numbers)
  BY <1>1, <1>4, <1>5, SetAndRestart
<1>8. /\ "active" \in (Starters \cup {"stop"}) \ {"fleet"} /\ "active" # "scenario-select"
      /\ "active" \in Starters /\ "active" \in Writes("active")
  BY DEF Starters, Writes
<1>9. kept' = kept /\ Begin("active", Set("active", stored) \o rest)
  BY <1>1, <1>6
<1> QED
  BY <1>7, <1>8, <1>9, StarterKeeps

LEMMA MosaicKeeps ==
  ASSUME IInv, NEW word \in Words, MosaicCommand(word)
  PROVE  IInv'
<1> DEFINE n == FleetNumber(word, env.base, env.count)
           told == IF n \in Active THEN n ELSE Nobody
           stored == IF word = Nobody THEN Nobody ELSE RealNumber(n, env.base)
           rest == Down \o Up(Started(env.profiles, Active, env.base), Resolved, told)
<1>1. /\ TypeInv /\ Agreed /\ word \in Nat /\ kept' = kept
      /\ word = Nobody \/ n # Nobody
      /\ Begin("mosaic", Set("mosaic", stored) \o Down
                           \o Up(Started(env.profiles, Active, env.base), Resolved, told))
  BY WordsAssumption DEF IInv, MosaicCommand, CheckMode, Agreed
<1>2. n \in FleetNumbers(env.base, env.count) \cup {Nobody}
  BY <1>1, SettingTypes, FleetNumberType
<1>3. /\ Active \in SUBSET Numbers /\ Resolved \in SUBSET Nat
      /\ told \in Nat /\ stored \in Nat
  <2>1. n \in Nat
    BY <1>1, <1>2, SettingTypes, FleetNumberType, 0 \in Nat DEF Nobody
  <2>2. stored \in Nat
    BY <1>1, <1>2, SettingTypes, FleetNumberType, 0 \in Nat DEF Nobody
  <2> QED
    BY <1>1, <2>1, <2>2, ResolvedTypes, 0 \in Nat DEF Nobody
<1> HIDE DEF n, told, stored
<1>4. /\ rest \in Seq(Steps)
      /\ \A s \in Range(rest) :
           \/ s.do = "down"
           \/ /\ s.do = "up" /\ Agreed /\ OfWorld(s.services)
              /\ VehiclesOf(s.services) \subseteq OfVehicles(Numbers)
  BY <1>1, <1>3, SettingTypes, RestartSteps DEF Agreed
<1>5. [do |-> "set", key |-> "mosaic", value |-> stored] \in Steps
  BY <1>3, SetTypes
<1>6. Set("mosaic", stored) \o Down \o Up(Started(env.profiles, Active, env.base), Resolved, told)
        = Set("mosaic", stored) \o rest
  <2>1. Up(Started(env.profiles, Active, env.base), Resolved, told) \in Seq(Steps)
    BY <1>1, <1>3, SettingTypes, UpStep DEF Agreed, Numbers
  <2>2. Set("mosaic", stored) \in Seq(Steps) /\ Down \in Seq(Steps)
    BY <1>5, SetStep, DownStep
  <2> QED
    BY <2>1, <2>2
<1> HIDE DEF rest
<1>7. /\ Set("mosaic", stored) \o rest \in Seq(Steps)
      /\ \A s \in Range(Set("mosaic", stored) \o rest) :
           \/ s.do = "set" /\ s.key = "mosaic"
           \/ s.do = "down"
           \/ /\ s.do = "up" /\ Agreed /\ OfWorld(s.services)
              /\ VehiclesOf(s.services) \subseteq OfVehicles(Numbers)
  BY <1>1, <1>4, <1>5, SetAndRestart
<1>8. /\ "mosaic" \in (Starters \cup {"stop"}) \ {"fleet"} /\ "mosaic" # "scenario-select"
      /\ "mosaic" \in Starters /\ "mosaic" \in Writes("mosaic")
  BY DEF Starters, Writes
<1>9. kept' = kept /\ Begin("mosaic", Set("mosaic", stored) \o rest)
  BY <1>1, <1>6
<1> QED
  BY <1>7, <1>8, <1>9, StarterKeeps

LEMMA ScenarioKeeps ==
  ASSUME IInv, NEW scene \in Scenes, ScenarioSelect(scene)
  PROVE  IInv'
<1> DEFINE rest == Restarting(env.profiles)
<1>1. /\ TypeInv /\ Agreed /\ kept' = (IF kept = "" THEN "" ELSE "lost")
      /\ Begin("scenario-select", Set("scene", scene) \o rest)
  BY DEF IInv, ScenarioSelect, CheckMode, Agreed
<1>2. Active \in SUBSET Numbers /\ Resolved \in SUBSET Nat /\ Mosaic \in Nat
  BY <1>1, ResolvedTypes
<1>3. /\ rest \in Seq(Steps)
      /\ \A s \in Range(rest) :
           \/ s.do = "down"
           \/ /\ s.do = "up" /\ Agreed /\ OfWorld(s.services)
              /\ VehiclesOf(s.services) \subseteq OfVehicles(Numbers)
  BY <1>1, <1>2, SettingTypes, RestartSteps DEF Restarting, Agreed
<1>4. [do |-> "set", key |-> "scene", value |-> scene] \in Steps
  BY SetTypes
<1> HIDE DEF rest
<1>5. /\ Set("scene", scene) \o rest \in Seq(Steps)
      /\ \A s \in Range(Set("scene", scene) \o rest) :
           \/ s.do = "set" /\ s.key = "scene"
           \/ s.do = "down"
           \/ /\ s.do = "up" /\ Agreed /\ OfWorld(s.services)
              /\ VehiclesOf(s.services) \subseteq OfVehicles(Numbers)
  BY <1>1, <1>3, <1>4, SetAndRestart
<1>6. /\ "scenario-select" \in (Starters \cup {"stop"}) \ {"fleet"}
      /\ "scenario-select" \in Starters /\ "scene" \in Writes("scenario-select")
  BY DEF Starters, Writes
<1> QED
  BY <1>1, <1>5, <1>6, StarterKeeps

LEMMA ReloadKeeps == IInv /\ Reload => IInv'
<1> SUFFICES ASSUME IInv, Reload PROVE IInv'
  OBVIOUS
<1> DEFINE companions == UNION {OfVehicles({n}) : n \in {m \in Numbers : HasCompanion(m)}}
           services == IF IsSimulated
                       THEN {OfProfile("sim"), OfProfile("offboard")} \cup companions
                       ELSE {OfProfile("ground")}
           step == [do |-> "up", services |-> services, active |-> Resolved,
                    mosaic |-> Mosaic]
<1>1. /\ TypeInv /\ Agreed /\ kept' = kept
      /\ Begin("reload", Up(services, Resolved, Mosaic))
  BY DEF IInv, Reload, CheckMode, Agreed
<1>2. companions \subseteq OfVehicles(Numbers)
  BY DEF OfVehicles
<1>3. /\ IsSimulated => OfVehicles(Numbers) \subseteq Services
      /\ Numbers \subseteq Nat \ {0}
  <2>1. IsSimulated => OfVehicles(Numbers) \subseteq Services
    <3>1. env.profiles \in ProfileLists /\ env.base \in Bases /\ env.count \in 1 .. MaxFleet
      BY <1>1, SettingTypes
    <3> QED
      BY <3>1, ServicesTyped DEF Numbers, IsSimulated
  <2> QED
    BY <1>1, <2>1, ResolvedTypes
<1>4. \A p \in {"sim", "offboard", "ground"} :
        /\ OfProfile(p) \in Services
        /\ OfSimulator(OfProfile(p)) <=> p # "ground"
        /\ OfProfile(p)[2] = 0
  BY DEF OfProfile, ProfileLists, Services, OfSimulator
<1>5. \A s \in OfVehicles(Numbers) : OfSimulator(s)
  BY <1>3, 0 \in Nat DEF OfVehicles, OfSimulator, Router, Companion
<1>6. services \subseteq Services
  BY <1>2, <1>3, <1>4
<1>7. OfWorld(services) /\ VehiclesOf(services) \subseteq OfVehicles(Numbers)
  BY <1>2, <1>4, <1>5 DEF OfWorld, VehiclesOf
<1> HIDE DEF services
<1>8. step \in Steps
  BY <1>1, <1>6, ResolvedTypes, Zenon DEF Steps, UpSteps
<1>9. Up(services, Resolved, Mosaic) \in Seq(Steps)
      /\ \A s \in Range(Up(services, Resolved, Mosaic)) : s.do = "up" /\ s.services = services
  BY <1>8, RangeOne DEF Up
<1>10. /\ "reload" \in (Starters \cup {"stop"}) \ {"fleet"} /\ "reload" # "scenario-select"
       /\ "reload" \in Starters
  BY DEF Starters
<1> QED
  BY <1>1, <1>7, <1>9, <1>10, StarterKeeps

(* fleet_edit: what is left of the fleet that was is what is not retired.  *)
LEMMA FleetKeeps ==
  ASSUME IInv, NEW count \in 1 .. MaxFleet, FleetEdit(count)
  PROVE  IInv'
<1> DEFINE retired == env.base + env.count
           numbers == FleetNumbers(env.base, count)
           flying == IF Resolved = {} THEN numbers ELSE Resolved \cap numbers
           services == Started(env.profiles, flying, env.base)
           up == Up(services, Resolved, Mosaic)
           step == [do |-> "up", services |-> services, active |-> Resolved,
                    mosaic |-> Mosaic]
           removal == Remove(OfVehicles({retired}))
           gone == [do |-> "remove", services |-> OfVehicles({retired})]
           set == [do |-> "set", key |-> "count", value |-> count]
           compose == When(count < env.count, removal) \o up
           steps == Set("count", count) \o When(StackRuns, compose)
<1>1. /\ TypeInv /\ Agreed /\ IsSimulated /\ kept' = kept
      /\ count \in {env.count - 1, env.count + 1}
      /\ Begin("fleet", steps)
  BY DEF IInv, FleetEdit, CheckMode, Agreed
<1> HIDE DEF steps
<1>2. env.base = SimBase /\ env.count \in 1 .. MaxFleet /\ env.profiles \in ProfileLists
  <2>1. env.base \in Bases /\ env.base >= 10
    BY <1>1, SettingTypes DEF IsSimulated, Simulated
  <2>2. env.base = SimBase
    BY <2>1 DEF Bases, SimBase
  <2> QED
    BY <1>1, <2>2, SettingTypes
<1>3. Resolved \in SUBSET Nat /\ Mosaic \in Nat /\ flying \in SUBSET numbers
  BY <1>1, ResolvedTypes
<1>4. /\ up \in Seq(Steps) /\ Range(up) = {step} /\ OfWorld(services)
      /\ VehiclesOf(services) \subseteq OfVehicles(numbers)
  <2>1. RealSelected(env.profiles) <=> ~IsSimulated
    BY <1>1 DEF Agreed
  <2>2. flying \in SUBSET FleetNumbers(env.base, count)
    BY <1>3
  <2>3. TypeInv
    BY <1>1
  <2> HIDE DEF flying
  <2> QED
    BY <1>2, <1>3, <2>1, <2>2, <2>3, UpStep
<1>5. gone \in Steps /\ removal \in Seq(Steps) /\ Range(removal) = {gone}
  <2>1. {retired} \in SUBSET FleetNumbers(env.base, env.count)
    BY <1>2 DEF FleetNumbers, SimBase
  <2>2. OfVehicles({retired}) \subseteq Services
    <3>1. env.base \in Bases /\ Simulated(env.base)
      BY <1>1, <1>2 DEF IsSimulated, Bases
    <3> HIDE DEF retired
    <3> QED
      BY <1>2, <2>1, <3>1, ServicesTyped
  <2>3. gone \in Steps
    BY <2>2 DEF Steps
  <2> QED
    BY <2>3, RangeOne DEF Remove
<1>6. set \in Steps /\ Set("count", count) \in Seq(Steps) /\ Range(Set("count", count)) = {set}
  <2>1. set \in Steps
    BY SetTypes
  <2> QED
    BY <2>1, SetStep
<1>7. OfVehicles(Numbers) \ OfVehicles({retired}) \subseteq OfVehicles(numbers)
      /\ (count = env.count + 1 => OfVehicles(Numbers) \subseteq OfVehicles(numbers))
  <2>1. /\ Numbers \subseteq numbers \cup {retired}
        /\ count = env.count + 1 => Numbers \subseteq numbers
    BY <1>1, <1>2 DEF Numbers, FleetNumbers, SimBase
  <2> QED
    BY <2>1 DEF OfVehicles
<1>8. set.do = "set" /\ set.key = "count" /\ set.value = count
      /\ step.do = "up" /\ step.services = services
      /\ gone.do = "remove" /\ gone.services = OfVehicles({retired})
  OBVIOUS
<1>9. (count < env.count) \in BOOLEAN /\ StackRuns \in BOOLEAN
      /\ ~(count < env.count) => count = env.count + 1
  BY <1>1, <1>2 DEF StackRuns
<1>10. numbers = FleetNumbers(env.base, count)
  OBVIOUS
<1> HIDE DEF set, step, gone, up, removal, services, numbers
<1>11. /\ compose \in Seq(Steps)
       /\ Range(compose) = {step} \cup (IF count < env.count THEN {gone} ELSE {})
  <2>1. /\ When(count < env.count, removal) \in Seq(Steps)
        /\ Range(When(count < env.count, removal)) = IF count < env.count THEN {gone} ELSE {}
    BY <1>5, <1>9, RangeNone DEF When
  <2> QED
    BY <1>4, <2>1, RangeConcat
<1> HIDE DEF compose
<1>12. /\ steps \in Seq(Steps)
       /\ Range(steps) =
            {set} \cup (IF StackRuns THEN {step} \cup (IF count < env.count THEN {gone} ELSE {})
                        ELSE {})
  <2>1. /\ When(StackRuns, compose) \in Seq(Steps)
        /\ Range(When(StackRuns, compose)) = IF StackRuns THEN Range(compose) ELSE {}
    BY <1>9, <1>11, RangeNone DEF When
  <2> QED
    BY <1>6, <1>11, <2>1, RangeConcat DEF steps
<1>13. Planned("fleet", Range(steps))
  BY <1>8, <1>12 DEF Planned, Writes, Starters
<1>14. KeptInv' /\ kept' \in Scenes \cup {"", "lost"}
  BY <1>1, <1>12, <1>13, BeginKept DEF Names
<1>15. Fits("fleet", steps, count)
  <2>1. \A s \in Range(steps) : s.do = "up" =>
          /\ Agreed /\ OfWorld(s.services)
          /\ VehiclesOf(s.services) \subseteq OfVehicles(FleetNumbers(env.base, count))
    BY <1>1, <1>4, <1>8, <1>10, <1>12
  <2>2. \A s \in Range(steps) : s.do = "set" /\ s.key = "count" => s.value = count
    BY <1>8, <1>12
  <2>3. ~(\A s \in Range(steps) : ~(s.do = "set" /\ s.key = "count"))
    BY <1>8, <1>12
  <2>4. StackRuns => OfVehicles(Numbers) \ Removes(steps)
                       \subseteq OfVehicles(FleetNumbers(env.base, count))
    <3>1. StackRuns /\ count < env.count => OfVehicles({retired}) \subseteq Removes(steps)
      BY <1>8, <1>12 DEF Removes
    <3> QED
      BY <1>7, <1>9, <1>10, <3>1
  <2> QED
    BY <1>13, <2>1, <2>2, <2>3, <2>4 DEF Fits
<1>16. /\ TypeInv' /\ PlanInv' /\ WorldInv' /\ BenchInv' /\ HousedInv' /\ ModeInv'
       /\ OneWorld' /\ BenchSettled'
  BY <1>1, <1>12, <1>14, <1>15, BeginKeeps DEF Names
<1> QED
  BY <1>14, <1>16 DEF IInv

(* mode_switch: the words it stores fly the vehicles that fly.             *)
LEMMA ModeKeeps ==
  ASSUME IInv, NEW to \in {"sim", "real"}, ModeSwitch(to)
  PROVE  IInv'
<1> DEFINE numbers == {FleetNumber(w, env.base, env.count) : w \in env.active} \ {Nobody}
           mosaic == FleetNumber(env.mosaic, env.base, env.count)
           profiles == IF to = "sim" THEN {"sim", "offboard"} ELSE {"ground"}
           base == IF to = "sim" THEN SimBase ELSE 0
           stored == Places(numbers, env.base)
           number == RealNumber(mosaic, env.base)
           s1 == [do |-> "set", key |-> "profiles", value |-> profiles]
           s2 == [do |-> "set", key |-> "base", value |-> base]
           s3 == [do |-> "set", key |-> "active", value |-> stored]
           s4 == [do |-> "set", key |-> "mosaic", value |-> number]
           p1 == Set("profiles", profiles)
           p2 == Set("base", base)
           p3 == When(env.active # {}, Set("active", stored))
           p4 == When(mosaic # Nobody, Set("mosaic", number))
           steps == p1 \o p2 \o p3 \o p4
<1>1. /\ TypeInv /\ kept' = kept /\ ~StackRuns
      /\ Begin("mode", steps)
  BY DEF IInv, ModeSwitch
<1>2. /\ env.base \in Bases /\ env.count \in 1 .. MaxFleet /\ env.active \in SUBSET Nat
      /\ env.mosaic \in Nat
  BY <1>1, SettingTypes
<1>3. numbers \in SUBSET FleetNumbers(env.base, env.count)
  BY <1>2, FleetNumberType
<1>4. stored \in SUBSET Nat
  BY <1>2, <1>3, PlacesType
<1>5. mosaic # Nobody => number \in Nat
  BY <1>2, FleetNumberType
<1>6. profiles \in ProfileLists /\ base \in Bases
  BY DEF ProfileLists, Bases
<1>7. Unknown(env.active, env.base, env.count) = {} =>
        \A b \in Bases : Places(ActiveUas(stored, b, env.count), b) = Flying
  <2> SUFFICES ASSUME Unknown(env.active, env.base, env.count) = {}, NEW b \in Bases
               PROVE  Places(ActiveUas(stored, b, env.count), b) = Flying
    OBVIOUS
  <2>1. numbers = {FleetNumber(w, env.base, env.count) : w \in env.active}
    BY DEF Unknown
  <2>2. env.count \in 0 .. MostVehicles
    BY <1>2, CountBound DEF MostVehicles
  <2>3. stored = Places({FleetNumber(w, env.base, env.count) : w \in env.active}, env.base)
    BY <2>1
  <2> HIDE DEF stored
  <2> QED
    BY <1>2, <2>2, <2>3, SelectionSurvives DEF Flying, Active
<1>8. /\ s1.do = "set" /\ s1.key = "profiles" /\ s2.do = "set" /\ s2.key = "base"
      /\ s3.do = "set" /\ s3.key = "active" /\ s3.value = stored
      /\ s4.do = "set" /\ s4.key = "mosaic"
  OBVIOUS
<1>9. s1 \in Steps /\ s2 \in Steps /\ s3 \in Steps /\ (mosaic # Nobody => s4 \in Steps)
  BY <1>4, <1>5, <1>6, SetTypes
<1>10. /\ p1 \in Seq(Steps) /\ Range(p1) = {s1} /\ p2 \in Seq(Steps) /\ Range(p2) = {s2}
  BY <1>9, SetStep
<1>11. /\ p3 \in Seq(Steps) /\ Range(p3) \subseteq {s3}
  <2>1. Set("active", stored) \in Seq(Steps) /\ Range(Set("active", stored)) = {s3}
    BY <1>9, SetStep
  <2> QED
    BY <2>1, RangeNone DEF When
<1>12. /\ p4 \in Seq(Steps) /\ Range(p4) \subseteq {s4}
  <2>1. mosaic # Nobody =>
          Set("mosaic", number) \in Seq(Steps) /\ Range(Set("mosaic", number)) = {s4}
    BY <1>9, SetStep
  <2> QED
    BY <2>1, RangeNone DEF When
<1> HIDE DEF s1, s2, s3, s4, p1, p2, p3, p4, stored, mosaic, number
<1>13. steps \in Seq(Steps) /\ Range(steps) \subseteq {s1, s2, s3, s4}
  <2> DEFINE p12 == p1 \o p2
             p123 == p12 \o p3
  <2>1. p12 \in Seq(Steps) /\ Range(p12) = {s1, s2}
    BY <1>10, RangeConcat
  <2> HIDE DEF p12
  <2>2. p123 \in Seq(Steps) /\ Range(p123) \subseteq {s1, s2, s3}
    BY <1>11, <2>1, RangeConcat
  <2> HIDE DEF p123
  <2>3. p123 \o p4 \in Seq(Steps) /\ Range(p123 \o p4) \subseteq {s1, s2, s3, s4}
    BY <1>12, <2>2, RangeConcat
  <2> QED
    BY <2>3 DEF p123, p12
<1> HIDE DEF steps
<1>14. \A s \in Range(steps) :
         /\ s.do = "set" /\ s.key \in {"profiles", "base", "active", "mosaic"}
         /\ s.key = "active" => s.value = stored
  BY <1>8, <1>13
<1>15. Planned("mode", Range(steps)) /\ "mode" \in Names
  BY <1>14 DEF Planned, Writes, Names
<1>16. KeptInv' /\ kept' \in Scenes \cup {"", "lost"}
  BY <1>1, <1>13, <1>15, BeginKept
<1>17. Fits("mode", steps, env.count)
  BY <1>1, <1>7, <1>14, <1>15 DEF Fits
<1>18. /\ TypeInv' /\ PlanInv' /\ WorldInv' /\ BenchInv' /\ HousedInv' /\ ModeInv'
       /\ OneWorld' /\ BenchSettled'
  BY <1>1, <1>2, <1>13, <1>15, <1>16, <1>17, BeginKeeps
<1> QED
  BY <1>16, <1>18 DEF IInv

(* bench_mode: what it keeps is the scene that UROC replaced.              *)
LEMMA BenchEnableKeeps == IInv /\ BenchEnable => IInv'
<1> SUFFICES ASSUME IInv, BenchEnable PROVE IInv'
  OBVIOUS
<1> DEFINE test == ~env.bench /\ env.scene # Uroc
           s1 == [do |-> "set", key |-> "previous", value |-> env.scene]
           s2 == [do |-> "set", key |-> "bench", value |-> TRUE]
           s3 == [do |-> "set", key |-> "scene", value |-> Uroc]
           p1 == When(test, Set("previous", env.scene))
           p2 == Set("bench", TRUE)
           p3 == Set("scene", Uroc)
           p12 == p1 \o p2
           steps == p12 \o p3
<1>1. /\ TypeInv /\ IsIdle /\ ~StackRuns /\ kept' = IF kept = "" THEN env.scene ELSE kept
      /\ Begin("bench enable", steps)
  BY DEF IInv, BenchEnable, Begin
<1>2. env.scene \in Scenes /\ env.count \in 1 .. MaxFleet
  BY <1>1, SettingTypes
<1>3. s1 \in Steps /\ s2 \in Steps /\ s3 \in Steps
  BY <1>2, SetTypes, SceneAssumption
<1>4. /\ p2 \in Seq(Steps) /\ Range(p2) = {s2} /\ p3 \in Seq(Steps) /\ Range(p3) = {s3}
      /\ Set("previous", env.scene) \in Seq(Steps) /\ Range(Set("previous", env.scene)) = {s1}
  BY <1>3, SetStep
<1>5. p1 \in Seq(Steps) /\ Range(p1) = IF test THEN {s1} ELSE {}
  BY <1>4, RangeNone DEF When
<1>6. /\ s1.do = "set" /\ s1.key = "previous" /\ s1.value = env.scene
      /\ s2.do = "set" /\ s2.key = "bench" /\ s2.value = TRUE
      /\ s3.do = "set" /\ s3.key = "scene" /\ s3.value = Uroc
  OBVIOUS
<1> HIDE DEF s1, s2, s3, p1, p2, p3
<1>7. p12 \in Seq(Steps) /\ Range(p12) = {s2} \cup (IF test THEN {s1} ELSE {})
  BY <1>4, <1>5, RangeConcat
<1> HIDE DEF p12
<1>8. steps \in Seq(Steps) /\ Range(steps) = {s2, s3} \cup (IF test THEN {s1} ELSE {})
  BY <1>4, <1>7, RangeConcat
<1> HIDE DEF steps
<1>9. /\ \A s \in Range(steps) : s.do = "set" /\ s.key \in {"bench", "scene", "previous"}
      /\ "bench enable" \in Names
  BY <1>6, <1>8 DEF Names
<1>10. Fits("bench enable", steps, env.count)
  BY <1>1, <1>9 DEF Fits, Planned, Writes
<1>11. kept' \in Scenes \cup {"", "lost"} /\ kept' # ""
  BY <1>1, <1>2, SceneAssumption DEF TypeInv
<1>12. /\ TypeInv' /\ PlanInv' /\ WorldInv' /\ BenchInv' /\ HousedInv' /\ ModeInv'
       /\ OneWorld' /\ BenchSettled'
  BY <1>1, <1>2, <1>8, <1>9, <1>10, <1>11, BeginKeeps
<1>13. command'.name = "bench enable" /\ Left' = Range(steps) /\ env' = env
  BY <1>1 DEF Begin, Left
<1>14. /\ Sets("bench")' = {s2} /\ Sets("scene")' = {s3}
       /\ Sets("previous")' = IF test THEN {s1} ELSE {}
  BY <1>6, <1>8, <1>13 DEF Sets
<1>15. WillBe("bench", TRUE)' /\ WillBe("scene", Uroc)'
  BY <1>6, <1>14 DEF WillBe
<1>16. kept' \in Scenes => WillBe("previous", Before(kept))'
  <2>1. /\ command.name = "none"
        /\ \A key \in {"bench", "scene", "previous"} : Sets(key) = {}
    BY <1>1, WhenIdle DEF IsIdle
  <2>2. CASE kept = ""
    <3>1. env.bench = FALSE /\ env.previous = "" /\ kept' = env.scene
      BY <1>1, <2>1, <2>2 DEF IInv, KeptInv, WillBe
    <3> QED
      BY <1>6, <1>13, <1>14, <3>1 DEF WillBe, Before
  <2>3. CASE kept \in Scenes
    <3>1. /\ env.bench = TRUE /\ env.scene = Uroc /\ env.previous = Before(kept)
          /\ kept' = kept
      BY <1>1, <2>1, <2>3, SceneAssumption DEF IInv, KeptInv, WillBe
    <3> QED
      BY <1>13, <1>14, <3>1 DEF WillBe, Before
  <2>4. CASE kept = "lost"
    BY <1>1, <2>4, SceneAssumption
  <2> QED
    BY <1>1, <2>2, <2>3, <2>4 DEF TypeInv
<1>17. KeptInv'
  BY <1>11, <1>13, <1>15, <1>16 DEF KeptInv
<1> QED
  BY <1>12, <1>17 DEF IInv

LEMMA BenchDisableKeeps == IInv /\ BenchDisable => IInv'
<1> SUFFICES ASSUME IInv, BenchDisable PROVE IInv'
  OBVIOUS
<1> DEFINE test == env.previous # "" /\ env.scene = Uroc
           s1 == [do |-> "set", key |-> "bench", value |-> FALSE]
           s2 == [do |-> "set", key |-> "scene", value |-> env.previous]
           s3 == [do |-> "set", key |-> "previous", value |-> ""]
           r2 == IF test THEN {s2} ELSE {}
           down == IF StackRuns THEN {[do |-> "down"]} ELSE {}
           p1 == Set("bench", FALSE)
           p2 == When(test, Set("scene", env.previous))
           p3 == Set("previous", "")
           p12 == p1 \o p2
           rest == p12 \o p3
           steps == When(StackRuns, Down) \o rest
<1>1. /\ TypeInv /\ IsIdle /\ kept' = kept
      /\ Begin("bench disable", When(StackRuns, Down) \o p1 \o p2 \o p3)
  BY DEF IInv, BenchDisable, Begin
<1>2. env.previous \in Scenes \cup {""} /\ env.count \in 1 .. MaxFleet
  BY <1>1, SettingTypes
<1>3. s1 \in Steps /\ s3 \in Steps /\ (test => s2 \in Steps)
  BY <1>2, SetTypes
<1>4. p1 \in Seq(Steps) /\ Range(p1) = {s1} /\ p3 \in Seq(Steps) /\ Range(p3) = {s3}
  BY <1>3, SetStep
<1>5. p2 \in Seq(Steps) /\ Range(p2) = r2
  <2>1. test => /\ Set("scene", env.previous) \in Seq(Steps)
                /\ Range(Set("scene", env.previous)) = {s2}
    BY <1>3, SetStep
  <2> QED
    BY <2>1, RangeNone DEF When
<1>6. /\ s1.do = "set" /\ s1.key = "bench" /\ s1.value = FALSE
      /\ s2.do = "set" /\ s2.key = "scene" /\ s2.value = env.previous
      /\ s3.do = "set" /\ s3.key = "previous" /\ s3.value = ""
  OBVIOUS
<1> HIDE DEF s1, s2, s3, p1, p2, p3, r2
<1>7. p12 \in Seq(Steps) /\ Range(p12) = {s1} \cup r2
  BY <1>4, <1>5, RangeConcat
<1>8. rest \in Seq(Steps) /\ Range(rest) = {s1, s3} \cup r2
  <2> HIDE DEF p12
  <2> QED
    BY <1>4, <1>7, RangeConcat
<1>9. When(StackRuns, Down) \in Seq(Steps)
      /\ Range(When(StackRuns, Down)) = down
  BY DownStep, RangeNone DEF When
<1>10. Begin("bench disable", steps)
  <2>1. When(StackRuns, Down) \o p1 \o p2 \o p3 = steps
    <3> DEFINE first == When(StackRuns, Down)
    <3> HIDE DEF first
    <3>1. first \in Seq(Steps) /\ p1 \in Seq(Steps) /\ p2 \in Seq(Steps) /\ p3 \in Seq(Steps)
      BY <1>4, <1>5, <1>9 DEF first
    <3>2. (first \o p1) \o p2 = first \o p12
      BY <3>1, ConcatAssociative
    <3>3. (first \o p12) \o p3 = first \o (p12 \o p3)
      <4> HIDE DEF p12
      <4> QED
        BY <1>7, <3>1, ConcatAssociative
    <3> QED
      BY <3>2, <3>3 DEF first
  <2> QED
    BY <1>1, <2>1
<1> HIDE DEF p12, rest, down
<1>11. /\ steps \in Seq(Steps)
       /\ Range(steps) = Range(rest) \cup down
  BY <1>8, <1>9, RangeConcat
<1>12. /\ StackRuns => steps # <<>> /\ Head(steps).do = "down" /\ Tail(steps) = rest
       /\ ~StackRuns => Range(steps) = Range(rest)
       /\ \A s \in down : s.do = "down"
  <2>1. StackRuns => steps = <<[do |-> "down"]>> \o rest
    BY DEF When, Down
  <2>2. ASSUME NEW x \in Steps
        PROVE  /\ <<x>> \o rest # <<>> /\ Head(<<x>> \o rest) = x
               /\ Tail(<<x>> \o rest) = rest
    <3>1. ASSUME NEW r \in Seq(Steps)
          PROVE  <<x>> \o r # <<>> /\ Head(<<x>> \o r) = x /\ Tail(<<x>> \o r) = r
      OBVIOUS
    <3> QED
      BY <1>8, <3>1
  <2>3. [do |-> "down"] \in Steps /\ [do |-> "down"].do = "down"
    BY DEF Steps
  <2> HIDE DEF steps
  <2> QED
    BY <1>11, <2>1, <2>2, <2>3 DEF down
<1> HIDE DEF steps
<1>13. /\ \A s \in Range(rest) : s.do = "set" /\ s.key \in {"bench", "scene", "previous"}
       /\ s3 \in Range(steps) /\ s3.do = "set" /\ s3.key = "previous"
       /\ "bench disable" \in Names
  BY <1>6, <1>8, <1>11 DEF Names, r2
<1>14. \A s \in Range(steps) :
         s.do = "down" \/ (s.do = "set" /\ s.key \in {"bench", "scene", "previous"})
  BY <1>11, <1>12, <1>13
<1>15. Fits("bench disable", steps, env.count)
  <2>1. Planned("bench disable", Range(steps))
    BY <1>14 DEF Planned, Writes
  <2>2. \/ ~StackRuns /\ \A s \in Range(steps) : s.do = "set"
        \/ /\ steps # <<>> /\ Head(steps).do = "down"
           /\ \E s \in Range(steps) : s.do = "set" /\ s.key = "previous"
           /\ \A s \in Range(Tail(steps)) : s.do = "set"
    BY <1>12, <1>13
  <2> QED
    BY <1>14, <2>1, <2>2 DEF Fits
<1>16. kept' \in Scenes \cup {"", "lost"}
  BY <1>1 DEF TypeInv
<1>17. /\ TypeInv' /\ PlanInv' /\ WorldInv' /\ BenchInv' /\ HousedInv' /\ ModeInv'
       /\ OneWorld' /\ BenchSettled'
  BY <1>2, <1>10, <1>11, <1>13, <1>15, <1>16, BeginKeeps
<1>18. command'.name = "bench disable" /\ Left' = Range(steps) /\ env' = env
  BY <1>10 DEF Begin, Left
<1>19. /\ Sets("bench")' = {s1} /\ Sets("previous")' = {s3}
       /\ Sets("scene")' = r2
  BY <1>6, <1>8, <1>11, <1>12, <1>18 DEF Sets, r2
<1>20. WillBe("bench", FALSE)' /\ WillBe("previous", "")'
  BY <1>6, <1>19 DEF WillBe
<1>21. kept' \in Scenes => WillBe("scene", kept)'
  <2> SUFFICES ASSUME kept \in Scenes PROVE WillBe("scene", kept)'
    BY <1>1
  <2>1. command.name = "none" /\ \A key \in {"scene", "previous"} : Sets(key) = {}
    BY <1>1, WhenIdle DEF IsIdle
  <2>2. env.scene = Uroc /\ env.previous = Before(kept)
    BY <2>1 DEF IInv, KeptInv, WillBe
  <2>3. CASE test
    <3>1. Sets("scene")' = {s2} /\ s2.value = kept
      BY <1>6, <1>19, <2>2, <2>3 DEF r2, Before
    <3> QED
      BY <1>1, <3>1 DEF WillBe
  <2>4. CASE ~test
    <3>1. Sets("scene")' = {} /\ env.scene = kept
      BY <1>19, <2>2, <2>4, SceneAssumption DEF r2, Before
    <3> QED
      BY <1>1, <1>18, <3>1 DEF WillBe
  <2> QED
    BY <2>3, <2>4
<1>22. KeptInv'
  BY <1>18, <1>20, <1>21 DEF KeptInv
<1> QED
  BY <1>17, <1>22 DEF IInv

-----------------------------------------------------------------------------
(***************************************************************************)
(* The theorems                                                            *)
(***************************************************************************)
LEMMA InitHolds == Init => IInv
<1> SUFFICES ASSUME Init PROVE IInv
  OBVIOUS
<1>1. /\ env.base \in Bases /\ env.profiles \in ProfileLists /\ env.count = MaxFleet
      /\ env.active \in Selections /\ env.mosaic = Nobody /\ env.scene \in Scenes
      /\ env.bench = FALSE /\ env.previous = ""
      /\ command = Idle /\ running = {} /\ kept = "" /\ strayed = FALSE
      /\ given = [active |-> {}, mosaic |-> Nobody, bench |-> FALSE]
  BY DEF Init
<1>2. command.name = "none" /\ Left = {}
  BY <1>1, IdleCommand DEF Left
<1>3. TypeInv
  <2>1. MaxFleet \in 1 .. MaxFleet /\ Nobody \in Nat /\ Selections \subseteq SUBSET Nat
    BY FleetAssumption, WordsAssumption DEF Nobody, MostVehicles
  <2>2. env \in Settings
    BY <2>1, Zenon DEF Init, Settings
  <2>3. given \in [active : SUBSET Nat, mosaic : Nat, bench : BOOLEAN]
    BY <1>1, <2>1
  <2>4. aircraft \in BOOLEAN /\ strayed \in BOOLEAN
    <3>1. aircraft = AircraftSelected(env.profiles) /\ strayed = FALSE
      BY DEF Init
    <3>2. AircraftSelected(env.profiles) \in BOOLEAN
      BY DEF AircraftSelected
    <3> QED
      BY <3>1, <3>2, Zenon
  <2> QED
    BY <1>1, <2>2, <2>3, <2>4, IdleCommand DEF TypeInv
<1>4. PlanInv /\ WorldInv /\ BenchInv /\ ModeInv
  BY <1>2 DEF PlanInv, Planned, WorldInv, BenchInv, ModeInv
<1>5. HousedInv
  <2>1. Vehicles = {} /\ Sets("count") = {}
    BY <1>1, <1>2 DEF Vehicles, Sets
  <2>2. env.count \in 1 .. MaxFleet
    BY <1>3, SettingTypes
  <2> QED
    BY <1>2, <2>1, <2>2 DEF HousedInv, WillBe
<1>6. KeptInv
  <2>1. \A key : Sets(key) = {}
    BY <1>2 DEF Sets
  <2> QED
    BY <1>1, <1>2, <2>1, SceneAssumption DEF KeptInv, WillBe
<1> QED
  BY <1>1, <1>3, <1>4, <1>5, <1>6 DEF IInv, OneWorld, BenchSettled, StackRuns

LEMMA StepHolds == IInv /\ [Next]_vars => IInv'
<1> SUFFICES ASSUME IInv, [Next]_vars PROVE IInv'
  OBVIOUS
<1>1. ASSUME NEW profiles \in ProfileLists, Restart(profiles) PROVE IInv'
  BY <1>1, RestartKeeps DEF Restart
<1>2. CASE Start
  BY <1>2, SettingTypes, RestartKeeps DEF Start, IInv
<1>3. CASE Commands
  BY <1>1, <1>2, <1>3, StopKeeps, ActiveKeeps, MosaicKeeps, ScenarioKeeps, ModeKeeps,
     BenchEnableKeeps, BenchDisableKeeps, FleetKeeps, ReloadKeeps DEF Commands
<1>4. CASE EnvSet
  BY <1>4, EnvSetKeeps
<1>5. CASE StackDown \/ RemoveRetired \/ StackUp
  BY <1>5, ComposeKeeps
<1>6. CASE CutShort
  BY <1>6, CutShortKeeps
<1>7. CASE \/ \E words \in Selections : EditActive(words)
           \/ \E count \in 1 .. MaxFleet : EditFleet(count)
  BY <1>7, EditKeeps
<1>8. CASE UNCHANGED vars
  <2>1. TypeInv' /\ PlanInv' /\ WorldInv' /\ BenchInv' /\ ModeInv'
    BY <1>8 DEF vars, IInv, TypeInv, PlanInv, Planned, Left, IsIdle, WorldInv, StackRuns,
       Agreed, OfWorld, IsSimulated, BenchInv, MoreSteps, Step, Sets, ModeInv, Flying, Active
  <2>2. HousedInv' /\ KeptInv' /\ OneWorld' /\ BenchSettled'
    BY <1>8 DEF vars, IInv, HousedInv, WillBe, Sets, Left, Vehicles, Removing, KeptInv,
       OneWorld, BenchSettled, StackRuns, IsSimulated
  <2> QED
    BY <2>1, <2>2 DEF IInv
<1> QED
  BY <1>3, <1>4, <1>5, <1>6, <1>7, <1>8 DEF Next

LEMMA InvHolds == Spec => []IInv
BY InitHolds, StepHolds, PTL DEF Spec

(* Every setting stays one the program writes or a person may, through     *)
(* every rewriting of .env and every cut (env_set).                        *)
THEOREM TypeCorrect == Spec => []TypeOK
<1>1. IInv => TypeOK
  BY DEF IInv, TypeInv, Settings, TypeOK
<1> QED
  BY <1>1, InvHolds, PTL

(* A stack runs only in the world that .env describes: for any order of    *)
(* commands, cut short anywhere (mode_switch, check_mode, reload_world).   *)
THEOREM WorldsKept == Spec => []OneWorld
<1>1. IInv => OneWorld
  BY DEF IInv
<1> QED
  BY <1>1, InvHolds, PTL

(* What a selection names flies in either world, and the containers of a   *)
(* retired vehicle are gone when the command that retired it has ended     *)
(* (mode_switch, fleet_edit).                                              *)
THEOREM SelectionKept == Spec => []SelectionHoused
<1>1. IInv => SelectionHoused
  BY WhenIdle DEF IInv, ModeInv, SelectionHoused, SelectionCarries, FleetHoused
<1> QED
  BY <1>1, InvHolds, PTL

(* Bench mode neither comes nor goes under a running stack (bench_mode).   *)
THEOREM BenchKept == Spec => []BenchSettled
<1>1. IInv => BenchSettled
  BY DEF IInv
<1> QED
  BY <1>1, InvHolds, PTL

(* Disabling bench mode gives back the scene that enabling it replaced,    *)
(* whatever was run in between (bench_mode).                               *)
THEOREM SceneGivenBack == Spec => BenchGivesBack
<1>1. IInv /\ [Next]_vars => [(kept \in Scenes /\ kept' = "") => env'.scene = kept]_vars
  <2> SUFFICES ASSUME IInv, Next, kept \in Scenes, kept' = "" PROVE env'.scene = kept
    OBVIOUS
  <2>1. kept # ""
    BY SceneAssumption
  <2>2. CASE EnvSet
    BY <2>2, EnvSetKeeps
  <2>3. CASE ~EnvSet
    BY <2>1, <2>3, SceneAssumption
    DEF Next, Commands, Restart, Start, Stop, ActiveCommand, MosaicCommand, ScenarioSelect,
        ModeSwitch, BenchEnable, BenchDisable, FleetEdit, Reload, StackDown, RemoveRetired,
        StackUp, CutShort, EditActive, EditFleet
  <2> QED
    BY <2>2, <2>3
<1> QED
  BY <1>1, InvHolds, PTL DEF Spec, BenchGivesBack
=============================================================================
