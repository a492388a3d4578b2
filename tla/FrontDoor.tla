----------------------------- MODULE FrontDoor -----------------------------
(***************************************************************************)
(* The front door of one machine: the commands of px4sim that change .env, *)
(* the stack it starts and stops, and a person who edits .env by hand.     *)
(*                                                                         *)
(* A command reads .env once, decides everything from what it read, and    *)
(* then takes its steps one after another: env_set writes one setting in   *)
(* one rename, `down` and `up` call compose.  It may be cut short between  *)
(* any two of them.  One command runs at a time.                           *)
(*                                                                         *)
(* Compose services that no property tells apart are left out: the ones    *)
(* named here are the simulator, the two ground stations, the aircraft's   *)
(* companion, and each simulated vehicle's router and companion.           *)
(***************************************************************************)
EXTENDS Fleet, Sequences, FiniteSets

CONSTANTS
  MaxFleet,    \* bound: the longest fleet
  Words,       \* what a setting may name a vehicle by
  Selections,  \* what UAS_ACTIVE may be set to: sets of words
  Scenes,      \* the scenes
  Uroc,        \* the scene the bench flies
  Companions   \* the vehicles compose.yaml defines a companion for

ASSUME FleetAssumption ==
  /\ MaxFleet \in 1 .. MostVehicles
  /\ Companions \in 0 .. MostVehicles
ASSUME WordsAssumption ==
  /\ Words \subseteq Nat /\ Nobody \in Words
  /\ Selections \subseteq SUBSET Words
ASSUME SceneAssumption == Uroc \in Scenes /\ Scenes \cap {"", "lost"} = {}

VARIABLES
  aircraft, \* whether the machine has a UAS_NUM, which never changes
  env,      \* .env, the settings that matter here
  command,  \* the command that runs, and the steps it has left
  running,  \* the services compose runs
  given,    \* what those were last told
  kept,     \* history: the scene that bench mode replaced
  strayed   \* history: the fleet was edited, or an edit cut short, while
            \* the stack ran

vars == <<aircraft, env, command, running, given, kept, strayed>>

ProfileLists == {{"sim", "offboard"}, {"sim"}, {}, {"ground"}, {"aircraft"}}

(* real_profiles_selected, aircraft_selected, world_of *)
RealSelected(profiles) == profiles \cap {"ground", "aircraft"} # {}
AircraftSelected(profiles) == "aircraft" \in profiles
World(base, profiles) ==
  IF Simulated(base) THEN "simulator"
  ELSE IF AircraftSelected(profiles) THEN "aircraft" ELSE "ground"
IsSimulated == Simulated(env.base)

(* What a command knows once it has read .env. *)
Numbers == FleetNumbers(env.base, env.count)
Active == ActiveUas(env.active, env.base, env.count)
Resolved == IF env.active = {} THEN {} ELSE Active
Mosaic == MosaicUas(env.mosaic, env.active, env.base, env.count)

(* The vehicles a number stands for, whichever world numbers them. *)
Places(numbers, base) == {RealNumber(n, base) : n \in numbers}
Flying == Places(Active, env.base)

-----------------------------------------------------------------------------
(***************************************************************************)
(* The services                                                            *)
(***************************************************************************)
Router(n) == <<"uas", n>>
Companion(n) == <<"onboard", n>>
HasCompanion(n) == n \in FleetNumbers(SimBase, Companions)
OfVehicles(numbers) ==
  {Router(n) : n \in numbers}
    \cup {Companion(n) : n \in {m \in numbers : HasCompanion(m)}}
Vehicles == {s \in running : s[1] \in {"uas", "onboard"} /\ s[2] # 0}

(* The service each plain profile starts.  Real profiles name no vehicle.  *)
OfProfile(p) == <<IF p = "aircraft" THEN "onboard" ELSE p, 0>>
OfSimulator(service) == service \notin {<<"ground", 0>>, <<"onboard", 0>>}

Services ==
  {OfProfile(p) : p \in UNION ProfileLists} \cup OfVehicles(FleetNumbers(SimBase, MaxFleet))

(* fleet_profiles and add_fleet_profiles: what `up` starts for a list of   *)
(* profiles and the vehicles that fly.                                     *)
Started(profiles, numbers, base) ==
  {OfProfile(p) : p \in profiles}
    \cup (IF Simulated(base)
          THEN {OfProfile("sim")} \cup OfVehicles(numbers) ELSE {})

-----------------------------------------------------------------------------
(***************************************************************************)
(* Commands                                                                *)
(***************************************************************************)
Idle == [name |-> "none", steps |-> <<>>, flying |-> {}, known |-> TRUE]
IsIdle == command.name = "none"

Set(key, value) == <<[do |-> "set", key |-> key, value |-> value]>>
Down == <<[do |-> "down"]>>
(* Mutant of Remove: the retired vehicle's containers stay. *)
RemoveNothing(services) == <<[do |-> "remove", services |-> {}]>>

Remove(services) == <<[do |-> "remove", services |-> services]>>
Up(services, active, mosaic) ==
  <<[do |-> "up", services |-> services, active |-> active, mosaic |-> mosaic]>>
When(test, steps) == IF test THEN steps ELSE <<>>

Begin(name, steps) ==
  /\ IsIdle
  /\ command' = [name |-> name, steps |-> steps, flying |-> Flying,
                 known |-> Unknown(env.active, env.base, env.count) = {}]
  /\ UNCHANGED <<aircraft, env, running, given, strayed>>

(* check_mode, which refuses a .env whose switches disagree, and the       *)
(* aircraft's profile on a machine that has no UAS_NUM.                    *)
CheckMode(profiles) ==
  /\ Unknown(env.active, env.base, env.count) = {}
  /\ RealSelected(profiles) <=> ~IsSimulated
  /\ AircraftSelected(profiles) => aircraft

StackRuns == running # {}

Restarting(profiles) ==
  Down \o Up(Started(profiles, Active, env.base), Resolved, Mosaic)

(* restart and core, with a list of profiles for this run alone. *)
Restart(profiles) ==
  /\ CheckMode(env.profiles) /\ CheckMode(profiles)
  /\ Begin("restart", Restarting(profiles))
  /\ UNCHANGED kept

(* start does nothing while any service runs. *)
Start ==
  /\ ~StackRuns
  /\ CheckMode(env.profiles)
  /\ Begin("restart", Restarting(env.profiles))
  /\ UNCHANGED kept

(* stop and down, whatever .env says. *)
Stop == Begin("stop", Down) /\ UNCHANGED kept

(* active: the words are resolved by the fleet, stored as real numbers,    *)
(* and the stack is restarted from the file.                               *)
ActiveCommand(words) ==
  /\ CheckMode(env.profiles)
  /\ Unknown(words, env.base, env.count) = {}
  /\ LET chosen == {FleetNumber(w, env.base, env.count) : w \in words}
         flying == IF words = {} THEN Numbers ELSE chosen
         mosaic == FleetNumber(env.mosaic, env.base, env.count)
     IN Begin("active",
              Set("active", Places(chosen, env.base)) \o Down
                \o Up(Started(env.profiles, flying, env.base), chosen,
                      IF mosaic \in flying THEN mosaic ELSE Nobody))
  /\ UNCHANGED kept

(* mosaic: one vehicle, or the lowest that flies. *)
MosaicCommand(word) ==
  /\ CheckMode(env.profiles)
  /\ World(env.base, env.profiles) # "aircraft"
  /\ LET n == FleetNumber(word, env.base, env.count)
     IN /\ word = Nobody \/ n # Nobody
        /\ Begin("mosaic",
                 Set("mosaic", IF word = Nobody THEN Nobody
                               ELSE RealNumber(n, env.base)) \o Down
                   \o Up(Started(env.profiles, Active, env.base), Resolved,
                         IF n \in Active THEN n ELSE Nobody))
  /\ UNCHANGED kept

(* scenario-select: the scene comes with the scenario. *)
ScenarioSelect(scene) ==
  /\ CheckMode(env.profiles)
  /\ World(env.base, env.profiles) # "aircraft"
  /\ Begin("scenario-select",
           Set("scene", scene) \o Restarting(env.profiles))
  /\ kept' = IF kept = "" THEN "" ELSE "lost"

(* Mutant of ModeSwitch: a running stack is no obstacle. *)
ModeSwitchRunning(to) ==
  /\ ~AircraftSelected(env.profiles)
  /\ to = "sim" <=> ~IsSimulated
  /\ LET numbers == {FleetNumber(w, env.base, env.count) : w \in env.active}
                      \ {Nobody}
         mosaic == FleetNumber(env.mosaic, env.base, env.count)
     IN Begin("mode",
              Set("profiles", IF to = "sim" THEN {"sim", "offboard"}
                              ELSE {"ground"})
                \o Set("base", IF to = "sim" THEN SimBase ELSE 0)
                \o When(env.active # {},
                        Set("active", Places(numbers, env.base)))
                \o When(mosaic # Nobody,
                        Set("mosaic", RealNumber(mosaic, env.base))))
  /\ UNCHANGED kept

(* mode: the other world, for a machine that is no aircraft and whose      *)
(* stack is down.  Words that name nobody are dropped from the selection.  *)
ModeSwitch(to) ==
  /\ ~AircraftSelected(env.profiles)
  /\ to = "sim" <=> ~IsSimulated
  /\ ~StackRuns
  /\ LET numbers == {FleetNumber(w, env.base, env.count) : w \in env.active}
                      \ {Nobody}
         mosaic == FleetNumber(env.mosaic, env.base, env.count)
     IN Begin("mode",
              Set("profiles", IF to = "sim" THEN {"sim", "offboard"}
                              ELSE {"ground"})
                \o Set("base", IF to = "sim" THEN SimBase ELSE 0)
                \o When(env.active # {},
                        Set("active", Places(numbers, env.base)))
                \o When(mosaic # Nobody,
                        Set("mosaic", RealNumber(mosaic, env.base))))
  /\ UNCHANGED kept

(* Mutant of BenchEnable: a running stack is no obstacle. *)
BenchEnableRunning ==
  /\ CheckMode(env.profiles)
  /\ ~IsSimulated
  /\ Begin("bench enable",
           When(~env.bench /\ env.scene # Uroc, Set("previous", env.scene))
             \o Set("bench", TRUE) \o Set("scene", Uroc))
  /\ kept' = IF kept = "" THEN env.scene ELSE kept

(* Mutant of BenchEnable: whatever scene is set is kept. *)
BenchEnableTwice ==
  /\ CheckMode(env.profiles)
  /\ ~IsSimulated
  /\ ~StackRuns
  /\ Begin("bench enable",
           Set("previous", env.scene)
             \o Set("bench", TRUE) \o Set("scene", Uroc))
  /\ kept' = IF kept = "" THEN env.scene ELSE kept

(* bench enable: the scene that UROC replaces is kept, but not twice. *)
BenchEnable ==
  /\ CheckMode(env.profiles)
  /\ ~IsSimulated
  /\ ~StackRuns
  /\ Begin("bench enable",
           When(~env.bench /\ env.scene # Uroc, Set("previous", env.scene))
             \o Set("bench", TRUE) \o Set("scene", Uroc))
  /\ kept' = IF kept = "" THEN env.scene ELSE kept

(* bench disable: a running stack is stopped first. *)
BenchDisable ==
  /\ CheckMode(env.profiles)
  /\ ~IsSimulated
  /\ Begin("bench disable",
           When(StackRuns, Down) \o Set("bench", FALSE)
             \o When(env.previous # "" /\ env.scene = Uroc,
                     Set("scene", env.previous))
             \o Set("previous", ""))
  /\ UNCHANGED kept

(* fleet_edit: one vehicle more or fewer.  What the command resolved when  *)
(* it read .env stays in its environment, and compose is given that.       *)
FleetEdit(count) ==
  LET retired == env.base + env.count
      numbers == FleetNumbers(env.base, count)
      flying == IF Resolved = {} THEN numbers ELSE Resolved \cap numbers
  IN /\ CheckMode(env.profiles)
     /\ IsSimulated
     /\ count \in {env.count - 1, env.count + 1} \cap 1 .. MaxFleet
     /\ Begin("fleet",
              Set("count", count)
                \o When(StackRuns,
                        When(count < env.count, Remove(OfVehicles({retired})))
                          \o Up(Started(env.profiles, flying, env.base),
                                Resolved, Mosaic)))
     /\ UNCHANGED kept

(* scene, scenario and place: reload_world recreates what reads the world, *)
(* every companion of the fleet and the routers those depend on, active or *)
(* not.  Compose may refuse, and then nothing happens.                     *)
Reload ==
  /\ CheckMode(env.profiles)
  /\ World(env.base, env.profiles) # "aircraft"
  /\ Begin("reload",
           Up(IF IsSimulated
              THEN {OfProfile("sim"), OfProfile("offboard")}
                     \cup UNION {OfVehicles({n}) : n \in {m \in Numbers : HasCompanion(m)}}
              ELSE {OfProfile("ground")},
              Resolved, Mosaic))
  /\ UNCHANGED kept

-----------------------------------------------------------------------------
(***************************************************************************)
(* The steps of the command that runs                                      *)
(***************************************************************************)
Step == Head(command.steps)
MoreSteps == command.steps # <<>>
Ended == Len(command.steps) = 1
Advance ==
  command' = IF Ended THEN Idle
             ELSE [command EXCEPT !.steps = Tail(command.steps)]

(* env_set: one line of .env, in one rename. *)
EnvSet ==
  /\ MoreSteps /\ Step.do = "set"
  /\ env' = [env EXCEPT ![Step.key] = Step.value]
  /\ Advance
  /\ kept' = IF command.name = "bench disable" /\ Ended THEN "" ELSE kept
  /\ UNCHANGED <<aircraft, running, given, strayed>>

(* stop_stack: every profile goes down. *)
StackDown ==
  /\ MoreSteps /\ Step.do = "down"
  /\ running' = {}
  /\ strayed' = FALSE
  /\ Advance
  /\ UNCHANGED <<aircraft, env, given, kept>>

(* docker compose rm -sf, of a vehicle the fleet no longer holds. *)
RemoveRetired ==
  /\ MoreSteps /\ Step.do = "remove"
  /\ running' = running \ Step.services
  /\ Advance
  /\ UNCHANGED <<aircraft, env, given, kept, strayed>>

(* docker compose up *)
StackUp ==
  /\ MoreSteps /\ Step.do = "up"
  /\ running' = running \cup Step.services
  /\ given' = [active |-> Step.active, mosaic |-> Step.mosaic,
               bench |-> env.bench]
  /\ Advance
  /\ UNCHANGED <<aircraft, env, kept, strayed>>

(* A command ends early: a key, a lost session, a build or a container     *)
(* that fails.                                                             *)
CutShort ==
  /\ MoreSteps
  /\ command' = Idle
  /\ kept' = IF command.name \in {"bench enable", "bench disable"} THEN "lost" ELSE kept
  /\ strayed' = (strayed \/ (command.name = "fleet" /\ StackRuns))
  /\ UNCHANGED <<aircraft, env, running, given>>

-----------------------------------------------------------------------------
(***************************************************************************)
(* A person edits .env                                                     *)
(***************************************************************************)
EditActive(words) ==
  /\ IsIdle
  /\ env' = [env EXCEPT !.active = words]
  /\ UNCHANGED <<aircraft, command, running, given, kept, strayed>>

EditFleet(count) ==
  /\ IsIdle
  /\ count # env.count
  /\ env' = [env EXCEPT !.count = count]
  /\ strayed' = StackRuns
  /\ UNCHANGED <<aircraft, command, running, given, kept>>

Init ==
  /\ env \in [base : Bases, profiles : ProfileLists, count : {MaxFleet},
              active : Selections, mosaic : {Nobody}, scene : Scenes,
              bench : {FALSE}, previous : {""}]
  /\ IF IsSimulated THEN env.profiles = {"sim", "offboard"}
     ELSE env.profiles \in {{"ground"}, {"aircraft"}}
  /\ aircraft = AircraftSelected(env.profiles)
  /\ command = Idle
  /\ running = {}
  /\ given = [active |-> {}, mosaic |-> Nobody, bench |-> FALSE]
  /\ kept = ""
  /\ strayed = FALSE

Commands ==
  \/ \E profiles \in ProfileLists : Restart(profiles)
  \/ Start
  \/ Stop
  \/ \E words \in Selections : ActiveCommand(words)
  \/ \E word \in Words : MosaicCommand(word)
  \/ \E scene \in Scenes : ScenarioSelect(scene)
  \/ \E to \in {"sim", "real"} : ModeSwitch(to)
  \/ BenchEnable
  \/ BenchDisable
  \/ \E count \in 1 .. MaxFleet : FleetEdit(count)
  \/ Reload

Next ==
  \/ Commands
  \/ EnvSet
  \/ StackDown
  \/ RemoveRetired
  \/ StackUp
  \/ CutShort
  \/ \E words \in Selections : EditActive(words)
  \/ \E count \in 1 .. MaxFleet : EditFleet(count)

Spec == Init /\ [][Next]_vars

-----------------------------------------------------------------------------
(***************************************************************************)
(* Properties                                                              *)
(***************************************************************************)

(* Every setting is one the program writes or a person may, and the        *)
(* services are those of one machine's compose file.                       *)
TypeOK ==
  /\ aircraft \in BOOLEAN
  /\ env.base \in Bases /\ env.profiles \in ProfileLists
  /\ env.count \in 1 .. MaxFleet
  /\ env.active \subseteq Nat /\ env.mosaic \in Nat
  /\ env.scene \in Scenes /\ env.bench \in BOOLEAN
  /\ env.previous \in Scenes \cup {""}
  /\ running \subseteq Services
  /\ given.active \subseteq Nat /\ given.mosaic \in Nat /\ given.bench \in BOOLEAN
  /\ kept \in Scenes \cup {"", "lost"}
  /\ strayed \in BOOLEAN

(* A stack runs only while .env describes the world it is of: nothing of   *)
(* the simulator runs on a machine numbered for the real fleet, nor the    *)
(* other way, though `mode` writes its settings one by one, may be cut     *)
(* short after each, and `scene` brings services up beside what runs       *)
(* (mode_switch, check_mode, reload_world).                                *)
OneWorld ==
  StackRuns =>
    /\ RealSelected(env.profiles) <=> ~IsSimulated
    /\ \A s \in running : OfSimulator(s) <=> IsSimulated

(* The vehicles a selection names fly in either world.  While `mode`       *)
(* rewrites .env, and wherever it is cut short, the file selects the       *)
(* vehicles it selected before (mode_switch, fleet_number).                *)
SelectionCarries ==
  command.name = "mode" /\ command.known => Flying = command.flying

(* A vehicle the fleet no longer holds leaves no container behind: once a  *)
(* command has ended, routers and companions that run are of the fleet in  *)
(* .env, unless a person changed the fleet under a running stack or cut    *)
(* the change short (fleet_edit).                                          *)
FleetHoused ==
  IsIdle /\ ~strayed => Vehicles \subseteq OfVehicles(Numbers)

(* The selection and the fleet in .env are those of the vehicles that fly: *)
(* both at once, after any commands.                                       *)
SelectionHoused == SelectionCarries /\ FleetHoused

(* What runs was told the bench setting that .env holds: bench mode, which *)
(* is not safe for flight, neither comes nor goes under a running stack,   *)
(* wherever the command is cut short (bench_mode).                         *)
BenchSettled == StackRuns => given.bench = env.bench

(* Disabling bench mode gives back the scene that enabling it replaced,    *)
(* for any order of commands in between, unless the scene was selected     *)
(* anew or a change of bench mode was cut short (bench_mode).              *)
BenchGivesBack ==
  [][(kept \in Scenes /\ kept' = "") => env'.scene = kept]_vars

=============================================================================
