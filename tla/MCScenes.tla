------------------------------ MODULE MCScenes -----------------------------
(***************************************************************************)
(* The programs that make a scene and stand things on it: the pipeline of  *)
(* commands over a scene's directory, one save of the editor's server in   *)
(* its steps, the build of a world, and the placing of a scenario.  What   *)
(* each leaves in files is all that the next one knows of it, so that a    *)
(* behaviour is one of them; the variables of the others keep one value.   *)
(***************************************************************************)
EXTENDS Integers, Sequences, TLC

CONSTANTS Tools, Runs, Edits, Savers, Entities, Starts, Width

ASSUME ScenesAssumption ==
  /\ {Runs, Edits, Starts} \subseteq Nat /\ Width \in Nat \ {0, 1}
  /\ Savers \subseteq Nat \ {0} /\ Entities \subseteq Nat \ {0}

VARIABLES
  part,
  scene, data, tools, server, page, built, ran, hand, crossed, mixed,
  disk, saves, served, read, answered, met,
  gazebo, late, files, spawner, loose, runs,
  layout, placed, merge, roofs, shapes, surface, stands, names, step

Pipeline == INSTANCE ScenePipeline
Store == INSTANCE SceneStore WITH built <- read, crossed <- met
Stand == INSTANCE Spawner WITH Runs <- Starts
World == INSTANCE SceneBuild

piping == <<scene, data, tools, server, page, built, ran, hand, crossed, mixed>>
storing == <<disk, saves, served, read, answered, met>>
spawning == <<gazebo, late, files, spawner, loose, runs>>
building == <<layout, placed, merge, roofs, shapes, surface, stands, names, step>>
all == <<part, piping, storing, spawning, building>>

Nothing == "nothing"
NoPipeline ==
  /\ scene = Nothing /\ data = Nothing /\ tools = Nothing /\ server = Nothing /\ page = Nothing
  /\ built = Nothing /\ ran = 0 /\ hand = Nothing /\ crossed = FALSE /\ mixed = FALSE
NoStore ==
  /\ disk = Nothing /\ saves = Nothing /\ served = Nothing /\ read = Nothing
  /\ answered = 0 /\ met = FALSE
NoSpawner ==
  /\ gazebo = Nothing /\ late = Nothing /\ files = Nothing /\ spawner = Nothing
  /\ loose = {} /\ runs = 0
NoBuild ==
  /\ layout = Nothing /\ placed = Nothing /\ merge = Nothing /\ roofs = {} /\ shapes = {} /\ surface = {}
  /\ stands = Nothing /\ names = <<>> /\ step = Nothing

Init ==
  \/ part = "pipeline" /\ Pipeline!PipelineInit /\ NoStore /\ NoSpawner /\ NoBuild
  \/ part = "store" /\ NoPipeline /\ Store!SceneInit /\ NoSpawner /\ NoBuild
  \/ part = "spawner" /\ NoPipeline /\ NoStore /\ Stand!SpawnerInit /\ NoBuild
  \/ part = "build" /\ NoPipeline /\ NoStore /\ NoSpawner /\ World!BuildInit

Piping ==
  part = "pipeline" /\ Pipeline!PipelineNext /\ UNCHANGED <<part, storing, spawning, building>>
Storing ==
  part = "store" /\ Store!SceneNext /\ UNCHANGED <<part, piping, spawning, building>>
Spawning ==
  part = "spawner" /\ Stand!SpawnerNext /\ UNCHANGED <<part, piping, storing, building>>
Building ==
  part = "build" /\ World!BuildNext /\ UNCHANGED <<part, piping, storing, spawning>>

Next == Piping \/ Storing \/ Spawning \/ Building
Spec == Init /\ [][Next]_all

Terminals == Permutations(Tools)

(* What was edited by hand stays, a scene is of one place, and a world and *)
(* a scenario of one scene.                                                *)
PipelineHolds == part = "pipeline" => Pipeline!PipelineHolds

(* Of saves that follow one another nothing is lost.                       *)
SaveLosesNothing == part = "store" => Store!SaveLosesNothing

(* What stands in the world can be cleared, and is what is scored.         *)
ScenarioStands == part = "spawner" => Stand!ScenarioStands

(* Meshes, surfaces and what stands on them agree.                         *)
BuiltTrue == part = "build" => World!BuiltTrue
=============================================================================
