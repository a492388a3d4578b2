---------------------------- MODULE ScenesProofs ----------------------------
(***************************************************************************)
(* Safety of MCScenes, for any number of terminals, commands, edits, saves *)
(* and entities and any width of the square: the editor's saves, the       *)
(* placing of a scenario, the commands over a scene's directory, and the   *)
(* meshes, surfaces and names that the build makes.                        *)
(***************************************************************************)
EXTENDS MCScenes, FiniteSetTheorems, WellFoundedInduction, TLAPS

(***************************************************************************)
(* The editor's server.  Of saves that follow one another, the one that is *)
(* at work has moved aside what was answered last, or the cut file of one  *)
(* that failed; and one that has failed leaves the backup as it was.       *)
(***************************************************************************)
SaveStates == {"none", "checked", "refused", "failed", "aside", "open", "written", "ok"}
Kept == disk.bak = answered \/ disk.bak \in Store!Cuts
AtRest == disk.scene = answered \/ (disk.scene \in Store!Cuts \cup {Store!Gone} /\ Kept)
Answered(s) ==
  CASE saves[s] = "checked" -> AtRest
    [] saves[s] = "aside" -> disk.scene = Store!Gone /\ Kept
    [] saves[s] = "open" -> disk.scene = Store!Cut(s) /\ Kept
    [] OTHER -> disk.scene = s /\ Kept
OneByOne ==
  /\ \A s, t \in Store!AtWork : s = t
  /\ \A s \in Store!AtWork : Answered(s)
  /\ Store!AtWork = {} => AtRest
  /\ served = "finished" => Store!AtWork = {}
  /\ read # Store!Gone => served # "up" /\ read = answered
StoreInv ==
  /\ disk \in [scene : Int, bak : Int] /\ saves \in [Savers -> SaveStates]
  /\ served \in {"up", "finished", "down"} /\ read \in Int
  /\ answered \in Nat /\ met \in BOOLEAN
  /\ ~met => OneByOne

(***************************************************************************)
(* The scenario.  A call that is still with Gazebo is for a name that no   *)
(* file tells of; what stands under any other is what was placed in this   *)
(* run, or is on the list of what is to be removed, or on file.            *)
(***************************************************************************)
Layouts == Stand!Scenarios \cup {Stand!Nothing}
Records ==
  [names : SUBSET Entities, scenario : Layouts, resolved : SUBSET [name : Entities, of : Layouts]]
Locals ==
  [at : {"idle", "remove", "spawn", "poses", "done"}, scenario : Layouts,
   todo : SUBSET Entities, placed : SUBSET Entities, read : BOOLEAN]
SpawnerType ==
  /\ gazebo \in [Entities -> Layouts] /\ late \in [Entities -> Seq(Layouts)]
  /\ files \in Records /\ spawner \in Locals /\ loose \subseteq Entities
LateLoose == \A e \in Entities : late[e] # <<>> => e \in loose
RemoveInv ==
  spawner.at = "remove" =>
    /\ spawner.placed = {} /\ spawner.todo \subseteq files.names
    /\ \A e \in Entities \ loose : gazebo[e] # Stand!Nothing => e \in spawner.todo
SpawnInv ==
  /\ spawner.at \in {"spawn", "poses", "done"} =>
       \A e \in Entities \ loose : gazebo[e] # Stand!Nothing =>
         e \in spawner.placed /\ gazebo[e] = spawner.scenario
  /\ spawner.at \in {"poses", "done"} => files.names = spawner.placed
  /\ spawner.at = "idle" => spawner.placed = {}
  /\ spawner.read => spawner.at = "done"
StandInv ==
  /\ SpawnerType /\ LateLoose /\ RemoveInv /\ SpawnInv
  /\ Stand!NothingForgottenThere /\ Stand!ScoredAsPlaced

(***************************************************************************)
(* The pipeline.  A copy that is not stale holds what was placed by hand,  *)
(* and the place that the data are of; and one process at most fetches.    *)
(***************************************************************************)
SceneRecords ==
  [kind : {"scene"}, place : Pipeline!Places, cars : SUBSET {1}, autos : SUBSET {1},
   people : SUBSET {1}]
Stages ==
  {"idle", "elevation", "imagery", "buildings", "import", "detect", "look", "save", "second",
   "serve", "serving", "build", "scenario"}
Jobs == {"none", "create", "import", "detect"}
Files == SceneRecords \cup {Pipeline!NoFile, Pipeline!CutFile}
Terminal ==
  [cmd : Pipeline!Commands \cup {"none"}, args : SUBSET {"file", "skip", "keep"},
   place : Pipeline!Places \cup {0}, at : Stages, job : Jobs, copy : Files, fresh : BOOLEAN]
PipelineType ==
  /\ scene \in Files
  /\ data \in [elevation : Pipeline!Places \cup {0}, imagery : Pipeline!Places \cup {0}]
  /\ tools \in [Tools -> Terminal]
  /\ server \in Tools \cup {Pipeline!Nobody}
  /\ page \in [copy : SceneRecords \cup {Pipeline!NoFile}, fresh : BOOLEAN, edits : Nat]
  /\ built \in [world : Files, elevation : Pipeline!Places \cup {0}, clean : BOOLEAN,
                scenario : Files, whole : BOOLEAN]
  /\ hand \in [cars : SUBSET {1}, people : SUBSET {1}, autos : SUBSET {1}, saved : BOOLEAN]
  /\ crossed \in BOOLEAN /\ mixed \in BOOLEAN

ByHand(s) ==
  /\ s.cars = hand.cars /\ s.people = hand.people
  /\ hand.saved /\ hand.cars \cup hand.autos # {} => s.autos = hand.autos
OfPlace(s) == ~mixed => data.elevation = s.place /\ data.imagery = s.place
SceneInv == scene.kind = "scene" => ByHand(scene) /\ OfPlace(scene)
PageInv ==
  /\ scene.kind = "missing" => page.copy = Pipeline!NoFile
  /\ page.copy # Pipeline!NoFile /\ page.fresh => OfPlace(page.copy)

(* What is held by a command that has read the scene, or has made one.     *)
CopyOk(t) ==
  /\ tools[t].at = "look" =>
       /\ tools[t].copy \in SceneRecords /\ scene.kind # "missing"
       /\ tools[t].fresh =>
            /\ ByHand(tools[t].copy) /\ OfPlace(tools[t].copy)
            /\ tools[t].cmd = "all" => Pipeline!Vehicles(tools[t].copy) = {}
  /\ tools[t].at = "save" =>
       /\ tools[t].copy \in SceneRecords /\ tools[t].job # "none"
       /\ tools[t].job # "create" =>
            scene.kind # "missing" /\ (tools[t].fresh => OfPlace(tools[t].copy))
       /\ tools[t].job = "import" /\ tools[t].fresh => ByHand(tools[t].copy)
       /\ tools[t].job = "detect" /\ tools[t].fresh =>
            /\ tools[t].copy.cars = hand.cars /\ tools[t].copy.people = hand.people
            /\ tools[t].cmd = "all" /\ hand.saved => hand.cars \cup hand.autos = {}
  /\ tools[t].at = "detect" /\ tools[t].cmd = "all" /\ tools[t].fresh
       /\ scene.kind = "scene" => Pipeline!Vehicles(scene) = {}
FetchOk(t) ==
  Pipeline!Fetching(t) =>
    /\ tools[t].place \in Pipeline!Places
    /\ tools[t].at # "elevation" =>
         data.elevation = tools[t].place /\ (~mixed => scene.kind = "missing")
    /\ tools[t].at \in {"buildings", "save"} => data.imagery = tools[t].place
    /\ tools[t].at = "save" => tools[t].copy = Pipeline!SceneOf(tools[t].place, {}, {}, {})
BuildOk(t) ==
  tools[t].at = "scenario" => built.world = tools[t].copy /\ tools[t].copy \in SceneRecords
ToolOk(t) == CopyOk(t) /\ FetchOk(t) /\ BuildOk(t)
Apart(t, o) ==
  /\ ~(Pipeline!Fetching(t) /\ Pipeline!Fetching(o))
  /\ ~(tools[t].at = "scenario" /\ tools[o].at = "scenario")
BuiltInv ==
  /\ built.world \in SceneRecords /\ built.clean => built.elevation = built.world.place
  /\ built.whole => built.world \in SceneRecords /\ built.scenario = built.world
ToolsInv ==
  /\ \A t \in Tools : ToolOk(t)
  /\ \A t, o \in Tools : t # o => Apart(t, o)
PipelineInv ==
  /\ PipelineType
  /\ ~crossed => SceneInv /\ PageInv /\ ToolsInv /\ BuiltInv

(***************************************************************************)
(* The build.  The pairs that were compared are in one tree where both are *)
(* merged and they overlap, and the files are those of the forest in which *)
(* all were.                                                               *)
(***************************************************************************)
(* Nothing is higher than this, and nothing lies outside the square.       *)
Height == Width + 5
Word == {"casualty", "a"} \cup Nat
LayoutType ==
  /\ layout.ground \in [0 .. Width + 1 -> 0 .. Width + 1]
  /\ \A b \in 1 .. 3 : /\ layout.buildings[b].form \in World!Forms
                       /\ layout.buildings[b].cells \subseteq 0 .. Width + 1
  /\ layout.targets \in Seq(Seq(Word)) /\ \A i \in 1 .. Len(layout.targets) : layout.targets[i] # <<>>
PlacedType ==
  /\ DOMAIN placed \subseteq 1 .. 3
  /\ \A b \in DOMAIN placed :
       /\ placed[b].cells \subseteq 1 .. Width
       /\ placed[b].levels \subseteq 0 .. Height /\ placed[b].levels # {}

(* The pairs that were compared are of one tree, if they are merged where  *)
(* they overlap; and only what is merged is of a tree with another.        *)
Meshed == {b \in DOMAIN placed : ~placed[b].model}
ForestType ==
  /\ merge.parent \in [Meshed -> Meshed] /\ merge.pairs \subseteq Meshed \X Meshed
  /\ \A b \in Meshed : merge.parent[World!Root(b)] = World!Root(b)
ComparedMerged ==
  \A a, b \in Meshed :
    a < b /\ <<a, b>> \notin merge.pairs /\ World!Merges(a) /\ World!Merges(b) /\ World!Overlap(a, b) =>
      World!Root(a) = World!Root(b)
MergedOnly ==
  \A a, b \in Meshed : a # b /\ World!Root(a) = World!Root(b) => World!Merges(a) /\ World!Merges(b)
ForestInv == ForestType /\ ComparedMerged /\ MergedOnly

CutDone ==
  /\ merge.pairs = {}
  /\ roofs = UNION {World!RoofsOf(b) : b \in Meshed}
  /\ shapes = UNION {World!ShapesOf(b) : b \in Meshed}
  /\ surface = UNION {World!SurfaceOf(b) : b \in DOMAIN placed}
WorldDone ==
  stands = [c \in 0 .. Width + 1 |->
    [low |-> World!Floor(c, FALSE), high |-> World!Floor(c, TRUE),
     tree |-> World!TreeKept(c), disk |-> World!Disk(c)]]
NamesInv ==
  /\ names \in Seq(Seq(Word)) /\ Len(names) <= Len(layout.targets)
  /\ \A i \in 1 .. Len(names) : names[i] # <<>> /\ names[i][1] = "casualty"
  /\ \A i, j \in 1 .. Len(names) : names[i] = names[j] => i = j
BuildInv ==
  /\ step \in {"place", "merge", "world", "names", "built"}
  /\ LayoutType /\ NamesInv
  /\ step # "place" => PlacedType /\ ForestInv
  /\ step \in {"world", "names", "built"} => CutDone
  /\ step \in {"names", "built"} => WorldDone

IInv ==
  /\ part \in {"pipeline", "store", "spawner", "build"}
  /\ part = "store" => StoreInv
  /\ part = "spawner" => StandInv
  /\ part = "pipeline" => PipelineInv
  /\ part = "build" => BuildInv

-----------------------------------------------------------------------------
(***************************************************************************)
(* The saves                                                               *)
(***************************************************************************)
LEMMA StoreStarts == Store!SceneInit => StoreInv
<1> SUFFICES ASSUME Store!SceneInit PROVE StoreInv
  OBVIOUS
<1>1. /\ disk = [scene |-> 0, bak |-> Store!Gone] /\ saves = [s \in Savers |-> "none"]
      /\ served = "up" /\ read = Store!Gone /\ answered = 0 /\ met = FALSE
  BY DEF Store!SceneInit
<1>2. Store!AtWork = {}
  BY <1>1 DEF Store!AtWork
<1>3. met \in BOOLEAN
  BY <1>1, Zenon
<1> QED
  BY <1>1, <1>2, <1>3 DEF StoreInv, OneByOne, AtRest, SaveStates, Store!Gone

(* A save goes on to another state: it is at work there or not.            *)
LEMMA Turned ==
  ASSUME StoreInv, NEW s \in Savers, NEW from \in SaveStates, NEW to \in SaveStates,
         Store!Turns(s, from, to)
  PROVE  /\ saves[s] = from /\ saves' \in [Savers -> SaveStates] /\ saves'[s] = to
         /\ \A t \in Savers : t # s => saves'[t] = saves[t]
         /\ s \in Store!AtWork <=> from \in {"checked", "aside", "open", "written"}
         /\ Store!AtWork' = IF to \in {"checked", "aside", "open", "written"}
                            THEN Store!AtWork \cup {s} ELSE Store!AtWork \ {s}
BY DEF StoreInv, Store!Turns, Store!AtWork

LEMMA Numbers ==
  ASSUME NEW s \in Savers
  PROVE  /\ s \in Nat /\ s # 0 /\ Store!Cut(s) \in Int /\ Store!Cut(s) # Store!Gone
         /\ Store!Cut(s) < 0 /\ Store!Gone \in Int /\ Store!Mixed \in Int
BY ScenesAssumption DEF Store!Cut, Store!Gone, Store!Mixed

LEMMA PostKeeps ==
  ASSUME StoreInv, NEW s \in Savers, Store!Post(s)
  PROVE  StoreInv'
<1>1. /\ read = Store!Gone /\ Store!Turns(s, "none", "checked")
      /\ met' = (met \/ Store!AtWork # {} \/ served = "finished")
      /\ UNCHANGED <<disk, served, read, answered>>
  BY DEF Store!Post
<1>2. /\ saves' \in [Savers -> SaveStates] /\ saves'[s] = "checked"
      /\ Store!AtWork' = Store!AtWork \cup {s}
  BY <1>1, Turned DEF SaveStates
<1>3. met' \in BOOLEAN
  BY <1>1
<1>4. ASSUME ~met' PROVE OneByOne'
  <2>1. ~met /\ Store!AtWork = {} /\ Store!AtWork' = {s} /\ served # "finished"
    BY <1>1, <1>2, <1>4
  <2>2. AtRest'
    BY <1>1, <2>1 DEF StoreInv, OneByOne, AtRest, Kept, Store!Cuts, Store!Cut, Store!Gone
  <2> QED
    BY <1>1, <1>2, <2>1, <2>2 DEF OneByOne, Answered
<1> QED
  BY <1>1, <1>2, <1>3, <1>4 DEF StoreInv

(* The steps of the save that is at work.                                  *)
LEMMA WorkKeeps ==
  ASSUME StoreInv, NEW s \in Savers,
         \/ Store!Rejected(s) \/ Store!MoveAside(s) \/ Store!MovedAway(s)
         \/ Store!OpenFile(s) \/ Store!WriteAll(s) \/ Store!Ok(s) \/ Store!Fails(s)
  PROVE  StoreInv'
<1>1. /\ Store!Running /\ met' = met /\ UNCHANGED <<served, read>>
  BY DEF Store!Rejected, Store!MoveAside, Store!MovedAway, Store!OpenFile, Store!WriteAll, Store!Ok,
         Store!Fails
<1>2. /\ saves' \in [Savers -> SaveStates] /\ s \in Store!AtWork
      /\ \/ Store!AtWork' = Store!AtWork \cup {s} \/ Store!AtWork' = Store!AtWork \ {s}
  <2>1. \E from \in {"checked", "aside", "open", "written"}, to \in SaveStates :
          Store!Turns(s, from, to)
    BY DEF Store!Rejected, Store!MoveAside, Store!MovedAway, Store!OpenFile, Store!WriteAll,
           Store!Ok, Store!Fails, SaveStates
  <2> QED
    BY <2>1, Turned DEF SaveStates
<1>3. disk' \in [scene : Int, bak : Int] /\ answered' \in Nat
  BY Numbers DEF StoreInv, Store!Rejected, Store!MoveAside, Store!MovedAway, Store!OpenFile,
     Store!WriteAll, Store!Ok, Store!Fails, Store!Gone
<1>4. ASSUME ~met' PROVE OneByOne'
  <2>1. /\ OneByOne /\ ~met /\ Store!AtWork = {s} /\ served = "up" /\ read = Store!Gone
        /\ Answered(s) /\ answered \in Nat /\ disk \in [scene : Int, bak : Int]
    BY <1>1, <1>2, <1>4 DEF StoreInv, OneByOne, Store!Running
  <2>2. Store!AtWork' \in {{s}, {}}
    BY <1>2, <2>1
  <2>3. /\ \A t, u \in Store!AtWork' : t = u
        /\ served' # "finished" /\ read' = Store!Gone
    BY <1>1, <2>1, <2>2
  <2>4. Store!Cuts' = Store!Cuts /\ Store!Cut(s) \in Store!Cuts
    BY DEF Store!Cuts, Store!Cut
  <2>5. /\ \A t \in Store!AtWork' : Answered(t)'
        /\ Store!AtWork' = {} => AtRest'
    <3>1. CASE Store!Rejected(s)
      <4>1. Store!Turns(s, "checked", "refused") /\ UNCHANGED <<disk, answered>>
        BY <3>1 DEF Store!Rejected
      <4>2. saves[s] = "checked" /\ Store!AtWork' = {}
        BY <2>1, <4>1, Turned DEF SaveStates
      <4> QED
        BY <2>1, <2>4, <4>1, <4>2 DEF Answered, AtRest, Kept
    <3>2. CASE Store!MoveAside(s)
      <4>1. /\ Store!Turns(s, "checked", "aside") /\ answered' = answered
            /\ disk' = IF disk.scene = Store!Gone THEN disk
                       ELSE [scene |-> Store!Gone, bak |-> disk.scene]
        BY <3>2 DEF Store!MoveAside
      <4>2. saves[s] = "checked" /\ saves'[s] = "aside" /\ Store!AtWork' = {s}
        BY <2>1, <4>1, Turned DEF SaveStates
      <4>3. AtRest
        BY <2>1, <4>2 DEF Answered
      <4>4. disk'.scene = Store!Gone /\ Kept'
        BY <2>1, <2>4, <4>1, <4>3 DEF AtRest, Kept, Store!Gone
      <4> QED
        BY <2>4, <4>2, <4>4 DEF Answered, Store!Gone
    <3>3. CASE Store!MovedAway(s)
      BY <2>1, <3>3 DEF Store!MovedAway
    <3>4. CASE Store!OpenFile(s)
      <4>1. /\ Store!Turns(s, "aside", "open") /\ answered' = answered
            /\ disk' = [disk EXCEPT !.scene = Store!Cut(s)]
        BY <3>4 DEF Store!OpenFile
      <4>2. saves[s] = "aside" /\ saves'[s] = "open" /\ Store!AtWork' = {s}
        BY <2>1, <4>1, Turned DEF SaveStates
      <4> QED
        BY <2>1, <2>4, <4>1, <4>2 DEF Answered, Kept, Store!Cut
    <3>5. CASE Store!WriteAll(s)
      <4>1. Store!Turns(s, "open", "written") /\ answered' = answered
        BY <3>5 DEF Store!WriteAll
      <4>2. saves[s] = "open" /\ saves'[s] = "written" /\ Store!AtWork' = {s}
        BY <2>1, <4>1, Turned DEF SaveStates
      <4>3. disk.scene = Store!Cut(s) /\ Kept
        BY <2>1, <4>2 DEF Answered
      <4>4. disk' = [disk EXCEPT !.scene = s]
        BY <3>5, <4>3 DEF Store!WriteAll
      <4>5. disk'.scene = s /\ disk'.bak = disk.bak
        BY <2>1, <4>4
      <4>6. Kept'
        BY <2>4, <4>1, <4>3, <4>5 DEF Kept
      <4> QED
        BY <4>2, <4>5, <4>6 DEF Answered
    <3>6. CASE Store!Ok(s)
      <4>1. Store!Turns(s, "written", "ok") /\ answered' = s /\ disk' = disk
        BY <3>6 DEF Store!Ok
      <4>2. saves[s] = "written" /\ Store!AtWork' = {}
        BY <2>1, <4>1, Turned DEF SaveStates
      <4> QED
        BY <2>1, <4>1, <4>2 DEF Answered, AtRest
    <3>7. CASE Store!Fails(s)
      <4>1. PICK from \in {"checked", "aside", "open"} : Store!Turns(s, from, "failed")
        BY <3>7 DEF Store!Fails
      <4>2. UNCHANGED <<disk, answered>>
        BY <3>7 DEF Store!Fails
      <4>3. saves[s] = from /\ Store!AtWork' = {}
        BY <2>1, <4>1, Turned DEF SaveStates
      <4>4. AtRest
        BY <2>1, <2>4, <4>3 DEF Answered, AtRest
      <4> QED
        BY <2>4, <4>2, <4>3, <4>4 DEF AtRest, Kept, Store!Gone
    <3> QED
      BY <3>1, <3>2, <3>3, <3>4, <3>5, <3>6, <3>7
  <2> QED
    BY <1>1, <2>1, <2>3, <2>5 DEF OneByOne
<1> QED
  BY <1>1, <1>2, <1>3, <1>4 DEF StoreInv

LEMMA StoreKeeps == StoreInv /\ Store!SceneNext => StoreInv'
<1> SUFFICES ASSUME StoreInv, Store!SceneNext PROVE StoreInv'
  OBVIOUS
<1>1. ASSUME NEW s \in Savers, Store!Post(s) PROVE StoreInv'
  BY <1>1, PostKeeps
<1>2. ASSUME NEW s \in Savers,
             \/ Store!Rejected(s) \/ Store!MoveAside(s) \/ Store!MovedAway(s)
             \/ Store!OpenFile(s) \/ Store!WriteAll(s) \/ Store!Ok(s) \/ Store!Fails(s)
      PROVE  StoreInv'
  BY <1>2, WorkKeeps
<1>3. ASSUME UNCHANGED <<disk, saves, answered>>
      PROVE  /\ Store!AtWork' = Store!AtWork /\ (AtRest' <=> AtRest)
             /\ \A s : Answered(s)' <=> Answered(s)
  BY <1>3 DEF Store!AtWork, Answered, AtRest, Kept, Store!Cuts, Store!Cut, Store!Gone
<1>4. CASE Store!Finish
  <2>1. /\ served = "up" /\ served' = "finished" /\ met' = (met \/ Store!AtWork # {})
        /\ UNCHANGED <<disk, saves, read, answered>>
    BY <1>4 DEF Store!Finish
  <2>2. met' \in BOOLEAN
    BY <2>1
  <2>3. ~met' => OneByOne'
    BY <1>3, <2>1 DEF StoreInv, OneByOne
  <2> QED
    BY <2>1, <2>2, <2>3 DEF StoreInv
<1>5. CASE Store!Build
  <2>1. /\ served = "finished" /\ read' = disk.scene
        /\ disk.scene \notin Store!Cuts \cup {Store!Gone}
        /\ UNCHANGED <<disk, saves, served, answered, met>>
    BY <1>5 DEF Store!Build
  <2>2. ~met' => OneByOne'
    <3> SUFFICES ASSUME ~met PROVE OneByOne'
      BY <2>1
    <3>1. OneByOne /\ AtRest
      BY <2>1 DEF StoreInv, OneByOne
    <3>2. read' = answered'
      BY <2>1, <3>1 DEF AtRest
    <3> QED
      BY <1>3, <2>1, <3>1, <3>2 DEF OneByOne
  <2> QED
    BY <2>1, <2>2 DEF StoreInv
<1>6. CASE Store!Killed
  <2>1. served' = "down" /\ UNCHANGED <<disk, saves, read, answered, met>>
    BY <1>6 DEF Store!Killed
  <2>2. ~met' => OneByOne'
    BY <1>3, <2>1 DEF StoreInv, OneByOne
  <2> QED
    BY <2>1, <2>2 DEF StoreInv
<1> QED
  BY <1>1, <1>2, <1>4, <1>5, <1>6 DEF Store!SceneNext

LEMMA StoreHolds == StoreInv => Store!SaveLosesNothing
<1> SUFFICES ASSUME StoreInv, ~met, disk.bak \notin Store!Cuts
             PROVE  answered \in {disk.scene, disk.bak} /\ read \in {Store!Gone, answered}
  BY DEF Store!SaveLosesNothing
<1>1. ASSUME NEW s \in Store!AtWork PROVE answered \in {disk.scene, disk.bak}
  BY <1>1 DEF StoreInv, OneByOne, Answered, AtRest, Kept
<1> QED
  BY <1>1 DEF StoreInv, OneByOne, AtRest, Kept

-----------------------------------------------------------------------------
(***************************************************************************)
(* The scenario                                                            *)
(***************************************************************************)
LEMMA WantedEntities ==
  ASSUME NEW s
  PROVE  Stand!Wanted(s) \in SUBSET Entities
BY DEF Stand!Wanted

LEMMA StandStarts == Stand!SpawnerInit => StandInv
<1> SUFFICES ASSUME Stand!SpawnerInit PROVE StandInv
  OBVIOUS
<1>1. SpawnerType
  <2>1. <<>> \in Seq(Layouts)
    OBVIOUS
  <2>2. spawner \in Locals /\ files \in Records /\ gazebo \in [Entities -> Layouts]
    BY DEF Stand!SpawnerInit, Stand!Idle, Locals, Records, Layouts
  <2> QED
    BY <2>1, <2>2 DEF Stand!SpawnerInit, SpawnerType
<1>2. LateLoose /\ RemoveInv /\ SpawnInv
  BY DEF Stand!SpawnerInit, LateLoose, RemoveInv, SpawnInv, Stand!Idle
<1>3. Stand!NothingForgottenThere /\ Stand!ScoredAsPlaced
  BY DEF Stand!SpawnerInit, Stand!NothingForgottenThere, Stand!ScoredAsPlaced, Stand!Idle
<1> QED
  BY <1>1, <1>2, <1>3 DEF StandInv

(* One call for one entity.                                                *)
LEMMA CallOut ==
  ASSUME StandInv, NEW e \in Entities, NEW wanted \in Layouts,
         late' = [late EXCEPT ![e] = Append(@, wanted)]
  PROVE  late' \in [Entities -> Seq(Layouts)]
<1>1. late[e] \in Seq(Layouts)
  BY DEF StandInv, SpawnerType
<1>2. Append(late[e], wanted) \in Seq(Layouts)
  BY <1>1
<1> QED
  BY <1>2 DEF StandInv, SpawnerType

LEMMA RemoveKeeps ==
  ASSUME StandInv, NEW e \in Entities, Stand!Remove(e)
  PROVE  StandInv'
<1>1. /\ spawner.at = "remove" /\ e \in spawner.todo
      /\ spawner' = [spawner EXCEPT !.todo = @ \ {e}] /\ files' = files
      /\ \/ /\ gazebo' = [gazebo EXCEPT ![e] = Stand!Nothing] /\ loose' = loose \ {e}
            /\ late[e] = <<>> /\ late' = late
         \/ gazebo' = gazebo /\ loose' = loose \cup {e} /\ late' = late
         \/ /\ gazebo' = gazebo /\ loose' = loose \cup {e}
            /\ late' = [late EXCEPT ![e] = Append(@, Stand!Nothing)]
  BY DEF Stand!Remove, Stand!Called, Stand!TimedOut
<1>2. SpawnerType'
  <2>1. Stand!Nothing \in Layouts
    BY DEF Layouts
  <2>2. late' \in [Entities -> Seq(Layouts)]
    <3>1. CASE late' = late
      BY <3>1 DEF StandInv, SpawnerType
    <3>2. CASE late' = [late EXCEPT ![e] = Append(@, Stand!Nothing)]
      BY <2>1, <3>2, CallOut
    <3> QED
      BY <1>1, <3>1, <3>2
  <2>3. gazebo' \in [Entities -> Layouts] /\ loose' \subseteq Entities
    BY <1>1, <2>1 DEF StandInv, SpawnerType
  <2>4. spawner' \in Locals
    BY <1>1 DEF StandInv, SpawnerType, Locals
  <2> QED
    BY <1>1, <2>2, <2>3, <2>4 DEF StandInv, SpawnerType
<1>3. /\ spawner'.at = "remove" /\ spawner'.placed = {} /\ spawner'.todo = spawner.todo \ {e}
      /\ ~spawner'.read
  BY <1>1 DEF StandInv, SpawnerType, RemoveInv, SpawnInv, Locals
<1>4. \A f \in Entities \ {e} : late'[f] = late[f] /\ gazebo'[f] = gazebo[f]
  BY <1>1 DEF StandInv, SpawnerType
<1>5. loose \ {e} \subseteq loose' /\ (e \notin loose' => gazebo'[e] = Stand!Nothing /\ late'[e] = <<>>)
  BY <1>1 DEF StandInv, SpawnerType
<1>6. LateLoose'
  BY <1>4, <1>5 DEF StandInv, LateLoose
<1>7. RemoveInv'
  BY <1>1, <1>3, <1>4, <1>5 DEF StandInv, RemoveInv
<1>8. SpawnInv' /\ Stand!ScoredAsPlaced'
  BY <1>3 DEF SpawnInv, Stand!ScoredAsPlaced
<1>9. Stand!NothingForgottenThere'
  BY <1>3, <1>7 DEF RemoveInv, Stand!NothingForgottenThere
<1> QED
  BY <1>2, <1>6, <1>7, <1>8, <1>9 DEF StandInv

LEMMA CreateKeeps ==
  ASSUME StandInv, NEW e \in Entities, Stand!Create(e)
  PROVE  StandInv'
<1>1. spawner.at = "spawn" /\ e \in spawner.todo /\ files' = files
  BY DEF Stand!Create, Stand!Called, Stand!TimedOut
<1>2. \/ /\ late[e] = <<>> /\ late' = late
         /\ \E copy \in IF gazebo[e] = Stand!Nothing THEN {Stand!Nothing, spawner.scenario}
                          ELSE {gazebo[e]} : gazebo' = [gazebo EXCEPT ![e] = copy]
         /\ loose' = IF gazebo[e] = Stand!Nothing THEN loose \ {e} ELSE loose
         /\ spawner' = [spawner EXCEPT !.todo = @ \ {e}, !.placed = @ \cup {e}]
      \/ /\ spawner' = [spawner EXCEPT !.todo = @ \ {e}]
         /\ gazebo' = gazebo /\ late' = late /\ loose' = loose
      \/ /\ spawner' = [spawner EXCEPT !.todo = @ \ {e}]
         /\ gazebo' = gazebo /\ late' = [late EXCEPT ![e] = Append(@, spawner.scenario)]
         /\ loose' = loose \cup {e}
  BY DEF Stand!Create, Stand!Called, Stand!TimedOut
<1>3. spawner.scenario \in Layouts /\ Stand!Nothing \in Layouts /\ gazebo[e] \in Layouts
  BY DEF StandInv, SpawnerType, Locals, Layouts
<1>4. /\ spawner'.at = "spawn" /\ spawner'.scenario = spawner.scenario
      /\ spawner.placed \subseteq spawner'.placed /\ spawner' \in Locals /\ ~spawner'.read
  <2>1. spawner' = [spawner EXCEPT !.todo = @ \ {e}]
        \/ spawner' = [spawner EXCEPT !.todo = @ \ {e}, !.placed = @ \cup {e}]
    BY <1>2
  <2>2. CASE spawner' = [spawner EXCEPT !.todo = @ \ {e}]
    BY <1>1, <2>2 DEF StandInv, SpawnerType, SpawnInv, Locals
  <2>3. CASE spawner' = [spawner EXCEPT !.todo = @ \ {e}, !.placed = @ \cup {e}]
    BY <1>1, <2>3 DEF StandInv, SpawnerType, SpawnInv, Locals
  <2> QED
    BY <2>1, <2>2, <2>3
<1>5. SpawnerType'
  <2>1. gazebo' \in [Entities -> Layouts] /\ loose' \subseteq Entities
    BY <1>2, <1>3 DEF StandInv, SpawnerType
  <2>2. late' \in [Entities -> Seq(Layouts)]
    <3>1. CASE late' = late
      BY <3>1 DEF StandInv, SpawnerType
    <3>2. CASE late' = [late EXCEPT ![e] = Append(@, spawner.scenario)]
      BY <1>3, <3>2, CallOut
    <3> QED
      BY <1>2, <3>1, <3>2
  <2> QED
    BY <1>1, <1>4, <2>1, <2>2 DEF StandInv, SpawnerType
<1>6. \A f \in Entities \ {e} :
        late'[f] = late[f] /\ gazebo'[f] = gazebo[f] /\ (f \in loose <=> f \in loose')
  BY <1>2 DEF StandInv, SpawnerType
<1>7. LateLoose'
  <2>1. late'[e] # <<>> => e \in loose'
    BY <1>2 DEF StandInv, SpawnerType, LateLoose
  <2> QED
    BY <1>6, <2>1 DEF StandInv, LateLoose
<1>8. \A f \in Entities \ loose' : gazebo'[f] # Stand!Nothing =>
        f \in spawner'.placed /\ gazebo'[f] = spawner'.scenario
  <2> SUFFICES ASSUME NEW f \in Entities \ loose', gazebo'[f] # Stand!Nothing
               PROVE  f \in spawner'.placed /\ gazebo'[f] = spawner.scenario
    BY <1>4
  <2>1. f \notin loose /\ gazebo[f] # Stand!Nothing => f \in spawner.placed /\ gazebo[f] = spawner.scenario
    BY <1>1 DEF StandInv, SpawnInv
  <2>2. CASE f # e
    BY <1>4, <1>6, <2>1, <2>2
  <2>3. CASE f = e
    <3>1. CASE gazebo' = gazebo
      BY <1>2, <1>4, <2>1, <2>3, <3>1
    <3>2. CASE gazebo' # gazebo
      <4>1. /\ loose' = IF gazebo[e] = Stand!Nothing THEN loose \ {e} ELSE loose
            /\ spawner' = [spawner EXCEPT !.todo = @ \ {e}, !.placed = @ \cup {e}]
        BY <1>2, <3>2
      <4>2. PICK copy \in IF gazebo[e] = Stand!Nothing THEN {Stand!Nothing, spawner.scenario}
                            ELSE {gazebo[e]} : gazebo' = [gazebo EXCEPT ![e] = copy]
        BY <1>2, <3>2
      <4>3. gazebo'[e] = copy
        BY <4>2 DEF StandInv, SpawnerType
      <4>4. e \in spawner'.placed
        BY <4>1 DEF StandInv, SpawnerType, Locals
      <4> QED
        BY <2>1, <2>3, <4>1, <4>2, <4>3, <4>4
    <3> QED
      BY <3>1, <3>2
  <2> QED
    BY <2>2, <2>3
<1>9. RemoveInv' /\ SpawnInv' /\ Stand!ScoredAsPlaced'
  BY <1>4, <1>8 DEF RemoveInv, SpawnInv, Stand!ScoredAsPlaced
<1>10. Stand!NothingForgottenThere'
  BY <1>8 DEF Stand!NothingForgottenThere
<1> QED
  BY <1>5, <1>7, <1>9, <1>10 DEF StandInv

LEMMA LateKeeps ==
  ASSUME StandInv, NEW e \in Entities, Stand!Late(e)
  PROVE  StandInv'
<1>1. /\ late[e] # <<>> /\ late' = [late EXCEPT ![e] = Tail(@)]
      /\ UNCHANGED <<files, spawner, loose>>
      /\ \/ gazebo' = gazebo
         \/ gazebo' = [gazebo EXCEPT ![e] =
              IF Head(late[e]) = Stand!Nothing \/ @ = Stand!Nothing THEN Head(late[e]) ELSE @]
  BY DEF Stand!Late
<1>2. e \in loose
  BY <1>1 DEF StandInv, LateLoose
<1>3. SpawnerType'
  <2>1. late[e] \in Seq(Layouts)
    BY DEF StandInv, SpawnerType
  <2>2. Head(late[e]) \in Layouts /\ Tail(late[e]) \in Seq(Layouts)
    BY <1>1, <2>1
  <2> QED
    BY <1>1, <2>2 DEF StandInv, SpawnerType
<1>4. \A f \in Entities \ {e} : late'[f] = late[f] /\ gazebo'[f] = gazebo[f]
  BY <1>1 DEF StandInv, SpawnerType
<1>5. LateLoose' /\ RemoveInv' /\ SpawnInv'
  BY <1>1, <1>2, <1>4 DEF StandInv, LateLoose, RemoveInv, SpawnInv
<1>6. Stand!NothingForgottenThere' /\ Stand!ScoredAsPlaced'
  BY <1>1, <1>2, <1>4 DEF StandInv, Stand!NothingForgottenThere, Stand!ScoredAsPlaced
<1> QED
  BY <1>3, <1>5, <1>6 DEF StandInv

(* The steps of the command itself.                                        *)
LEMMA SpawnStarts == StandInv /\ Stand!Start => StandInv'
<1> SUFFICES ASSUME StandInv, Stand!Start PROVE StandInv'
  OBVIOUS
<1>1. /\ spawner.at \in {"idle", "done"} /\ UNCHANGED <<gazebo, late, files, loose>>
      /\ \E s \in Layouts :
           spawner' = [at |-> "remove", scenario |-> s, todo |-> files.names, placed |-> {},
                       read |-> FALSE]
  BY DEF Stand!Start, Stand!Idle, Layouts
<1>2. SpawnerType'
  BY <1>1 DEF StandInv, SpawnerType, Records, Locals
<1>3. /\ spawner'.at = "remove" /\ spawner'.todo = files.names /\ spawner'.placed = {}
      /\ spawner'.read = FALSE
  BY <1>1
<1>4. \A e \in Entities \ loose : gazebo[e] # Stand!Nothing => e \in files.names
  BY <1>1 DEF StandInv, SpawnInv, Stand!NothingForgottenThere
<1>5. RemoveInv' /\ Stand!NothingForgottenThere'
  BY <1>1, <1>3, <1>4 DEF RemoveInv, Stand!NothingForgottenThere
<1> QED
  BY <1>1, <1>2, <1>3, <1>5 DEF StandInv, LateLoose, SpawnInv, Stand!ScoredAsPlaced

LEMMA RemovedKeeps == StandInv /\ Stand!Removed => StandInv'
<1> SUFFICES ASSUME StandInv, Stand!Removed PROVE StandInv'
  OBVIOUS
<1>1. /\ spawner.at = "remove" /\ spawner.todo = {} /\ spawner.placed = {}
      /\ UNCHANGED <<gazebo, late, loose>>
  BY DEF Stand!Removed, StandInv, RemoveInv
<1>2. \/ spawner' = [spawner EXCEPT !.at = "done"] /\ files' = [files EXCEPT !.names = {}]
      \/ /\ files' = files
         /\ spawner' = [spawner EXCEPT !.at = "spawn", !.todo = Stand!Wanted(spawner.scenario)]
  BY DEF Stand!Removed
<1>3. SpawnerType'
  <2>1. Stand!Wanted(spawner.scenario) \in SUBSET Entities
    BY WantedEntities
  <2> DEFINE wanted == Stand!Wanted(spawner.scenario)
  <2> HIDE DEF wanted
  <2>2. spawner' \in Locals /\ files' \in Records
    <3>1. wanted \in SUBSET Entities
      BY <2>1 DEF wanted
    <3>2. \/ spawner' = [spawner EXCEPT !.at = "done"] /\ files' = [files EXCEPT !.names = {}]
          \/ files' = files /\ spawner' = [spawner EXCEPT !.at = "spawn", !.todo = wanted]
      BY <1>2 DEF wanted
    <3> QED
      BY <3>1, <3>2 DEF StandInv, SpawnerType, Locals, Records
  <2> QED
    BY <1>1, <2>2 DEF StandInv, SpawnerType
<1>4. \A e \in Entities \ loose : gazebo[e] = Stand!Nothing
  BY <1>1 DEF StandInv, RemoveInv
<1>5. /\ spawner'.placed = {} /\ spawner'.read = spawner.read
      /\ spawner'.at \in {"spawn", "done"} /\ (spawner'.at = "done" => files'.names = {})
      /\ files'.scenario = files.scenario /\ files'.resolved = files.resolved
  BY <1>1, <1>2 DEF StandInv, SpawnerType, Locals, Records
<1>6. spawner.read = FALSE
  BY <1>1 DEF StandInv, SpawnInv, SpawnerType, Locals
<1>7. SpawnInv' /\ Stand!NothingForgottenThere' /\ LateLoose' /\ RemoveInv'
  BY <1>1, <1>4, <1>5, <1>6 DEF StandInv, SpawnInv, LateLoose, RemoveInv, Stand!NothingForgottenThere
<1>8. Stand!ScoredAsPlaced'
  BY <1>5, <1>6 DEF Stand!ScoredAsPlaced
<1> QED
  BY <1>3, <1>5, <1>6, <1>7, <1>8 DEF StandInv

LEMMA SaveStateKeeps == StandInv /\ Stand!SaveState => StandInv'
<1> SUFFICES ASSUME StandInv, Stand!SaveState PROVE StandInv'
  OBVIOUS
<1>1. /\ spawner.at = "spawn" /\ spawner.todo = {}
      /\ files' = [files EXCEPT !.names = spawner.placed]
      /\ spawner' = [spawner EXCEPT !.at = "poses"]
      /\ UNCHANGED <<gazebo, late, loose>>
  BY DEF Stand!SaveState, Stand!Saves
<1>2. SpawnerType'
  BY <1>1 DEF StandInv, SpawnerType, Locals, Records
<1>3. /\ spawner'.at = "poses" /\ spawner'.placed = spawner.placed
      /\ spawner'.scenario = spawner.scenario /\ files'.names = spawner.placed
      /\ ~spawner'.read
  BY <1>1 DEF StandInv, SpawnerType, SpawnInv, Locals, Records
<1>4. LateLoose' /\ RemoveInv' /\ SpawnInv'
  BY <1>1, <1>3 DEF StandInv, LateLoose, RemoveInv, SpawnInv
<1>5. Stand!NothingForgottenThere' /\ Stand!ScoredAsPlaced'
  BY <1>1, <1>3 DEF StandInv, SpawnInv, Stand!NothingForgottenThere, Stand!ScoredAsPlaced
<1> QED
  BY <1>2, <1>4, <1>5 DEF StandInv

LEMMA WriteResolvedKeeps == StandInv /\ Stand!WriteResolved => StandInv'
<1> SUFFICES ASSUME StandInv, Stand!WriteResolved PROVE StandInv'
  OBVIOUS
<1>1. spawner.at = "poses" /\ UNCHANGED <<gazebo, late, loose>>
  BY DEF Stand!WriteResolved
<1>2. PICK poses \in SUBSET {e \in Entities : gazebo[e] # Stand!Nothing}, was \in BOOLEAN :
        /\ files' = IF ~was THEN files
                    ELSE [files EXCEPT !.scenario = spawner.scenario,
                      !.resolved = {[name |-> e, of |-> gazebo[e]] : e \in poses \cap spawner.placed}]
        /\ spawner' = [spawner EXCEPT !.at = "done", !.read = was]
  BY Zenon DEF Stand!WriteResolved
<1> DEFINE resolved == {[name |-> e, of |-> gazebo[e]] : e \in poses \cap spawner.placed}
<1>3. resolved \in SUBSET [name : Entities, of : Layouts]
  <2>1. \A e \in Entities : [name |-> e, of |-> gazebo[e]] \in [name : Entities, of : Layouts]
    BY DEF StandInv, SpawnerType
  <2> QED
    BY <2>1
<1>4. \A entry \in resolved :
        entry.name \in spawner.placed /\ (entry.of = spawner.scenario \/ entry.name \in loose)
  BY <1>1, <1>2 DEF StandInv, SpawnInv
<1>5. files' = IF ~was THEN files
               ELSE [files EXCEPT !.scenario = spawner.scenario, !.resolved = resolved]
  BY <1>2
<1> HIDE DEF resolved
<1>6. SpawnerType'
  <2>1. spawner.scenario \in Layouts
    BY DEF StandInv, SpawnerType, Locals
  <2>2. files' \in Records
    BY <1>3, <1>5, <2>1 DEF StandInv, SpawnerType, Records
  <2>3. spawner' \in Locals
    BY <1>2 DEF StandInv, SpawnerType, Locals
  <2> QED
    BY <1>1, <2>2, <2>3 DEF StandInv, SpawnerType
<1>7. /\ spawner'.at = "done" /\ spawner'.placed = spawner.placed
      /\ spawner'.scenario = spawner.scenario /\ spawner'.read = was
      /\ files'.names = files.names
      /\ was => files'.scenario = spawner.scenario /\ files'.resolved = resolved
  BY <1>2, <1>5 DEF StandInv, SpawnerType, Locals, Records
<1>8. LateLoose' /\ RemoveInv' /\ SpawnInv'
  BY <1>1, <1>7 DEF StandInv, LateLoose, RemoveInv, SpawnInv
<1>9. Stand!NothingForgottenThere'
  BY <1>1, <1>7 DEF StandInv, Stand!NothingForgottenThere
<1>10. Stand!ScoredAsPlaced'
  BY <1>1, <1>4, <1>7 DEF Stand!ScoredAsPlaced
<1> QED
  BY <1>6, <1>7, <1>8, <1>9, <1>10 DEF StandInv

LEMMA KilledKeeps == StandInv /\ Stand!Killed => StandInv'
<1> SUFFICES ASSUME StandInv, Stand!Killed PROVE StandInv'
  OBVIOUS
<1>1. /\ UNCHANGED <<gazebo, late>> /\ spawner.at \in {"remove", "spawn", "poses"}
      /\ loose' = IF spawner.at = "spawn" THEN loose \cup spawner.placed ELSE loose
      /\ spawner' = Stand!Idle
  BY DEF Stand!Killed, StandInv, SpawnerType, Locals
<1>2. PICK kept \in {files.names} \cup
           (IF spawner.at \in {"remove", "spawn"} /\ spawner.todo = {} THEN {{}} ELSE {}) :
        files' = [files EXCEPT !.names = kept]
  BY DEF Stand!Killed
<1>3. kept \subseteq Entities /\ files' \in Records /\ files'.names = kept
  BY <1>2 DEF StandInv, SpawnerType, Records
<1>4. SpawnerType'
  <2>1. Stand!Idle \in Locals
    BY DEF Stand!Idle, Locals, Layouts
  <2>2. loose' \subseteq Entities
    BY <1>1 DEF StandInv, SpawnerType, Locals
  <2> QED
    BY <1>1, <1>3, <2>1, <2>2 DEF StandInv, SpawnerType
<1>5. spawner'.at = "idle" /\ spawner'.placed = {} /\ spawner'.read = FALSE
  BY <1>1 DEF Stand!Idle
<1>6. LateLoose' /\ RemoveInv' /\ SpawnInv' /\ Stand!ScoredAsPlaced'
  BY <1>1, <1>5 DEF StandInv, LateLoose, RemoveInv, SpawnInv, Stand!ScoredAsPlaced
<1>7. Stand!NothingForgottenThere'
  <2> SUFFICES ASSUME NEW e \in Entities, gazebo[e] # Stand!Nothing, e \notin loose'
               PROVE  e \in kept
    BY <1>1, <1>3 DEF Stand!NothingForgottenThere
  <2>1. e \notin loose
    BY <1>1
  <2>2. CASE spawner.at = "remove"
    BY <1>2, <2>1, <2>2 DEF StandInv, RemoveInv
  <2>3. CASE spawner.at = "spawn"
    BY <1>1, <2>1, <2>3 DEF StandInv, SpawnInv
  <2>4. CASE spawner.at = "poses"
    BY <1>2, <2>1, <2>4 DEF StandInv, SpawnInv
  <2> QED
    BY <1>1, <2>2, <2>3, <2>4
<1> QED
  BY <1>4, <1>5, <1>6, <1>7 DEF StandInv

LEMMA RestartKeeps == StandInv /\ Stand!GazeboRestarts => StandInv'
<1> SUFFICES ASSUME StandInv, Stand!GazeboRestarts PROVE StandInv'
  OBVIOUS
<1>1. /\ spawner' = Stand!Idle /\ loose' = {}
      /\ gazebo' = [e \in Entities |-> Stand!Nothing] /\ late' = [e \in Entities |-> <<>>]
      /\ \E kept \in {files.names, {}} : files' = [files EXCEPT !.names = kept]
  BY DEF Stand!GazeboRestarts
<1>2. SpawnerType'
  <2>1. Stand!Idle \in Locals
    BY DEF Stand!Idle, Locals, Layouts
  <2>2. files' \in Records
    BY <1>1 DEF StandInv, SpawnerType, Records
  <2>3. gazebo' \in [Entities -> Layouts] /\ <<>> \in Seq(Layouts)
    BY <1>1 DEF Layouts
  <2> QED
    BY <1>1, <2>1, <2>2, <2>3 DEF SpawnerType
<1>3. spawner'.at = "idle" /\ spawner'.placed = {} /\ spawner'.read = FALSE
  BY <1>1 DEF Stand!Idle
<1> QED
  BY <1>1, <1>2, <1>3
  DEF StandInv, LateLoose, RemoveInv, SpawnInv, Stand!ScoredAsPlaced, Stand!NothingForgottenThere

LEMMA StandKeeps == StandInv /\ Stand!SpawnerNext => StandInv'
BY SpawnStarts, RemovedKeeps, SaveStateKeeps, WriteResolvedKeeps, KilledKeeps,
   RestartKeeps, RemoveKeeps, CreateKeeps, LateKeeps DEF Stand!SpawnerNext

LEMMA StandHolds == StandInv => Stand!ScenarioStands
BY DEF StandInv, SpawnInv, Stand!ScenarioStands, Stand!Replaced

-----------------------------------------------------------------------------
(***************************************************************************)
(* The pipeline                                                            *)
(***************************************************************************)
LEMMA Kinds ==
  /\ Pipeline!NoFile.kind = "missing" /\ Pipeline!CutFile.kind = "cut"
  /\ \A s \in SceneRecords : s.kind = "scene"
  /\ \A s \in Files : s.kind = "scene" => s \in SceneRecords
  /\ \A s \in Files : s.kind = "missing" => s = Pipeline!NoFile
  /\ \A s \in SceneRecords \cup {Pipeline!NoFile} : s # Pipeline!NoFile => s \in SceneRecords
<1>1. \A s \in SceneRecords : s.kind = "scene"
  BY DEF SceneRecords
<1>2. Pipeline!NoFile.kind = "missing" /\ Pipeline!CutFile.kind = "cut"
  BY DEF Pipeline!NoFile, Pipeline!CutFile
<1> QED
  BY <1>1, <1>2 DEF Files

LEMMA NewScene ==
  ASSUME NEW place \in Pipeline!Places
  PROVE  /\ Pipeline!SceneOf(place, {}, {}, {}) \in SceneRecords
         /\ Pipeline!SceneOf(place, {}, {}, {}).place = place
         /\ Pipeline!SceneOf(place, {}, {}, {}).cars = {}
         /\ Pipeline!SceneOf(place, {}, {}, {}).autos = {}
         /\ Pipeline!SceneOf(place, {}, {}, {}).people = {}
BY DEF Pipeline!SceneOf, SceneRecords

LEMMA IdleTerminal ==
  /\ Pipeline!Idle \in Terminal /\ Pipeline!Idle.at = "idle" /\ Pipeline!Idle.fresh = TRUE
BY DEF Pipeline!Idle, Terminal, Stages, Jobs, Files

LEMMA NotBuiltType ==
  /\ Pipeline!NotBuilt \in [world : Files, elevation : Pipeline!Places \cup {0}, clean : BOOLEAN,
                            scenario : Files, whole : BOOLEAN]
  /\ Pipeline!NotBuilt.world = Pipeline!NoFile /\ Pipeline!NotBuilt.whole = FALSE
BY DEF Pipeline!NotBuilt, Files

LEMMA PipelineStarts == Pipeline!PipelineInit => PipelineInv
<1> SUFFICES ASSUME Pipeline!PipelineInit PROVE PipelineInv
  OBVIOUS
<1>1. /\ tools = [t \in Tools |-> Pipeline!Idle] /\ server = Pipeline!Nobody
      /\ page = [copy |-> Pipeline!NoFile, fresh |-> TRUE, edits |-> 0]
      /\ built = Pipeline!NotBuilt /\ crossed = FALSE /\ mixed = FALSE
  BY DEF Pipeline!PipelineInit
<1> DEFINE first == Pipeline!SceneOf(1, {1}, {1}, {1})
<1>2. \/ scene = Pipeline!NoFile /\ data = [elevation |-> 0, imagery |-> 0]
         /\ hand = Pipeline!NotEdited
      \/ /\ scene = first /\ data = [elevation |-> 1, imagery |-> 1]
         /\ hand = [cars |-> {1}, people |-> {1}, autos |-> {1}, saved |-> TRUE]
  BY DEF Pipeline!PipelineInit
<1>3. first \in SceneRecords /\ first.place = 1 /\ first.cars = {1} /\ first.people = {1}
      /\ first.autos = {1}
  BY DEF Pipeline!SceneOf, SceneRecords, Pipeline!Places
<1> HIDE DEF first
<1>4. Pipeline!NotEdited \in [cars : SUBSET {1}, people : SUBSET {1}, autos : SUBSET {1},
                              saved : BOOLEAN]
  BY DEF Pipeline!NotEdited
<1>5. PipelineType
  <2>1. scene \in Files /\ data \in [elevation : Pipeline!Places \cup {0}, imagery : Pipeline!Places \cup {0}]
    BY <1>2, <1>3 DEF Files, Pipeline!Places
  <2>2. tools \in [Tools -> Terminal]
    BY <1>1, IdleTerminal
  <2>3. page \in [copy : SceneRecords \cup {Pipeline!NoFile}, fresh : BOOLEAN, edits : Nat]
    BY <1>1
  <2>4. hand \in [cars : SUBSET {1}, people : SUBSET {1}, autos : SUBSET {1}, saved : BOOLEAN]
    <3>1. CASE hand = Pipeline!NotEdited
      BY <1>4, <3>1
    <3>2. CASE hand = [cars |-> {1}, people |-> {1}, autos |-> {1}, saved |-> TRUE]
      BY <3>2
    <3> QED
      BY <1>2, <3>1, <3>2
  <2>5. crossed \in BOOLEAN /\ mixed \in BOOLEAN
    BY <1>1, Zenon
  <2> QED
    BY <1>1, <2>1, <2>2, <2>3, <2>4, <2>5, NotBuiltType DEF PipelineType
<1>6. SceneInv
  <2>1. CASE scene = Pipeline!NoFile
    BY <2>1, Kinds DEF SceneInv
  <2>2. CASE scene = first /\ data = [elevation |-> 1, imagery |-> 1]
             /\ hand = [cars |-> {1}, people |-> {1}, autos |-> {1}, saved |-> TRUE]
    <3>1. ByHand(scene)
      BY <1>3, <2>2 DEF ByHand
    <3>2. OfPlace(scene)
      BY <1>3, <2>2 DEF OfPlace
    <3> QED
      BY <3>1, <3>2 DEF SceneInv
  <2> QED
    BY <1>2, <2>1, <2>2
<1>7. PageInv
  BY <1>1 DEF PageInv
<1>8. ToolsInv
  BY <1>1, IdleTerminal DEF ToolsInv, ToolOk, CopyOk, FetchOk, BuildOk, Apart,
     Pipeline!Fetching, Pipeline!Creating, Pipeline!At
<1>9. BuiltInv
  BY <1>1, NotBuiltType, Kinds DEF BuiltInv
<1> QED
  BY <1>5, <1>6, <1>7, <1>8, <1>9 DEF PipelineInv

(* A command that moves on changes nothing for the others.                 *)
LEMMA OthersStay ==
  ASSUME NEW o \in Tools, tools'[o] = tools[o]
  PROVE  /\ Pipeline!Fetching(o)' <=> Pipeline!Fetching(o)
         /\ UNCHANGED <<scene, data, hand, mixed>> => (CopyOk(o)' <=> CopyOk(o))
                                                      /\ (FetchOk(o)' <=> FetchOk(o))
         /\ built' = built => (BuildOk(o)' <=> BuildOk(o))
BY DEF Pipeline!Fetching, Pipeline!Creating, Pipeline!At, CopyOk, FetchOk, BuildOk, ByHand, OfPlace

LEMMA MoveKeeps ==
  ASSUME PipelineInv, ~crossed, NEW t \in Tools, PipelineType',
         \A o \in Tools \ {t} : tools'[o] = tools[o],
         UNCHANGED <<scene, data, page, hand, mixed>>,
         ~crossed' =>
           /\ ToolOk(t)' /\ \A o \in Tools \ {t} : Apart(t, o)'
           /\ \/ built' = built
              \/ BuiltInv' /\ \A o \in Tools \ {t} : tools[o].at # "scenario"
  PROVE  PipelineInv'
<1> SUFFICES ASSUME ~crossed' PROVE SceneInv' /\ PageInv' /\ ToolsInv' /\ BuiltInv'
  BY DEF PipelineInv
<1>1. SceneInv' /\ PageInv'
  BY DEF PipelineInv, SceneInv, PageInv, ByHand, OfPlace
<1>2. BuiltInv'
  BY DEF PipelineInv, BuiltInv
<1>3. ASSUME NEW o \in Tools \ {t} PROVE ToolOk(o)'
  <2>1. tools'[o] = tools[o] /\ ToolOk(o)
    BY DEF PipelineInv, ToolsInv
  <2>2. CopyOk(o)' /\ FetchOk(o)'
    BY <2>1, OthersStay DEF ToolOk
  <2>3. BuildOk(o)'
    BY <2>1 DEF ToolOk, BuildOk
  <2> QED
    BY <2>2, <2>3 DEF ToolOk
<1>4. ASSUME NEW o \in Tools, NEW u \in Tools, o # u PROVE Apart(o, u)'
  <2>1. CASE o = t \/ u = t
    BY <1>4, <2>1 DEF Apart
  <2>2. CASE o # t /\ u # t
    <3>1. Apart(o, u)
      BY <1>4 DEF PipelineInv, ToolsInv
    <3> QED
      BY <2>2, <3>1, OthersStay DEF Apart
  <2> QED
    BY <2>1, <2>2
<1> QED
  BY <1>1, <1>2, <1>3, <1>4 DEF ToolsInv

(* Where a command comes to hold nothing of its own.                       *)
LEMMA Harmless ==
  ASSUME NEW t \in Tools,
         \/ tools'[t].at \in {"idle", "import", "second", "serve", "serving", "build"}
         \/ tools'[t].at = "detect" /\ tools'[t].cmd # "all"
  PROVE  ToolOk(t)' /\ \A o \in Tools : Apart(t, o)'
BY DEF ToolOk, CopyOk, FetchOk, BuildOk, Apart, Pipeline!Fetching, Pipeline!Creating, Pipeline!At

LEMMA ToolType ==
  ASSUME PipelineType, NEW t \in Tools
  PROVE  /\ tools[t] \in Terminal
         /\ tools[t].copy \in Files /\ tools[t].place \in Pipeline!Places \cup {0}
         /\ tools[t].cmd \in Pipeline!Commands \cup {"none"} /\ tools[t].at \in Stages
         /\ tools[t].job \in Jobs
BY DEF PipelineType, Terminal

(* What the invariant says of the command that takes a step.               *)
LEMMA Holds ==
  ASSUME PipelineInv, ~crossed, NEW t \in Tools
  PROVE  /\ PipelineType /\ SceneInv /\ PageInv /\ BuiltInv
         /\ CopyOk(t) /\ FetchOk(t) /\ BuildOk(t)
         /\ \A o \in Tools \ {t} : Apart(t, o)
BY DEF PipelineInv, ToolsInv, ToolOk

-----------------------------------------------------------------------------
(* One command moves on, and the scene and the data stay.                  *)
LEMMA OneMoves ==
  ASSUME PipelineType, NEW t \in Tools, NEW next \in Terminal, tools' = [tools EXCEPT ![t] = next]
  PROVE  /\ tools' \in [Tools -> Terminal] /\ tools'[t] = next
         /\ \A o \in Tools \ {t} : tools'[o] = tools[o]
BY DEF PipelineType

LEMMA Flag ==
  ASSUME PipelineType, crossed' = crossed
  PROVE  crossed' \in BOOLEAN
<1>1. crossed \in BOOLEAN
  BY DEF PipelineType
<1> QED
  BY <1>1, Zenon

LEMMA GoKeeps ==
  ASSUME PipelineInv, ~crossed, NEW t \in Tools, NEW next \in Terminal,
         tools' = [tools EXCEPT ![t] = next],
         UNCHANGED <<scene, data, page, hand, built, mixed>>,
         server' \in Tools \cup {Pipeline!Nobody}, crossed' \in BOOLEAN,
         ~crossed' => ToolOk(t)' /\ \A o \in Tools \ {t} : Apart(t, o)'
  PROVE  PipelineInv'
<1>1. PipelineType
  BY DEF PipelineInv
<1>2. tools' \in [Tools -> Terminal] /\ \A o \in Tools \ {t} : tools'[o] = tools[o]
  BY <1>1, OneMoves
<1>3. mixed' \in BOOLEAN
  BY <1>1, Zenon DEF PipelineType
<1>4. PipelineType'
  BY <1>1, <1>2, <1>3 DEF PipelineType
<1> QED
  BY <1>2, <1>4, MoveKeeps

LEMMA EndKeeps ==
  ASSUME PipelineInv, ~crossed, NEW t \in Tools, Pipeline!Ends(t),
         server' \in Tools \cup {Pipeline!Nobody},
         UNCHANGED <<scene, data, page, hand, built, crossed, mixed>>
  PROVE  PipelineInv'
<1>1. tools' = [tools EXCEPT ![t] = Pipeline!Idle]
  BY DEF Pipeline!Ends
<1>2. tools'[t] = Pipeline!Idle
  BY <1>1, IdleTerminal, OneMoves DEF PipelineInv
<1>3. ToolOk(t)' /\ \A o \in Tools : Apart(t, o)'
  BY <1>2, IdleTerminal, Harmless
<1>4. crossed' \in BOOLEAN
  BY Flag DEF PipelineInv
<1> QED
  BY <1>1, <1>3, <1>4, IdleTerminal, GoKeeps

(* The next stage of a command, with the rest as it was.                   *)
LEMMA Stage ==
  ASSUME PipelineType, NEW t \in Tools, NEW at \in Stages
  PROVE  /\ [tools[t] EXCEPT !.at = at] \in Terminal
         /\ [tools[t] EXCEPT !.at = at].at = at
         /\ Pipeline!Goes(t, at) <=> tools' = [tools EXCEPT ![t] = [tools[t] EXCEPT !.at = at]]
BY DEF PipelineType, Terminal, Pipeline!Goes

LEMMA FailsKeeps ==
  ASSUME PipelineInv, ~crossed, NEW t \in Tools, Pipeline!Fails(t)
  PROVE  PipelineInv'
<1>1. server' \in Tools \cup {Pipeline!Nobody}
  BY DEF Pipeline!Fails, PipelineInv, PipelineType
<1> QED
  BY <1>1, EndKeeps DEF Pipeline!Fails

LEMMA ServeKeeps ==
  ASSUME PipelineInv, ~crossed, NEW t \in Tools, Pipeline!Serve(t)
  PROVE  PipelineInv'
<1>1. PipelineType
  BY DEF PipelineInv
<1>2. CASE Pipeline!Goes(t, "serving") /\ server' = t
  <2> DEFINE next == [tools[t] EXCEPT !.at = "serving"]
  <2>1. next \in Terminal /\ next.at = "serving" /\ tools' = [tools EXCEPT ![t] = next]
    BY <1>1, <1>2, Stage DEF Stages
  <2> HIDE DEF next
  <2>2. tools'[t].at = "serving"
    BY <1>1, <2>1, OneMoves
  <2>3. ToolOk(t)' /\ \A o \in Tools : Apart(t, o)'
    BY <2>2, Harmless
  <2>4. UNCHANGED <<scene, data, page, hand, built, mixed>> /\ crossed' = crossed
    BY DEF Pipeline!Serve
  <2> QED
    BY <1>1, <1>2, <2>1, <2>3, <2>4, Flag, GoKeeps
<1>3. CASE Pipeline!Ends(t) /\ server' = server
  <2>1. server' \in Tools \cup {Pipeline!Nobody}
    BY <1>1, <1>3 DEF PipelineType
  <2> QED
    BY <1>3, <2>1, EndKeeps DEF Pipeline!Serve
<1> QED
  BY <1>2, <1>3 DEF Pipeline!Serve

LEMMA InterruptedKeeps ==
  ASSUME PipelineInv, ~crossed, NEW t \in Tools, Pipeline!Interrupted(t)
  PROVE  PipelineInv'
BY EndKeeps DEF Pipeline!Interrupted

LEMMA FinishKeeps ==
  ASSUME PipelineInv, ~crossed, Pipeline!Finish
  PROVE  PipelineInv'
<1>1. PipelineType
  BY DEF PipelineInv
<1>2. PICK t \in Tools : t = server
  BY <1>1 DEF PipelineType, Pipeline!Finish
<1> DEFINE next == [tools[t] EXCEPT !.at = "build"]
<1>3. next \in Terminal /\ next.at = "build" /\ tools' = [tools EXCEPT ![t] = next]
  BY <1>1, <1>2, Stage DEF Stages, Pipeline!Finish
<1> HIDE DEF next
<1>4. tools'[t].at = "build"
  BY <1>1, <1>3, OneMoves
<1>5. ToolOk(t)' /\ \A o \in Tools : Apart(t, o)'
  BY <1>4, Harmless
<1>6. /\ UNCHANGED <<scene, data, page, hand, built, mixed>> /\ crossed' = crossed
      /\ server' \in Tools \cup {Pipeline!Nobody}
  BY DEF Pipeline!Finish
<1> QED
  BY <1>1, <1>3, <1>5, <1>6, Flag, GoKeeps

-----------------------------------------------------------------------------
(* The commands, up to their first step.                                   *)
LEMMA FirstStage ==
  ASSUME NEW cmd \in Pipeline!Commands, NEW place \in Pipeline!Places \cup {0},
         NEW args \in Pipeline!Options(cmd), cmd = "create" => place # 0,
         Pipeline!First(cmd, args, place) # "refused"
  PROVE  \/ /\ Pipeline!First(cmd, args, place) = "elevation" /\ place \in Pipeline!Places
            /\ cmd \in {"create", "all"}
         \/ Pipeline!First(cmd, args, place) \in {"import", "second", "serve", "build"}
         \/ Pipeline!First(cmd, args, place) = "detect" /\ cmd = "detect"
BY DEF Pipeline!First, Pipeline!All, Pipeline!Create, Pipeline!Commands, Pipeline!Places

LEMMA StartKeeps ==
  ASSUME PipelineInv, ~crossed, NEW t \in Tools, Pipeline!Start(t)
  PROVE  PipelineInv'
<1>1. PipelineType
  BY DEF PipelineInv
<1>2. PICK cmd \in Pipeline!Commands, place \in Pipeline!Places \cup {0} :
        \E args \in Pipeline!Options(cmd) :
          /\ cmd = "create" => place # 0
          /\ LET first == Pipeline!First(cmd, args, place)
             IN /\ tools' = IF first = "refused" THEN tools
                            ELSE [tools EXCEPT ![t] = [Pipeline!Idle EXCEPT !.cmd = cmd,
                                   !.args = args \ {"force"}, !.place = place, !.at = first]]
                /\ crossed' = (crossed \/ (first = "elevation"
                                 /\ \E o \in Tools \ {t} : Pipeline!Fetching(o)))
  BY DEF Pipeline!Start
<1>3. PICK args \in Pipeline!Options(cmd) :
        /\ cmd = "create" => place # 0
        /\ LET first == Pipeline!First(cmd, args, place)
           IN /\ tools' = IF first = "refused" THEN tools
                          ELSE [tools EXCEPT ![t] = [Pipeline!Idle EXCEPT !.cmd = cmd,
                                 !.args = args \ {"force"}, !.place = place, !.at = first]]
              /\ crossed' = (crossed \/ (first = "elevation"
                               /\ \E o \in Tools \ {t} : Pipeline!Fetching(o)))
  BY <1>2
<1> DEFINE first == Pipeline!First(cmd, args, place)
<1> DEFINE next == [Pipeline!Idle EXCEPT !.cmd = cmd, !.args = args \ {"force"},
                                        !.place = place, !.at = first]
<1>4. /\ tools' = IF first = "refused" THEN tools ELSE [tools EXCEPT ![t] = next]
      /\ crossed' = (crossed \/ (first = "elevation" /\ \E o \in Tools \ {t} : Pipeline!Fetching(o)))
  BY <1>3
<1>5. first # "refused" =>
        \/ first = "elevation" /\ place \in Pipeline!Places /\ cmd \in {"create", "all"}
        \/ first \in {"import", "second", "serve", "build"}
        \/ first = "detect" /\ cmd = "detect"
  BY <1>3, FirstStage
<1>6. args \ {"force"} \in SUBSET {"file", "skip", "keep"}
  BY DEF Pipeline!Options, Pipeline!Commands
<1>7. first # "refused" =>
        /\ next \in Terminal /\ next.at = first /\ next.cmd = cmd /\ next.place = place
        /\ next.job = "none" /\ next.fresh = TRUE
  BY <1>5, <1>6 DEF Pipeline!Idle, Terminal, Stages, Jobs, Files
<1> HIDE DEF first, next
<1>8. tools[t].at = "idle" /\ UNCHANGED <<scene, data, server, page, hand, mixed>>
  BY DEF Pipeline!Start, Pipeline!Busy
<1>9. \A o \in Tools \ {t} : tools'[o] = tools[o]
  BY <1>4
<1>10. built' = built \/ (built' = Pipeline!NotBuilt /\ \A o \in Tools : tools[o].at # "scenario")
  BY DEF Pipeline!Start, Pipeline!At
<1>11. crossed' \in BOOLEAN
  BY <1>4, Zenon
<1>12. mixed' \in BOOLEAN
  <2>1. mixed \in BOOLEAN /\ mixed' = mixed
    BY <1>1, <1>8 DEF PipelineType
  <2> QED
    BY <2>1, Zenon
<1>13. tools' \in [Tools -> Terminal]
  BY <1>1, <1>4, <1>7 DEF PipelineType
<1>14. PipelineType'
  <2>1. built' \in [world : Files, elevation : Pipeline!Places \cup {0}, clean : BOOLEAN,
                    scenario : Files, whole : BOOLEAN]
    BY <1>1, <1>10, NotBuiltType DEF PipelineType
  <2> QED
    BY <1>1, <1>8, <1>11, <1>12, <1>13, <2>1 DEF PipelineType
<1>15. ASSUME ~crossed' PROVE ToolOk(t)' /\ \A o \in Tools \ {t} : Apart(t, o)'
  <2>1. CASE first = "refused"
    <3>1. tools'[t].at = "idle"
      BY <1>4, <1>8, <2>1
    <3> QED
      BY <3>1, Harmless
  <2>2. CASE first # "refused"
    <3>1. tools'[t] = next
      BY <1>1, <1>4, <2>2 DEF PipelineType
    <3>2. CASE first # "elevation"
      <4>1. \/ tools'[t].at \in {"import", "second", "serve", "build"}
            \/ tools'[t].at = "detect" /\ tools'[t].cmd # "all"
        BY <1>5, <1>7, <2>2, <3>1, <3>2
      <4> QED
        BY <4>1, Harmless
    <3>3. CASE first = "elevation"
      <4>1. tools'[t].at = "elevation" /\ tools'[t].place \in Pipeline!Places
        BY <1>5, <1>7, <3>1, <3>3
      <4>2. \A o \in Tools \ {t} : ~Pipeline!Fetching(o)'
        BY <1>4, <1>9, <1>15, <3>3, OthersStay
      <4>3. ToolOk(t)'
        BY <4>1 DEF ToolOk, CopyOk, FetchOk, BuildOk
      <4> QED
        BY <4>1, <4>2, <4>3 DEF Apart
    <3> QED
      BY <3>2, <3>3
  <2> QED
    BY <2>1, <2>2
<1>16. \/ built' = built
       \/ BuiltInv' /\ \A o \in Tools \ {t} : tools[o].at # "scenario"
  <2>1. ASSUME built' = Pipeline!NotBuilt PROVE BuiltInv'
    BY <2>1, NotBuiltType, Kinds DEF BuiltInv
  <2> QED
    BY <1>10, <2>1
<1> QED
  BY <1>8, <1>9, <1>14, <1>15, <1>16, MoveKeeps

-----------------------------------------------------------------------------
(* A command comes to hold a scene that it will save.                      *)
LEMMA Held ==
  ASSUME PipelineType, NEW t \in Tools, NEW job \in Jobs, NEW copy \in Files
  PROVE  /\ [tools[t] EXCEPT !.at = "save", !.job = job, !.copy = copy, !.fresh = TRUE] \in Terminal
         /\ Pipeline!Holds(t, job, copy) =>
              /\ tools' = [tools EXCEPT ![t] = [tools[t] EXCEPT !.at = "save", !.job = job,
                                                  !.copy = copy, !.fresh = TRUE]]
              /\ tools'[t].at = "save" /\ tools'[t].job = job /\ tools'[t].copy = copy
              /\ tools'[t].place = tools[t].place
<1> DEFINE next == [tools[t] EXCEPT !.at = "save", !.job = job, !.copy = copy, !.fresh = TRUE]
<1>1. tools[t] \in Terminal
  BY ToolType
<1>2. /\ next \in Terminal /\ next.at = "save" /\ next.job = job /\ next.copy = copy
      /\ next.place = tools[t].place
  BY <1>1 DEF Terminal, Stages
<1>3. ASSUME Pipeline!Holds(t, job, copy) PROVE tools' = [tools EXCEPT ![t] = next]
  <2>1. tools' = [tools EXCEPT ![t].at = "save", ![t].job = job, ![t].copy = copy, ![t].fresh = TRUE]
    BY <1>3 DEF Pipeline!Holds
  <2> QED
    BY <2>1 DEF PipelineType
<1> HIDE DEF next
<1>4. ASSUME Pipeline!Holds(t, job, copy) PROVE tools'[t] = next
  BY <1>2, <1>3, <1>4, OneMoves
<1> QED
  BY <1>2, <1>3, <1>4 DEF next

LEMMA HoldsKeeps ==
  ASSUME PipelineInv, ~crossed, NEW t \in Tools, NEW job \in Jobs, NEW copy \in Files,
         Pipeline!Holds(t, job, copy), ToolOk(t)', \A o \in Tools \ {t} : Apart(t, o)'
  PROVE  PipelineInv'
<1>1. PipelineType
  BY DEF PipelineInv
<1> DEFINE next == [tools[t] EXCEPT !.at = "save", !.job = job, !.copy = copy, !.fresh = TRUE]
<1>2. next \in Terminal /\ tools' = [tools EXCEPT ![t] = next]
  BY <1>1, Held
<1>3. /\ UNCHANGED <<scene, data, page, hand, built, mixed>> /\ crossed' = crossed
      /\ server' \in Tools \cup {Pipeline!Nobody}
  BY <1>1 DEF Pipeline!Holds, PipelineType
<1> HIDE DEF next
<1> QED
  BY <1>1, <1>2, <1>3, Flag, GoKeeps

LEMMA BuildingsKeeps ==
  ASSUME PipelineInv, ~crossed, NEW t \in Tools, Pipeline!Buildings(t)
  PROVE  PipelineInv'
<1>1. PipelineType /\ FetchOk(t) /\ \A o \in Tools \ {t} : Apart(t, o)
  BY Holds
<1>2. tools[t].at = "buildings" /\ Pipeline!Fetching(t)
  BY DEF Pipeline!Buildings, Pipeline!At, Pipeline!Fetching, Pipeline!Creating
<1> DEFINE made == Pipeline!SceneOf(tools[t].place, {}, {}, {})
<1>3. /\ tools[t].place \in Pipeline!Places
      /\ data.elevation = tools[t].place /\ data.imagery = tools[t].place
      /\ ~mixed => scene.kind = "missing"
  BY <1>1, <1>2 DEF FetchOk
<1>4. made \in Files /\ made \in SceneRecords /\ "create" \in Jobs
  BY <1>3, NewScene DEF Files, Jobs
<1>5. Pipeline!Holds(t, "create", made)
  BY DEF Pipeline!Buildings
<1>6. /\ tools'[t].at = "save" /\ tools'[t].job = "create" /\ tools'[t].copy = made
      /\ tools'[t].place = tools[t].place
      /\ tools' = [tools EXCEPT ![t] = [tools[t] EXCEPT !.at = "save", !.job = "create",
                                          !.copy = made, !.fresh = TRUE]]
  BY <1>1, <1>4, <1>5, Held
<1>7. UNCHANGED <<scene, data, hand, mixed>>
  BY <1>5 DEF Pipeline!Holds
<1>8. ToolOk(t)'
  <2>1. CopyOk(t)'
    BY <1>4, <1>6 DEF CopyOk
  <2>2. FetchOk(t)'
    BY <1>3, <1>6, <1>7 DEF FetchOk
  <2>3. BuildOk(t)'
    BY <1>6 DEF BuildOk
  <2> QED
    BY <2>1, <2>2, <2>3 DEF ToolOk
<1>9. \A o \in Tools \ {t} : Apart(t, o)'
  <2>1. \A o \in Tools \ {t} : ~Pipeline!Fetching(o) /\ tools'[o] = tools[o]
    BY <1>1, <1>2, <1>6 DEF Apart
  <2>2. \A o \in Tools \ {t} : ~Pipeline!Fetching(o)'
    BY <2>1, OthersStay
  <2> QED
    BY <1>6, <2>2 DEF Apart
<1> HIDE DEF made
<1> QED
  BY <1>4, <1>5, <1>8, <1>9, HoldsKeeps

LEMMA ImportKeeps ==
  ASSUME PipelineInv, ~crossed, NEW t \in Tools, Pipeline!Import(t)
  PROVE  PipelineInv'
<1>1. PipelineType /\ SceneInv
  BY Holds
<1>2. scene.kind = "scene" /\ Pipeline!Holds(t, "import", scene)
  BY DEF Pipeline!Import, Pipeline!Readable
<1>3. scene \in Files /\ scene \in SceneRecords /\ "import" \in Jobs
  BY <1>1, <1>2, Kinds DEF PipelineType, Jobs
<1>4. /\ tools'[t].at = "save" /\ tools'[t].job = "import" /\ tools'[t].copy = scene
  BY <1>1, <1>2, <1>3, Held
<1>5. UNCHANGED <<scene, data, hand, mixed>>
  BY <1>2 DEF Pipeline!Holds
<1>6. ByHand(scene) /\ OfPlace(scene)
  BY <1>1, <1>2 DEF SceneInv
<1>7. ToolOk(t)'
  <2>1. ByHand(tools[t].copy)' /\ OfPlace(tools[t].copy)'
    BY <1>4, <1>5, <1>6 DEF ByHand, OfPlace
  <2>2. CopyOk(t)'
    BY <1>2, <1>3, <1>4, <1>5, <2>1 DEF CopyOk
  <2>3. FetchOk(t)' /\ BuildOk(t)'
    BY <1>4 DEF FetchOk, BuildOk, Pipeline!Fetching, Pipeline!Creating, Pipeline!At
  <2> QED
    BY <2>2, <2>3 DEF ToolOk
<1>8. \A o \in Tools \ {t} : Apart(t, o)'
  BY <1>4 DEF Apart, Pipeline!Fetching, Pipeline!Creating, Pipeline!At
<1> QED
  BY <1>2, <1>3, <1>7, <1>8, HoldsKeeps

-----------------------------------------------------------------------------
(* detect, and the second look of all.                                     *)
LEMMA DetectLoadsKeeps ==
  ASSUME PipelineInv, ~crossed, NEW t \in Tools, Pipeline!DetectLoads(t)
  PROVE  PipelineInv'
<1>1. PipelineType /\ SceneInv /\ CopyOk(t)
  BY Holds
<1>2. tools[t] \in Terminal
  BY <1>1, ToolType
<1>3. /\ tools[t].at = "detect" /\ scene.kind = "scene"
      /\ crossed' = (crossed \/ (tools[t].cmd = "all" /\ ~tools[t].fresh))
      /\ UNCHANGED <<scene, data, server, page, built, hand, mixed>>
  BY DEF Pipeline!DetectLoads, Pipeline!At, Pipeline!Readable
<1> DEFINE next == [tools[t] EXCEPT !.at = "look", !.copy = scene, !.fresh = TRUE]
<1>4. /\ next \in Terminal /\ next.at = "look" /\ next.copy = scene /\ next.cmd = tools[t].cmd
  BY <1>1, <1>2 DEF Terminal, Stages, PipelineType
<1>5. tools' = [tools EXCEPT ![t] = next]
  <2>1. tools' = [tools EXCEPT ![t].at = "look", ![t].copy = scene, ![t].fresh = TRUE]
    BY DEF Pipeline!DetectLoads
  <2> QED
    BY <1>1, <2>1 DEF PipelineType
<1> HIDE DEF next
<1>6. /\ tools'[t].at = "look" /\ tools'[t].copy = scene /\ tools'[t].cmd = tools[t].cmd
  BY <1>1, <1>4, <1>5, OneMoves
<1>7. ASSUME ~crossed' PROVE ToolOk(t)' /\ \A o \in Tools \ {t} : Apart(t, o)'
  <2>1. ByHand(scene) /\ OfPlace(scene) /\ scene \in SceneRecords
    BY <1>1, <1>3, Kinds DEF SceneInv, PipelineType
  <2>2. ByHand(tools[t].copy)' /\ OfPlace(tools[t].copy)'
    BY <1>3, <1>6, <2>1 DEF ByHand, OfPlace
  <2>3. tools[t].cmd = "all" => Pipeline!Vehicles(scene) = {}
    BY <1>1, <1>3, <1>7 DEF CopyOk
  <2>4. CopyOk(t)'
    BY <1>3, <1>6, <2>1, <2>2, <2>3 DEF CopyOk, Pipeline!Vehicles
  <2>5. FetchOk(t)' /\ BuildOk(t)'
    BY <1>6 DEF FetchOk, BuildOk, Pipeline!Fetching, Pipeline!Creating, Pipeline!At
  <2>6. \A o \in Tools \ {t} : Apart(t, o)'
    BY <1>6 DEF Apart, Pipeline!Fetching, Pipeline!Creating, Pipeline!At
  <2> QED
    BY <2>4, <2>5, <2>6 DEF ToolOk
<1>8. crossed' \in BOOLEAN
  BY <1>3, Zenon
<1>9. server' \in Tools \cup {Pipeline!Nobody}
  BY <1>1, <1>3 DEF PipelineType
<1> QED
  BY <1>3, <1>4, <1>5, <1>7, <1>8, <1>9, GoKeeps

LEMMA DetectsKeeps ==
  ASSUME PipelineInv, ~crossed, NEW t \in Tools, Pipeline!Detects(t)
  PROVE  PipelineInv'
<1>1. PipelineType /\ CopyOk(t)
  BY Holds
<1>2. tools[t] \in Terminal
  BY <1>1, ToolType
<1>3. /\ tools[t].at = "look"
      /\ UNCHANGED <<scene, data, server, page, built, hand, crossed, mixed>>
  BY DEF Pipeline!Detects, Pipeline!At
<1>4. tools[t].copy \in SceneRecords /\ scene.kind # "missing"
  BY <1>1, <1>3 DEF CopyOk
<1>5. PICK found \in SUBSET {1} :
        tools' = [tools EXCEPT ![t].at = "save", ![t].job = "detect",
                    ![t].copy = Pipeline!Detected(@, found, Pipeline!Given(t, "keep"))]
  BY DEF Pipeline!Detects
<1> DEFINE copy == Pipeline!Detected(tools[t].copy, found, Pipeline!Given(t, "keep"))
<1>6. /\ copy \in SceneRecords /\ copy.cars = tools[t].copy.cars
      /\ copy.people = tools[t].copy.people /\ copy.place = tools[t].copy.place
  <2> DEFINE autos == IF Pipeline!Given(t, "keep") THEN tools[t].copy.autos \cup found ELSE found
  <2>1. copy = [tools[t].copy EXCEPT !.autos = autos]
    BY <1>4 DEF Pipeline!Detected, SceneRecords
  <2>2. autos \in SUBSET {1}
    BY <1>4 DEF SceneRecords
  <2> HIDE DEF autos, copy
  <2> QED
    BY <1>4, <2>1, <2>2 DEF SceneRecords
<1> DEFINE next == [tools[t] EXCEPT !.at = "save", !.job = "detect", !.copy = copy]
<1>7. tools' = [tools EXCEPT ![t] = next]
  BY <1>1, <1>5 DEF PipelineType
<1> HIDE DEF copy
<1>8. /\ next \in Terminal /\ next.at = "save" /\ next.job = "detect" /\ next.copy = copy
      /\ next.cmd = tools[t].cmd /\ next.fresh = tools[t].fresh
  BY <1>2, <1>6 DEF Terminal, Stages, Jobs, Files
<1> HIDE DEF next
<1>9. /\ tools'[t].at = "save" /\ tools'[t].job = "detect" /\ tools'[t].copy = copy
      /\ tools'[t].cmd = tools[t].cmd /\ tools'[t].fresh = tools[t].fresh
  BY <1>1, <1>7, <1>8, OneMoves
<1>10. CopyOk(t)'
  <2>1. ASSUME tools[t].fresh
        PROVE  /\ ByHand(tools[t].copy) /\ OfPlace(tools[t].copy)
               /\ tools[t].cmd = "all" => Pipeline!Vehicles(tools[t].copy) = {}
    BY <1>1, <1>3, <2>1 DEF CopyOk
  <2>2. tools[t].fresh => OfPlace(tools[t].copy)'
    BY <1>3, <1>6, <1>9, <2>1 DEF OfPlace
  <2>3. tools[t].fresh =>
          /\ copy.cars = hand.cars /\ copy.people = hand.people
          /\ tools[t].cmd = "all" /\ hand.saved => hand.cars \cup hand.autos = {}
    BY <1>6, <2>1 DEF ByHand, Pipeline!Vehicles
  <2> QED
    BY <1>3, <1>4, <1>6, <1>9, <2>2, <2>3 DEF CopyOk
<1>11. FetchOk(t)' /\ BuildOk(t)' /\ \A o \in Tools \ {t} : Apart(t, o)'
  BY <1>9 DEF FetchOk, BuildOk, Apart, Pipeline!Fetching, Pipeline!Creating, Pipeline!At
<1>12. server' \in Tools \cup {Pipeline!Nobody}
  BY <1>1, <1>3 DEF PipelineType
<1>13. ToolOk(t)'
  BY <1>10, <1>11 DEF ToolOk
<1> QED
  BY <1>1, <1>3, <1>7, <1>8, <1>11, <1>12, <1>13, Flag, GoKeeps

LEMMA SecondKeeps ==
  ASSUME PipelineInv, ~crossed, NEW t \in Tools, Pipeline!Second(t)
  PROVE  PipelineInv'
<1>1. PipelineType
  BY Holds
<1>2. tools[t] \in Terminal
  BY <1>1, ToolType
<1> DEFINE found == Pipeline!Given(t, "skip") \/ Pipeline!Vehicles(scene) # {}
<1> DEFINE at == IF found THEN "serve" ELSE "detect"
<1> DEFINE next == [tools[t] EXCEPT !.fresh = TRUE, !.at = at]
<1>3. /\ at \in {"serve", "detect"}
      /\ at = "detect" => Pipeline!Vehicles(scene) = {}
  OBVIOUS
<1>4. tools' = [tools EXCEPT ![t] = next]
  <2>1. tools' = [tools EXCEPT ![t].fresh = TRUE, ![t].at = at]
    BY DEF Pipeline!Second
  <2> HIDE DEF at
  <2> QED
    BY <1>1, <2>1 DEF PipelineType
<1> HIDE DEF at
<1>5. next \in Terminal /\ next.at = at
  BY <1>2, <1>3 DEF Terminal, Stages
<1> HIDE DEF next
<1>6. tools'[t].at = at
  BY <1>1, <1>4, <1>5, OneMoves
<1>7. UNCHANGED <<scene, data, server, page, built, hand, crossed, mixed>>
  BY DEF Pipeline!Second
<1>8. ToolOk(t)' /\ \A o \in Tools \ {t} : Apart(t, o)'
  BY <1>3, <1>6, <1>7 DEF ToolOk, CopyOk, FetchOk, BuildOk, Apart, Pipeline!Fetching,
     Pipeline!Creating, Pipeline!At, Pipeline!Vehicles
<1>9. server' \in Tools \cup {Pipeline!Nobody}
  BY <1>1, <1>7 DEF PipelineType
<1> QED
  BY <1>1, <1>4, <1>5, <1>7, <1>8, <1>9, Flag, GoKeeps

-----------------------------------------------------------------------------
(* The build.                                                              *)
LEMMA WorldKeeps ==
  ASSUME PipelineInv, ~crossed, NEW t \in Tools, Pipeline!World(t)
  PROVE  PipelineInv'
<1>1. PipelineType /\ SceneInv
  BY Holds
<1>2. tools[t] \in Terminal
  BY <1>1, ToolType
<1>3. /\ scene.kind = "scene" /\ UNCHANGED <<scene, data, server, page, hand, mixed>>
      /\ crossed' = (crossed \/ \E o \in Tools \ {t} : Pipeline!At(o, "scenario"))
      /\ built' = [world |-> scene, elevation |-> data.elevation, clean |-> ~mixed,
                   scenario |-> built.scenario, whole |-> FALSE]
  BY DEF Pipeline!World, Pipeline!Readable
<1>4. scene \in SceneRecords /\ OfPlace(scene)
  BY <1>1, <1>3, Kinds DEF PipelineType, SceneInv
<1> DEFINE next == [tools[t] EXCEPT !.at = "scenario", !.copy = scene]
<1>5. tools' = [tools EXCEPT ![t] = next]
  <2>1. tools' = [tools EXCEPT ![t].at = "scenario", ![t].copy = scene]
    BY DEF Pipeline!World
  <2> QED
    BY <1>1, <2>1 DEF PipelineType
<1>6. next \in Terminal /\ next.at = "scenario" /\ next.copy = scene
  BY <1>2, <1>4 DEF Terminal, Stages, Files
<1> HIDE DEF next
<1>7. /\ tools' \in [Tools -> Terminal] /\ tools'[t] = next
      /\ \A o \in Tools \ {t} : tools'[o] = tools[o]
  BY <1>1, <1>5, <1>6, OneMoves
<1>8. crossed' \in BOOLEAN
  BY <1>3, Zenon
<1>9. mixed' \in BOOLEAN
  <2>1. mixed \in BOOLEAN
    BY <1>1 DEF PipelineType
  <2> QED
    BY <1>3, <2>1, Zenon
<1>10. PipelineType'
  <2> DEFINE clean == ~mixed
  <2>1. clean \in BOOLEAN
    OBVIOUS
  <2>2. built' = [world |-> scene, elevation |-> data.elevation, clean |-> clean,
                  scenario |-> built.scenario, whole |-> FALSE]
    BY <1>3
  <2> HIDE DEF clean
  <2>3. built' \in [world : Files, elevation : Pipeline!Places \cup {0}, clean : BOOLEAN,
                    scenario : Files, whole : BOOLEAN]
    BY <1>1, <2>1, <2>2 DEF PipelineType
  <2> QED
    BY <1>1, <1>3, <1>7, <1>8, <1>9, <2>3 DEF PipelineType
<1>11. BuiltInv'
  <2>1. /\ built'.world = scene /\ built'.elevation = data.elevation
        /\ built'.clean => ~mixed
        /\ built'.whole = FALSE
    BY <1>3
  <2>2. built'.clean => built'.elevation = built'.world.place
    BY <1>4, <2>1 DEF OfPlace
  <2> QED
    BY <2>1, <2>2 DEF BuiltInv
<1>12. ASSUME ~crossed'
       PROVE  /\ ToolOk(t)' /\ \A o \in Tools \ {t} : Apart(t, o)'
              /\ \A o \in Tools \ {t} : tools[o].at # "scenario"
  <2>1. \A o \in Tools \ {t} : tools[o].at # "scenario" /\ tools'[o].at # "scenario"
    BY <1>3, <1>7, <1>12 DEF Pipeline!At
  <2>2. tools'[t].at = "scenario" /\ tools'[t].copy = scene /\ built'.world = scene
    BY <1>3, <1>6, <1>7
  <2>3. ToolOk(t)'
    BY <1>4, <2>2 DEF ToolOk, CopyOk, FetchOk, BuildOk, Pipeline!Fetching, Pipeline!Creating,
       Pipeline!At
  <2>4. \A o \in Tools \ {t} : Apart(t, o)'
    BY <2>1, <2>2 DEF Apart, Pipeline!Fetching, Pipeline!Creating, Pipeline!At
  <2> QED
    BY <2>1, <2>3, <2>4
<1> QED
  BY <1>3, <1>7, <1>10, <1>11, <1>12, MoveKeeps

LEMMA ScenarioKeeps ==
  ASSUME PipelineInv, ~crossed, NEW t \in Tools, Pipeline!Scenario(t)
  PROVE  PipelineInv'
<1>1. PipelineType /\ BuiltInv /\ BuildOk(t) /\ \A o \in Tools \ {t} : Apart(t, o)
  BY Holds
<1>2. /\ tools[t].at = "scenario" /\ UNCHANGED <<scene, data, server, page, hand, crossed, mixed>>
      /\ tools' = [tools EXCEPT ![t] = Pipeline!Idle]
      /\ built' = [built EXCEPT !.scenario = tools[t].copy, !.whole = TRUE]
  BY DEF Pipeline!Scenario, Pipeline!At, Pipeline!Ends
<1>3. built.world = tools[t].copy /\ tools[t].copy \in SceneRecords
  BY <1>1, <1>2 DEF BuildOk
<1>4. /\ tools' \in [Tools -> Terminal] /\ tools'[t] = Pipeline!Idle
      /\ \A o \in Tools \ {t} : tools'[o] = tools[o]
  BY <1>1, <1>2, IdleTerminal, OneMoves
<1>5. /\ built' \in [world : Files, elevation : Pipeline!Places \cup {0}, clean : BOOLEAN,
                     scenario : Files, whole : BOOLEAN]
      /\ built'.world = built.world /\ built'.elevation = built.elevation
      /\ built'.clean = built.clean /\ built'.scenario = tools[t].copy
  BY <1>1, <1>2, <1>3 DEF PipelineType, Files
<1>6. mixed' \in BOOLEAN
  <2>1. mixed \in BOOLEAN
    BY <1>1 DEF PipelineType
  <2> QED
    BY <1>2, <2>1, Zenon
<1>7. crossed' \in BOOLEAN
  BY <1>1, <1>2, Flag
<1>8. PipelineType'
  BY <1>1, <1>2, <1>4, <1>5, <1>6, <1>7 DEF PipelineType
<1>9. BuiltInv'
  BY <1>1, <1>3, <1>5 DEF BuiltInv
<1>10. \A o \in Tools \ {t} : tools[o].at # "scenario"
  BY <1>1, <1>2 DEF Apart
<1>11. ToolOk(t)' /\ \A o \in Tools : Apart(t, o)'
  BY <1>4, IdleTerminal, Harmless
<1> QED
  BY <1>2, <1>4, <1>8, <1>9, <1>10, <1>11, MoveKeeps

-----------------------------------------------------------------------------
(* A fetch goes over the data.                                             *)
LEMMA FetchKeeps ==
  ASSUME PipelineInv, ~crossed, NEW t \in Tools, Pipeline!Fetching(t),
         PipelineType', \A o \in Tools \ {t} : tools'[o] = tools[o],
         UNCHANGED <<scene, page, built, hand>>, mixed => mixed',
         ~mixed' => scene.kind = "missing", ToolOk(t)',
         tools'[t].at \notin {"scenario"}
  PROVE  PipelineInv'
<1>1. /\ SceneInv /\ PageInv /\ BuiltInv /\ ToolsInv
  BY DEF PipelineInv
<1>2. SceneInv'
  BY <1>1 DEF SceneInv, ByHand, OfPlace
<1>3. PageInv'
  BY <1>1 DEF PageInv, OfPlace
<1>4. BuiltInv'
  BY <1>1 DEF BuiltInv
<1>5. ASSUME NEW o \in Tools \ {t} PROVE ToolOk(o)'
  <2>1. /\ tools'[o] = tools[o] /\ CopyOk(o) /\ BuildOk(o) /\ ~Pipeline!Fetching(o)
    BY <1>1 DEF ToolsInv, ToolOk, Apart
  <2>2. ~Pipeline!Fetching(o)'
    BY <2>1, OthersStay
  <2>3. CopyOk(o)'
    <3>1. scene.kind # "missing" => \A s : OfPlace(s)'
      BY DEF OfPlace
    <3>2. CASE scene.kind = "missing"
      BY <2>1, <2>2, <3>2 DEF CopyOk, Pipeline!Fetching, Pipeline!At
    <3>3. CASE scene.kind # "missing"
      <4>1. \A s : ByHand(s) => ByHand(s)'
        BY DEF ByHand
      <4>2. OfPlace(tools[o].copy)' /\ (ByHand(tools[o].copy) => ByHand(tools[o].copy)')
        BY <3>3 DEF OfPlace, ByHand
      <4> QED
        BY <2>1, <3>3, <4>2 DEF CopyOk
    <3> QED
      BY <3>2, <3>3
  <2>4. FetchOk(o)' /\ BuildOk(o)'
    BY <2>1, <2>2 DEF FetchOk, BuildOk
  <2> QED
    BY <2>3, <2>4 DEF ToolOk
<1>6. ASSUME NEW o \in Tools, NEW u \in Tools, o # u PROVE Apart(o, u)'
  <2>1. \A v \in Tools \ {t} : ~Pipeline!Fetching(v)'
    BY <1>1, OthersStay DEF ToolsInv, Apart
  <2>2. ~(tools'[o].at = "scenario" /\ tools'[u].at = "scenario")
    BY <1>1, <1>6 DEF ToolsInv, Apart
  <2> QED
    BY <1>6, <2>1, <2>2 DEF Apart
<1> QED
  BY <1>2, <1>3, <1>4, <1>5, <1>6 DEF PipelineInv, ToolsInv

LEMMA ElevationKeeps ==
  ASSUME PipelineInv, ~crossed, NEW t \in Tools, Pipeline!Elevation(t)
  PROVE  PipelineInv'
<1>1. PipelineType /\ FetchOk(t)
  BY Holds
<1>2. /\ tools[t].at = "elevation" /\ UNCHANGED <<scene, server, page, built, hand, crossed>>
      /\ data' = [data EXCEPT !.elevation = tools[t].place]
      /\ mixed' = (mixed \/ scene.kind # "missing") /\ Pipeline!Goes(t, "imagery")
  BY DEF Pipeline!Elevation, Pipeline!At, Pipeline!Exists
<1>3. Pipeline!Fetching(t) /\ tools[t].place \in Pipeline!Places
  BY <1>1, <1>2 DEF FetchOk, Pipeline!Fetching, Pipeline!Creating
<1>4. tools' = [tools EXCEPT ![t] = [tools[t] EXCEPT !.at = "imagery"]]
      /\ [tools[t] EXCEPT !.at = "imagery"] \in Terminal
  BY <1>1, <1>2, Stage DEF Stages
<1>5. /\ tools' \in [Tools -> Terminal] /\ tools'[t] = [tools[t] EXCEPT !.at = "imagery"]
      /\ \A o \in Tools \ {t} : tools'[o] = tools[o]
  BY <1>1, <1>4, OneMoves
<1>6. tools'[t].at = "imagery" /\ tools'[t].place = tools[t].place
  BY <1>1, <1>5, ToolType DEF Terminal
<1>7. /\ data' \in [elevation : Pipeline!Places \cup {0}, imagery : Pipeline!Places \cup {0}]
      /\ data'.elevation = tools[t].place
  BY <1>1, <1>2, <1>3 DEF PipelineType
<1>8. mixed' \in BOOLEAN /\ crossed' \in BOOLEAN
  BY <1>1, <1>2, Flag
<1>9. PipelineType'
  BY <1>1, <1>2, <1>5, <1>7, <1>8 DEF PipelineType
<1>10. ToolOk(t)'
  BY <1>2, <1>3, <1>6, <1>7 DEF ToolOk, CopyOk, FetchOk, BuildOk
<1> QED
  BY <1>2, <1>3, <1>5, <1>6, <1>9, <1>10, FetchKeeps

LEMMA ImageryKeeps ==
  ASSUME PipelineInv, ~crossed, NEW t \in Tools, Pipeline!Imagery(t)
  PROVE  PipelineInv'
<1>1. PipelineType /\ FetchOk(t)
  BY Holds
<1>2. /\ tools[t].at = "imagery" /\ UNCHANGED <<scene, server, page, built, hand, crossed, mixed>>
      /\ data' = [data EXCEPT !.imagery = tools[t].place] /\ Pipeline!Goes(t, "buildings")
  BY DEF Pipeline!Imagery, Pipeline!At
<1>3. Pipeline!Fetching(t)
  BY <1>2 DEF Pipeline!Fetching, Pipeline!Creating
<1>4. /\ tools[t].place \in Pipeline!Places /\ data.elevation = tools[t].place
      /\ ~mixed => scene.kind = "missing"
  BY <1>1, <1>2, <1>3 DEF FetchOk
<1>5. tools' = [tools EXCEPT ![t] = [tools[t] EXCEPT !.at = "buildings"]]
      /\ [tools[t] EXCEPT !.at = "buildings"] \in Terminal
  BY <1>1, <1>2, Stage DEF Stages
<1>6. /\ tools' \in [Tools -> Terminal] /\ tools'[t] = [tools[t] EXCEPT !.at = "buildings"]
      /\ \A o \in Tools \ {t} : tools'[o] = tools[o]
  BY <1>1, <1>5, OneMoves
<1>7. tools'[t].at = "buildings" /\ tools'[t].place = tools[t].place
  BY <1>1, <1>6, ToolType DEF Terminal
<1>8. /\ data' \in [elevation : Pipeline!Places \cup {0}, imagery : Pipeline!Places \cup {0}]
      /\ data'.elevation = tools[t].place /\ data'.imagery = tools[t].place
  BY <1>1, <1>2, <1>4 DEF PipelineType
<1>9. mixed' \in BOOLEAN
  <2>1. mixed \in BOOLEAN
    BY <1>1 DEF PipelineType
  <2> QED
    BY <1>2, <2>1, Zenon
<1>10. PipelineType'
  BY <1>1, <1>2, <1>6, <1>8, <1>9, Flag DEF PipelineType
<1>11. ToolOk(t)'
  BY <1>2, <1>4, <1>7, <1>8 DEF ToolOk, CopyOk, FetchOk, BuildOk
<1> QED
  BY <1>2, <1>3, <1>4, <1>6, <1>7, <1>10, <1>11, FetchKeeps

-----------------------------------------------------------------------------
(* Another's scene goes over what a command has read: its copy is stale,   *)
(* and what is fetched goes over a scene.                                  *)
LEMMA StaleTool ==
  ASSUME NEW o \in Tools, tools[o] \in Terminal, tools'[o] = [tools[o] EXCEPT !.fresh = FALSE]
  PROVE  /\ tools'[o] \in Terminal /\ tools'[o].fresh = FALSE /\ tools'[o].at = tools[o].at
         /\ tools'[o].cmd = tools[o].cmd /\ tools'[o].job = tools[o].job
         /\ tools'[o].place = tools[o].place /\ tools'[o].copy = tools[o].copy
BY DEF Terminal

LEMMA StaleKeeps ==
  ASSUME NEW o \in Tools, tools[o] \in Terminal, tools'[o] = [tools[o] EXCEPT !.fresh = FALSE],
         ToolOk(o), scene'.kind # "missing", UNCHANGED <<data, built>>,
         Pipeline!Fetching(o) /\ tools[o].at # "elevation" => mixed'
  PROVE  ToolOk(o)' /\ (Pipeline!Fetching(o)' <=> Pipeline!Fetching(o))
<1>1. /\ tools'[o].fresh = FALSE /\ tools'[o].at = tools[o].at
      /\ tools'[o].cmd = tools[o].cmd /\ tools'[o].job = tools[o].job
      /\ tools'[o].place = tools[o].place /\ tools'[o].copy = tools[o].copy
  BY StaleTool
<1>2. CopyOk(o)'
  BY <1>1 DEF ToolOk, CopyOk
<1>3. Pipeline!Fetching(o)' <=> Pipeline!Fetching(o)
  BY <1>1 DEF Pipeline!Fetching, Pipeline!Creating, Pipeline!At
<1>4. FetchOk(o)'
  BY <1>1, <1>3 DEF ToolOk, FetchOk
<1>5. BuildOk(o)'
  BY <1>1 DEF ToolOk, BuildOk
<1> QED
  BY <1>2, <1>3, <1>4, <1>5 DEF ToolOk

LEMMA SaveKeeps ==
  ASSUME PipelineInv, ~crossed, NEW t \in Tools, Pipeline!Save(t)
  PROVE  PipelineInv'
<1>1. /\ PipelineType /\ BuiltInv /\ CopyOk(t) /\ FetchOk(t) /\ ToolsInv
      /\ \A o \in Tools \ {t} : Apart(t, o)
  BY Holds DEF PipelineInv
<1>2. tools[t] \in Terminal /\ \A o \in Tools : tools[o] \in Terminal
  BY <1>1, ToolType
<1>3. /\ tools[t].at = "save" /\ scene' = tools[t].copy /\ UNCHANGED <<data, server, built>>
      /\ page' = [page EXCEPT !.fresh = FALSE]
      /\ crossed' = (crossed \/ ~tools[t].fresh)
      /\ mixed' = (mixed /\ tools[t].job # "create")
  BY DEF Pipeline!Save, Pipeline!At
<1>4. hand' = CASE tools[t].job = "create" -> Pipeline!NotEdited
                [] tools[t].job = "detect" -> [hand EXCEPT !.saved = @ /\ tools[t].cmd = "all"]
                [] OTHER -> hand
  BY DEF Pipeline!Save
<1>5. tools' = IF tools[t].cmd # "all" THEN [Pipeline!Stale EXCEPT ![t] = Pipeline!Idle]
               ELSE [Pipeline!Stale EXCEPT ![t].at =
                       IF tools[t].job = "detect" THEN "serve" ELSE "second"]
  BY DEF Pipeline!Save
<1>6. /\ tools[t].copy \in SceneRecords /\ tools[t].job # "none"
      /\ tools[t].job # "create" =>
           scene.kind # "missing" /\ (tools[t].fresh => OfPlace(tools[t].copy))
      /\ tools[t].job = "import" /\ tools[t].fresh => ByHand(tools[t].copy)
      /\ tools[t].job = "detect" /\ tools[t].fresh =>
           /\ tools[t].copy.cars = hand.cars /\ tools[t].copy.people = hand.people
           /\ tools[t].cmd = "all" /\ hand.saved => hand.cars \cup hand.autos = {}
  BY <1>1, <1>3 DEF CopyOk
<1>7. tools[t].job \in {"create", "import", "detect"}
  BY <1>2, <1>6 DEF Terminal, Jobs
<1>8. /\ tools' \in [Tools -> Terminal]
      /\ tools'[t].at \in {"idle", "serve", "second"}
      /\ \A o \in Tools \ {t} : tools'[o] = [tools[o] EXCEPT !.fresh = FALSE]
  <2> DEFINE stale == [tools[t] EXCEPT !.fresh = FALSE]
  <2>1. /\ Pipeline!Stale \in [Tools -> Terminal]
        /\ \A o \in Tools : Pipeline!Stale[o] = [tools[o] EXCEPT !.fresh = FALSE]
    BY <1>2 DEF Pipeline!Stale, Terminal
  <2>2. CASE tools[t].cmd # "all"
    <3>1. tools' = [Pipeline!Stale EXCEPT ![t] = Pipeline!Idle]
      BY <1>5, <2>2
    <3> QED
      BY <2>1, <3>1, IdleTerminal
  <2>3. CASE tools[t].cmd = "all"
    <3> DEFINE at == IF tools[t].job = "detect" THEN "serve" ELSE "second"
    <3> DEFINE next == [Pipeline!Stale[t] EXCEPT !.at = at]
    <3>1. at \in {"serve", "second"}
      OBVIOUS
    <3>2. tools' = [Pipeline!Stale EXCEPT ![t].at = at]
      BY <1>5, <2>3
    <3> HIDE DEF at
    <3>3. tools' = [Pipeline!Stale EXCEPT ![t] = next]
      BY <2>1, <3>2
    <3>4. next \in Terminal /\ next.at = at
      BY <2>1, <3>1 DEF Terminal, Stages
    <3> HIDE DEF next
    <3> QED
      BY <2>1, <3>1, <3>3, <3>4
  <2> QED
    BY <2>2, <2>3
<1>9. hand' \in [cars : SUBSET {1}, people : SUBSET {1}, autos : SUBSET {1}, saved : BOOLEAN]
  <2>1. CASE tools[t].job = "create"
    BY <1>4, <2>1 DEF Pipeline!NotEdited
  <2>2. CASE tools[t].job = "import"
    BY <1>1, <1>4, <2>2 DEF PipelineType
  <2>3. CASE tools[t].job = "detect"
    <3> DEFINE still == hand.saved /\ tools[t].cmd = "all"
    <3>1. still \in BOOLEAN
      OBVIOUS
    <3>2. hand' = [hand EXCEPT !.saved = still]
      BY <1>4, <2>3
    <3> HIDE DEF still
    <3> QED
      BY <1>1, <3>1, <3>2 DEF PipelineType
  <2> QED
    BY <1>7, <2>1, <2>2, <2>3
<1>10. PipelineType'
  <2>1. mixed' \in BOOLEAN /\ crossed' \in BOOLEAN
    BY <1>3, Zenon
  <2>2. page' \in [copy : SceneRecords \cup {Pipeline!NoFile}, fresh : BOOLEAN, edits : Nat]
    BY <1>1, <1>3 DEF PipelineType
  <2>3. scene' \in Files
    BY <1>3, <1>6 DEF Files
  <2> QED
    BY <1>1, <1>3, <1>8, <1>9, <2>1, <2>2, <2>3 DEF PipelineType
<1> SUFFICES ASSUME ~crossed' PROVE SceneInv' /\ PageInv' /\ ToolsInv' /\ BuiltInv'
  BY <1>10 DEF PipelineInv
<1>11. tools[t].fresh
  BY <1>3
<1>12. tools[t].job = "create" =>
         /\ Pipeline!Fetching(t) /\ tools[t].place \in Pipeline!Places
         /\ data.elevation = tools[t].place /\ data.imagery = tools[t].place
         /\ tools[t].copy = Pipeline!SceneOf(tools[t].place, {}, {}, {})
  BY <1>1, <1>3 DEF FetchOk, Pipeline!Fetching, Pipeline!At
<1>13. ByHand(scene)'
  <2>1. CASE tools[t].job = "create"
    <3>1. scene'.cars = {} /\ scene'.people = {}
      BY <1>3, <1>12, <2>1, NewScene
    <3>2. hand' = Pipeline!NotEdited
      BY <1>4, <2>1
    <3> QED
      BY <3>1, <3>2 DEF ByHand, Pipeline!NotEdited
  <2>2. CASE tools[t].job = "import"
    <3>1. hand' = hand
      BY <1>4, <2>2
    <3> QED
      BY <1>3, <1>6, <1>11, <2>2, <3>1 DEF ByHand
  <2>3. CASE tools[t].job = "detect"
    <3> DEFINE still == hand.saved /\ tools[t].cmd = "all"
    <3>1. hand' = [hand EXCEPT !.saved = still]
      BY <1>4, <2>3
    <3>2. still => hand.cars \cup hand.autos = {}
      BY <1>6, <1>11, <2>3
    <3> HIDE DEF still
    <3>3. /\ hand'.cars = hand.cars /\ hand'.people = hand.people /\ hand'.autos = hand.autos
          /\ hand'.saved = still
      BY <1>1, <3>1 DEF PipelineType
    <3> QED
      BY <1>3, <1>6, <1>11, <2>3, <3>2, <3>3 DEF ByHand
  <2> QED
    BY <1>7, <2>1, <2>2, <2>3
<1>14. OfPlace(scene)'
  <2>1. CASE tools[t].job = "create"
    <3>1. scene'.place = tools[t].place
      BY <1>3, <1>12, <2>1, NewScene
    <3> QED
      BY <1>3, <1>12, <2>1, <3>1 DEF OfPlace
  <2>2. CASE tools[t].job # "create"
    BY <1>3, <1>6, <1>11, <2>2 DEF OfPlace
  <2> QED
    BY <2>1, <2>2
<1>15. scene'.kind = "scene"
  BY <1>3, <1>6, Kinds
<1>16. PageInv'
  <2>1. page'.fresh = FALSE
    BY <1>1, <1>3 DEF PipelineType
  <2> QED
    BY <1>15, <2>1 DEF PageInv
<1>17. ASSUME NEW o \in Tools \ {t} PROVE ToolOk(o)' /\ (Pipeline!Fetching(o)' <=> Pipeline!Fetching(o))
  <2>1. Pipeline!Fetching(o) /\ tools[o].at # "elevation" => mixed'
    <3> SUFFICES ASSUME Pipeline!Fetching(o), tools[o].at # "elevation" PROVE mixed'
      OBVIOUS
    <3>1. tools[t].job # "create"
      BY <1>1, <1>12 DEF Apart
    <3>2. scene.kind # "missing"
      BY <1>6, <3>1
    <3>3. FetchOk(o)
      BY <1>1 DEF ToolsInv, ToolOk
    <3>4. mixed
      BY <3>2, <3>3 DEF FetchOk
    <3> QED
      BY <1>3, <3>1, <3>4
  <2> QED
    BY <1>1, <1>2, <1>3, <1>8, <1>15, <2>1, StaleKeeps DEF ToolsInv
<1>18. ToolOk(t)' /\ \A o \in Tools : Apart(t, o)'
  BY <1>8, Harmless
<1>19. ASSUME NEW o \in Tools, NEW u \in Tools, o # u PROVE Apart(o, u)'
  <2>1. CASE o = t \/ u = t
    BY <1>18, <2>1 DEF Apart
  <2>2. CASE o # t /\ u # t
    <3>1. Apart(o, u)
      BY <1>1, <1>19 DEF ToolsInv
    <3>2. tools'[o].at = tools[o].at /\ tools'[u].at = tools[u].at
      BY <1>2, <1>8, <2>2, StaleTool
    <3> QED
      BY <1>17, <2>2, <3>1, <3>2 DEF Apart
  <2> QED
    BY <2>1, <2>2
<1>20. BuiltInv'
  BY <1>1, <1>3 DEF BuiltInv
<1> QED
  BY <1>13, <1>14, <1>16, <1>17, <1>18, <1>19, <1>20 DEF SceneInv, ToolsInv

-----------------------------------------------------------------------------
(* The page.                                                               *)
(* The page changes, and nothing else.                                     *)
LEMMA PageMoves ==
  ASSUME PipelineInv, ~crossed,
         UNCHANGED <<scene, data, tools, server, built, hand, crossed, mixed>>,
         page' \in [copy : SceneRecords \cup {Pipeline!NoFile}, fresh : BOOLEAN, edits : Nat],
         PageInv'
  PROVE  PipelineInv'
<1>1. PipelineType /\ SceneInv /\ ToolsInv /\ BuiltInv
  BY DEF PipelineInv
<1>2. mixed' \in BOOLEAN
  <2>1. mixed \in BOOLEAN
    BY <1>1 DEF PipelineType
  <2> QED
    BY <2>1, Zenon
<1>3. PipelineType'
  BY <1>1, <1>2, Flag DEF PipelineType
<1>4. SceneInv' /\ BuiltInv'
  BY <1>1 DEF SceneInv, ByHand, OfPlace, BuiltInv
<1>5. ToolsInv'
  <2>1. \A o \in Tools : ToolOk(o)'
    <3> TAKE o \in Tools
    <3>1. ToolOk(o) /\ tools'[o] = tools[o]
      BY <1>1 DEF ToolsInv
    <3> QED
      BY <3>1, OthersStay DEF ToolOk
  <2>2. \A o, u \in Tools : o # u => Apart(o, u)'
    BY <1>1, OthersStay DEF ToolsInv, Apart
  <2> QED
    BY <2>1, <2>2 DEF ToolsInv
<1> QED
  BY <1>3, <1>4, <1>5 DEF PipelineInv

LEMMA PageOpensKeeps ==
  ASSUME PipelineInv, ~crossed, Pipeline!PageOpens
  PROVE  PipelineInv'
<1>1. PipelineType /\ SceneInv /\ PageInv /\ ToolsInv /\ BuiltInv
  BY DEF PipelineInv
<1>2. /\ scene.kind = "scene" /\ page' = [page EXCEPT !.copy = scene, !.fresh = TRUE]
      /\ UNCHANGED <<scene, data, tools, server, built, hand, crossed, mixed>>
  BY DEF Pipeline!PageOpens, Pipeline!Readable
<1>3. scene \in SceneRecords /\ OfPlace(scene)
  BY <1>1, <1>2, Kinds DEF PipelineType, SceneInv
<1>4. /\ page' \in [copy : SceneRecords \cup {Pipeline!NoFile}, fresh : BOOLEAN, edits : Nat]
      /\ page'.copy = scene
  BY <1>1, <1>2, <1>3 DEF PipelineType
<1>5. PageInv'
  BY <1>2, <1>3, <1>4 DEF PageInv, OfPlace
<1> QED
  BY <1>1, <1>2, <1>4, <1>5, PageMoves

LEMMA PageEditsKeeps ==
  ASSUME PipelineInv, ~crossed, Pipeline!PageEdits
  PROVE  PipelineInv'
<1>1. PipelineType /\ SceneInv /\ PageInv /\ ToolsInv /\ BuiltInv
  BY DEF PipelineInv
<1>2. /\ page.copy # Pipeline!NoFile
      /\ UNCHANGED <<scene, data, tools, server, built, hand, crossed, mixed>>
  BY DEF Pipeline!PageEdits
<1>3. page.copy \in SceneRecords
  BY <1>1, <1>2 DEF PipelineType
<1>4. PICK copy \in {[page.copy EXCEPT !.cars = {1} \ @], [page.copy EXCEPT !.people = {1} \ @],
                     [page.copy EXCEPT !.autos = {}]} :
        page' = [page EXCEPT !.copy = copy, !.edits = @ + 1]
  BY DEF Pipeline!PageEdits
<1>5. copy \in SceneRecords /\ copy.place = page.copy.place
  <2>1. \A hands \in SUBSET {1} :
          /\ [page.copy EXCEPT !.cars = hands] \in SceneRecords
          /\ [page.copy EXCEPT !.people = hands] \in SceneRecords
          /\ [page.copy EXCEPT !.autos = hands] \in SceneRecords
          /\ [page.copy EXCEPT !.cars = hands].place = page.copy.place
          /\ [page.copy EXCEPT !.people = hands].place = page.copy.place
          /\ [page.copy EXCEPT !.autos = hands].place = page.copy.place
    BY <1>3 DEF SceneRecords
  <2> QED
    BY <1>4, <2>1
<1>6. /\ page' \in [copy : SceneRecords \cup {Pipeline!NoFile}, fresh : BOOLEAN, edits : Nat]
      /\ page'.copy = copy /\ page'.fresh = page.fresh
  <2> DEFINE edits == page.edits + 1
  <2>1. edits \in Nat
    BY <1>1 DEF PipelineType
  <2>2. page' = [page EXCEPT !.copy = copy, !.edits = edits]
    BY <1>4
  <2> HIDE DEF edits
  <2> QED
    BY <1>1, <1>5, <2>1, <2>2 DEF PipelineType
<1>7. PageInv'
  BY <1>1, <1>2, <1>5, <1>6 DEF PageInv, OfPlace
<1> QED
  BY <1>1, <1>2, <1>6, <1>7, PageMoves

LEMMA PageSavesKeeps ==
  ASSUME PipelineInv, ~crossed, Pipeline!PageSaves
  PROVE  PipelineInv'
<1>1. PipelineType /\ SceneInv /\ PageInv /\ ToolsInv /\ BuiltInv
  BY DEF PipelineInv
<1>2. /\ page.copy # Pipeline!NoFile /\ scene' = page.copy /\ tools' = Pipeline!Stale
      /\ page' = [page EXCEPT !.fresh = TRUE]
      /\ hand' = [cars |-> page.copy.cars, people |-> page.copy.people,
                  autos |-> page.copy.autos, saved |-> TRUE]
      /\ crossed' = (crossed \/ ~page.fresh)
      /\ UNCHANGED <<data, server, built, mixed>>
  BY DEF Pipeline!PageSaves
<1>3. page.copy \in SceneRecords /\ page.copy \in Files /\ scene.kind # "missing"
  BY <1>1, <1>2 DEF PipelineType, PageInv, Files
<1>4. \A o \in Tools : tools[o] \in Terminal /\ tools'[o] = [tools[o] EXCEPT !.fresh = FALSE]
  BY <1>1, <1>2, ToolType DEF Pipeline!Stale
<1>5. tools' \in [Tools -> Terminal]
  <2>1. \A o \in Tools : [tools[o] EXCEPT !.fresh = FALSE] \in Terminal
    BY <1>4 DEF Terminal
  <2> QED
    BY <1>2, <2>1 DEF Pipeline!Stale
<1>6. /\ page' \in [copy : SceneRecords \cup {Pipeline!NoFile}, fresh : BOOLEAN, edits : Nat]
      /\ page'.copy = page.copy
  BY <1>1, <1>2 DEF PipelineType
<1>7. hand' \in [cars : SUBSET {1}, people : SUBSET {1}, autos : SUBSET {1}, saved : BOOLEAN]
  BY <1>2, <1>3 DEF SceneRecords
<1>8. mixed' \in BOOLEAN /\ crossed' \in BOOLEAN
  <2>1. mixed \in BOOLEAN
    BY <1>1 DEF PipelineType
  <2> QED
    BY <1>2, <2>1, Zenon
<1>9. PipelineType'
  BY <1>1, <1>2, <1>3, <1>5, <1>6, <1>7, <1>8 DEF PipelineType
<1> SUFFICES ASSUME ~crossed' PROVE SceneInv' /\ PageInv' /\ ToolsInv' /\ BuiltInv'
  BY <1>9 DEF PipelineInv
<1>10. OfPlace(page.copy)
  BY <1>1, <1>2 DEF PageInv
<1>11. scene'.kind = "scene"
  BY <1>2, <1>3, Kinds
<1>12. SceneInv'
  <2>1. ByHand(scene)'
    BY <1>2 DEF ByHand
  <2>2. OfPlace(scene)'
    BY <1>2, <1>10 DEF OfPlace
  <2> QED
    BY <2>1, <2>2 DEF SceneInv
<1>13. PageInv'
  BY <1>2, <1>6, <1>10, <1>11 DEF PageInv, OfPlace
<1>14. ASSUME NEW o \in Tools PROVE ToolOk(o)' /\ (Pipeline!Fetching(o)' <=> Pipeline!Fetching(o))
  <2>1. Pipeline!Fetching(o) /\ tools[o].at # "elevation" => mixed
    BY <1>1, <1>3 DEF ToolsInv, ToolOk, FetchOk
  <2> QED
    BY <1>1, <1>2, <1>4, <1>11, <2>1, StaleKeeps DEF ToolsInv
<1>15. ASSUME NEW o \in Tools, NEW u \in Tools, o # u PROVE Apart(o, u)'
  <2>1. Apart(o, u)
    BY <1>1, <1>15 DEF ToolsInv
  <2>2. tools'[o].at = tools[o].at /\ tools'[u].at = tools[u].at
    BY <1>4, StaleTool
  <2> QED
    BY <1>14, <2>1, <2>2 DEF Apart
<1>16. BuiltInv'
  BY <1>1, <1>2 DEF BuiltInv
<1> QED
  BY <1>12, <1>13, <1>14, <1>15, <1>16 DEF ToolsInv

-----------------------------------------------------------------------------
(* A command is killed, and what it saves may be cut off.                  *)
LEMMA CommandKilledKeeps ==
  ASSUME PipelineInv, ~crossed, NEW t \in Tools, Pipeline!Killed(t)
  PROVE  PipelineInv'
<1>1. /\ PipelineType /\ SceneInv /\ PageInv /\ ToolsInv /\ BuiltInv
      /\ \A o \in Tools \ {t} : Apart(t, o)
  BY Holds DEF PipelineInv
<1>2. /\ Pipeline!Ends(t) /\ UNCHANGED <<data, page, built, hand, crossed, mixed>>
      /\ server' = IF server = t THEN Pipeline!Nobody ELSE server
      /\ \/ scene' = scene
         \/ tools[t].at = "save" /\ scene' = Pipeline!CutFile
  BY DEF Pipeline!Killed, Pipeline!At
<1>3. server' \in Tools \cup {Pipeline!Nobody}
  BY <1>1, <1>2 DEF PipelineType
<1>4. CASE scene' = scene
  BY <1>2, <1>3, <1>4, EndKeeps
<1>5. CASE tools[t].at = "save" /\ scene' = Pipeline!CutFile
  <2>1. /\ tools' \in [Tools -> Terminal] /\ tools'[t] = Pipeline!Idle
        /\ \A o \in Tools \ {t} : tools'[o] = tools[o]
    BY <1>1, <1>2, IdleTerminal, OneMoves DEF Pipeline!Ends
  <2>2. mixed' \in BOOLEAN
    <3>1. mixed \in BOOLEAN
      BY <1>1 DEF PipelineType
    <3> QED
      BY <1>2, <3>1, Zenon
  <2>3. PipelineType'
    BY <1>1, <1>2, <1>3, <1>5, <2>1, <2>2, Flag DEF PipelineType, Files
  <2>4. scene'.kind = "cut"
    BY <1>5, Kinds
  <2>5. SceneInv'
    BY <2>4 DEF SceneInv
  <2>6. PageInv'
    BY <1>1, <1>2, <2>4 DEF PageInv, OfPlace
  <2>7. ASSUME NEW o \in Tools \ {t} PROVE ToolOk(o)'
    <3>1. tools'[o] = tools[o] /\ CopyOk(o) /\ FetchOk(o) /\ BuildOk(o)
      BY <1>1, <2>1 DEF ToolsInv, ToolOk
    <3>2. Pipeline!Fetching(o)' <=> Pipeline!Fetching(o)
      BY <3>1, OthersStay
    <3>3. CopyOk(o)'
      BY <1>2, <2>4, <3>1 DEF CopyOk, ByHand, OfPlace
    <3>4. Pipeline!Fetching(o) => scene.kind # "missing"
      <4>1. Pipeline!Fetching(o) => tools[t].job # "create"
        BY <1>1, <1>5 DEF Apart, Pipeline!Fetching, Pipeline!At
      <4>2. CopyOk(t)
        BY <1>1 DEF ToolsInv, ToolOk
      <4> QED
        BY <1>5, <4>1, <4>2 DEF CopyOk
    <3>5. FetchOk(o)'
      BY <1>2, <3>1, <3>2, <3>4 DEF FetchOk
    <3> QED
      BY <1>2, <3>1, <3>3, <3>5 DEF ToolOk, BuildOk
  <2>8. ToolOk(t)' /\ \A o \in Tools : Apart(t, o)'
    BY <2>1, IdleTerminal, Harmless
  <2>9. ASSUME NEW o \in Tools, NEW u \in Tools, o # u PROVE Apart(o, u)'
    <3>1. CASE o = t \/ u = t
      BY <2>8, <3>1 DEF Apart
    <3>2. CASE o # t /\ u # t
      <4>1. Apart(o, u)
        BY <1>1, <2>9 DEF ToolsInv
      <4> QED
        BY <2>1, <3>2, <4>1, OthersStay DEF Apart
    <3> QED
      BY <3>1, <3>2
  <2>10. BuiltInv'
    BY <1>1, <1>2 DEF BuiltInv
  <2> QED
    BY <2>3, <2>5, <2>6, <2>7, <2>8, <2>9, <2>10 DEF PipelineInv, ToolsInv
<1> QED
  BY <1>2, <1>4, <1>5

LEMMA PipelineKeeps == PipelineInv /\ Pipeline!PipelineNext => PipelineInv'
<1> SUFFICES ASSUME PipelineInv, Pipeline!PipelineNext PROVE PipelineInv'
  OBVIOUS
<1>1. ~crossed
  BY DEF Pipeline!PipelineNext
<1>2. ASSUME NEW t \in Tools,
             \/ Pipeline!Start(t) \/ Pipeline!Fails(t) \/ Pipeline!Elevation(t)
             \/ Pipeline!Imagery(t) \/ Pipeline!Buildings(t) \/ Pipeline!Import(t)
      PROVE  PipelineInv'
  BY <1>1, <1>2, StartKeeps, FailsKeeps, ElevationKeeps, ImageryKeeps, BuildingsKeeps, ImportKeeps
<1>3. ASSUME NEW t \in Tools,
             \/ Pipeline!DetectLoads(t) \/ Pipeline!Detects(t) \/ Pipeline!Save(t)
             \/ Pipeline!Second(t) \/ Pipeline!Serve(t) \/ Pipeline!Interrupted(t)
             \/ Pipeline!World(t) \/ Pipeline!Scenario(t) \/ Pipeline!Killed(t)
      PROVE  PipelineInv'
  BY <1>1, <1>3, DetectLoadsKeeps, DetectsKeeps, SaveKeeps, SecondKeeps, ServeKeeps,
     InterruptedKeeps, WorldKeeps, ScenarioKeeps, CommandKilledKeeps
<1> QED
  BY <1>1, <1>2, <1>3, FinishKeeps, PageOpensKeeps, PageEditsKeeps, PageSavesKeeps
  DEF Pipeline!PipelineNext

LEMMA PipelineTold == PipelineInv => Pipeline!PipelineHolds
<1> SUFFICES ASSUME PipelineInv, ~crossed PROVE Pipeline!PipelineHolds
  BY DEF Pipeline!PipelineHolds, Pipeline!EditsKept, Pipeline!OnePlace, Pipeline!BuiltWhole
<1>1. SceneInv /\ BuiltInv /\ PipelineType
  BY DEF PipelineInv
<1>2. Pipeline!EditsKept
  BY <1>1 DEF SceneInv, ByHand, Pipeline!EditsKept, Pipeline!Readable
<1>3. Pipeline!OnePlace
  BY <1>1 DEF SceneInv, OfPlace, PipelineType, Pipeline!OnePlace, Pipeline!Readable
<1>4. Pipeline!BuiltWhole
  BY <1>1 DEF BuiltInv, Pipeline!BuiltWhole
<1> QED
  BY <1>2, <1>3, <1>4 DEF Pipeline!PipelineHolds

-----------------------------------------------------------------------------
(***************************************************************************)
(* What was built                                                          *)
(***************************************************************************)
LEMMA SameCardinality == \A S : World!Cardinality(S) = Cardinality(S)
BY DEF World!Cardinality, Cardinality

LEMMA Least ==
  ASSUME NEW S \in SUBSET Nat, S # {}
  PROVE  \E n \in S : \A m \in S : n <= m
<1>1. PICK n \in S : \A m \in S : ~ (<<m, n>> \in OpToRel(<, Nat))
  BY NatLessThanWellFounded, WFMin, Zenon
<1>2. \A m \in S : ~ (m < n)
  BY <1>1 DEF OpToRel
<1> QED
  BY <1>2

(* Sets of numbers with a bound have a least and a greatest one.           *)
LEMMA MinIs ==
  ASSUME NEW S \in SUBSET Nat, S # {}
  PROVE  World!Min(S) \in S /\ \A y \in S : World!Min(S) <= y
<1>1. \E x \in S : \A y \in S : x <= y
  BY Least
<1> QED
  BY <1>1 DEF World!Min

LEMMA MaxIs ==
  ASSUME NEW bound \in Nat, NEW S \in SUBSET (0 .. bound), S # {}
  PROVE  World!Max(S) \in S /\ \A y \in S : World!Max(S) >= y
<1> DEFINE Rest == {bound - x : x \in S}
<1>1. Rest \in SUBSET Nat /\ Rest # {}
  <2>1. \A x \in S : bound - x \in Nat
    OBVIOUS
  <2>2. Rest # {}
    OBVIOUS
  <2> QED
    BY <2>1, <2>2
<1>2. PICK n \in Rest : \A m \in Rest : n <= m
  <2> HIDE DEF Rest
  <2> QED
    BY <1>1, Least
<1>3. PICK x \in S : n = bound - x
  OBVIOUS
<1>4. \A y \in S : x >= y
  <2> TAKE y \in S
  <2>1. bound - y \in Rest /\ x \in Nat /\ y \in Nat
    OBVIOUS
  <2>2. bound - x <= bound - y
    BY <1>2, <1>3, <2>1
  <2> QED
    BY <2>1, <2>2
<1> QED
  BY <1>3, <1>4 DEF World!Max

-----------------------------------------------------------------------------
(* The forest of the buildings that are merged.                            *)
LEMMA Three == World!Cardinality(World!Buildings) = 3
<1>1. Cardinality(1 .. 3) = 3
  <2>1. 1 \in Int /\ 3 \in Int /\ 3 - 1 + 1 = 3 /\ ~ (1 > 3)
    OBVIOUS
  <2> QED
    BY <2>1, FS_Interval
<1> QED
  BY <1>1, SameCardinality DEF World!Buildings

Steps(parent, b, climb) ==
  climb = [n \in 0 .. 3 |-> IF n = 0 THEN b ELSE parent[climb[n - 1]]]
LEMMA RootIs ==
  ASSUME NEW b
  PROVE  World!Root(b) = merge.parent[merge.parent[merge.parent[b]]]
<1> DEFINE p == merge.parent
           climb == CHOOSE c : Steps(p, b, c)
           up == [n \in 0 .. 3 |->
                    IF n = 0 THEN b ELSE IF n = 1 THEN p[b] ELSE IF n = 2 THEN p[p[b]] ELSE p[p[p[b]]]]
<1>1. Steps(p, b, up)
  <2> HIDE DEF p
  <2>1. up[0] = b /\ up[1] = p[b] /\ up[2] = p[p[b]] /\ up[3] = p[p[p[b]]]
    OBVIOUS
  <2>2. \A n \in 0 .. 3 : up[n] = IF n = 0 THEN b ELSE p[up[n - 1]]
    <3> TAKE n \in 0 .. 3
    <3>1. n = 0 \/ n = 1 \/ n = 2 \/ n = 3
      OBVIOUS
    <3> HIDE DEF up
    <3> QED
      BY <2>1, <3>1
  <2>3. up = [n \in 0 .. 3 |-> up[n]]
    OBVIOUS
  <2> HIDE DEF up
  <2> QED
    BY <2>2, <2>3 DEF Steps
<1>2. Steps(p, b, climb)
  <2> HIDE DEF p, up
  <2> QED
    BY <1>1
<1>3. climb[3] = p[p[p[b]]]
  <2> HIDE DEF climb, p
  <2>1. climb[0] = b /\ climb[1] = p[climb[0]] /\ climb[2] = p[climb[1]] /\ climb[3] = p[climb[2]]
    <3>1. \A n \in 0 .. 3 : climb[n] = IF n = 0 THEN b ELSE p[climb[n - 1]]
      BY <1>2 DEF Steps
    <3>2. 0 \in 0 .. 3 /\ 1 \in 0 .. 3 /\ 2 \in 0 .. 3 /\ 3 \in 0 .. 3
      OBVIOUS
    <3> QED
      BY <3>1, <3>2
  <2> QED
    BY <2>1
<1>4. World!Root(b) = climb[3]
  BY Three DEF World!Root, Steps
<1> QED
  BY <1>3, <1>4

Up(p, b) == p[p[p[b]]]
Forest(D, p) ==
  D \subseteq 1 .. 3 /\ p \in [D -> D] /\ \A b \in D : p[Up(p, b)] = Up(p, b)
Hung(D, p, x, y, q) ==
  /\ x \in D /\ y \in D /\ p[x] = x /\ p[y] = y
  /\ q \in [D -> D] /\ q[x] = y /\ \A b \in D : b # x => q[b] = p[b]
LEMMA Unite ==
  ASSUME NEW D, NEW p, NEW x, NEW y, NEW q, Forest(D, p), Hung(D, p, x, y, q)
  PROVE  \A b \in D : /\ Up(p, b) = x => Up(q, b) = y
                      /\ Up(p, b) # x => Up(q, b) = Up(p, b)
                      /\ q[Up(q, b)] = Up(q, b)
<1>0. /\ D \subseteq 1 .. 3 /\ p \in [D -> D] /\ \A b \in D : p[Up(p, b)] = Up(p, b)
      /\ x \in D /\ y \in D /\ p[x] = x /\ p[y] = y
  BY DEF Forest, Hung
<1>1. \A b \in D : q[b] = IF b = x THEN y ELSE p[b]
  BY DEF Hung
<1>2. ASSUME NEW b \in D
      PROVE  /\ Up(p, b) = x => Up(q, b) = y
             /\ Up(p, b) # x => Up(q, b) = Up(p, b)
             /\ q[Up(q, b)] = Up(q, b)
  <2>1. /\ p[b] \in D /\ p[p[b]] \in D /\ p[p[p[b]]] \in D
        /\ b \in 1 .. 3 /\ p[b] \in 1 .. 3 /\ p[p[b]] \in 1 .. 3 /\ x \in 1 .. 3 /\ y \in 1 .. 3
    BY <1>0
  <2>2. p[p[p[p[b]]]] = p[p[p[b]]]
    BY <1>0 DEF Up
  <2>3. ASSUME p[p[p[b]]] = x PROVE Up(q, b) = y /\ q[y] = y
    <3>1. q[x] = y /\ q[y] = y
      BY <1>0, <1>1
    <3>2. CASE x = y
      <4>1. q[b] = p[b] /\ q[p[b]] = p[p[b]] /\ q[p[p[b]]] = p[p[p[b]]]
        BY <1>0, <1>1, <2>1, <3>2
      <4> QED
        BY <2>3, <3>1, <3>2, <4>1 DEF Up
    <3>3. CASE x # y
      <4>1. b # y /\ p[b] # y /\ p[p[b]] # y
        BY <1>0, <2>3, <3>3
      <4>2. b = x \/ p[b] = x
        <5> SUFFICES ASSUME b # x, p[b] # x PROVE FALSE
          OBVIOUS
        <5>1. p[b] = b
          BY <2>1, <3>3, <4>1
        <5> QED
          BY <2>3, <5>1
      <4>3. CASE b = x
        BY <1>1, <2>3, <3>1, <4>3 DEF Up
      <4>4. CASE b # x /\ p[b] = x
        BY <1>1, <2>1, <2>3, <3>1, <4>4 DEF Up
      <4> QED
        BY <4>2, <4>3, <4>4
    <3> QED
      BY <3>1, <3>2, <3>3
  <2>4. ASSUME p[p[p[b]]] # x PROVE Up(q, b) = Up(p, b) /\ q[Up(q, b)] = Up(q, b)
    <3>1. b # x /\ p[b] # x /\ p[p[b]] # x
      BY <1>0, <2>4
    <3> QED
      BY <1>1, <2>1, <2>2, <2>4, <3>1 DEF Up
  <2> QED
    BY <2>3, <2>4 DEF Up
<1> QED
  BY <1>2

LEMMA Wide == Width \in Nat /\ Width >= 2 /\ Height \in Nat /\ Height = Width + 5
BY ScenesAssumption DEF Height

LEMMA FormsAre ==
  \A form \in World!Forms : form.height \in 1 .. 3 /\ form.levels \subseteq 0 .. 4
<1> TAKE form \in World!Forms
<1>1. CASE form = [extruded |-> TRUE, height |-> 1, levels |-> {}, model |-> FALSE]
  BY <1>1
<1>2. CASE form = [extruded |-> TRUE, height |-> 3, levels |-> {}, model |-> FALSE]
  BY <1>2
<1>3. CASE form = [extruded |-> TRUE, height |-> 1, levels |-> {2, 4}, model |-> FALSE]
  BY <1>3
<1>4. CASE form = [extruded |-> FALSE, height |-> 1, levels |-> {3}, model |-> FALSE]
  BY <1>4
<1>5. CASE form = [extruded |-> TRUE, height |-> 2, levels |-> {}, model |-> TRUE]
  BY <1>5
<1> QED
  BY <1>1, <1>2, <1>3, <1>4, <1>5, Zenon DEF World!Forms

LEMMA FootprintsAre == \A cells \in World!Footprints \cup {World!Interval(2, 3), World!Interval(1, 2)} :
                         cells \subseteq 0 .. Width + 1
BY Wide DEF World!Footprints, World!Interval

LEMMA Words == "casualty" \in Word /\ "a" \in Word /\ \A n \in Nat : n \in Word
BY Zenon DEF Word

LEMMA TargetsAre == \A name \in World!TargetNames \cup {<<"a">>} : name \in Seq(Word) /\ name # <<>>
<1>1. "casualty" \in Word /\ "a" \in Word /\ 2 \in Word
  BY Words
<1>2. <<"casualty", "a">> \in Seq(Word) /\ <<"a">> \in Seq(Word) /\ <<"casualty", "a", 2>> \in Seq(Word)
  BY <1>1
<1>3. <<"casualty", "a">> # <<>> /\ <<"a">> # <<>> /\ <<"casualty", "a", 2>> # <<>>
  OBVIOUS
<1> QED
  BY <1>2, <1>3, Zenon DEF World!TargetNames

LEMMA BuildStarts == World!BuildInit => BuildInv
<1> SUFFICES ASSUME World!BuildInit PROVE BuildInv
  OBVIOUS
<1>1. PICK ground \in World!Grounds :
        \/ \E one \in [cells : World!Footprints, form : World!Forms],
              two \in [cells : World!Footprints, form : World!Forms],
              three \in {[cells |-> World!Interval(2, 3), form |-> form] : form \in World!Forms} :
             layout = [ground |-> ground, buildings |-> <<one, two, three>>,
                       targets |-> <<<<"a">>>>]
        \/ \E targets \in [1 .. 3 -> World!TargetNames] :
             layout = [ground |-> ground,
                       buildings |-> [b \in World!Buildings |->
                                        [cells |-> World!Interval(1, 2), form |-> World!Box]],
                       targets |-> targets]
  BY DEF World!BuildInit
<1>2. ground \in [0 .. Width + 1 -> 0 .. Width + 1]
  <2>1. World!Cells = 0 .. Width + 1
    BY DEF World!Cells
  <2>2. CASE ground = [c \in 0 .. Width + 1 |-> 0]
    BY <2>2, Wide
  <2>3. CASE ground = [c \in 0 .. Width + 1 |-> IF c = 2 THEN 1 ELSE c]
    BY <2>3, Wide
  <2> QED
    BY <1>1, <2>1, <2>2, <2>3 DEF World!Grounds
<1>3. LayoutType
  <2>1. CASE \E one \in [cells : World!Footprints, form : World!Forms],
                two \in [cells : World!Footprints, form : World!Forms],
                three \in {[cells |-> World!Interval(2, 3), form |-> form] : form \in World!Forms} :
               layout = [ground |-> ground, buildings |-> <<one, two, three>>,
                         targets |-> <<<<"a">>>>]
    <3>1. PICK one \in [cells : World!Footprints, form : World!Forms],
               two \in [cells : World!Footprints, form : World!Forms],
               three \in {[cells |-> World!Interval(2, 3), form |-> form] : form \in World!Forms} :
            layout = [ground |-> ground, buildings |-> <<one, two, three>>,
                      targets |-> <<<<"a">>>>]
      BY <2>1
    <3>2. /\ one.form \in World!Forms /\ one.cells \in World!Footprints
          /\ two.form \in World!Forms /\ two.cells \in World!Footprints
          /\ three.form \in World!Forms /\ three.cells = World!Interval(2, 3)
      OBVIOUS
    <3>3. one.cells \subseteq 0 .. Width + 1 /\ two.cells \subseteq 0 .. Width + 1
          /\ three.cells \subseteq 0 .. Width + 1
      BY <3>2, FootprintsAre, Zenon
    <3>4. layout.buildings[1] = one /\ layout.buildings[2] = two /\ layout.buildings[3] = three
      BY <3>1
    <3>5. \A b \in 1 .. 3 : /\ layout.buildings[b].form \in World!Forms
                            /\ layout.buildings[b].cells \subseteq 0 .. Width + 1
      <4> TAKE b \in 1 .. 3
      <4>1. b = 1 \/ b = 2 \/ b = 3
        OBVIOUS
      <4> QED
        BY <3>2, <3>3, <3>4, <4>1, Zenon
    <3>6. /\ layout.targets \in Seq(Seq(Word))
          /\ \A i \in 1 .. Len(layout.targets) : layout.targets[i] # <<>>
      <4>1. layout.targets = <<<<"a">>>>
        BY <3>1
      <4> DEFINE name == <<"a">>
      <4>2. name \in Seq(Word) /\ name # <<>>
        BY Words
      <4> HIDE DEF name
      <4>3. <<name>> \in Seq(Seq(Word)) /\ Len(<<name>>) = 1 /\ <<name>>[1] = name
        BY <4>2
      <4>4. \A i \in 1 .. 1 : i = 1
        OBVIOUS
      <4>5. layout.targets = <<name>>
        BY <4>1 DEF name
      <4> QED
        BY <4>2, <4>3, <4>4, <4>5, Zenon
    <3>7. layout.ground = ground
      BY <3>1
    <3> QED
      BY <1>2, <3>5, <3>6, <3>7 DEF LayoutType
  <2>2. CASE \E targets \in [1 .. 3 -> World!TargetNames] :
               layout = [ground |-> ground,
                         buildings |-> [b \in World!Buildings |->
                                          [cells |-> World!Interval(1, 2), form |-> World!Box]],
                         targets |-> targets]
    <3>1. PICK targets \in [1 .. 3 -> World!TargetNames] :
            layout = [ground |-> ground,
                      buildings |-> [b \in World!Buildings |->
                                       [cells |-> World!Interval(1, 2), form |-> World!Box]],
                      targets |-> targets]
      BY <2>2
    <3>2. layout.ground = ground /\ layout.targets = targets
          /\ \A b \in 1 .. 3 : layout.buildings[b] = [cells |-> World!Interval(1, 2), form |-> World!Box]
      BY <3>1 DEF World!Buildings
    <3>3. World!Box \in World!Forms
      <4> DEFINE plain == [extruded |-> TRUE, height |-> 1, levels |-> {}, model |-> FALSE]
      <4>1. plain \in World!Forms
        BY Zenon DEF World!Forms
      <4>2. plain.height = 1 /\ plain.extruded /\ plain.levels = {}
        OBVIOUS
      <4> HIDE DEF plain
      <4> QED
        BY <4>1, <4>2, Zenon DEF World!Box
    <3>4. World!Interval(1, 2) \subseteq 0 .. Width + 1
      BY FootprintsAre, Zenon
    <3>5. \A i \in 1 .. 3 : targets[i] \in Seq(Word) /\ targets[i] # <<>>
      BY TargetsAre
    <3>6. targets \in Seq(Seq(Word)) /\ Len(targets) = 3
      <4>1. targets \in [1 .. 3 -> Seq(Word)]
        BY <3>5
      <4> QED
        BY <4>1
    <3> QED
      BY <1>2, <3>2, <3>3, <3>4, <3>5, <3>6 DEF LayoutType
  <2> QED
    BY <1>1, <2>1, <2>2
<1>4. NamesInv
  <2>1. names = <<>>
    BY DEF World!BuildInit
  <2>2. Len(layout.targets) \in Nat
    BY <1>3 DEF LayoutType
  <2>3. names \in Seq(Seq(Word)) /\ Len(names) = 0
    BY <2>1
  <2> QED
    BY <2>2, <2>3 DEF NamesInv
<1> QED
  BY <1>3, <1>4 DEF BuildInv, World!BuildInit

LEMMA Roots == \A b : World!Root(b) = Up(merge.parent, b)
BY RootIs DEF Up

LEMMA RootsNext == (\A b : World!Root(b) = Up(merge.parent, b))'
BY Roots, PTL

LEMMA BaseIs ==
  ASSUME LayoutType, NEW cells \in SUBSET (1 .. Width), cells # {}
  PROVE  World!Min({World!Ground(c) : c \in World!Samples(cells)}) \in 0 .. Width + 1
<1> DEFINE heights == {World!Ground(c) : c \in World!Samples(cells)}
<1>1. World!Min(cells) \in cells /\ World!Max(cells) \in cells
  <2>1. cells \in SUBSET Nat /\ cells \in SUBSET (0 .. Width)
    BY Wide
  <2> QED
    BY <2>1, MinIs, MaxIs, Wide
<1>2. World!Samples(cells) \subseteq 0 .. Width + 1
  <2> DEFINE low == World!Min(cells)
             high == World!Max(cells)
  <2>1. low \in 1 .. Width /\ high \in 1 .. Width
    BY <1>1
  <2>2. World!Samples(cells) = {low, high, (low + high) \div 2}
    BY DEF World!Samples
  <2> HIDE DEF low, high
  <2>3. (low + high) \div 2 \in 1 .. Width
    BY <2>1, Wide
  <2> QED
    BY <2>1, <2>2, <2>3, Wide
<1>3. World!Min(cells) \in World!Samples(cells)
  BY DEF World!Samples
<1>4. \A c \in World!Samples(cells) : World!Ground(c) \in 0 .. Width + 1
  BY <1>2 DEF LayoutType, World!Ground
<1>5. heights \in SUBSET (0 .. Width + 1) /\ heights # {}
  BY <1>3, <1>4
<1> HIDE DEF heights
<1>6. heights \in SUBSET Nat
  BY <1>5, Wide
<1>7. World!Min(heights) \in 0 .. Width + 1
  BY <1>5, <1>6, MinIs
<1> QED
  BY <1>7 DEF heights

LEMMA PlaceKeeps == BuildInv /\ World!Place => BuildInv'
<1> SUFFICES ASSUME BuildInv, World!Place PROVE BuildInv'
  OBVIOUS
<1>1. LayoutType /\ NamesInv
  BY DEF BuildInv
<1>2. step = "place" /\ step' = "merge" /\ layout' = layout /\ names' = names
  BY DEF World!Place
<1>3. LayoutType' /\ NamesInv'
  BY <1>1, <1>2 DEF LayoutType, NamesInv
<1> DEFINE base(b) == World!Min({World!Ground(c) : c \in World!Samples(World!Clipped(b))})
           levels(b) == World!Levels(layout.buildings[b].form, base(b))
<1>4. /\ DOMAIN placed' = {b \in 1 .. 3 : World!Clipped(b) # {}}
      /\ \A b \in DOMAIN placed' :
           placed'[b].cells = World!Clipped(b) /\ placed'[b].levels = levels(b)
  BY DEF World!Place, World!Buildings
<1>5. ASSUME NEW b \in DOMAIN placed'
      PROVE  /\ placed'[b].cells \subseteq 1 .. Width
             /\ placed'[b].levels \subseteq 0 .. Height /\ placed'[b].levels # {}
  <2>1. b \in 1 .. 3 /\ World!Clipped(b) # {}
    BY <1>4
  <2>2. World!Clipped(b) \in SUBSET (1 .. Width)
    BY DEF World!Clipped, World!Square
  <2>3. base(b) \in 0 .. Width + 1
    BY <1>1, <2>1, <2>2, BaseIs
  <2> DEFINE form == layout.buildings[b].form
  <2>4. form.height \in 1 .. 3 /\ form.levels \subseteq 0 .. 4
    <3>1. form \in World!Forms
      BY <1>1, <2>1 DEF LayoutType
    <3> QED
      BY <3>1, FormsAre
  <2>5. levels(b) = IF form.levels # {} THEN form.levels ELSE {base(b) + form.height}
    BY DEF World!Levels
  <2> HIDE DEF form, base, levels
  <2>6. levels(b) \subseteq 0 .. Height /\ levels(b) # {}
    BY <2>3, <2>4, <2>5, Wide
  <2> QED
    BY <1>4, <2>2, <2>6
<1>6. PlacedType'
  BY <1>4, <1>5 DEF PlacedType
<1>7. /\ merge'.parent = [b \in Meshed' |-> b]
      /\ merge'.pairs = {p \in Meshed' \X Meshed' : p[1] < p[2]}
  BY DEF World!Place, Meshed
<1>8. \A b \in Meshed' : World!Root(b)' = b
  <2>1. \A b \in Meshed' : World!Root(b)' = Up(merge.parent, b)'
    BY RootsNext
  <2> QED
    BY <1>7, <2>1 DEF Up
<1>9. ForestType'
  <2>1. merge'.parent \in [Meshed' -> Meshed'] /\ merge'.pairs \subseteq Meshed' \X Meshed'
    BY <1>7
  <2> QED
    BY <1>7, <1>8, <2>1 DEF ForestType
<1>10. ComparedMerged'
  <2>1. \A a, b \in Meshed' : a < b => <<a, b>> \in merge'.pairs
    BY <1>7
  <2> QED
    BY <2>1 DEF ComparedMerged
<1>11. MergedOnly'
  BY <1>8 DEF MergedOnly
<1> QED
  BY <1>2, <1>3, <1>6, <1>9, <1>10, <1>11 DEF BuildInv, ForestInv

LEMMA FirstPairIs ==
  ASSUME PlacedType, ForestType, merge.pairs # {}
  PROVE  /\ World!FirstPair \in merge.pairs
         /\ World!FirstPair = <<World!FirstPair[1], World!FirstPair[2]>>
         /\ World!FirstPair[1] \in Meshed /\ World!FirstPair[2] \in Meshed
<1>1. Meshed \subseteq 1 .. 3
  BY DEF Meshed, PlacedType
<1>2. \A p \in merge.pairs : p[1] \in 1 .. 3 /\ p[2] \in 1 .. 3
  BY <1>1 DEF ForestType
<1> DEFINE Codes == {4 * p[1] + p[2] : p \in merge.pairs}
<1>3. PICK n \in Codes : \A m \in Codes : n <= m
  <2>1. Codes \in SUBSET Nat /\ Codes # {}
    BY <1>2
  <2> HIDE DEF Codes
  <2> QED
    BY <2>1, Least
<1>4. PICK p \in merge.pairs : n = 4 * p[1] + p[2]
  OBVIOUS
<1>5. \A q \in merge.pairs : p[1] < q[1] \/ (p[1] = q[1] /\ p[2] <= q[2])
  <2> TAKE q \in merge.pairs
  <2>1. 4 * q[1] + q[2] \in Codes
    OBVIOUS
  <2>2. 4 * p[1] + p[2] <= 4 * q[1] + q[2]
    BY <1>3, <1>4, <2>1
  <2> QED
    BY <1>2, <2>2
<1>6. World!FirstPair \in merge.pairs
  BY <1>5, Zenon DEF World!FirstPair
<1> QED
  BY <1>6 DEF ForestType

LEMMA CompareKeeps == BuildInv /\ World!Compare => BuildInv'
<1> SUFFICES ASSUME BuildInv, World!Compare PROVE BuildInv'
  OBVIOUS
<1> DEFINE a0 == World!FirstPair[1]
           b0 == World!FirstPair[2]
           joined == World!Merges(a0) /\ World!Merges(b0) /\ World!Overlap(a0, b0)
           x == World!Root(a0)
           y == World!Root(b0)
<1>1. step = "merge" /\ merge.pairs # {} /\ step' = step /\ UNCHANGED <<layout, placed, names>>
  BY DEF World!Compare
<1>2. LayoutType /\ NamesInv /\ PlacedType /\ ForestType /\ ComparedMerged /\ MergedOnly
  BY <1>1 DEF BuildInv, ForestInv
<1>3. LayoutType' /\ NamesInv' /\ PlacedType' /\ Meshed' = Meshed
  BY <1>1, <1>2 DEF LayoutType, NamesInv, PlacedType, Meshed
<1>4. /\ World!FirstPair \in merge.pairs /\ World!FirstPair = <<a0, b0>>
      /\ a0 \in Meshed /\ b0 \in Meshed
  BY <1>1, <1>2, FirstPairIs
<1>5. /\ merge'.parent = IF joined THEN [merge.parent EXCEPT ![x] = y] ELSE merge.parent
      /\ merge'.pairs = merge.pairs \ {<<a0, b0>>}
  BY <1>4 DEF World!Compare, World!United
<1> HIDE DEF a0, b0
<1>6. \A a, b : World!Merges(a)' = World!Merges(a) /\ World!Overlap(a, b)' = World!Overlap(a, b)
  BY <1>1 DEF World!Merges, World!Overlap
<1>7. \A b : World!Root(b) = Up(merge.parent, b) /\ World!Root(b)' = Up(merge'.parent, b)
  BY Roots, RootsNext
<1>8. /\ merge.parent \in [Meshed -> Meshed] /\ merge.pairs \subseteq Meshed \X Meshed
      /\ \A b \in Meshed : merge.parent[World!Root(b)] = World!Root(b) /\ World!Root(b) \in Meshed
  <2>1. merge.parent \in [Meshed -> Meshed]
    BY <1>2 DEF ForestType
  <2>2. \A b \in Meshed : Up(merge.parent, b) \in Meshed
    BY <2>1 DEF Up
  <2> QED
    BY <1>2, <1>7, <2>1, <2>2 DEF ForestType
<1>9. merge'.pairs \subseteq Meshed \X Meshed
  BY <1>5, <1>8
<1>10. CASE joined
  <2>1. /\ merge'.parent \in [Meshed -> Meshed]
        /\ \A b \in Meshed : /\ Up(merge.parent, b) = x => Up(merge'.parent, b) = y
                             /\ Up(merge.parent, b) # x => Up(merge'.parent, b) = Up(merge.parent, b)
                             /\ merge'.parent[Up(merge'.parent, b)] = Up(merge'.parent, b)
    <3>1. Meshed \in SUBSET (1 .. 3)
      BY <1>2 DEF Meshed, PlacedType
    <3>2. /\ x \in Meshed /\ y \in Meshed /\ merge.parent[x] = x /\ merge.parent[y] = y
          /\ merge'.parent = [merge.parent EXCEPT ![x] = y]
      BY <1>4, <1>5, <1>8, <1>10
    <3>3. \A b \in Meshed : merge.parent[Up(merge.parent, b)] = Up(merge.parent, b)
      BY <1>7, <1>8
    <3> DEFINE p == merge.parent
    <3>4. p \in [Meshed -> Meshed] /\ merge'.parent = [p EXCEPT ![x] = y]
      BY <1>8, <3>2
    <3>5. /\ x \in Meshed /\ y \in Meshed /\ p[x] = x /\ p[y] = y
          /\ \A b \in Meshed : p[Up(p, b)] = Up(p, b)
      BY <3>2, <3>3
    <3> HIDE DEF x, y, p
    <3>6. /\ merge'.parent \in [Meshed -> Meshed]
          /\ merge'.parent[x] = y
          /\ \A b \in Meshed : b # x => merge'.parent[b] = p[b]
      BY <3>4, <3>5
    <3>7. Forest(Meshed, p) /\ Hung(Meshed, p, x, y, merge'.parent)
      BY <3>1, <3>4, <3>5, <3>6 DEF Forest, Hung
    <3>8. \A b \in Meshed : /\ Up(p, b) = x => Up(merge'.parent, b) = y
                            /\ Up(p, b) # x => Up(merge'.parent, b) = Up(p, b)
                            /\ merge'.parent[Up(merge'.parent, b)] = Up(merge'.parent, b)
      BY <3>7, Unite
    <3> QED
      BY <3>6, <3>8 DEF p
  <2>2. \A b \in Meshed : World!Root(b)' = IF World!Root(b) = x THEN y ELSE World!Root(b)
    BY <1>7, <2>1
  <2>3. ForestType'
    BY <1>3, <1>7, <1>9, <2>1 DEF ForestType
  <2>4. ComparedMerged'
    <3> SUFFICES ASSUME NEW a \in Meshed, NEW b \in Meshed, a < b, <<a, b>> \notin merge'.pairs,
                        World!Merges(a), World!Merges(b), World!Overlap(a, b)
                 PROVE  World!Root(a)' = World!Root(b)'
      BY <1>3, <1>6 DEF ComparedMerged
    <3>1. CASE <<a, b>> = <<a0, b0>>
      BY <2>2, <3>1
    <3>2. CASE <<a, b>> # <<a0, b0>>
      <4>1. <<a, b>> \notin merge.pairs
        BY <1>5, <3>2
      <4>2. World!Root(a) = World!Root(b)
        BY <1>2, <4>1 DEF ComparedMerged
      <4> QED
        BY <2>2, <4>2
    <3> QED
      BY <3>1, <3>2
  <2>5. MergedOnly'
    <3> SUFFICES ASSUME NEW a \in Meshed, NEW b \in Meshed, a # b, World!Root(a)' = World!Root(b)'
                 PROVE  World!Merges(a) /\ World!Merges(b)
      BY <1>3, <1>6 DEF MergedOnly
    <3>1. \A c \in Meshed : World!Root(c) = x \/ World!Root(c) = y => World!Merges(c)
      <4> TAKE c \in Meshed
      <4>1. CASE c = a0 \/ c = b0
        BY <1>10, <4>1
      <4>2. CASE c # a0 /\ c # b0
        BY <1>2, <1>4, <4>2 DEF MergedOnly
      <4> QED
        BY <4>1, <4>2
    <3>2. CASE World!Root(a) = World!Root(b)
      BY <1>2, <3>2 DEF MergedOnly
    <3>3. CASE World!Root(a) # World!Root(b)
      <4>1. (World!Root(a) = x /\ World!Root(b) = y) \/ (World!Root(a) = y /\ World!Root(b) = x)
        BY <2>2, <3>3
      <4> QED
        BY <3>1, <4>1
    <3> QED
      BY <3>2, <3>3
  <2> QED
    BY <1>1, <1>3, <2>3, <2>4, <2>5 DEF BuildInv, ForestInv
<1>11. CASE ~ joined
  <2>1. merge'.parent = merge.parent /\ \A b : World!Root(b)' = World!Root(b)
    BY <1>5, <1>7, <1>11
  <2>2. ForestType'
    BY <1>3, <1>8, <1>9, <2>1 DEF ForestType
  <2>3. ComparedMerged'
    <3> SUFFICES ASSUME NEW a \in Meshed, NEW b \in Meshed, a < b, <<a, b>> \notin merge'.pairs,
                        World!Merges(a), World!Merges(b), World!Overlap(a, b)
                 PROVE  World!Root(a) = World!Root(b)
      BY <1>3, <1>6, <2>1 DEF ComparedMerged
    <3>1. <<a, b>> # <<a0, b0>>
      BY <1>11
    <3>2. <<a, b>> \notin merge.pairs
      BY <1>5, <3>1
    <3> QED
      BY <1>2, <3>2 DEF ComparedMerged
  <2>4. MergedOnly'
    BY <1>2, <1>3, <1>6, <2>1 DEF MergedOnly
  <2> QED
    BY <1>1, <1>3, <2>2, <2>3, <2>4 DEF BuildInv, ForestInv
<1> QED
  BY <1>10, <1>11

(* What was placed and merged, and what is made of it.                     *)
LEMMA Stays ==
  ASSUME UNCHANGED <<layout, placed, merge>>
  PROVE  /\ Meshed' = Meshed
         /\ \A b : World!Root(b)' = World!Root(b) /\ World!Merges(b)' = World!Merges(b)
         /\ \A a, b : World!Overlap(a, b)' = World!Overlap(a, b)
         /\ \A b : /\ World!RoofsOf(b)' = World!RoofsOf(b)
                   /\ World!ShapesOf(b)' = World!ShapesOf(b)
                   /\ World!SurfaceOf(b)' = World!SurfaceOf(b)
         /\ \A c : /\ World!Floor(c, TRUE)' = World!Floor(c, TRUE)
                   /\ World!Floor(c, FALSE)' = World!Floor(c, FALSE)
                   /\ World!TreeKept(c)' = World!TreeKept(c)
                   /\ World!Disk(c)' = World!Disk(c)
<1>1. Meshed' = Meshed
  BY DEF Meshed
<1>2. \A b : World!Root(b)' = World!Root(b)
  BY Roots, RootsNext
<1>3. \A b : World!Merges(b)' = World!Merges(b) /\ World!Top(b)' = World!Top(b)
  BY DEF World!Merges, World!Top
<1>4. \A a, b : /\ World!Overlap(a, b)' = World!Overlap(a, b)
                /\ World!Later(a, b)' = World!Later(a, b)
  BY <1>3 DEF World!Overlap, World!Later
<1>5. \A b : World!Cluster(b)' = World!Cluster(b)
  BY <1>2 DEF World!Cluster
<1>6. \A b : World!Exposed(b)' = World!Exposed(b)
  <2> TAKE b
  <2>1. {x \in World!Cluster(b) : World!Later(x, b)}' = {x \in World!Cluster(b) : World!Later(x, b)}
    BY <1>4, <1>5
  <2> QED
    BY <2>1 DEF World!Exposed
<1>7. \A b : World!RoofsOf(b)' = World!RoofsOf(b)
  BY <1>6 DEF World!RoofsOf
<1>8. \A b : World!ShapesOf(b)' = World!ShapesOf(b)
  <2> TAKE b
  <2> DEFINE In(cells) ==
        {[of |-> b, number |-> World!Cardinality({q \in World!Pieces(cells) : World!Min(q) <= World!Min(piece)}),
          cells |-> piece] : piece \in World!Pieces(cells)}
  <2>1. World!ShapesOf(b) = In(World!Exposed(b)) /\ World!ShapesOf(b)' = In(World!Exposed(b)')
    BY DEF World!ShapesOf
  <2> HIDE DEF In
  <2> QED
    BY <1>6, <2>1
<1>9. \A b : World!SurfaceOf(b)' = World!SurfaceOf(b)
  BY DEF World!SurfaceOf
<1>10. \A c : World!Over(c)' = World!Over(c) /\ World!Ground(c)' = World!Ground(c)
  BY DEF World!Over, World!Ground
<1>11. \A c : {World!Top(b) : b \in World!Over(c)}' = {World!Top(b) : b \in World!Over(c)}
  BY <1>3, <1>10
<1>12. \A c : /\ World!Floor(c, TRUE)' = World!Floor(c, TRUE)
              /\ World!Floor(c, FALSE)' = World!Floor(c, FALSE)
              /\ World!TreeKept(c)' = World!TreeKept(c)
  BY <1>10, <1>11 DEF World!Floor, World!TreeKept
<1>13. \A c : World!Disk(c)' = World!Disk(c)
  <2> TAKE c
  <2>1. {World!Floor(r, TRUE) : r \in World!Rim(c)}' = {World!Floor(r, TRUE) : r \in World!Rim(c)}
    BY <1>12
  <2> QED
    BY <2>1 DEF World!Disk
<1> QED
  BY <1>1, <1>2, <1>3, <1>4, <1>7, <1>8, <1>9, <1>12, <1>13

LEMMA MadeStays ==
  ASSUME UNCHANGED <<layout, placed, merge>>
  PROVE  /\ PlacedType => PlacedType'
         /\ ForestInv => ForestInv'
         /\ CutDone /\ UNCHANGED <<roofs, shapes, surface>> => CutDone'
         /\ WorldDone /\ UNCHANGED stands => WorldDone'
         /\ LayoutType => LayoutType'
<1>1. PlacedType => PlacedType'
  BY DEF PlacedType
<1>2. ForestInv => ForestInv'
  BY Stays DEF ForestInv, ForestType, ComparedMerged, MergedOnly
<1>3. /\ {World!RoofsOf(b) : b \in Meshed}' = {World!RoofsOf(b) : b \in Meshed}
      /\ {World!ShapesOf(b) : b \in Meshed}' = {World!ShapesOf(b) : b \in Meshed}
      /\ {World!SurfaceOf(b) : b \in DOMAIN placed}' = {World!SurfaceOf(b) : b \in DOMAIN placed}
  BY Stays
<1>4. CutDone /\ UNCHANGED <<roofs, shapes, surface>> => CutDone'
  BY <1>3 DEF CutDone
<1>5. WorldDone /\ UNCHANGED stands => WorldDone'
  BY Stays DEF WorldDone
<1>6. LayoutType => LayoutType'
  BY DEF LayoutType
<1> QED
  BY <1>1, <1>2, <1>4, <1>5, <1>6

LEMMA CutKeeps == BuildInv /\ World!Cut => BuildInv'
<1> SUFFICES ASSUME BuildInv, World!Cut PROVE BuildInv'
  OBVIOUS
<1>1. /\ step = "merge" /\ merge.pairs = {} /\ step' = "world"
      /\ UNCHANGED <<layout, placed, merge>> /\ names' = names
  BY DEF World!Cut
<1>2. LayoutType' /\ PlacedType' /\ ForestInv'
  BY <1>1, MadeStays DEF BuildInv
<1>3. NamesInv'
  BY <1>1 DEF BuildInv, NamesInv
<1>4. DOMAIN merge.parent = Meshed
  BY <1>1 DEF BuildInv, ForestInv, ForestType
<1>5. /\ roofs' = UNION {World!RoofsOf(b) : b \in Meshed}
      /\ shapes' = UNION {World!ShapesOf(b) : b \in Meshed}
      /\ surface' = UNION {World!SurfaceOf(b) : b \in DOMAIN placed}
  BY <1>4 DEF World!Cut
<1>6. /\ {World!RoofsOf(b) : b \in Meshed}' = {World!RoofsOf(b) : b \in Meshed}
      /\ {World!ShapesOf(b) : b \in Meshed}' = {World!ShapesOf(b) : b \in Meshed}
      /\ {World!SurfaceOf(b) : b \in DOMAIN placed}' = {World!SurfaceOf(b) : b \in DOMAIN placed}
  BY <1>1, Stays
<1>7. CutDone'
  BY <1>1, <1>5, <1>6 DEF CutDone
<1> QED
  BY <1>1, <1>2, <1>3, <1>7 DEF BuildInv

LEMMA StandKept == BuildInv /\ World!World => BuildInv'
<1> SUFFICES ASSUME BuildInv, World!World PROVE BuildInv'
  OBVIOUS
<1>1. /\ step = "world" /\ step' = "names"
      /\ UNCHANGED <<layout, placed, merge>> /\ UNCHANGED <<roofs, shapes, surface>> /\ names' = names
  BY DEF World!World
<1>2. LayoutType' /\ PlacedType' /\ ForestInv' /\ CutDone'
  BY <1>1, MadeStays DEF BuildInv
<1>3. NamesInv'
  BY <1>1 DEF BuildInv, NamesInv
<1>4. WorldDone'
  <2>1. stands' = [c \in 0 .. Width + 1 |->
          [low |-> World!Floor(c, FALSE), high |-> World!Floor(c, TRUE),
           tree |-> World!TreeKept(c), disk |-> World!Disk(c)]]
    BY DEF World!World, World!Cells
  <2> QED
    BY <1>1, <2>1, Stays DEF WorldDone
<1> QED
  BY <1>1, <1>2, <1>3, <1>4 DEF BuildInv

LEMMA BuiltKeeps == BuildInv /\ World!Built => BuildInv'
<1> SUFFICES ASSUME BuildInv, World!Built PROVE BuildInv'
  OBVIOUS
<1>1. /\ step = "names" /\ step' = "built" /\ UNCHANGED <<layout, placed, merge>>
      /\ UNCHANGED <<roofs, shapes, surface>> /\ UNCHANGED stands /\ names' = names
  BY DEF World!Built
<1>2. LayoutType' /\ PlacedType' /\ ForestInv' /\ CutDone' /\ WorldDone'
  BY <1>1, MadeStays DEF BuildInv
<1>3. NamesInv'
  BY <1>1 DEF BuildInv, NamesInv
<1> QED
  BY <1>1, <1>2, <1>3 DEF BuildInv

-----------------------------------------------------------------------------
(* There are more numbers than names that were given out.                  *)
LEMMA NumberIsFree ==
  ASSUME LayoutType, NamesInv, NEW base \in Seq(Word)
  PROVE  /\ World!FreeNumber(base) \in Nat
         /\ Append(base, World!FreeNumber(base)) \notin World!Range(names)
<1> DEFINE size == Len(layout.targets)
           given == Len(names)
           Enough == 2 .. 2 + size
           Free == {n \in Enough : Append(base, n) \notin World!Range(names)}
<1>1. size \in Nat /\ given \in Nat /\ given <= size /\ DOMAIN names = 1 .. given
  BY DEF LayoutType, NamesInv
<1>2. Free # {}
  <2> SUFFICES ASSUME Free = {} PROVE FALSE
    OBVIOUS
  <2> DEFINE at == [n \in Enough |-> CHOOSE i \in 1 .. given : names[i] = Append(base, n)]
  <2>1. \A n \in Enough : \E i \in 1 .. given : names[i] = Append(base, n)
    <3> TAKE n \in Enough
    <3>1. Append(base, n) \in World!Range(names)
      OBVIOUS
    <3>2. World!Range(names) = {names[i] : i \in 1 .. given}
      BY <1>1 DEF World!Range
    <3> QED
      BY <3>1, <3>2
  <2>2. \A n \in Enough : at[n] \in 1 .. given /\ names[at[n]] = Append(base, n)
    <3> HIDE DEF given, Enough
    <3> QED
      BY <2>1
  <2>3. at \in [Enough -> 1 .. given]
    BY <2>2
  <2> HIDE DEF at
  <2>4. IsFiniteSet(Enough) /\ Cardinality(Enough) = size + 1
    <3>1. 2 \in Int /\ 2 + size \in Int /\ ~ (2 > 2 + size) /\ (2 + size) - 2 + 1 = size + 1
      BY <1>1
    <3> HIDE DEF size
    <3> QED
      BY <3>1, FS_Interval
  <2>5. IsFiniteSet(1 .. given) /\ Cardinality(1 .. given) = given
    <3>1. 1 \in Int /\ given \in Int /\ (given - 1 + 1 = given) /\ (1 > given => given = 0)
      BY <1>1
    <3> HIDE DEF given
    <3> QED
      BY <3>1, FS_Interval
  <2>6. Cardinality(1 .. given) < Cardinality(Enough)
    BY <1>1, <2>4, <2>5
  <2> HIDE DEF Enough, given
  <2>7. PICK x, y \in Enough : x # y /\ at[x] = at[y]
    <3> DEFINE places == 1 .. given
    <3>1. at \in [Enough -> places] /\ IsFiniteSet(places) /\ Cardinality(places) < Cardinality(Enough)
      BY <2>3, <2>5, <2>6
    <3> HIDE DEF places
    <3> QED
      BY <2>4, <3>1, FS_PigeonHole
  <2>8. Append(base, x) = Append(base, y)
    BY <2>2, <2>7
  <2>9. x \in Word /\ y \in Word
    <3>1. x \in Nat /\ y \in Nat
      BY <1>1, <2>7 DEF Enough
    <3> QED
      BY <3>1, Words
  <2>10. Append(base, x)[Len(base) + 1] = x /\ Append(base, y)[Len(base) + 1] = y
    BY <2>9
  <2> QED
    BY <2>7, <2>8, <2>10
<1>3. Free \in SUBSET Nat
  BY <1>1
<1> HIDE DEF Free
<1>4. World!Min(Free) \in Free
  BY <1>2, <1>3, MinIs
<1>5. World!FreeNumber(base) = World!Min(Free)
  BY DEF World!FreeNumber, Free
<1> QED
  BY <1>3, <1>4, <1>5 DEF Free

LEMMA ConcatIs ==
  ASSUME NEW S, NEW one \in Seq(S), NEW two \in Seq(S)
  PROVE  /\ one \o two \in Seq(S) /\ Len(one \o two) = Len(one) + Len(two)
         /\ \A j \in 1 .. Len(one \o two) :
              (one \o two)[j] = IF j <= Len(one) THEN one[j] ELSE two[j - Len(one)]
OBVIOUS

LEMMA NameKeeps == BuildInv /\ World!Name => BuildInv'
<1> SUFFICES ASSUME BuildInv, World!Name PROVE BuildInv'
  OBVIOUS
<1> DEFINE size == Len(names)
           name == layout.targets[size + 1]
           base == World!Scoreable(name)
           new == World!Given(base)
<1>1. /\ step = "names" /\ step' = "names" /\ size < Len(layout.targets) /\ names' = Append(names, new)
      /\ UNCHANGED <<layout, placed, merge>> /\ UNCHANGED <<roofs, shapes, surface>> /\ UNCHANGED stands
  BY DEF World!Name, BuildInv
<1>2. LayoutType /\ NamesInv
  BY DEF BuildInv
<1>3. LayoutType' /\ PlacedType' /\ ForestInv' /\ CutDone' /\ WorldDone'
  BY <1>1, MadeStays DEF BuildInv
<1>4. size \in Nat /\ Len(layout.targets) \in Nat /\ names \in Seq(Seq(Word)) /\ DOMAIN names = 1 .. size
  BY <1>2 DEF LayoutType, NamesInv
<1>5. name \in Seq(Word) /\ name # <<>>
  <2>1. size + 1 \in 1 .. Len(layout.targets)
    BY <1>1, <1>4
  <2> HIDE DEF size
  <2> QED
    BY <1>2, <2>1 DEF LayoutType
<1> HIDE DEF name
<1>6. base \in Seq(Word) /\ base # <<>> /\ base[1] = "casualty"
  <2>1. CASE name[1] = "casualty"
    BY <1>5, <2>1 DEF World!Scoreable
  <2>2. CASE name[1] # "casualty"
    <3>1. <<"casualty">> \in Seq(Word)
      BY Words
    <3> DEFINE first == <<"casualty">>
    <3>2. first \in Seq(Word) /\ Len(first) = 1 /\ first[1] = "casualty"
      BY <3>1
    <3>3. base = first \o name
      BY <2>2 DEF World!Scoreable
    <3> HIDE DEF first
    <3>4. first \o name \in Seq(Word) /\ Len(first \o name) >= 1 /\ (first \o name)[1] = first[1]
      <4> DEFINE both == first \o name
      <4>1. /\ both \in Seq(Word) /\ Len(both) = Len(first) + Len(name)
            /\ \A j \in 1 .. Len(both) : both[j] = IF j <= Len(first) THEN first[j] ELSE name[j - Len(first)]
        BY <1>5, <3>2, ConcatIs
      <4>2. Len(name) \in Nat
        BY <1>5
      <4> HIDE DEF both
      <4>3. Len(both) >= 1 /\ both[1] = first[1]
        BY <3>2, <4>1, <4>2
      <4> QED
        BY <4>1, <4>3 DEF both
    <3> HIDE DEF base
    <3> QED
      BY <3>2, <3>3, <3>4
  <2> QED
    BY <2>1, <2>2
<1> HIDE DEF base
<1>7. new \in Seq(Word) /\ new # <<>> /\ new[1] = "casualty" /\ new \notin World!Range(names)
  <2>1. CASE base \notin World!Range(names)
    BY <1>6, <2>1 DEF World!Given
  <2>2. CASE base \in World!Range(names)
    <3>1. new = Append(base, World!FreeNumber(base))
      BY <2>2 DEF World!Given
    <3>2. World!FreeNumber(base) \in Nat /\ new \notin World!Range(names)
      BY <1>2, <1>6, <3>1, NumberIsFree
    <3>3. World!FreeNumber(base) \in Word
      BY <3>2, Words
    <3> QED
      BY <1>6, <3>1, <3>2, <3>3
  <2> QED
    BY <2>1, <2>2
<1> HIDE DEF new, size
<1>8. \A i \in 1 .. size : names[i] # new
  BY <1>4, <1>7 DEF World!Range
<1>9. /\ names' \in Seq(Seq(Word)) /\ Len(names') = size + 1
      /\ \A i \in 1 .. size : names'[i] = names[i]
      /\ names'[size + 1] = new
  BY <1>1, <1>4, <1>7 DEF size
<1>10. NamesInv'
  <2>1. \A i \in 1 .. size + 1 : i \in 1 .. size \/ i = size + 1
    BY <1>4
  <2>2. Len(names') <= Len(layout'.targets)
    BY <1>1, <1>4, <1>9
  <2>3. \A i \in 1 .. size : names[i] # <<>> /\ names[i][1] = "casualty"
    BY <1>2 DEF NamesInv, size
  <2>4. \A i \in 1 .. Len(names') : names'[i] # <<>> /\ names'[i][1] = "casualty"
    BY <1>7, <1>9, <2>1, <2>3
  <2>5. \A i, j \in 1 .. size : names[i] = names[j] => i = j
    BY <1>2 DEF NamesInv, size
  <2>6. \A i, j \in 1 .. Len(names') : names'[i] = names'[j] => i = j
    BY <1>8, <1>9, <2>1, <2>5
  <2> QED
    BY <1>9, <2>2, <2>4, <2>6 DEF NamesInv
<1> QED
  BY <1>1, <1>3, <1>10 DEF BuildInv

LEMMA BuildKeeps == BuildInv /\ World!BuildNext => BuildInv'
BY PlaceKeeps, CompareKeeps, CutKeeps, StandKept, NameKeeps, BuiltKeeps DEF World!BuildNext

LEMMA GreatestIs ==
  ASSUME NEW S \in SUBSET Nat, NEW x \in S, \A y \in S : y <= x
  PROVE  World!Max(S) = x
<1>1. \A y \in S : x >= y
  OBVIOUS
<1>2. World!Max(S) \in S /\ \A y \in S : World!Max(S) >= y
  <2>1. \E v \in S : \A y \in S : v >= y
    BY <1>1
  <2> QED
    BY <2>1, Zenon DEF World!Max
<1> DEFINE m == World!Max(S)
<1>3. m \in Nat /\ x \in Nat /\ m >= x /\ m <= x
  <2>1. m \in S /\ m >= x
    BY <1>2
  <2> HIDE DEF m
  <2> QED
    BY <2>1
<1> HIDE DEF m
<1>4. m = x
  BY <1>3
<1> QED
  BY <1>4 DEF m

Placed == LayoutType /\ PlacedType /\ ForestInv

LEMMA TopIs ==
  ASSUME Placed, NEW b \in DOMAIN placed
  PROVE  /\ World!Top(b) \in placed[b].levels /\ World!Top(b) \in 0 .. Height
         /\ \A z \in placed[b].levels : z \in 0 .. Height /\ z <= World!Top(b)
         /\ World!Merges(b) => placed[b].levels = {World!Top(b)}
<1> DEFINE levels == placed[b].levels
<1>1. levels \in SUBSET (0 .. Height) /\ levels # {} /\ Height \in Nat
  BY Wide DEF Placed, PlacedType
<1>2. World!Top(b) = World!Max(levels) /\ (World!Merges(b) => World!Cardinality(levels) = 1)
  BY DEF World!Top, World!Merges
<1> HIDE DEF levels
<1>3. World!Max(levels) \in levels /\ \A z \in levels : World!Max(levels) >= z
  BY <1>1, MaxIs
<1>4. World!Cardinality(levels) = 1 => levels = {World!Max(levels)}
  <2>1. IsFiniteSet(0 .. Height)
    BY <1>1, FS_Interval
  <2>2. IsFiniteSet(levels)
    BY <1>1, <2>1, FS_Subset
  <2>3. Cardinality(levels) = 1 => \E x : levels = {x}
    BY <2>2, FS_Singleton
  <2> QED
    BY <1>3, <2>3, SameCardinality
<1> QED
  BY <1>1, <1>2, <1>3, <1>4 DEF levels

LEMMA GroundIs ==
  ASSUME LayoutType
  PROVE  \A c \in 0 .. Width + 1 : World!Ground(c) \in 0 .. Height
<1> TAKE c \in 0 .. Width + 1
<1>1. World!Ground(c) \in 0 .. Width + 1
  BY DEF World!Ground, LayoutType
<1> QED
  BY <1>1, Wide

(* Of buildings there is one that is later than the others.                *)
LEMMA LastIs ==
  ASSUME Placed, NEW S \in SUBSET DOMAIN placed, S # {}
  PROVE  \E t \in S : \A m \in S : /\ ~World!Later(m, t) /\ World!Top(m) <= World!Top(t)
                                   /\ m # t => World!Later(t, m)
<1> DEFINE Rank(b) == 4 * World!Top(b) + b
           Ranks == {Rank(b) : b \in S}
<1>1. \A b \in S : World!Top(b) \in 0 .. Height /\ b \in 1 .. 3 /\ Height \in Nat
  BY TopIs, Wide DEF Placed, PlacedType
<1>2. Ranks \in SUBSET (0 .. 4 * Height + 3) /\ Ranks # {} /\ 4 * Height + 3 \in Nat
  <2>1. \A b \in S : Rank(b) \in 0 .. 4 * Height + 3
    BY <1>1
  <2>2. Height \in Nat
    BY Wide
  <2> HIDE DEF Rank
  <2> QED
    BY <2>1, <2>2
<1>3. PICK t \in S : \A m \in S : Rank(m) <= Rank(t)
  <2>1. World!Max(Ranks) \in Ranks /\ \A n \in Ranks : World!Max(Ranks) >= n
    <3> DEFINE bound == 4 * Height + 3
    <3> HIDE DEF bound, Ranks
    <3>1. bound \in Nat /\ Ranks \in SUBSET (0 .. bound) /\ Ranks # {}
      BY <1>2 DEF bound
    <3> QED
      BY <3>1, MaxIs
  <2>2. PICK t \in S : World!Max(Ranks) = Rank(t)
    BY <2>1
  <2>3. \A m \in S : Rank(t) >= Rank(m)
    BY <2>1, <2>2
  <2>4. \A m \in S : Rank(m) \in Nat
    BY <1>1
  <2> HIDE DEF Rank, Ranks
  <2> QED
    BY <2>3, <2>4
<1>4. \A m \in S : /\ ~World!Later(m, t) /\ World!Top(m) <= World!Top(t)
                   /\ m # t => World!Later(t, m)
  <2> TAKE m \in S
  <2> DEFINE top(b) == World!Top(b)
  <2>1. 4 * top(m) + m <= 4 * top(t) + t /\ m \in 1 .. 3 /\ t \in 1 .. 3 /\ top(m) \in Nat /\ top(t) \in Nat
    BY <1>1, <1>3
  <2> HIDE DEF top
  <2>2. /\ ~ (top(m) > top(t) \/ (top(m) = top(t) /\ m > t)) /\ top(m) <= top(t)
        /\ m # t => top(t) > top(m) \/ (top(t) = top(m) /\ t > m)
    BY <2>1
  <2> QED
    BY <2>2 DEF top, World!Later
<1> QED
  BY <1>4

LEMMA RoofsAre ==
  ASSUME CutDone
  PROVE  \A r : r \in roofs <=>
           \E b \in Meshed : \E c \in World!Exposed(b), z \in placed[b].levels :
             r = [of |-> b, cell |-> c, z |-> z]
BY DEF CutDone, World!RoofsOf

LEMMA SurfaceIs ==
  ASSUME CutDone
  PROVE  \A s : s \in surface <=>
           \E b \in DOMAIN placed : \E c \in placed[b].cells, z \in placed[b].levels :
             s = [cell |-> c, z |-> z]
BY DEF CutDone, World!SurfaceOf

LEMMA ExposedIs ==
  ASSUME Placed, NEW b \in Meshed, NEW c
  PROVE  c \in World!Exposed(b) <=>
           /\ c \in placed[b].cells
           /\ \A m \in Meshed : World!Root(m) = World!Root(b) /\ World!Later(m, b) => c \notin placed[m].cells
<1>1. DOMAIN merge.parent = Meshed
  BY DEF Placed, ForestInv, ForestType
<1> QED
  BY <1>1 DEF World!Exposed, World!Cluster

LEMMA OneRoofHolds ==
  ASSUME Placed, CutDone
  PROVE  World!OneRoof
<1> SUFFICES ASSUME NEW c \in World!Square,
                    NEW boxes, boxes = {b \in World!Boxes : c \in placed[b].cells}, boxes # {}
             PROVE  /\ {r.z : r \in {x \in roofs : x.cell = c /\ x.of \in World!Boxes}}
                         = {World!Max({World!Top(b) : b \in boxes})}
                    /\ World!Cardinality({x \in roofs : x.cell = c /\ x.of \in World!Boxes}) = 1
  BY Zenon DEF World!OneRoof
<1>1. \A b : b \in World!Boxes <=> b \in Meshed /\ World!Merges(b)
  BY DEF World!Boxes, Meshed
<1>2. boxes \in SUBSET DOMAIN placed
  BY <1>1 DEF Meshed
<1>3. PICK t \in boxes : \A m \in boxes : /\ ~World!Later(m, t) /\ World!Top(m) <= World!Top(t)
                                          /\ m # t => World!Later(t, m)
  BY <1>2, LastIs
<1>4. \A b \in boxes : b \in DOMAIN placed /\ World!Top(b) \in Nat /\ placed[b].levels = {World!Top(b)}
  <2>1. \A b \in boxes : b \in DOMAIN placed /\ World!Merges(b)
    BY <1>1, <1>2
  <2> QED
    BY <2>1, TopIs
<1>5. \A m \in boxes : m # t => World!Root(t) = World!Root(m)
  <2> TAKE m \in boxes
  <2> HAVE m # t
  <2>1. /\ m \in Meshed /\ t \in Meshed /\ World!Merges(m) /\ World!Merges(t)
        /\ c \in placed[m].cells /\ c \in placed[t].cells /\ m \in 1 .. 3 /\ t \in 1 .. 3
    BY <1>1, <1>2 DEF Placed, PlacedType
  <2>2. World!Overlap(m, t) /\ World!Overlap(t, m)
    BY <2>1 DEF World!Overlap
  <2>3. m < t \/ t < m
    BY <2>1
  <2> QED
    BY <2>1, <2>2, <2>3 DEF Placed, ForestInv, ComparedMerged, CutDone
<1>6. c \in World!Exposed(t)
  <2>1. t \in Meshed /\ c \in placed[t].cells
    BY <1>1
  <2>2. ASSUME NEW m \in Meshed, World!Root(m) = World!Root(t), World!Later(m, t), c \in placed[m].cells
        PROVE  FALSE
    <3>1. m # t
      BY <1>3, <2>2
    <3>2. World!Merges(m)
      BY <2>1, <2>2, <3>1 DEF Placed, ForestInv, MergedOnly
    <3>3. m \in boxes
      BY <1>1, <2>2, <3>2
    <3> QED
      BY <1>3, <2>2, <3>3
  <2> QED
    BY <2>1, <2>2, ExposedIs
<1> DEFINE roof == [of |-> t, cell |-> c, z |-> World!Top(t)]
           there == {x \in roofs : x.cell = c /\ x.of \in World!Boxes}
<1>7. roof \in there
  <2>1. roof \in roofs
    BY <1>1, <1>4, <1>6, RoofsAre
  <2> QED
    BY <2>1
<1>8. ASSUME NEW x \in there PROVE x = roof
  <2>1. PICK b \in Meshed : \E d \in World!Exposed(b), z \in placed[b].levels :
          x = [of |-> b, cell |-> d, z |-> z]
    BY RoofsAre
  <2>2. x.of = b /\ x.cell = c /\ b \in World!Boxes /\ c \in World!Exposed(b)
        /\ \E z \in placed[b].levels : x = [of |-> b, cell |-> c, z |-> z]
    BY <2>1
  <2>3. b \in boxes
    BY <2>2, ExposedIs
  <2>4. b = t
    <3> SUFFICES ASSUME b # t PROVE FALSE
      OBVIOUS
    <3>1. World!Root(t) = World!Root(b) /\ World!Later(t, b)
      BY <1>3, <1>5, <2>3
    <3>2. t \in Meshed /\ c \in placed[t].cells
      BY <1>1
    <3> QED
      BY <2>2, <3>1, <3>2, ExposedIs
  <2> QED
    BY <1>4, <2>2, <2>4
<1> HIDE DEF roof
<1>9. there = {roof}
  <2> HIDE DEF there
  <2> QED
    BY <1>7, <1>8
<1> HIDE DEF there
<1>10. {r.z : r \in there} = {World!Top(t)}
  BY <1>9 DEF roof
<1>11. World!Max({World!Top(b) : b \in boxes}) = World!Top(t)
  <2> DEFINE tops == {World!Top(b) : b \in boxes}
  <2>1. tops \in SUBSET Nat /\ World!Top(t) \in tops /\ \A y \in tops : y <= World!Top(t)
    BY <1>3, <1>4
  <2> HIDE DEF tops
  <2>2. World!Max(tops) = World!Top(t)
    BY <2>1, GreatestIs
  <2> QED
    BY <2>2 DEF tops
<1>12. World!Cardinality(there) = 1
  BY <1>9, SameCardinality, FS_Singleton
<1> QED
  BY <1>10, <1>11, <1>12 DEF there

(* The heights that the surface file and the ground give over a cell.      *)
LEMMA FileIs ==
  ASSUME CutDone, NEW c
  PROVE  \A v : v \in {s.z : s \in {x \in surface : x.cell = c}} \cup {World!Ground(c)} <=>
                  v = World!Ground(c) \/ \E b \in World!Over(c) : v \in placed[b].levels
<1>1. \A b : b \in World!Over(c) <=> b \in DOMAIN placed /\ c \in placed[b].cells
  BY DEF World!Over
<1>2. \A v : (\E s \in surface : s.cell = c /\ s.z = v) <=> \E b \in World!Over(c) : v \in placed[b].levels
  <2> TAKE v
  <2>1. ASSUME NEW s \in surface, s.cell = c, s.z = v
        PROVE  \E b \in World!Over(c) : v \in placed[b].levels
    BY <1>1, <2>1, SurfaceIs
  <2>2. ASSUME NEW b \in World!Over(c), v \in placed[b].levels
        PROVE  \E s \in surface : s.cell = c /\ s.z = v
    <3>1. [cell |-> c, z |-> v] \in surface
      BY <1>1, <2>2, SurfaceIs
    <3> QED
      BY <3>1
  <2> QED
    BY <2>1, <2>2
<1> QED
  BY <1>2

LEMMA SurfaceHolds ==
  ASSUME Placed, CutDone
  PROVE  World!SurfaceShowsMesh
<1> SUFFICES ASSUME NEW c \in World!Square, \A b \in World!Over(c) : ~placed[b].model
             PROVE  World!Max({r.z : r \in {x \in roofs : x.cell = c}} \cup {World!Ground(c)})
                      = World!Max({s.z : s \in {x \in surface : x.cell = c}} \cup {World!Ground(c)})
  BY DEF World!SurfaceShowsMesh
<1> DEFINE mesh == {r.z : r \in {x \in roofs : x.cell = c}} \cup {World!Ground(c)}
           file == {s.z : s \in {x \in surface : x.cell = c}} \cup {World!Ground(c)}
<1>1. \A b : b \in World!Over(c) <=> b \in DOMAIN placed /\ c \in placed[b].cells
  BY DEF World!Over
<1>2. \A b \in World!Over(c) : b \in Meshed
  BY <1>1 DEF Meshed
<1>3. World!Ground(c) \in 0 .. Height /\ Height \in Nat
  <2>1. c \in 0 .. Width + 1
    BY Wide DEF World!Square
  <2> QED
    BY <2>1, GroundIs, Wide DEF Placed
<1>4. \A v : v \in mesh <=>
        \/ v = World!Ground(c)
        \/ \E b \in Meshed : c \in World!Exposed(b) /\ v \in placed[b].levels
  <2>1. \A v : (\E r \in roofs : r.cell = c /\ r.z = v) <=>
                 \E b \in Meshed : c \in World!Exposed(b) /\ v \in placed[b].levels
    <3> TAKE v
    <3>1. ASSUME NEW r \in roofs, r.cell = c, r.z = v
          PROVE  \E b \in Meshed : c \in World!Exposed(b) /\ v \in placed[b].levels
      BY <3>1, RoofsAre
    <3>2. ASSUME NEW b \in Meshed, c \in World!Exposed(b), v \in placed[b].levels
          PROVE  \E r \in roofs : r.cell = c /\ r.z = v
      <4>1. [of |-> b, cell |-> c, z |-> v] \in roofs
        BY <3>2, RoofsAre
      <4> QED
        BY <4>1
    <3> QED
      BY <3>1, <3>2
  <2> QED
    BY <2>1
<1>5. \A v : v \in file <=> v = World!Ground(c) \/ \E b \in World!Over(c) : v \in placed[b].levels
  BY FileIs
<1> HIDE DEF mesh, file
<1>6. mesh \subseteq file
  BY <1>1, <1>4, <1>5, ExposedIs DEF Meshed
<1>7. file \in SUBSET (0 .. Height) /\ file # {}
  BY <1>1, <1>3, <1>5, TopIs
<1>8. World!Max(file) \in file /\ \A y \in file : World!Max(file) >= y
  BY <1>3, <1>7, MaxIs
<1>9. World!Max(file) \in mesh
  <2>1. CASE World!Max(file) = World!Ground(c)
    BY <1>4, <2>1
  <2>2. CASE World!Max(file) # World!Ground(c)
    <3>1. PICK b \in World!Over(c) : World!Max(file) \in placed[b].levels
      BY <1>5, <1>8, <2>2
    <3>2. PICK t \in World!Over(c) :
            \A m \in World!Over(c) : ~World!Later(m, t) /\ World!Top(m) <= World!Top(t)
      <4>1. World!Over(c) \in SUBSET DOMAIN placed /\ World!Over(c) # {}
        BY <1>1
      <4> QED
        BY <4>1, LastIs
    <3>3. t \in Meshed /\ t \in DOMAIN placed /\ b \in DOMAIN placed
      BY <1>1, <1>2
    <3>4. World!Top(t) \in placed[t].levels /\ World!Top(t) \in Nat /\ World!Top(b) \in Nat
          /\ World!Max(file) <= World!Top(b) /\ World!Max(file) \in Nat
      BY <3>1, <3>3, TopIs
    <3>5. World!Top(t) \in file
      BY <1>5, <3>4
    <3>6. World!Max(file) = World!Top(t)
      BY <1>8, <3>2, <3>4, <3>5
    <3>7. c \in World!Exposed(t)
      <4>1. c \in placed[t].cells
        BY <1>1
      <4>2. \A m \in Meshed : World!Later(m, t) => c \notin placed[m].cells
        BY <1>1, <3>2 DEF Meshed
      <4> QED
        BY <3>3, <4>1, <4>2, ExposedIs
    <3> QED
      BY <1>4, <3>3, <3>4, <3>6, <3>7
  <2> QED
    BY <2>1, <2>2
<1>10. World!Max(mesh) = World!Max(file)
  <2>1. mesh \in SUBSET Nat
    BY <1>6, <1>7
  <2>2. \A y \in mesh : y <= World!Max(file)
    BY <1>6, <1>7, <1>8
  <2> QED
    BY <1>9, <2>1, <2>2, GreatestIs
<1> QED
  BY <1>10 DEF mesh, file

LEMMA FloorIs ==
  ASSUME Placed, NEW c \in 0 .. Width + 1
  PROVE  /\ World!Floor(c, TRUE) \in 0 .. Height
         /\ \A b \in World!Over(c) : World!Top(b) <= World!Floor(c, TRUE)
         /\ World!Over(c) = {} => World!Floor(c, TRUE) = World!Ground(c)
         /\ World!Over(c) # {} => \E b \in World!Over(c) : World!Floor(c, TRUE) = World!Top(b)
<1> DEFINE tops == {World!Top(b) : b \in World!Over(c)}
<1>1. \A b \in World!Over(c) : World!Top(b) \in 0 .. Height
  BY TopIs DEF World!Over
<1>2. World!Floor(c, TRUE) = IF World!Over(c) # {} THEN World!Max(tops) ELSE World!Ground(c)
  BY DEF World!Floor
<1>3. World!Over(c) # {} => World!Max(tops) \in tops /\ \A y \in tops : World!Max(tops) >= y
  <2>1. tops \in SUBSET (0 .. Height) /\ Height \in Nat /\ (World!Over(c) # {} => tops # {})
    BY <1>1, Wide
  <2> HIDE DEF tops
  <2> QED
    BY <2>1, MaxIs
<1>4. World!Ground(c) \in 0 .. Height
  BY GroundIs DEF Placed
<1>5. CASE World!Over(c) = {}
  BY <1>2, <1>4, <1>5
<1>6. CASE World!Over(c) # {}
  <2> DEFINE top == World!Max(tops)
  <2>1. PICK b \in World!Over(c) : top = World!Top(b)
    BY <1>3, <1>6
  <2>2. \A d \in World!Over(c) : top >= World!Top(d)
    BY <1>3, <1>6
  <2> HIDE DEF top
  <2>3. top \in 0 .. Height /\ \A d \in World!Over(c) : World!Top(d) <= top
    BY <1>1, <2>1, <2>2
  <2>4. World!Floor(c, TRUE) = top
    BY <1>2, <1>6 DEF top
  <2> QED
    BY <1>6, <2>1, <2>3, <2>4
<1> QED
  BY <1>5, <1>6

LEMMA GroundBelow ==
  ASSUME Placed, NEW c \in 0 .. Width + 1, ~World!BuriedAt(c)
  PROVE  World!Ground(c) <= World!Floor(c, TRUE)
<1> DEFINE ground == World!Ground(c)
           floor == World!Floor(c, TRUE)
<1>1. ground \in 0 .. Height /\ floor \in 0 .. Height /\ Height \in Nat
  BY FloorIs, GroundIs, Wide DEF Placed
<1>2. CASE World!Over(c) = {}
  <2>1. floor = ground
    BY <1>2, FloorIs
  <2> HIDE DEF ground, floor
  <2>2. ground <= floor
    BY <1>1, <2>1
  <2> QED
    BY <2>2 DEF ground, floor
<1>3. CASE World!Over(c) # {}
  <2>1. PICK b \in World!Over(c) : floor = World!Top(b)
    BY <1>3, FloorIs
  <2>2. ~ (World!Top(b) < ground)
    BY DEF World!BuriedAt
  <2>3. ~ (floor < ground)
    BY <2>1, <2>2
  <2> HIDE DEF ground, floor
  <2>4. ground <= floor
    BY <1>1, <2>3
  <2> QED
    BY <2>4 DEF ground, floor
<1> QED
  BY <1>2, <1>3

LEMMA DiskIs ==
  ASSUME Placed, NEW c \in World!Square
  PROVE  \A r \in World!Rim(c) :
           r \in 0 .. Width + 1 /\ World!Floor(r, TRUE) <= World!Disk(c) /\ World!Disk(c) \in Nat
<1> DEFINE floors == {World!Floor(r, TRUE) : r \in World!Rim(c)}
<1>1. World!Rim(c) \subseteq 0 .. Width + 1 /\ c \in World!Rim(c)
  BY Wide DEF World!Rim, World!Cells, World!Square
<1>2. \A r \in World!Rim(c) : World!Floor(r, TRUE) \in 0 .. Height
  BY <1>1, FloorIs
<1>3. World!Max(floors) \in floors /\ \A y \in floors : World!Max(floors) >= y
  <2>1. floors \in SUBSET (0 .. Height) /\ Height \in Nat /\ floors # {}
    BY <1>1, <1>2, Wide
  <2> HIDE DEF floors
  <2> QED
    BY <2>1, MaxIs
<1>4. World!Disk(c) = World!Max(floors)
  BY DEF World!Disk
<1>5. TAKE r \in World!Rim(c)
<1>6. World!Floor(r, TRUE) \in floors /\ floors \subseteq 0 .. Height
  BY <1>2
<1> HIDE DEF floors
<1>7. World!Disk(c) \in 0 .. Height /\ World!Disk(c) >= World!Floor(r, TRUE)
  BY <1>3, <1>4, <1>6
<1> DEFINE floor == World!Floor(r, TRUE)
           high == World!Disk(c)
<1>8. high \in 0 .. Height /\ high >= floor /\ floor \in 0 .. Height /\ Height \in Nat
  BY <1>2, <1>7, Wide
<1> HIDE DEF floor, high
<1>9. floor <= high /\ high \in Nat
  BY <1>8
<1> QED
  BY <1>1, <1>9 DEF floor, high

LEMMA StandsHold ==
  ASSUME Placed, CutDone, WorldDone
  PROVE  World!StandsOnTop
<1> SUFFICES ASSUME NEW c \in World!Square
             PROVE  /\ ~World!BuriedAt(c) =>
                         stands[c].high = World!Max({s.z : s \in {x \in surface : x.cell = c}} \cup {World!Ground(c)})
                    /\ stands[c].tree => \A s \in surface : s.cell # c
                    /\ (\A r \in World!Rim(c) : ~World!BuriedAt(r)) =>
                         \A s \in surface : s.cell \in World!Rim(c) => stands[c].disk >= s.z
                    /\ (\A r \in World!Rim(c) : ~World!BuriedAt(r)) =>
                         \A r \in World!Rim(c) : stands[c].disk >= World!Ground(r)
  BY Zenon DEF World!StandsOnTop
<1>1. c \in 0 .. Width + 1
  BY Wide DEF World!Square
<1>2. /\ stands[c].high = World!Floor(c, TRUE) /\ stands[c].tree = World!TreeKept(c)
      /\ stands[c].disk = World!Disk(c)
  BY <1>1 DEF WorldDone
<1>3. ASSUME NEW s \in surface
      PROVE  \E b \in World!Over(s.cell) : s.z \in placed[b].levels /\ b \in DOMAIN placed
  <2>1. PICK b \in DOMAIN placed : \E d \in placed[b].cells, z \in placed[b].levels :
          s = [cell |-> d, z |-> z]
    BY SurfaceIs
  <2> QED
    BY <2>1 DEF World!Over
<1>4. ASSUME ~World!BuriedAt(c)
      PROVE  stands[c].high = World!Max({s.z : s \in {x \in surface : x.cell = c}} \cup {World!Ground(c)})
  <2> DEFINE file == {s.z : s \in {x \in surface : x.cell = c}} \cup {World!Ground(c)}
             floor == World!Floor(c, TRUE)
  <2>1. \A v : v \in file <=> v = World!Ground(c) \/ \E b \in World!Over(c) : v \in placed[b].levels
    BY FileIs
  <2>2. World!Ground(c) \in 0 .. Height /\ World!Ground(c) <= floor /\ floor \in 0 .. Height
    BY <1>1, <1>4, GroundBelow, FloorIs, GroundIs DEF Placed
  <2>3. \A b \in World!Over(c) : /\ World!Top(b) \in placed[b].levels /\ World!Top(b) \in 0 .. Height
                                 /\ World!Top(b) <= floor
                                 /\ \A z \in placed[b].levels : z \in 0 .. Height /\ z <= World!Top(b)
    BY <1>1, FloorIs, TopIs DEF World!Over
  <2>4. floor \in file
    <3>1. CASE World!Over(c) = {}
      BY <1>1, <2>1, <3>1, FloorIs
    <3>2. CASE World!Over(c) # {}
      BY <1>1, <2>1, <2>3, <3>2, FloorIs
    <3> QED
      BY <3>1, <3>2
  <2> HIDE DEF file, floor
  <2>5. \A y \in file : y \in Nat /\ y <= floor
    <3> TAKE y \in file
    <3>1. CASE y = World!Ground(c)
      BY <2>2, <3>1
    <3>2. CASE \E b \in World!Over(c) : y \in placed[b].levels
      <4>1. PICK b \in World!Over(c) : y \in placed[b].levels
        BY <3>2
      <4> DEFINE top == World!Top(b)
      <4>2. y \in 0 .. Height /\ y <= top /\ top \in 0 .. Height /\ top <= floor
        BY <2>3, <4>1
      <4> HIDE DEF top
      <4> QED
        BY <2>2, <4>2
    <3> QED
      BY <2>1, <3>1, <3>2
  <2>6. World!Max(file) = floor
    <3>1. file \in SUBSET Nat
      BY <2>5
    <3> QED
      BY <2>4, <2>5, <3>1, GreatestIs
  <2> QED
    BY <1>2, <2>6 DEF file, floor
<1>5. ASSUME stands[c].tree, NEW s \in surface PROVE s.cell # c
  <2>1. World!Over(c) = {}
    BY <1>2, <1>5 DEF World!TreeKept
  <2> QED
    BY <1>3, <2>1
<1>6. ASSUME NEW s \in surface, s.cell \in World!Rim(c) PROVE stands[c].disk >= s.z
  <2>1. PICK b \in World!Over(s.cell) : s.z \in placed[b].levels /\ b \in DOMAIN placed
    BY <1>3
  <2> DEFINE top == World!Top(b)
             floor == World!Floor(s.cell, TRUE)
             high == World!Disk(c)
             z == s.z
  <2>2. s.cell \in 0 .. Width + 1 /\ floor <= high /\ high \in Nat
    BY <1>6, DiskIs
  <2>3. top <= floor /\ floor \in 0 .. Height
    BY <2>2, FloorIs
  <2>4. z \in 0 .. Height /\ z <= top /\ top \in 0 .. Height
    BY <2>1, TopIs
  <2> HIDE DEF top, floor, high, z
  <2>5. high >= z
    BY <2>2, <2>3, <2>4
  <2> QED
    BY <1>2, <2>5 DEF high, z
<1>7. ASSUME NEW r \in World!Rim(c), ~World!BuriedAt(r) PROVE stands[c].disk >= World!Ground(r)
  <2> DEFINE floor == World!Floor(r, TRUE)
             high == World!Disk(c)
             ground == World!Ground(r)
  <2>1. r \in 0 .. Width + 1 /\ floor <= high /\ high \in Nat
    BY DiskIs
  <2>2. ground <= floor /\ floor \in 0 .. Height /\ ground \in 0 .. Height
    BY <1>7, <2>1, GroundBelow, FloorIs, GroundIs DEF Placed
  <2> HIDE DEF floor, high, ground
  <2>3. high >= ground
    BY <2>1, <2>2
  <2> QED
    BY <1>2, <2>3 DEF high, ground
<1> QED
  BY <1>4, <1>5, <1>6, <1>7

-----------------------------------------------------------------------------
(* The pieces of a roof.                                                   *)
Whole(cells, piece, low, high) ==
  /\ low \in cells /\ high \in cells
  /\ piece = low .. high /\ low <= high /\ low .. high \subseteq cells
  /\ low - 1 \notin cells /\ high + 1 \notin cells
LEMMA PieceIs ==
  ASSUME NEW cells, NEW piece
  PROVE  piece \in World!Pieces(cells) <=> \E low, high : Whole(cells, piece, low, high)
<1>1. ASSUME NEW p \in cells \X cells, piece = World!Interval(p[1], p[2]),
             World!Interval(p[1], p[2]) \subseteq cells, p[1] <= p[2],
             {p[1] - 1, p[2] + 1} \cap cells = {}
      PROVE  \E low, high : Whole(cells, piece, low, high)
  <2>1. p[1] \in cells /\ p[2] \in cells
    OBVIOUS
  <2>2. Whole(cells, piece, p[1], p[2])
    BY <1>1, <2>1 DEF World!Interval, Whole
  <2> QED
    BY <2>2
<1>2. ASSUME NEW low, NEW high, Whole(cells, piece, low, high)
      PROVE  piece \in World!Pieces(cells)
  <2> DEFINE p == <<low, high>>
  <2>1. p \in cells \X cells /\ p[1] = low /\ p[2] = high
    BY <1>2 DEF Whole
  <2> HIDE DEF p
  <2>2. /\ World!Interval(p[1], p[2]) \subseteq cells /\ p[1] <= p[2]
        /\ {p[1] - 1, p[2] + 1} \cap cells = {} /\ piece = World!Interval(p[1], p[2])
    BY <1>2, <2>1 DEF World!Interval, Whole
  <2> QED
    BY <2>1, <2>2 DEF World!Pieces
<1> QED
  BY <1>1, <1>2 DEF World!Pieces

LEMMA PieceOf ==
  ASSUME NEW cells \in SUBSET (1 .. Width), NEW c \in cells
  PROVE  \E piece \in World!Pieces(cells) : c \in piece
<1> DEFINE Lows == {n \in 1 .. c : n .. c \subseteq cells}
           Highs == {n \in c .. Width : c .. n \subseteq cells}
<1>0. c \in 1 .. Width /\ Width \in Nat /\ \A n \in cells : n \in 1 .. Width
  BY Wide
<1>1. Lows \in SUBSET Nat /\ c \in Lows
  BY <1>0
<1>2. Highs \in SUBSET (0 .. Width) /\ c \in Highs
  BY <1>0
<1>3. PICK low \in Lows : \A n \in Lows : low <= n
  <2> HIDE DEF Lows
  <2> QED
    BY <1>1, Least
<1>4. PICK high \in Highs : \A n \in Highs : high >= n
  <2> HIDE DEF Highs
  <2>1. World!Max(Highs) \in Highs /\ \A n \in Highs : World!Max(Highs) >= n
    BY <1>0, <1>2, MaxIs
  <2> QED
    BY <2>1
<1>5. low \in 1 .. c /\ high \in c .. Width /\ low .. c \subseteq cells /\ c .. high \subseteq cells
  OBVIOUS
<1>6. low - 1 \notin cells
  <2> SUFFICES ASSUME low - 1 \in cells PROVE FALSE
    OBVIOUS
  <2>1. low - 1 \in 1 .. c /\ \A n \in low - 1 .. c : n = low - 1 \/ n \in low .. c
    BY <1>0, <1>5
  <2>2. low - 1 \in Lows
    BY <1>5, <2>1
  <2> HIDE DEF Lows
  <2> QED
    BY <1>0, <1>3, <1>5, <2>2
<1>7. high + 1 \notin cells
  <2> SUFFICES ASSUME high + 1 \in cells PROVE FALSE
    OBVIOUS
  <2>1. high + 1 \in c .. Width /\ \A n \in c .. high + 1 : n = high + 1 \/ n \in c .. high
    BY <1>0, <1>5
  <2>2. high + 1 \in Highs
    BY <1>5, <2>1
  <2> HIDE DEF Highs
  <2> QED
    BY <1>0, <1>4, <1>5, <2>2
<1>8. /\ low \in cells /\ high \in cells /\ low <= high /\ low .. high \subseteq cells /\ c \in low .. high
  <2>1. /\ low \in low .. c /\ high \in c .. high /\ low <= high /\ c \in low .. high
        /\ \A n \in low .. high : n \in low .. c \/ n \in c .. high
    BY <1>0, <1>5
  <2> QED
    BY <1>5, <2>1
<1>9. Whole(cells, low .. high, low, high)
  BY <1>6, <1>7, <1>8 DEF Whole
<1>10. low .. high \in World!Pieces(cells)
  BY <1>9, PieceIs, Zenon
<1> QED
  BY <1>8, <1>10

LEMMA OnePiece ==
  ASSUME NEW cells \in SUBSET (1 .. Width), NEW one \in World!Pieces(cells),
         NEW two \in World!Pieces(cells), NEW c \in one, c \in two
  PROVE  one = two
<1>1. PICK l1, h1 : Whole(cells, one, l1, h1)
  BY PieceIs, Zenon
<1>2. PICK l2, h2 : Whole(cells, two, l2, h2)
  BY PieceIs, Zenon
<1>3. /\ l1 \in Nat /\ h1 \in Nat /\ l2 \in Nat /\ h2 \in Nat /\ c \in Nat
      /\ c \in l1 .. h1 /\ c \in l2 .. h2
  BY <1>1, <1>2, Wide DEF Whole
<1>4. l2 - 1 \notin l1 .. h1 /\ l1 - 1 \notin l2 .. h2 /\ h2 + 1 \notin l1 .. h1 /\ h1 + 1 \notin l2 .. h2
  BY <1>1, <1>2 DEF Whole
<1>5. l1 = l2 /\ h1 = h2
  BY <1>3, <1>4
<1> QED
  BY <1>1, <1>2, <1>5 DEF Whole

LEMMA PieceMin ==
  ASSUME NEW cells \in SUBSET (1 .. Width), NEW piece \in World!Pieces(cells)
  PROVE  World!Min(piece) \in piece /\ World!Min(piece) \in Nat /\ piece \in SUBSET (1 .. Width)
<1>1. piece \subseteq cells /\ piece # {}
  <2>1. PICK low, high : Whole(cells, piece, low, high)
    BY PieceIs, Zenon
  <2>2. low \in piece
    BY <2>1, Wide DEF Whole
  <2> QED
    BY <2>1, <2>2 DEF Whole
<1>2. piece \in SUBSET Nat
  BY <1>1, Wide
<1> QED
  BY <1>1, <1>2, MinIs

Upto(cells, piece) == {q \in World!Pieces(cells) : World!Min(q) <= World!Min(piece)}
LEMMA NumberTells ==
  ASSUME NEW cells \in SUBSET (1 .. Width),
         NEW one \in World!Pieces(cells), NEW two \in World!Pieces(cells),
         World!Cardinality(Upto(cells, one)) = World!Cardinality(Upto(cells, two))
  PROVE  one = two
<1>1. ASSUME NEW p \in World!Pieces(cells), NEW q \in World!Pieces(cells),
             World!Cardinality(Upto(cells, p)) = World!Cardinality(Upto(cells, q)),
             World!Min(p) <= World!Min(q)
      PROVE  p = q
  <2>1. \A r \in World!Pieces(cells) : World!Min(r) \in r /\ World!Min(r) \in Nat
    BY PieceMin
  <2>2. Upto(cells, p) \in SUBSET Upto(cells, q) /\ q \in Upto(cells, q)
    BY <1>1, <2>1 DEF Upto
  <2>3. IsFiniteSet(Upto(cells, q))
    <3>1. IsFiniteSet(1 .. Width)
      BY Wide, FS_Interval
    <3>2. IsFiniteSet(SUBSET (1 .. Width))
      BY <3>1, FS_SUBSET
    <3>3. Upto(cells, q) \in SUBSET (SUBSET (1 .. Width))
      BY PieceMin DEF Upto
    <3> QED
      BY <3>2, <3>3, FS_Subset
  <2>4. Cardinality(Upto(cells, q)) = Cardinality(Upto(cells, p))
    BY <1>1, SameCardinality
  <2>5. Upto(cells, q) = Upto(cells, p)
    BY <2>2, <2>3, <2>4, FS_Subset
  <2>6. World!Min(q) <= World!Min(p)
    BY <2>2, <2>5 DEF Upto
  <2>7. World!Min(p) = World!Min(q)
    BY <1>1, <2>1, <2>6
  <2> QED
    BY <2>1, <2>7, OnePiece
<1>2. World!Min(one) \in Nat /\ World!Min(two) \in Nat
  BY PieceMin
<1>3. World!Min(one) <= World!Min(two) \/ World!Min(two) <= World!Min(one)
  BY <1>2
<1> QED
  BY <1>1, <1>3

LEMMA ShapesHold ==
  ASSUME Placed, CutDone
  PROVE  World!EachShapeOnce
<1> DEFINE cells(b) == World!Exposed(b)
           shape(b, piece) == [of |-> b, number |-> World!Cardinality(Upto(cells(b), piece)), cells |-> piece]
<1>1. \A b \in Meshed : cells(b) \in SUBSET (1 .. Width)
  BY DEF World!Exposed, Meshed, Placed, PlacedType
<1>2. \A s : s \in shapes <=> \E b \in Meshed : \E piece \in World!Pieces(cells(b)) : s = shape(b, piece)
  <2>1. \A b : World!ShapesOf(b) = {shape(b, piece) : piece \in World!Pieces(cells(b))}
    BY DEF World!ShapesOf, Upto
  <2>2. shapes = UNION {World!ShapesOf(b) : b \in Meshed}
    BY DEF CutDone
  <2> HIDE DEF cells, shape
  <2>3. ASSUME NEW s, NEW b \in Meshed, s \in World!ShapesOf(b)
        PROVE  \E piece \in World!Pieces(cells(b)) : s = shape(b, piece)
    BY <2>1, <2>3
  <2>4. ASSUME NEW b \in Meshed, NEW piece \in World!Pieces(cells(b))
        PROVE  shape(b, piece) \in World!ShapesOf(b)
    BY <2>1
  <2>5. \A s : s \in shapes <=> \E b \in Meshed : s \in World!ShapesOf(b)
    BY <2>2
  <2> QED
    BY <2>3, <2>4, <2>5
<1>3. \A b, piece : shape(b, piece).of = b /\ shape(b, piece).cells = piece
                    /\ shape(b, piece).number = World!Cardinality(Upto(cells(b), piece))
  OBVIOUS
<1>4. ASSUME NEW r \in roofs
      PROVE  World!Cardinality({s \in shapes : s.of = r.of /\ r.cell \in s.cells}) = 1
  <2>1. PICK b \in Meshed : r.of = b /\ r.cell \in World!Exposed(b)
    BY RoofsAre
  <2>2. r.cell \in cells(b)
    BY <2>1
  <2> HIDE DEF cells, shape
  <2>3. PICK piece \in World!Pieces(cells(b)) : r.cell \in piece
    BY <1>1, <2>2, PieceOf
  <2> DEFINE drawn == {s \in shapes : s.of = r.of /\ r.cell \in s.cells}
  <2>4. shape(b, piece) \in drawn
    BY <1>2, <1>3, <2>1, <2>3
  <2>5. ASSUME NEW s \in drawn PROVE s = shape(b, piece)
    <3>1. PICK a \in Meshed : \E drawing \in World!Pieces(cells(a)) : s = shape(a, drawing)
      BY <1>2
    <3>2. PICK drawing \in World!Pieces(cells(a)) : s = shape(a, drawing)
      BY <3>1
    <3>3. a = b /\ r.cell \in drawing
      BY <1>3, <2>1, <3>2
    <3>4. drawing = piece
      BY <1>1, <2>3, <3>2, <3>3, OnePiece
    <3> QED
      BY <3>2, <3>3, <3>4
  <2>6. drawn = {shape(b, piece)}
    <3> HIDE DEF drawn
    <3> QED
      BY <2>4, <2>5
  <2> HIDE DEF drawn
  <2>7. World!Cardinality(drawn) = 1
    BY <2>6, SameCardinality, FS_Singleton
  <2> QED
    BY <2>7 DEF drawn
<1>5. ASSUME NEW s \in shapes, NEW t \in shapes, s.of = t.of, s.number = t.number
      PROVE  s = t
  <2> HIDE DEF cells, shape
  <2>1. PICK a \in Meshed : \E one \in World!Pieces(cells(a)) : s = shape(a, one)
    BY <1>2
  <2>2. PICK one \in World!Pieces(cells(a)) : s = shape(a, one)
    BY <2>1
  <2>3. PICK b \in Meshed : \E two \in World!Pieces(cells(b)) : t = shape(b, two)
    BY <1>2
  <2>4. PICK two \in World!Pieces(cells(b)) : t = shape(b, two)
    BY <2>3
  <2>5. a = b /\ World!Cardinality(Upto(cells(a), one)) = World!Cardinality(Upto(cells(a), two))
    BY <1>3, <1>5, <2>2, <2>4
  <2>6. one = two
    BY <1>1, <2>2, <2>4, <2>5, NumberTells
  <2> QED
    BY <2>2, <2>4, <2>5, <2>6
<1> QED
  BY <1>4, <1>5 DEF World!EachShapeOnce

LEMMA BuildTells == BuildInv => World!BuiltTrue
<1> SUFFICES ASSUME BuildInv PROVE World!BuiltTrue
  OBVIOUS
<1>1. World!TargetsNamed
  <2>1. names \in Seq(Seq(Word)) /\ DOMAIN names = 1 .. Len(names)
    BY DEF BuildInv, NamesInv
  <2> QED
    BY <2>1 DEF BuildInv, NamesInv, World!TargetsNamed, World!IsInjective
<1>2. ASSUME step = "built"
      PROVE  World!OneRoof /\ World!SurfaceShowsMesh /\ World!EachShapeOnce /\ World!StandsOnTop
  <2>1. Placed /\ CutDone /\ WorldDone
    BY <1>2 DEF BuildInv, Placed
  <2> QED
    BY <2>1, OneRoofHolds, SurfaceHolds, ShapesHold, StandsHold
<1> QED
  BY <1>1, <1>2 DEF World!BuiltTrue

LEMMA BuildStays == UNCHANGED building => (BuildInv => BuildInv')
<1> SUFFICES ASSUME UNCHANGED building, BuildInv PROVE BuildInv'
  OBVIOUS
<1>1. UNCHANGED <<layout, placed, merge, roofs, shapes, surface, stands, names, step>>
  BY DEF building
<1>2. /\ PlacedType => PlacedType'
      /\ ForestInv => ForestInv'
      /\ CutDone => CutDone'
      /\ WorldDone => WorldDone'
      /\ LayoutType => LayoutType'
  BY <1>1, MadeStays
<1>3. NamesInv => NamesInv'
  BY <1>1 DEF NamesInv
<1> QED
  BY <1>1, <1>2, <1>3 DEF BuildInv

-----------------------------------------------------------------------------
(***************************************************************************)
(* The whole                                                               *)
(***************************************************************************)
LEMMA InvStarts == Init => IInv
BY StoreStarts, StandStarts, PipelineStarts, BuildStarts DEF Init, IInv

(* What a part says is of its own variables.                               *)
LEMMA Elsewhere ==
  /\ UNCHANGED storing => (StoreInv => StoreInv')
  /\ UNCHANGED spawning => (StandInv => StandInv')
  /\ UNCHANGED piping => (PipelineInv => PipelineInv')
  /\ UNCHANGED building => (BuildInv => BuildInv')
<1>1. UNCHANGED storing => (StoreInv => StoreInv')
  BY DEF storing, StoreInv, OneByOne, Answered, AtRest, Kept, Store!AtWork, Store!Cuts, Store!Cut,
     Store!Gone
<1>2. UNCHANGED spawning => (StandInv => StandInv')
  BY DEF spawning, StandInv, SpawnerType, LateLoose, RemoveInv, SpawnInv,
     Stand!NothingForgottenThere, Stand!ScoredAsPlaced
<1>3. UNCHANGED piping => (PipelineInv => PipelineInv')
  BY DEF piping, PipelineInv, PipelineType, SceneInv, PageInv, ToolsInv, BuiltInv, ByHand, OfPlace,
     ToolOk, CopyOk, FetchOk, BuildOk, Apart, Pipeline!Fetching, Pipeline!Creating, Pipeline!At,
     Pipeline!Vehicles
<1> QED
  BY <1>1, <1>2, <1>3, BuildStays

LEMMA InvKeeps == IInv /\ [Next]_all => IInv'
<1> SUFFICES ASSUME IInv, [Next]_all PROVE IInv'
  OBVIOUS
<1>1. part' = part
  BY DEF Next, Piping, Storing, Spawning, Building, all
<1>2. part = "store" => StoreInv'
  BY StoreKeeps, Elsewhere DEF IInv, Next, Piping, Storing, Spawning, Building, all
<1>3. part = "spawner" => StandInv'
  BY StandKeeps, Elsewhere DEF IInv, Next, Piping, Storing, Spawning, Building, all
<1>4. part = "pipeline" => PipelineInv'
  BY PipelineKeeps, Elsewhere DEF IInv, Next, Piping, Storing, Spawning, Building, all
<1>5. part = "build" => BuildInv'
  BY BuildKeeps, Elsewhere DEF IInv, Next, Piping, Storing, Spawning, Building, all
<1> QED
  BY <1>1, <1>2, <1>3, <1>4, <1>5 DEF IInv

LEMMA InvHolds == Spec => []IInv
<1> QED
  BY InvStarts, InvKeeps, PTL DEF Spec

(* Whatever save is refused or fails, and wherever the server is killed:   *)
(* of saves that follow one another the one that was answered last is in   *)
(* scene.json or in its backup, and is what the build reads, as long as    *)
(* the backup is not the cut file of a save that failed before the last.   *)
THEOREM EditsAnsweredKept == Spec => []SaveLosesNothing
<1>1. IInv => SaveLosesNothing
  BY StoreHolds DEF IInv, SaveLosesNothing
<1> QED
  BY <1>1, InvHolds, PTL

(* Whatever of Gazebo's calls is refused or late, and wherever the spawner *)
(* is killed: but for the names that no file tells of (a call for one was  *)
(* not answered, its removal was refused, or it was placed by a run that   *)
(* was killed before it saved) what stands is on file, and at the end of a *)
(* run it is what that run placed, which is what is scored.                *)
THEOREM ScenariosPlaced == Spec => []ScenarioStands
<1>1. IInv => ScenarioStands
  BY StandHolds DEF IInv, ScenarioStands
<1> QED
  BY <1>1, InvHolds, PTL

(* Whatever commands are run over a scene at once, fail and are killed, as *)
(* long as none goes over what another holds: what was placed by hand and  *)
(* saved stays, and so do the edits of what was found, until the detect    *)
(* command is run or all is run over a scene with no vehicle left; but for *)
(* a create --force that did not end, a scene is over the data of its own  *)
(* place; and a world and its scenario are of one scene.                   *)
THEOREM ScenesKept == Spec => []PipelineHolds
<1>1. IInv => PipelineHolds
  BY PipelineTold DEF IInv, PipelineHolds
<1> QED
  BY <1>1, InvHolds, PTL
(* Whatever stands where, over whichever ground, in a square of any width: *)
(* over every point of the boxes there is one roof, of the tallest there;  *)
(* the surface file shows from above what the mesh shows; a viewer's file  *)
(* has each point of a roof once; what stands on a building stands on top; *)
(* and no two targets have one name.                                       *)
THEOREM WorldsBuilt == Spec => []BuiltTrue
<1>1. IInv => BuiltTrue
  BY BuildTells DEF IInv, BuiltTrue
<1> QED
  BY <1>1, InvHolds, PTL
=============================================================================
