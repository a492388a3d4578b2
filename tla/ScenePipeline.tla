--------------------------- MODULE ScenePipeline ---------------------------
(***************************************************************************)
(* modules/scenegen/scenegen.py: the commands that fetch, detect, import,  *)
(* edit and build one scene, in processes that share its directory with no *)
(* lock between them.  A fetch, a file to import and a build may fail, and *)
(* a command may be killed anywhere.  The browser's page outlives the      *)
(* server that it came from.                                               *)
(***************************************************************************)
EXTENDS Integers, FiniteSets

CONSTANTS
  Tools, \* the terminals from which commands are started
  Runs,  \* bound: how many commands are started
  Edits  \* bound: how many edits are made in the page

VARIABLES
  scene,   \* scene.json
  data,    \* the places that elevation.npy and satellite.jpg are of
  tools,   \* the command of each terminal
  server,  \* the terminal whose command serves the editor
  page,    \* the scene in the browser, and how often it was edited
  built,   \* what was built since a command was started last
  ran,     \* how many commands were started
  hand,    \* history: what the page saved last, and whether no detect command since
  crossed, \* history: whether a save, a fetch or a build went over another's
  mixed    \* history: whether a create has fetched over a scene, and not ended

Places == {1, 2}
NoFile == [kind |-> "missing"]
CutFile == [kind |-> "cut"]
(* Vehicles placed by hand and found by detect, and targets placed by hand.*)
SceneOf(place, cars, autos, people) ==
  [kind |-> "scene", place |-> place, cars |-> cars, autos |-> autos, people |-> people]
Exists == scene.kind # "missing"
Readable == scene.kind = "scene"
Vehicles(s) == s.cars \cup s.autos

Idle == [cmd |-> "none", args |-> {}, place |-> 0, at |-> "idle", job |-> "none",
         copy |-> NoFile, fresh |-> TRUE]
Nobody == 0
NotBuilt == [world |-> NoFile, elevation |-> 0, clean |-> TRUE, scenario |-> NoFile, whole |-> FALSE]
NotEdited == [cars |-> {}, people |-> {}, autos |-> {}, saved |-> FALSE]

PipelineInit ==
  /\ \/ scene = NoFile /\ data = [elevation |-> 0, imagery |-> 0] /\ hand = NotEdited
     \/ /\ scene = SceneOf(1, {1}, {1}, {1}) /\ data = [elevation |-> 1, imagery |-> 1]
        /\ hand = [cars |-> {1}, people |-> {1}, autos |-> {1}, saved |-> TRUE]
  /\ tools = [t \in Tools |-> Idle] /\ server = Nobody
  /\ page = [copy |-> NoFile, fresh |-> TRUE, edits |-> 0]
  /\ built = NotBuilt
  /\ ran = 0 /\ crossed = FALSE /\ mixed = FALSE

At(t, at) == tools[t].at = at
Goes(t, at) == tools' = [tools EXCEPT ![t].at = at]
Ends(t) == tools' = [tools EXCEPT ![t] = Idle]
Given(t, arg) == arg \in tools[t].args
Busy(t) == tools[t].at # "idle"
Creating == {"elevation", "imagery", "buildings"}
Fetching(t) == tools[t].at \in Creating \/ (At(t, "save") /\ tools[t].job = "create")

-----------------------------------------------------------------------------
(***************************************************************************)
(* The commands, up to their first step.                                   *)
(***************************************************************************)
Create(force) == IF Exists /\ ~force THEN "refused" ELSE "elevation"
All(args, place) ==
  CASE Exists /\ "force" \notin args -> IF "file" \in args THEN "import" ELSE "second"
    [] place = 0 -> "refused"
    [] OTHER -> "elevation"
First(cmd, args, place) ==
  CASE cmd = "create" -> Create("force" \in args)
    [] cmd = "all" -> All(args, place)
    [] cmd = "edit" -> "serve"
    [] ~Exists -> "refused"
    [] cmd = "build-all" -> "build"
    [] OTHER -> cmd

Commands == {"create", "detect", "import", "edit", "build", "all", "build-all"}

Options(cmd) ==
  CASE cmd = "create" -> SUBSET {"force"}
    [] cmd = "all" -> SUBSET {"force", "file", "skip"}
    [] cmd = "detect" -> SUBSET {"keep"}
    [] OTHER -> {{}}

Start(t) ==
  /\ ~Busy(t) /\ ran < Runs /\ ran' = ran + 1
  /\ \E cmd \in Commands, place \in Places \cup {0} : \E args \in Options(cmd) :
       /\ cmd = "create" => place # 0
       /\ cmd \notin {"create", "all"} => place = 0
       /\ LET first == First(cmd, args, place)
          IN /\ tools' = IF first = "refused" THEN tools
                         ELSE [tools EXCEPT ![t] = [Idle EXCEPT !.cmd = cmd,
                                !.args = args \ {"force"}, !.place = place, !.at = first]]
             /\ crossed' = (crossed \/ (first = "elevation" /\ \E o \in Tools \ {t} : Fetching(o)))
  /\ built' = IF \E o \in Tools : At(o, "scenario") THEN built ELSE NotBuilt
  /\ UNCHANGED <<scene, data, server, page, hand, mixed>>

(* Whatever raises, is refused by the server of the map, or is not in the  *)
(* file that is read ends the command.                                     *)
Fails(t) ==
  /\ tools[t].at \in Creating \cup {"import", "detect", "second", "build"}
  /\ ~Readable \/ tools[t].at \in Creating \cup {"import", "build"}
  /\ Ends(t)
  /\ UNCHANGED <<scene, data, server, page, built, ran, hand, crossed, mixed>>

-----------------------------------------------------------------------------
(***************************************************************************)
(* create: elevation, imagery and buildings, and the scene last.           *)
(***************************************************************************)
Elevation(t) ==
  /\ At(t, "elevation") /\ Goes(t, "imagery")
  /\ data' = [data EXCEPT !.elevation = tools[t].place]
  /\ mixed' = (mixed \/ Exists)
  /\ UNCHANGED <<scene, server, page, built, ran, hand, crossed>>
Imagery(t) ==
  /\ At(t, "imagery") /\ Goes(t, "buildings")
  /\ data' = [data EXCEPT !.imagery = tools[t].place]
  /\ UNCHANGED <<scene, server, page, built, ran, hand, crossed, mixed>>

Holds(t, job, copy) ==
  /\ tools' = [tools EXCEPT ![t].at = "save", ![t].job = job, ![t].copy = copy, ![t].fresh = TRUE]
  /\ UNCHANGED <<scene, data, server, page, built, ran, hand, crossed, mixed>>
Buildings(t) ==
  /\ At(t, "buildings")
  /\ Holds(t, "create", SceneOf(tools[t].place, {}, {}, {}))

(* The targets that were imported before are replaced, which are not told  *)
(* apart here; those placed by hand stay.                                  *)
Import(t) ==
  /\ At(t, "import") /\ Readable
  /\ Holds(t, "import", scene)

(* detect: the scene is read, and then the imagery is looked through.      *)
DetectLoads(t) ==
  /\ At(t, "detect") /\ Readable
  /\ tools' = [tools EXCEPT ![t].at = "look", ![t].copy = scene, ![t].fresh = TRUE]
  /\ crossed' = (crossed \/ (tools[t].cmd = "all" /\ ~tools[t].fresh))
  /\ UNCHANGED <<scene, data, server, page, built, ran, hand, mixed>>
(* A mutant: all that was there goes, whoever placed it.                   *)
DetectedAnew(s, found, keep) ==
  [s EXCEPT !.autos = IF keep THEN @ \cup found ELSE found, !.cars = IF keep THEN @ ELSE {}]
Detected(s, found, keep) == [s EXCEPT !.autos = IF keep THEN @ \cup found ELSE found]
Detects(t) ==
  /\ At(t, "look")
  /\ \E found \in SUBSET {1} :
       tools' = [tools EXCEPT ![t].at = "save", ![t].job = "detect",
                   ![t].copy = Detected(@, found, Given(t, "keep"))]
  /\ UNCHANGED <<scene, data, server, page, built, ran, hand, crossed, mixed>>

(* save_scene goes over what is there, whoever has saved it meanwhile.     *)
Stale == [o \in Tools |-> [tools[o] EXCEPT !.fresh = FALSE]]
Save(t) ==
  /\ At(t, "save") /\ scene' = tools[t].copy
  /\ tools' = IF tools[t].cmd # "all" THEN [Stale EXCEPT ![t] = Idle]
              ELSE [Stale EXCEPT ![t].at = IF tools[t].job = "detect" THEN "serve" ELSE "second"]
  /\ page' = [page EXCEPT !.fresh = FALSE]
  /\ crossed' = (crossed \/ ~tools[t].fresh)
  /\ hand' = CASE tools[t].job = "create" -> NotEdited
               [] tools[t].job = "detect" -> [hand EXCEPT !.saved = @ /\ tools[t].cmd = "all"]
               [] OTHER -> hand
  /\ mixed' = (mixed /\ tools[t].job # "create")
  /\ UNCHANGED <<data, server, built, ran>>

(* all: what is there already is not looked for again.                     *)
Second(t) ==
  /\ At(t, "second") /\ Readable
  /\ tools' = [tools EXCEPT ![t].fresh = TRUE,
       ![t].at = IF Given(t, "skip") \/ Vehicles(scene) # {} THEN "serve" ELSE "detect"]
  /\ UNCHANGED <<scene, data, server, page, built, ran, hand, crossed, mixed>>

-----------------------------------------------------------------------------
(***************************************************************************)
(* The editor: one server has the port, and the page saves to whichever.   *)
(***************************************************************************)
Serve(t) ==
  /\ At(t, "serve")
  /\ IF Readable /\ server = Nobody
     THEN Goes(t, "serving") /\ server' = t
     ELSE Ends(t) /\ UNCHANGED server
  /\ UNCHANGED <<scene, data, page, built, ran, hand, crossed, mixed>>
Interrupted(t) ==
  /\ At(t, "serving") /\ server' = Nobody
  /\ Ends(t)
  /\ UNCHANGED <<scene, data, page, built, ran, hand, crossed, mixed>>
Finish ==
  /\ server # Nobody /\ tools[server].cmd = "all" /\ page.copy # NoFile
  /\ Goes(server, "build") /\ server' = Nobody
  /\ UNCHANGED <<scene, data, page, built, ran, hand, crossed, mixed>>

PageOpens ==
  /\ server # Nobody /\ Readable
  /\ page' = [page EXCEPT !.copy = scene, !.fresh = TRUE]
  /\ UNCHANGED <<scene, data, tools, server, built, ran, hand, crossed, mixed>>
PageEdits ==
  /\ page.copy # NoFile /\ page.edits < Edits
  /\ \E copy \in {[page.copy EXCEPT !.cars = {1} \ @], [page.copy EXCEPT !.people = {1} \ @],
                    [page.copy EXCEPT !.autos = {}]} :
       copy # page.copy /\ page' = [page EXCEPT !.copy = copy, !.edits = @ + 1]
  /\ UNCHANGED <<scene, data, tools, server, built, ran, hand, crossed, mixed>>
PageSaves ==
  /\ server # Nobody /\ page.copy # NoFile /\ scene' = page.copy
  /\ tools' = Stale
  /\ page' = [page EXCEPT !.fresh = TRUE]
  /\ hand' = [cars |-> page.copy.cars, people |-> page.copy.people,
              autos |-> page.copy.autos, saved |-> TRUE]
  /\ crossed' = (crossed \/ ~page.fresh)
  /\ UNCHANGED <<data, server, built, ran, mixed>>

-----------------------------------------------------------------------------
(* The scene is read once; the scenario is written last.                   *)
World(t) ==
  /\ At(t, "build") /\ Readable
  /\ tools' = [tools EXCEPT ![t].at = "scenario", ![t].copy = scene]
  /\ built' = [world |-> scene, elevation |-> data.elevation, clean |-> ~mixed,
               scenario |-> built.scenario, whole |-> FALSE]
  /\ crossed' = (crossed \/ \E o \in Tools \ {t} : At(o, "scenario"))
  /\ UNCHANGED <<scene, data, server, page, ran, hand, mixed>>
Scenario(t) ==
  /\ At(t, "scenario") /\ Ends(t)
  /\ built' = [built EXCEPT !.scenario = tools[t].copy, !.whole = TRUE]
  /\ UNCHANGED <<scene, data, server, page, ran, hand, crossed, mixed>>

(* A file that was being written is cut off.                               *)
Killed(t) ==
  /\ Busy(t) /\ Ends(t)
  /\ server' = IF server = t THEN Nobody ELSE server
  /\ scene' \in {scene} \cup (IF At(t, "save") THEN {CutFile} ELSE {})
  /\ UNCHANGED <<data, page, built, ran, hand, crossed, mixed>>

(* Once one has gone over another's, nothing is claimed any more.          *)
PipelineNext ==
  ~crossed /\
  \/ \E t \in Tools :
       \/ Start(t) \/ Fails(t) \/ Elevation(t) \/ Imagery(t) \/ Buildings(t) \/ Import(t)
       \/ DetectLoads(t) \/ Detects(t) \/ Save(t) \/ Second(t) \/ Serve(t) \/ Interrupted(t)
       \/ World(t) \/ Scenario(t) \/ Killed(t)
  \/ Finish \/ PageOpens \/ PageEdits \/ PageSaves

-----------------------------------------------------------------------------
(***************************************************************************)
(* Properties                                                              *)
(***************************************************************************)
(* What was placed or deleted by hand and saved stays so, whatever is run, *)
(* fails or is killed after it, until a create starts over.  The same goes *)
(* for what was found and then edited: only the detect command takes the   *)
(* detections back, and all does not, as long as a vehicle is left in what *)
(* was saved: over a scene without one it looks for them again.            *)
EditsKept ==
  Readable /\ ~crossed =>
    /\ scene.cars = hand.cars /\ scene.people = hand.people
    /\ hand.saved /\ hand.cars \cup hand.autos # {} => scene.autos = hand.autos

(* A scene is drawn over the elevation and the imagery of its own place,   *)
(* but for the one that a create --force has fetched over and then failed, *)
(* or was killed: the elevation and the imagery are new, and it is old.    *)
OnePlace ==
  Readable /\ ~crossed /\ ~mixed =>
    data = [elevation |-> scene.place, imagery |-> scene.place]

(* The world and the scenario of a build that ended are of one scene, on   *)
(* the elevation of its place, but for such a create before it.            *)
BuiltWhole ==
  ~crossed /\ built.whole =>
    /\ built.world = built.scenario
    /\ built.clean => built.elevation = built.world.place

PipelineHolds == EditsKept /\ OnePlace /\ BuiltWhole

=============================================================================
