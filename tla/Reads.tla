------------------------------- MODULE Reads -------------------------------
(***************************************************************************)
(* verify/component/uas.py, `topic`, `heading`, `fiducial` and `scene`:    *)
(* commands that put together what they read on several topics, at several *)
(* moments, of a vehicle that moves on.  Directions are quarters of a      *)
(* turn, each further apart than HEADING_TOLERANCE_DEG.                    *)
(***************************************************************************)
EXTENDS Integers, Sequences, FiniteSets

CONSTANT Poses \* bound: the poses the camera takes, one after another

VARIABLES
  task,   \* the command
  place,  \* where it stands
  topic,  \* of the topic it prints: its durability, and whether it spoke
  facing, \* the vehicle's heading, how it is drawn, and its camera's footprint
  found,  \* the bearings that were read
  gimbal, \* the camera: its pose, and the poses that reached the frame tree
  shot,   \* the survey shot that was heard last
  mark,   \* the pose that the mark was worked out from
  moves,  \* the corrections that were published
  read,   \* the correction that was taken
  drawn,  \* the ground as it is drawn
  result  \* what is reported

readsVars == <<task, place, topic, facing, found, gimbal, shot, mark, moves, read,
               drawn, result>>

Quarters == 0 .. 3
NoShot == [pose |-> 0, ours |-> FALSE]
NoMove == [right |-> FALSE, ours |-> FALSE]
Unread == -1

Goto(where) == place' = where /\ UNCHANGED result
Exit(what) == place' = "done" /\ result' = what
Same == UNCHANGED <<task, drawn>>
SameTopic == UNCHANGED topic
SameHeading == UNCHANGED <<facing, found>>
SameSurvey == UNCHANGED <<gimbal, shot, mark, moves, read>>

-----------------------------------------------------------------------------
(***************************************************************************)
(* topic: one message of any topic, read as latched                        *)
(***************************************************************************)
Compatible(reader, writer) == reader = "latched" => writer = "latched"

(* A late joiner is given what was said before only by a latched writer.   *)
Heard ==
  /\ Compatible("latched", topic.durability)
  /\ topic.again \/ (topic.spoke /\ topic.durability = "latched")

ReadTopic ==
  /\ task = "topic" /\ place = "subscribed"
  /\ Exit(IF Heard THEN "message" ELSE "nothing")
  /\ Same /\ SameTopic /\ SameHeading /\ SameSurvey

-----------------------------------------------------------------------------
(***************************************************************************)
(* heading: the compass against the frames that are drawn                  *)
(***************************************************************************)
(* The compass is the last one heard, to the end.                          *)
Compass ==
  /\ task = "heading" /\ place # "done"
  /\ found' = [found EXCEPT !.compass = facing.heading]
  /\ Goto(IF place = "compass" THEN "airframe" ELSE place)
  /\ UNCHANGED facing /\ Same /\ SameTopic /\ SameSurvey

Lookup ==
  /\ task = "heading" /\ place \in {"airframe", "camera", "footprint"}
  /\ found' = [found EXCEPT ![place] =
                IF place = "footprint" THEN (facing.drawn + facing.laid) % 4 ELSE facing.drawn]
  /\ Goto(CASE place = "airframe" -> "camera" [] place = "camera" -> "footprint"
            [] OTHER -> "judge")
  /\ UNCHANGED facing /\ Same /\ SameTopic /\ SameSurvey

(* A footprint that never comes is not compared; nothing else is missed.   *)
LookupLate ==
  /\ task = "heading" /\ place \in {"compass", "airframe", "camera", "footprint"}
  /\ IF place = "footprint" THEN Goto("judge") ELSE Exit("nothing")
  /\ Same /\ SameTopic /\ SameHeading /\ SameSurvey

(* Only a camera that looks down draws its footprint where it points.      *)
HeadingFaults ==
  (IF found.airframe # found.compass THEN {"airframe"} ELSE {})
  \cup (IF facing.down /\ found.footprint \notin {Unread, found.camera}
        THEN {"footprint"} ELSE {})

JudgeHeading ==
  /\ task = "heading" /\ place = "judge"
  /\ Exit(IF HeadingFaults = {} THEN "right" ELSE "fault")
  /\ Same /\ SameTopic /\ SameHeading /\ SameSurvey

(* The vehicle turns; a station that is told draws it so, sooner or later. *)
Turn ==
  /\ task = "heading" /\ place # "done" /\ ~facing.turned
  /\ \E q \in Quarters \ {facing.heading} :
       facing' = [facing EXCEPT !.heading = q, !.turned = TRUE]
  /\ UNCHANGED found /\ Goto(place) /\ Same /\ SameTopic /\ SameSurvey
Redraw ==
  /\ task = "heading" /\ place # "done"
  /\ facing.told /\ facing.drawn # facing.heading
  /\ facing' = [facing EXCEPT !.drawn = facing.heading]
  /\ UNCHANGED found /\ Goto(place) /\ Same /\ SameTopic /\ SameSurvey

-----------------------------------------------------------------------------
(***************************************************************************)
(* fiducial: the shot, the mark worked out from the pose of the shot, and  *)
(* the correction that the localization makes of it                        *)
(***************************************************************************)
Surveying == task = "fiducial" /\ place # "done"
Others == Same /\ SameTopic /\ SameHeading

Shoot ==
  /\ Surveying /\ place = "shoot"
  /\ \/ shot' = [pose |-> gimbal.pose, ours |-> TRUE] /\ Goto("shot")
     \/ UNCHANGED shot /\ Goto("shot")
     \/ UNCHANGED shot /\ Exit("nothing")
  /\ UNCHANGED <<gimbal, mark, moves, read>> /\ Others

TakeShot ==
  /\ Surveying /\ place = "shot"
  /\ IF shot # NoShot THEN Goto("pose") ELSE Exit("nothing")
  /\ SameSurvey /\ Others

(* A mutant: the pose now.                                                 *)
PoseOfNow == gimbal.pose
PoseOf == shot.pose

WorkOut ==
  /\ Surveying /\ place = "pose"
  /\ \/ PoseOf \in gimbal.tree /\ mark' = PoseOf /\ Goto("localize")
     \/ shot.pose \notin gimbal.tree /\ UNCHANGED mark /\ Exit("nothing")
  /\ UNCHANGED <<gimbal, shot, moves, read>> /\ Others

(* The answer of the call is not looked at.                                *)
Localize ==
  /\ Surveying /\ place = "localize"
  /\ \/ moves' = moves \cup {[right |-> mark = shot.pose, ours |-> TRUE]}
     \/ UNCHANGED moves
  /\ Goto("correction")
  /\ UNCHANGED <<gimbal, shot, mark, read>> /\ Others

(* The first correction that comes, from before the shot on, is kept.      *)
Correction ==
  /\ Surveying /\ read = NoMove
  /\ \E m \in moves : read' = m
  /\ Goto(place)
  /\ UNCHANGED <<gimbal, shot, mark, moves>> /\ Others
TakeCorrection ==
  /\ Surveying /\ place = "correction"
  /\ Exit(IF read # NoMove THEN "correction" ELSE "nothing")
  /\ SameSurvey /\ Others

(* The camera moves on, its poses reach the frame tree, and somebody else  *)
(* surveys the marker too.                                                 *)
Move ==
  /\ Surveying /\ gimbal.pose < Poses
  /\ gimbal' = [gimbal EXCEPT !.pose = @ + 1]
  /\ Goto(place) /\ UNCHANGED <<shot, mark, moves, read>> /\ Others
PoseArrives ==
  /\ Surveying
  /\ \E p \in (1 .. gimbal.pose) \ gimbal.tree : gimbal' = [gimbal EXCEPT !.tree = @ \cup {p}]
  /\ Goto(place) /\ UNCHANGED <<shot, mark, moves, read>> /\ Others
OtherSurvey ==
  /\ Surveying
  /\ \/ shot.ours = FALSE /\ place \in {"shoot", "shot"}
        /\ shot' = [pose |-> gimbal.pose, ours |-> FALSE] /\ UNCHANGED moves
     \/ moves' = moves \cup {[right |-> TRUE, ours |-> FALSE]} /\ UNCHANGED shot
  /\ Goto(place) /\ UNCHANGED <<gimbal, mark, read>> /\ Others

-----------------------------------------------------------------------------
(***************************************************************************)
(* scene: the map on the ground, read off the edges of the mesh            *)
(***************************************************************************)
(* The mesh is three vertices a side, in the order they come in; the image *)
(* measures v down from its northern edge, u from its western one.  A map  *)
(* may lie on it in eight ways: turned, and mirrored or not.               *)
Cells == 0 .. 2
Mesh == <<<<0, 0>>, <<1, 0>>, <<2, 0>>, <<0, 1>>, <<1, 1>>, <<2, 1>>, <<0, 2>>, <<1, 2>>, <<2, 2>>>>
Vertex(i) == LET c == Mesh[IF drawn.backwards THEN 10 - i ELSE i]
             IN IF drawn.columns THEN <<c[2], c[1]>> ELSE c
East(i) == Vertex(i)[1]
North(i) == Vertex(i)[2]
Uv(i) ==
  LET u == IF drawn.east THEN 2 - East(i) ELSE East(i)
      v == IF drawn.north THEN North(i) ELSE 2 - North(i)
  IN IF drawn.turned THEN <<v, u>> ELSE <<u, v>>
FirstWith(best) == CHOOSE i \in best : \A j \in best : i <= j

(* A mutant: only one edge of each pair is looked at.                      *)
SceneFaultsOneEdge ==
  (IF Uv(FirstWith({i \in 1 .. 9 : North(i) = 2}))[2] # 0 THEN {"north"} ELSE {})
  \cup (IF Uv(FirstWith({i \in 1 .. 9 : East(i) = 2}))[1] # 2 THEN {"east"} ELSE {})
SceneFaults ==
  (IF \/ Uv(FirstWith({i \in 1 .. 9 : North(i) = 2}))[2] # 0
      \/ Uv(FirstWith({i \in 1 .. 9 : North(i) = 0}))[2] # 2 THEN {"north"} ELSE {})
  \cup (IF \/ Uv(FirstWith({i \in 1 .. 9 : East(i) = 2}))[1] # 2
           \/ Uv(FirstWith({i \in 1 .. 9 : East(i) = 0}))[1] # 0 THEN {"east"} ELSE {})

JudgeScene ==
  /\ task = "scene" /\ place = "judge"
  /\ Exit(IF SceneFaults = {} THEN "right" ELSE "fault")
  /\ Same /\ SameTopic /\ SameHeading /\ SameSurvey

-----------------------------------------------------------------------------
Start == [topic |-> "subscribed", heading |-> "compass", fiducial |-> "shoot",
          scene |-> "judge"]
NoScene == [east |-> FALSE, north |-> FALSE, turned |-> FALSE, backwards |-> FALSE,
            columns |-> FALSE]

ReadsInit ==
  /\ task \in DOMAIN Start /\ place = Start[task] /\ result = "none"
  /\ topic \in IF task # "topic" THEN {[durability |-> "latched", spoke |-> FALSE, again |-> FALSE]}
               ELSE [durability : {"latched", "volatile"}, spoke : BOOLEAN, again : BOOLEAN]
  /\ \E q \in IF task = "heading" THEN Quarters ELSE {0} :
     \E told, down \in IF task = "heading" THEN BOOLEAN ELSE {TRUE} :
     \E laid \in IF task = "heading" THEN {0, 1} ELSE {0} :
       facing = [heading |-> q, drawn |-> IF told THEN q ELSE 0, told |-> told,
                 laid |-> laid, down |-> down, turned |-> FALSE]
  /\ found = [compass |-> Unread, airframe |-> Unread, camera |-> Unread,
              footprint |-> Unread]
  /\ gimbal = [pose |-> 1, tree |-> {}] /\ shot = NoShot /\ mark = 0
  /\ moves = {} /\ read = NoMove
  /\ drawn \in IF task = "scene" THEN [DOMAIN NoScene -> BOOLEAN] ELSE {NoScene}

ReadsNext ==
  \/ ReadTopic
  \/ Compass \/ Lookup \/ LookupLate \/ JudgeHeading \/ Turn \/ Redraw
  \/ Shoot \/ TakeShot \/ WorkOut \/ Localize \/ Correction \/ TakeCorrection
  \/ Move \/ PoseArrives \/ OtherSurvey
  \/ JudgeScene

-----------------------------------------------------------------------------
(***************************************************************************)
(* Properties                                                              *)
(***************************************************************************)

(* A fault of the heading, of a vehicle that did not turn meanwhile, means *)
(* that it is drawn wrong, and a wrong one is never passed as right; a map *)
(* that is turned or mirrored in any of the seven wrong ways is a fault,   *)
(* in whatever order the mesh comes.                                       *)
DrawnIsJudged ==
  /\ task = "heading" /\ ~facing.turned =>
       /\ result = "fault" => facing.drawn # facing.heading \/ (facing.laid # 0 /\ facing.down)
       /\ result = "right" => /\ facing.drawn = facing.heading
                              /\ ~facing.down \/ found.footprint = Unread \/ facing.laid = 0
  /\ task = "scene" /\ place = "done" =>
       (result = "right" <=> ~drawn.east /\ ~drawn.north /\ ~drawn.turned)

(* The marker is marked where the shot shows it, however far the camera    *)
(* has moved on: a correction that was asked for is right.                 *)
MarkedWhereItStood == \A m \in moves : m.right
=============================================================================
