------------------------------ MODULE Spawner ------------------------------
(***************************************************************************)
(* modules/sim/scenes/spawn_scenario.py: what stands on a scene, placed    *)
(* and cleared by calls to Gazebo, each of which may be refused, or time   *)
(* out and be carried out later or never.  Gazebo takes the calls for one  *)
(* name in their order, and answers a call when it has queued it: a create *)
(* that was answered may fail, and leaves an older copy in place.  The     *)
(* script may be killed, and Gazebo restarted.                             *)
(***************************************************************************)
EXTENDS Integers, FiniteSets, Sequences

CONSTANTS
  Entities, \* the names of entities
  Runs      \* bound: how often the script is started

VARIABLES
  gazebo,   \* which scenario's entity stands under each name
  late,     \* what the calls that timed out, and are still with Gazebo, want there
  files,    \* STATE_FILE and RESOLVED_FILE
  spawner,  \* the locals of the command that runs
  loose,    \* history: the names under which may stand what no file tells of:
            \* a call for it timed out, its removal was refused, or the run
            \* that placed it was killed before it saved
  runs      \* how often the script was started

Nothing == 0
(* Three layouts with a name in common; the last is the empty one.         *)
Scenarios == {1, 2, 3}
Wanted(s) ==
  CASE s = 1 -> Entities
    [] s = 2 -> {e \in Entities : \E f \in Entities : f < e}
    [] OTHER -> {}

Idle == [at |-> "idle", scenario |-> Nothing, todo |-> {}, placed |-> {}, read |-> FALSE]
SpawnerInit ==
  /\ gazebo = [e \in Entities |-> Nothing]
  /\ late = [e \in Entities |-> <<>>]
  /\ files = [names |-> {}, scenario |-> Nothing, resolved |-> {}]
  /\ spawner = Idle /\ loose = {} /\ runs = 0

(* cmd_spawn starts by removing what is recorded; cmd_clear does only that.*)
Start ==
  /\ spawner.at \in {"idle", "done"} /\ runs < Runs
  /\ \E s \in Scenarios \cup {Nothing} :
       spawner' = [Idle EXCEPT !.at = "remove", !.scenario = s, !.todo = files.names]
  /\ runs' = runs + 1
  /\ UNCHANGED <<gazebo, late, files, loose>>

-----------------------------------------------------------------------------
(***************************************************************************)
(* One call.  It runs beside its siblings; which ends first is open.       *)
(***************************************************************************)
Called(e) == spawner' = [spawner EXCEPT !.todo = @ \ {e}]
TimedOut(e, wanted) ==
  /\ late' = [late EXCEPT ![e] = Append(@, wanted)]
  /\ loose' = loose \cup {e}
  /\ Called(e) /\ UNCHANGED <<gazebo, files, runs>>

(* What remove answers is counted and not kept.                            *)
Remove(e) ==
  /\ spawner.at = "remove" /\ e \in spawner.todo
  /\ \/ /\ late[e] = <<>> /\ gazebo' = [gazebo EXCEPT ![e] = Nothing]
        /\ loose' = loose \ {e}
        /\ Called(e) /\ UNCHANGED <<late, files, runs>>
     \/ /\ loose' = loose \cup {e}
        /\ Called(e) /\ UNCHANGED <<gazebo, late, files, runs>>
     \/ TimedOut(e, Nothing)

Create(e) ==
  /\ spawner.at = "spawn" /\ e \in spawner.todo
  /\ \/ /\ late[e] = <<>>
        /\ \E stands \in IF gazebo[e] = Nothing THEN {Nothing, spawner.scenario} ELSE {gazebo[e]} :
             gazebo' = [gazebo EXCEPT ![e] = stands]
        /\ loose' = IF gazebo[e] = Nothing THEN loose \ {e} ELSE loose
        /\ spawner' = [spawner EXCEPT !.todo = @ \ {e}, !.placed = @ \cup {e}]
        /\ UNCHANGED <<late, files, runs>>
     \/ Called(e) /\ UNCHANGED <<gazebo, late, files, loose, runs>>
     \/ TimedOut(e, spawner.scenario)

(* What timed out is carried out after all, or never was received.         *)
Late(e) ==
  /\ late[e] # <<>>
  /\ late' = [late EXCEPT ![e] = Tail(@)]
  /\ \/ UNCHANGED gazebo
     \/ gazebo' = [gazebo EXCEPT ![e] =
          IF Head(late[e]) = Nothing \/ @ = Nothing THEN Head(late[e]) ELSE @]
  /\ UNCHANGED <<files, spawner, loose, runs>>

-----------------------------------------------------------------------------
Removed ==
  /\ spawner.at = "remove" /\ spawner.todo = {}
  /\ IF spawner.scenario = Nothing
     THEN /\ spawner' = [spawner EXCEPT !.at = "done"]
          /\ files' = [files EXCEPT !.names = {}]
     ELSE /\ spawner' = [spawner EXCEPT !.at = "spawn", !.todo = Wanted(spawner.scenario)]
          /\ UNCHANGED files
  /\ UNCHANGED <<gazebo, late, loose, runs>>

Saves(recorded) ==
  /\ spawner.at = "spawn" /\ spawner.todo = {}
  /\ files' = [files EXCEPT !.names = recorded]
  /\ spawner' = [spawner EXCEPT !.at = "poses"]
  /\ UNCHANGED <<gazebo, late, loose, runs>>
(* A mutant: where one of the batch fails, its siblings are not recorded.  *)
SaveAllOrNone == Saves(IF spawner.placed = Wanted(spawner.scenario) THEN spawner.placed ELSE {})
SaveState == Saves(spawner.placed)

(* The poses that Gazebo reports in the time that is given to it, if any.  *)
WriteResolved ==
  /\ spawner.at = "poses"
  /\ \E poses \in SUBSET {e \in Entities : gazebo[e] # Nothing}, read \in BOOLEAN :
       /\ files' = IF ~read THEN files
                   ELSE [files EXCEPT !.scenario = spawner.scenario,
                     !.resolved = {[name |-> e, of |-> gazebo[e]] : e \in poses \cap spawner.placed}]
       /\ spawner' = [spawner EXCEPT !.at = "done", !.read = read]
  /\ UNCHANGED <<gazebo, late, loose, runs>>

-----------------------------------------------------------------------------
(* What was placed is told of by no file yet; and the file that was being  *)
(* written is cut, which load_state takes for an empty one.                *)
Killed ==
  /\ spawner.at \notin {"idle", "done"}
  /\ loose' = IF spawner.at = "spawn" THEN loose \cup spawner.placed ELSE loose
  /\ \E kept \in {files.names} \cup
          (IF spawner.at \in {"remove", "spawn"} /\ spawner.todo = {} THEN {{}} ELSE {}) :
       files' = [files EXCEPT !.names = kept]
  /\ spawner' = Idle
  /\ UNCHANGED <<gazebo, late, runs>>

(* With the container that the script runs in, whose /tmp may be another.  *)
GazeboRestarts ==
  /\ runs < Runs
  /\ gazebo' = [e \in Entities |-> Nothing] /\ late' = [e \in Entities |-> <<>>]
  /\ \E kept \in {files.names, {}} : files' = [files EXCEPT !.names = kept]
  /\ spawner' = Idle /\ loose' = {}
  /\ UNCHANGED runs

SpawnerNext ==
  \/ Start \/ Removed \/ SaveState \/ WriteResolved
  \/ Killed \/ GazeboRestarts
  \/ \E e \in Entities : Remove(e) \/ Create(e) \/ Late(e)

-----------------------------------------------------------------------------
(***************************************************************************)
(* Properties                                                              *)
(***************************************************************************)
(* What stands in the world can be cleared again: it is recorded, or at    *)
(* hand, but for the names that no file tells of.                          *)
NothingForgottenThere ==
  \A e \in Entities : gazebo[e] # Nothing =>
    e \in files.names \cup spawner.placed \cup loose

(* A run that ends has replaced what stood before it, and a clear leaves   *)
(* nothing, but for the names that no file tells of.                       *)
Replaced ==
  spawner.at = "done" =>
    \A e \in Entities \ loose : gazebo[e] # Nothing =>
      e \in spawner.placed /\ gazebo[e] = spawner.scenario

(* Where poses were read back, those that are scored are of what this run  *)
(* placed, and an older copy is among them only under such a name.         *)
ScoredAsPlaced ==
  spawner.at = "done" /\ spawner.read =>
    \A entry \in files.resolved :
      entry.name \in spawner.placed /\ (entry.of = files.scenario \/ entry.name \in loose)

ScenarioStands == NothingForgottenThere /\ Replaced /\ ScoredAsPlaced

=============================================================================
