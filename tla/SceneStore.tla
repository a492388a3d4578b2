----------------------------- MODULE SceneStore ----------------------------
(***************************************************************************)
(* modules/scenegen/editor_server.py: scene.json, and the one before it,   *)
(* under saves of browsers, each a thread of its own, any of which may     *)
(* fail, and under a server that may be stopped anywhere.  Versions are    *)
(* numbered; version 0 is what the server finds.                           *)
(***************************************************************************)
EXTENDS Integers, FiniteSets

CONSTANT Savers \* the saves, numbered by the version that each brings

VARIABLES
  disk,     \* scene.json and scene.json.bak
  saves,    \* where each POST /save stands
  served,   \* "up", "finished" after /finish, or "down"
  built,    \* what the build read, if it has
  answered, \* history: the version whose save was answered last
  crossed   \* history: whether two of these were ever at work at once

Gone == -1    \* no such file
Mixed == -99  \* a file that two saves have written
Cut(s) == -1 - s \* a file that a save has opened, and not yet written
Cuts == {Cut(s) : s \in Savers}

SceneInit ==
  /\ disk = [scene |-> 0, bak |-> Gone]
  /\ saves = [s \in Savers |-> "none"]
  /\ served = "up" /\ built = Gone /\ answered = 0 /\ crossed = FALSE

AtWork == {s \in Savers : saves[s] \in {"checked", "aside", "open", "written"}}
Turns(s, from, to) == saves[s] = from /\ saves' = [saves EXCEPT ![s] = to]
Running == served # "down"

(* Until it is shut down, a server that has heard /finish takes saves too. *)
Post(s) ==
  /\ Running /\ built = Gone
  /\ Turns(s, "none", "checked")
  /\ crossed' = (crossed \/ AtWork # {} \/ served = "finished")
  /\ UNCHANGED <<disk, served, built, answered>>
Rejected(s) ==
  /\ Running /\ Turns(s, "checked", "refused")
  /\ UNCHANGED <<disk, served, built, answered, crossed>>

(* A mutant: the one before is not moved aside.                            *)
MoveAsideNot(s) ==
  /\ Running /\ Turns(s, "checked", "aside")
  /\ UNCHANGED <<disk, served, built, answered, crossed>>
MoveAside(s) ==
  /\ Running /\ Turns(s, "checked", "aside")
  /\ disk' = IF disk.scene = Gone THEN disk ELSE [scene |-> Gone, bak |-> disk.scene]
  /\ UNCHANGED <<served, built, answered, crossed>>
(* Between exists() and replace() another save has moved it aside.         *)
MovedAway(s) ==
  /\ Running /\ crossed /\ disk.scene = Gone
  /\ Turns(s, "checked", "failed")
  /\ UNCHANGED <<disk, served, built, answered, crossed>>

OpenFile(s) ==
  /\ Running /\ Turns(s, "aside", "open")
  /\ disk' = [disk EXCEPT !.scene = Cut(s)]
  /\ UNCHANGED <<served, built, answered, crossed>>
WriteAll(s) ==
  /\ Running /\ Turns(s, "open", "written")
  /\ disk' = CASE disk.scene = Cut(s) -> [disk EXCEPT !.scene = s]
               [] disk.bak = Cut(s) /\ disk.scene # Cut(s) -> [disk EXCEPT !.bak = s]
               [] OTHER -> [disk EXCEPT !.scene = Mixed]
  /\ UNCHANGED <<served, built, answered, crossed>>
(* The disk is full, or may not be written to: only this thread ends.      *)
Fails(s) ==
  /\ Running /\ \E from \in {"checked", "aside", "open"} : Turns(s, from, "failed")
  /\ UNCHANGED <<disk, served, built, answered, crossed>>
Ok(s) ==
  /\ Running /\ Turns(s, "written", "ok") /\ answered' = s
  /\ UNCHANGED <<disk, served, built, crossed>>

(* The browser saves, and then sends /finish; others may still be saving.  *)
Finish ==
  /\ served = "up" /\ \E s \in Savers : saves[s] = "ok"
  /\ served' = "finished" /\ crossed' = (crossed \/ AtWork # {})
  /\ UNCHANGED <<disk, saves, built, answered>>
(* A file that is cut, or is not there, ends the build before it starts.   *)
Build ==
  /\ served = "finished" /\ built = Gone /\ disk.scene \notin Cuts \cup {Gone}
  /\ built' = disk.scene
  /\ UNCHANGED <<disk, saves, served, answered, crossed>>

Killed ==
  /\ Running /\ served' = "down"
  /\ UNCHANGED <<disk, saves, built, answered, crossed>>

SceneNext ==
  \/ \E s \in Savers :
       Post(s) \/ Rejected(s) \/ MoveAside(s) \/ MovedAway(s) \/ OpenFile(s) \/ WriteAll(s) \/ Ok(s)
       \/ Fails(s)
  \/ Finish \/ Build \/ Killed

-----------------------------------------------------------------------------
(* Of saves that follow one another nothing is lost, wherever one fails or *)
(* the server is stopped: what was answered last is in one of the two      *)
(* files, and what is built is that.  Only a second save in a row, after   *)
(* one that failed with the file open, moves that cut file over the backup.*)
SaveLosesNothing ==
  ~crossed /\ disk.bak \notin Cuts =>
    /\ answered \in {disk.scene, disk.bak}
    /\ built \in {Gone, answered}
=============================================================================
