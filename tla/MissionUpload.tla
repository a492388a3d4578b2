--------------------------- MODULE MissionUpload ---------------------------
(***************************************************************************)
(* scripts/mission-upload.py: a plan is expanded, pushed to the vehicle,   *)
(* and the mission put back to its start.  MAVROS may not be there, may    *)
(* refuse, may answer late or never, whether the vehicle took what it was  *)
(* sent or not; and another station may send it a plan of its own.         *)
(***************************************************************************)
EXTENDS Naturals, Sequences, SequencesExt

CONSTANT Plans \* the plans that there are: sequences of items

VARIABLES
  plan,     \* the items of the file
  fcu,      \* the vehicle's mission and where it is
  uploader, \* where upload stands
  outcome,  \* "ok" or "error", once it has ended
  other     \* whether another station has interfered

Item(kind, nested) == [kind |-> kind, nested |-> nested]
Way == Item("simple", <<>>)
(* External: an item of a QGroundControl plan: a waypoint, a survey with   *)
(* the items cached for it, or another; an unreadable file has none.       *)
IsItem(item) ==
  \/ item \in {Way, Item("other", <<>>)}
  \/ /\ item = Item("complex", item.nested)
     /\ item.nested \in Seq({"simple", "other"})

Leaves(item) == IF item.kind = "complex" THEN item.nested ELSE <<item.kind>>
(* A mutant: what it does not know is left out.                            *)
UnsupportedNever(item) == FALSE
Unsupported(item) ==
  \/ item.kind = "complex" /\ item.nested = <<>>
  \/ \E kind \in Range(Leaves(item)) : kind # "simple"
WaypointsOf(items) ==
  SelectSeq(FlattenSeq([i \in DOMAIN items |-> Leaves(items[i])]), LAMBDA leaf : leaf = "simple")
Waypoints == WaypointsOf(plan)

UploadInit ==
  /\ plan \in Plans
  /\ fcu = [mission |-> <<"old">>, cursor |-> 1]
  /\ uploader = "load" /\ outcome = "none" /\ other = FALSE

Raise == uploader' = "done" /\ outcome' = "error"
Continue(where) == uploader' = where /\ UNCHANGED outcome

Expand ==
  /\ uploader = "load"
  /\ IF Waypoints = <<>> \/ \E i \in DOMAIN plan : Unsupported(plan[i])
     THEN Raise ELSE Continue("push")
  /\ UNCHANGED <<plan, fcu, other>>

NoService ==
  /\ uploader \in {"push", "reset"}
  /\ Raise /\ UNCHANGED <<plan, fcu, other>>

Push ==
  /\ uploader = "push"
  /\ \/ fcu' = [fcu EXCEPT !.mission = Waypoints] /\ (Continue("reset") \/ Raise)
     \/ UNCHANGED fcu /\ Raise
  /\ UNCHANGED <<plan, other>>

Reset ==
  /\ uploader = "reset"
  /\ \/ /\ fcu' = [fcu EXCEPT !.cursor = 0]
        /\ Raise \/ (uploader' = "done" /\ outcome' = "ok")
     \/ UNCHANGED fcu /\ Raise
  /\ UNCHANGED <<plan, other>>

OtherStation ==
  /\ ~other /\ other' = TRUE
  /\ fcu' \in {[mission |-> <<"theirs">>, cursor |-> 0], [fcu EXCEPT !.cursor = 1]}
  /\ UNCHANGED <<plan, uploader, outcome>>

UploadNext == Expand \/ NoService \/ Push \/ Reset \/ OtherStation

-----------------------------------------------------------------------------
(* What is reported as uploaded is on the vehicle, all of it, and will be  *)
(* flown from its first item, unless another station interfered; a plan    *)
(* that is refused for its items has not reached the vehicle.              *)
UploadHonest ==
  LET flyable(item) == item = Way \/ Range(item.nested) = {"simple"}
  IN /\ outcome = "ok" /\ ~other => fcu = [mission |-> Waypoints, cursor |-> 0]
     /\ (\E i \in DOMAIN plan : ~flyable(plan[i])) =>
          outcome # "ok" /\ (other \/ fcu.mission = <<"old">>)
=============================================================================
