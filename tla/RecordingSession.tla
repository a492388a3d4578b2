-------------------------- MODULE RecordingSession --------------------------
(***************************************************************************)
(* What the recording commands of px4sim promise, whatever their steps.    *)
(*                                                                         *)
(* At most one session is owned at a time.  Recorders belong to the owned  *)
(* session when they are launched, and the session is let go only when     *)
(* none of them lives: so there is always something that can stop a        *)
(* recorder, and two sessions never record at once.                        *)
(***************************************************************************)
EXTENDS Integers

CONSTANTS
  Sessions,   \* how many sessions there may be
  Members     \* who records in each: the vehicles and the ground station

VARIABLES
  owned,   \* the session owned, 0 for none
  live     \* the recorders that live, as <<session, member>>

Init == owned = 0 /\ live = {}

Claim ==
  /\ owned = 0
  /\ owned' \in 1 .. Sessions
  /\ UNCHANGED live

Launch ==
  /\ owned # 0
  /\ \E m \in Members : live' = live \cup {<<owned, m>>}
  /\ UNCHANGED owned

(* Recorders end, told to or not, one or several at once. *)
End ==
  /\ live' \in SUBSET live
  /\ UNCHANGED owned

Release ==
  /\ live = {}
  /\ owned' = 0
  /\ UNCHANGED live

Next == Claim \/ Launch \/ End \/ Release

Spec == Init /\ [][Next]_<<owned, live>>

=============================================================================
