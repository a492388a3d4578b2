----------------------------- MODULE SurveyNode ----------------------------
(***************************************************************************)
(* What verify/component/mission.py flies: a vehicle with a mission, and   *)
(* the node that opens an operation at each capture of it.  Both are       *)
(* external, and modelled as mission.py takes them to be: from the plan it *)
(* builds, the lines it looks for and the order it expects them in.        *)
(*                                                                         *)
(* A plan is one waypoint, one capture and one hold for each observation   *)
(* point.  The mission is at Way(c) while it flies to point c, at Hold(c)  *)
(* while it holds there.  A hold outlasts the operation inside it, as      *)
(* PLAN_HOLD_S is meant to.  The node learns where the mission is only     *)
(* when it is told, which may be long after.                               *)
(***************************************************************************)
EXTENDS Integers, Sequences, FiniteSets

CONSTANTS
  Captures, \* the number of captures in the plan
  Ops,      \* bound: how many operations the node opens
  Careless  \* whether the node may go on with what it has cancelled

VARIABLES
  at,       \* where the mission is
  mode,     \* the flight mode
  armed,
  told,     \* what the node was told last
  cursor,   \* the captures it has handled
  op,       \* the operation that is open
  opened,   \* how many were opened
  abort,    \* an abort that was not answered yet
  said,     \* every line of the log, as the harness hears it
  offended  \* history: the lines a cancelled operation went on with

fcuVars == <<at, mode, armed>>
nodeVars == <<told, cursor, op, opened, abort, said, offended>>

Points == 1 .. Captures
Way(c) == 2 * c
Hold(c) == 2 * c + 1
Last == Way(Captures + 1)

NoOp == [item |-> 0, id |-> 0, stage |-> "none", cancelled |-> FALSE]
Now == [at |-> at, mode |-> mode]
Line(kind) == [kind |-> kind, item |-> op.item, op |-> op.id]
Say(lines) == said' = said \o lines

Grounded ==
  /\ at = 0 /\ mode = "hold" /\ armed = FALSE
  /\ told = [at |-> 0, mode |-> "hold"]
  /\ cursor = 0 /\ op = NoOp /\ opened = 0 /\ abort = FALSE
  /\ said = <<>> /\ offended = {}

(* A flight an earlier scenario left behind, in the middle of a capture.   *)
LeftFlying ==
  /\ at = Hold(1) /\ mode = "mission" /\ armed = TRUE
  /\ told = Now
  /\ cursor = 1 /\ opened = 1 /\ abort = FALSE
  /\ op = [item |-> 1, id |-> 1, stage |-> "asked", cancelled |-> FALSE]
  /\ said = <<Line("item"), Line("started")>> /\ offended = {}

-----------------------------------------------------------------------------
(***************************************************************************)
(* The vehicle                                                             *)
(***************************************************************************)
(* Flying takes longer than an answer to an abort.                         *)
Reach ==
  /\ armed /\ mode = "mission" /\ at < Last /\ ~abort
  /\ at = 0 \/ at \in {Way(c) : c \in Points}
  /\ at' = IF at = 0 THEN Way(1) ELSE at + 1
  /\ UNCHANGED <<mode, armed, nodeVars>>

(* A mission that still runs through the landing is carried on with it.    *)
Carried ==
  /\ armed /\ mode = "land" /\ at < Last /\ told = Now
  /\ at' = IF at = 0 THEN Way(1) ELSE at + 1
  /\ UNCHANGED <<mode, armed, nodeVars>>

(* Coming down takes longer than it takes mavros to tell the node of it.   *)
Landed ==
  /\ armed /\ mode = "land" /\ told.mode # "mission"
  /\ armed' = FALSE /\ mode' = "hold"
  /\ UNCHANGED <<at, nodeVars>>

-----------------------------------------------------------------------------
(***************************************************************************)
(* The node                                                                *)
(***************************************************************************)

(* It is told where the mission is: its watcher cancels the operation that *)
(* is open when the mission has left its hold or its mode.                 *)
Tell ==
  LET back == at < told.at
      cut == /\ op # NoOp /\ ~op.cancelled
             /\ at # Hold(op.item) \/ mode # "mission"
  IN /\ told # Now
     /\ told' = Now
     /\ cursor' = IF back THEN Cardinality({c \in Points : Hold(c) <= at})
                  ELSE cursor
     /\ Say((IF back THEN <<Line("back")>> ELSE <<>>)
            \o (IF cut THEN <<Line("expired")>> ELSE <<>>))
     /\ op' = [op EXCEPT !.cancelled = @ \/ cut]
     /\ abort' = (abort \/ cut)
     /\ UNCHANGED <<opened, offended, fcuVars>>

(* It handles the captures up to where it was told the mission is: one it  *)
(* holds at opens an operation, one already behind is declined.            *)
Process ==
  LET c == cursor + 1
      new == [item |-> c, id |-> opened + 1, stage |-> "asked", cancelled |-> FALSE]
      line(kind) == [kind |-> kind, item |-> c, op |-> new.id]
  IN /\ op = NoOp /\ told.mode = "mission"
     /\ c \in Points /\ Hold(c) <= told.at
     /\ cursor' = c
     /\ IF told.at = Hold(c)
        THEN /\ opened < Ops
             /\ opened' = opened + 1 /\ op' = new
             /\ Say(<<line("item"), line("started")>>)
        ELSE /\ Say(<<line("item"), line("declined")>>)
             /\ UNCHANGED <<opened, op>>
     /\ UNCHANGED <<told, abort, offended, fcuVars>>

Does(from, to, lines) ==
  /\ op.stage = from /\ ~op.cancelled
  /\ op' = [op EXCEPT !.stage = to]
  /\ Say(lines)
  /\ UNCHANGED <<told, cursor, opened, abort, offended, fcuVars>>

(* The capture is asked for; it finds something, nothing, or only what     *)
(* lies in ignore zones; the survey is dispatched, and succeeds.  Settling *)
(* takes it longer than mavros takes to say that the mission has moved.    *)
Working ==
  \/ Does("asked", "capture", <<Line("capture")>>)
  \/ Does("capture", "gate", <<Line("survey")>>)
  \/ Does("capture", "advance", <<Line("nothing")>>)
  \/ Does("capture", "advance", <<Line("ignored")>>)
  \/ Does("gate", "survey", <<Line("localized")>>)
  \/ told = Now /\ Does("survey", "settled", <<>>)
  \/ Does("settled", "advance", <<Line("succeeded")>>)

Advance ==
  /\ op.stage = "advance" /\ ~op.cancelled
  /\ at' = Way(op.item + 1)
  /\ Say(<<Line("advanced")>>)
  /\ op' = NoOp
  /\ UNCHANGED <<mode, armed, told, cursor, opened, abort, offended>>

Stop ==
  /\ op.cancelled
  /\ Say(<<Line(IF op.stage \in {"gate", "survey", "settled"} THEN "putdown" ELSE "discarded")>>)
  /\ op' = NoOp
  /\ UNCHANGED <<told, cursor, opened, abort, offended, fcuVars>>

AbortReply ==
  /\ abort
  /\ abort' = FALSE
  /\ Say(<<Line("abort")>>)
  /\ UNCHANGED <<told, cursor, op, opened, offended, fcuVars>>

(* What the guards under test are for. *)
GoOn ==
  /\ Careless /\ op.cancelled /\ op.stage \in {"gate", "survey", "settled"}
  /\ Say(<<Line(IF op.stage = "gate" THEN "localized" ELSE "advanced")>>)
  /\ op' = [op EXCEPT !.stage = IF @ = "gate" THEN "survey" ELSE "advance"]
  /\ offended' = offended \cup {Len(said) + 1}
  /\ UNCHANGED <<told, cursor, opened, abort, fcuVars>>

Vehicle == Reach \/ Carried \/ Landed
Node ==
  Tell \/ Process \/ Working \/ Advance \/ Stop \/ AbortReply \/ GoOn

=============================================================================
