---------------------------- MODULE MissionCheck ---------------------------
(***************************************************************************)
(* verify/component/mission.py: a harness that flies one scenario, moves   *)
(* the mission out from under the node while it works, and judges the node *)
(* by the lines of its log.  Waits are bounded; one that waits for what    *)
(* must follow from a command is long enough for the node to be told of it *)
(* and to answer (Informed, Quiet), the others may end at any time.        *)
(***************************************************************************)
EXTENDS SurveyNode

CONSTANTS
  Scenarios, \* the scenarios flown
  LeftFor,   \* bound: those that find the vehicle of an earlier one flying
  Tries,     \* bound: range(4) of start_mission and range(3) of B and C
  Lag        \* bound: steps of node and vehicle between two statements

VARIABLES
  scen,    \* the scenario
  pc,      \* where it stands
  h,       \* its locals: marks, the operation it follows, attempts
  notes,   \* what it has written against the node
  verdict,
  late     \* steps of the others since its last statement

harnessVars == <<scen, pc, h, notes, verdict>>
vars == <<fcuVars, nodeVars, harnessVars, late>>

Init ==
  /\ scen \in Scenarios /\ pc = "load"
  /\ Grounded \/ (scen \in LeftFor /\ LeftFlying)
  /\ h = [noticed |-> 0, op |-> 0, item |-> 0, from |-> 0,
          tries |-> 1, mark_no |-> 1, aloft |-> FALSE]
  /\ notes = {} /\ verdict = "none" /\ late = 0

(* lines(mark, pattern): positions.                                        *)
Lines(mark, kinds) == {i \in mark + 1 .. Len(said) : said[i].kind \in kinds}
OfOp(lines) == {i \in lines : said[i].op = h.op}
FirstOf(lines) == CHOOSE i \in lines : \A j \in lines : i <= j

Informed == told = Now
Quiet == Informed /\ ~op.cancelled /\ ~abort

(* since(): the log begins where the scenario reads it from.              *)
Forget == said' = <<>> /\ offended' = {}

(* What it waits for at each place.                                        *)
MinItem == IF scen \in {"D", "H"} THEN Captures ELSE 1
(* A mutant: the end of the operation is not waited for.                   *)
CancelMarksOne == <<{"expired"}, {"abort"}, {"abort"}>>
CancelMarks == <<{"expired"}, {"discarded", "putdown"}, {"abort"}>>
Awaited ==
  CASE pc = "seek" -> {i \in Lines(0, {"started"}) : said[i].item >= MinItem}
    [] pc = "fired" -> OfOp(Lines(0, {"capture"}))
    [] pc \in {"settle", "passed"} -> OfOp(Lines(0, {"expired"}))
    [] pc = "chain" -> Lines(0, CancelMarks[h.mark_no])
    [] pc = "moved" -> IF h.mark_no = 1 THEN Lines(0, {"back"}) ELSE OfOp(Lines(0, {"expired"}))
    [] pc = "grace" -> Lines(h.noticed, {"putdown"})
    [] pc = "item" -> {i \in Lines(0, {"item"}) : said[i].item = IF scen = "G" THEN 1 ELSE 2}
    [] OTHER -> {}
Hit == Awaited # {}

Goto(where) == pc' = where /\ UNCHANGED <<scen, notes, verdict>>
Note(text, where) ==
  notes' = notes \cup {text} /\ pc' = where /\ UNCHANGED <<scen, verdict>>
Report(passed) ==
  /\ verdict' = IF passed THEN "pass" ELSE "fail"
  /\ pc' = "done"
  /\ UNCHANGED <<scen, notes>>

-----------------------------------------------------------------------------
(***************************************************************************)
(* Load the plan, land what an earlier scenario left flying, rewind, arm   *)
(***************************************************************************)
Load ==
  /\ pc = "load"
  /\ Forget
  /\ \/ cursor' = 0 /\ Goto("land")
     \/ UNCHANGED cursor /\ Report(FALSE)
  /\ UNCHANGED <<fcuVars, told, op, opened, abort, h>>

Land ==
  /\ pc = "land"
  /\ IF armed THEN mode' = "land" /\ Goto("down")
     ELSE UNCHANGED mode /\ Goto("rewind")
  /\ UNCHANGED <<at, armed, nodeVars, h>>

(* A mutant: the landing is not waited for.                                *)
DownAtOnce ==
  /\ pc = "down" /\ Goto("rewind")
  /\ UNCHANGED <<fcuVars, nodeVars, h>>

(* The landing disarms it, or the time is up: then it is asked to disarm,  *)
(* and is gone on with, whether it did or not.                             *)
Down ==
  /\ pc = "down" /\ Goto("rewind")
  /\ \/ ~armed /\ UNCHANGED <<mode, armed, h>>
     \/ /\ armed /\ Informed
        /\ \/ armed' = FALSE /\ mode' = "hold" /\ UNCHANGED h
           \/ h' = [h EXCEPT !.aloft = TRUE] /\ UNCHANGED <<mode, armed>>
  /\ UNCHANGED <<at, nodeVars>>

Rewind ==
  /\ pc = "rewind"
  /\ at' = 0 /\ Goto("arm")
  /\ UNCHANGED <<mode, armed, nodeVars, h>>

NextTry ==
  /\ h' = [h EXCEPT !.tries = IF @ = Tries THEN 1 ELSE @ + 1]
  /\ IF h.tries = Tries THEN Report(FALSE) ELSE Goto("land")

Arm ==
  /\ pc = "arm"
  /\ \/ armed' = TRUE /\ Goto("auto") /\ UNCHANGED h
     \/ ~armed /\ NextTry /\ UNCHANGED armed
  /\ UNCHANGED <<at, mode, nodeVars>>

Opening == [A |-> "fly", J |-> "fly", F |-> "item", G |-> "item", I |-> "item",
            B |-> "seek", C |-> "seek", D |-> "seek", H |-> "seek"]

Auto ==
  /\ pc = "auto"
  /\ \/ /\ mode' = "mission" /\ Goto(Opening[scen])
        /\ h' = [h EXCEPT !.tries = 1]
     \/ UNCHANGED mode /\ NextTry
  /\ UNCHANGED <<at, armed, nodeVars>>

StartMission == Load \/ Land \/ Down \/ Rewind \/ Arm \/ Auto

-----------------------------------------------------------------------------
(***************************************************************************)
(* B, C, D and H: wait for an operation, and interrupt it                  *)
(***************************************************************************)
Look ==
  LET line == said[FirstOf(Awaited)]
  IN /\ pc = "seek"
     /\ IF ~Hit THEN UNCHANGED h /\ Goto("seen")
        ELSE /\ h' = [h EXCEPT !.op = line.op, !.item = line.item]
             /\ Goto(IF scen = "D" THEN "mark" ELSE "fired")
     /\ UNCHANGED <<fcuVars, nodeVars>>

(* What arrived between the two reads is not looked at again.              *)
Seen ==
  /\ pc = "seen" /\ Goto("seek")
  /\ Forget
  /\ UNCHANGED <<fcuVars, told, cursor, op, opened, abort, h>>

Fired ==
  /\ pc = "fired"
  /\ Hit /\ Goto("mark")
  /\ UNCHANGED <<fcuVars, nodeVars, h>>

OutOfTime ==
  /\ pc \in {"seek", "seen", "fired", "item"}
  /\ Report(FALSE)
  /\ UNCHANGED <<fcuVars, nodeVars, h>>

Mark ==
  /\ pc = "mark" /\ Goto("interrupt")
  /\ Forget
  /\ h' = [h EXCEPT !.from = IF scen = "G" THEN at ELSE 0]
  /\ UNCHANGED <<fcuVars, told, cursor, op, opened, abort>>

Interrupt ==
  /\ pc = "interrupt"
  /\ at' = CASE scen \in {"B", "D"} -> Hold(h.item) + 1
             [] scen \in {"F", "H"} -> Way(1)
             [] scen = "G" -> Hold(Captures)
             [] OTHER -> at
  /\ mode' = IF scen \in {"C", "I"} THEN "hold" ELSE mode
  /\ Goto(CASE scen \in {"B", "C"} -> "settle" [] scen = "D" -> "passed"
            [] scen = "H" -> "moved" [] scen = "I" -> "set" [] OTHER -> "watch")
  /\ UNCHANGED <<armed, nodeVars, h>>

(* Lost the race to an operation that finished by itself: put the flight   *)
(* back and take the next one, or go on with what there is.                *)
Settle ==
  LET finished == Lines(0, {"nothing", "succeeded"}) # {}
      again == ~Hit /\ finished
  IN /\ pc = "settle" /\ (Hit \/ Informed)
     /\ mode' = IF again /\ scen = "C" THEN "mission" ELSE mode
     /\ IF again /\ h.tries < Tries
        THEN Forget /\ Goto("seek") /\ h' = [h EXCEPT !.tries = @ + 1]
        ELSE UNCHANGED <<said, offended, h>> /\ Goto("chain")
     /\ UNCHANGED <<at, armed, told, cursor, op, opened, abort>>

Chain ==
  LET next == IF h.mark_no = Len(CancelMarks) THEN "judge" ELSE "chain"
  IN /\ pc = "chain" /\ (Hit \/ Quiet)
     /\ h' = [h EXCEPT !.mark_no = @ + 1]
     /\ IF Hit THEN Goto(next) ELSE Note("missing", next)
     /\ UNCHANGED <<fcuVars, nodeVars>>

(* H looks for the rewind, and for the end of its own operation.           *)
Moved ==
  LET next == IF h.mark_no = 2 THEN "judge" ELSE "moved"
  IN /\ pc = "moved" /\ (Hit \/ Informed)
     /\ h' = [h EXCEPT !.mark_no = @ + 1]
     /\ IF Hit THEN Goto(next) ELSE Note("missing", next)
     /\ UNCHANGED <<fcuVars, nodeVars>>

-----------------------------------------------------------------------------
(***************************************************************************)
(* judge_cancel_window                                                     *)
(***************************************************************************)
Forbidden == {"localized", "succeeded", "advanced"}
Notice == IF scen = "H" THEN {"back"} ELSE {"expired"}

Between(from, to, kinds) == {i \in Lines(from, kinds) : i <= to}

(* A mutant: judged from the command, as it once was.                      *)
NoticedAtCommand == 0

(* The window opens with the line that shows that the node was told, and   *)
(* closes with the next operation.                                         *)
Noticed ==
  LET told_ == Lines(0, Notice)
  IN IF told_ = {} THEN 0 ELSE FirstOf(told_) - 1
WindowEnd(noticed) ==
  LET next == Lines(noticed, {"started"})
  IN IF next = {} THEN Len(said) ELSE FirstOf(next) - 1

Judge ==
  LET offenders == Between(Noticed, WindowEnd(Noticed), Forbidden)
      blind == Between(0, Noticed, {"localized"})
      next == IF blind # {} THEN "grace" ELSE "after"
  IN /\ pc = "judge"
     /\ h' = [h EXCEPT !.noticed = Noticed]
     /\ IF offenders # {} THEN Note("forbidden", next) ELSE Goto(next)
     /\ UNCHANGED <<fcuVars, nodeVars>>

Grace ==
  /\ pc = "grace" /\ (Hit \/ Quiet)
  /\ IF Hit THEN Goto("after") ELSE Note("still running", "after")
  /\ UNCHANGED <<fcuVars, nodeVars, h>>

(* B and C wait for the next operation, whose capture is not refused here; *)
(* H for the items it went back to.                                        *)
Following == scen \in {"B", "C"}
Replayed == scen = "H" /\ Lines(0, {"item"}) # {}
After ==
  /\ pc = "after"
  /\ Report(notes = {} /\ (Following \/ Replayed))
  /\ UNCHANGED <<fcuVars, nodeVars, h>>

Passed ==
  /\ pc = "passed" /\ (Hit \/ Informed)
  /\ Report(Hit)
  /\ UNCHANGED <<fcuVars, nodeVars, h>>

-----------------------------------------------------------------------------
(***************************************************************************)
(* A and J fly it through; F, G and I move it after an item was handled    *)
(***************************************************************************)
Through ==
  /\ Cardinality(Lines(0, {"capture"})) = Captures
  /\ Lines(0, {"survey"}) # {}
  /\ Lines(0, {"expired"}) = {}

(* J, over zones that cover everything: nothing is surveyed, and each      *)
(* survey that was emptied hands the mission on.                           *)
ZonesWork ==
  LET ignored == Lines(0, {"ignored"})
      skips == {i \in Lines(0, {"advanced"}) :
                  \E j \in ignored : said[j].op = said[i].op}
  IN /\ at = Last /\ ignored # {}
     /\ Lines(0, {"localized"}) = {}
     /\ Cardinality(skips) >= Cardinality(ignored)

Fly ==
  /\ pc = "fly"
  /\ Report(IF scen = "A" THEN Through ELSE ZonesWork)
  /\ UNCHANGED <<fcuVars, nodeVars, h>>

Item ==
  /\ pc = "item"
  /\ Hit /\ Goto("mark")
  /\ UNCHANGED <<fcuVars, nodeVars, h>>

(* I: the operator's jump, the reading that follows it, and the resume.    *)
Set ==
  /\ pc = "set"
  /\ at' = 0 /\ Goto("read")
  /\ UNCHANGED <<mode, armed, nodeVars, h>>

Read ==
  /\ pc = "read"
  /\ mode' = "mission"
  /\ IF Lines(0, {"back"}) = {} THEN Note("not moved", "watch") ELSE Goto("watch")
  /\ h' = [h EXCEPT !.noticed = IF Informed THEN 1 ELSE 0]
  /\ UNCHANGED <<at, armed, nodeVars>>

Skipped == {c \in Points : Way(c) >= h.from /\ c < Captures}
OnSkipped == {i \in Lines(0, {"started"}) : said[i].item \in Skipped}

SkipsDeclined ==
  /\ Lines(0, {"item"}) # {} /\ OnSkipped = {}
  /\ Lines(0, {"declined"}) # {}
Resumed ==
  /\ notes = {} /\ Lines(0, {"item"}) # {}
  /\ Lines(0, {"capture"}) # {}

(* F only reports, and passes for its first lap.                           *)
Watch ==
  /\ pc = "watch"
  /\ Report(scen = "F" \/ (scen = "G" /\ SkipsDeclined) \/ (scen = "I" /\ Resumed))
  /\ UNCHANGED <<fcuVars, nodeVars, h>>

Interrupting ==
  Look \/ Seen \/ Fired \/ OutOfTime \/ Mark \/ Interrupt \/ Settle \/ Chain \/ Moved
Judging == Judge \/ Grace \/ After \/ Passed
Flying == Fly \/ Item \/ Set \/ Read \/ Watch

Harness == (StartMission \/ Interrupting \/ Judging \/ Flying) /\ late' = 0

(* It sleeps at some places, waits at others, and else goes on at once.    *)
Sleeps == pc \in {"after", "fly", "watch", "item"}
Waits ==
  \/ pc = "down" /\ armed
  \/ pc \in {"seek", "fired", "settle", "chain", "moved", "passed", "grace"} /\ ~Hit
Surroundings ==
  /\ pc # "done" /\ (Vehicle \/ Node)
  /\ late' = IF Sleeps \/ Waits THEN 0 ELSE late + 1
  /\ late' <= Lag
  /\ UNCHANGED harnessVars
Next == Harness \/ Surroundings

Spec == Init /\ [][Next]_vars

-----------------------------------------------------------------------------
(***************************************************************************)
(* Properties                                                              *)
(***************************************************************************)

(* The node is not charged with a survey, or an advance, that it was right *)
(* to make: where its log shows that it was told, a charge means that it   *)
(* went on with an operation it had cancelled.                             *)
FairlyJudged ==
  /\ notes \cap {"forbidden", "still running"} # {}
  /\ Lines(0, Notice) # {}
  => offended # {}

(* A pass of B or C means something: the operation that was interrupted    *)
(* was cancelled and stopped, and went on with nothing in between.         *)
PassMeans ==
  verdict = "pass" /\ scen \in {"B", "C"} =>
    /\ OfOp(Lines(0, {"discarded", "putdown"})) # {}
    /\ OfOp(offended) = {}

(* A mission that is reported as flying flies from its first item, unless  *)
(* the vehicle would not come down.                                        *)
FromTheTop ==
  [][pc = "auto" /\ pc' = Opening[scen] => at = 0 \/ h.aloft]_vars
=============================================================================
