------------------------------ MODULE MCBench ------------------------------
(***************************************************************************)
(* verify/component: the commands of uas.py, each a process of its own:    *)
(* one that flies (Flight), one that writes rows (BoxRows) or one that     *)
(* reads several topics (Reads); and mission.py (MissionCheck).  A         *)
(* behaviour is one command, or one scenario; the variables of the others  *)
(* keep one value.                                                          *)
(***************************************************************************)
EXTENDS Flight

CONSTANTS
  Frames, Depth, Wait, Window, Poses,
  Captures, Ops, Careless, Scenarios, LeftFor, Tries, Lag

ASSUME RowsAssumption ==
  /\ Frames \in Nat \ {0} /\ Depth \in Nat \ {0}
  /\ Wait \in Nat \ {0} /\ Window \in Nat \ {0}
ASSUME PosesAssumption == Poses \in Nat \ {0}
ASSUME MissionAssumption ==
  /\ Captures \in Nat \ {0} /\ Ops \in Nat /\ Careless \in BOOLEAN
  /\ Scenarios \subseteq {"A", "B", "C", "D", "F", "G", "H", "I", "J"}
  /\ Tries \in Nat \ {0} /\ Lag \in Nat

VARIABLES
  asked, phase, clock, judged, pending, rows, came, heardAt,
  task, place, topic, facing, found, gimbal, shot, mark, moves, read, drawn, result,
  at, flightMode, flightArmed, told, cursor, op, opened, abort, said, offended,
  scen, stage, h, notes, verdict, late

Rows == INSTANCE BoxRows
Reading == INSTANCE Reads
Mission ==
  INSTANCE MissionCheck WITH mode <- flightMode, armed <- flightArmed, pc <- stage

rowing == <<asked, phase, clock, judged, pending, rows, came, heardAt>>
reading == <<task, place, topic, facing, found, gimbal, shot, mark, moves, read,
             drawn, result>>
checking == <<at, flightMode, flightArmed, told, cursor, op, opened, abort, said,
              offended, scen, stage, h, notes, verdict, late>>
benchVars == <<vars, rowing, reading, checking>>

NoFlight ==
  /\ height = 0 /\ armed = FALSE /\ mode = "hold" /\ camera = 0 /\ heard = 0
  /\ command = "none" /\ pc = "none" /\ wait = NoWait /\ tries = 0 /\ exit = 0
NoRows ==
  /\ asked = "none" /\ phase = "done" /\ clock = 0
  /\ judged = <<>> /\ pending = <<>> /\ rows = <<>>
  /\ came = [s \in 1 .. Frames |-> Rows!Never] /\ heardAt = came
NoReads ==
  /\ task = "none" /\ place = "none" /\ topic = 0 /\ facing = 0 /\ found = 0
  /\ gimbal = 0 /\ shot = 0 /\ mark = 0 /\ moves = {} /\ read = 0 /\ drawn = 0
  /\ result = "none"

NoMission ==
  /\ at = 0 /\ flightMode = "hold" /\ flightArmed = FALSE
  /\ told = 0 /\ cursor = 0 /\ op = 0 /\ opened = 0 /\ abort = FALSE
  /\ said = <<>> /\ offended = {}
  /\ scen = "none" /\ stage = "none" /\ h = 0 /\ notes = {} /\ verdict = "none"
  /\ late = 0

BenchInit ==
  \/ Init /\ NoRows /\ NoReads /\ NoMission
  \/ Rows!RowsInit /\ NoFlight /\ NoReads /\ NoMission
  \/ Reading!ReadsInit /\ NoFlight /\ NoRows /\ NoMission
  \/ Mission!Init /\ NoFlight /\ NoRows /\ NoReads

BenchNext ==
  \/ command # "none" /\ Next /\ UNCHANGED <<rowing, reading, checking>>
  \/ asked # "none" /\ Rows!RowsNext /\ UNCHANGED <<vars, reading, checking>>
  \/ task # "none" /\ Reading!ReadsNext /\ UNCHANGED <<vars, rowing, checking>>
  \/ scen # "none" /\ Mission!Next /\ UNCHANGED <<vars, rowing, reading>>
Bench ==
  /\ BenchInit /\ [][BenchNext]_benchVars
  /\ WF_benchVars(command # "none" /\ (Poll \/ GiveUp \/ Call)
                  /\ UNCHANGED <<rowing, reading, checking>>)

(* What the tables say is so: a row cites the verdict on its own box of    *)
(* its own frame, and has one when the scorer judged that frame in time;   *)
(* no frame is written twice or left out, late verdicts or not             *)
(* (box-rows, box-log).                                                    *)
RowsTrue == asked # "none" => Rows!NamedByScorer /\ Rows!EachFrameOnce

(* What the read-outs say is so: what is drawn wrong, and nothing else, is *)
(* a fault, and the marker is marked where the shot shows it, not where    *)
(* the vehicle is by then (box-scene, fiducial).                           *)
ReadsTrue == task # "none" => Reading!DrawnIsJudged /\ Reading!MarkedWhereItStood

(* A verdict on the node is earned: the node is not charged with what it   *)
(* was right to do before it was told, and a pass of B or C means that     *)
(* what was interrupted was cancelled and stopped (judge_cancel_window).   *)
VerdictTrue == scen # "none" => Mission!FairlyJudged /\ Mission!PassMeans

(* A mission that is reported as flying flies from its first item, unless  *)
(* the vehicle would not come down (start_mission).                        *)
FromTheTop == Mission!FromTheTop
=============================================================================
