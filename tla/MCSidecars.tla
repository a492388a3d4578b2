----------------------------- MODULE MCSidecars ----------------------------
(***************************************************************************)
(* The small programs that run beside the stack, none of which knows of    *)
(* another: the gimbal's rangefinder, the router's keepalive, the reader   *)
(* of MAVLink frames, the mission uploader, and what polls the video       *)
(* server, the bridges and the units for a report.                         *)
(* A behaviour is one of them; the variables of the others keep one value. *)
(***************************************************************************)
EXTENDS Integers, Sequences

CONSTANTS Outages, Sent, Bytes, Period, Plans

ASSUME SidecarsAssumption ==
  Outages \in Nat /\ {Sent, Bytes, Period} \subseteq Nat \ {0}

VARIABLES
  px4, inbox, ranger, told,
  setting, router, keeper, traffic, station,
  sent, fed, kept, found,
  plan, fcu, uploader, outcome, other,
  kind, mediamtx, poller, pair, outside, report, tick

Range_ == INSTANCE Rangefinder
Keep == INSTANCE Keepalive
Reader == INSTANCE MavlinkFrames
Mission == INSTANCE MissionUpload
Report == INSTANCE Reporter

ranging == <<px4, inbox, ranger, told>>
keeping == <<setting, router, keeper, traffic, station>>
splitting == <<sent, fed, kept, found>>
uploading == <<plan, fcu, uploader, outcome, other>>
reporting == <<kind, mediamtx, poller, pair, outside, report, tick>>
all == <<ranging, keeping, splitting, uploading, reporting>>

ASSUME PlansAssumption ==
  \A p \in Plans : \A i \in DOMAIN p : Mission!IsItem(p[i])

(* Plans for TLC: of every kind of item, and of none.                      *)
MCPlans ==
  LET item(sort, items) == [kind |-> sort, nested |-> items]
      way == item("simple", <<>>)
  IN {<<>>, <<way>>, <<way, item("complex", <<"simple", "simple">>)>>,
      <<item("complex", <<>>), way>>, <<item("other", <<>>), way>>,
      <<way, item("complex", <<"simple", "other">>)>>}

NoRange ==
  /\ px4 = [up |-> TRUE, hears |-> FALSE, sensors |-> <<"body", "gimbal">>]
  /\ inbox = {} /\ told = Range_!NoReading
  /\ ranger = [place |-> "none", beat |-> FALSE, ready |-> FALSE, owned |-> FALSE, limit |-> 0]
NoKeep ==
  /\ setting = [mode |-> "none", transport |-> "none"]
  /\ router = [up |-> TRUE, stops |-> Outages]
  /\ keeper = [place |-> "none", live |-> FALSE, saw |-> FALSE]
  /\ traffic = TRUE /\ station = "lost"
NoFrames == sent = <<<<>>>> /\ fed = 0 /\ kept = <<>> /\ found = <<>>
NoUpload ==
  /\ plan = <<>> /\ fcu = [mission |-> <<"old">>, cursor |-> 1]
  /\ uploader = "none" /\ outcome = "none" /\ other = TRUE
NoReport ==
  /\ kind = "none"
  /\ mediamtx = [up |-> FALSE, bytes |-> 0, since |-> 0, faults |-> Outages]
  /\ poller = [alive |-> FALSE, quiet |-> 0, before |-> Report!None,
               path |-> Report!NoPath, error |-> FALSE]
  /\ pair = [path |-> Report!NoPath, error |-> FALSE, carried |-> 0]
  /\ outside = [bridge |-> FALSE, unit |-> FALSE, bridgeStood |-> 0, unitStood |-> 0]
  /\ report = [at |-> "none", path |-> Report!NoPath, error |-> FALSE,
               bridge |-> FALSE, unit |-> FALSE, failed |-> TRUE]
  /\ tick = [bridges |-> 0, units |-> 0]

Init ==
  \/ Range_!RangerInit /\ NoKeep /\ NoFrames /\ NoUpload /\ NoReport
  \/ NoRange /\ Keep!KeeperInit /\ NoFrames /\ NoUpload /\ NoReport
  \/ NoRange /\ NoKeep /\ Reader!FramesInit /\ NoUpload /\ NoReport
  \/ NoRange /\ NoKeep /\ NoFrames /\ Mission!UploadInit /\ NoReport
  \/ NoRange /\ NoKeep /\ NoFrames /\ NoUpload /\ Report!ReporterInit

Alone(step, mine) ==
  /\ step
  /\ mine # "range" => UNCHANGED ranging
  /\ mine # "keep" => UNCHANGED keeping
  /\ mine # "split" => UNCHANGED splitting
  /\ mine # "upload" => UNCHANGED uploading
  /\ mine # "report" => UNCHANGED reporting

Next ==
  \/ Alone(Range_!RangerNext, "range")
  \/ Alone(Keep!KeeperNext, "keep")
  \/ Alone(Reader!Arrive, "split")
  \/ Alone(Mission!UploadNext, "upload")
  \/ Alone(Report!ReporterNext, "report")

(* The laser's lines keep coming, of every kind; PX4 boots, measures and   *)
(* streams; the threads of the keepalive and of the video paths run.       *)
Fairness ==
  /\ WF_all(Alone(Range_!Topic, "range")) /\ WF_all(Alone(Range_!Waiting, "range"))
  /\ WF_all(Alone(Range_!RangesLine, "range")) /\ WF_all(Alone(Range_!Tock, "range"))
  /\ WF_all(Alone(Range_!Boot, "range")) /\ WF_all(Alone(Range_!BodyScan, "range"))
  /\ WF_all(Alone(Range_!Streams, "range"))
  /\ WF_all(Alone(Keep!Keeper, "keep"))
  /\ WF_all(Alone(Report!Poll, "report")) /\ WF_all(Alone(Report!Snapshot, "report"))
Spec == Init /\ [][Next]_all /\ Fairness

(* The body's laser has id 0, and no reading is beyond the limit.          *)
GimbalIsSecond == Range_!GimbalIsSecond

(* The range arrives, however late PX4 boots; a station that was lost is   *)
(* seen again while the router runs; a video server that runs is reported. *)
SidecarsServe == Range_!RangeArrives /\ Keep!StationSeen /\ Report!StreamsReturn

(* The frames that were sent are found, in whatever pieces they come.      *)
FramesWhole == Reader!FramesWhole

(* What is reported as uploaded will be flown.                             *)
UploadHonest == Mission!UploadHonest

(* What is reported was true not long ago.                                 *)
ReportsTrue == Report!ReportsTrue
=============================================================================
