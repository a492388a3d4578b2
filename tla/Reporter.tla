------------------------------ MODULE Reporter ------------------------------
(***************************************************************************)
(* scripts/state.py, the readings of a report that are polled beside the   *)
(* telemetry: the video paths, by a thread of their own, and the bridges   *)
(* and units, every few reports.  One path, one bridge, one unit; a        *)
(* behaviour has the path, or the other two, which know nothing of it.     *)
(* Ticks are kept as what is left of them.                                 *)
(***************************************************************************)
EXTENDS Integers

CONSTANTS
  Outages, \* bound: how often the server stops, or answers nothing of use
  Bytes,   \* bound: how much a server carries in its life
  Period   \* ticks between two tries; in the code 5, or 15 for a probe

VARIABLES
  kind,     \* "api" for Streams, "probe" for ProbedStreams, or "ports"
  mediamtx, \* the server: its byte counter, and history of what it carried
  poller,   \* the source and its thread
  pair,     \* the paths and the error that AsyncStreams publishes
  outside,  \* the bridge and the unit, and for how many reports they stood
  report,   \* the report that is written
  tick      \* reports until the bridges, and the units, are read again

None == -1
NoPath == [there |-> FALSE, kbits |-> None]
Path(kbits) == [there |-> TRUE, kbits |-> kbits]

ReporterInit ==
  /\ kind \in {"api", "probe", "ports"}
  /\ mediamtx = [up |-> kind # "ports", bytes |-> 0, since |-> 0, faults |-> 0]
  /\ poller = [alive |-> kind # "ports", quiet |-> 0, before |-> None, path |-> NoPath, error |-> FALSE]
  /\ pair = [path |-> NoPath, error |-> FALSE, carried |-> 0]
  /\ outside = [bridge |-> FALSE, unit |-> FALSE, bridgeStood |-> 0, unitStood |-> 0]
  /\ report = [at |-> "streams", path |-> NoPath, error |-> FALSE,
               bridge |-> FALSE, unit |-> FALSE, failed |-> TRUE]
  /\ tick = [bridges |-> 0, units |-> 0]

-----------------------------------------------------------------------------
(***************************************************************************)
(* The video paths                                                         *)
(***************************************************************************)
(* A mutant: a counter that starts again counts backwards.                 *)
RateBackwards(received) == IF poller.before = None THEN None ELSE received - poller.before
Rate(received) ==
  IF poller.before # None /\ received >= poller.before
  THEN received - poller.before ELSE None

GaveUp ==
  [poller EXCEPT !.error = TRUE, !.path = NoPath, !.before = None, !.quiet = Period - 1]
Read ==
  IF kind = "probe"
  THEN [poller EXCEPT !.error = FALSE, !.path = Path(None), !.quiet = Period - 1]
  ELSE [poller EXCEPT !.error = FALSE, !.path = Path(Rate(mediamtx.bytes)),
                      !.before = mediamtx.bytes]
Publish(read, carried) ==
  /\ poller' = read
  /\ pair' = [path |-> read.path, error |-> read.error, carried |-> carried]

QuietTick ==
  /\ poller.alive /\ poller.quiet > 0
  /\ poller' = [poller EXCEPT !.quiet = @ - 1]
  /\ UNCHANGED <<kind, mediamtx, pair, outside, report, tick>>
Answered ==
  /\ poller.alive /\ poller.quiet = 0 /\ mediamtx.up
  /\ Publish(Read, mediamtx.since)
  /\ mediamtx' = [mediamtx EXCEPT !.since = 0]
  /\ UNCHANGED <<kind, outside, report, tick>>
(* No answer, an error of the server's, or one that cannot be read.        *)
Unanswered ==
  /\ poller.alive /\ poller.quiet = 0
  /\ ~mediamtx.up \/ mediamtx.faults < Outages
  /\ Publish(GaveUp, 0)
  /\ mediamtx' = [mediamtx EXCEPT !.faults = @ + (IF mediamtx.up THEN 1 ELSE 0)]
  /\ UNCHANGED <<kind, outside, report, tick>>
(* An answer that is cut off raises what Streams.read does not catch, and  *)
(* the thread ends.                                                        *)
CutOff ==
  /\ kind = "api" /\ poller.alive /\ poller.quiet = 0
  /\ mediamtx.up /\ mediamtx.faults < Outages
  /\ poller' = [poller EXCEPT !.alive = FALSE]
  /\ mediamtx' = [mediamtx EXCEPT !.up = FALSE, !.bytes = 0, !.faults = @ + 1]
  /\ UNCHANGED <<kind, pair, outside, report, tick>>
Poll == QuietTick \/ Answered \/ Unanswered

(* External: the video server.                                             *)
Carry ==
  /\ mediamtx.up /\ mediamtx.bytes < Bytes
  /\ mediamtx' = [mediamtx EXCEPT !.bytes = @ + 1, !.since = @ + 1]
  /\ UNCHANGED <<kind, poller, pair, outside, report, tick>>
ServerStops ==
  /\ mediamtx.up /\ mediamtx.faults < Outages
  /\ mediamtx' = [mediamtx EXCEPT !.up = FALSE, !.bytes = 0, !.faults = @ + 1]
  /\ UNCHANGED <<kind, poller, pair, outside, report, tick>>
ServerStarts ==
  /\ ~mediamtx.up /\ kind # "ports"
  /\ mediamtx' = [mediamtx EXCEPT !.up = TRUE]
  /\ UNCHANGED <<kind, poller, pair, outside, report, tick>>

-----------------------------------------------------------------------------
(***************************************************************************)
(* The report: the paths and the error are taken one after the other, and  *)
(* then the bridges and the units are read, if their time has come.        *)
(***************************************************************************)
TakePaths ==
  /\ report.at = "streams"
  /\ report' = [report EXCEPT !.at = "rest", !.path = pair.path]
  /\ UNCHANGED <<kind, mediamtx, poller, pair, outside, tick>>

(* Whether a connection stood within the time that is given to it.         *)
Listening == IF outside.bridge THEN BOOLEAN ELSE {FALSE}
Bridges == IF tick.bridges = 0 THEN Listening ELSE {report.bridge}
(* systemctl may fail, or take too long: the rows of before stay.          *)
Units ==
  IF tick.units = 0
  THEN {[unit |-> outside.unit, failed |-> FALSE], [unit |-> report.unit, failed |-> TRUE]}
  ELSE {[unit |-> report.unit, failed |-> report.failed]}

After(left) == IF left = 0 THEN Period - 1 ELSE left - 1
Stood(reports) == IF reports < Period THEN reports + 1 ELSE reports

TakeRest ==
  /\ report.at = "rest"
  /\ \E bridge \in Bridges, read \in Units :
       report' = [at |-> "streams", path |-> report.path, error |-> pair.error,
                  bridge |-> bridge, unit |-> read.unit, failed |-> read.failed]
  /\ IF kind = "ports"
     THEN /\ tick' = [bridges |-> After(tick.bridges), units |-> After(tick.units)]
          /\ outside' = [outside EXCEPT !.bridgeStood = Stood(@), !.unitStood = Stood(@)]
     ELSE UNCHANGED <<outside, tick>>
  /\ UNCHANGED <<kind, mediamtx, poller, pair>>
Snapshot == TakePaths \/ TakeRest

BridgeTurns ==
  /\ kind = "ports"
  /\ outside' = [outside EXCEPT !.bridge = ~@, !.bridgeStood = 0]
  /\ UNCHANGED <<kind, mediamtx, poller, pair, report, tick>>
UnitTurns ==
  /\ kind = "ports"
  /\ outside' = [outside EXCEPT !.unit = ~@, !.unitStood = 0]
  /\ UNCHANGED <<kind, mediamtx, poller, pair, report, tick>>

ReporterNext ==
  \/ Poll \/ CutOff \/ Carry \/ ServerStops \/ ServerStarts
  \/ Snapshot \/ BridgeTurns \/ UnitTurns

-----------------------------------------------------------------------------
(***************************************************************************)
(* Properties                                                              *)
(***************************************************************************)
(* A rate is of bytes that were carried, also when the server started      *)
(* again; an error is not published with paths of before it; and what is   *)
(* reported to listen, or to run, did so not long ago.                     *)
ReportsTrue ==
  /\ pair.path.kbits # None => pair.path.kbits \in 0 .. pair.carried
  /\ pair.error => ~pair.path.there
  /\ report.bridge /\ outside.bridgeStood = Period => outside.bridge
  /\ report.unit /\ ~report.failed /\ outside.unitStood = Period => outside.unit

(* While its thread lives, a video server that runs is reported again.     *)
StreamsReturn ==
  mediamtx.up ~> (report.path.there \/ ~mediamtx.up \/ ~poller.alive)
=============================================================================
