---------------------------- MODULE SidecarsProofs ---------------------------
(***************************************************************************)
(* Safety of MCSidecars, for any number of outages, frames, bytes and      *)
(* ticks: the rangefinder, the reader of MAVLink frames, the mission       *)
(* uploader and the readings of a report.                                  *)
(***************************************************************************)
EXTENDS MCSidecars, WellFoundedInduction, TLAPS

(* The order of PX4's sensors: what the rangefinder was sent by PX4 since  *)
(* it last looked, or has seen, is of a sensor that has come.              *)
Sensors == {"body", "gimbal"}
RangeType ==
  /\ px4 \in [up : BOOLEAN, hears : BOOLEAN, sensors : Seq(Sensors)]
  /\ inbox \subseteq Nat
  /\ ranger \in [place : {"none", "topic", "lines"}, beat : BOOLEAN, ready : BOOLEAN,
                 owned : BOOLEAN, limit : Nat]
  /\ told \in [metres : Nat, valid : BOOLEAN, within : Nat]
SeenHasCome == ranger.owned \/ 0 \in inbox => px4.sensors # <<>>
RangeInv == RangeType /\ SeenHasCome /\ GimbalIsSecond

(* The upload: a plan whose items are not known never gets to the push.    *)
Known(item) == item = Mission!Way \/ Mission!Range(item.nested) = {"simple"}
Refused == \E i \in DOMAIN plan : ~Known(plan[i])
UploadType ==
  /\ \A i \in DOMAIN plan : Mission!IsItem(plan[i])
  /\ fcu = [mission |-> fcu.mission, cursor |-> fcu.cursor]
  /\ outcome # "none" => uploader = "done"
  /\ other \in BOOLEAN
UploadInv ==
  /\ UploadType /\ UploadHonest
  /\ uploader \in {"push", "reset"} => ~Refused
  /\ uploader = "reset" /\ ~other => fcu.mission = Mission!Waypoints

(* The report.  As many bytes at least were carried since the last answer  *)
(* as the counter went up; and a bridge or a unit that is gone is read     *)
(* again before it was gone for a period.                                  *)
PathState == [there : BOOLEAN, kbits : Nat \cup {Report!None}]
ReportType ==
  /\ mediamtx \in [up : BOOLEAN, bytes : Nat, since : Nat, faults : Nat]
  /\ poller \in [alive : BOOLEAN, quiet : Nat, before : Nat \cup {Report!None},
                 path : PathState, error : BOOLEAN]
  /\ pair \in [path : PathState, error : BOOLEAN, carried : Nat]
  /\ outside \in [bridge : BOOLEAN, unit : BOOLEAN, bridgeStood : 0 .. Period, unitStood : 0 .. Period]
  /\ report \in [at : {"none", "streams", "rest"}, path : PathState, error : BOOLEAN,
                 bridge : BOOLEAN, unit : BOOLEAN, failed : BOOLEAN]
  /\ tick \in [bridges : 0 .. Period - 1, units : 0 .. Period - 1]
Counted ==
  /\ poller.before # Report!None => kind # "probe" /\ mediamtx.bytes - poller.before <= mediamtx.since
PairTrue ==
  /\ pair.path.kbits # Report!None => pair.path.kbits \in 0 .. pair.carried
  /\ pair.error => ~pair.path.there
SoonRead ==
  /\ report.bridge /\ ~outside.bridge => outside.bridgeStood + tick.bridges < Period
  /\ report.unit /\ ~report.failed /\ ~outside.unit => outside.unitStood + tick.units < Period
ReportInv == ReportType /\ Counted /\ PairTrue /\ SoonRead

(* A stream of pieces, as it grows from one to the next.                   *)
Joins(pieces, upto, joined) ==
  joined = [i \in 1 .. upto |-> IF i = 1 THEN pieces[i] ELSE joined[i - 1] \o pieces[i]]
Joined(pieces, upto) == CHOOSE joined : Joins(pieces, upto, joined)
(* Where a piece ends in the stream.                                       *)
EndOf(pieces, n) == IF n = 0 THEN 0 ELSE Len(Joined(pieces, Len(pieces))[n])

(* What a router sends: bytes that start no frame, and then frames.        *)
Shaped(pieces) ==
  /\ pieces \in Seq(Seq(Nat)) /\ pieces # <<>>
  /\ pieces[1] \in Reader!Noise
  /\ \A k \in 2 .. Len(pieces) : pieces[k] \in Reader!Samples

(* The frames before the one that is still coming were found; what of that *)
(* one has come is kept.                                                   *)
Coming(m) == EndOf(sent, m - 1) < fed /\ fed <= EndOf(sent, m)
FramesInv ==
  /\ Shaped(sent)
  /\ fed \in 0 .. EndOf(sent, Len(sent))
  /\ fed <= EndOf(sent, 1) => found = <<>> /\ kept = <<>>
  /\ fed > EndOf(sent, 1) =>
       \E m \in 2 .. Len(sent) :
         /\ Coming(m)
         /\ found = SubSeq(sent, 2, m - 1)
         /\ kept = SubSeq(Reader!FlattenSeq(sent), EndOf(sent, m - 1) + 1, fed)

IInv == RangeInv /\ UploadInv /\ ReportInv /\ FramesInv

-----------------------------------------------------------------------------
(***************************************************************************)
(* The rangefinder                                                         *)
(***************************************************************************)
LEMMA Sensed ==
  ASSUME NEW sensors \in Seq(Sensors), NEW new \in Sensors, sensors = <<>> => new = "body",
         sensors # <<>> => sensors[1] = "body"
  PROVE  /\ Append(sensors, new) \in Seq(Sensors) /\ Append(sensors, new) # <<>>
         /\ Append(sensors, new)[1] = "body"
<1>1. Append(sensors, new) \in Seq(Sensors) /\ Len(Append(sensors, new)) = Len(sensors) + 1
      /\ Append(sensors, new) # <<>>
  OBVIOUS
<1>2. CASE sensors = <<>>
  BY <1>2
<1>3. CASE sensors # <<>>
  <2>1. Len(sensors) \in Nat /\ Len(sensors) >= 1
    BY <1>3
  <2>2. Append(sensors, new)[1] = sensors[1]
    BY <2>1
  <2> QED
    BY <1>3, <2>2
<1> QED
  BY <1>1, <1>2, <1>3

LEMMA RangeStarts == Range_!RangerInit \/ NoRange => RangeInv
<1>1. <<>> \in Seq(Sensors) /\ <<"body", "gimbal">> \in Seq(Sensors)
  BY DEF Sensors
<1>2. ASSUME Range_!RangerInit PROVE RangeInv
  BY <1>1, <1>2 DEF Range_!RangerInit, RangeInv, RangeType, SeenHasCome, GimbalIsSecond,
     Range_!GimbalIsSecond, Range_!NoReading, Range_!Fallback
<1>3. ASSUME NoRange PROVE RangeInv
  BY <1>1, <1>3 DEF NoRange, RangeInv, RangeType, SeenHasCome, GimbalIsSecond,
     Range_!GimbalIsSecond, Range_!NoReading
<1> QED
  BY <1>2, <1>3

LEMMA HeartBeat ==
  ASSUME RangeType
  PROVE  /\ Range_!Beat \in [up : BOOLEAN, hears : BOOLEAN, sensors : Seq(Sensors)]
         /\ Range_!Beat.sensors = px4.sensors
BY DEF RangeType, Range_!Beat

LEMMA Told ==
  ASSUME NEW metres \in Range_!Measured, NEW limit \in Nat
  PROVE  /\ Range_!Reading(metres, limit) \in [metres : Nat, valid : BOOLEAN, within : Nat]
         /\ Range_!Reading(metres, limit).valid =>
              Range_!Reading(metres, limit).metres <= Range_!Reading(metres, limit).within
<1> DEFINE reading == Range_!Reading(metres, limit)
<1>1. metres \in Nat
  BY DEF Range_!Measured, Range_!Infinite
<1>2. CASE Range_!Valid(metres, limit)
  <2>1. reading = [metres |-> metres, valid |-> TRUE, within |-> limit]
    BY <1>2 DEF Range_!Reading
  <2>2. metres <= limit
    BY <1>2 DEF Range_!Valid
  <2> QED
    BY <1>1, <2>1, <2>2
<1>3. CASE ~Range_!Valid(metres, limit)
  <2>1. reading = [metres |-> limit, valid |-> FALSE, within |-> limit]
    BY <1>3 DEF Range_!Reading, Range_!Valid
  <2> QED
    BY <1>1, <2>1
<1> QED
  BY <1>2, <1>3

(* A line that sends no range: what was seen is of a sensor that has come. *)
LEMMA LineKeeps ==
  ASSUME RangeInv, px4' = Range_!Beat, inbox' = {}, told' = told,
         ranger' \in [place : {"none", "topic", "lines"}, beat : BOOLEAN, ready : BOOLEAN,
                      owned : BOOLEAN, limit : Nat],
         ranger'.owned => Range_!Owned
  PROVE  RangeInv'
<1>1. px4'.sensors = px4.sensors
  BY HeartBeat DEF RangeInv
<1>2. RangeType'
  BY HeartBeat DEF RangeInv, RangeType
<1>3. SeenHasCome'
  BY <1>1 DEF RangeInv, SeenHasCome, Range_!Owned
<1>4. GimbalIsSecond'
  BY <1>1 DEF RangeInv, GimbalIsSecond, Range_!GimbalIsSecond
<1> QED
  BY <1>2, <1>3, <1>4 DEF RangeInv

LEMMA RangesLineKeeps == RangeInv /\ Range_!RangesLine => RangeInv'
<1> SUFFICES ASSUME RangeInv, Range_!RangesLine PROVE RangeInv'
  OBVIOUS
<1>1. RangeType /\ SeenHasCome /\ GimbalIsSecond
  BY DEF RangeInv
<1>2. PICK metres \in Range_!Measured :
        told' = IF px4.up THEN Range_!Reading(metres, ranger.limit) ELSE told
  BY DEF Range_!RangesLine
<1>3. Range_!Owned /\ inbox' = {}
  BY DEF Range_!RangesLine, Range_!MayRange
<1>4. px4.sensors # <<>> /\ px4.sensors[1] = "body"
  BY <1>1, <1>3 DEF Range_!Owned, SeenHasCome, GimbalIsSecond, Range_!GimbalIsSecond
<1>5. ranger' = [ranger EXCEPT !.beat = FALSE, !.ready = FALSE, !.owned = TRUE]
  <2>1. Range_!Owned = TRUE
    BY <1>3 DEF Range_!Owned
  <2> QED
    BY <2>1 DEF Range_!RangesLine
<1>6. \E sensors \in Seq(Sensors) :
        /\ px4' = [Range_!Beat EXCEPT !.sensors = sensors]
        /\ sensors # <<>> /\ sensors[1] = "body"
  <2> DEFINE goes == px4.up /\ ~Range_!Contains(px4.sensors, "gimbal")
  <2> DEFINE sensors == IF goes THEN Append(px4.sensors, "gimbal") ELSE px4.sensors
  <2>1. px4' = [Range_!Beat EXCEPT !.sensors = sensors]
    BY <1>1, HeartBeat DEF Range_!RangesLine
  <2>2. px4.sensors \in Seq(Sensors) /\ "gimbal" \in Sensors
    BY <1>1 DEF RangeType, Sensors
  <2> HIDE DEF goes
  <2>3. sensors \in Seq(Sensors) /\ sensors # <<>> /\ sensors[1] = "body"
    BY <1>4, <2>2, Sensed
  <2> HIDE DEF sensors
  <2> QED
    BY <2>1, <2>3
<1>7. /\ px4' \in [up : BOOLEAN, hears : BOOLEAN, sensors : Seq(Sensors)]
      /\ px4'.sensors # <<>> /\ px4'.sensors[1] = "body"
  BY <1>1, <1>6, HeartBeat
<1>8. /\ told' \in [metres : Nat, valid : BOOLEAN, within : Nat]
      /\ told'.valid => told'.metres <= told'.within
  <2>1. CASE px4.up
    BY <1>1, <1>2, <2>1, Told DEF RangeType
  <2>2. CASE ~px4.up
    BY <1>1, <1>2, <2>2 DEF RangeType, GimbalIsSecond, Range_!GimbalIsSecond
  <2> QED
    BY <2>1, <2>2
<1>9. RangeType'
  BY <1>1, <1>3, <1>5, <1>7, <1>8 DEF RangeType
<1> QED
  BY <1>7, <1>8, <1>9 DEF RangeInv, SeenHasCome, GimbalIsSecond, Range_!GimbalIsSecond

LEMMA RangeKeeps == RangeInv /\ Range_!RangerNext => RangeInv'
<1> SUFFICES ASSUME RangeInv, Range_!RangerNext PROVE RangeInv'
  OBVIOUS
<1>1. RangeType /\ SeenHasCome /\ GimbalIsSecond
  BY DEF RangeInv
<1>2. CASE Range_!Topic \/ Range_!Tock
  <2>1. UNCHANGED <<px4, inbox, told>> /\ ranger'.owned = ranger.owned
        /\ ranger' \in [place : {"none", "topic", "lines"}, beat : BOOLEAN, ready : BOOLEAN,
                        owned : BOOLEAN, limit : Nat]
    BY <1>1, <1>2 DEF Range_!Topic, Range_!Tock, RangeType
  <2> QED
    BY <1>1, <2>1 DEF RangeInv, RangeType, SeenHasCome, GimbalIsSecond, Range_!GimbalIsSecond
<1>3. CASE Range_!Waiting
  <2>1. ranger' \in [place : {"none", "topic", "lines"}, beat : BOOLEAN, ready : BOOLEAN,
                     owned : BOOLEAN, limit : Nat] /\ ranger'.owned = ranger.owned
    BY <1>1, <1>3 DEF Range_!Waiting, RangeType
  <2> QED
    BY <1>3, <2>1, LineKeeps DEF Range_!Waiting, Range_!Owned
<1>4. CASE Range_!LimitLine \/ Range_!OtherLine
  <2>1. ranger' \in [place : {"none", "topic", "lines"}, beat : BOOLEAN, ready : BOOLEAN,
                     owned : BOOLEAN, limit : Nat]
    <3>1. ranger \in [place : {"none", "topic", "lines"}, beat : BOOLEAN, ready : BOOLEAN,
                      owned : BOOLEAN, limit : Nat]
      BY <1>1 DEF RangeType
    <3>2. CASE Range_!LimitLine
      BY <3>1, <3>2 DEF Range_!LimitLine, Range_!Limit
    <3>3. CASE Range_!OtherLine
      BY <3>1, <3>3 DEF Range_!OtherLine
    <3> QED
      BY <1>4, <3>2, <3>3
  <2> QED
    BY <1>4, <2>1, LineKeeps DEF Range_!LimitLine, Range_!OtherLine
<1>5. CASE Range_!Boot
  <2>1. UNCHANGED <<inbox, ranger, told>> /\ px4'.sensors = px4.sensors
        /\ px4' \in [up : BOOLEAN, hears : BOOLEAN, sensors : Seq(Sensors)]
    BY <1>1, <1>5 DEF Range_!Boot, RangeType
  <2> QED
    BY <1>1, <2>1 DEF RangeInv, RangeType, SeenHasCome, GimbalIsSecond, Range_!GimbalIsSecond
<1>6. CASE Range_!BodyScan
  <2>1. UNCHANGED <<inbox, ranger, told>>
        /\ px4' = [px4 EXCEPT !.sensors = Append(px4.sensors, "body")]
    BY <1>6 DEF Range_!BodyScan
  <2>2. px4.sensors \in Seq(Sensors) /\ "body" \in Sensors
    BY <1>1 DEF RangeType, Sensors
  <2>3. /\ Append(px4.sensors, "body") \in Seq(Sensors) /\ Append(px4.sensors, "body") # <<>>
        /\ Append(px4.sensors, "body")[1] = "body"
    BY <1>1, <2>2, Sensed DEF GimbalIsSecond, Range_!GimbalIsSecond
  <2>4. /\ px4' \in [up : BOOLEAN, hears : BOOLEAN, sensors : Seq(Sensors)]
        /\ px4'.sensors # <<>> /\ px4'.sensors[1] = "body"
    BY <1>1, <2>1, <2>3 DEF RangeType
  <2> QED
    BY <1>1, <2>1, <2>4 DEF RangeInv, RangeType, SeenHasCome, GimbalIsSecond, Range_!GimbalIsSecond
<1>7. CASE Range_!Streams
  <2>1. UNCHANGED <<px4, ranger, told>>
        /\ inbox' = inbox \cup {i - 1 : i \in DOMAIN px4.sensors}
    BY <1>7 DEF Range_!Streams
  <2>2. DOMAIN px4.sensors = 1 .. Len(px4.sensors) /\ Len(px4.sensors) \in Nat
    BY <1>1 DEF RangeType
  <2>3. inbox' \subseteq Nat
    <3>1. \A i \in DOMAIN px4.sensors : i - 1 \in Nat
      BY <2>2
    <3>2. inbox \subseteq Nat
      BY <1>1 DEF RangeType
    <3> QED
      BY <2>1, <3>1, <3>2
  <2>4. 0 \in inbox' => 0 \in inbox \/ px4.sensors # <<>>
    BY <2>1
  <2> QED
    BY <1>1, <2>1, <2>3, <2>4 DEF RangeInv, RangeType, SeenHasCome, GimbalIsSecond,
       Range_!GimbalIsSecond
<1> QED
  BY <1>2, <1>3, <1>4, <1>5, <1>6, <1>7, RangesLineKeeps
  DEF Range_!RangerNext, Range_!Line, Range_!Px4

-----------------------------------------------------------------------------
(***************************************************************************)
(* The upload                                                              *)
(***************************************************************************)
(* Whatever is not flown is refused: a survey with nothing in it, or an    *)
(* item of another kind.                                                   *)
LEMMA ItemKinds ==
  ASSUME NEW item, Mission!IsItem(item), ~Known(item)
  PROVE  Mission!Unsupported(item)
<1>1. CASE item = Mission!Way
  BY <1>1 DEF Known
<1>2. CASE item = Mission!Item("other", <<>>)
  <2>1. Mission!Leaves(item) = <<"other">>
    BY <1>2 DEF Mission!Item, Mission!Leaves
  <2>2. "other" \in Mission!Range(Mission!Leaves(item))
    BY <2>1 DEF Mission!Range
  <2> QED
    BY <2>2 DEF Mission!Unsupported
<1>3. CASE item = Mission!Item("complex", item.nested) /\ item.nested \in Seq({"simple", "other"})
  <2> DEFINE nested == item.nested
  <2>1. item.kind = "complex"
    BY <1>3 DEF Mission!Item
  <2>2. nested \in Seq({"simple", "other"})
    BY <1>3
  <2>3. Mission!Range(nested) # {"simple"}
    BY DEF Known
  <2>4. Mission!Leaves(item) = nested
    BY <2>1 DEF Mission!Leaves
  <2> HIDE DEF nested
  <2>5. CASE nested = <<>>
    BY <2>1, <2>5 DEF nested, Mission!Unsupported
  <2>6. CASE nested # <<>>
    <3>1. 1 \in DOMAIN nested
      BY <2>2, <2>6
    <3>2. nested[1] \in Mission!Range(nested)
      BY <3>1 DEF Mission!Range
    <3>3. PICK odd \in Mission!Range(nested) : odd # "simple"
      BY <2>3, <3>2
    <3> QED
      BY <2>4, <3>3 DEF Mission!Unsupported
  <2> QED
    BY <2>5, <2>6
<1> QED
  BY <1>1, <1>2, <1>3 DEF Mission!IsItem

LEMMA RefusedIsUnsupported ==
  ASSUME UploadType, Refused
  PROVE  \E i \in DOMAIN plan : Mission!Unsupported(plan[i])
<1>1. PICK i \in DOMAIN plan : ~Known(plan[i])
  BY DEF Refused
<1>2. Mission!IsItem(plan[i])
  BY DEF UploadType
<1> QED
  BY <1>1, <1>2, ItemKinds

LEMMA UploadStarts == Mission!UploadInit \/ NoUpload => UploadInv
<1>1. ASSUME Mission!UploadInit PROVE UploadInv
  <2>1. other \in BOOLEAN
    BY <1>1, Zenon DEF Mission!UploadInit
  <2>2. \A i \in DOMAIN plan : Mission!IsItem(plan[i])
    BY <1>1, PlansAssumption, Zenon DEF Mission!UploadInit
  <2> QED
    BY <1>1, <2>1, <2>2 DEF Mission!UploadInit, UploadInv, UploadType, UploadHonest, Mission!UploadHonest
<1>2. ASSUME NoUpload PROVE UploadInv
  <2>1. other \in BOOLEAN
    BY <1>2, Zenon DEF NoUpload
  <2>2. plan = <<>> /\ DOMAIN plan = {}
    BY <1>2 DEF NoUpload
  <2>3. \A i \in DOMAIN plan : Mission!IsItem(plan[i])
    BY <2>2
  <2> QED
    BY <1>2, <2>1, <2>2, <2>3 DEF NoUpload, UploadInv, UploadType, UploadHonest, Mission!UploadHonest
<1> QED
  BY <1>1, <1>2

(* What the uploader promises, of a plan whose items are known or not.     *)
LEMMA Promise ==
  UploadHonest <=>
    /\ outcome = "ok" /\ ~other => fcu = [mission |-> Mission!Waypoints, cursor |-> 0]
    /\ Refused => outcome # "ok" /\ (other \/ fcu.mission = <<"old">>)
BY DEF UploadHonest, Mission!UploadHonest, Refused, Known

LEMMA UploadKeeps == UploadInv /\ Mission!UploadNext => UploadInv'
<1> SUFFICES ASSUME UploadInv, Mission!UploadNext PROVE UploadInv'
  OBVIOUS
<1>1. /\ UploadType
      /\ outcome = "ok" /\ ~other => fcu = [mission |-> Mission!Waypoints, cursor |-> 0]
      /\ Refused => outcome # "ok" /\ (other \/ fcu.mission = <<"old">>)
      /\ uploader \in {"push", "reset"} => ~Refused
      /\ uploader = "reset" /\ ~other => fcu.mission = Mission!Waypoints
  BY Promise DEF UploadInv
<1>2. plan' = plan
  BY DEF Mission!UploadNext, Mission!Expand, Mission!NoService, Mission!Push, Mission!Reset,
     Mission!OtherStation
<1>3. Mission!Waypoints' = Mission!Waypoints /\ (Refused' <=> Refused)
  <2>1. Refused' <=> Refused
    BY <1>2 DEF Refused
  <2>2. Mission!Waypoints' = Mission!Waypoints
    BY <1>2 DEF Mission!Waypoints
  <2> QED
    BY <2>1, <2>2
<1>4. other' \in BOOLEAN
  <2>1. other' = TRUE \/ other' = other
    BY DEF Mission!UploadNext, Mission!Expand, Mission!NoService, Mission!Push, Mission!Reset,
       Mission!OtherStation
  <2>2. other \in BOOLEAN
    BY <1>1 DEF UploadType
  <2> QED
    BY <2>1, <2>2, Zenon
<1> SUFFICES /\ fcu' = [mission |-> fcu'.mission, cursor |-> fcu'.cursor]
             /\ outcome' # "none" => uploader' = "done"
             /\ outcome' = "ok" /\ ~other' =>
                  fcu' = [mission |-> Mission!Waypoints, cursor |-> 0]
             /\ Refused => outcome' # "ok" /\ (other' \/ fcu'.mission = <<"old">>)
             /\ uploader' \in {"push", "reset"} => ~Refused
             /\ uploader' = "reset" /\ ~other' => fcu'.mission = Mission!Waypoints
  <2>1. Promise!1' <=> Promise!2'
    BY PTL, Promise
  <2> QED
    BY <1>1, <1>2, <1>3, <1>4, <2>1 DEF UploadInv, UploadType
<1>5. fcu = [mission |-> fcu.mission, cursor |-> fcu.cursor]
      /\ (outcome # "none" => uploader = "done")
  BY <1>1 DEF UploadType
<1>6. CASE Mission!Expand
  <2>1. Refused => \E i \in DOMAIN plan : Mission!Unsupported(plan[i])
    BY <1>1, RefusedIsUnsupported DEF UploadType
  <2>2. UNCHANGED <<fcu, other>> /\ uploader = "load"
        /\ \/ uploader' = "done" /\ outcome' = "error"
           \/ uploader' = "push" /\ outcome' = outcome /\ ~Refused
    BY <1>6, <2>1 DEF Mission!Expand, Mission!Raise, Mission!Continue
  <2> QED
    BY <1>1, <1>5, <2>2
<1>7. CASE Mission!NoService
  <2>1. UNCHANGED <<fcu, other>> /\ uploader' = "done" /\ outcome' = "error"
    BY <1>7 DEF Mission!NoService, Mission!Raise
  <2> QED
    BY <1>1, <1>5, <2>1
<1>8. CASE Mission!Push
  <2>1. /\ uploader = "push" /\ other' = other
        /\ \/ /\ fcu' = [fcu EXCEPT !.mission = Mission!Waypoints]
              /\ \/ uploader' = "reset" /\ outcome' = outcome
                 \/ uploader' = "done" /\ outcome' = "error"
           \/ fcu' = fcu /\ uploader' = "done" /\ outcome' = "error"
    BY <1>8 DEF Mission!Push, Mission!Raise, Mission!Continue
  <2>2. CASE fcu' = fcu
    BY <1>1, <1>5, <2>1, <2>2
  <2>3. CASE fcu' = [fcu EXCEPT !.mission = Mission!Waypoints]
    <3>1. fcu' = [mission |-> Mission!Waypoints, cursor |-> fcu.cursor]
      BY <1>5, <2>3
    <3> QED
      BY <1>1, <1>5, <2>1, <3>1
  <2> QED
    BY <2>1, <2>2, <2>3
<1>9. CASE Mission!Reset
  <2>1. /\ uploader = "reset" /\ other' = other
        /\ \/ /\ fcu' = [fcu EXCEPT !.cursor = 0] /\ uploader' = "done"
              /\ outcome' \in {"ok", "error"}
           \/ fcu' = fcu /\ uploader' = "done" /\ outcome' = "error"
    BY <1>9 DEF Mission!Reset, Mission!Raise
  <2>2. CASE fcu' = fcu /\ uploader' = "done" /\ outcome' = "error"
    BY <1>1, <1>5, <2>1, <2>2
  <2>3. CASE fcu' = [fcu EXCEPT !.cursor = 0] /\ uploader' = "done"
    <3>1. fcu' = [mission |-> fcu.mission, cursor |-> 0]
      BY <1>5, <2>3
    <3> QED
      BY <1>1, <2>1, <2>3, <3>1
  <2> QED
    BY <2>1, <2>2, <2>3
<1>10. CASE Mission!OtherStation
  <2>1. /\ other' = TRUE /\ UNCHANGED <<uploader, outcome>> /\ ~other
        /\ fcu' \in {[mission |-> <<"theirs">>, cursor |-> 0], [fcu EXCEPT !.cursor = 1]}
    BY <1>10 DEF Mission!OtherStation
  <2>2. fcu' = [mission |-> fcu'.mission, cursor |-> fcu'.cursor]
    BY <1>5, <2>1
  <2> QED
    BY <1>1, <1>5, <2>1, <2>2
<1> QED
  BY <1>6, <1>7, <1>8, <1>9, <1>10 DEF Mission!UploadNext

-----------------------------------------------------------------------------
(***************************************************************************)
(* The report                                                              *)
(***************************************************************************)
LEMMA Periods == Period \in Nat /\ Period > 0 /\ Report!None = -1 /\ Outages \in Nat
BY SidecarsAssumption DEF Report!None

Steps == 0 .. Period
Left == 0 .. Period - 1
Servers == [up : BOOLEAN, bytes : Nat, since : Nat, faults : Nat]
Pollers ==
  [alive : BOOLEAN, quiet : Nat, before : Nat \cup {Report!None}, path : PathState, error : BOOLEAN]
Pairs == [path : PathState, error : BOOLEAN, carried : Nat]
Outsides ==
  [bridge : BOOLEAN, unit : BOOLEAN, bridgeStood : Steps, unitStood : Steps]
Reports ==
  [at : {"none", "streams", "rest"}, path : PathState, error : BOOLEAN,
   bridge : BOOLEAN, unit : BOOLEAN, failed : BOOLEAN]
Ticks == [bridges : Left, units : Left]

LEMMA Typed ==
  ReportType <=>
    /\ mediamtx \in Servers /\ poller \in Pollers /\ pair \in Pairs
    /\ outside \in Outsides /\ report \in Reports /\ tick \in Ticks
BY DEF ReportType, Servers, Pollers, Pairs, Outsides, Reports, Ticks, Steps, Left

LEMMA Paths ==
  /\ Report!NoPath \in PathState /\ Report!NoPath.kbits = Report!None
  /\ Report!NoPath.there = FALSE
  /\ \A kbits \in Nat \cup {Report!None} :
       /\ Report!Path(kbits) \in PathState /\ Report!Path(kbits).kbits = kbits
       /\ Report!Path(kbits).there = TRUE
BY DEF Report!NoPath, Report!Path, PathState

LEMMA ReportStarts == Report!ReporterInit \/ NoReport => ReportInv
<1>1. ASSUME Report!ReporterInit PROVE ReportInv
  <2> DEFINE runs == kind # "ports"
  <2>1. /\ mediamtx = [up |-> runs, bytes |-> 0, since |-> 0, faults |-> 0]
        /\ poller = [alive |-> runs, quiet |-> 0, before |-> Report!None,
                     path |-> Report!NoPath, error |-> FALSE]
        /\ pair = [path |-> Report!NoPath, error |-> FALSE, carried |-> 0]
        /\ outside = [bridge |-> FALSE, unit |-> FALSE, bridgeStood |-> 0, unitStood |-> 0]
        /\ report = [at |-> "streams", path |-> Report!NoPath, error |-> FALSE,
                     bridge |-> FALSE, unit |-> FALSE, failed |-> TRUE]
        /\ tick = [bridges |-> 0, units |-> 0]
    BY <1>1 DEF Report!ReporterInit
  <2>2. runs \in BOOLEAN
    OBVIOUS
  <2> HIDE DEF runs
  <2>3. ReportType
    BY <2>1, <2>2, Paths, Periods DEF ReportType
  <2> QED
    BY <2>1, <2>3, Paths DEF ReportInv, Counted, PairTrue, SoonRead
<1>2. ASSUME NoReport PROVE ReportInv
  <2>1. /\ mediamtx = [up |-> FALSE, bytes |-> 0, since |-> 0, faults |-> Outages]
        /\ poller = [alive |-> FALSE, quiet |-> 0, before |-> Report!None,
                     path |-> Report!NoPath, error |-> FALSE]
        /\ pair = [path |-> Report!NoPath, error |-> FALSE, carried |-> 0]
        /\ outside = [bridge |-> FALSE, unit |-> FALSE, bridgeStood |-> 0, unitStood |-> 0]
        /\ report = [at |-> "none", path |-> Report!NoPath, error |-> FALSE,
                     bridge |-> FALSE, unit |-> FALSE, failed |-> TRUE]
        /\ tick = [bridges |-> 0, units |-> 0]
    BY <1>2 DEF NoReport
  <2>2. ReportType
    BY <2>1, Paths, Periods DEF ReportType
  <2> QED
    BY <2>1, <2>2, Paths DEF ReportInv, Counted, PairTrue, SoonRead
<1> QED
  BY <1>1, <1>2

(* The rate of an answer is of bytes that were carried since the one       *)
(* before it.                                                              *)
LEMMA RateTrue ==
  ASSUME ReportType, Counted
  PROVE  /\ Report!Rate(mediamtx.bytes) \in Nat \cup {Report!None}
         /\ Report!Rate(mediamtx.bytes) # Report!None =>
              Report!Rate(mediamtx.bytes) \in 0 .. mediamtx.since
<1>1. mediamtx.bytes \in Nat /\ mediamtx.since \in Nat /\ poller.before \in Nat \cup {Report!None}
  BY DEF ReportType
<1> QED
  BY <1>1, Periods DEF Report!Rate, Counted

(* Where only the server changes.                                          *)
LEMMA ServerKeeps ==
  ASSUME ReportInv, mediamtx' \in Servers, UNCHANGED <<kind, pair, outside, report, tick>>,
         poller' \in Pollers, poller'.before = poller.before,
         mediamtx'.bytes - mediamtx'.since <= mediamtx.bytes - mediamtx.since
  PROVE  ReportInv'
<1>1. ReportType /\ Counted /\ PairTrue /\ SoonRead
  BY DEF ReportInv
<1>2. ReportType'
  BY <1>1 DEF ReportType, Servers, Pollers
<1>3. Counted'
  <2>1. /\ mediamtx.bytes \in Nat /\ mediamtx.since \in Nat
        /\ mediamtx'.bytes \in Nat /\ mediamtx'.since \in Nat
        /\ poller.before \in Int
    BY <1>1, Periods DEF ReportType, Servers
  <2> QED
    BY <1>1, <2>1 DEF Counted
<1>4. PairTrue' /\ SoonRead'
  BY <1>1 DEF PairTrue, SoonRead
<1> QED
  BY <1>2, <1>3, <1>4 DEF ReportInv

LEMMA AnsweredKeeps == ReportInv /\ Report!Answered => ReportInv'
<1> SUFFICES ASSUME ReportInv, Report!Answered PROVE ReportInv'
  OBVIOUS
<1>1. /\ ReportType /\ Counted /\ SoonRead /\ mediamtx \in Servers /\ poller \in Pollers
  BY Typed DEF ReportInv
<1>2. /\ poller' = Report!Read /\ UNCHANGED <<kind, outside, report, tick>>
      /\ pair' = [path |-> Report!Read.path, error |-> Report!Read.error, carried |-> mediamtx.since]
      /\ mediamtx' = [mediamtx EXCEPT !.since = 0]
  BY DEF Report!Answered, Report!Publish
<1>3. /\ mediamtx' \in Servers /\ mediamtx'.since = 0 /\ mediamtx'.bytes = mediamtx.bytes
      /\ mediamtx.bytes \in Nat /\ mediamtx.since \in Nat
  BY <1>1, <1>2 DEF Servers
<1>4. PICK kbits \in Nat \cup {Report!None} :
        /\ kbits # Report!None => kbits \in 0 .. mediamtx.since
        /\ \/ kind = "probe" /\ Report!Read = [poller EXCEPT !.error = FALSE,
                                  !.path = Report!Path(kbits), !.quiet = Period - 1]
           \/ kind # "probe" /\ Report!Read = [poller EXCEPT !.error = FALSE,
                                  !.path = Report!Path(kbits), !.before = mediamtx.bytes]
  <2>1. CASE kind = "probe"
    BY <2>1 DEF Report!Read
  <2>2. CASE kind # "probe"
    <3>1. Report!Read = [poller EXCEPT !.error = FALSE, !.path = Report!Path(Report!Rate(mediamtx.bytes)),
                                       !.before = mediamtx.bytes]
      BY <2>2 DEF Report!Read
    <3> QED
      BY <1>1, <2>2, <3>1, RateTrue
  <2> QED
    BY <2>1, <2>2
<1>5. Report!Path(kbits) \in PathState /\ Report!Path(kbits).kbits = kbits
  BY Paths
<1>6. /\ Report!Read \in Pollers /\ Report!Read.error = FALSE
      /\ Report!Read.path = Report!Path(kbits)
      /\ Report!Read.before = IF kind = "probe" THEN poller.before ELSE mediamtx.bytes
  <2>1. CASE kind = "probe"
    <3> DEFINE wait == Period - 1
    <3>1. wait \in Nat
      BY Periods
    <3>2. Report!Read = [poller EXCEPT !.error = FALSE, !.path = Report!Path(kbits), !.quiet = wait]
      BY <1>4, <2>1
    <3> HIDE DEF wait
    <3> QED
      BY <1>1, <1>5, <2>1, <3>1, <3>2 DEF Pollers
  <2>2. CASE kind # "probe"
    BY <1>1, <1>3, <1>4, <1>5, <2>2 DEF Pollers
  <2> QED
    BY <2>1, <2>2
<1>7. pair' = [path |-> Report!Path(kbits), error |-> FALSE, carried |-> mediamtx.since]
  BY <1>2, <1>6
<1>8. ReportType'
  <2>1. pair' \in Pairs
    BY <1>3, <1>5, <1>7 DEF Pairs
  <2> QED
    BY <1>1, <1>2, <1>3, <1>6, <2>1 DEF ReportType, Pairs, Pollers, Servers
<1>9. Counted'
  BY <1>1, <1>2, <1>3, <1>6 DEF Counted
<1>10. PairTrue'
  BY <1>4, <1>5, <1>7 DEF PairTrue
<1>11. SoonRead'
  BY <1>1, <1>2 DEF SoonRead
<1> QED
  BY <1>8, <1>9, <1>10, <1>11 DEF ReportInv

LEMMA UnansweredKeeps == ReportInv /\ Report!Unanswered => ReportInv'
<1> SUFFICES ASSUME ReportInv, Report!Unanswered PROVE ReportInv'
  OBVIOUS
<1>1. /\ ReportType /\ Counted /\ SoonRead /\ mediamtx \in Servers /\ poller \in Pollers
  BY Typed DEF ReportInv
<1> DEFINE fault == IF mediamtx.up THEN 1 ELSE 0
<1>2. /\ poller' = Report!GaveUp /\ UNCHANGED <<kind, outside, report, tick>>
      /\ pair' = [path |-> Report!GaveUp.path, error |-> Report!GaveUp.error, carried |-> 0]
      /\ mediamtx' = [mediamtx EXCEPT !.faults = mediamtx.faults + fault]
  BY DEF Report!Unanswered, Report!Publish
<1>3. fault \in Nat
  OBVIOUS
<1> HIDE DEF fault
<1>4. mediamtx' \in Servers
  BY <1>1, <1>2, <1>3 DEF Servers
<1>5. /\ Report!GaveUp \in Pollers /\ Report!GaveUp.error = TRUE
      /\ Report!GaveUp.path = Report!NoPath /\ Report!GaveUp.before = Report!None
  <2> DEFINE wait == Period - 1
  <2>1. wait \in Nat /\ Report!None \in Nat \cup {Report!None}
    BY Periods
  <2>2. Report!GaveUp = [poller EXCEPT !.error = TRUE, !.path = Report!NoPath,
                                       !.before = Report!None, !.quiet = wait]
    BY DEF Report!GaveUp
  <2> HIDE DEF wait
  <2> QED
    BY <1>1, Paths, <2>1, <2>2 DEF Pollers
<1>6. pair' = [path |-> Report!NoPath, error |-> TRUE, carried |-> 0]
  BY <1>2, <1>5
<1>7. ReportType'
  BY <1>1, <1>2, <1>4, <1>5, <1>6, Paths DEF ReportType, Pollers, Servers
<1>8. Counted' /\ PairTrue' /\ SoonRead'
  BY <1>1, <1>2, <1>5, <1>6, Paths DEF Counted, PairTrue, SoonRead
<1> QED
  BY <1>7, <1>8 DEF ReportInv

(* The server carries, stops and starts again, and the thread waits or     *)
(* ends: the counter goes up by no more than is carried.                   *)
LEMMA BetweenKeeps ==
  ReportInv /\ (\/ Report!QuietTick \/ Report!CutOff \/ Report!Carry
                \/ Report!ServerStops \/ Report!ServerStarts) => ReportInv'
<1> SUFFICES ASSUME ReportInv, \/ Report!QuietTick \/ Report!CutOff \/ Report!Carry
                               \/ Report!ServerStops \/ Report!ServerStarts
             PROVE  ReportInv'
  OBVIOUS
<1>1. mediamtx \in Servers /\ poller \in Pollers
  BY Typed DEF ReportInv
<1>2. CASE Report!QuietTick
  <2>1. /\ poller' = [poller EXCEPT !.quiet = poller.quiet - 1] /\ poller.quiet > 0
        /\ UNCHANGED <<kind, mediamtx, pair, outside, report, tick>>
    BY <1>2 DEF Report!QuietTick
  <2>2. poller' \in Pollers /\ poller'.before = poller.before
    BY <1>1, <2>1 DEF Pollers
  <2>3. mediamtx' \in Servers /\ mediamtx'.bytes - mediamtx'.since <= mediamtx.bytes - mediamtx.since
    BY <1>1, <2>1 DEF Servers
  <2> QED
    BY <2>1, <2>2, <2>3, ServerKeeps
<1>3. CASE Report!CutOff \/ Report!ServerStops
  <2>1. /\ mediamtx' = [mediamtx EXCEPT !.up = FALSE, !.bytes = 0, !.faults = mediamtx.faults + 1]
        /\ poller' = poller \/ poller' = [poller EXCEPT !.alive = FALSE]
        /\ UNCHANGED <<kind, pair, outside, report, tick>>
    BY <1>3 DEF Report!CutOff, Report!ServerStops
  <2>2. poller' \in Pollers /\ poller'.before = poller.before
    BY <1>1, <2>1 DEF Pollers
  <2>3. mediamtx' \in Servers /\ mediamtx'.bytes = 0 /\ mediamtx'.since = mediamtx.since
    <3>1. mediamtx.faults + 1 \in Nat
      BY <1>1 DEF Servers
    <3> QED
      BY <1>1, <2>1, <3>1 DEF Servers
  <2>4. mediamtx'.bytes - mediamtx'.since <= mediamtx.bytes - mediamtx.since
    BY <1>1, <2>3 DEF Servers
  <2> QED
    BY <2>1, <2>2, <2>3, <2>4, ServerKeeps
<1>4. CASE Report!Carry
  <2> DEFINE bytes == mediamtx.bytes + 1
  <2> DEFINE since == mediamtx.since + 1
  <2>1. /\ mediamtx' = [mediamtx EXCEPT !.bytes = bytes, !.since = since]
        /\ UNCHANGED <<kind, poller, pair, outside, report, tick>>
    BY <1>4 DEF Report!Carry
  <2>2. /\ bytes \in Nat /\ since \in Nat
        /\ bytes - since <= mediamtx.bytes - mediamtx.since
    BY <1>1 DEF Servers
  <2> HIDE DEF bytes, since
  <2>3. mediamtx' \in Servers /\ mediamtx'.bytes = bytes /\ mediamtx'.since = since
    BY <1>1, <2>1, <2>2 DEF Servers
  <2> QED
    BY <1>1, <2>1, <2>2, <2>3, ServerKeeps
<1>5. CASE Report!ServerStarts
  <2>1. /\ mediamtx' = [mediamtx EXCEPT !.up = TRUE]
        /\ UNCHANGED <<kind, poller, pair, outside, report, tick>>
    BY <1>5 DEF Report!ServerStarts
  <2>2. /\ mediamtx' \in Servers /\ mediamtx'.bytes = mediamtx.bytes
        /\ mediamtx'.since = mediamtx.since
    BY <1>1, <2>1 DEF Servers
  <2>3. mediamtx'.bytes - mediamtx'.since <= mediamtx.bytes - mediamtx.since
    BY <1>1, <2>2 DEF Servers
  <2> QED
    BY <1>1, <2>1, <2>2, <2>3, ServerKeeps
<1> QED
  BY <1>2, <1>3, <1>4, <1>5

-----------------------------------------------------------------------------
(* The report, the bridges and the units: the paths stay as they are.      *)
LEMMA RestKeeps ==
  ASSUME ReportInv, UNCHANGED <<kind, mediamtx, poller, pair>>,
         outside' \in Outsides, report' \in Reports, tick' \in Ticks, SoonRead'
  PROVE  ReportInv'
<1>1. ReportType'
  BY DEF ReportInv, ReportType, Outsides, Reports, Ticks, Steps, Left
<1>2. Counted' /\ PairTrue'
  BY DEF ReportInv, Counted, PairTrue
<1> QED
  BY <1>1, <1>2 DEF ReportInv

LEMMA TakePathsKeeps == ReportInv /\ Report!TakePaths => ReportInv'
<1> SUFFICES ASSUME ReportInv, Report!TakePaths PROVE ReportInv'
  OBVIOUS
<1>1. /\ pair \in Pairs /\ outside \in Outsides /\ report \in Reports /\ tick \in Ticks /\ SoonRead
  BY Typed DEF ReportInv
<1>2. /\ report' = [report EXCEPT !.at = "rest", !.path = pair.path]
      /\ UNCHANGED <<kind, mediamtx, poller, pair, outside, tick>>
  BY DEF Report!TakePaths
<1>3. /\ report' \in Reports /\ report'.bridge = report.bridge /\ report'.unit = report.unit
      /\ report'.failed = report.failed
  BY <1>1, <1>2 DEF Reports, Pairs
<1>4. SoonRead'
  BY <1>1, <1>2, <1>3 DEF SoonRead
<1> QED
  BY <1>1, <1>2, <1>3, <1>4, RestKeeps

(* A counter of ticks that goes down by one, where it is not read, meets   *)
(* one of reports that goes up by one at most.                             *)
LEMMA TicksMeet ==
  ASSUME NEW left \in Left, NEW stood \in Steps
  PROVE  /\ Report!After(left) \in Left /\ Report!Stood(stood) \in Steps
         /\ left # 0 /\ stood + left < Period => Report!Stood(stood) + Report!After(left) < Period
BY Periods DEF Report!After, Report!Stood, Left, Steps

LEMMA TakeRestKeeps == ReportInv /\ Report!TakeRest => ReportInv'
<1> SUFFICES ASSUME ReportInv, Report!TakeRest PROVE ReportInv'
  OBVIOUS
<1>1. /\ pair \in Pairs /\ outside \in Outsides /\ report \in Reports /\ tick \in Ticks /\ SoonRead
  BY Typed DEF ReportInv
<1>2. PICK bridge \in Report!Bridges, read \in Report!Units :
        report' = [at |-> "streams", path |-> report.path, error |-> pair.error,
                   bridge |-> bridge, unit |-> read.unit, failed |-> read.failed]
  BY DEF Report!TakeRest
<1>3. bridge \in BOOLEAN
  BY <1>1 DEF Report!Bridges, Report!Listening, Reports
<1>4. read.unit \in BOOLEAN /\ read.failed \in BOOLEAN
  <2>1. outside.unit \in BOOLEAN /\ report.unit \in BOOLEAN /\ report.failed \in BOOLEAN
    BY <1>1 DEF Outsides, Reports
  <2>2. \/ read = [unit |-> outside.unit, failed |-> FALSE]
        \/ read = [unit |-> report.unit, failed |-> TRUE]
        \/ read = [unit |-> report.unit, failed |-> report.failed]
    BY DEF Report!Units
  <2>3. CASE read = [unit |-> outside.unit, failed |-> FALSE]
    BY <2>1, <2>3
  <2>4. CASE read = [unit |-> report.unit, failed |-> TRUE]
    BY <2>1, <2>4
  <2>5. CASE read = [unit |-> report.unit, failed |-> report.failed]
    BY <2>1, <2>5
  <2> QED
    BY <2>2, <2>3, <2>4, <2>5
<1>5. tick.bridges = 0 /\ ~outside.bridge => ~bridge
  BY DEF Report!Bridges, Report!Listening
<1>6. tick.bridges # 0 => bridge = report.bridge
  BY DEF Report!Bridges
<1>7. tick.units = 0 /\ ~outside.unit => ~read.unit \/ read.failed
  BY <1>1 DEF Report!Units, Outsides
<1>8. tick.units # 0 => read.unit = report.unit /\ read.failed = report.failed
  BY DEF Report!Units
<1>9. /\ tick.bridges \in Left /\ tick.units \in Left
      /\ outside.bridgeStood \in Steps /\ outside.unitStood \in Steps
  BY <1>1 DEF Ticks, Outsides
<1>10. \/ UNCHANGED <<outside, tick>>
       \/ /\ tick' = [bridges |-> Report!After(tick.bridges), units |-> Report!After(tick.units)]
          /\ outside' = [outside EXCEPT !.bridgeStood = Report!Stood(outside.bridgeStood),
                                        !.unitStood = Report!Stood(outside.unitStood)]
  BY DEF Report!TakeRest
<1>11. /\ tick' \in Ticks /\ outside' \in Outsides
       /\ outside'.bridge = outside.bridge /\ outside'.unit = outside.unit
       /\ \/ UNCHANGED <<outside, tick>>
          \/ /\ tick'.bridges = Report!After(tick.bridges) /\ tick'.units = Report!After(tick.units)
             /\ outside'.bridgeStood = Report!Stood(outside.bridgeStood)
             /\ outside'.unitStood = Report!Stood(outside.unitStood)
  <2>1. CASE UNCHANGED <<outside, tick>>
    BY <1>1, <2>1
  <2>2. CASE /\ tick' = [bridges |-> Report!After(tick.bridges), units |-> Report!After(tick.units)]
             /\ outside' = [outside EXCEPT !.bridgeStood = Report!Stood(outside.bridgeStood),
                                           !.unitStood = Report!Stood(outside.unitStood)]
    <3> DEFINE stoodBridge == Report!Stood(outside.bridgeStood)
    <3> DEFINE stoodUnit == Report!Stood(outside.unitStood)
    <3>1. /\ stoodBridge \in Steps /\ stoodUnit \in Steps
          /\ Report!After(tick.bridges) \in Left /\ Report!After(tick.units) \in Left
      BY <1>9, TicksMeet
    <3>2. outside' = [outside EXCEPT !.bridgeStood = stoodBridge, !.unitStood = stoodUnit]
      BY <2>2
    <3> HIDE DEF stoodBridge, stoodUnit
    <3>3. /\ outside' \in Outsides /\ outside'.bridge = outside.bridge /\ outside'.unit = outside.unit
          /\ outside'.bridgeStood = stoodBridge /\ outside'.unitStood = stoodUnit
      BY <1>1, <3>1, <3>2 DEF Outsides
    <3>4. tick' \in Ticks
      BY <2>2, <3>1 DEF Ticks
    <3> QED
      BY <2>2, <3>3, <3>4 DEF stoodBridge, stoodUnit
  <2> QED
    BY <1>10, <2>1, <2>2
<1>12. report' \in Reports
  BY <1>1, <1>2, <1>3, <1>4 DEF Reports, Pairs
<1>13. /\ tick.bridges # 0 /\ outside.bridgeStood + tick.bridges < Period =>
            outside'.bridgeStood + tick'.bridges < Period
       /\ tick.units # 0 /\ outside.unitStood + tick.units < Period =>
            outside'.unitStood + tick'.units < Period
  <2>1. CASE UNCHANGED <<outside, tick>>
    BY <2>1
  <2>2. CASE ~UNCHANGED <<outside, tick>>
    BY <1>9, <1>11, <2>2, TicksMeet
  <2> QED
    BY <2>1, <2>2
<1>14. SoonRead'
  <2>1. report'.bridge = bridge /\ report'.unit = read.unit /\ report'.failed = read.failed
    BY <1>2
  <2>2. report'.bridge /\ ~outside'.bridge => outside'.bridgeStood + tick'.bridges < Period
    BY <1>1, <1>5, <1>6, <1>11, <1>13, <2>1 DEF SoonRead
  <2>3. report'.unit /\ ~report'.failed /\ ~outside'.unit => outside'.unitStood + tick'.units < Period
    BY <1>1, <1>7, <1>8, <1>11, <1>13, <2>1 DEF SoonRead
  <2> QED
    BY <2>2, <2>3 DEF SoonRead
<1>15. UNCHANGED <<kind, mediamtx, poller, pair>>
  BY DEF Report!TakeRest
<1> QED
  BY <1>11, <1>12, <1>14, <1>15, RestKeeps

LEMMA TurnsKeep == ReportInv /\ (Report!BridgeTurns \/ Report!UnitTurns) => ReportInv'
<1> SUFFICES ASSUME ReportInv, Report!BridgeTurns \/ Report!UnitTurns PROVE ReportInv'
  OBVIOUS
<1>1. /\ outside \in Outsides /\ report \in Reports /\ tick \in Ticks /\ SoonRead
  BY Typed DEF ReportInv
<1>2. 0 \in Steps /\ tick.bridges \in 0 .. Period - 1 /\ tick.units \in 0 .. Period - 1
  BY <1>1, Periods DEF Ticks, Left, Steps
<1>3. CASE Report!BridgeTurns
  <2> DEFINE bridge == ~outside.bridge
  <2>1. /\ outside' = [outside EXCEPT !.bridge = bridge, !.bridgeStood = 0]
        /\ UNCHANGED <<kind, mediamtx, poller, pair, report, tick>>
    BY <1>3 DEF Report!BridgeTurns
  <2>2. bridge \in BOOLEAN
    OBVIOUS
  <2> HIDE DEF bridge
  <2>3. /\ outside' \in Outsides /\ outside'.bridgeStood = 0
        /\ outside'.unit = outside.unit /\ outside'.unitStood = outside.unitStood
    BY <1>1, <1>2, <2>1, <2>2 DEF Outsides
  <2>4. SoonRead'
    BY <1>1, <1>2, <2>1, <2>3, Periods DEF SoonRead
  <2> QED
    BY <1>1, <2>1, <2>3, <2>4, RestKeeps
<1>4. CASE Report!UnitTurns
  <2> DEFINE unit == ~outside.unit
  <2>1. /\ outside' = [outside EXCEPT !.unit = unit, !.unitStood = 0]
        /\ UNCHANGED <<kind, mediamtx, poller, pair, report, tick>>
    BY <1>4 DEF Report!UnitTurns
  <2>2. unit \in BOOLEAN
    OBVIOUS
  <2> HIDE DEF unit
  <2>3. /\ outside' \in Outsides /\ outside'.unitStood = 0
        /\ outside'.bridge = outside.bridge /\ outside'.bridgeStood = outside.bridgeStood
    BY <1>1, <1>2, <2>1, <2>2 DEF Outsides
  <2>4. SoonRead'
    BY <1>1, <1>2, <2>1, <2>3, Periods DEF SoonRead
  <2> QED
    BY <1>1, <2>1, <2>3, <2>4, RestKeeps
<1> QED
  BY <1>3, <1>4

LEMMA ReportKeeps == ReportInv /\ Report!ReporterNext => ReportInv'
BY AnsweredKeeps, UnansweredKeeps, BetweenKeeps, TakePathsKeeps, TakeRestKeeps, TurnsKeep
DEF Report!ReporterNext, Report!Poll, Report!Snapshot

-----------------------------------------------------------------------------
(***************************************************************************)
(* The frames.  Nothing is assumed of the pieces in which the bytes come,  *)
(* so what is read from a part of the stream is told by induction on its   *)
(* length: by the least place at which it would be wrong.                  *)
(***************************************************************************)
LEMMA Least ==
  ASSUME NEW S \in SUBSET Nat, S # {}
  PROVE  \E n \in S : \A m \in S : n <= m
<1>1. PICK n \in S : \A m \in S : ~ (<<m, n>> \in OpToRel(<, Nat))
  BY NatLessThanWellFounded, WFMin, Zenon
<1>2. \A m \in S : ~ (m < n)
  BY <1>1 DEF OpToRel
<1> QED
  BY <1>2

LEMMA JoinExists ==
  ASSUME NEW pieces, NEW n \in Nat \ {0}
  PROVE  Joins(pieces, n, Joined(pieces, n))
<1> DEFINE Short(k) == \E joined : Joins(pieces, n - k, joined)
<1> DEFINE Shorts == {k \in 0 .. n - 1 : Short(k)}
<1>1. n - 1 \in Shorts
  <2>1. Joins(pieces, 1, [i \in 1 .. 1 |-> pieces[i]])
    BY DEF Joins
  <2>2. n - (n - 1) = 1
    OBVIOUS
  <2> QED
    BY <2>1, <2>2
<1>2. PICK k \in Shorts : \A m \in Shorts : k <= m
  <2> HIDE DEF Shorts
  <2>1. Shorts \in SUBSET Nat
    BY DEF Shorts
  <2> QED
    BY <1>1, <2>1, Least
<1>3. PICK joined : Joins(pieces, n - k, joined)
  BY <1>2
<1>4. k = 0
  <2> SUFFICES ASSUME k # 0 PROVE FALSE
    OBVIOUS
  <2>1. k \in 1 .. n - 1 /\ n - (k - 1) = n - k + 1 /\ n - k \in 1 .. n
    BY <1>2
  <2> DEFINE longer == [i \in 1 .. n - k + 1 |->
                          IF i = n - k + 1 THEN joined[n - k] \o pieces[i] ELSE joined[i]]
  <2>2. Joins(pieces, n - k + 1, longer)
    <3>1. \A i \in 1 .. n - k : joined[i] = (IF i = 1 THEN pieces[i] ELSE joined[i - 1] \o pieces[i])
      BY <1>3 DEF Joins
    <3>2. \A i \in 1 .. n - k + 1 :
            longer[i] = (IF i = 1 THEN pieces[i] ELSE longer[i - 1] \o pieces[i])
      BY <2>1, <3>1
    <3>3. longer = [i \in 1 .. n - k + 1 |-> longer[i]]
      OBVIOUS
    <3> HIDE DEF longer
    <3> QED
      BY <3>2, <3>3 DEF Joins
  <2>3. Short(k - 1)
    BY <2>1, <2>2
  <2>4. k - 1 \in Shorts
    BY <2>1, <2>3
  <2> QED
    BY <1>2, <2>1, <2>4
<1>5. \E j : Joins(pieces, n, j)
  BY <1>3, <1>4
<1> QED
  BY <1>5 DEF Joined

(* What the pieces up to one are, one after another.                       *)
LEMMA JoinIs ==
  ASSUME NEW S, NEW pieces \in Seq(Seq(S)), NEW n \in 1 .. Len(pieces)
  PROVE  /\ Joined(pieces, n)[1] = pieces[1]
         /\ \A i \in 1 .. n : Joined(pieces, n)[i] \in Seq(S)
         /\ \A i \in 1 .. n - 1 : Joined(pieces, n)[i + 1] = Joined(pieces, n)[i] \o pieces[i + 1]
<1> DEFINE joined == Joined(pieces, n)
<1>0. Joins(pieces, n, joined)
  BY JoinExists
<1> HIDE DEF joined
<1>1. \A i \in 1 .. n : joined[i] = (IF i = 1 THEN pieces[i] ELSE joined[i - 1] \o pieces[i])
  BY <1>0 DEF Joins
<1>2. joined[1] = pieces[1]
  BY <1>1
<1>3. \A i \in 1 .. n - 1 : joined[i + 1] = joined[i] \o pieces[i + 1]
  <2> TAKE i \in 1 .. n - 1
  <2>1. i + 1 \in 1 .. n /\ i + 1 # 1 /\ (i + 1) - 1 = i
    OBVIOUS
  <2> QED
    BY <1>1, <2>1
<1>4. \A i \in 1 .. n : joined[i] \in Seq(S)
  <2> DEFINE Odd == {i \in 1 .. n : joined[i] \notin Seq(S)}
  <2> SUFFICES ASSUME Odd # {} PROVE FALSE
    OBVIOUS
  <2>1. PICK i \in Odd : \A m \in Odd : i <= m
    <3>1. Odd \in SUBSET Nat
      OBVIOUS
    <3> HIDE DEF Odd
    <3> QED
      BY <3>1, Least
  <2>2. CASE i = 1
    BY <1>2, <2>1, <2>2
  <2>3. CASE i # 1
    <3>1. i - 1 \in 1 .. n - 1 /\ (i - 1) + 1 = i /\ i - 1 \notin Odd /\ i \in 1 .. n
      BY <2>1, <2>3
    <3>2. joined[i - 1] \in Seq(S) /\ pieces[i] \in Seq(S)
      BY <3>1
    <3>3. joined[i] = joined[i - 1] \o pieces[i]
      BY <1>3, <3>1
    <3> HIDE DEF Odd
    <3>4. joined[i] \in Seq(S)
      BY <3>2, <3>3
    <3> QED
      BY <2>1, <3>4 DEF Odd
  <2> QED
    BY <2>2, <2>3
<1> QED
  BY <1>2, <1>3, <1>4 DEF joined

(* The beginnings of the stream are the streams of the first pieces.       *)
LEMMA JoinSame ==
  ASSUME NEW S, NEW pieces \in Seq(Seq(S)), NEW n \in 1 .. Len(pieces)
  PROVE  Reader!FlattenSeq(SubSeq(pieces, 1, n)) = Joined(pieces, Len(pieces))[n]
<1> DEFINE head == SubSeq(pieces, 1, n)
<1>1. head \in Seq(Seq(S)) /\ Len(head) = n /\ Len(pieces) \in Nat
      /\ \A i \in 1 .. n : head[i] = pieces[i]
  OBVIOUS
<1> HIDE DEF head
<1>2. Reader!FlattenSeq(head) = Joined(head, n)[n]
  <2>1. Len(head) # 0
    BY <1>1
  <2> QED
    BY <1>1, <2>1 DEF Reader!FlattenSeq, Joined, Joins
<1> DEFINE short == Joined(head, n)
           long == Joined(pieces, Len(pieces))
<1>3. /\ short[1] = head[1]
      /\ \A i \in 1 .. n - 1 : short[i + 1] = short[i] \o head[i + 1]
  <2>1. n \in 1 .. Len(head)
    BY <1>1
  <2> QED
    BY <1>1, <2>1, JoinIs
<1>4. /\ long[1] = pieces[1]
      /\ \A i \in 1 .. Len(pieces) - 1 : long[i + 1] = long[i] \o pieces[i + 1]
  <2>1. Len(pieces) \in 1 .. Len(pieces)
    BY <1>1
  <2> QED
    BY <2>1, JoinIs
<1> HIDE DEF short, long
<1>5. \A i \in 1 .. n : short[i] = long[i]
  <2> DEFINE Odd == {i \in 1 .. n : short[i] # long[i]}
  <2> SUFFICES ASSUME Odd # {} PROVE FALSE
    OBVIOUS
  <2>1. PICK i \in Odd : \A m \in Odd : i <= m
    <3>1. Odd \in SUBSET Nat
      OBVIOUS
    <3> HIDE DEF Odd
    <3> QED
      BY <3>1, Least
  <2>2. CASE i = 1
    BY <1>1, <1>3, <1>4, <2>1, <2>2
  <2>3. CASE i # 1
    <3>1. /\ i - 1 \in 1 .. n - 1 /\ (i - 1) + 1 = i /\ i - 1 \notin Odd /\ i \in 1 .. n
          /\ i - 1 \in 1 .. Len(pieces) - 1 /\ i - 1 \in 1 .. n
      BY <1>1, <2>1, <2>3
    <3>2. short[i - 1] = long[i - 1]
      BY <3>1
    <3>3. short[i] = short[i - 1] \o head[i] /\ long[i] = long[i - 1] \o pieces[i]
      BY <1>3, <1>4, <3>1
    <3> QED
      BY <1>1, <2>1, <3>1, <3>2, <3>3
  <2> QED
    BY <2>2, <2>3
<1>6. n \in 1 .. n
  OBVIOUS
<1> QED
  BY <1>2, <1>5, <1>6 DEF short, long, head

LEMMA EndsAre ==
  ASSUME NEW S, NEW pieces \in Seq(Seq(S)), pieces # <<>>
  PROVE  /\ Reader!FlattenSeq(pieces) \in Seq(S)
         /\ Len(Reader!FlattenSeq(pieces)) = EndOf(pieces, Len(pieces))
         /\ \A n \in 0 .. Len(pieces) : EndOf(pieces, n) \in Nat
         /\ \A n \in 1 .. Len(pieces) : EndOf(pieces, n) = EndOf(pieces, n - 1) + Len(pieces[n])
         /\ \A n \in 1 .. Len(pieces) :
              Len(Reader!FlattenSeq(SubSeq(pieces, 1, n))) = EndOf(pieces, n)
<1> DEFINE joined == Joined(pieces, Len(pieces))
<1>1. Len(pieces) \in 1 .. Len(pieces) /\ Len(pieces) \in Nat
  OBVIOUS
<1>2. /\ joined[1] = pieces[1]
      /\ \A i \in 1 .. Len(pieces) : joined[i] \in Seq(S)
      /\ \A i \in 1 .. Len(pieces) - 1 : joined[i + 1] = joined[i] \o pieces[i + 1]
  BY <1>1, JoinIs
<1>3. \A n \in 1 .. Len(pieces) : Reader!FlattenSeq(SubSeq(pieces, 1, n)) = joined[n]
  BY JoinSame
<1>4. SubSeq(pieces, 1, Len(pieces)) = pieces
  OBVIOUS
<1>5. \A n \in 1 .. Len(pieces) : EndOf(pieces, n) = Len(joined[n])
  BY DEF EndOf
<1>6. EndOf(pieces, 0) = 0
  BY DEF EndOf
<1> HIDE DEF joined
<1>7. Reader!FlattenSeq(pieces) = joined[Len(pieces)]
  BY <1>1, <1>3, <1>4
<1>8. \A n \in 0 .. Len(pieces) : EndOf(pieces, n) \in Nat
  <2> TAKE n \in 0 .. Len(pieces)
  <2>1. CASE n = 0
    BY <1>6, <2>1
  <2>2. CASE n # 0
    <3>1. n \in 1 .. Len(pieces)
      BY <2>2
    <3>2. joined[n] \in Seq(S) /\ EndOf(pieces, n) = Len(joined[n])
      BY <1>2, <1>5, <3>1
    <3> QED
      BY <3>2
  <2> QED
    BY <2>1, <2>2
<1>9. \A n \in 1 .. Len(pieces) : EndOf(pieces, n) = EndOf(pieces, n - 1) + Len(pieces[n])
  <2> TAKE n \in 1 .. Len(pieces)
  <2>0. pieces[n] \in Seq(S)
    OBVIOUS
  <2>1. CASE n = 1
    BY <1>2, <1>5, <1>6, <2>0, <2>1
  <2>2. CASE n # 1
    <3>1. n - 1 \in 1 .. Len(pieces) - 1 /\ n - 1 \in 1 .. Len(pieces) /\ (n - 1) + 1 = n
      BY <2>2
    <3>2. joined[n - 1] \in Seq(S) /\ joined[n] = joined[n - 1] \o pieces[n]
      BY <1>2, <3>1
    <3>3. Len(joined[n]) = Len(joined[n - 1]) + Len(pieces[n])
      BY <2>0, <3>2
    <3> QED
      BY <1>5, <3>1, <3>3
  <2> QED
    BY <2>1, <2>2
<1> QED
  BY <1>1, <1>2, <1>3, <1>5, <1>7, <1>8, <1>9

(* Ends follow one another, and each piece is in the stream at its place.  *)
LEMMA EndsRise ==
  ASSUME NEW S, NEW pieces \in Seq(Seq(S)), pieces # <<>>,
         NEW m \in 0 .. Len(pieces), NEW n \in 0 .. Len(pieces), m <= n
  PROVE  EndOf(pieces, m) <= EndOf(pieces, n)
<1>0. Len(pieces) \in Nat
  OBVIOUS
<1>1. /\ \A i \in 0 .. Len(pieces) : EndOf(pieces, i) \in Nat
      /\ \A i \in 1 .. Len(pieces) : EndOf(pieces, i) = EndOf(pieces, i - 1) + Len(pieces[i])
  BY EndsAre
<1> DEFINE Odd == {i \in m .. n : EndOf(pieces, i) < EndOf(pieces, m)}
<1> SUFFICES ASSUME Odd # {} PROVE FALSE
  <2>1. n \in m .. n
    OBVIOUS
  <2>2. n \notin Odd => ~ (EndOf(pieces, n) < EndOf(pieces, m))
    BY <2>1
  <2> HIDE DEF Odd
  <2> QED
    BY <1>1, <2>2
<1>2. PICK i \in Odd : \A k \in Odd : i <= k
  <2>1. Odd \in SUBSET Nat
    OBVIOUS
  <2> HIDE DEF Odd
  <2> QED
    BY <2>1, Least
<1>3. i # m /\ i \in m .. n /\ EndOf(pieces, i) < EndOf(pieces, m)
  BY <1>1, <1>2
<1>4. i - 1 \in m .. n /\ i - 1 \notin Odd /\ i \in 1 .. Len(pieces) /\ i - 1 \in 0 .. Len(pieces)
  BY <1>0, <1>2, <1>3
<1>5. pieces[i] \in Seq(S)
  BY <1>4
<1>6. Len(pieces[i]) \in Nat
  BY <1>5
<1>7. /\ EndOf(pieces, m) \in Nat /\ EndOf(pieces, i) \in Nat /\ EndOf(pieces, i - 1) \in Nat
      /\ EndOf(pieces, i) = EndOf(pieces, i - 1) + Len(pieces[i])
  <2>1. i \in 0 .. Len(pieces)
    BY <1>0, <1>4
  <2> QED
    BY <1>1, <1>4, <2>1
<1>8. ~ (EndOf(pieces, i - 1) < EndOf(pieces, m))
  BY <1>4
<1> HIDE DEF Odd
<1> QED
  BY <1>3, <1>6, <1>7, <1>8

LEMMA ConcatParts ==
  ASSUME NEW S, NEW s \in Seq(S), NEW t \in Seq(S), NEW both, both = s \o t
  PROVE  /\ \A i \in 1 .. Len(s) : i \in 1 .. Len(both) /\ both[i] = s[i]
         /\ \A i \in 1 .. Len(t) : both[Len(s) + i] = t[i]
OBVIOUS

LEMMA PiecesInStream ==
  ASSUME NEW S, NEW pieces \in Seq(Seq(S)), pieces # <<>>,
         NEW n \in 1 .. Len(pieces), NEW j \in 1 .. Len(pieces[n])
  PROVE  /\ EndOf(pieces, n - 1) + j \in 1 .. Len(Reader!FlattenSeq(pieces))
         /\ Reader!FlattenSeq(pieces)[EndOf(pieces, n - 1) + j] = pieces[n][j]
<1> DEFINE joined == Joined(pieces, Len(pieces))
           place == EndOf(pieces, n - 1) + j
<1>0. Len(pieces) \in 1 .. Len(pieces) /\ Len(pieces) \in Nat /\ pieces[n] \in Seq(S)
  OBVIOUS
<1>1. /\ joined[1] = pieces[1]
      /\ \A i \in 1 .. Len(pieces) : joined[i] \in Seq(S)
      /\ \A i \in 1 .. Len(pieces) - 1 : joined[i + 1] = joined[i] \o pieces[i + 1]
  BY <1>0, JoinIs
<1>2. \A i \in 1 .. Len(pieces) : EndOf(pieces, i) = Len(joined[i])
  BY DEF EndOf
<1>3. EndOf(pieces, 0) = 0
  BY DEF EndOf
<1>4. Reader!FlattenSeq(pieces) = joined[Len(pieces)]
  <2>1. SubSeq(pieces, 1, Len(pieces)) = pieces
    OBVIOUS
  <2> QED
    BY <1>0, <2>1, JoinSame
<1>5. /\ \A i \in 0 .. Len(pieces) : EndOf(pieces, i) \in Nat
      /\ EndOf(pieces, n) = EndOf(pieces, n - 1) + Len(pieces[n])
  BY EndsAre
<1>6. place \in 1 .. EndOf(pieces, n) /\ place \in Nat
  <2>1. n - 1 \in 0 .. Len(pieces)
    OBVIOUS
  <2>2. EndOf(pieces, n - 1) \in Nat /\ Len(pieces[n]) \in Nat
    BY <1>0, <1>5, <2>1
  <2> QED
    BY <1>5, <2>2
<1>7. joined[n][place] = pieces[n][j]
  <2>1. CASE n = 1
    BY <1>0, <1>1, <1>3, <2>1
  <2>2. CASE n # 1
    <3>1. n - 1 \in 1 .. Len(pieces) - 1 /\ n - 1 \in 1 .. Len(pieces) /\ (n - 1) + 1 = n
      BY <2>2
    <3>2. joined[n - 1] \in Seq(S) /\ joined[n] = joined[n - 1] \o pieces[n]
          /\ place = Len(joined[n - 1]) + j
      BY <1>1, <1>2, <3>1
    <3> HIDE DEF place, joined
    <3>3. \A k \in 1 .. Len(pieces[n]) : joined[n][Len(joined[n - 1]) + k] = pieces[n][k]
      <4> DEFINE head == joined[n - 1]
                 next == pieces[n]
                 whole == joined[n]
      <4>1. head \in Seq(S) /\ next \in Seq(S) /\ whole = head \o next
        BY <1>0, <3>2
      <4> HIDE DEF head, next, whole
      <4>2. \A k \in 1 .. Len(next) : whole[Len(head) + k] = next[k]
        BY <4>1, ConcatParts
      <4> QED
        BY <4>2 DEF head, next, whole
    <3> QED
      BY <3>2, <3>3
  <2> QED
    BY <2>1, <2>2
<1> HIDE DEF joined, place
<1>8. \A i \in n .. Len(pieces) : place \in 1 .. Len(joined[i]) /\ joined[i][place] = pieces[n][j]
  <2> DEFINE Odd == {i \in n .. Len(pieces) :
                       ~ (place \in 1 .. Len(joined[i]) /\ joined[i][place] = pieces[n][j])}
  <2> SUFFICES ASSUME Odd # {} PROVE FALSE
    OBVIOUS
  <2>1. PICK i \in Odd : \A k \in Odd : i <= k
    <3>1. Odd \in SUBSET Nat
      OBVIOUS
    <3> HIDE DEF Odd
    <3> QED
      BY <3>1, Least
  <2>2. i # n
    BY <1>2, <1>6, <1>7, <2>1
  <2>3. /\ i - 1 \in n .. Len(pieces) /\ i - 1 \notin Odd /\ i - 1 \in 1 .. Len(pieces) - 1
        /\ i - 1 \in 1 .. Len(pieces) /\ (i - 1) + 1 = i /\ i \in 1 .. Len(pieces)
    BY <1>0, <2>1, <2>2
  <2>4. place \in 1 .. Len(joined[i - 1]) /\ joined[i - 1][place] = pieces[n][j]
    BY <2>3
  <2>5. joined[i - 1] \in Seq(S) /\ pieces[i] \in Seq(S) /\ joined[i] = joined[i - 1] \o pieces[i]
    <3>1. joined[i - 1] \in Seq(S) /\ joined[(i - 1) + 1] = joined[i - 1] \o pieces[(i - 1) + 1]
      BY <1>1, <2>3
    <3>2. pieces[i] \in Seq(S)
      BY <2>3
    <3> QED
      BY <2>3, <3>1, <3>2
  <2>6. place \in 1 .. Len(joined[i]) /\ joined[i][place] = pieces[n][j]
    <3> DEFINE head == joined[i - 1]
               next == pieces[i]
               value == pieces[n][j]
    <3>1. head \in Seq(S) /\ next \in Seq(S) /\ joined[i] = head \o next
      BY <2>5
    <3>2. place \in 1 .. Len(head) /\ head[place] = value
      BY <2>4
    <3> HIDE DEF head, next, value
    <3>3. \A k \in 1 .. Len(head) : k \in 1 .. Len(joined[i]) /\ joined[i][k] = head[k]
      BY <3>1, ConcatParts
    <3> QED
      BY <3>2, <3>3 DEF value
  <2> QED
    BY <2>1, <2>6
<1>9. Len(pieces) \in n .. Len(pieces)
  BY <1>0
<1> QED
  BY <1>4, <1>8, <1>9 DEF place

(* What is found from one byte on, given what is found further on.         *)
From(buffer, i, from) ==
  IF i > Len(buffer) THEN [found |-> <<>>, rest |-> i]
  ELSE IF buffer[i] \notin Reader!Starts THEN from[i + 1]
  ELSE IF Reader!Incomplete(buffer, i) THEN [found |-> <<>>, rest |-> i]
  ELSE IF ~Reader!Confirmed(buffer, i) THEN from[i + 1]
  ELSE LET next == i + Reader!FrameLength(buffer, i)
       IN [found |-> <<SubSeq(buffer, i, next - 1)>> \o from[next].found,
           rest |-> from[next].rest]
Reads(buffer, first, from) ==
  from = [i \in first .. Len(buffer) + 1 |-> From(buffer, i, from)]
Read(buffer) == CHOOSE from : Reads(buffer, 1, from)

LEMMA FramesIs ==
  ASSUME NEW buffer
  PROVE  Reader!Frames(buffer) =
           [found |-> Read(buffer)[1].found,
            rest |-> SubSeq(buffer, Read(buffer)[1].rest, Len(buffer))]
BY DEF Reader!Frames, Read, Reads, From

(* A frame has a length, and what follows it is further on.                *)
LEMMA LengthIs ==
  ASSUME NEW buffer \in Seq(Nat), NEW i \in 1 .. Len(buffer), ~Reader!Incomplete(buffer, i)
  PROVE  /\ Reader!FrameLength(buffer, i) \in Nat /\ Reader!FrameLength(buffer, i) >= 3
         /\ i + Reader!FrameLength(buffer, i) \in i + 1 .. Len(buffer)
<1>1. Reader!FrameLength(buffer, i) # 0
  BY DEF Reader!Incomplete, Reader!Unknown
<1>2. Reader!FrameLength(buffer, i) \in Nat /\ Reader!FrameLength(buffer, i) >= 3
  <2>1. CASE buffer[i] = Reader!StartV2 /\ i + 2 <= Len(buffer)
    <3>1. buffer[i + 1] \in Nat
      BY <2>1
    <3> QED
      BY <2>1, <3>1 DEF Reader!FrameLength
  <2>2. CASE buffer[i] # Reader!StartV2 /\ i + 1 <= Len(buffer)
    <3>1. buffer[i + 1] \in Nat
      BY <2>2
    <3> QED
      BY <2>2, <3>1 DEF Reader!FrameLength
  <2> QED
    BY <1>1, <2>1, <2>2 DEF Reader!FrameLength, Reader!Unknown
<1>3. ~ (i + Reader!FrameLength(buffer, i) > Len(buffer))
  BY DEF Reader!Incomplete
<1> QED
  BY <1>2, <1>3

(* From one byte on only what is further on counts.                        *)
LEMMA FromLater ==
  ASSUME NEW buffer \in Seq(Nat), NEW i \in 1 .. Len(buffer) + 1, NEW one, NEW other_,
         \A j \in i + 1 .. Len(buffer) + 1 : one[j] = other_[j]
  PROVE  From(buffer, i, one) = From(buffer, i, other_)
<1>1. CASE i > Len(buffer)
  BY <1>1 DEF From
<1>2. CASE i <= Len(buffer)
  <2>1. i \in 1 .. Len(buffer) /\ i + 1 \in i + 1 .. Len(buffer) + 1
    BY <1>2
  <2>2. one[i + 1] = other_[i + 1]
    BY <2>1
  <2>3. ~Reader!Incomplete(buffer, i) =>
          one[i + Reader!FrameLength(buffer, i)] = other_[i + Reader!FrameLength(buffer, i)]
    <3> SUFFICES ASSUME ~Reader!Incomplete(buffer, i)
                 PROVE  one[i + Reader!FrameLength(buffer, i)]
                          = other_[i + Reader!FrameLength(buffer, i)]
      OBVIOUS
    <3> DEFINE next == i + Reader!FrameLength(buffer, i)
    <3>1. next \in i + 1 .. Len(buffer)
      BY <2>1, LengthIs
    <3> HIDE DEF next
    <3>2. next \in i + 1 .. Len(buffer) + 1
      BY <3>1
    <3>3. one[next] = other_[next]
      BY <3>2
    <3> QED
      BY <3>3 DEF next
  <2> QED
    BY <2>2, <2>3 DEF From
<1> QED
  BY <1>1, <1>2

LEMMA ReadExists ==
  ASSUME NEW buffer \in Seq(Nat)
  PROVE  \A i \in 1 .. Len(buffer) + 1 : Read(buffer)[i] = From(buffer, i, Read(buffer))
<1> DEFINE end == Len(buffer) + 1
           Short(k) == \E from : Reads(buffer, k, from)
           Shorts == {k \in 1 .. end : Short(k)}
<1>0. end \in Nat /\ end >= 1
  OBVIOUS
<1>1. end \in Shorts
  <2> DEFINE last == [i \in end .. end |-> From(buffer, end, <<>>)]
  <2>1. last[end] = From(buffer, end, last)
    BY <1>0 DEF From
  <2>2. last = [i \in end .. end |-> From(buffer, i, last)]
    <3>1. \A i \in end .. end : i = end
      BY <1>0
    <3>2. \A i \in end .. end : last[i] = From(buffer, i, last)
      BY <2>1, <3>1
    <3>3. last = [i \in end .. end |-> last[i]]
      OBVIOUS
    <3> HIDE DEF last
    <3> QED
      BY <3>2, <3>3
  <2>3. Reads(buffer, end, last)
    BY <2>2 DEF Reads
  <2> QED
    BY <1>0, <2>3
<1>2. PICK k \in Shorts : \A m \in Shorts : k <= m
  <2>1. Shorts \in SUBSET Nat
    OBVIOUS
  <2> HIDE DEF Shorts
  <2> QED
    BY <1>1, <2>1, Least
<1>3. PICK from : Reads(buffer, k, from)
  BY <1>2
<1>4. k = 1
  <2> SUFFICES ASSUME k # 1 PROVE FALSE
    OBVIOUS
  <2>1. k - 1 \in 1 .. end /\ k \in 1 .. end /\ (k - 1) + 1 = k
    BY <1>0, <1>2
  <2> DEFINE first == From(buffer, k - 1, from)
             longer == [i \in k - 1 .. end |-> IF i = k - 1 THEN first ELSE from[i]]
  <2>2. \A i \in k .. end : longer[i] = from[i]
    <3> HIDE DEF first
    <3> QED
      BY <2>1
  <2>3. \A i \in k .. end : from[i] = From(buffer, i, from)
    BY <1>3 DEF Reads
  <2>4. \A i \in k .. end : From(buffer, i, from) = From(buffer, i, longer)
    <3> TAKE i \in k .. end
    <3>1. i \in 1 .. Len(buffer) + 1 /\ \A j \in i + 1 .. Len(buffer) + 1 : from[j] = longer[j]
      <4> HIDE DEF longer
      <4> QED
        BY <2>1, <2>2
    <3> HIDE DEF longer
    <3> QED
      BY <3>1, FromLater
  <2>5. longer[k - 1] = first
    <3> HIDE DEF first
    <3> QED
      BY <2>1
  <2>6. first = From(buffer, k - 1, longer)
    <3>1. \A j \in k - 1 + 1 .. Len(buffer) + 1 : from[j] = longer[j]
      <4> HIDE DEF longer
      <4> QED
        BY <2>1, <2>2
    <3> HIDE DEF longer
    <3> QED
      BY <2>1, <3>1, FromLater
  <2>7. longer = [i \in k - 1 .. end |-> longer[i]]
    <3> HIDE DEF first
    <3> QED
      OBVIOUS
  <2> HIDE DEF longer, first
  <2>8. \A i \in k - 1 .. end : longer[i] = From(buffer, i, longer)
    BY <2>1, <2>2, <2>3, <2>4, <2>5, <2>6
  <2>9. Reads(buffer, k - 1, longer)
    BY <2>7, <2>8 DEF Reads
  <2>10. k - 1 \in Shorts
    BY <2>1, <2>9
  <2> HIDE DEF Shorts
  <2> QED
    BY <1>0, <1>2, <2>1, <2>10
<1>5. Reads(buffer, 1, Read(buffer))
  BY <1>3, <1>4 DEF Read
<1> HIDE DEF Shorts
<1> QED
  BY <1>5 DEF Reads

(* The header of a frame tells where it ends.                              *)
LEMMA Headers ==
  ASSUME NEW frame \in Reader!Samples
  PROVE  /\ frame \in Seq(Nat) /\ Len(frame) >= 3 /\ Len(frame) \in Nat
         /\ \/ frame[1] = 2 /\ Len(frame) = 2 + frame[2] + 1
            \/ /\ frame[1] = 3
               /\ Len(frame) = 3 + frame[2] + 1 + (IF Reader!Signed(frame[3]) THEN 1 ELSE 0)
<1>1. CASE frame = <<2, 0, 2>>
  BY <1>1
<1>2. CASE frame = <<2, 1, 3, 0>>
  BY <1>2
<1>3. CASE frame = <<2, 2, 2, 0, 3>>
  BY <1>3
<1>4. CASE frame = <<3, 0, 0, 2>>
  BY <1>4 DEF Reader!Signed
<1>5. CASE frame = <<3, 1, 0, 3, 0>>
  BY <1>5 DEF Reader!Signed
<1>6. CASE frame = <<3, 0, 1, 2, 3>>
  BY <1>6 DEF Reader!Signed
<1>7. CASE frame = <<3, 2, 1, 3, 0, 0, 2>>
  BY <1>7 DEF Reader!Signed
<1> QED
  BY <1>1, <1>2, <1>3, <1>4, <1>5, <1>6, <1>7 DEF Reader!Samples

LEMMA FrameSeen ==
  ASSUME NEW frame \in Reader!Samples, NEW buffer \in Seq(Nat), NEW i \in 1 .. Len(buffer),
         \A j \in 1 .. Len(frame) : i + j - 1 <= Len(buffer) => buffer[i + j - 1] = frame[j]
  PROVE  /\ buffer[i] \in Reader!Starts
         /\ i + Len(frame) > Len(buffer) => Reader!Incomplete(buffer, i)
         /\ i + Len(frame) <= Len(buffer) =>
              Reader!FrameLength(buffer, i) = Len(frame) /\ ~Reader!Incomplete(buffer, i)
<1>1. /\ Len(frame) >= 3 /\ Len(frame) \in Nat /\ Len(buffer) \in Nat
      /\ \/ frame[1] = 2 /\ Len(frame) = 2 + frame[2] + 1
         \/ /\ frame[1] = 3
            /\ Len(frame) = 3 + frame[2] + 1 + (IF Reader!Signed(frame[3]) THEN 1 ELSE 0)
  BY Headers
<1>2. /\ buffer[i] = frame[1]
      /\ i + 1 <= Len(buffer) => buffer[i + 1] = frame[2]
      /\ i + 2 <= Len(buffer) => buffer[i + 2] = frame[3]
  <2>0. 1 \in 1 .. Len(frame) /\ 2 \in 1 .. Len(frame) /\ 3 \in 1 .. Len(frame)
    BY <1>1
  <2>1. /\ i + 1 - 1 <= Len(buffer) => buffer[i + 1 - 1] = frame[1]
        /\ i + 2 - 1 <= Len(buffer) => buffer[i + 2 - 1] = frame[2]
        /\ i + 3 - 1 <= Len(buffer) => buffer[i + 3 - 1] = frame[3]
    BY <2>0, Zenon
  <2>2. i + 1 - 1 = i /\ i + 2 - 1 = i + 1 /\ i + 3 - 1 = i + 2
    OBVIOUS
  <2> QED
    BY <2>1, <2>2
<1>3. \/ Reader!FrameLength(buffer, i) = Reader!Unknown /\ i + Len(frame) > Len(buffer)
      \/ Reader!FrameLength(buffer, i) = Len(frame)
  <2> DEFINE length == Len(frame)
             size == Len(buffer)
             first == frame[1]
             second == frame[2]
             third == frame[3]
  <2>1. /\ length >= 3 /\ length \in Nat /\ size \in Nat /\ i \in 1 .. size
        /\ \/ first = 2 /\ length = 2 + second + 1
           \/ first = 3 /\ length = 3 + second + 1 + (IF Reader!Signed(third) THEN 1 ELSE 0)
    BY <1>1
  <2>2. /\ buffer[i] = first
        /\ i + 1 <= size => buffer[i + 1] = second
        /\ i + 2 <= size => buffer[i + 2] = third
    BY <1>2
  <2>3. Reader!FrameLength(buffer, i) =
          IF first = 3
          THEN IF i + 2 > size THEN Reader!Unknown
               ELSE 3 + buffer[i + 1] + 1 + (IF Reader!Signed(buffer[i + 2]) THEN 1 ELSE 0)
          ELSE IF i + 1 > size THEN Reader!Unknown ELSE 2 + buffer[i + 1] + 1
    BY <2>2 DEF Reader!FrameLength, Reader!StartV2
  <2> HIDE DEF length, size, first, second, third
  <2>6. \/ Reader!FrameLength(buffer, i) = Reader!Unknown /\ i + length > size
        \/ Reader!FrameLength(buffer, i) = length
    <3>4. CASE first = 2
      <4>1. CASE i + 1 > size
        BY <2>1, <2>3, <3>4, <4>1
      <4>2. CASE i + 1 <= size
        <5>1. buffer[i + 1] = second
          BY <2>2, <4>2
        <5>2. ~ (i + 1 > size)
          BY <2>1, <4>2
        <5> QED
          BY <2>1, <2>3, <3>4, <5>1, <5>2
      <4> QED
        BY <2>1, <4>1, <4>2
    <3>5. CASE first = 3
      <4>1. CASE i + 2 > size
        BY <2>1, <2>3, <3>5, <4>1
      <4>2. CASE i + 2 <= size
        <5>1. i + 1 <= size
          BY <2>1, <4>2
        <5>2. buffer[i + 1] = second /\ buffer[i + 2] = third
          BY <2>2, <4>2, <5>1
        <5>3. ~ (i + 2 > size)
          BY <2>1, <4>2
        <5> QED
          BY <2>1, <2>3, <3>5, <5>2, <5>3
      <4> QED
        BY <2>1, <4>1, <4>2
    <3> QED
      BY <2>1, <3>4, <3>5
  <2> QED
    BY <2>6 DEF length, size
<1>4. buffer[i] \in Reader!Starts
  BY <1>1, <1>2 DEF Reader!Starts, Reader!StartV1, Reader!StartV2
<1>5. Reader!Unknown = 0
  BY DEF Reader!Unknown
<1> QED
  BY <1>1, <1>3, <1>4, <1>5 DEF Reader!Incomplete

LEMMA NoiseStartsNothing ==
  ASSUME NEW noise \in Reader!Noise, NEW j \in 1 .. Len(noise)
  PROVE  noise[j] \notin Reader!Starts
<1>1. CASE noise = <<>>
  BY <1>1
<1>2. CASE noise = <<0>>
  BY <1>2 DEF Reader!Starts, Reader!StartV1, Reader!StartV2
<1>3. CASE noise = <<1, 0>>
  BY <1>3 DEF Reader!Starts, Reader!StartV1, Reader!StartV2
<1> QED
  BY <1>1, <1>2, <1>3 DEF Reader!Noise

(* A part of the stream, from after one byte to another.                   *)
Part(pieces, past, upto, buffer) ==
  /\ buffer \in Seq(Nat) /\ Len(buffer) = upto - past
  /\ \A i \in 1 .. Len(buffer) : buffer[i] = Reader!FlattenSeq(pieces)[past + i]

Within(pieces, past, upto) ==
  past \in Nat /\ upto \in Nat /\ past < upto /\ upto <= EndOf(pieces, Len(pieces))

LEMMA EndsTyped ==
  ASSUME NEW pieces, Shaped(pieces)
  PROVE  /\ Len(pieces) \in Nat /\ Len(pieces) >= 1
         /\ \A n \in 0 .. Len(pieces) : EndOf(pieces, n) \in Nat
         /\ \A n \in 1 .. Len(pieces) :
              /\ pieces[n] \in Seq(Nat) /\ Len(pieces[n]) \in Nat
              /\ EndOf(pieces, n) = EndOf(pieces, n - 1) + Len(pieces[n])
<1>1. pieces \in Seq(Seq(Nat)) /\ pieces # <<>>
  BY DEF Shaped
<1>2. Len(pieces) \in Nat /\ Len(pieces) >= 1
  BY <1>1
<1>3. \A n \in 1 .. Len(pieces) : pieces[n] \in Seq(Nat)
  BY <1>1
<1>4. \A n \in 1 .. Len(pieces) : Len(pieces[n]) \in Nat
  BY <1>3
<1> QED
  BY <1>1, <1>2, <1>3, <1>4, EndsAre

LEMMA CutIs ==
  ASSUME NEW whole \in Seq(Nat), NEW a \in 1 .. Len(whole) + 1, NEW b \in a - 1 .. Len(whole)
  PROVE  /\ SubSeq(whole, a, b) \in Seq(Nat) /\ Len(SubSeq(whole, a, b)) = b - a + 1
         /\ \A j \in 1 .. Len(SubSeq(whole, a, b)) : SubSeq(whole, a, b)[j] = whole[a + j - 1]
OBVIOUS

LEMMA SameSeq ==
  ASSUME NEW S, NEW one \in Seq(S), NEW two \in Seq(S), Len(one) = Len(two),
         \A j \in 1 .. Len(two) : one[j] = two[j]
  PROVE  one = two
OBVIOUS

(* Where a piece starts in it.                                             *)
PlaceOf(pieces, k, past) == EndOf(pieces, k - 1) - past + 1

(* At the start of a frame: it is found when the next one has begun.       *)
LEMMA FrameRead ==
  ASSUME NEW pieces, Shaped(pieces), NEW past, NEW upto, Within(pieces, past, upto),
         NEW buffer, Part(pieces, past, upto, buffer),
         NEW k \in 2 .. Len(pieces), past <= EndOf(pieces, k - 1), EndOf(pieces, k - 1) < upto
  PROVE  LET this == Read(buffer)[PlaceOf(pieces, k, past)]
             next == Read(buffer)[PlaceOf(pieces, k + 1, past)]
         IN /\ upto <= EndOf(pieces, k) => this.found = <<>> /\ this.rest = PlaceOf(pieces, k, past)
            /\ EndOf(pieces, k) < upto =>
                 this.found = <<pieces[k]>> \o next.found /\ this.rest = next.rest
<1> DEFINE i == PlaceOf(pieces, k, past)
<1>51. i = PlaceOf(pieces, k, past)
  OBVIOUS
<1> HIDE DEF i
<1> DEFINE start == EndOf(pieces, k - 1)
           end == EndOf(pieces, k)
<1>1. /\ start \in Nat /\ end \in Nat /\ end = start + Len(pieces[k]) /\ k \in 1 .. Len(pieces)
      /\ pieces[k] \in Seq(Nat) /\ Len(pieces[k]) \in Nat /\ past \in Nat /\ upto \in Nat
      /\ past <= start /\ start < upto
  <2>1. k \in 1 .. Len(pieces) /\ k - 1 \in 0 .. Len(pieces) /\ k \in 0 .. Len(pieces)
    BY EndsTyped
  <2> QED
    BY <2>1, EndsTyped DEF Within
<1>2. buffer \in Seq(Nat) /\ Len(buffer) = upto - past /\ Len(buffer) \in Nat
  BY DEF Part
<1>20. \A j \in 1 .. Len(buffer) : buffer[j] = Reader!FlattenSeq(pieces)[past + j]
  BY DEF Part
<1>3. pieces[k] \in Reader!Samples
  BY DEF Shaped
<1>4. \A j \in 1 .. Len(pieces[k]) : Reader!FlattenSeq(pieces)[start + j] = pieces[k][j]
  BY <1>1, PiecesInStream DEF Shaped
<1> HIDE DEF start, end
<1>5. i \in 1 .. Len(buffer) /\ i = start - past + 1
  BY <1>1, <1>2, <1>51 DEF start, PlaceOf
<1> DEFINE size == Len(buffer)
           length == Len(pieces[k])
<1>50. /\ start \in Nat /\ end \in Nat /\ past \in Nat /\ upto \in Nat /\ size \in Nat
       /\ length \in Nat /\ end = start + length /\ size = upto - past
       /\ past <= start /\ start < upto /\ i = start - past + 1 /\ i \in 1 .. size
  BY <1>1, <1>2, <1>5
<1> HIDE DEF size, length
<1>6. \A j \in 1 .. Len(pieces[k]) : i + j - 1 <= Len(buffer) => buffer[i + j - 1] = pieces[k][j]
  <2> SUFFICES ASSUME NEW j \in 1 .. Len(pieces[k]), i + j - 1 <= Len(buffer)
               PROVE  buffer[i + j - 1] = pieces[k][j]
    OBVIOUS
  <2>1. i + j - 1 \in 1 .. Len(buffer) /\ past + (i + j - 1) = start + j
    <3>1. j \in 1 .. length /\ i + j - 1 <= size
      BY DEF length, size
    <3>2. i + j - 1 \in 1 .. size /\ past + (i + j - 1) = start + j
      BY <1>50, <3>1
    <3> QED
      BY <3>2 DEF size
  <2> QED
    BY <1>20, <1>4, <2>1
<1>7. /\ buffer[i] \in Reader!Starts
      /\ i + Len(pieces[k]) > Len(buffer) => Reader!Incomplete(buffer, i)
      /\ i + Len(pieces[k]) <= Len(buffer) =>
           Reader!FrameLength(buffer, i) = Len(pieces[k]) /\ ~Reader!Incomplete(buffer, i)
  BY <1>2, <1>3, <1>5, <1>6, FrameSeen
<1>8. Read(buffer)[i] = From(buffer, i, Read(buffer)) /\ ~ (i > Len(buffer))
  <2>1. i \in 1 .. Len(buffer) + 1
    BY <1>2, <1>5
  <2> QED
    BY <1>2, <1>5, <2>1, ReadExists
<1>9. ASSUME upto <= end
      PROVE  Read(buffer)[i].found = <<>> /\ Read(buffer)[i].rest = i
  <2>1. i + Len(pieces[k]) > Len(buffer)
    <3>1. i + length > size
      BY <1>50, <1>9
    <3> QED
      BY <3>1 DEF size, length
  <2> QED
    BY <1>7, <1>8, <2>1 DEF From
<1>10. ASSUME end < upto
       PROVE  /\ Read(buffer)[i].found = <<pieces[k]>> \o Read(buffer)[end - past + 1].found
              /\ Read(buffer)[i].rest = Read(buffer)[end - past + 1].rest
  <2> DEFINE next == i + Len(pieces[k])
  <2>1. next = end - past + 1 /\ next <= Len(buffer) /\ next \in 1 .. Len(buffer)
        /\ past + next = end + 1
    <3>1. i + length = end - past + 1 /\ i + length <= size /\ i + length \in 1 .. size
          /\ past + (i + length) = end + 1
      BY <1>50, <1>10
    <3> QED
      BY <3>1 DEF size, length
  <2>2. Reader!FrameLength(buffer, i) = Len(pieces[k]) /\ ~Reader!Incomplete(buffer, i)
    BY <1>7, <2>1
  <2>3. k + 1 \in 2 .. Len(pieces) /\ (k + 1) - 1 = k
    <3>1. k # Len(pieces)
      BY <1>1, <1>10 DEF Within, end
    <3> QED
      BY <1>1, <3>1, EndsTyped
  <2>4. pieces[k + 1] \in Reader!Samples
    BY <2>3 DEF Shaped
  <2>5. Len(pieces[k + 1]) >= 3 /\ Len(pieces[k + 1]) \in Nat /\ pieces[k + 1][1] \in Reader!Starts
    BY <2>4, Headers DEF Reader!Starts, Reader!StartV1, Reader!StartV2
  <2>6. Reader!FlattenSeq(pieces)[end + 1] = pieces[k + 1][1]
    <3>1. 1 \in 1 .. Len(pieces[k + 1]) /\ k + 1 \in 1 .. Len(pieces)
      BY <2>3, <2>5
    <3>2. Reader!FlattenSeq(pieces)[EndOf(pieces, (k + 1) - 1) + 1] = pieces[k + 1][1]
      BY <3>1, PiecesInStream DEF Shaped
    <3> QED
      BY <2>3, <3>2 DEF end
  <2>7. buffer[next] \in Reader!Starts
    BY <1>20, <2>1, <2>5, <2>6
  <2>8. Reader!Confirmed(buffer, i)
    BY <2>1, <2>2, <2>7 DEF Reader!Confirmed
  <2>9. SubSeq(buffer, i, next - 1) = pieces[k]
    <3> DEFINE piece == pieces[k]
               cut == SubSeq(buffer, i, next - 1)
    <3>0. /\ i \in 1 .. Len(buffer) + 1 /\ next - 1 \in i - 1 .. Len(buffer)
          /\ (next - 1) - i + 1 = Len(piece)
      <4>1. /\ i \in 1 .. size + 1 /\ i + length - 1 \in i - 1 .. size
            /\ (i + length - 1) - i + 1 = length
        <5>1. i + length <= size
          BY <2>1 DEF size, length
        <5> QED
          BY <1>50, <5>1
      <4> QED
        BY <4>1 DEF size, length
    <3>1. /\ cut \in Seq(Nat) /\ Len(cut) = Len(piece)
          /\ \A j \in 1 .. Len(cut) : cut[j] = buffer[i + j - 1]
      <4>1. buffer \in Seq(Nat)
        BY <1>2
      <4>2. /\ SubSeq(buffer, i, next - 1) \in Seq(Nat)
            /\ Len(SubSeq(buffer, i, next - 1)) = (next - 1) - i + 1
            /\ \A j \in 1 .. Len(SubSeq(buffer, i, next - 1)) :
                 SubSeq(buffer, i, next - 1)[j] = buffer[i + j - 1]
        <5> HIDE DEF next
        <5> QED
          BY <3>0, <4>1, CutIs, Zenon
      <4> QED
        BY <3>0, <4>2
    <3>2. \A j \in 1 .. Len(piece) : cut[j] = piece[j]
      <4> TAKE j \in 1 .. Len(piece)
      <4>1. cut[j] = buffer[i + j - 1]
        BY <3>1
      <4>2. i + j - 1 <= Len(buffer)
        <5>1. j \in 1 .. length /\ i + length <= size
          BY <2>1 DEF length, size
        <5>2. i + j - 1 <= size
          BY <1>50, <5>1
        <5> QED
          BY <5>2 DEF size
      <4> QED
        BY <1>6, <4>1, <4>2
    <3>3. piece \in Seq(Nat)
      BY <1>1
    <3> HIDE DEF cut, piece
    <3>4. cut = piece
      BY <3>1, <3>2, <3>3, SameSeq
    <3> QED
      BY <3>4 DEF cut, piece
  <2> HIDE DEF next
  <2>10. Read(buffer)[i] =
           [found |-> <<SubSeq(buffer, i, next - 1)>> \o Read(buffer)[next].found,
            rest |-> Read(buffer)[next].rest]
    <3>1. i + Reader!FrameLength(buffer, i) = next
      BY <2>2 DEF next
    <3> QED
      BY <1>7, <1>8, <2>2, <2>8, <3>1 DEF From
  <2>11. /\ Read(buffer)[i].found = <<pieces[k]>> \o Read(buffer)[next].found
         /\ Read(buffer)[i].rest = Read(buffer)[next].rest
    <3> DEFINE frames == <<SubSeq(buffer, i, next - 1)>> \o Read(buffer)[next].found
               rest == Read(buffer)[next].rest
    <3>1. frames = <<pieces[k]>> \o Read(buffer)[next].found
      BY <2>9
    <3>2. Read(buffer)[i] = [found |-> frames, rest |-> rest]
      BY <2>10
    <3> HIDE DEF frames, rest
    <3>3. Read(buffer)[i].found = frames /\ Read(buffer)[i].rest = rest
      BY <3>2
    <3> QED
      BY <3>1, <3>3 DEF rest
  <2> QED
    BY <2>1, <2>11
<1>11. PlaceOf(pieces, k + 1, past) = end - past + 1
  <2>1. (k + 1) - 1 = k
    OBVIOUS
  <2> QED
    BY <2>1 DEF PlaceOf, end
<1> QED
  BY <1>9, <1>10, <1>11, <1>51 DEF end

LEMMA EndsOrdered ==
  ASSUME NEW pieces, Shaped(pieces), NEW m \in 0 .. Len(pieces), NEW n \in 0 .. Len(pieces), m <= n
  PROVE  EndOf(pieces, m) <= EndOf(pieces, n)
BY EndsRise DEF Shaped

(* The pieces from one to another.                                         *)
LEMMA PiecesAre ==
  ASSUME NEW pieces, Shaped(pieces), NEW a \in 1 .. Len(pieces) + 1, NEW b \in a - 1 .. Len(pieces)
  PROVE  /\ SubSeq(pieces, a, b) \in Seq(Seq(Nat)) /\ Len(SubSeq(pieces, a, b)) = b - a + 1
         /\ \A j \in 1 .. Len(SubSeq(pieces, a, b)) : SubSeq(pieces, a, b)[j] = pieces[a + j - 1]
<1>1. pieces \in Seq(Seq(Nat))
  BY DEF Shaped
<1> QED
  BY <1>1

LEMMA ConcatIs ==
  ASSUME NEW S, NEW one \in Seq(S), NEW two \in Seq(S)
  PROVE  /\ one \o two \in Seq(S) /\ Len(one \o two) = Len(one) + Len(two)
         /\ \A j \in 1 .. Len(one \o two) :
              (one \o two)[j] = IF j <= Len(one) THEN one[j] ELSE two[j - Len(one)]
OBVIOUS

LEMMA PiecesJoin ==
  ASSUME NEW pieces, Shaped(pieces), NEW a \in 1 .. Len(pieces) + 1,
         NEW b \in a .. Len(pieces) + 1, NEW c \in b - 1 .. Len(pieces)
  PROVE  SubSeq(pieces, a, b - 1) \o SubSeq(pieces, b, c) = SubSeq(pieces, a, c)
<1> DEFINE one == SubSeq(pieces, a, b - 1)
           two == SubSeq(pieces, b, c)
           all_ == SubSeq(pieces, a, c)
<1>0. /\ a \in Nat /\ b \in Nat /\ c \in Nat /\ a >= 1 /\ b >= a /\ c >= b - 1 /\ Len(pieces) \in Nat
      /\ b <= Len(pieces) + 1 /\ c <= Len(pieces)
  BY EndsTyped
<1>1. /\ one \in Seq(Seq(Nat)) /\ Len(one) = b - a
      /\ \A j \in 1 .. Len(one) : one[j] = pieces[a + j - 1]
  <2>1. b - 1 \in a - 1 .. Len(pieces) /\ (b - 1) - a + 1 = b - a
    BY <1>0
  <2> QED
    BY <2>1, PiecesAre
<1>2. /\ two \in Seq(Seq(Nat)) /\ Len(two) = c - b + 1
      /\ \A j \in 1 .. Len(two) : two[j] = pieces[b + j - 1]
  <2>1. b \in 1 .. Len(pieces) + 1
    BY <1>0
  <2> QED
    BY <2>1, PiecesAre
<1>3. /\ all_ \in Seq(Seq(Nat)) /\ Len(all_) = c - a + 1
      /\ \A j \in 1 .. Len(all_) : all_[j] = pieces[a + j - 1]
  <2>1. c \in a - 1 .. Len(pieces)
    BY <1>0
  <2> QED
    BY <2>1, PiecesAre
<1> DEFINE both == one \o two
<1> HIDE DEF one, two, all_
<1>4. both \in Seq(Seq(Nat)) /\ Len(both) = Len(one) + Len(two)
      /\ \A j \in 1 .. Len(both) : both[j] = IF j <= Len(one) THEN one[j] ELSE two[j - Len(one)]
  BY <1>1, <1>2, ConcatIs
<1> HIDE DEF both
<1>5. Len(both) = Len(all_)
  BY <1>0, <1>1, <1>2, <1>3, <1>4
<1>6. \A j \in 1 .. Len(all_) : both[j] = all_[j]
  <2> TAKE j \in 1 .. Len(all_)
  <2>0. j \in 1 .. Len(both) /\ j \in 1 .. c - a + 1 /\ all_[j] = pieces[a + j - 1]
    BY <1>3, <1>5
  <2>1. CASE j <= Len(one)
    <3>1. j \in 1 .. Len(one)
      BY <1>0, <1>1, <2>0, <2>1
    <3> QED
      BY <1>1, <1>4, <2>0, <2>1, <3>1
  <2>2. CASE ~ (j <= Len(one))
    <3>1. j - Len(one) \in 1 .. Len(two) /\ b + (j - Len(one)) - 1 = a + j - 1
      BY <1>0, <1>1, <1>2, <2>0, <2>2
    <3>2. both[j] = two[j - Len(one)]
      BY <1>4, <2>0, <2>2
    <3>3. two[j - Len(one)] = pieces[b + (j - Len(one)) - 1]
      BY <1>2, <3>1
    <3> QED
      BY <2>0, <3>1, <3>2, <3>3
  <2> QED
    BY <2>1, <2>2
<1>7. both = all_
  BY <1>3, <1>4, <1>5, <1>6, SameSeq
<1> QED
  BY <1>7 DEF both, one, two, all_

(* From the start of a frame on, all are found but the last that has begun.*)
LEMMA FramesFrom ==
  ASSUME NEW pieces, Shaped(pieces), NEW past, NEW upto, Within(pieces, past, upto),
         NEW buffer, Part(pieces, past, upto, buffer),
         NEW m \in 2 .. Len(pieces), EndOf(pieces, m - 1) < upto, upto <= EndOf(pieces, m),
         NEW k \in 2 .. m, past <= EndOf(pieces, k - 1)
  PROVE  /\ Read(buffer)[PlaceOf(pieces, k, past)].found = SubSeq(pieces, k, m - 1)
         /\ Read(buffer)[PlaceOf(pieces, k, past)].rest = PlaceOf(pieces, m, past)
<1> DEFINE Right(n) == /\ Read(buffer)[PlaceOf(pieces, n, past)].found = SubSeq(pieces, n, m - 1)
                       /\ Read(buffer)[PlaceOf(pieces, n, past)].rest = PlaceOf(pieces, m, past)
           Rights == {n \in k .. m : Right(n)}
<1>0. /\ m \in Nat /\ k \in Nat /\ k >= 2 /\ k <= m /\ m <= Len(pieces) /\ Len(pieces) \in Nat
      /\ past \in Nat /\ upto \in Nat
      /\ \A n \in 0 .. Len(pieces) : EndOf(pieces, n) \in Nat
  BY EndsTyped DEF Within
<1>1. ASSUME NEW n \in k .. m
      PROVE  past <= EndOf(pieces, n - 1) /\ EndOf(pieces, n - 1) < upto /\ n \in 2 .. Len(pieces)
  <2>1. k - 1 \in 0 .. Len(pieces) /\ n - 1 \in 0 .. Len(pieces) /\ k - 1 <= n - 1
        /\ m - 1 \in 0 .. Len(pieces) /\ n - 1 <= m - 1 /\ n \in 2 .. Len(pieces)
    BY <1>0
  <2>2. EndOf(pieces, k - 1) <= EndOf(pieces, n - 1) /\ EndOf(pieces, n - 1) <= EndOf(pieces, m - 1)
    BY <2>1, EndsOrdered
  <2>3. EndOf(pieces, k - 1) \in Nat /\ EndOf(pieces, n - 1) \in Nat /\ EndOf(pieces, m - 1) \in Nat
    BY <1>0, <2>1
  <2> QED
    BY <1>0, <2>1, <2>2, <2>3
<1>2. m \in Rights
  <2>1. m \in k .. m
    BY <1>0
  <2>2. /\ Read(buffer)[PlaceOf(pieces, m, past)].found = <<>>
        /\ Read(buffer)[PlaceOf(pieces, m, past)].rest = PlaceOf(pieces, m, past)
    BY <1>1, <2>1, FrameRead
  <2>3. SubSeq(pieces, m, m - 1) = <<>>
    BY <1>0
  <2> QED
    BY <2>1, <2>2, <2>3
<1>3. PICK n \in Rights : \A o \in Rights : n <= o
  <2>1. Rights \in SUBSET Nat
    BY <1>0
  <2> HIDE DEF Rights
  <2> QED
    BY <1>2, <2>1, Least
<1>4. n = k
  <2> SUFFICES ASSUME n # k PROVE FALSE
    OBVIOUS
  <2> DEFINE o == n - 1
  <2>1. o \in k .. m - 1 /\ o \in k .. m /\ o + 1 = n /\ o < n /\ o \in Nat
    BY <1>0, <1>3
  <2>2. /\ Read(buffer)[PlaceOf(pieces, n, past)].found = SubSeq(pieces, n, m - 1)
        /\ Read(buffer)[PlaceOf(pieces, n, past)].rest = PlaceOf(pieces, m, past)
    BY <1>3
  <2> HIDE DEF o
  <2>3. past <= EndOf(pieces, o - 1) /\ EndOf(pieces, o - 1) < upto /\ o \in 2 .. Len(pieces)
    BY <1>1, <2>1
  <2>4. EndOf(pieces, o) < upto
    <3>1. o \in 0 .. Len(pieces) /\ m - 1 \in 0 .. Len(pieces) /\ o <= m - 1
      BY <1>0, <2>1
    <3>2. EndOf(pieces, o) <= EndOf(pieces, m - 1)
      BY <3>1, EndsOrdered
    <3>3. EndOf(pieces, o) \in Nat /\ EndOf(pieces, m - 1) \in Nat
      BY <1>0, <3>1
    <3> QED
      BY <1>0, <3>2, <3>3
  <2>5. /\ Read(buffer)[PlaceOf(pieces, o, past)].found =
             <<pieces[o]>> \o Read(buffer)[PlaceOf(pieces, o + 1, past)].found
        /\ Read(buffer)[PlaceOf(pieces, o, past)].rest = Read(buffer)[PlaceOf(pieces, o + 1, past)].rest
    BY <2>3, <2>4, FrameRead
  <2>6. /\ Read(buffer)[PlaceOf(pieces, o, past)].found = <<pieces[o]>> \o SubSeq(pieces, n, m - 1)
        /\ Read(buffer)[PlaceOf(pieces, o, past)].rest = PlaceOf(pieces, m, past)
    BY <2>1, <2>2, <2>5
  <2>7. <<pieces[o]>> \o SubSeq(pieces, n, m - 1) = SubSeq(pieces, o, m - 1)
    <3>1. o \in 1 .. Len(pieces) + 1 /\ n \in o .. Len(pieces) + 1 /\ m - 1 \in n - 1 .. Len(pieces)
          /\ n - 1 = o /\ o \in 1 .. Len(pieces) /\ o \in o - 1 .. Len(pieces) /\ o - o + 1 = 1
          /\ o + 1 - 1 = o
      BY <1>0, <2>1
    <3>2. SubSeq(pieces, o, n - 1) \o SubSeq(pieces, n, m - 1) = SubSeq(pieces, o, m - 1)
      BY <3>1, PiecesJoin
    <3>3. SubSeq(pieces, o, o) = <<pieces[o]>>
      <4> DEFINE cut == SubSeq(pieces, o, o)
      <4>1. cut \in Seq(Seq(Nat)) /\ Len(cut) = 1 /\ \A j \in 1 .. Len(cut) : cut[j] = pieces[o + j - 1]
        BY <3>1, PiecesAre
      <4>2. cut[1] = pieces[o]
        BY <3>1, <4>1
      <4> HIDE DEF cut
      <4>3. cut = <<pieces[o]>>
        BY <4>1, <4>2
      <4> QED
        BY <4>3 DEF cut
    <3> QED
      BY <3>1, <3>2, <3>3
  <2>8. o \in Rights
    BY <2>1, <2>6, <2>7
  <2> HIDE DEF Rights
  <2> QED
    BY <1>0, <1>3, <2>1, <2>8
<1> QED
  BY <1>3, <1>4

(* What comes before the first frame is passed over.                       *)
LEMMA NoisePassed ==
  ASSUME NEW pieces, Shaped(pieces), NEW past, NEW upto, Within(pieces, past, upto),
         NEW buffer, Part(pieces, past, upto, buffer), past <= EndOf(pieces, 1),
         NEW last \in 1 .. Len(buffer) + 1, past + last - 1 <= EndOf(pieces, 1)
  PROVE  Read(buffer)[1] = Read(buffer)[last]
<1> DEFINE Same == {n \in 1 .. last : Read(buffer)[n] = Read(buffer)[last]}
<1>0. /\ buffer \in Seq(Nat) /\ Len(buffer) \in Nat /\ past \in Nat /\ last \in Nat
      /\ last >= 1 /\ last <= Len(buffer) + 1
  BY DEF Part, Within
<1>1. last \in Same
  BY <1>0
<1>2. PICK n \in Same : \A o \in Same : n <= o
  <2>1. Same \in SUBSET Nat
    OBVIOUS
  <2> HIDE DEF Same
  <2> QED
    BY <1>1, <2>1, Least
<1>3. n = 1
  <2> SUFFICES ASSUME n # 1 PROVE FALSE
    OBVIOUS
  <2> DEFINE o == n - 1
  <2>1. o \in 1 .. last /\ o + 1 = n /\ o < n /\ o \in 1 .. Len(buffer) /\ o <= last - 1
        /\ o \in 1 .. Len(buffer) + 1 /\ ~ (o > Len(buffer)) /\ o \in Nat /\ n \in Nat
    BY <1>0, <1>2
  <2>2. Read(buffer)[n] = Read(buffer)[last]
    BY <1>2
  <2> HIDE DEF o
  <2>3. past + o \in 1 .. Len(pieces[1])
        /\ EndOf(pieces, 1) = Len(pieces[1]) /\ 1 \in 1 .. Len(pieces)
    <3>1. 1 \in 1 .. Len(pieces) /\ 0 \in 0 .. Len(pieces)
      BY EndsTyped
    <3>2. EndOf(pieces, 1) = EndOf(pieces, 1 - 1) + Len(pieces[1]) /\ Len(pieces[1]) \in Nat
      BY <3>1, EndsTyped
    <3>3. EndOf(pieces, 1 - 1) = 0
      BY DEF EndOf
    <3> QED
      BY <1>0, <2>1, <3>1, <3>2, <3>3
  <2>4. Reader!FlattenSeq(pieces)[past + o] = pieces[1][past + o]
    <3>1. Reader!FlattenSeq(pieces)[EndOf(pieces, 1 - 1) + (past + o)] = pieces[1][past + o]
      BY <2>3, PiecesInStream DEF Shaped
    <3>2. EndOf(pieces, 1 - 1) = 0
      BY DEF EndOf
    <3> QED
      BY <1>0, <2>1, <3>1, <3>2
  <2>5. buffer[o] \notin Reader!Starts
    <3>1. buffer[o] = pieces[1][past + o]
      BY <2>1, <2>4 DEF Part
    <3> QED
      BY <2>3, <3>1, NoiseStartsNothing DEF Shaped
  <2>6. Read(buffer)[o] = From(buffer, o, Read(buffer))
    BY <1>0, <2>1, ReadExists
  <2>7. Read(buffer)[o] = Read(buffer)[n]
    BY <2>1, <2>5, <2>6 DEF From
  <2>8. o \in Same
    BY <2>1, <2>2, <2>7
  <2> HIDE DEF Same
  <2> QED
    BY <1>2, <2>1, <2>8
<1> QED
  BY <1>2, <1>3

LEMMA FramesStart == Reader!FramesInit \/ NoFrames => FramesInv
<1>1. ASSUME Reader!FramesInit PROVE FramesInv
  <2>1. PICK noise \in Reader!Noise, frames \in [1 .. Sent -> Reader!Samples] : sent = <<noise>> \o frames
    BY <1>1 DEF Reader!FramesInit
  <2>2. Sent \in Nat
    BY SidecarsAssumption
  <2>3. noise \in Seq(Nat)
    <3>1. <<>> \in Seq(Nat) /\ <<0>> \in Seq(Nat) /\ <<1, 0>> \in Seq(Nat)
      OBVIOUS
    <3> QED
      BY <3>1, Zenon DEF Reader!Noise
  <2>4. \A i \in 1 .. Sent : frames[i] \in Seq(Nat) /\ frames[i] \in Reader!Samples
    <3>1. \A i \in 1 .. Sent : frames[i] \in Reader!Samples
      OBVIOUS
    <3> QED
      BY <3>1, Headers
  <2>5. frames \in Seq(Seq(Nat)) /\ Len(frames) = Sent
    BY <2>2, <2>4
  <2> DEFINE first == <<noise>>
  <2>6. first \in Seq(Seq(Nat)) /\ Len(first) = 1 /\ first[1] = noise
    BY <2>3
  <2> HIDE DEF first
  <2>7. first \o frames \in Seq(Seq(Nat)) /\ Len(first \o frames) = 1 + Sent
        /\ \A i \in 1 .. Len(first \o frames) :
             (first \o frames)[i] = IF i <= 1 THEN first[i] ELSE frames[i - 1]
    <3>1. /\ first \o frames \in Seq(Seq(Nat)) /\ Len(first \o frames) = Len(first) + Len(frames)
          /\ \A i \in 1 .. Len(first \o frames) :
               (first \o frames)[i] = IF i <= Len(first) THEN first[i] ELSE frames[i - Len(first)]
      <4>1. first \in Seq(Seq(Nat)) /\ frames \in Seq(Seq(Nat))
        BY <2>5, <2>6
      <4> DEFINE rest == frames
      <4> HIDE DEF rest
      <4> QED
        BY <4>1, ConcatIs
    <3> QED
      BY <2>5, <2>6, <3>1
  <2>8. sent = first \o frames
    BY <2>1 DEF first
  <2>9. sent \in Seq(Seq(Nat)) /\ Len(sent) = 1 + Sent
        /\ \A i \in 1 .. Len(sent) : sent[i] = IF i <= 1 THEN first[i] ELSE frames[i - 1]
    BY <2>7, <2>8
  <2>10. sent[1] = noise /\ sent # <<>>
    BY <2>2, <2>6, <2>9
  <2>11. \A i \in 2 .. Len(sent) : sent[i] \in Reader!Samples
    <3> TAKE i \in 2 .. Len(sent)
    <3>1. i \in 1 .. Len(sent) /\ ~ (i <= 1) /\ i - 1 \in 1 .. Sent
      BY <2>2, <2>9
    <3>2. sent[i] = frames[i - 1]
      BY <2>9, <3>1
    <3> QED
      BY <2>4, <3>1, <3>2
  <2>12. Shaped(sent)
    BY <2>9, <2>10, <2>11 DEF Shaped
  <2>13. EndOf(sent, 1) \in Nat /\ EndOf(sent, Len(sent)) \in Nat
    <3>1. 1 \in 0 .. Len(sent) /\ Len(sent) \in 0 .. Len(sent)
      BY <2>2, <2>9
    <3> QED
      BY <2>12, <3>1, EndsTyped
  <2>14. fed = 0 /\ kept = <<>> /\ found = <<>>
    BY <1>1 DEF Reader!FramesInit
  <2> QED
    BY <2>12, <2>13, <2>14 DEF FramesInv
<1>2. ASSUME NoFrames PROVE FramesInv
  <2>1. sent = <<<<>>>> /\ fed = 0 /\ kept = <<>> /\ found = <<>>
    BY <1>2 DEF NoFrames
  <2>2. <<>> \in Seq(Nat)
    OBVIOUS
  <2>3. sent \in Seq(Seq(Nat)) /\ Len(sent) = 1 /\ sent[1] = <<>>
    BY <2>1, <2>2
  <2>4. Shaped(sent)
    <3>1. \A k \in 2 .. Len(sent) : FALSE
      <4>1. \A k \in 2 .. 1 : FALSE
        OBVIOUS
      <4> QED
        BY <2>3, <4>1
    <3>3. sent # <<>>
      <4> SUFFICES ASSUME sent = <<>> PROVE FALSE
        OBVIOUS
      <4>1. Len(sent) = 0
        OBVIOUS
      <4> QED
        BY <2>3, <4>1
    <3>2. sent[1] \in Reader!Noise
      BY <2>3, Zenon DEF Reader!Noise
    <3> QED
      BY <2>3, <3>1, <3>2, <3>3, Zenon DEF Shaped
  <2>5. EndOf(sent, 1) \in Nat
    <3>1. 1 \in 0 .. Len(sent)
      BY <2>3
    <3> QED
      BY <2>4, <3>1, EndsTyped
  <2> QED
    BY <2>1, <2>3, <2>4, <2>5 DEF FramesInv
<1> QED
  BY <1>1, <1>2

(* Where a byte is that has come after the first frame began: in one frame.*)
LEMMA InOneFrame ==
  ASSUME NEW pieces, Shaped(pieces), NEW upto \in Nat,
         EndOf(pieces, 1) < upto, upto <= EndOf(pieces, Len(pieces))
  PROVE  \E m \in 2 .. Len(pieces) : EndOf(pieces, m - 1) < upto /\ upto <= EndOf(pieces, m)
<1> DEFINE Beyond == {n \in 1 .. Len(pieces) : upto <= EndOf(pieces, n)}
<1>0. Len(pieces) \in Nat /\ Len(pieces) >= 1 /\ \A n \in 0 .. Len(pieces) : EndOf(pieces, n) \in Nat
  BY EndsTyped
<1>1. Len(pieces) \in Beyond
  BY <1>0
<1>2. PICK m \in Beyond : \A n \in Beyond : m <= n
  <2>1. Beyond \in SUBSET Nat
    OBVIOUS
  <2> HIDE DEF Beyond
  <2> QED
    BY <1>1, <2>1, Least
<1>3. m \in 1 .. Len(pieces) /\ upto <= EndOf(pieces, m)
  BY <1>2
<1>4. m # 1
  <2>1. EndOf(pieces, 1) \in Nat
    BY <1>0
  <2> QED
    BY <1>3, <2>1
<1>5. m - 1 \in 1 .. Len(pieces) /\ m - 1 \in 0 .. Len(pieces) /\ m - 1 < m /\ m \in 2 .. Len(pieces)
  BY <1>0, <1>3, <1>4
<1>6. m - 1 \notin Beyond
  <2> HIDE DEF Beyond
  <2> QED
    BY <1>2, <1>3, <1>5
<1>7. EndOf(pieces, m - 1) < upto
  <2>1. ~ (upto <= EndOf(pieces, m - 1)) /\ EndOf(pieces, m - 1) \in Nat
    BY <1>0, <1>5, <1>6
  <2> QED
    BY <2>1
<1> QED
  BY <1>3, <1>5, <1>7

(* What is kept and what comes are a part of the stream.                   *)
LEMMA PartRead ==
  ASSUME NEW stream \in Seq(Nat), NEW past \in Nat, NEW seen \in Nat, NEW upto \in Nat,
         past <= seen, seen < upto, upto <= Len(stream)
  PROVE  LET buffer == SubSeq(stream, past + 1, seen) \o SubSeq(stream, seen + 1, upto)
         IN /\ buffer \in Seq(Nat) /\ Len(buffer) = upto - past
            /\ \A i \in 1 .. Len(buffer) : buffer[i] = stream[past + i]
<1> DEFINE one == SubSeq(stream, past + 1, seen)
           two == SubSeq(stream, seen + 1, upto)
           both == one \o two
<1>0. Len(stream) \in Nat
  OBVIOUS
<1>1. /\ one \in Seq(Nat) /\ Len(one) = seen - past
      /\ \A j \in 1 .. Len(one) : one[j] = stream[past + 1 + j - 1]
  <2> DEFINE a == past + 1
  <2>1. a \in 1 .. Len(stream) + 1 /\ seen \in a - 1 .. Len(stream) /\ seen - a + 1 = seen - past
    BY <1>0
  <2> HIDE DEF a
  <2>2. /\ SubSeq(stream, a, seen) \in Seq(Nat) /\ Len(SubSeq(stream, a, seen)) = seen - a + 1
        /\ \A j \in 1 .. Len(SubSeq(stream, a, seen)) : SubSeq(stream, a, seen)[j] = stream[a + j - 1]
    BY <2>1, CutIs
  <2> QED
    BY <2>1, <2>2 DEF a
<1>2. /\ two \in Seq(Nat) /\ Len(two) = upto - seen
      /\ \A j \in 1 .. Len(two) : two[j] = stream[seen + 1 + j - 1]
  <2> DEFINE a == seen + 1
  <2>1. a \in 1 .. Len(stream) + 1 /\ upto \in a - 1 .. Len(stream) /\ upto - a + 1 = upto - seen
    BY <1>0
  <2> HIDE DEF a
  <2>2. /\ SubSeq(stream, a, upto) \in Seq(Nat) /\ Len(SubSeq(stream, a, upto)) = upto - a + 1
        /\ \A j \in 1 .. Len(SubSeq(stream, a, upto)) : SubSeq(stream, a, upto)[j] = stream[a + j - 1]
    BY <2>1, CutIs
  <2> QED
    BY <2>1, <2>2 DEF a
<1> HIDE DEF one, two
<1>3. both \in Seq(Nat) /\ Len(both) = Len(one) + Len(two)
      /\ \A j \in 1 .. Len(both) : both[j] = IF j <= Len(one) THEN one[j] ELSE two[j - Len(one)]
  BY <1>1, <1>2, ConcatIs
<1> HIDE DEF both
<1>4. \A i \in 1 .. Len(both) : both[i] = stream[past + i]
  <2> TAKE i \in 1 .. Len(both)
  <2>1. CASE i <= Len(one)
    <3>1. i \in 1 .. Len(one) /\ past + 1 + i - 1 = past + i
      BY <1>1, <1>3, <2>1
    <3> QED
      BY <1>1, <1>3, <2>1, <3>1
  <2>2. CASE ~ (i <= Len(one))
    <3>1. i - Len(one) \in 1 .. Len(two) /\ seen + 1 + (i - Len(one)) - 1 = past + i
      BY <1>1, <1>2, <1>3, <2>2
    <3>2. both[i] = two[i - Len(one)]
      BY <1>3, <2>2
    <3>3. two[i - Len(one)] = stream[seen + 1 + (i - Len(one)) - 1]
      BY <1>2, <3>1
    <3> QED
      BY <3>1, <3>2, <3>3
  <2> QED
    BY <2>1, <2>2
<1>5. both \in Seq(Nat) /\ Len(both) = upto - past
  BY <1>1, <1>2, <1>3
<1> QED
  BY <1>4, <1>5 DEF both, one, two

(* What is left of a part is a part.                                       *)
LEMMA PartLeft ==
  ASSUME NEW stream \in Seq(Nat), NEW past \in Nat, NEW upto \in Nat, NEW next \in Nat,
         upto <= Len(stream), past <= next, next <= upto,
         NEW buffer \in Seq(Nat), Len(buffer) = upto - past,
         \A i \in 1 .. Len(buffer) : buffer[i] = stream[past + i]
  PROVE  SubSeq(buffer, next - past + 1, Len(buffer)) = SubSeq(stream, next + 1, upto)
<1> DEFINE a == next - past + 1
           b == next + 1
           size == Len(buffer)
           one == SubSeq(buffer, a, size)
           two == SubSeq(stream, b, upto)
<1>0. Len(stream) \in Nat /\ size \in Nat /\ size = upto - past
  OBVIOUS
<1>1. /\ a \in 1 .. size + 1 /\ size \in a - 1 .. size /\ size - a + 1 = upto - next
      /\ b \in 1 .. Len(stream) + 1 /\ upto \in b - 1 .. Len(stream) /\ upto - b + 1 = upto - next
      /\ \A j \in 1 .. upto - next : a + j - 1 \in 1 .. size /\ past + (a + j - 1) = b + j - 1
  BY <1>0
<1>2. /\ one \in Seq(Nat) /\ Len(one) = size - a + 1
      /\ \A j \in 1 .. Len(one) : one[j] = buffer[a + j - 1]
  <2> HIDE DEF a
  <2> QED
    BY <1>1, CutIs
<1>3. /\ two \in Seq(Nat) /\ Len(two) = upto - b + 1
      /\ \A j \in 1 .. Len(two) : two[j] = stream[b + j - 1]
  <2> HIDE DEF b
  <2> QED
    BY <1>1, CutIs
<1> HIDE DEF a, b, one, two
<1>4. Len(one) = upto - next /\ Len(two) = upto - next
  BY <1>1, <1>2, <1>3
<1>5. \A j \in 1 .. Len(two) : one[j] = two[j]
  <2> TAKE j \in 1 .. Len(two)
  <2>1. /\ a + j - 1 \in 1 .. size /\ past + (a + j - 1) = b + j - 1 /\ j \in 1 .. Len(one)
    BY <1>1, <1>4
  <2>2. buffer[a + j - 1] = stream[past + (a + j - 1)]
    BY <2>1
  <2> QED
    BY <1>2, <1>3, <2>1, <2>2
<1>6. one = two
  BY <1>2, <1>3, <1>4, <1>5, SameSeq
<1> QED
  BY <1>6 DEF one, two, a, b, size

(* Of a part with no frame in it, nothing is found and nothing is kept.    *)
LEMMA NoiseRead ==
  ASSUME NEW pieces, Shaped(pieces), NEW past, NEW upto, Within(pieces, past, upto),
         NEW buffer, Part(pieces, past, upto, buffer), upto <= EndOf(pieces, 1)
  PROVE  Reader!Frames(buffer).found = <<>> /\ Reader!Frames(buffer).rest = <<>>
<1> DEFINE last == Len(buffer) + 1
<1>1. /\ buffer \in Seq(Nat) /\ Len(buffer) \in Nat /\ Len(buffer) = upto - past
      /\ past \in Nat /\ upto \in Nat /\ past < upto
  BY DEF Part, Within
<1>2. EndOf(pieces, 1) \in Nat
  <2>1. 1 \in 0 .. Len(pieces)
    BY EndsTyped
  <2> QED
    BY <2>1, EndsTyped
<1>3. /\ last \in 1 .. Len(buffer) + 1 /\ last > Len(buffer)
      /\ past + last - 1 <= EndOf(pieces, 1) /\ past <= EndOf(pieces, 1)
  BY <1>1, <1>2
<1>4. Read(buffer)[last] = From(buffer, last, Read(buffer))
  BY <1>1, <1>3, ReadExists
<1>5. Read(buffer)[1] = Read(buffer)[last]
  <2> HIDE DEF last
  <2> QED
    BY <1>3, NoisePassed
<1>6. Read(buffer)[1].found = <<>> /\ Read(buffer)[1].rest = last
  <2>1. From(buffer, last, Read(buffer)) = [found |-> <<>>, rest |-> last]
    BY <1>3 DEF From
  <2> QED
    BY <1>4, <1>5, <2>1
<1>7. SubSeq(buffer, last, Len(buffer)) = <<>>
  BY <1>1
<1> QED
  BY <1>6, <1>7, FramesIs

(* From the first frame or from a later one: all are found but the last    *)
(* that has begun, and that one is kept.                                   *)
LEMMA FramesRead ==
  ASSUME NEW pieces, Shaped(pieces), NEW past, NEW upto, Within(pieces, past, upto),
         NEW buffer, Part(pieces, past, upto, buffer),
         NEW m \in 2 .. Len(pieces), EndOf(pieces, m - 1) < upto, upto <= EndOf(pieces, m),
         NEW k \in 2 .. m, past <= EndOf(pieces, k - 1),
         past = EndOf(pieces, k - 1) \/ k = 2
  PROVE  /\ Reader!Frames(buffer).found = SubSeq(pieces, k, m - 1)
         /\ Reader!Frames(buffer).rest
              = SubSeq(Reader!FlattenSeq(pieces), EndOf(pieces, m - 1) + 1, upto)
<1> DEFINE stream == Reader!FlattenSeq(pieces)
           start == PlaceOf(pieces, k, past)
           next == EndOf(pieces, m - 1)
<1>1. /\ buffer \in Seq(Nat) /\ Len(buffer) \in Nat /\ Len(buffer) = upto - past
      /\ past \in Nat /\ upto \in Nat /\ past < upto
      /\ \A i \in 1 .. Len(buffer) : buffer[i] = stream[past + i]
  BY DEF Part, Within
<1>2. /\ k - 1 \in 0 .. Len(pieces) /\ m - 1 \in 0 .. Len(pieces) /\ k - 1 <= m - 1
      /\ 1 \in 0 .. Len(pieces)
  BY EndsTyped
<1>3. /\ EndOf(pieces, k - 1) \in Nat /\ next \in Nat /\ EndOf(pieces, k - 1) <= next
  BY <1>2, EndsTyped, EndsOrdered
<1>4. stream \in Seq(Nat) /\ upto <= Len(stream)
  BY EndsAre DEF Shaped, Within
<1>5. Read(buffer)[1] = Read(buffer)[start]
  <2>1. CASE past = EndOf(pieces, k - 1)
    <3>1. start = 1
      BY <1>1, <1>3, <2>1 DEF PlaceOf
    <3> QED
      BY <3>1
  <2>2. CASE k = 2
    <3>1. start = EndOf(pieces, 1) - past + 1
      BY <2>2 DEF PlaceOf
    <3>2. past <= EndOf(pieces, 1) /\ EndOf(pieces, 1) <= next /\ EndOf(pieces, 1) \in Nat /\ next < upto
      BY <1>3, <2>2
    <3>3. start \in 1 .. Len(buffer) + 1 /\ past + start - 1 <= EndOf(pieces, 1)
      <4> DEFINE first == EndOf(pieces, 1)
                 size == Len(buffer)
      <4>1. first \in Nat /\ past <= first /\ first < upto /\ size \in Nat /\ size = upto - past
        BY <1>1, <1>3, <3>2
      <4> HIDE DEF first, size
      <4>2. first - past + 1 \in 1 .. size + 1 /\ past + (first - past + 1) - 1 <= first
        BY <1>1, <4>1
      <4> QED
        BY <3>1, <4>2 DEF first, size
    <3> HIDE DEF start
    <3> QED
      BY <3>2, <3>3, NoisePassed
  <2> QED
    BY <2>1, <2>2
<1>6. /\ Read(buffer)[1].found = SubSeq(pieces, k, m - 1)
      /\ Read(buffer)[1].rest = PlaceOf(pieces, m, past)
  BY <1>5, FramesFrom
<1>7. SubSeq(buffer, PlaceOf(pieces, m, past), Len(buffer)) = SubSeq(stream, next + 1, upto)
  <2>1. past <= next /\ next <= upto
    BY <1>1, <1>3
  <2> HIDE DEF stream, next
  <2>2. SubSeq(buffer, next - past + 1, Len(buffer)) = SubSeq(stream, next + 1, upto)
    BY <1>1, <1>3, <1>4, <2>1, PartLeft
  <2> QED
    BY <2>2 DEF PlaceOf, next
<1> QED
  BY <1>6, <1>7, FramesIs

(* What is kept is the end of what has arrived.                            *)
LEMMA KeptIs ==
  ASSUME FramesInv, NEW upto \in Nat, fed < upto, upto <= EndOf(sent, Len(sent)),
         NEW past \in Nat, past <= fed,
         kept = SubSeq(Reader!FlattenSeq(sent), past + 1, fed)
  PROVE  /\ Within(sent, past, upto)
         /\ Part(sent, past, upto, kept \o SubSeq(Reader!FlattenSeq(sent), fed + 1, upto))
<1> DEFINE stream == Reader!FlattenSeq(sent)
<1>1. Shaped(sent) /\ fed \in 0 .. EndOf(sent, Len(sent))
  BY DEF FramesInv
<1>2. EndOf(sent, Len(sent)) \in Nat
  <2>1. Len(sent) \in 0 .. Len(sent)
    BY <1>1, EndsTyped
  <2> QED
    BY <1>1, <2>1, EndsTyped
<1>3. stream \in Seq(Nat) /\ Len(stream) = EndOf(sent, Len(sent))
  BY <1>1, EndsAre DEF Shaped
<1>4. fed \in Nat /\ upto <= Len(stream) /\ past < upto
  BY <1>1, <1>2, <1>3
<1>5. LET buffer == SubSeq(stream, past + 1, fed) \o SubSeq(stream, fed + 1, upto)
      IN /\ buffer \in Seq(Nat) /\ Len(buffer) = upto - past
         /\ \A i \in 1 .. Len(buffer) : buffer[i] = stream[past + i]
  <2> HIDE DEF stream
  <2> QED
    BY <1>3, <1>4, PartRead
<1> HIDE DEF stream
<1>6. Within(sent, past, upto)
  BY <1>4 DEF Within
<1>7. Part(sent, past, upto, kept \o SubSeq(Reader!FlattenSeq(sent), fed + 1, upto))
  BY <1>5 DEF Part, stream
<1> QED
  BY <1>6, <1>7

LEMMA FramesKeep == FramesInv /\ Reader!Arrive => FramesInv'
<1> SUFFICES ASSUME FramesInv, Reader!Arrive PROVE FramesInv'
  OBVIOUS
<1> DEFINE stream == Reader!FlattenSeq(sent)
<1>1. PICK upto \in fed + 1 .. Len(stream) :
        LET buffer == kept \o SubSeq(stream, fed + 1, upto)
        IN /\ fed' = upto /\ sent' = sent
           /\ found' = found \o Reader!Frames(buffer).found
           /\ kept' = Reader!Frames(buffer).rest
  BY DEF Reader!Arrive, Reader!Stream
<1> DEFINE buffer == kept \o SubSeq(stream, fed + 1, upto)
<1>2. Shaped(sent) /\ fed \in 0 .. EndOf(sent, Len(sent))
  BY DEF FramesInv
<1>3. stream \in Seq(Nat) /\ Len(stream) = EndOf(sent, Len(sent))
  BY <1>2, EndsAre DEF Shaped
<1>4. /\ Len(sent) \in Nat /\ Len(sent) >= 1
      /\ \A n \in 0 .. Len(sent) : EndOf(sent, n) \in Nat
      /\ 1 \in 0 .. Len(sent) /\ EndOf(sent, 1) \in Nat
      /\ Len(sent) \in 0 .. Len(sent) /\ EndOf(sent, Len(sent)) \in Nat
  BY <1>2, EndsTyped
<1>5. upto \in Nat /\ fed \in Nat /\ fed < upto /\ upto <= EndOf(sent, Len(sent))
      /\ upto \in 0 .. EndOf(sent, Len(sent))
  <2> HIDE DEF stream
  <2>1. upto \in fed + 1 .. Len(stream)
    OBVIOUS
  <2> QED
    BY <1>2, <1>3, <1>4, <2>1
<1>6. /\ fed' = upto /\ sent' = sent /\ found' = found \o Reader!Frames(buffer).found
      /\ kept' = Reader!Frames(buffer).rest
  BY <1>1
<1> HIDE DEF stream, buffer
<1>7. Shaped(sent)' /\ fed' \in (0 .. EndOf(sent, Len(sent)))'
  <2>1. Shaped(sent)' /\ (EndOf(sent, Len(sent)))' = EndOf(sent, Len(sent))
    BY <1>2, <1>6 DEF Shaped, EndOf
  <2> QED
    BY <1>5, <1>6, <2>1
<1>8. ASSUME upto <= EndOf(sent, 1) PROVE found' = <<>> /\ kept' = <<>>
  <2>1. fed <= EndOf(sent, 1)
    BY <1>4, <1>5, <1>8
  <2>2. found = <<>> /\ kept = <<>>
    BY <2>1 DEF FramesInv
  <2>3. kept = SubSeq(stream, fed + 1, fed) /\ fed <= fed
    BY <1>3, <1>5, <2>2
  <2>4. Within(sent, fed, upto) /\ Part(sent, fed, upto, buffer)
    BY <1>5, <2>3, KeptIs DEF stream, buffer
  <2>5. Reader!Frames(buffer).found = <<>> /\ Reader!Frames(buffer).rest = <<>>
    BY <1>2, <1>8, <2>4, NoiseRead
  <2> QED
    BY <1>6, <2>2, <2>5
<1>9. ASSUME EndOf(sent, 1) < upto
      PROVE  \E m \in 2 .. Len(sent) :
               /\ EndOf(sent, m - 1) < upto /\ upto <= EndOf(sent, m)
               /\ found' = SubSeq(sent, 2, m - 1)
               /\ kept' = SubSeq(stream, EndOf(sent, m - 1) + 1, upto)
  <2>1. PICK m \in 2 .. Len(sent) : EndOf(sent, m - 1) < upto /\ upto <= EndOf(sent, m)
    BY <1>2, <1>5, <1>9, InOneFrame
  <2>2. CASE fed <= EndOf(sent, 1)
    <3>1. found = <<>> /\ kept = <<>>
      BY <2>2 DEF FramesInv
    <3>2. kept = SubSeq(stream, fed + 1, fed) /\ fed <= fed
      BY <1>3, <1>5, <3>1
    <3>3. Within(sent, fed, upto) /\ Part(sent, fed, upto, buffer)
      BY <1>5, <3>2, KeptIs DEF stream, buffer
    <3> DEFINE k == 2
    <3>4. k \in 2 .. m /\ k - 1 = 1 /\ k = 2
      BY <1>4
    <3>5. fed <= EndOf(sent, k - 1)
      BY <2>2, <3>4
    <3> HIDE DEF k
    <3>6. /\ Reader!Frames(buffer).found = SubSeq(sent, k, m - 1)
          /\ Reader!Frames(buffer).rest = SubSeq(stream, EndOf(sent, m - 1) + 1, upto)
      <4>1. Shaped(sent)
        BY <1>2
      <4>2. fed = EndOf(sent, k - 1) \/ k = 2
        BY <3>4
      <4>3. k \in 2 .. m
        BY <3>4
      <4> QED
        BY <2>1, <3>3, <3>5, <4>1, <4>2, <4>3, FramesRead, SMTT(120) DEF stream
    <3>7. SubSeq(sent, 2, m - 1) \in Seq(Seq(Nat))
      <4>1. 2 \in 1 .. Len(sent) + 1 /\ m - 1 \in 2 - 1 .. Len(sent)
        BY <1>4
      <4> QED
        BY <1>2, <4>1, PiecesAre
    <3>8. found' = SubSeq(sent, 2, m - 1)
      BY <1>6, <3>1, <3>4, <3>6, <3>7
    <3> QED
      BY <1>6, <2>1, <3>6, <3>8
  <2>3. CASE ~ (fed <= EndOf(sent, 1))
    <3>1. fed > EndOf(sent, 1)
      BY <1>4, <1>5, <2>3
    <3>2. PICK k \in 2 .. Len(sent) :
            /\ EndOf(sent, k - 1) < fed /\ fed <= EndOf(sent, k)
            /\ found = SubSeq(sent, 2, k - 1)
            /\ kept = SubSeq(stream, EndOf(sent, k - 1) + 1, fed)
      BY <3>1 DEF FramesInv, Coming, stream
    <3> DEFINE past == EndOf(sent, k - 1)
    <3>3. /\ k - 1 \in 0 .. Len(sent) /\ k \in 0 .. Len(sent) /\ m - 1 \in 0 .. Len(sent)
          /\ m \in 0 .. Len(sent)
      BY <1>4
    <3>4. past \in Nat /\ past <= fed /\ EndOf(sent, m) \in Nat /\ EndOf(sent, k) \in Nat
      BY <1>4, <1>5, <3>2, <3>3
    <3>5. k <= m
      <4> SUFFICES ASSUME k > m PROVE FALSE
        BY <1>4
      <4>1. m <= k - 1
        BY <1>4
      <4>2. EndOf(sent, m) <= EndOf(sent, k - 1)
        BY <1>2, <3>3, <4>1, EndsOrdered
      <4> QED
        BY <1>5, <2>1, <3>2, <3>4, <4>2
    <3>6. k \in 2 .. m
      BY <1>4, <3>5
    <3>7. Within(sent, past, upto) /\ Part(sent, past, upto, buffer)
      <4>1. kept = SubSeq(stream, past + 1, fed)
        BY <3>2
      <4> HIDE DEF past
      <4> QED
        BY <1>5, <3>4, <4>1, KeptIs DEF stream, buffer
    <3>8. past <= EndOf(sent, k - 1) /\ past = EndOf(sent, k - 1)
      BY <3>4
    <3>9. /\ Reader!Frames(buffer).found = SubSeq(sent, k, m - 1)
          /\ Reader!Frames(buffer).rest = SubSeq(stream, EndOf(sent, m - 1) + 1, upto)
      <4> HIDE DEF past
      <4>1. Shaped(sent)
        BY <1>2
      <4> QED
        BY <2>1, <3>6, <3>7, <3>8, <4>1, FramesRead, SMTT(120) DEF stream
    <3>10. SubSeq(sent, 2, k - 1) \o SubSeq(sent, k, m - 1) = SubSeq(sent, 2, m - 1)
      <4>1. 2 \in 1 .. Len(sent) + 1 /\ k \in 2 .. Len(sent) + 1 /\ m - 1 \in k - 1 .. Len(sent)
        BY <1>4, <3>5
      <4> QED
        BY <1>2, <4>1, PiecesJoin
    <3>11. found' = SubSeq(sent, 2, m - 1)
      BY <1>6, <3>2, <3>9, <3>10
    <3> QED
      BY <1>6, <2>1, <3>9, <3>11
  <2> QED
    BY <2>2, <2>3
<1>10. /\ (EndOf(sent, 1))' = EndOf(sent, 1) /\ (Len(sent))' = Len(sent)
       /\ (Reader!FlattenSeq(sent))' = stream
       /\ \A m : (EndOf(sent, m - 1))' = EndOf(sent, m - 1) /\ (EndOf(sent, m))' = EndOf(sent, m)
       /\ \A m : (SubSeq(sent, 2, m - 1))' = SubSeq(sent, 2, m - 1)
  BY <1>6 DEF EndOf, stream
<1>11. fed' <= (EndOf(sent, 1))' => found' = <<>> /\ kept' = <<>>
  BY <1>6, <1>8, <1>10
<1>12. ASSUME fed' > (EndOf(sent, 1))'
       PROVE  (\E m \in 2 .. Len(sent) :
                 /\ Coming(m)
                 /\ found = SubSeq(sent, 2, m - 1)
                 /\ kept = SubSeq(Reader!FlattenSeq(sent), EndOf(sent, m - 1) + 1, fed))'
  <2>1. EndOf(sent, 1) < upto
    BY <1>4, <1>5, <1>6, <1>10, <1>12
  <2>2. PICK m \in 2 .. Len(sent) :
               /\ EndOf(sent, m - 1) < upto /\ upto <= EndOf(sent, m)
               /\ found' = SubSeq(sent, 2, m - 1)
               /\ kept' = SubSeq(stream, EndOf(sent, m - 1) + 1, upto)
    BY <1>9, <2>1
  <2> QED
    BY <1>6, <2>2 DEF Coming, EndOf, stream
<1> QED
  BY <1>7, <1>11, <1>12 DEF FramesInv

LEMMA FramesShow == FramesInv => FramesWhole
<1> SUFFICES ASSUME FramesInv PROVE FramesWhole
  OBVIOUS
<1>1. Shaped(sent) /\ fed \in 0 .. EndOf(sent, Len(sent))
  BY DEF FramesInv
<1>2. /\ Len(sent) \in Nat /\ Len(sent) >= 1
      /\ \A n \in 0 .. Len(sent) : EndOf(sent, n) \in Nat
      /\ 1 \in 0 .. Len(sent) /\ EndOf(sent, 1) \in Nat
      /\ Len(sent) \in 0 .. Len(sent) /\ EndOf(sent, Len(sent)) \in Nat
  BY <1>1, EndsTyped
<1>3. fed \in Nat
  BY <1>1, <1>2
<1>4. \A n \in 1 .. Len(sent) - 1 :
        Len(Reader!FlattenSeq(SubSeq(sent, 1, n + 1))) = EndOf(sent, n + 1)
  <2> TAKE n \in 1 .. Len(sent) - 1
  <2> DEFINE o == n + 1
  <2>1. o \in 1 .. Len(sent)
    BY <1>2
  <2> HIDE DEF o
  <2>2. Len(Reader!FlattenSeq(SubSeq(sent, 1, o))) = EndOf(sent, o)
    BY <1>1, <2>1, EndsAre DEF Shaped
  <2> QED
    BY <2>2 DEF o
<1>5. sent \in Seq(Seq(Nat)) /\ sent # <<>>
  BY <1>1 DEF Shaped
<1>6. /\ Tail(sent) \in Seq(Seq(Nat)) /\ Len(Tail(sent)) = Len(sent) - 1
      /\ \A i \in 1 .. Len(sent) - 1 : Tail(sent)[i] = sent[i + 1]
  BY <1>5
<1>7. CASE fed <= EndOf(sent, 1)
  <2>1. found = <<>>
    BY <1>7 DEF FramesInv
  <2>2. found = SubSeq(Tail(sent), 1, Len(found))
    <3>1. Len(found) = 0
      BY <2>1
    <3>2. SubSeq(Tail(sent), 1, 0) = <<>>
      BY <1>6
    <3> QED
      BY <2>1, <3>1, <3>2
  <2>3. \A n \in 1 .. Len(sent) - 1 :
          Len(Reader!FlattenSeq(SubSeq(sent, 1, n + 1))) < fed => Len(found) >= n
    <3> TAKE n \in 1 .. Len(sent) - 1
    <3>1. n + 1 \in 0 .. Len(sent) /\ 1 <= n + 1
      BY <1>2
    <3>2. EndOf(sent, 1) <= EndOf(sent, n + 1) /\ EndOf(sent, n + 1) \in Nat
      BY <1>1, <1>2, <3>1, EndsOrdered
    <3>3. ~ (EndOf(sent, n + 1) < fed)
      BY <1>2, <1>3, <1>7, <3>2
    <3> QED
      BY <1>4, <3>3
  <2> QED
    BY <2>2, <2>3 DEF FramesWhole, Reader!FramesWhole
<1>8. CASE ~ (fed <= EndOf(sent, 1))
  <2>1. fed > EndOf(sent, 1)
    BY <1>2, <1>3, <1>8
  <2>2. PICK m \in 2 .. Len(sent) :
          EndOf(sent, m - 1) < fed /\ fed <= EndOf(sent, m) /\ found = SubSeq(sent, 2, m - 1)
    BY <2>1 DEF FramesInv, Coming
  <2>3. /\ found \in Seq(Seq(Nat)) /\ Len(found) = m - 2
        /\ \A j \in 1 .. Len(found) : found[j] = sent[2 + j - 1]
    <3>1. 2 \in 1 .. Len(sent) + 1 /\ m - 1 \in 2 - 1 .. Len(sent) /\ (m - 1) - 2 + 1 = m - 2
      BY <1>2
    <3> QED
      BY <1>1, <2>2, <3>1, PiecesAre
  <2>4. found = SubSeq(Tail(sent), 1, Len(found))
    <3> DEFINE size == Len(found)
               cut == SubSeq(Tail(sent), 1, size)
    <3>1. size \in 0 .. Len(sent) - 1 /\ \A j \in 1 .. size : j \in 1 .. Len(sent) - 1 /\ 2 + j - 1 = j + 1
      BY <1>2, <2>3
    <3> HIDE DEF size
    <3>2. cut \in Seq(Seq(Nat)) /\ Len(cut) = size /\ \A j \in 1 .. size : cut[j] = Tail(sent)[j]
      <4> DEFINE tail == Tail(sent)
      <4>1. tail \in Seq(Seq(Nat)) /\ size \in 0 .. Len(tail)
        BY <1>6, <3>1
      <4> HIDE DEF tail
      <4>2. /\ SubSeq(tail, 1, size) \in Seq(Seq(Nat)) /\ Len(SubSeq(tail, 1, size)) = size
            /\ \A j \in 1 .. size : SubSeq(tail, 1, size)[j] = tail[j]
        BY <4>1
      <4> QED
        BY <4>2 DEF tail
    <3> HIDE DEF cut
    <3>3. Len(found) = Len(cut)
      BY <3>2 DEF size
    <3>4. \A j \in 1 .. Len(cut) : found[j] = cut[j]
      <4> TAKE j \in 1 .. Len(cut)
      <4>1. j \in 1 .. size /\ j \in 1 .. Len(sent) - 1 /\ 2 + j - 1 = j + 1 /\ j \in 1 .. Len(found)
        BY <3>1, <3>2, <3>3
      <4> QED
        BY <1>6, <2>3, <3>2, <4>1
    <3>5. found = cut
      BY <2>3, <3>2, <3>3, <3>4, SameSeq
    <3> QED
      BY <3>5 DEF cut, size
  <2>5. \A n \in 1 .. Len(sent) - 1 :
          Len(Reader!FlattenSeq(SubSeq(sent, 1, n + 1))) < fed => Len(found) >= n
    <3> TAKE n \in 1 .. Len(sent) - 1
    <3>1. SUFFICES ASSUME Len(found) < n PROVE ~ (EndOf(sent, n + 1) < fed)
      BY <1>2, <1>4, <2>3
    <3>2. n + 1 \in 0 .. Len(sent) /\ m \in 0 .. Len(sent) /\ m <= n + 1
      BY <1>2, <2>3, <3>1
    <3>3. EndOf(sent, m) <= EndOf(sent, n + 1) /\ EndOf(sent, n + 1) \in Nat /\ EndOf(sent, m) \in Nat
      BY <1>1, <1>2, <3>2, EndsOrdered
    <3> QED
      BY <1>3, <2>2, <3>3
  <2> QED
    BY <2>4, <2>5 DEF FramesWhole, Reader!FramesWhole
<1> QED
  BY <1>7, <1>8

-----------------------------------------------------------------------------
(***************************************************************************)
(* The whole                                                               *)
(***************************************************************************)
LEMMA InvStarts == Init => IInv
BY RangeStarts, UploadStarts, ReportStarts, FramesStart DEF Init, IInv

(* What is said of one program is of its own variables.                    *)
LEMMA Elsewhere ==
  /\ UNCHANGED ranging => (RangeInv => RangeInv')
  /\ UNCHANGED uploading => (UploadInv => UploadInv')
  /\ UNCHANGED reporting => (ReportInv => ReportInv')
  /\ UNCHANGED splitting => (FramesInv => FramesInv')
<1>1. UNCHANGED ranging => (RangeInv => RangeInv')
  BY DEF ranging, RangeInv, RangeType, SeenHasCome, GimbalIsSecond, Range_!GimbalIsSecond
<1>2. UNCHANGED uploading => (UploadInv => UploadInv')
  <2> SUFFICES ASSUME UNCHANGED uploading, UploadInv PROVE UploadInv'
    OBVIOUS
  <2>1. UNCHANGED <<plan, fcu, uploader, outcome>> /\ other' = other
    BY DEF uploading
  <2>2. other' \in BOOLEAN
    <3>1. other \in BOOLEAN
      BY DEF UploadInv, UploadType
    <3> QED
      BY <2>1, <3>1, Zenon
  <2>3. UploadType'
    BY <2>1, <2>2 DEF UploadInv, UploadType
  <2>4. Mission!Waypoints' = Mission!Waypoints
    BY <2>1 DEF Mission!Waypoints
  <2>5. UploadHonest'
    BY <2>1, <2>4 DEF UploadInv, UploadHonest, Mission!UploadHonest
  <2> QED
    BY <2>1, <2>3, <2>4, <2>5 DEF UploadInv, Refused
<1>3. UNCHANGED reporting => (ReportInv => ReportInv')
  BY DEF reporting, ReportInv, ReportType, Counted, PairTrue, SoonRead
<1>4. UNCHANGED splitting => (FramesInv => FramesInv')
  BY DEF splitting, FramesInv, Shaped, Coming, EndOf
<1> QED
  BY <1>1, <1>2, <1>3, <1>4

LEMMA InvKeeps == IInv /\ [Next]_all => IInv'
<1> SUFFICES ASSUME IInv, [Next]_all PROVE IInv'
  OBVIOUS
<1>1. RangeInv'
  BY RangeKeeps, Elsewhere DEF IInv, Next, Alone, all
<1>2. UploadInv'
  BY UploadKeeps, Elsewhere DEF IInv, Next, Alone, all
<1>3. ReportInv'
  BY ReportKeeps, Elsewhere DEF IInv, Next, Alone, all
<1>4. FramesInv'
  BY FramesKeep, Elsewhere DEF IInv, Next, Alone, all
<1> QED
  BY <1>1, <1>2, <1>3, <1>4 DEF IInv

LEMMA InvHolds == Spec => []IInv
<1> QED
  BY InvStarts, InvKeeps, PTL DEF Spec

(* However late PX4 boots, and whatever is lost on the way: the body's     *)
(* laser is PX4's first distance sensor, and no reading that is told as    *)
(* valid lies beyond the laser's limit.                                    *)
THEOREM BodyIsFirst == Spec => []GimbalIsSecond
<1>1. IInv => GimbalIsSecond
  BY DEF IInv, RangeInv
<1> QED
  BY <1>1, InvHolds, PTL

(* Whatever MAVROS refuses or never answers: an upload that ends well has  *)
(* put its whole mission on the vehicle, and at its start, unless another  *)
(* station interfered; and a plan with unknown items never gets there.     *)
THEOREM UploadsHonest == Spec => []UploadHonest
<1>1. IInv => UploadHonest
  BY DEF IInv, UploadInv
<1> QED
  BY <1>1, InvHolds, PTL

(* However many frames are sent, after whatever noise, and in whatever     *)
(* pieces their bytes come: what Link.take finds are the frames that were  *)
(* sent, in order, each at the latest when the next has begun to arrive.   *)
THEOREM FramesAreWhole == Spec => []FramesWhole
<1>1. IInv => FramesWhole
  BY FramesShow DEF IInv
<1> QED
  BY <1>1, InvHolds, PTL

(* For any period, and however often the video server starts again: a rate *)
(* is of bytes that were carried, an error comes without paths, and what   *)
(* is reported to listen or to run did so less than a period ago.          *)
THEOREM ReportsHold == Spec => []ReportsTrue
<1>1. ReportInv => ReportsTrue
  <2> SUFFICES ASSUME ReportInv PROVE ReportsTrue
    OBVIOUS
  <2>1. tick.bridges \in Nat /\ tick.units \in Nat
    BY Periods DEF ReportInv, ReportType
  <2> QED
    BY <2>1, Periods DEF ReportInv, PairTrue, SoonRead, ReportsTrue, Report!ReportsTrue
<1>2. IInv => ReportsTrue
  BY <1>1 DEF IInv
<1> QED
  BY <1>2, InvHolds, PTL
=============================================================================
