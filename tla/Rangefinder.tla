---------------------------- MODULE Rangefinder ----------------------------
(***************************************************************************)
(* modules/sim/gimbal_rangefinder.py: the gimbal's laser, sent to PX4 as a *)
(* second distance sensor.  PX4 numbers its sensors in the order in which  *)
(* they first come, so the body's own has to be there before; and it sends *)
(* to a station only after it has heard one.  Datagrams to a PX4 that is   *)
(* still booting are lost.                                                 *)
(***************************************************************************)
EXTENDS Naturals, Sequences, SequencesExt

VARIABLES
  px4,    \* whether its link is up, whether it heard us, its sensors in order
  inbox,  \* sensor ids that wait in our socket
  ranger, \* the locals of main
  told    \* the reading that PX4 was sent last

Infinite == 9
Fallback == 2  \* FALLBACK_RANGE_M, in place of a scan's own limits
Limit == 1     \* the limit of this laser
Measured == {1, 2, Infinite}
NoReading == [metres |-> 0, valid |-> FALSE, within |-> 0]

RangerInit ==
  /\ px4 = [up |-> FALSE, hears |-> FALSE, sensors |-> <<>>]
  /\ inbox = {} /\ told = NoReading
  /\ ranger = [place |-> "topic", beat |-> TRUE, ready |-> TRUE,
               owned |-> FALSE, limit |-> Fallback]

(* It waits for the laser to be advertised, for as long as that takes.     *)
Topic ==
  /\ ranger.place = "topic"
  /\ ranger' = [ranger EXCEPT !.place = "lines"]
  /\ UNCHANGED <<px4, inbox, told>>

-----------------------------------------------------------------------------
(***************************************************************************)
(* One line of the laser: a heartbeat once a second, whatever PX4 has sent *)
(* meanwhile, and then what the line says.                                 *)
(***************************************************************************)
Owned == ranger.owned \/ 0 \in inbox

Beat == IF ranger.beat /\ px4.up THEN [px4 EXCEPT !.hears = TRUE] ELSE px4

Waiting ==
  /\ ranger.place = "lines" /\ ~Owned
  /\ px4' = Beat /\ inbox' = {}
  /\ ranger' = [ranger EXCEPT !.beat = FALSE]
  /\ UNCHANGED told

LimitLine ==
  /\ ranger.place = "lines" /\ Owned
  /\ px4' = Beat /\ inbox' = {}
  /\ ranger' = [ranger EXCEPT !.beat = FALSE, !.owned = TRUE, !.limit = Limit]
  /\ UNCHANGED told

(* A line of no interest, or a scan too soon after the last that was sent. *)
OtherLine ==
  /\ ranger.place = "lines" /\ Owned
  /\ px4' = Beat /\ inbox' = {}
  /\ ranger' = [ranger EXCEPT !.beat = FALSE, !.owned = TRUE]
  /\ UNCHANGED told

Valid(metres, limit) == metres # Infinite /\ metres <= limit

Reading(metres, limit) ==
  [metres |-> IF Valid(metres, limit) THEN metres ELSE limit,
   valid |-> Valid(metres, limit), within |-> limit]

(* A mutant: sent whether PX4 has reported its own sensor or not.          *)
MayRangeAtOnce == TRUE
MayRange == Owned

RangesLine ==
  /\ ranger.place = "lines" /\ MayRange /\ ranger.ready
  /\ \E metres \in Measured :
       told' = IF px4.up THEN Reading(metres, ranger.limit) ELSE told
  /\ px4' = [Beat EXCEPT !.sensors =
               IF px4.up /\ ~Contains(@, "gimbal") THEN Append(@, "gimbal") ELSE @]
  /\ inbox' = {}
  /\ ranger' = [ranger EXCEPT !.beat = FALSE, !.ready = FALSE, !.owned = Owned]

Tock ==
  /\ ranger.place = "lines" /\ ~(ranger.beat /\ ranger.ready)
  /\ ranger' = [ranger EXCEPT !.beat = TRUE, !.ready = TRUE]
  /\ UNCHANGED <<px4, inbox, told>>

-----------------------------------------------------------------------------
Boot ==
  /\ ~px4.up
  /\ px4' = [px4 EXCEPT !.up = TRUE]
  /\ UNCHANGED <<inbox, ranger, told>>
BodyScan ==
  /\ px4.up /\ ~Contains(px4.sensors, "body")
  /\ px4' = [px4 EXCEPT !.sensors = Append(@, "body")]
  /\ UNCHANGED <<inbox, ranger, told>>
Streams ==
  /\ px4.hears
  /\ inbox' = inbox \cup {i - 1 : i \in DOMAIN px4.sensors}
  /\ inbox' # inbox
  /\ UNCHANGED <<px4, ranger, told>>

Line == Waiting \/ LimitLine \/ OtherLine \/ RangesLine
Px4 == Boot \/ BodyScan \/ Streams
RangerNext == Topic \/ Line \/ Tock \/ Px4

-----------------------------------------------------------------------------
(***************************************************************************)
(* Properties                                                              *)
(***************************************************************************)

(* The body's sensor has id 0, whoever is the first to be up; and what is  *)
(* told as a reading lies within the limit that was read.                  *)
GimbalIsSecond ==
  /\ px4.sensors # <<>> => px4.sensors[1] = "body"
  /\ told.valid => told.metres <= told.within

(* The gimbal's range arrives, however late PX4 boots.                     *)
RangeArrives == <>(Len(px4.sensors) = 2)
=============================================================================
