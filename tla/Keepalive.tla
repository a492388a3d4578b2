----------------------------- MODULE Keepalive -----------------------------
(***************************************************************************)
(* modules/mavlink-router/keepalive.py: a heartbeat a second to a router,  *)
(* so that PX4 counts a ground station as present.  The router starts and  *)
(* stops beside it; a heartbeat into a dead connection is lost, and the    *)
(* error of it shows with the next call.                                   *)
(***************************************************************************)
EXTENDS Naturals

CONSTANT Outages \* bound: how often the router stops

VARIABLES
  setting, \* KEEPALIVE and --transport
  router,  \* whether it runs, and how often it stopped
  keeper,  \* where run stands, its socket, whether it saw the vehicle
  traffic, \* whether bytes wait to be read
  station  \* what PX4 makes of it: "seen" or "lost"

(* Any spelling that is not known means always; off does not run.          *)
Modes == [mode : {"always", "bootstrap"}, transport : {"udp", "tcp"}]

KeeperInit ==
  /\ setting \in Modes
  /\ router = [up |-> FALSE, stops |-> 0]
  /\ keeper = [place |-> "open", live |-> FALSE, saw |-> FALSE]
  /\ traffic = FALSE /\ station = "lost"

At(place) == keeper.place = place
Go(place) == keeper' = [keeper EXCEPT !.place = place]
Udp == setting.transport = "udp"

(* A mutant: the connection that failed is used again.                     *)
ReopenStale == Go("send")
Reopen == keeper' = [keeper EXCEPT !.place = "open", !.live = FALSE]

OpenLink ==
  /\ At("open")
  /\ IF Udp \/ router.up
     THEN keeper' = [keeper EXCEPT !.place = "send", !.live = TRUE]
     ELSE Go("retry")
  /\ UNCHANGED <<setting, router, traffic, station>>

(* The router is reached over UDP whenever it runs, over TCP as long as it *)
(* has not stopped since the connection stood.                             *)
Reaches == router.up /\ (Udp \/ keeper.live)

SendBeat ==
  /\ At("send")
  /\ station' = IF Reaches THEN "seen" ELSE station
  /\ Go("recv") \/ (~Reaches /\ Go("retry"))
  /\ UNCHANGED <<setting, router, traffic>>

Receive ==
  /\ At("recv") /\ traffic
  /\ keeper' = [keeper EXCEPT !.saw = TRUE,
       !.place = IF setting.mode = "bootstrap" /\ ~keeper.saw THEN "done" ELSE "nap"]
  /\ traffic' = FALSE
  /\ UNCHANGED <<setting, router, station>>

(* The time is up, or nothing is bound there yet.                          *)
ReceiveNothing ==
  /\ At("recv") /\ ~traffic
  /\ Go(IF Udp \/ keeper.live THEN "nap" ELSE "retry")
  /\ UNCHANGED <<setting, router, traffic, station>>

Nap == At("nap") /\ Go("send") /\ UNCHANGED <<setting, router, traffic, station>>
RetryLater == At("retry") /\ Reopen /\ UNCHANGED <<setting, router, traffic, station>>

Keeper == OpenLink \/ SendBeat \/ Receive \/ ReceiveNothing \/ Nap \/ RetryLater

-----------------------------------------------------------------------------
RouterUp ==
  /\ ~router.up
  /\ router' = [router EXCEPT !.up = TRUE]
  /\ UNCHANGED <<setting, keeper, traffic, station>>
RouterDown ==
  /\ router.up /\ router.stops < Outages
  /\ router' = [up |-> FALSE, stops |-> router.stops + 1]
  /\ keeper' = [keeper EXCEPT !.live = FALSE]
  /\ traffic' = FALSE
  /\ UNCHANGED <<setting, station>>
VehicleTalks ==
  /\ Reaches /\ ~traffic
  /\ traffic' = TRUE
  /\ UNCHANGED <<setting, router, keeper, station>>
Silence ==
  /\ station = "seen"
  /\ station' = "lost"
  /\ UNCHANGED <<setting, router, keeper, traffic>>

KeeperNext == Keeper \/ RouterUp \/ RouterDown \/ VehicleTalks \/ Silence

-----------------------------------------------------------------------------
(***************************************************************************)
(* Properties                                                              *)
(***************************************************************************)

(* In the mode that is for development, a station that PX4 has lost is     *)
(* seen again while the router runs.                                       *)
StationSeen ==
  (router.up /\ setting.mode = "always") ~> (station = "seen" \/ ~router.up)
=============================================================================
