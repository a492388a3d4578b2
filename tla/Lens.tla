-------------------------------- MODULE Lens --------------------------------
(***************************************************************************)
(* The emulated lens controller as its drivers and the picture see it:     *)
(* serve(), _session() and ZoomOutput of                                   *)
(* src/modules/sim/scf4_emulator.py, over the zoom channel (Axis).         *)
(*                                                                         *)
(* One driver at a time is served; a second waits in the listener's        *)
(* backlog.  A driver that is killed rather than closed leaves a half-open *)
(* link behind.  After each reply the lens position is offered to the      *)
(* output as a field of view, which is written when the picture would      *)
(* visibly change and not more often than ZOOM_MAX_HZ.                     *)
(***************************************************************************)
EXTENDS Axis

CONSTANTS
  Narrow,    \* positions of the outermost framings
  Wide,
  Epsilon    \* the smallest change of picture worth writing

ASSUME PictureAssumption ==
  /\ Narrow \in Int /\ Wide \in Int /\ Narrow < Wide
  /\ Epsilon \in Nat \ {0}

VARIABLES
  link,      \* the connection served: none, to a live driver, or half-open
  waiting,   \* a driver waits in the backlog of listen(1)
  shown,     \* _last_value: the picture written last
  recent     \* it was written less than 1 / ZOOM_MAX_HZ ago

linkVars == <<link, waiting>>
outputVars == <<shown, recent>>
vars == <<axisVars, linkVars, outputVars>>

(* hfov_rad: the field of view grows with the position and is flat outside *)
(* the outermost framings.  It is named by the position that has it.       *)
Picture(p) == IF p < Narrow THEN Narrow ELSE IF p > Wide THEN Wide ELSE p

Init ==
  /\ AxisInit
  /\ link = "none"
  /\ waiting = FALSE
  /\ shown = Picture(Start)
  /\ recent = TRUE

-----------------------------------------------------------------------------
(***************************************************************************)
(* Commands and what they publish                                          *)
(***************************************************************************)

(* The picture differs visibly from the one written last. *)
Visible(p) == Magnitude(Picture(p) - shown) >= Epsilon

(* Mutant of Offer: only a lens that moves offers its picture. *)
OfferMoving ==
  IF recent \/ ~Visible(position) \/ ~Moving THEN UNCHANGED outputVars
  ELSE shown' = Picture(position) /\ recent' = TRUE

(* offer(): throttled, and silent when nothing visible changed. *)
Offer ==
  IF recent \/ ~Visible(position) THEN UNCHANGED outputVars
  ELSE shown' = Picture(position) /\ recent' = TRUE

(* _session answers one command.  No command moves the mechanism by        *)
(* itself, so what is offered is the position it has.                      *)
Answer ==
  /\ link = "live"
  /\ Command
  /\ Offer
  /\ UNCHANGED linkVars

(* A driver that only wants to know: !1, $S and the settings that change   *)
(* nothing here.                                                           *)
Poll ==
  /\ link = "live"
  /\ Offer
  /\ UNCHANGED <<axisVars, linkVars>>

Run ==
  /\ Turn
  /\ UNCHANGED <<linkVars, outputVars>>

ThrottleEnds ==
  /\ recent
  /\ recent' = FALSE
  /\ UNCHANGED <<axisVars, linkVars, shown>>

-----------------------------------------------------------------------------
(***************************************************************************)
(* The link                                                                *)
(***************************************************************************)

Dial ==
  /\ ~waiting
  /\ waiting' = TRUE
  /\ UNCHANGED <<axisVars, outputVars, link>>

(* accept().  The driver may have been killed while it waited. *)
Accept ==
  /\ link = "none"
  /\ waiting
  /\ link' \in {"live", "half-open"}
  /\ waiting' = FALSE
  /\ UNCHANGED <<axisVars, outputVars>>

(* The driver closes the link, or the link breaks with an error. *)
Close ==
  /\ link = "live"
  /\ link' = "none"
  /\ UNCHANGED <<axisVars, outputVars, waiting>>

(* The companion is killed, and nothing closes the link. *)
Kill ==
  /\ link = "live"
  /\ link' = "half-open"
  /\ UNCHANGED <<axisVars, outputVars, waiting>>

(* Mutant of IdleDrop: a silent driver keeps the lens while one waits. *)
IdleDropAlone ==
  /\ link = "half-open"
  /\ ~waiting
  /\ link' = "none"
  /\ UNCHANGED <<axisVars, outputVars, waiting>>

(* A client that has said nothing for CLIENT_IDLE_TIMEOUT_SEC is dropped. *)
IdleDrop ==
  /\ link = "half-open"
  /\ link' = "none"
  /\ UNCHANGED <<axisVars, outputVars, waiting>>

-----------------------------------------------------------------------------
Next ==
  \/ Answer
  \/ Poll
  \/ Run
  \/ ThrottleEnds
  \/ Dial
  \/ Accept
  \/ Close
  \/ Kill
  \/ IdleDrop

(* The motor turns, time passes, the server accepts, and a driver that is  *)
(* served and alive polls.  Nothing makes it command, close or be killed.  *)
Fairness ==
  /\ WF_vars(Run)
  /\ WF_vars(ThrottleEnds)
  /\ WF_vars(Poll)
  /\ WF_vars(Accept)
  /\ WF_vars(IdleDrop)

Spec == Init /\ [][Next]_vars

FairSpec == Spec /\ Fairness

-----------------------------------------------------------------------------
(***************************************************************************)
(* Properties                                                              *)
(***************************************************************************)

TypeOK ==
  /\ AxisTypeOK
  /\ link \in {"none", "live", "half-open"}
  /\ waiting \in BOOLEAN
  /\ shown \in Narrow .. Wide
  /\ recent \in BOOLEAN

(* "A half-open socket left by a companion that was killed rather than     *)
(* closed would otherwise hold the lens for good": the driver that waits   *)
(* behind one is taken from the backlog.                                   *)
HalfOpenReleased == (waiting /\ link = "half-open") ~> ~waiting

(* "The picture follows the lens": with a driver that stays, what was      *)
(* written last ends up within Epsilon of what the lens sees, although     *)
(* the throttle may withhold any value, the last of a move too.            *)
PictureFollows == <>[](link = "live" /\ ~Moving) => <>[](~Visible(position))

=============================================================================
