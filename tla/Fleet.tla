------------------------------- MODULE Fleet -------------------------------
(***************************************************************************)
(* What a vehicle's number decides: scripts/fleet.sh.                      *)
(*                                                                         *)
(* A fleet is an ordered list of airframes, of which only the length       *)
(* matters here.  A vehicle is its place in that list; its number is its   *)
(* place above UAS_BASE, which is 0 for the real fleet and SimBase for the *)
(* simulated one.  A setting names vehicles by words.                      *)
(***************************************************************************)
EXTENDS Integers

SimBase == 10
Bases == {0, SimBase}

(* The largest fleet the numbering has room for. *)
MostVehicles == 9

Simulated(base) == base >= 10

(* fleet_numbers *)
FleetNumbers(base, count) == base + 1 .. base + count

(* A word that is no number, or 0, stands for every word that can name     *)
(* nothing; 0 is also what fleet_number answers for it, where the shell    *)
(* function fails.                                                         *)
Nobody == 0

(* Mutant of FleetNumber: only the simulator reads a simulator number. *)
FleetNumberOwnWorld(word, base, count) ==
  IF word \in 1 .. count THEN base + word
  ELSE IF word \in base + 1 .. base + count THEN word
  ELSE Nobody

(* fleet_number: a word is a real number or a simulator number, and means  *)
(* the same vehicle in either world.                                       *)
FleetNumber(word, base, count) ==
  IF word \in 1 .. count THEN base + word
  ELSE IF word \in 11 .. 10 + count THEN base + word - 10
  ELSE Nobody

(* real_number *)
RealNumber(number, base) == number - base

(* unknown_active_words *)
Unknown(words, base, count) ==
  {w \in words : FleetNumber(w, base, count) = Nobody}

(* active_uas: an empty setting selects the whole fleet, words that name   *)
(* nobody select nobody.                                                   *)
ActiveUas(words, base, count) ==
  IF words = {} THEN FleetNumbers(base, count)
  ELSE {n \in FleetNumbers(base, count) :
          \E w \in words : FleetNumber(w, base, count) = n}

(* mosaic_uas: a vehicle that is not flying paints no mosaic. *)
MosaicUas(word, words, base, count) ==
  LET n == FleetNumber(word, base, count)
  IN IF n \in ActiveUas(words, base, count) THEN n ELSE Nobody

-----------------------------------------------------------------------------
(***************************************************************************)
(* Ports, domains and addresses                                            *)
(***************************************************************************)
UasDomain(n) == 60 + n
GroundDomain(base) == 60 + base
UasGcsPort(n) == 14550 + n
UasTcpPort(n, base) == IF Simulated(base) THEN 5750 + n ELSE 5760
UasFoxglovePort(n, base) == IF Simulated(base) THEN 8760 + n ELSE 8765

(* The last byte of a vehicle's address; slot 0 is the ground station. *)
UasAddress(n, base) == IF Simulated(base) THEN 200 + n ELSE 60 + n
GroundAddress(base) == UasAddress(0, base)

(* The ground station's own Foxglove bridge, in either world. *)
GroundFoxglove == 8765

=============================================================================
