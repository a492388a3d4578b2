--------------------------- MODULE MCVideoSwitch ---------------------------
(***************************************************************************)
(* Instances of VideoSwitch for TLC.                                       *)
(***************************************************************************)
EXTENDS VideoSwitch

(* Three cameras; the two narrow ones render at a size of their own. *)
MCWidth == [i \in Framings |-> <<6, 3, 1>>[i + 1]]
MCPixelSize == [i \in Framings |-> IF i = 1 THEN "small" ELSE "full"]

=============================================================================
