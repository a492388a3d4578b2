------------------------------ MODULE BoxRows ------------------------------
(***************************************************************************)
(* verify/component/uas.py, `record` and `published --named`: rows that    *)
(* join the boxes of a frame with the scorer's verdict on them.  Frames    *)
(* and verdicts arrive on topics of their own, in any order; the scorer    *)
(* repeats its last verdict.  A box that was localized gets a row, named   *)
(* by the verdict on its frame, if that was heard, or else by the casualty *)
(* that lies nearest.                                                      *)
(***************************************************************************)
EXTENDS Integers, Sequences, FiniteSets, SequencesExt

CONSTANTS
  Frames, \* bound: the frames that are published, stamped 1 .. Frames
  Depth,  \* JUDGED_DEPTH
  Wait,   \* VERDICT_WAIT_S
  Window  \* --seconds

VARIABLES
  asked,   \* the command
  phase,
  clock,
  judged,  \* Casualties.judged, oldest first
  pending, \* frames that have no row yet
  rows,    \* the frames that were written, each with its rows
  came,    \* history: when each frame came
  heardAt  \* history: when each frame's verdict was heard first

rowsVars == <<asked, phase, clock, judged, pending, rows, came, heardAt>>

Stamps == 1 .. Frames
Boxes == {0, 1}
Never == -1
End == Window + Wait + (IF asked = "record" THEN 1 ELSE 0)

(* External: the scorer places both boxes of a frame, or, in an even frame, only the *)
(* second, in a list that is numbered by the frame.                        *)
Verdict(stamp) ==
  IF stamp % 2 = 0 THEN <<[index |-> 1, stamp |-> stamp]>>
  ELSE <<[index |-> 0, stamp |-> stamp], [index |-> 1, stamp |-> stamp]>>

(* A box of the last frame was not localized by any means.                 *)
Localized(stamp) == IF stamp = Frames THEN {1} ELSE Boxes

-----------------------------------------------------------------------------
(* A mutant: keyed on the verdict's own place in the list.                 *)
ByIndexPlace(stamp, index) ==
  {Verdict(stamp)[i] : i \in {j \in DOMAIN Verdict(stamp) : j = index + 1}}
ByIndex(stamp, index) == {v \in Range(Verdict(stamp)) : v.index = index}

Of(stamp, index) ==
  LET verdict == IF Contains(judged, stamp) THEN ByIndex(stamp, index) ELSE {}
  IN [stamp |-> stamp, index |-> index,
      held |-> Contains(judged, stamp), citing |-> verdict]

RowsOf(stamp) ==
  [stamp |-> stamp, boxes |-> {Of(stamp, index) : index \in Localized(stamp)}]

(* The frames at the head that have waited; no more of them than these.    *)
Waited(after, stamp) == clock - came[stamp] >= after
(* A mutant: what is left at the end has to be ripe too.                   *)
RipeOnly(after) ==
  CHOOSE n \in 0 .. Len(pending) :
    /\ \A i \in 1 .. n : Waited(Wait, pending[i])
    /\ n = Len(pending) \/ ~Waited(Wait, pending[n + 1])
Ripe(after) ==
  CHOOSE n \in 0 .. Len(pending) :
    /\ \A i \in 1 .. n : Waited(after, pending[i])
    /\ n = Len(pending) \/ ~Waited(after, pending[n + 1])

Flush(after) ==
  /\ rows' = rows \o [i \in 1 .. Ripe(after) |-> RowsOf(pending[i])]
  /\ pending' = SubSeq(pending, Ripe(after) + 1, Len(pending))

-----------------------------------------------------------------------------
RowsInit ==
  /\ asked \in {"record", "named"}
  /\ phase = IF asked = "record" THEN "prepare" ELSE "collect"
  /\ clock = 0
  /\ judged = <<>> /\ pending = <<>> /\ rows = <<>>
  /\ came = [s \in Stamps |-> Never] /\ heardAt = [s \in Stamps |-> Never]

(* The ground truth, the poses and a speed are waited for, not for ever.   *)
Prepared ==
  /\ phase = "prepare" /\ phase' = "collect"
  /\ UNCHANGED <<asked, clock, judged, pending, rows, came, heardAt>>

(* A verdict, again or for the first time; the oldest is forgotten.        *)
OnVerdicts ==
  \E s \in Stamps :
    /\ \/ heardAt[s] = Never
       \/ judged # <<>> /\ s = Last(judged)
    /\ LET kept == IF Contains(judged, s) THEN judged ELSE Append(judged, s)
       IN judged' = IF Len(kept) > Depth THEN Tail(kept) ELSE kept
    /\ heardAt' = [heardAt EXCEPT ![s] = IF @ = Never THEN clock ELSE @]
    /\ UNCHANGED <<asked, phase, clock, pending, rows, came>>

Collect ==
  /\ phase \in {"collect", "close"}
  /\ \E s \in Stamps :
       /\ came[s] = Never
       /\ came' = [came EXCEPT ![s] = clock]
       /\ pending' = Append(pending, s)
  /\ UNCHANGED <<asked, phase, clock, judged, rows, heardAt>>

RowTimer ==
  /\ asked = "record" /\ phase \in {"collect", "close"}
  /\ Ripe(Wait) > 0 /\ Flush(Wait)
  /\ UNCHANGED <<asked, phase, clock, judged, came, heardAt>>

Close ==
  /\ phase = "collect" /\ clock >= Window /\ phase' = "close"
  /\ UNCHANGED <<asked, clock, judged, pending, rows, came, heardAt>>

(* What is left is written, however long it has waited.                    *)
Finish ==
  /\ phase = "close" /\ clock >= End /\ phase' = "done"
  /\ Flush(0)
  /\ UNCHANGED <<asked, clock, judged, came, heardAt>>

Tick ==
  /\ phase \in {"collect", "close"} /\ clock < End
  /\ clock' = clock + 1
  /\ UNCHANGED <<asked, phase, judged, pending, rows, came, heardAt>>

RowsNext ==
  \/ phase # "done" /\ (OnVerdicts \/ Tick)
  \/ Prepared \/ Collect \/ RowTimer \/ Close \/ Finish

-----------------------------------------------------------------------------
(***************************************************************************)
(* Properties                                                              *)
(***************************************************************************)
Newer(row) == {s \in Stamps : heardAt[s] >= heardAt[row.stamp]} \ {row.stamp}

(* A row cites the verdict on its own box of its own frame, and has one    *)
(* when the scorer judged a frame of the window within VERDICT_WAIT_S of   *)
(* its coming, unless JUDGED_DEPTH others were judged since.               *)
NamedByScorer ==
  \A frame \in Range(rows) : \A row \in frame.boxes :
    /\ \A v \in row.citing : v.index = row.index /\ v.stamp = row.stamp
    /\ /\ came[row.stamp] <= Window
       /\ heardAt[row.stamp] \in 0 .. came[row.stamp] + Wait - 1
       /\ Cardinality(Newer(row)) < Depth
       => row.held

(* No frame is written twice or left out, late verdicts or not.            *)
EachFrameOnce ==
  phase = "done" =>
    \A s \in Stamps :
      LET written == {i \in DOMAIN rows : rows[i].stamp = s}
      IN IF came[s] = Never THEN written = {} ELSE \E i \in written : written = {i}
=============================================================================
