--------------------------- MODULE MavlinkFrames ---------------------------
(***************************************************************************)
(* scripts/mavlink.py and Link.take of scripts/state.py: MAVLink frames    *)
(* found in a stream that arrives in pieces.  Bytes are numbers; the       *)
(* headers are cut down to the bytes that decide where a frame ends: the   *)
(* start, the length of the payload and, in version 2, the flags.          *)
(***************************************************************************)
EXTENDS Integers, Sequences, SequencesExt

CONSTANT Sent \* bound: how many frames a router sends

VARIABLES
  sent,  \* the frames
  fed,   \* how many bytes of them have arrived
  kept,  \* Link.buffer
  found  \* the frames that were found

StartV1 == 2
StartV2 == 3
Starts == {StartV1, StartV2}
Signed(flags) == flags = 1

(* External: frames of both versions, their payloads and checksums full of *)
(* bytes that look like starts.                                            *)
Samples ==
  {<<2, 0, 2>>, <<2, 1, 3, 0>>, <<2, 2, 2, 0, 3>>, <<3, 0, 0, 2>>, <<3, 1, 0, 3, 0>>,
   <<3, 0, 1, 2, 3>>, <<3, 2, 1, 3, 0, 0, 2>>}
Noise == {<<>>, <<0>>, <<1, 0>>}

Stream == FlattenSeq(sent)

-----------------------------------------------------------------------------
Unknown == 0
(* The whole length of the frame at i, if enough of it is there to tell.   *)
FrameLength(buffer, i) ==
  IF buffer[i] = StartV2
  THEN IF i + 2 > Len(buffer) THEN Unknown
       ELSE 3 + buffer[i + 1] + 1 + (IF Signed(buffer[i + 2]) THEN 1 ELSE 0)
  ELSE IF i + 1 > Len(buffer) THEN Unknown ELSE 2 + buffer[i + 1] + 1

(* A mutant: a frame that ends where the bytes do is passed over.          *)
IncompleteAtEnd(buffer, i) ==
  FrameLength(buffer, i) = Unknown \/ i + FrameLength(buffer, i) > Len(buffer) + 1
Incomplete(buffer, i) ==
  FrameLength(buffer, i) = Unknown \/ i + FrameLength(buffer, i) > Len(buffer)

(* A frame is confirmed by the start of the next one; until that is there, *)
(* it is read again with what comes.                                       *)
Confirmed(buffer, i) ==
  LET next == i + FrameLength(buffer, i)
  IN next <= Len(buffer) /\ buffer[next] \in Starts
Frames(buffer) ==
  LET from[i \in 1 .. Len(buffer) + 1] ==
        IF i > Len(buffer) THEN [found |-> <<>>, rest |-> i]
        ELSE IF buffer[i] \notin Starts THEN from[i + 1]
        ELSE IF Incomplete(buffer, i) THEN [found |-> <<>>, rest |-> i]
        ELSE IF ~Confirmed(buffer, i) THEN from[i + 1]
        ELSE LET next == i + FrameLength(buffer, i)
             IN [found |-> <<SubSeq(buffer, i, next - 1)>> \o from[next].found,
                 rest |-> from[next].rest]
  IN [found |-> from[1].found, rest |-> SubSeq(buffer, from[1].rest, Len(buffer))]

FramesInit ==
  /\ \E noise \in Noise, frames \in [1 .. Sent -> Samples] : sent = <<noise>> \o frames
  /\ fed = 0 /\ kept = <<>> /\ found = <<>>

(* Bytes arrive, however many the connection hands over at once.           *)
Arrive ==
  \E upto \in fed + 1 .. Len(Stream) :
    LET read == Frames(kept \o SubSeq(Stream, fed + 1, upto))
    IN /\ fed' = upto
       /\ found' = found \o read.found /\ kept' = read.rest
       /\ UNCHANGED sent

-----------------------------------------------------------------------------
(* What is found are the frames that were sent, in order, each as soon as  *)
(* the next one begins to arrive, in whatever pieces the bytes come.       *)
FramesWhole ==
  LET arrived(n) == Len(FlattenSeq(SubSeq(sent, 1, n + 1)))
  IN /\ found = SubSeq(Tail(sent), 1, Len(found))
     /\ \A n \in 1 .. Len(sent) - 1 : arrived(n) < fed => Len(found) >= n
=============================================================================
