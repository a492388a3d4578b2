\* Counters that wrap within one move, a switch band with an inside, and a
\* move the long way round.
SPECIFICATION FairSpec
CONSTANTS
  Counters = 6
  StopLow <- MCStopLow
  StopHigh = 3
  Half = 1
  Rises = 1
  Backlash = 1
  Coasts = {0, 1}
  Start = 2
  Goals <- MCGoals
  Seats <- MCSeats
  Narrow <- MCNarrow
  Wide = 2
  Epsilon = 2
INVARIANTS
  OneEnd
  FlagHonest
  MoveLands
PROPERTIES
  SeekEndsAtTrip
  HalfOpenReleased
  PictureFollows
