SPECIFICATION FairSpec
CONSTANTS
  MaxTickers = 3
  Callers = {post, api}
  Post = post
INVARIANTS
  TickerInv
  SingleFlight
PROPERTY
  ClosedLoopEnds
