SPECIFICATION FairSpec
CONSTANTS
  Readers = {r1, r2}
  Writers = {w}
  Clearers = {c}
  Calls = 2
INVARIANTS TypeOK OnlyClearInvalidates
PROPERTIES IsMemoCell CallsReturn
