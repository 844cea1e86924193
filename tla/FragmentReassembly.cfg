\* Groups sent again over a network that keeps the order and may lose a fragment.
SPECIFICATION FairSpec
CONSTANTS
  Pieces <- ThreeMessages
  BufSize = 4
  InOrder = TRUE
  MaxLost = 1
  MaxResent = 2
INVARIANTS
  OnlyWholeMessages
  WireRoundTrip
PROPERTY
  AllAssembled
CHECK_DEADLOCK FALSE
