CONSTANTS
  Bytes = 4
  PageBytes = 4
  BlockBytes = 2
  Frames = 4
  Steals = 1
  PcBreaks = FALSE
  Programs <- All
SPECIFICATION FairSpec
INVARIANT TypeOK
PROPERTY Transparent
