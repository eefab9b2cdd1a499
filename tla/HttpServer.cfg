SPECIFICATION HttpSpec
CONSTANTS
  Cnt = 2
  MaxContents = 1
  PartMax = 2
  Lens = {0, 1, 5}
INVARIANT ReadsWithinContent
PROPERTIES ResponseEnds EverySocketServed
