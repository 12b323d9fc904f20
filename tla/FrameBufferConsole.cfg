CONSTANTS
  Widths = {30}
  Heights = {64, 73}
  MaxText = 2
  MaxDepth = 2
SPECIFICATION FairSpec
INVARIANTS TypeOK GlyphsStayOnScreen ForegroundComesBack
PROPERTIES PrintedIsOnScreen InterruptsAreKept WritesReturn
