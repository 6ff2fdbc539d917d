CONSTANTS
  Messages <- MCMessages
  MinSize = 3
  Limits = {0, 8}
  Truncate <- MCTruncate
  Char <- MCChar
  Space = 19
  Zero = 20
  Beyond = 21
SPECIFICATION Spec
INVARIANTS TruncatedNotDropped
