CONSTANTS
  SEP = SEP
  NUL = NUL
  None = None
  Symbols <- MCSymbols
  Upper <- MCUpper
  Hops = 2
  Nick <- MCNick
  Foreign = {1}
  Spellings <- MCSpellings
  Texts <- MCTexts
  Flips <- MCFlips
  MaxLoss = 1
  MaxText = 3
SPECIFICATION Spec
INVARIANTS
  AckMeansIntact
  DeliveredUnlessCut
  OnlyControleChanges
  ForwardedAsRead
\* The message is concluded in the end.
CHECK_DEADLOCK FALSE
