SPECIFICATION Spec
CONSTANTS
  MaxParams = 3
  MaxCtcp = 4
  Chars <- MCChars
  OwnWords <- MCOwnWords
  MaxText = 4
  MaxOwn = 3
  Digit <- MCDigit
  MaxColor = 15
  MircPieces <- MCMircPieces
  TagPieces <- MCTagPieces
  ColorTags <- MCColorTags
  MaxDraft = 5
INVARIANT SentAsAsked
INVARIANT RelayedAsAsked
INVARIANT ToldAsSaid
INVARIANT ConvertedFits
INVARIANT FormatsKept
INVARIANT TagsKept
