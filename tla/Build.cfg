SPECIFICATION Spec
CONSTANTS
  SCREEN_WIDTH = 4
  SCREEN_HEIGHT = 3
  HexDigits = 2
  IntDigits = 3
  NewLine = NewLine
  Blank = Blank
  Dot = Dot
  Letter = Letter
  NoImage = NoImage
  Starts <- MCStarts
  MaxRuns = 2
  Strings <- MCStrings
  Values <- MCValues
  Sizes = {3}
  IdentityLines = 2
  MaxTexts = 2
INVARIANTS
  TypeOK
  ScreenShowsText
  NumbersKept
PROPERTIES
  CompiledAsCounted
