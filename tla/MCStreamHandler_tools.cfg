SPECIFICATION Spec
CONSTANTS
  write = write
  write2 = write2
  read = read
  foreign = foreign
  hello = hello
  plain = plain
  tagged = tagged
  Tools <- MCTools
  NoTool = noTool
  Verdict <- MCVerdict
  DedupKey <- MCDedupKey
  NoKey = noKey
  NeedsInput <- MCNeedsInput
  Ids = {1, 2}
  Texts <- MCTexts
  NoText = noText
  Intro <- MCIntro
  Marker <- MCMarker
  Rest <- MCRest
  ErrorText = errorText
  Piece = piece
  Dialects = {"puter"}
  Never = 99
  Modes <- MCModes
  MaxEvents <- MCMaxEvents
  MaxRounds = 2
INVARIANTS ToolIndexesApart
CHECK_DEADLOCK FALSE
