SPECIFICATION Spec
CONSTANTS
  Requests = {r1}
  Refreshers = {}
  Admins = {d}
  Objects <- MCObjects
  NoObject = noObject
  Marks = {m1, m2}
  NoMark = noMark
  NoRecord = noRecord
  LimitsByModel = TRUE
PROPERTIES NotSelectedOnceExpired RevivedOnlyByOverlap
SYMMETRY MCSymmetry
