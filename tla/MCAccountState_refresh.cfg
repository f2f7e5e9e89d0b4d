SPECIFICATION Spec
CONSTANTS
  Requests = {r1}
  Refreshers = {t}
  Admins = {}
  Objects <- MCObjects
  NoObject = noObject
  Marks = {m1, m2}
  NoMark = noMark
  NoRecord = noRecord
  LimitsByModel = FALSE
PROPERTIES RefreshKeepsMark
