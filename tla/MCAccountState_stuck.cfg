SPECIFICATION Spec
CONSTANTS
  Requests = {r1, r2}
  Refreshers = {}
  Admins = {}
  Objects <- MCObjects
  NoObject = noObject
  Marks = {m1, m2}
  NoMark = noMark
  NoRecord = noRecord
  LimitsByModel = FALSE
INVARIANTS NeverStuck
