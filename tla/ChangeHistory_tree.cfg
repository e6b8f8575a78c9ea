SPECIFICATION Spec
CONSTANTS
  p = p  q = q  e = e  k = k  drafts = drafts  trash = trash  keep = keep  clear = clear
  none = none  nowhere = nowhere  nosnap = nosnap  a = a  b = b
  Thing = {p, q}
  Entry = {e}
  Collection = {}
  Drafts = drafts
  Trash = trash
  Keep = keep
  Clear = clear
  NoThing = none
  NoCollection = nowhere
  Seeds <- Both
  Parents <- ParentsOfTwo
  Caller = {a}
  NoSnap = nosnap
  Window = 0
  Retention = 0
  MaxNow = 1
  MaxCommands = 3
CHECK_DEADLOCK FALSE
INVARIANT TypeOK
INVARIANT UndoTakesBack
INVARIANT EveryChangeLogged
INVARIANT YoungKeepSnapshots
