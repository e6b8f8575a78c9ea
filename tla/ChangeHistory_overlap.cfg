SPECIFICATION Spec
CONSTANTS
  p = p  q = q  e = e  k = k  drafts = drafts  trash = trash  keep = keep  clear = clear
  none = none  nowhere = nowhere  nosnap = nosnap  a = a  b = b
  Thing = {p}
  Entry = {e}
  Collection = {k}
  Drafts = drafts
  Trash = trash
  Keep = keep
  Clear = clear
  NoThing = none
  NoCollection = nowhere
  Seeds <- OneOrNone
  Parents <- ParentsOfOne
  Caller = {a, b}
  NoSnap = nosnap
  Window = 0
  Retention = 0
  MaxNow = 0
  MaxCommands = 3
SYMMETRY CallersAlike
CHECK_DEADLOCK FALSE
INVARIANT UndoTakesBack
INVARIANT MarkedIsUndone
