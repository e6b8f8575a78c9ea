SPECIFICATION PathSpec
CONSTANTS
  p = p  q = q  e = e  k = k  drafts = drafts  trash = trash
  keep = keep  clear = clear  none = none  nowhere = nowhere
  Thing = {p, q}
  Entry = {e}
  Collection = {k}
  Drafts = drafts
  Trash = trash
  Keep = keep
  Clear = clear
  NoThing = none
  NoCollection = nowhere
  MaxMade = 1
SYMMETRY ThingSymmetry
INVARIANT Inductive
INVARIANT RoundTrip
INVARIANT RestoreReaches
PROPERTY ThingsStay
