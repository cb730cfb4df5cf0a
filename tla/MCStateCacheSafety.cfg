SPECIFICATION Spec
CONSTANTS
  Readers = {poll, card}
  Missing = Missing
  Live = Live
  Values = {v1, v2}
  Writers = {w1, w2}
  MaxPush = 1
  MaxChanges = 1
SYMMETRY Symmetry
INVARIANTS  NothingInvented
