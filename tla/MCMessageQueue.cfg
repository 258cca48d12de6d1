CONSTANTS
  Msg = {m1, m2, m3}
  NoMsg = NoMsg
  Capacity = 3
SPECIFICATION Spec
INVARIANTS
  TypeOK
  CursorsAgree
  ValidSlotsWritten
PROPERTY ImplementsFifo
