SPECIFICATION NDPSpec
CONSTANTS
  MaxNofRegs = 3
  Values = {0, 1}
  Negated <- MCNegated
  Combined <- MCCombined
  Empty = Empty
  Fault = Fault
  MaxPending = 5
  MaxSkipped = 1
INVARIANTS NDPTypeOK CountersAgree HeldInOrder
PROPERTY ImplementsStack
