SPECIFICATION RxSpec
CONSTANTS
  Capacity = 4
  MaxLength = 5
  MaxMessages = 2
INVARIANT RxTypeOK
PROPERTY DeliversExactly
