\* Bodies of a chunk and the last one; sizes of three digits wrap.
SPECIFICATION Spec
CONSTANTS
  Base = 2
  Modulus = 4
  MaxLength = 12
  MaxRepeat <- DigitsTwice
INVARIANTS
  TypeOK
  VerdictIsRight
CHECK_DEADLOCK FALSE
