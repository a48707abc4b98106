\* Blocks of two fields, URIs of up to ten characters, short status lines.
SPECIFICATION Spec
CONSTANTS
  Digits <- BinaryDigits
  Lower <- OneLetter
  PortModulus = 4
  StatusModulus = 4
  LongModulus = 8
  Characters <- CharactersOf
  Beginnings <- BeginningsOf
  Bounded <- SmallTexts
INVARIANTS
  FieldsAsWritten
  StartLinesAsWritten
CHECK_DEADLOCK FALSE
