CONSTANTS
  Width = 5
  Mantissa = 3
  MaxExponent = 7
  ObjectType = 0
  TypeType = 1
  NoType = 99
  MaxByte = 2
INIT Init
NEXT Next
PROPERTIES
  NumbersExact
  RangesExact
  SlicesExact
  ListsExact
  TextsCharacterwise
  CollectionsExact
  CallsBind
  ClassesInherit
  SourcesNest
  NamesReachTheirScope
  CodeIsWhatWasCompiled
  ExpressionsRunAsWritten
CHECK_DEADLOCK FALSE
