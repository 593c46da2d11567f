CONSTANTS
  Absent = Absent
  Malformed = Malformed
  NotObject = NotObject
  NoJob = NoJob
  stress = stress
  bow = bow
  kelvin = kelvin
  todo = todo
  unnamed = unnamed
  K = K
  C = C
  none = none
  null = null
  word = word
  numeral = numeral
  number = number
  nan = nan
  infinite = infinite
  EvidenceId = {1, 2}
  MeasurementId = {1, 2}
  RecordId = {1}
  Quantity = {stress, bow, kelvin, todo, unnamed}
  KindQuantity = {kelvin}
  Stress = stress
  Bow = bow
  Todo = todo
  Unnamed = unnamed
  Unit = {K, C}
  NoUnit = none
  Value = {null, word, numeral, number, nan, infinite}
  Null = null
  JsonNumber = {number, nan, infinite}
  Decimal = {numeral, number, nan, infinite}
  Undefined <- MCUndefined
  Registered <- MCRegistered
  Convertible = {numeral, number}
  Beginnings <- MCBeginnings
  MaxChanges = 3
SPECIFICATION Spec
INVARIANTS ReadersConcur ScreenedIsReviewed LearningBacked
PROPERTIES CommandsPromoteNothing
CHECK_DEADLOCK FALSE
