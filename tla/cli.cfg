SPECIFICATION Spec
CONSTANTS
  CommandLines <- MCCommandLines
  Number <- MCNumber
  SignedWords <- MCSigned
  Duration <- MCDuration
  DashedWords <- MCDashed
  DefaultTimeout = 5
  MaxPacketCap = 100
  PidCount = 100
INVARIANTS
  TypeOK
  AcceptsTheGrammar
  UsageErrorsAreInert
  StdoutIsTheResult
  OneErrorLine
  CancelWins
PROPERTIES
  AlwaysEnds
  InterruptEnds
