SPECIFICATION Spec
CONSTANTS
  CommandLines <- WrongLines
  Number <- MCNumber
  SignedWords <- MCSigned
  Duration <- MCDuration
  DashedWords <- MCDashed
  DefaultTimeout = 5
  MaxPacketCap = 100
  PidCount = 100
INVARIANTS
  UsageExitsWithTwo
