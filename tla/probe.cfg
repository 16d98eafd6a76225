SPECIFICATION Spec
CONSTANTS
  Answers <- MCAnswers
  Identifiers <- MCIdentifiers
  SequenceNumbers <- MCSequenceNumbers
INVARIANTS
  TypeOK
  RecordsAreTheAnswer
  PingTakesTheFirstRecord
  ChecksumHolds
  AcceptedIsTheReply
