SPECIFICATION Spec
CONSTANTS
  Commands <- MCCommands
  Results <- MCResults
  Documents <- AllDocuments
  Careless = {"usage", "about"}
  Wildcards <- MCWildcards
INVARIANTS
  TypeOK
  CutButNotHoled
  ToldIfCut
  TellsTheResult
