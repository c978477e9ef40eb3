SPECIFICATION JournalSpec
CONSTANTS
  NULL = NULL
  Recipe <- Steps
  Logged <- Logs
  Day = {0, 2, 3, 6}
  Draft <- Payloads
  Dates = {"2027-01-01"}
  Wide = 8
CHECK_DEADLOCK FALSE
INVARIANTS AsIfStampedAnew VerdictAsDeclared BottlingReads
PROPERTIES OnTimeMovesNothing ReflowedFromActual
