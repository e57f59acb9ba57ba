CONSTANTS
  CONTENT_SIZE = 2
  MAX_LINE_NUM = 2
  TabWidth = 2
  Letters = {"a", "b"}
  MaxNodes = 5
  MaxText = 4
  Files <- AllFiles
  p1 = p1
  p2 = p2
SPECIFICATION PSpec
CHECK_DEADLOCK FALSE
CONSTRAINT Followed
INVARIANTS  HeapTiled ParseExact PlumbingExact NeverStuck EnvExact
PROPERTIES SleepExact
