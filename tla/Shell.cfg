\* Five processes beside init and the shell: just enough for a pipeline of three.
\* Five files: the console, and two pipes or a pipe and two redirections.
CONSTANTS
  MAXARGS = 3
  Spelling <- MCSpelling
  MAX_HISTORY_LEN = 2
  ShowLast = 1
  Sessions <- MCSessions
  NPROC = 7
  NOFILE = 5
  NFILE = 5
  NPIPE = 2
  Tokens <- MCTokens
  MaxTokens = 5
SPECIFICATION Spec
INVARIANTS ParserSound EndsOpen Wired RecallsByNumber
PROPERTY LineFinishes
CHECK_DEADLOCK FALSE
