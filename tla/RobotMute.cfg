\* Two pages and two acts on them, one publish, one of the cameras beyond the array,
\* a restart.  Publishing threads share nothing but what they read.
SPECIFICATION Spec
CONSTANTS
  browser1 = browser1
  browser2 = browser2
  Page = {browser1, browser2}
  Cells = 3
  MAX_CHANNEL_NUM = 3
  Camera = {1, 3}
  StaffReporter = StaffReporter
  MaxActs = 2
  MaxPublishes = 1
  MaxRestarts = 1
INVARIANTS
  TypeOK
  AnswerShowsServer
  OutcomeHasReason
\* Nobody has to click, and the program only answers.
CHECK_DEADLOCK FALSE
