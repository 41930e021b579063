\* One channel, a SIGINT and a SIGTERM on any threads, leftovers of an earlier run.
SPECIFICATION FairSpec
CONSTANTS
  ward1 = ward1
  ward2 = ward2
  Main = Main
  LogWorker = LogWorker
  StaffWorker = StaffWorker
  ServerThread = ServerThread
  Nobody = Nobody
  Channel = {ward1}
  Signals = {"SIGINT", "SIGTERM"}
  Permits = 1
  ReportInterval = 1
INVARIANTS
  OneInLog
  PermitsStartFull
  EndsAfterWorkers
PROPERTIES
  SignalEndsProcess
CHECK_DEADLOCK TRUE
