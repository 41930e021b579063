\* One signal, under the fairness of the other runs, is enough to hang the process.
SPECIFICATION FairSpec
CONSTANTS
  ward1 = ward1
  ward2 = ward2
  Main = Main
  LogWorker = LogWorker
  StaffWorker = StaffWorker
  ServerThread = ServerThread
  Nobody = Nobody
  Channel = {ward1}
  Signals = {"SIGINT"}
  Permits = 1
  ReportInterval = 1
PROPERTIES
  SignalClearsRunning
CHECK_DEADLOCK TRUE
