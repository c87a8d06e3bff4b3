SPECIFICATION MCSpec
CONSTANTS
  p1 = p1  p2 = p2  a1 = a1  a2 = a2  r1 = r1
  NoPico = NoPico  NoJob = NoJob
  Picos = {p1, p2}
  FirstPicos = {p1}
  Jobs = {a1, a2, r1}
  AtJobs = {a1, a2}
  Home <- HomeP1
  To <- HomeP1
  Due <- DueApart
  MaxTime = 2
  MaxCrashes = 1
  Ops = {"add", "remove", "clear", "delete", "crash", "import", "importState"}
CHECK_DEADLOCK FALSE
INVARIANTS TypeOK TimerIsEarliest IndexesAgree DeletedPicoHasNoJobs AtMostOncePerLife
PROPERTIES EveryFutureRuns StaleCronStops
