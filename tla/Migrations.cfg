\* The server and a command beside it, files of every version, three starts.
CONSTANTS
  server = server
  ctl = ctl
  Process = {server, ctl}
  MaxStart = 3
SPECIFICATION FairSpec
INVARIANTS VersionIsTrue FailsOnlyDisturbed
PROPERTIES UpgradeHappens
CHECK_DEADLOCK FALSE
