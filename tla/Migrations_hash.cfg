\* One process, opening the file of an old release.
CONSTANTS
  server = server
  ctl = ctl
  Process = {server}
  MaxStart = 2
SPECIFICATION Spec
INVARIANTS PasswordsMigrated
CHECK_DEADLOCK FALSE
