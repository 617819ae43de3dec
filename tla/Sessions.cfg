SPECIFICATION Spec
CONSTANTS
  t1 = t1
  t2 = t2
  Threads = {t1, t2}
  None = None
  Names = {Plain, Opening}
  Plain = Plain
  Opening = Opening
  MAX_PENDING_STATES = 2
  TTL = 2
  MaxLogins = 3
  MaxSessions = 2
  MaxTime = 3
  MaxRestarts = 2
INVARIANTS
  OneSessionPerLogin
  LoggedOutStaysOut
  SurvivesUnharmed
