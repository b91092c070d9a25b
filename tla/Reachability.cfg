SPECIFICATION MCSpec
CONSTANTS
  Sweeps = {s1}
  Checks = {c1}
  Rules <- AllRules
  MaxClock = 6
  MaxFlips = 4
  MaxWindows = 1
  MaxAcks = 1
  MaxChecks = 1
  MaxDeaths = 1
  ShortClock = 3
  FewFlips = 3
  Company = Company
  Another = Another
  Honeypot = Honeypot
  Polls = {p1, p2}
  Window = 2
  MaxMinutes = 5
  MaxEvents = 4
  Tasks = {t1, t2}
  MaxDate = 2
  MaxStarts = 2
  MaxChanges = 3
  MaxTold = 2
  Honeypots = {Honeypot}
  Companies = {Company}
  MemberOf <- InCompany
  Channels = {"email", "gotify", "telegram"}
  Edits = {e1, e2}
  NoRule = NoRule
  Gone = Gone
  MaxEdits = 3
  Targets = {Honeypot}
  Owners = {Company, Another}
  Forms <- SomeWindows
  Requests = {q1, q2}
  NoWindow = NoWindow
  Deleted = Deleted
  MaxDays = 2
  MaxRequests = 3
  MaxMoves = 1
INVARIANTS OncePerOutage AckEndsWithOutage
  CountsAreHonest HealthToldOnce PushesAreComplete EndedIsOver
 
CHECK_DEADLOCK FALSE
