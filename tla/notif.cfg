SPECIFICATION Spec
CONSTANTS
  Notices = {1, 2}
  Emailed = {1}
  Writers = {w1, w2}
  MinuteLength = 2
  MaxClock = 1
  MaxWrites = 2
  FaultKinds = {"crash", "mongo", "sendgrid", "token", "break", "online", "reload", "poll", "poison"}
  MaxFaults = 2
  Tabs = {t1, t2}
  Conns = {c1, c2}
  Batch = 1
INVARIANTS TypeOK MailedOncePerMinute ShownOnce NothingSkipped
CHECK_DEADLOCK FALSE
SYMMETRY Symmetry
