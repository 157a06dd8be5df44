CONSTANTS
  a = a  b = b  f1 = f1
  None = None  Comp = Comp  All = All
  Jobs = {a, b}
  Alone = {a}
  Roots = {a}
  Shared = {b}
  Unlocks <- Chain
  Declared <- Classes
  Override <- Asks
  Followers = {f1}
  Key <- Keys
  MaxQueue = 1
  MaxHistory = 1
  MaxExtra <- Chatter
  MaxFailures = 1
  MaxRestarts = 1
SPECIFICATION Spec
INVARIANTS WaiterHasRecord TailOfJournal NothingAfterTheEnd
CHECK_DEADLOCK FALSE
