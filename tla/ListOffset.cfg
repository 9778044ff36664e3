\* A server whose clock is not set to UTC: cursors are off.
SPECIFICATION SuiteSpec
CONSTANTS
  Parts = {"list"}
  Shift = 1
  login = login
  chat = chat
  Buckets = {login, chat}
  Allowance <- SmallAllowance
  Period <- SmallPeriod
  TicksPerSecond = 2
  SweepEvery = 3
  IdleAfter = 4
  MaxTime = 10
  w1 = w1
  w2 = w2
  red = red
  blue = blue
  green = green
  r1 = r1
  shoes = shoes
  c1 = c1
  c2 = c2
  None = None
  Writers = {w1, w2}
  Values = {red, blue, green}
  TypedLimit = 2
  MemoryLimit = 2
  Plans <- SmallPlans
  Products = {1, 2, 3}
  Raw <- SmallRaw
  Limit = 1
  Reviews = {r1}
  ProductOf <- SmallProductOf
  Questions <- SmallQuestions
  Asked <- SmallAsked
  Calls = 2
  MaxTurns = 2
  Conversations = {c1, c2}
  Rows = {1, 2, 3}
  PageSize = 1
  MaxClock = 2
  MaxInFlight = 1
INVARIANTS
  NoRowTwice
CHECK_DEADLOCK FALSE
