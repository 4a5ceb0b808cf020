SPECIFICATION Spec
CONSTANTS
  q1 = q1
  q2 = q2
  Lookup = {q1, q2}
  Limiter = {"admin", "rtc"}
  Client = {"ann"}
  ApiKey = {"vk"}
  NoKey = NoKey
  Static = Static
  Wrong = Wrong
  Cost = 3
  Rate <- MCRate
  Burst <- MCBurst
  IdleTTL = 2
  CacheTTL = 2
  Timeout = 1
  MaxClock = 3
INVARIANTS TypeOK WithinWindow ThrottledOnlyWhenSpent GuessesBounded JoinsPayTwice
PROPERTY RevokedInTime
SYMMETRY MCSymmetry
CHECK_DEADLOCK FALSE
