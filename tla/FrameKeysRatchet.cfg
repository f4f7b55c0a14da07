SPECIFICATION KeysSpec
CONSTANTS
  p1 = p1
  p2 = p2
  k1 = k1
  Participants = {p1, p2}
  Passwords = {k1}
  Options <- BothProviders
  RingSize = 2
  MaxRatchets = 1
  MaxCalls = 3
  Window = 1
  Tolerance = 2
  Salt = Salt
  Empty = Empty
  None = None
  Forever = Forever
SYMMETRY Alike
INVARIANTS
  RatchetIsFollowed
CHECK_DEADLOCK FALSE
