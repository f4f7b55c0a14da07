SPECIFICATION MediaSpec
CONSTANTS
  p1 = p1
  p2 = p2
  k1 = k1
  m1 = m1
  m2 = m2
  t1 = t1
  t2 = t2
  v1 = v1
  v2 = v2
  o1 = o1
  o2 = o2
  Participants = {p1, p2}
  Passwords = {k1}
  Options <- BothProviders
  RingSize = 2
  MaxRatchets = 1
  MaxCalls = 2
  Window = 1
  Tolerance = 2
  Salt = Salt
  Empty = Empty
  None = None
  Forever = Forever
  Threads = {t1, t2}
  Mics = {m1, m2}
  MaxOf <- Ranges
  FirstMic = m1
  Whole = 4
  Wished = {0, 3}
  DefaultMax = 4
  DefaultLevel = 1
  MaxChanges = 2
  MaxStarts = 1
  Unset = Unset
  Viewers = {v1, v2}
  Choices = {o1, o2}
  FirstChoice = o1
  MaxUses = 5
  Screens = {"s1", "s2"}
  Windows = {"w1"}
  FirstScreen = "s1"
  Rates = {1, 2}
  MaxAsks = 3
  MaxWork = 2
SYMMETRY Alike
INVARIANTS
  MediaTypeOK
  SharedKeyHolds
  ValidUntilTolerance
  NoKeyIsInvented
  AgreedAtRest
  CallbackIsAlive
  CameraFollowsWish
  ScreenFollowsWish
PROPERTY
  EndedIsFinal
CHECK_DEADLOCK FALSE
