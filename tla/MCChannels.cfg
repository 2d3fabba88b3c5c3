CONSTANTS
  CHANNEL_CAP = 2
  MaxBank = 2
  Session = {s1, s2, s3, s4}
  Dark = Dark
SPECIFICATION Spec
SYMMETRY Sessions
INVARIANTS
  TypeOK
  AirStands
  NothingHangs
PROPERTIES
  SessionsStayPut
  FlinchLaw
  ImplementsBoard
