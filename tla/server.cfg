SPECIFICATION FairSpec
CONSTANTS
  c1 = c1
  c2 = c2
  p1 = p1
  p2 = p2
  n1 = n1
  n2 = n2
  w1 = w1
  w2 = w2
  NoServer = NoServer
  Clients = {c1, c2}
  Servers = {p1, p2}
  Names = {n1, n2}
  Passwords = {w1, w2}
  MaxFds = 2
CHECK_DEADLOCK FALSE
INVARIANTS
  TypeOK
  OwnIdentity
  RegistrationKept
PROPERTIES
  Admitted
