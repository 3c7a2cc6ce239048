CONSTANTS
  c1 = c1  c2 = c2  s1 = s1  s2 = s2  q1 = q1  q2 = q2  x1 = x1  x2 = x2  h1 = h1
  None = None
  Callers = {c1, c2}
  Servers = {s1, s2}
  ServerOf <- TwoServers
  Requests = {q1, q2}
  Hosts = {h1}
  Challenges = {x1}
  MaxGen = 2
SPECIFICATION FairSpec
CHECK_DEADLOCK FALSE
INVARIANTS
  TypeOK
  ExposedHostsBlocked
  CredentialsToTheirProxy
  NoCredentialLeft
PROPERTIES
  OnlyOwnerClears
  EveryPauseAnswered
