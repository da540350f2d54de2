CONSTANTS
  c1 = c1
  c2 = c2
  Caller = {c1, c2}
  TTL = 2
  MaxTime = 5
SPECIFICATION FairSpec
INVARIANTS
    TypeOK
    OneFetch
    ReadsAreHonest
PROPERTY
    NobodyIsStuck
