SPECIFICATION ClusterSpec
CONSTANTS
  a = a
  b = b
  c = c
  d = d
  Founders <- ABC
  Candidates <- OneNew
  Budgets <- Cases
  MaxMishaps = 1
ACTION_CONSTRAINT LocalFirst
ACTION_CONSTRAINT InOrder
CHECK_DEADLOCK FALSE
INVARIANT RemovalBacked
INVARIANT ViewsAgree
INVARIANT NoCallStranded
INVARIANT PersistedIsLive
INVARIANT JoinerStartsAligned
INVARIANT AdmissionsSettle
