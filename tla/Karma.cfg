SPECIFICATION Spec
CONSTANTS
  u1 = u1
  u2 = u2
  u3 = u3
  u4 = u4
  Users = {u1, u2, u3, u4}
  NoUser = NoUser
  InitialUsers = {u1, u2}
  OpeningBalances <- MCOpening
  Workloads <- MCWorkloads
INVARIANTS
  TypeOK
  DebtsAreHonoured
  CompletionIsEarned
  LivesAreLinked
  AuditsAgree
PROPERTY AccountsAreKept
CHECK_DEADLOCK FALSE
