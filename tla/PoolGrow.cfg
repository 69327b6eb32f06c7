SPECIFICATION MCSpec
CONSTANTS
  a1 = a1  a2 = a2  a3 = a3  a4 = a4
  r1 = r1  r2 = r2  r3 = r3
  Acquirers = {a1, a2, a3}
  Resources = {r1, r2, r3}
  Faulty = {r1, r2}
  InitIdle = {r1}
  MaxSize = 2
  MaxPending = 0
  Overflow = "Reject"
  Strategies = {"Reject", "Block"}
  HasProvisioner = TRUE
  NoResource = NoResource
  MaxUnannounced = 2
INVARIANTS PermitsConserved ExclusiveLease TotalExact
