\* Start-up and background refresh at once, with leases of every length.
SPECIFICATION FairSpec
CONSTANTS
  Leases = {0, 5, 9}
  DefaultLease = 8
  Margin = 6
  Timeout = 2
  CacheTTL = 2
  MaxRotations = 2
  MaxFaults = 2
  NoVersion = NoVersion
  NoToken = NoToken
INVARIANTS
  TypeOK
  ReadsOutliveNoToken
PROPERTIES
  ShowsVersions
  RotationArrives
