CONSTANTS
  FifoCap = 2
  StartAddrs <- MCStartAddrs
  MaxQwc = 3
  MaxSuspends = 1
SPECIFICATION FairSpec
INVARIANTS TypeOK WrittenContiguous StallReleasesAll StallNeverAhead
PROPERTY TransferCompletes
