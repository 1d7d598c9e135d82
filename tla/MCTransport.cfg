SPECIFICATION FairSpec
CONSTANTS
  Interfaces = {"sg", "sgio", "cooked"}
  ErrorRetry = {TRUE, FALSE}
  Nsectors = 2
  MAX_RETRIES = 6
  Begins = {0, 1}
  MaxAsked = 3
  Lengths = {1, 3}
  MaxQueued = 2
  MaxSignals = 1
  MaxUnready = 1
INVARIANTS TypeOK OwnData TriesBounded MediumLossReported
PROPERTY CallReturns
