SPECIFICATION Spec
CONSTANTS
  Papers = {1, 2, 3}
  Shards = 2
  MaxRelease = 2
  MaxChanges = 1
INVARIANTS TypeOK CorpusComesBack UpdatesAreForward ShardsCombine
PROPERTY MergesKeepCorpus
