CONSTANTS
  c1 = c1
  c2 = c2
  h1 = h1
  h2 = h2
  sh1 = sh1
  Ids <- MCIds
  Hosts <- MCHosts
  Shards <- MCShards
  ShardOf <- MCShardOf
  MaxSends = 2
SPECIFICATION FairSpec
PROPERTY TeardownCompletes
CHECK_DEADLOCK FALSE
