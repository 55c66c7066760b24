SPECIFICATION BothSpec
CONSTANTS
  NULL = NULL
  LIST_HEAD = {l1, l2}
  Bucket = {h1, h2}
  Entry = {a, b, c, d}
INVARIANTS
  WalksAgree
  OffListEntriesHarmless
  TestsAgree
  BucketsAgree
  NodeTestsAgree
