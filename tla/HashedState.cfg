\* What hlist_del leaves behind
SPECIFICATION BothSpec
CONSTANTS
  NULL = NULL
  LIST_HEAD = {l1}
  Bucket = {h1, h2}
  Entry = {a, b}
PROPERTIES
  DeletedStaysHashed
