\* One product, indexed between its activation and the archive of its category.
SPECIFICATION CatalogSpec
CONSTANTS
  Listed = {1}
  PageSize = 1
  Bootstrap = i0
  Fresh = {i1, i2}
  Runners = {r1, r2}
  Workers = {w1}
  MaxChanges = 1
  MaxFails = 1
  MaxLate = 1
  Categories = {k1, k2}
  Goods = {p1, p2}
  Articles = {s1}
  Admins = {q1, q2}
  MaxWrites = 3
  Readers = {l1, l2}
  ReplicaOf <- OneReplica
  replica = replica
  CacheWriters = {w2}
  MaxCacheFaults = 1
INVARIANTS
  SearchShowsThePublic
CHECK_DEADLOCK FALSE
