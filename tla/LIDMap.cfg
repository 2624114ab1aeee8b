SPECIFICATION Spec
CONSTANTS
  Pns = {p1, p2}
  Lids = {l1, l2}
  Clients = {c1, c2}
  Nobody = Nobody
  Absent = Absent
  Nil = Nil
  Max = 1
SYMMETRY Symmetric
INVARIANT TypeOK MapsAgree CacheExact
PROPERTY ImplementsStore
