SPECIFICATION Spec
CONSTANTS
  n1 = n1  n2 = n2  l1 = l1  g1 = g1  h1 = h1  h2 = h2
  ann = ann  bob = bob  fin = fin  ops = ops
  None = None
  Providers = {"ad", "ldap"}
  Type <- MCType
  Natives = {n1, n2, l1}
  Groups = {g1, h1, h2}
  Names = {ann, bob, fin, ops}
  Scopes = {"all", "other", "reduced"}
  Supported = {"all", "other"}
  Realm <- MCRealm
  Observations <- MCObservations
  Workers = {"w1", "w2"}
  Handles <- MCHandles
  BatchIds = {1, 2, 3}
INVARIANTS CurrentIsLastAuthoritative ReferencesResolve
PROPERTIES StableIds DeletedInScope HoldersFollowRenames
CHECK_DEADLOCK FALSE
