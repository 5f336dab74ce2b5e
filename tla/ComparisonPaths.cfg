SPECIFICATION FairSpec
CONSTANTS
  None = None
  Accesses <- MCAccesses
  Identities = {"u", "v", "w"}
  Assignments <- MCAssignments
  Holds <- MCHolds
  Holder <- MCHolder
  Relations <- MCRelations
  Parent <- MCParent
  Child <- MCChild
  Snapshots <- MCSnapshots
  MaxPaths = 2
  Composite = {"pq", "qc", "pc", "qp", "px"}
  Linked = {"gc"}
  AccessProvider <- MCProvider
  ControlNative <- MCControlNative
  Permission <- MCPermission
  DisplayName <- MCDisplayName
  RawNative <- MCRawNative
  Known = {"u", "v"}
  IdentityNative <- MCIdentityNative
  Goldens <- MCGoldens
  ImportScopes <- MCScopes
INVARIANTS EffectiveIsGranted NoPathLostSilently ConfirmedIsSame  
PROPERTIES TraversalEnds
CHECK_DEADLOCK FALSE
