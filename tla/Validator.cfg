SPECIFICATION Spec
CONSTANTS
  Field = {"name", "day", "lat", "lon", "site", "slat", "slon"}
  MaxAmount = 3
  NoMethod = "none"
  NoSnapshot = "latest"
  NoField = "nofield"
  NoPurpose = "nopurpose"
  Catalog <- VisitsAndSites
  Candidates <- AllPlans
  Policies <- ObligationsOf
CHECK_DEADLOCK FALSE
INVARIANTS
  MaskedNeverUsed
  PolicyEnforced
  RewriterAgreesWithVerifier
  OutputGoverned
