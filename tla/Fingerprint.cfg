SPECIFICATION FairSpec
CONSTANTS
  Cars <- MCCars
  NumBrands = 2
  BrandOf <- MCBrandOf
  Ecus <- MCEcus
  Addrs <- MCAddrs
  AddrOf <- MCAddrOf
  Versions <- MCVersions
  FwVersions <- MCFwVersions
  EssentialEcus <- MCEssential
  NonEssential <- MCNonEssential
  FuzzyExclude = {}
  DebugEcus = {}
  CustomFuzzy <- MCCustom
  LegacyCars <- MCLegacy
  Msgs <- MCMsgs
  Ignored = {"long"}
  Fingerprints <- MCFingerprints
  FrameFingerprint = 1
  FrameLimit = 3
  Groups <- MCGroups
  Requests <- MCRequests
  NumPandas = 1
  SkipFwQuery = FALSE
  FwCache = TRUE
  Fixed = "none"
  Real = "a"
  Installed <- MCInstalled
  WiredTo <- MCWiredTo
  Sends <- MCSends
  MaxDrives = 2
CHECK_DEADLOCK FALSE
INVARIANTS ModeRight ExactIsReal CanSound
PROPERTY StartupEnds
