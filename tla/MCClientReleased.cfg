CONSTANTS
  d1 = d1  d2 = d2  e1 = e1  e2 = e2  f1 = f1  f2 = f2
  NoEndpoint = NoEndpoint
  NoFingerprint = NoFingerprint
  NoCredentials = NoCredentials
  Devices <- OneDevice
  Endpoints <- OneEndpoint
  Fingerprints <- TwoFingerprints
  CaValid <- FirstIsValid
  MaxSessions = 2
  MaxFrames = 1
  MaxEvents = 1
  MaxCommands = 1
  BatchSize = 2
  TrustOnDisk <- NoTrust
SPECIFICATION Spec
INVARIANT CredentialsReleased
