SPECIFICATION AdmissionSpec
CONSTANTS
  Manifest <- MCManifest
  Encoding <- MCEncoding
  Profiles <- MCProfiles
  Parameters <- MCParameters
  OwnPreserved <- MCOwnPreserved
  Audits <- MCAudits
  IoContext <- MCIo
  Top <- MCTop
  Word <- MCWord
  Registries <- MCRegistries
  Evidences <- MCEvidences
INVARIANTS
  WrittenIsMeasured
  EveryViolationNamed
  CensusIsExact
  WritesMatchEntry
CHECK_DEADLOCK FALSE
