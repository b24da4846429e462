SPECIFICATION Spec
CONSTANTS
  Hosts <- SomeHosts
  Short <- ShortLabels
  Failing <- RootSaved
  MaxKeys = 6
  MaxCrashes = 2
INVARIANTS
  TypeOK
  KeysMatch
  SignedByRoot
  CertificateFits
PROPERTIES
  FilesKept
