SPECIFICATION Spec
CONSTANTS
  Recordings <- MCRecordings
  SupportedProfiles = {"current"}
  CredentialPaths <- MCCredentialPaths
  PrivatePaths <- MCPrivatePaths
  KeyPrefixes <- MCKeyPrefixes
  PublicEndings <- MCPublicEndings
  CredentialNames <- MCCredentialNames
INVARIANTS
  
  LossIsNotAbsence
