SPECIFICATION Spec
CONSTANTS
  r1 = r1
  r2 = r2
  pay = pay
  energy = energy
  None = None
  Remarks <- MCRemarks
  Sources <- MCSources
  Chunk <- MCChunk
  Empty <- MCEmpty
  Registrations <- MCRegistrations
  Addresses <- MCAddresses
  Subsocial <- MCSubsocial
  DefaultConfig <- MCDefaultConfig
  ConfigData <- MCConfigData
  SourceHead <- MCSourceHead
  Contents <- MCContents
  Foreign <- MCForeign
SYMMETRY Interchangeable
INVARIANTS
  TypeOK
  KeepsToItsConfiguration
  ReadsBack
  RegistrationsAreAddressed
