CONSTANTS
  AddrLimit = 64
  NoResponse = noResponse
  NoFont = noFont
  USABLE = "usable"
  MinArena = 8
  U16Limit = 65536
  CharSigned = TRUE
  Newline = 10
  Characters <- Bytes
  Hello <- Greeting
  Fonts <- OneFont
  Framebuffers <- SomeFramebuffers
  BootLoaders <- AllLoaders
SPECIFICATION FairSpec
INVARIANTS TypeOK NoNullDereference ArenaIsUsableMemory PrintsOnlyWhenChecked GreetingIsPrinted FontTellsApart
PROPERTY Hangs
