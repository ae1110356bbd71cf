CONSTANTS
  U16Limit = 9
  CharSigned = TRUE
  Newline = 1
  Letter = 2
  MaxMessage = 3
  Framebuffers <- SmallFramebuffers
  Fonts <- SmallFonts
  Messages <- SmallMessages
  Characters <- TwoCharacters
SPECIFICATION Spec
INVARIANT StoresInFramebuffer
