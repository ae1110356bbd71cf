---------------------------- MODULE MCKernelBoot ----------------------------
(***************************************************************************)
(* Boot loaders that answer any subset of the requests, with small memory  *)
(* maps and framebuffers.                                                  *)
(***************************************************************************)
EXTENDS KernelBoot, Font8x16

Bytes == 0 .. 255

\* "Hello Quakernel !"
Greeting == <<72, 101, 108, 108, 111, 32, 81, 117, 97, 107, 101, 114, 110, 101, 108, 32, 33>>

OneFont == {defaultMonospace}

FramebufferOf(w, h) ==
  [width |-> w, height |-> h, bytesPerRow |-> 4 * w, bitsPerPixel |-> 32]

\* A usual one, one that breaks the greeting into lines and pages, one in which no
\* glyph fits, and one whose width is cut to nothing.
SomeFramebuffers ==
  {FramebufferOf(640, 480), FramebufferOf(60, 40), FramebufferOf(5, 5), FramebufferOf(U16Limit, 480)}

Entry(base, length, type) == [base |-> base, length |-> length, type |-> type]

\* No entry, reserved or small ones only, and usable ones after, before and between
\* others, of the smallest size and larger.
MemoryMaps ==
  { << >>,
    <<Entry(0, 16, "reserved")>>,
    <<Entry(0, 4, USABLE), Entry(4, 7, USABLE)>>,
    <<Entry(0, 8, USABLE), Entry(8, 8, "reserved")>>,
    <<Entry(0, 4, USABLE), Entry(4, 8, "reserved"), Entry(12, 9, USABLE), Entry(24, 16, USABLE)>>,
    <<Entry(0, 8, "reserved"), Entry(16, 16, USABLE), Entry(32, 8, "reserved")>> }

AllLoaders ==
  [ revisionSupported : BOOLEAN,
    hhdm        : {0, 16, NoResponse},
    memmap      : MemoryMaps \cup {NoResponse},
    framebuffer : {<<f>> : f \in Framebuffers} \cup
                    {<< >>, <<FramebufferOf(640, 480), FramebufferOf(5, 5)>>, NoResponse},
    dtb         : {"valid", "broken", "null", NoResponse} ]
=============================================================================
