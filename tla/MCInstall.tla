----------------------------- MODULE MCInstall -----------------------------
(* Two packages of the kinds fatso tells apart.                            *)
EXTENDS Install

R(source, ships, provided) == [source |-> source, ships |-> ships, provided |-> provided]

(* By tarball and by git; with configure, with a Makefile, with files for  *)
(* scons, with several of them; and with what is not to be built.          *)
Kinds ==
  { R("tarball", {"configure"}, FALSE),
    R("tarball", {"configure", "Makefile", "SConstruct"}, FALSE),
    R("git", {"configure"}, FALSE),
    R("git", {}, FALSE),
    R("tarball", {"autogen.sh"}, FALSE),
    R("git", {"SConscript", "Makefile"}, FALSE),
    R("tarball", {"Makefile"}, TRUE),
    R("none", {"Makefile"}, FALSE) }

(* A package with a Makefile and one with build commands in its file *)
WithCommands ==
  { R("tarball", {"configure"}, FALSE), R("tarball", {"Makefile"}, TRUE) }
=============================================================================
