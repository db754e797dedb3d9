---------------------------- MODULE MCNbtToXml -----------------------------
(* The lengths headers state in NbtToXml, for TLC: a negative one, too.      *)
EXTENDS NbtToXml

SomeLengths == {-1, 0, 1, 2}
=============================================================================
