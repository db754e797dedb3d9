-------------------------- MODULE MCRequestHandler --------------------------
(* Coordinates of RequestHandler, for TLC: at the borders of chunks and        *)
(* regions, on both sides of zero.                                             *)
EXTENDS RequestHandler

SomeCoords == {-1025, -1024, -513, -512, -511, -17, -16, -1, 0, 15, 16, 511, 512}
=============================================================================
