---------------------------- MODULE MCRegionScan ----------------------------
(* The updates of RegionScan, for TLC. *)
EXTENDS RegionScan

\* The chunks within r of a place, as the game updates them around a player.
Around(cx, cz, r) ==
  {c \in Cells : /\ X(c) - cx <= r /\ cx - X(c) <= r
                 /\ Z(c) - cz <= r /\ cz - Z(c) <= r}

\* Around a place, three rows of which the third is an anchor row; and two chunks
\* on their own: one of an anchor row, one whose anchors others update.
SmallUpdates == {Around(1, 1, 1), {<<3, 0>>, <<1, 3>>}}
OneAnchor == {<<1, 0>>}
=============================================================================
