---------------------------- MODULE MCChunkFields ----------------------------
(* Documents of ChunkFields, for TLC: what the game writes, tags of the same     *)
(* names at other places, and some of a wrong type.                              *)
EXTENDS ChunkFields

SomeDocuments ==
  <<{<<"compound", "">>},
    {<<"compound", "Level">>, <<"int", "DataVersion">>},
    {<<"list", "Sections">>, <<"long", "LastUpdate">>, <<"ints", "Biomes">>, <<"int", "DataVersion">>},
    {<<"compound", "">>},
    {<<"byte", "Y">>, <<"list", "Palette">>, <<"longs", "BlockStates">>, <<"compound", "Level">>},
    {<<"compound", "">>, <<"byte", "Y">>},
    {<<"string", "Name">>, <<"int", "DataVersion">>}>>

\* Only the Y of a section is told apart.
SomeValues == [t \in Scalars \cup Arrays |-> IF t = "byte" THEN {0, 1} ELSE {1}]
=============================================================================
