----------------------------- MODULE ColumnScan -----------------------------
(***************************************************************************)
(* worker::scan_chunk of src/src/image/worker.cc: column by column, from    *)
(* the top of a chunk (ChunkData) downwards, it looks for the blocks that   *)
(* are seen from above, a first, a second, and the blend of those below,    *)
(* until nothing shines through any more.                                   *)
(*                                                                          *)
(* Red, green and blue are treated alike: a colour is the tone of one of    *)
(* them, with the alpha.  In the table of colours a block has alpha 0       *)
(* exactly if its colour is 0, the value of a layer that is not there.      *)
(***************************************************************************)
EXTENDS ChunkData

CONSTANTS
  Colors,        \* the colour of each block that has one
  Full,          \* CHAN_FULL
  NetherMaxY,    \* CHUNK_MAX_Y_NETHER
  TintedBlocks   \* is_biome_overridden()

None == [tone |-> 0, alpha |-> 0]

ASSUME ColorsAssumption ==
  /\ Full \in Nat \ {0} /\ NetherMaxY \in Nat
  /\ \A block \in DOMAIN Colors :
       Colors[block] \in [tone : 0..Full, alpha : 1..Full] \cup {None}

\* The IDs and the colours of block/minecraft/*.tsv: none is empty, air cannot be seen,
\* and what is tinted can.
ASSUME TableAssumption ==
  /\ "" \notin DOMAIN Colors
  /\ "air" \in DOMAIN Colors => Colors["air"] = None
  /\ \A block \in TintedBlocks \cap DOMAIN Colors : Colors[block] # None

VARIABLES
  pc,                     \* "idle", "scanning", "leaving" (after a column), "scanned"
  x, z, nether,           \* the column, and options.is_nether()
  y, air_found, prev_block,
  pixels,                 \* pixel_states: what was found in each column
  unknown_blocks

locals == <<x, z, y, air_found, prev_block>>
scanVars == <<pc, nether, locals, pixels, unknown_blocks>>
vars == <<chunkVars, scanVars>>

Blank ==
  [fg_color |-> None, mid_color |-> None, bg_color |-> None, top_height |-> 0, mid_height |-> 0,
   opaque_height |-> 0, top_biome |-> 0, flags |-> {}, block_light |-> 0]

ScanInit ==
  /\ pc = "idle" /\ nether \in BOOLEAN
  /\ x = 0 /\ z = 0 /\ y = 0 /\ air_found = FALSE /\ prev_block = ""
  /\ pixels = [p \in Places \X Places |-> Blank]
  /\ unknown_blocks = {}

-----------------------------------------------------------------------------
(* blend_color() of src/src/graphics/color.cc. *)
Blend(fg, bg) ==
  LET alpha == (bg.alpha + fg.alpha) - (bg.alpha * fg.alpha) \div Full
      shining == (bg.tone * (Full - fg.alpha) * bg.alpha) \div Full
  IN IF bg.alpha = 0 THEN fg
     ELSE [tone |-> (fg.tone * fg.alpha + shining) \div alpha, alpha |-> alpha]

\* The height at which the scan starts.
MaxY == IF nether /\ get_max_height > NetherMaxY THEN NetherMaxY ELSE get_max_height

Begin ==
  /\ pc = "idle" /\ outcome = "built"
  /\ pc' = "scanning" /\ y' = MaxY
  /\ UNCHANGED <<nether, x, z, air_found, prev_block, pixels, unknown_blocks>>

\* The blocks the loop's body may be at.
InLoop == pc = "scanning" /\ y >= 0
Blocks == IF InLoop THEN get_block(x, y, z) ELSE {}

pixel == pixels[<<x, z>>]
Set(new) == pixels' = [pixels EXCEPT ![<<x, z>>] = new]

\* continue
GoDown == y' = y - 1 /\ UNCHANGED <<pc, nether, x, z>>

\* The end of the loop's body.
GoDownWithLight(new) ==
  /\ Set([new EXCEPT !.block_light = get_block_light(x, new.top_height, z)])
  /\ GoDown

\* break
Leave(new) == Set(new) /\ pc' = "leaving" /\ UNCHANGED <<nether, x, z, y>>

SeeAir(block) ==
  /\ block = "air"
  /\ air_found' = TRUE /\ prev_block' = "air"
  /\ GoDown
  /\ UNCHANGED <<pixels, unknown_blocks>>

\* Mutant: more of the same block is looked at again.
UnderTheRoof(block) == nether /\ ~air_found

\* The roof of the nether, or more of the block above.
Unseen(block) == (nether /\ ~air_found) \/ block = prev_block

PassOver(block) ==
  /\ block # "air" /\ Unseen(block)
  /\ GoDown
  /\ UNCHANGED <<air_found, prev_block, pixels, unknown_blocks>>

Look(block) ==
  /\ block # "air" /\ ~Unseen(block)
  /\ prev_block' = block
  /\ UNCHANGED air_found

SeeUnknown(block) ==
  /\ Look(block) /\ block \notin DOMAIN Colors
  /\ unknown_blocks' = unknown_blocks \cup {block}
  /\ GoDownWithLight(pixel)

Tint(block) == IF block \in TintedBlocks THEN {"BIOME_OVERRIDDEN"} ELSE {}

SeeFirst(block) ==
  /\ Look(block) /\ block \in DOMAIN Colors /\ pixel.fg_color = None
  /\ LET color == Colors[block]
         top == [pixel EXCEPT !.fg_color = color, !.top_height = y, !.flags = @ \cup Tint(block),
                              !.top_biome = get_biome(x, y, z)]
     IN IF color.alpha = Full
        THEN Leave([top EXCEPT !.mid_color = color, !.mid_height = y,
                               !.bg_color = color, !.opaque_height = y])
        ELSE GoDownWithLight([top EXCEPT !.flags = @ \cup {"IS_TRANSPARENT"}])
  /\ UNCHANGED unknown_blocks

SeeSecond(block) ==
  /\ Look(block) /\ block \in DOMAIN Colors /\ pixel.fg_color # None /\ pixel.mid_color = None
  /\ LET color == Colors[block]
         second == [pixel EXCEPT !.mid_color = color, !.mid_height = y]
     IN IF color.alpha = Full
        THEN Leave([second EXCEPT !.bg_color = color, !.opaque_height = y])
        ELSE GoDownWithLight(second)
  /\ UNCHANGED unknown_blocks

SeeMore(block) ==
  /\ Look(block) /\ block \in DOMAIN Colors /\ pixel.fg_color # None /\ pixel.mid_color # None
  /\ LET more == [pixel EXCEPT !.bg_color = Blend(@, Colors[block])]
     IN IF more.bg_color.alpha = Full THEN Leave([more EXCEPT !.opaque_height = y])
        ELSE GoDownWithLight(more)
  /\ UNCHANGED unknown_blocks

Bottom ==
  /\ pc = "scanning" /\ y < 0
  /\ pc' = "leaving"
  /\ UNCHANGED <<nether, locals, pixels, unknown_blocks>>

\* After a column: the background is opaque, and layers that are one are drawn once.
Finish ==
  /\ pc = "leaving"
  /\ LET one == pixel.top_height = pixel.opaque_height
         second == pixel.mid_height = pixel.opaque_height
     IN Set([pixel EXCEPT !.bg_color.alpha = Full,
                          !.fg_color = IF one THEN None ELSE @,
                          !.mid_color = IF one \/ second THEN None ELSE @])
  /\ x' = (x + 1) % Width
  /\ z' = IF x' = 0 THEN z + 1 ELSE z
  /\ pc' = IF z' = Width THEN "scanned" ELSE "scanning"
  /\ y' = MaxY /\ air_found' = FALSE /\ prev_block' = ""
  /\ UNCHANGED <<nether, unknown_blocks>>

ScanNext ==
  \/ Begin \/ Bottom \/ Finish
  \/ \E block \in Blocks :
       \/ SeeAir(block) \/ PassOver(block) \/ SeeUnknown(block)
       \/ SeeFirst(block) \/ SeeSecond(block) \/ SeeMore(block)

-----------------------------------------------------------------------------
(* Properties. *)

\* What the game wrote into the column p.
Column(p, h) == Stored(p[1], h, p[2])
ColorAt(p, h) == IF Column(p, h) \in DOMAIN Colors THEN Colors[Column(p, h)] ELSE None

\* What is seen: blocks that have a color, not more of the same below one, and in
\* the nether only under air.
Seen(p) ==
  {h \in 0..MaxY :
     /\ ColorAt(p, h) # None
     /\ h = MaxY \/ Column(p, h + 1) # Column(p, h)
     /\ nether => \E g \in (h + 1)..MaxY : Column(p, g) = "air"}

Below(p, h) == {g \in Seen(p) : g < h}
First(p) == Max(Seen(p))
Second(p) == Max(Below(p, First(p)))

\* What those below the second are together, from the top down to each height.
Through(p) ==
  LET deeper == Below(p, Second(p))
      blend[h \in 0..(MaxY + 1)] ==
        IF h = MaxY + 1 THEN None
        ELSE IF h \in deeper THEN Blend(blend[h + 1], ColorAt(p, h)) ELSE blend[h + 1]
  IN blend

\* Where nothing shines through any more, and the color there: the first that is seen,
\* the second, or the first block at which those below the second are opaque together.
\* Without such a block it is height 0, the height of what is not there: a layer at that
\* height is taken for the ground.
Ground(p) ==
  LET stops == {h \in Below(p, Second(p)) : Through(p)[h].alpha = Full}
      last == IF stops = {} THEN 0 ELSE Max(stops)
  IN IF ColorAt(p, First(p)).alpha = Full
     THEN [height |-> First(p), color |-> ColorAt(p, First(p))]
     ELSE IF Below(p, First(p)) = {} THEN [height |-> 0, color |-> None]
     ELSE IF ColorAt(p, Second(p)).alpha = Full
     THEN [height |-> Second(p), color |-> ColorAt(p, Second(p))]
     ELSE [height |-> last, color |-> Through(p)[last]]

\* What the scan has to find in a column where something is seen.
LayersFound(p, found) ==
  LET ground == Ground(p) IN
  Seen(p) # {} =>
    /\ found.top_height = First(p) /\ found.opaque_height = ground.height
    /\ found.bg_color = [ground.color EXCEPT !.alpha = Full]
    /\ found.fg_color = IF First(p) = ground.height THEN None ELSE ColorAt(p, First(p))
    /\ First(p) # ground.height => found.block_light = get_block_light(p[1], First(p), p[2])
    /\ "BIOME_OVERRIDDEN" \in found.flags <=> Column(p, First(p)) \in TintedBlocks
    /\ Below(p, First(p)) # {} /\ First(p) # ground.height =>
         /\ found.mid_height = Second(p)
         /\ found.mid_color = IF Second(p) = ground.height THEN None ELSE ColorAt(p, Second(p))

\* The layers of a column are those seen from above, whatever invisible and unknown
\* blocks, repeated blocks and roofs are in between: the first on top, the second
\* below it unless it is the ground, the ground where it is opaque.  The light and
\* the tint of a translucent first block are its own.
LayersAreSeen ==
  pc = "scanned" /\ Whole => \A p \in Places \X Places : LayersFound(p, pixels[p])
=============================================================================
