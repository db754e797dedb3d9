---------------------------- MODULE ChunkPixels ----------------------------
(***************************************************************************)
(* worker::generate_chunk of src/src/image/worker.cc: the columns that      *)
(* ColumnScan has found are tinted by their biomes, get brighter or darker  *)
(* where the ground rises or falls and by the light of blocks, and are      *)
(* drawn.  The inclinations are worked out in place, pixel by pixel.        *)
(***************************************************************************)
EXTENDS ColumnScan, ColorTable

CONSTANT Overrides  \* the tone that some biomes give to tinted blocks

ASSUME OverridesAssumption == \A biome \in DOMAIN Overrides : Overrides[biome] \in 0..Full

VARIABLES
  image,   \* the pixels of the image
  scanned  \* history: what the columns had before they were shaded

pixelVars == <<image, scanned>>
restVars == <<nether, y, air_found, prev_block, unknown_blocks>>
allVars == <<vars, pixelVars>>

Pixels == Places \X Places

Init ==
  /\ ChunkInit /\ ScanInit
  /\ image = [p \in Pixels |-> None]
  /\ scanned = pixels

-----------------------------------------------------------------------------
(* src/src/graphics/color.cc *)

increase_brightness(color, amount) ==
  [color EXCEPT !.tone = IF amount > 0 THEN Min({@ + amount, Full}) ELSE Max({@ + amount, 0})]

\* blend_color() with an opacity of one half.
Mix(color, tone) == [color EXCEPT !.tone = (@ + tone) \div 2]

-----------------------------------------------------------------------------
(* process_pipeline() *)

Tinted(color, biome) == IF biome \in DOMAIN Overrides THEN Mix(color, Overrides[biome]) ELSE color

HandleBiomes ==
  /\ pc = "scanned"
  /\ pixels' =
       [p \in Pixels |->
          IF "BIOME_OVERRIDDEN" \notin pixels[p].flags THEN pixels[p]
          ELSE IF pixels[p].fg_color # None
          THEN [pixels[p] EXCEPT !.fg_color = Tinted(@, pixels[p].top_biome)]
          ELSE [pixels[p] EXCEPT !.bg_color = Tinted(@, pixels[p].top_biome)]]
  /\ scanned' = pixels
  /\ pc' = "rows" /\ x' = 1 /\ z' = 0
  /\ UNCHANGED <<restVars, image>>

\* 1 where the ground rises from one pixel to the other, -1 where it falls.
Slope(from, to) ==
  IF pixels[from].opaque_height < pixels[to].opaque_height THEN 1
  ELSE IF pixels[to].opaque_height < pixels[from].opaque_height THEN -1 ELSE 0

Shade(states, p, amount) ==
  [states EXCEPT ![p].bg_color = increase_brightness(@, amount)]

XToneChangeRatio == 30
ZToneChangeRatio == 10
HeightToneRatio == 3

\* Mutant: the first pixel of a row has no left neighbour.
InclineRowOnly ==
  /\ pc = "rows" /\ z < Width /\ x < Width
  /\ pixels' = Shade(pixels, <<x, z>>, XToneChangeRatio * Slope(<<x - 1, z>>, <<x, z>>))
  /\ x' = x + 1
  /\ UNCHANGED <<pc, z, restVars, pixelVars>>

\* handle_inclination(): a pixel beside its left neighbour...
InclineRow ==
  /\ pc = "rows" /\ z < Width /\ x < Width
  /\ LET left == <<x - 1, z>>
         cur == <<x, z>>
         amount == XToneChangeRatio * Slope(left, cur)
     IN pixels' = Shade(IF x = 1 THEN Shade(pixels, left, amount) ELSE pixels, cur, amount)
  /\ x' = x + 1
  /\ UNCHANGED <<pc, z, restVars, pixelVars>>

NextRow ==
  /\ pc = "rows" /\ z < Width /\ x >= Width
  /\ x' = 1 /\ z' = z + 1
  /\ UNCHANGED <<pc, pixels, restVars, pixelVars>>

RowsDone ==
  /\ pc = "rows" /\ z = Width
  /\ pc' = "columns" /\ x' = 0 /\ z' = 1
  /\ UNCHANGED <<pixels, restVars, pixelVars>>

\* ... and beside its upper neighbour.
InclineColumn ==
  /\ pc = "columns" /\ z < Width /\ x < Width
  /\ LET upper == <<x, z - 1>>
         cur == <<x, z>>
         amount == ZToneChangeRatio * Slope(upper, cur)
     IN pixels' = Shade(IF z = 1 THEN Shade(pixels, upper, amount) ELSE pixels, cur, amount)
  /\ x' = x + 1
  /\ UNCHANGED <<pc, z, restVars, pixelVars>>

NextColumnRow ==
  /\ pc = "columns" /\ z < Width /\ x >= Width
  /\ x' = 0 /\ z' = z + 1
  /\ UNCHANGED <<pc, pixels, restVars, pixelVars>>

HandleBlockLight ==
  /\ pc = "columns" /\ z >= Width
  /\ pixels' = [p \in Pixels |->
                  [pixels[p] EXCEPT !.bg_color = increase_brightness(@, pixels[p].block_light * 5)]]
  /\ pc' = "drawing"
  /\ UNCHANGED <<x, z, restVars, pixelVars>>

\* generate_image(): the lower a layer, the darker it is.
Drawn(state) ==
  LET Sunk(color, height) ==
        increase_brightness(color, (height - state.top_height) * HeightToneRatio)
  IN Blend(Blend(state.fg_color, Sunk(state.mid_color, state.mid_height)),
           Sunk(state.bg_color, state.opaque_height))

Draw ==
  /\ pc = "drawing"
  /\ image' = [p \in Pixels |-> Drawn(pixels[p])]
  /\ pc' = "drawn"
  /\ UNCHANGED <<x, z, pixels, restVars, scanned>>

PipelineNext ==
  \/ HandleBiomes \/ InclineRow \/ NextRow \/ RowsDone \/ InclineColumn \/ NextColumnRow
  \/ HandleBlockLight \/ Draw

Next ==
  \/ ChunkNext /\ UNCHANGED <<scanVars, pixelVars>>
  \/ ScanNext /\ UNCHANGED <<chunkVars, pixelVars>>
  \/ PipelineNext /\ UNCHANGED chunkVars

Spec == Init /\ [][Next]_allVars

-----------------------------------------------------------------------------
(* Properties. *)

AllColors == [tone : 0..Full, alpha : 0..Full]

PixelStates ==
  [fg_color : AllColors, mid_color : AllColors, bg_color : AllColors,
   top_height : Heights, mid_height : Heights, opaque_height : Heights, top_biome : Nat,
   flags : SUBSET {"BIOME_OVERRIDDEN", "IS_TRANSPARENT"}, block_light : Nat]

\* Type invariant, of the chunk, the scan and the pixels.
TypeOK ==
  /\ outcome \in {"reading", "built", "Parse error", "Sections data not found",
                  "Invalid Sections data type"} \cup Range(Fields)
  /\ next_section \in 1..(Len(document.sections) + 1)
  /\ \A s \in Sections : block_lights[s] # Missing => Len(block_lights[s]) = 2 * LightSize
  /\ pc \in {"idle", "scanning", "leaving", "scanned", "rows", "columns", "drawing", "drawn"}
  /\ x \in 0..Width /\ z \in 0..Width /\ nether \in BOOLEAN
  /\ y \in Heights \cup {-1} /\ air_found \in BOOLEAN
  /\ image \in [Pixels -> AllColors]
  /\ pixels \in [Pixels -> PixelStates] /\ scanned \in [Pixels -> PixelStates]

\* How much the ground rises to a pixel from the one beside it; the first of a row or
\* a column is as inclined as the second.
Rise(p, q) == Slope(q, p)
RiseX(p) == IF p[1] = 0 THEN Rise(<<1, p[2]>>, p) ELSE Rise(p, <<p[1] - 1, p[2]>>)
RiseZ(p) == IF p[2] = 0 THEN Rise(<<p[1], 1>>, p) ELSE Rise(p, <<p[1], p[2] - 1>>)

\* The colour of the ground after shading, of one pixel by itself.
Relief(p) ==
  LET was == scanned[p]
      tinted == "BIOME_OVERRIDDEN" \in was.flags /\ was.fg_color = None
      color == IF tinted THEN Tinted(was.bg_color, was.top_biome) ELSE was.bg_color
  IN increase_brightness(
       increase_brightness(
         increase_brightness(color, XToneChangeRatio * RiseX(p)), ZToneChangeRatio * RiseZ(p)),
       5 * was.block_light)

\* The pixels of a chunk are shaded each by its own column and by the height of the
\* columns before it, although the loops change them in place and the first one of a
\* row and of a column twice: whatever the heights, the colour of the ground is the
\* one worked out for it alone.  What is drawn is opaque, is the ground where nothing
\* is above it, and is never brighter than the brightest of its layers.
PixelsAreShaded ==
  pc = "drawn" =>
    \A p \in Pixels :
      LET shaded == pixels[p] IN
      /\ shaded.bg_color = Relief(p)
      /\ image[p].alpha = Full
      /\ shaded.top_height = shaded.opaque_height => image[p] = shaded.bg_color
      /\ image[p].tone <= Max({shaded.fg_color.tone, shaded.mid_color.tone, shaded.bg_color.tone})

\* The program has for every block of the source files the colour the first line about
\* it says, and no others, whatever the lengths of the IDs, and there is no program if
\* an ID is longer than its length can say; and no chunk has a block that the table has
\* among those that are not known.
TableIsTheSources == Misread = {} /\ unknown_blocks \cap DOMAIN Colors = {}
=============================================================================
