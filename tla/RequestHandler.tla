--------------------------- MODULE RequestHandler ---------------------------
(***************************************************************************)
(* handle_request and resolve_block of src/server/server.cc: how one       *)
(* request, as parse_all() left it, is answered.  A block coordinate is    *)
(* split into a region file, a chunk in it and a place in the chunk, and   *)
(* the column of blocks at that place is searched from the top.            *)
(***************************************************************************)
EXTENDS Integers, Sequences

CONSTANTS RegionSize,  \* region_size (512)
          ChunkSize,   \* chunk_size (16)
          MaxY,        \* max_y (255)
          NetherMaxY,  \* nether_max_y (127)
          Coords,      \* the coordinates stoi() can read from a request
          Blocks,      \* the names of blocks
          Air,         \* one of the three air blocks
          NoName,      \* the empty name of a block
          NotANumber   \* a field stoi() throws for

ASSUME SizeAssumption ==
  /\ RegionSize \in Nat \ {0}
  /\ ChunkSize \in Nat \ {0}
  /\ RegionSize % ChunkSize = 0
ASSUME HeightAssumption == MaxY \in Nat /\ NetherMaxY \in 0..MaxY
ASSUME CoordAssumption == Coords \subseteq Int /\ NotANumber \notin Coords
ASSUME BlockAssumption == Air \notin Blocks /\ NoName \notin Blocks /\ Air # NoName

Dimensions == {"overworld", "nether", "end"}

\* What the request says; another Dimension is "other", a missing field is not
\* a number, and valid says whether the request line is GET MMP/1.0.
Requests ==
  [valid : BOOLEAN, dimen : Dimensions \cup {"other"},
   x : Coords \cup {NotANumber}, z : Coords \cup {NotANumber}]

\* get_block() of the places of a column, from the bottom.
ColumnsOfBlocks == [0..MaxY -> Blocks \cup {Air, NoName}]

VARIABLES
  req,       \* the request
  served,    \* the dimensions with a directory (overworld_dir, ...)
  stage,     \* "request", "file", "chunk", "search", "release", "done", "thrown"
  place,     \* region, chunk and place in the chunk of each coordinate
  column,    \* the blocks of the column that is searched
  y,         \* y
  airFound,  \* air_found
  answers,   \* what was written to the client
  held       \* what resolve_block() has to delete: "region" and "chunk"

searchVars == <<column, y, airFound>>
handlerVars == <<req, served, stage, place, column, y, airFound, answers, held>>

-----------------------------------------------------------------------------
(* Coordinates. *)

\* C++'s division and remainder: towards zero.
Quotient(a, b) == IF a >= 0 THEN a \div b ELSE -((-a) \div b)
Remainder(a, b) == IF a >= 0 THEN a % b ELSE -((-a) % b)

positive_mod(a, b) ==
  LET mod == Remainder(a, b) IN IF mod < 0 THEN mod + b ELSE mod

\* Mutant: negative coordinates are not moved by one.
RegionTowardsZero(v) ==
  IF v >= 0 THEN Quotient(v, RegionSize) ELSE Quotient(v, RegionSize) - 1

RegionOf(v) ==
  IF v >= 0 THEN Quotient(v, RegionSize) ELSE Quotient(v + 1, RegionSize) - 1

ChunkOf(v) == Quotient(positive_mod(v, RegionSize), ChunkSize)
InChunk(v) == Remainder(positive_mod(v, RegionSize), ChunkSize)

\* Both places in the chunk are computed from x.
PlaceOf(r) ==
  [region_x |-> RegionOf(r.x), region_z |-> RegionOf(r.z),
   chunk_x |-> ChunkOf(r.x), chunk_z |-> ChunkOf(r.z),
   x_in_chunk |-> InChunk(r.x), z_in_chunk |-> InChunk(r.x)]

-----------------------------------------------------------------------------
(* The handler. *)

NoPlace == [region_x |-> 0, region_z |-> 0, chunk_x |-> 0, chunk_z |-> 0,
            x_in_chunk |-> 0, z_in_chunk |-> 0]

HandlerInit ==
  /\ req \in Requests
  /\ served \in SUBSET Dimensions
  /\ stage = "request"
  /\ place = NoPlace
  /\ column = [h \in 0..MaxY |-> Air]
  /\ y = MaxY
  /\ airFound = FALSE
  /\ answers = <<>>
  /\ held = {}

Failure(code) == [code |-> code, altitude |-> 0, block |-> NoName]
Success(h) == [code |-> 200, altitude |-> h, block |-> column[h]]

Answer(a) == answers' = Append(answers, a)

Accepted ==
  /\ req.valid
  /\ req.dimen \in Dimensions
  /\ req.x # NotANumber /\ req.z # NotANumber

\* handle_request(): 400.
Reject ==
  /\ stage = "request"
  /\ ~Accepted
  /\ Answer(Failure(400))
  /\ stage' = "done"
  /\ UNCHANGED <<req, served, place, searchVars, held>>

\* resolve_block(): the coordinates are split; without a directory for the
\* dimension the answer is 404.
Resolve ==
  /\ stage = "request"
  /\ Accepted
  /\ place' = PlaceOf(req)
  /\ IF req.dimen \in served
     THEN stage' = "file" /\ UNCHANGED answers
     ELSE stage' = "done" /\ Answer(Failure(404))
  /\ UNCHANGED <<req, served, searchVars, held>>

\* There is no such region file, or it cannot be opened.
NoRegion ==
  /\ stage = "file"
  /\ Answer(Failure(404))
  /\ stage' = "done"
  /\ UNCHANGED <<req, served, place, searchVars, held>>

OpenRegion ==
  /\ stage = "file"
  /\ held' = {"region"}
  /\ stage' = "chunk"
  /\ UNCHANGED <<req, served, place, searchVars, answers>>

\* get_chunk() returns a null pointer; the region is not deleted.
NoChunk ==
  /\ stage = "chunk"
  /\ Answer(Failure(404))
  /\ stage' = "done"
  /\ UNCHANGED <<req, served, place, searchVars, held>>

\* get_chunk() throws.
Throw ==
  /\ stage = "chunk"
  /\ stage' = "thrown"
  /\ UNCHANGED <<req, served, place, searchVars, answers, held>>

Nether == req.dimen = "nether"
Top == IF Nether THEN NetherMaxY ELSE MaxY

GetChunk ==
  /\ stage = "chunk"
  /\ held' = held \cup {"chunk"}
  /\ column' \in ColumnsOfBlocks
  /\ y' = Top
  /\ airFound' = FALSE
  /\ stage' = "search"
  /\ UNCHANGED <<req, served, place, answers>>

-----------------------------------------------------------------------------
(* The search, from the top to y = 0. *)

Searching == stage = "search" /\ y >= 0

Break(a) ==
  /\ Answer(a)
  /\ stage' = "release"
  /\ UNCHANGED <<req, served, place, searchVars, held>>

Continue(found) ==
  /\ y' = y - 1
  /\ airFound' = found
  /\ UNCHANGED <<req, served, stage, place, column, answers, held>>

\* Mutant: air at the bottom is like air anywhere.
AirAnywhere ==
  /\ Searching
  /\ column[y] = Air
  /\ Continue(Nether)

AirBlock ==
  /\ Searching
  /\ column[y] = Air
  /\ IF y = 0 THEN Break(Failure(404)) ELSE Continue(Nether)

\* The nether's ceiling is not its surface: that lies under some air.
Ceiling ==
  /\ Searching
  /\ column[y] # Air
  /\ Nether /\ ~airFound
  /\ IF y = 0 THEN Break(Failure(404)) ELSE Continue(FALSE)

\* Mutant: in the nether, too, the uppermost block is the surface.
UppermostBlock ==
  /\ Searching
  /\ column[y] # Air
  /\ Break(IF column[y] = NoName THEN Failure(404) ELSE Success(y))

\* Mutant: the function returns with the answer.
ReturnWithSurface ==
  /\ Searching
  /\ column[y] # Air
  /\ Nether => airFound
  /\ Answer(IF column[y] = NoName THEN Failure(404) ELSE Success(y))
  /\ stage' = "done"
  /\ UNCHANGED <<req, served, place, searchVars, held>>

Surface ==
  /\ Searching
  /\ column[y] # Air
  /\ Nether => airFound
  /\ Break(IF column[y] = NoName THEN Failure(404) ELSE Success(y))

\* After the loop, whichever way it ended.
Release ==
  /\ stage = "release" \/ (stage = "search" /\ y < 0)
  /\ held' = {}
  /\ stage' = "done"
  /\ UNCHANGED <<req, served, place, searchVars, answers>>

-----------------------------------------------------------------------------
HandlerNext ==
  \/ Reject \/ Resolve \/ NoRegion \/ OpenRegion \/ NoChunk \/ Throw \/ GetChunk
  \/ AirBlock \/ Ceiling \/ Surface \/ Release

HandlerSpec == HandlerInit /\ [][HandlerNext]_handlerVars

-----------------------------------------------------------------------------
(* Properties. *)

Answered == [code : {200, 400, 404}, altitude : 0..MaxY, block : Blocks \cup {NoName}]

\* Type invariant.
HandlerTypes ==
  /\ req \in Requests /\ served \subseteq Dimensions
  /\ stage \in {"request", "file", "chunk", "search", "release", "done", "thrown"}
  /\ place \in [DOMAIN NoPlace -> Int]
  /\ column \in ColumnsOfBlocks
  /\ y \in -1..MaxY /\ airFound \in BOOLEAN
  /\ answers \in Seq(Answered)
  /\ held \subseteq {"region", "chunk"}

\* Every request that does not throw is answered once, whatever column is
\* searched, down to y = 0, and no request twice.
AnsweredOnce ==
  /\ Len(answers) <= 1
  /\ stage = "done" => Len(answers) = 1

\* The blocks the answer may be about: in the nether those with air above.
Candidates ==
  {h \in 0..Top : /\ column[h] # Air
                  /\ Nether => \E a \in (h + 1)..Top : column[a] = Air}

\* When a column was searched, the answer is its uppermost candidate, or 404
\* when there is none or it has no name.
AnswersSurface ==
  stage = "release" =>
    \/ Candidates = {} /\ answers = <<Failure(404)>>
    \/ \E h \in Candidates :
         /\ \A g \in Candidates : g <= h
         /\ answers = <<IF column[h] = NoName THEN Failure(404) ELSE Success(h)>>

\* Coordinate v lies in that region, chunk and place of the chunk.
Locates(region, chunk, inside, v) ==
  /\ region * RegionSize + chunk * ChunkSize + inside = v
  /\ chunk \in 0..((RegionSize \div ChunkSize) - 1)
  /\ inside \in 0..(ChunkSize - 1)

\* The region file, the chunk and the place that are looked at are those of
\* Coord-X, of negative coordinates too; the region and the chunk are those of
\* Coord-Z.
PlaceIsRight ==
  stage \in {"file", "chunk", "search", "release"} =>
    /\ Locates(place.region_x, place.chunk_x, place.x_in_chunk, req.x)
    /\ \E inside \in 0..(ChunkSize - 1) :
         Locates(place.region_z, place.chunk_z, inside, req.z)

\* A region or a chunk is left behind only where no chunk was got.
NothingLeftBehind ==
  stage \in {"done", "thrown"} /\ held # {} =>
    held = {"region"} /\ \A i \in DOMAIN answers : answers[i] = Failure(404)

\* The protocol's Coord-Z: the block that is looked at has this z.
ColumnIsAtCoordZ ==
  stage = "search" =>
    Locates(place.region_z, place.chunk_z, place.z_in_chunk, req.z)
=============================================================================
