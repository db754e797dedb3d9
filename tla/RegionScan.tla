----------------------------- MODULE RegionScan -----------------------------
(***************************************************************************)
(* Incremental rendering of one region file: worker::generate_region of    *)
(* src/image/worker.cc and the journal of src/nbt/region.cc.  A pass looks *)
(* at every chunk of every Step-th row (the anchors) and, around an anchor *)
(* that changed, at the chunks of the rows below it.  A chunk is rendered  *)
(* when its LastUpdate is newer than its journal entry; the entry is       *)
(* written at once, into a file mapped into memory, and the image only at  *)
(* the end of the pass.                                                    *)
(***************************************************************************)
EXTENDS Integers, FiniteSets

CONSTANTS Width,       \* CHUNK_PER_REGION_WIDTH (32 in the code)
          Step,        \* scan_chunk_step (4 in the code)
          Updates,     \* sets of chunks the game updates at one time
          Fragile,     \* bound: the chunks whose data may become unreadable
          MaxVersion,  \* bound: LastUpdate grows up to here
          MaxFailures, \* bound: crashes and failed saves
          NoImage,     \* no output file, or a null pointer to the image
          Partial      \* an output file that was not written completely

ASSUME SizeAssumption ==
  /\ Step \in Nat \ {0}
  /\ Width \in Nat \ {0}
  /\ Width % Step = 0
ASSUME BoundAssumption == MaxVersion \in Nat /\ MaxFailures \in Nat

Columns == 0..(Width - 1)
Cells == Columns \X Columns

ASSUME UpdatesAssumption ==
  /\ Updates \subseteq SUBSET Cells
  /\ Fragile \subseteq Cells

X(c) == c[1]
Z(c) == c[2]

\* What a chunk of the region file may be, beside a chunk with a LastUpdate.
Missing == -1     \* its location entry is 0
Unreadable == -2  \* its data or its NBT cannot be decoded

Blank == 0        \* pixels never rendered
Garbage == -3     \* pixels read from a file that was not written completely

\* What an image shows of a chunk.
Versions == {Garbage, Unreadable, Missing} \cup Nat

ASSUME ImageAssumption ==
  /\ NoImage # Partial
  /\ {NoImage, Partial} \cap [Cells -> Versions] = {}

VARIABLES
  cached,    \* is there a cache directory (and so a journal)?
  world,     \* the LastUpdate of each chunk, or Missing or Unreadable
  journal,   \* last_update: the entries of the .ptcache file
  file,      \* the output file: the version of each chunk in it, NoImage or Partial
  image,     \* generate_region's image: versions like file, or NoImage
  pc,        \* "idle", "anchor", "window", "save"
  x, z,      \* chunk_x and chunk_z
  prev,      \* prev_chunk_x
  todo,      \* what the loops over t_chunk_x and t_chunk_z have left
  seen,      \* history: the chunks this pass has looked at
  owed,      \* history: chunks this pass has to render and has not
  lost,      \* history: the journal names chunks whose image was never saved
  failures   \* how often the process crashed or could not save

scanVars == <<x, z, prev, todo, seen>>
vars == <<cached, world, journal, file, image, pc, x, z, prev, todo, seen,
          owed, lost, failures>>

Max2(a, b) == IF a > b THEN a ELSE b
Min2(a, b) == IF a < b THEN a ELSE b

\* get_chunk_if_dirty() returns a chunk.
IsDirty(c) ==
  /\ world[c] >= 0
  /\ cached => journal[c] < world[c]

\* The anchor under whose row the chunk lies.
AnchorRow(c) == Z(c) - (Z(c) % Step)

\* The chunks a pass is sure to reach: an anchor that changed is near enough in
\* the row above.
InReach ==
  {c \in Cells : IsDirty(c) /\
     \E a \in Cells : /\ IsDirty(a) /\ Z(a) = AnchorRow(c)
                      /\ X(a) - X(c) < Step /\ X(c) - X(a) < Step}

NoVersion == [c \in Cells |-> Blank]

Init ==
  /\ cached \in BOOLEAN
  /\ world = [c \in Cells |-> Missing]
  /\ journal = [c \in Cells |-> 0]
  /\ file = NoImage
  /\ image = NoImage
  /\ pc = "idle"
  /\ x = 0 /\ z = 0 /\ prev = -1
  /\ todo = {} /\ seen = {} /\ owed = {}
  /\ lost = FALSE /\ failures = 0

-----------------------------------------------------------------------------
(* The world, between and during passes: the file is mapped, not read. *)

\* The game writes the chunks of u: they appear, or get a newer LastUpdate.
Update(u) ==
  /\ \A c \in u : world[c] < MaxVersion
  /\ world' = [c \in Cells |-> IF c \in u THEN Max2(world[c], 0) + 1 ELSE world[c]]
  /\ UNCHANGED <<cached, journal, file, image, pc, scanVars, owed, lost, failures>>

\* A chunk that cannot be decoded any more.
Damage(c) ==
  /\ pc = "idle"
  /\ world[c] > 0
  /\ world' = [world EXCEPT ![c] = Unreadable]
  /\ UNCHANGED <<cached, journal, file, image, pc, scanVars, owed, lost, failures>>

-----------------------------------------------------------------------------
(* One pass: generate_region(). *)

StartPass ==
  /\ pc = "idle"
  /\ pc' = "anchor"
  /\ x' = 0 /\ z' = 0 /\ prev' = -1
  /\ todo' = {} /\ seen' = {}
  /\ owed' = InReach
  /\ UNCHANGED <<cached, world, journal, file, image, lost, failures>>

\* Where the loops over chunk_x and chunk_z go next.
Advance ==
  IF x + 1 < Width
  THEN x' = x + 1 /\ UNCHANGED <<z, prev>> /\ pc' = "anchor"
  ELSE /\ x' = 0 /\ z' = z + Step /\ prev' = -1
       /\ pc' = IF z + Step < Width THEN "anchor" ELSE "save"

\* Mutant: a pass begins with an empty image although there is an output file.
OpenedAnew == IF image # NoImage THEN {image} ELSE {NoVersion}

\* The image a pass begins with, once a chunk has to be rendered.
Opened ==
  CASE image # NoImage -> {image}
    [] image = NoImage /\ file = NoImage -> {NoVersion}
    [] image = NoImage /\ file = Partial -> {NoVersion, [c \in Cells |-> Garbage]}
    [] OTHER -> {file}

\* get_chunk_if_dirty() records the chunk in the journal, generate_chunk()
\* draws it into img.
Render(c, img) ==
  /\ journal' = IF cached THEN [journal EXCEPT ![c] = world[c]] ELSE journal
  /\ image' = [img EXCEPT ![c] = world[c]]
  /\ owed' = owed \ {c}

\* Mutant: prev_chunk_x is not looked at.
WindowFromStart ==
  (Max2(x - Step + 1, 0)..(Min2(x + Step, Width) - 1))
    \X ((z + 1)..(z + Step - 1))

\* Mutant: the window ends one column early.
WindowTooNarrow ==
  (Max2(x - Step + 1, prev + 1)..(Min2(x + Step - 1, Width) - 1))
    \X ((z + 1)..(z + Step - 1))

\* Mutant: the window is not cut off at the border of the region.
WindowUnclipped ==
  (Max2(x - Step + 1, prev + 1)..(x + Step - 1)) \X ((z + 1)..(z + Step - 1))

\* The columns of the window: those from x - Step + 1 to x + Step - 1 that no
\* earlier window of this row had.
Window ==
  (Max2(x - Step + 1, prev + 1)..(Min2(x + Step, Width) - 1))
    \X ((z + 1)..(z + Step - 1))

\* An anchor that is missing, unreadable or up to date: nothing else is done.
SkipAnchor ==
  /\ pc = "anchor"
  /\ ~IsDirty(<<x, z>>)
  /\ seen' = seen \cup {<<x, z>>}
  /\ Advance
  /\ UNCHANGED <<cached, world, journal, file, image, todo, owed, lost, failures>>

\* An anchor that changed: it is rendered, and its window looked at.
RenderAnchor ==
  /\ pc = "anchor"
  /\ IsDirty(<<x, z>>)
  /\ seen' = seen \cup {<<x, z>>}
  /\ \E img \in Opened : Render(<<x, z>>, img)
  /\ todo' = Window
  /\ prev' = x + Step - 1
  /\ pc' = "window"
  /\ UNCHANGED <<cached, world, file, x, z, lost, failures>>

\* The loops go through the window column by column.
IsNext(c) == \A d \in todo : X(c) < X(d) \/ (X(c) = X(d) /\ Z(c) <= Z(d))

LookAt ==
  /\ pc = "window"
  /\ \E c \in todo :
       /\ IsNext(c)
       /\ todo' = todo \ {c}
       /\ seen' = seen \cup {c}
       /\ IF IsDirty(c) THEN Render(c, image) ELSE UNCHANGED <<journal, image, owed>>
  /\ UNCHANGED <<cached, world, file, pc, x, z, prev, lost, failures>>

\* The window is done: prev_chunk_x stays, the next anchor comes.
EndWindow ==
  /\ pc = "window"
  /\ todo = {}
  /\ Advance
  /\ UNCHANGED <<cached, world, journal, file, image, todo, seen, owed, lost, failures>>

\* The pass ends: with nothing rendered the image is not even opened; else
\* save() writes the whole file.
EndPass ==
  /\ pc = "save"
  /\ pc' = "idle"
  /\ file' = IF image = NoImage THEN file ELSE image
  /\ image' = NoImage
  /\ UNCHANGED <<cached, world, journal, scanVars, owed, lost, failures>>

\* save() returns false, and nobody looks: the file could not be opened, or not
\* be written completely.
SaveFails ==
  /\ pc = "save"
  /\ image # NoImage
  /\ failures < MaxFailures
  /\ pc' = "idle"
  /\ file' \in {file, Partial}
  /\ image' = NoImage
  /\ lost' = TRUE
  /\ failures' = failures + 1
  /\ UNCHANGED <<cached, world, journal, scanVars, owed>>

\* The process ends in the middle of a pass (an exception of generate_chunk
\* ends it, too).  The mapped journal is kept, the image is not.
Crash ==
  /\ pc # "idle"
  /\ failures < MaxFailures
  /\ pc' = "idle"
  /\ file' \in IF pc = "save" /\ image # NoImage THEN {file, Partial} ELSE {file}
  /\ image' = NoImage
  /\ owed' = {}
  /\ lost' = (lost \/ image # NoImage)
  /\ failures' = failures + 1
  /\ UNCHANGED <<cached, world, journal, scanVars>>

\* The user deletes the cache directory: the next pass makes it and its journals
\* anew, all zeros.
DeleteCache ==
  /\ pc = "idle" /\ cached
  /\ journal' = [c \in Cells |-> 0]
  /\ lost' = FALSE
  /\ UNCHANGED <<cached, world, file, image, pc, scanVars, owed, failures>>

-----------------------------------------------------------------------------
Pass == StartPass \/ SkipAnchor \/ RenderAnchor \/ LookAt \/ EndWindow \/ EndPass

Next ==
  \/ Pass \/ SaveFails \/ Crash \/ DeleteCache
  \/ \E u \in Updates : Update(u)
  \/ \E c \in Fragile : Damage(c)

Spec == Init /\ [][Next]_vars

-----------------------------------------------------------------------------
(* Properties. *)

\* Type invariant.
TypeOK ==
  /\ cached \in BOOLEAN
  /\ world \in [Cells -> {Missing, Unreadable} \cup Nat]
  /\ journal \in [Cells -> Nat]
  /\ file \in {NoImage, Partial} \cup [Cells -> Versions]
  /\ image \in {NoImage} \cup [Cells -> Versions]
  /\ pc \in {"idle", "anchor", "window", "save"}
  /\ x \in Columns /\ z \in 0..Width /\ prev \in -1..(Width + Step)
  /\ todo \subseteq Cells /\ seen \subseteq Cells /\ owed \subseteq Cells
  /\ lost \in BOOLEAN /\ failures \in Nat

\* What the output shows of a chunk, while a pass runs what it is going to show.
Shown(c) ==
  CASE image # NoImage -> image[c]
    [] image = NoImage /\ file = NoImage -> Blank
    [] image = NoImage /\ file = Partial -> Garbage
    [] OTHER -> file[c]

\* The journal never promises what the output does not show: a chunk it calls up to
\* date is in the image with that LastUpdate.  A save that failed, or a process that
\* ended after it had rendered a chunk, break this promise; deleting the cache is
\* enough to restore it, whatever is left of the output file.
JournalMatchesImage ==
  ~lost => \A c \in Cells : journal[c] = 0 \/ Shown(c) = journal[c]

\* The windows of neighbouring anchors never overlap: a pass renders no chunk
\* twice, and reads none twice.
NoChunkTwice ==
  /\ pc = "anchor" => <<x, z>> \notin seen
  /\ pc = "window" => todo \cap seen = {}

\* A pass that reaches its end has rendered every changed chunk with a changed
\* anchor within Step - 1 columns in the row its group begins with.
ReachIsRendered == pc = "save" => owed = {}

\* What the comment at scan_chunk_step says: when the chunks within some radius
\* of a place are updated together, a pass captures all of them.
AllUpdatedCaptured ==
  pc = "save" /\ cached => \A c \in Cells : world[c] >= 0 => journal[c] = world[c]
=============================================================================
