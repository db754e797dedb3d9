-------------------------- MODULE RegionScanProofs --------------------------
(***************************************************************************)
(* Proofs about RegionScan for a region of any width, any step that        *)
(* divides it, any updates and any number of failures: its type invariant, *)
(* that no pass looks at a chunk twice, that a pass renders what it is     *)
(* sure to reach, and that the journal and the image agree.                *)
(***************************************************************************)
EXTENDS RegionScan, TLAPS

-----------------------------------------------------------------------------
(* Multiples of the step. *)

\* Rounding down to a multiple of the step loses less than one step.
LEMMA RoundDown ==
  ASSUME NEW a \in Nat, NEW S \in Nat \ {0}
  PROVE  /\ a % S \in Nat
         /\ a % S < S
         /\ a \div S \in Nat
         /\ a = S * (a \div S) + (a % S)
         /\ a - (a % S) \in Nat
  BY SMT

\* A multiple leaves no remainder.
LEMMA MultipleHasNoRemainder ==
  ASSUME NEW q \in Nat, NEW S \in Nat \ {0}
  PROVE  (S * q) % S = 0
  BY SMT

\* The anchor row of a chunk is an anchor row.
LEMMA RoundedIsMultiple ==
  ASSUME NEW a \in Nat, NEW S \in Nat \ {0}
  PROVE  (a - (a % S)) % S = 0
<1> DEFINE q == a \div S
<1>1. q \in Nat /\ a - (a % S) = S * q  BY RoundDown
<1>2. (S * q) % S = 0  BY <1>1, MultipleHasNoRemainder
<1> QED  BY <1>1, <1>2

\* One step after an anchor row comes an anchor row.
LEMMA NextMultiple ==
  ASSUME NEW a \in Nat, NEW S \in Nat \ {0}, a % S = 0
  PROVE  (a + S) % S = 0
<1> DEFINE q == a \div S
<1>1. q \in Nat /\ a = S * q  BY RoundDown
<1>2. q + 1 \in Nat /\ a + S = S * (q + 1)  BY <1>1
<1>3. (S * (q + 1)) % S = 0  BY <1>2, MultipleHasNoRemainder
<1> QED  BY <1>2, <1>3

\* Two anchor rows are at least one step apart.
LEMMA MultiplesApart ==
  ASSUME NEW a \in Nat, NEW b \in Nat, NEW S \in Nat \ {0},
         a % S = 0, b % S = 0, a < b
  PROVE  a + S <= b
<1> DEFINE p == a \div S
           q == b \div S
<1>1. p \in Nat /\ q \in Nat /\ a = S * p /\ b = S * q  BY RoundDown
<1> HIDE DEF p, q
<1>2. p + 1 <= q  BY <1>1
<1>3. S * p + S <= S * q  BY <1>1, <1>2
<1> QED  BY <1>1, <1>3

-----------------------------------------------------------------------------
(* The type invariant. *)

\* The loops are where they should be: on an anchor row, and inside the region
\* unless the pass is over.
LoopInv ==
  /\ z % Step = 0
  /\ pc \in {"anchor", "window"} => z < Width
  /\ pc = "anchor" => prev <= x + Step - 2
  /\ pc = "window" => prev = x + Step - 1 /\ image # NoImage

GridInv == TypeOK /\ LoopInv

\* An element of the grid is a pair of coordinates.
LEMMA CellIsPair ==
  ASSUME NEW c \in Cells
  PROVE  X(c) \in Columns /\ Z(c) \in Columns /\ c = <<X(c), Z(c)>>
  BY DEF Cells, X, Z

\* Every chunk of a window lies in the region, in the rows below the anchor.
LEMMA WindowInRegion ==
  ASSUME GridInv, z < Width
  PROVE  \A c \in Window :
           /\ c \in Cells
           /\ Z(c) > z /\ Z(c) < z + Step
           /\ X(c) > prev /\ X(c) <= x + Step - 1
<1>1. z \in Nat /\ z % Step = 0  BY DEF GridInv, TypeOK, LoopInv
<1>2. z + Step <= Width  BY <1>1, MultiplesApart, SizeAssumption
<1> QED
  BY <1>2, SizeAssumption
  DEF GridInv, TypeOK, Window, Max2, Min2, Cells, Columns, X, Z

\* Advance keeps the loops on the grid.
LEMMA AdvanceOnGrid ==
  ASSUME GridInv, z < Width, Advance, prev <= x + Step - 1
  PROVE  /\ x' \in Columns /\ z' \in 0..Width /\ prev' \in -1..(Width + Step)
         /\ pc' \in {"anchor", "save"}
         /\ z' % Step = 0
         /\ pc' = "anchor" => z' < Width /\ prev' <= x' + Step - 2
<1>1. z \in Nat /\ z % Step = 0  BY DEF GridInv, TypeOK, LoopInv
<1>2. z + Step <= Width  BY <1>1, MultiplesApart, SizeAssumption
<1>3. (z + Step) % Step = 0
  BY <1>1, NextMultiple, SizeAssumption
<1> QED
  BY <1>2, <1>3, SizeAssumption DEF GridInv, TypeOK, LoopInv, Advance, Columns

\* Rendering keeps the types, and leaves an image.
LEMMA RenderTypes ==
  ASSUME TypeOK, NEW c \in Cells, IsDirty(c),
         NEW img \in [Cells -> Versions], Render(c, img)
  PROVE  /\ journal' \in [Cells -> Nat]
         /\ image' \in [Cells -> Versions] /\ image' # NoImage
         /\ owed' \subseteq Cells
<1>1. world[c] \in Nat  BY DEF TypeOK, IsDirty, Missing, Unreadable
<1> QED  BY <1>1, ImageAssumption DEF TypeOK, Render, Versions

\* What a pass may begin with is an image.
LEMMA OpenedTypes ==
  ASSUME TypeOK, NEW img \in Opened
  PROVE  img \in [Cells -> Versions]
  BY ImageAssumption DEF TypeOK, Opened, NoVersion, Versions, Blank, Garbage

\* The pass that has not begun is on the grid.
LEMMA GridInit == Init => GridInv
<1>1. Init => lost \in BOOLEAN  BY DEF Init
<1> QED
  BY <1>1, SizeAssumption
  DEF Init, GridInv, TypeOK, LoopInv, Columns, Missing

\* Every step keeps the grid invariant.
LEMMA GridStep == GridInv /\ [Next]_vars => GridInv'
<1> SUFFICES ASSUME GridInv, [Next]_vars PROVE GridInv'
  OBVIOUS
<1> USE SizeAssumption
<1>1. ASSUME NEW u \in Updates, Update(u) PROVE GridInv'
  <2>1. world' \in [Cells -> {Missing, Unreadable} \cup Nat]
    BY <1>1 DEF Update, GridInv, TypeOK, Max2, Missing, Unreadable
  <2> QED
    BY <1>1, <2>1 DEF Update, GridInv, TypeOK, LoopInv, scanVars
<1>2. ASSUME NEW c \in Fragile, Damage(c) PROVE GridInv'
  BY <1>2 DEF Damage, GridInv, TypeOK, LoopInv, scanVars
<1>3. CASE StartPass
  BY <1>3 DEF StartPass, GridInv, TypeOK, LoopInv, Columns, InReach
<1>4. CASE SkipAnchor
  <2>1. z < Width /\ prev <= x + Step - 1
    BY <1>4 DEF SkipAnchor, GridInv, TypeOK, LoopInv, Columns
  <2>2. <<x, z>> \in Cells
    BY <2>1 DEF GridInv, TypeOK, Cells, Columns
  <2> QED
    BY <1>4, <2>1, <2>2, AdvanceOnGrid DEF SkipAnchor, GridInv, TypeOK, LoopInv
<1>5. CASE RenderAnchor
  <2>1. <<x, z>> \in Cells /\ z < Width
    BY <1>5 DEF RenderAnchor, GridInv, TypeOK, LoopInv, Cells, Columns
  <2>2. PICK img \in Opened : Render(<<x, z>>, img)
    BY <1>5 DEF RenderAnchor
  <2>3. /\ journal' \in [Cells -> Nat]
        /\ image' \in [Cells -> Versions] /\ image' # NoImage
        /\ owed' \subseteq Cells
    BY <1>5, <2>1, <2>2, OpenedTypes, RenderTypes DEF RenderAnchor, GridInv
  <2>4. todo' \subseteq Cells
    BY <1>5, <2>1, WindowInRegion DEF RenderAnchor
  <2>5. seen' \subseteq Cells
    BY <1>5, <2>1 DEF RenderAnchor, GridInv, TypeOK
  <2>6. prev' \in -1..(Width + Step) /\ prev' = x' + Step - 1
    BY <1>5 DEF RenderAnchor, GridInv, TypeOK, Columns
  <2> QED
    BY <1>5, <2>1, <2>3, <2>4, <2>5, <2>6
    DEF RenderAnchor, GridInv, TypeOK, LoopInv
<1>6. CASE LookAt
  <2>1. PICK c \in todo :
          /\ todo' = todo \ {c}
          /\ seen' = seen \cup {c}
          /\ IF IsDirty(c) THEN Render(c, image) ELSE UNCHANGED <<journal, image, owed>>
    BY <1>6, Zenon DEF LookAt
  <2>2. c \in Cells /\ image \in [Cells -> Versions]
    BY <1>6, <2>1 DEF LookAt, GridInv, TypeOK, LoopInv
  <2>3. /\ journal' \in [Cells -> Nat]
        /\ image' \in [Cells -> Versions] /\ image' # NoImage
        /\ owed' \subseteq Cells
    <3>1. CASE IsDirty(c)  BY <3>1, <2>1, <2>2, RenderTypes DEF GridInv
    <3>2. CASE ~IsDirty(c)
      BY <3>2, <2>1, <2>2, <1>6 DEF GridInv, TypeOK, LoopInv, LookAt
    <3> QED  BY <3>1, <3>2
  <2> QED
    BY <1>6, <2>1, <2>2, <2>3 DEF LookAt, GridInv, TypeOK, LoopInv
<1>7. CASE EndWindow
  <2>1. z < Width /\ prev <= x + Step - 1
    BY <1>7 DEF EndWindow, GridInv, TypeOK, LoopInv, Columns
  <2> QED
    BY <1>7, <2>1, AdvanceOnGrid DEF EndWindow, GridInv, TypeOK, LoopInv
<1>8. CASE EndPass
  BY <1>8 DEF EndPass, GridInv, TypeOK, LoopInv, scanVars
<1>9. CASE SaveFails
  BY <1>9 DEF SaveFails, GridInv, TypeOK, LoopInv, scanVars
<1>10. CASE Crash
  BY <1>10 DEF Crash, GridInv, TypeOK, LoopInv, scanVars
<1>12. CASE DeleteCache
  BY <1>12 DEF DeleteCache, GridInv, TypeOK, LoopInv, scanVars
<1>11. CASE UNCHANGED vars
  BY <1>11 DEF vars, GridInv, TypeOK, LoopInv
<1> QED
  BY <1>1, <1>2, <1>3, <1>4, <1>5, <1>6, <1>7, <1>8, <1>9, <1>10, <1>11, <1>12
  DEF Next, Pass

\* The variables keep their types: in particular, no window reaches over the
\* border of the region, whatever its width and the step.
THEOREM TypeCorrect == Spec => []TypeOK
<1>1. GridInv => TypeOK  BY DEF GridInv
<1> QED  BY GridInit, GridStep, <1>1, PTL DEF Spec

-----------------------------------------------------------------------------
(* No chunk is looked at twice in a pass. *)

\* What a running pass has looked at: all before the anchor in its row, and of
\* the rows below it nothing right of prev; the window is not part of it.
SeenInv ==
  pc \in {"anchor", "window"} =>
    /\ \A c \in seen :
         \/ Z(c) < z
         \/ Z(c) = z /\ (X(c) < x \/ (pc = "window" /\ X(c) = x))
         \/ Z(c) > z /\ Z(c) < z + Step /\ X(c) <= prev
    /\ pc = "window" =>
         \A c \in todo : c \notin seen /\ Z(c) > z /\ Z(c) < z + Step /\ X(c) <= prev

\* Every step keeps what was looked at behind the anchor loop and its window.
LEMMA SeenStep == GridInv /\ GridInv' /\ SeenInv /\ [Next]_vars => SeenInv'
<1> SUFFICES ASSUME GridInv, GridInv', SeenInv, [Next]_vars PROVE SeenInv'
  OBVIOUS
<1> USE SizeAssumption
<1>1. ASSUME NEW u \in Updates, Update(u) PROVE SeenInv'
  BY <1>1 DEF Update, SeenInv, scanVars
<1>2. ASSUME NEW c \in Fragile, Damage(c) PROVE SeenInv'
  BY <1>2 DEF Damage, SeenInv
<1>3. CASE StartPass
  BY <1>3 DEF StartPass, SeenInv
<1>4. CASE SkipAnchor
  <2>1. z < Width
    BY <1>4 DEF SkipAnchor, GridInv, LoopInv
  <2>2. \A c \in seen' : X(c) \in Columns /\ Z(c) \in Columns
    BY CellIsPair DEF GridInv, TypeOK
  <2>3. X(<<x, z>>) = x /\ Z(<<x, z>>) = z  BY DEF X, Z
  <2>4. CASE x + 1 < Width
    BY <1>4, <2>1, <2>2, <2>3, <2>4
    DEF SkipAnchor, Advance, SeenInv, GridInv, TypeOK, Columns
  <2>5. CASE ~(x + 1 < Width)
    BY <1>4, <2>1, <2>2, <2>3, <2>5
    DEF SkipAnchor, Advance, SeenInv, GridInv, TypeOK, Columns
  <2> QED  BY <2>4, <2>5
<1>5. CASE RenderAnchor
  <2>1. z < Width /\ prev <= x + Step - 2
    BY <1>5 DEF RenderAnchor, GridInv, LoopInv
  <2>2. \A c \in Window :
           Z(c) > z /\ Z(c) < z + Step /\ X(c) > prev /\ X(c) <= x + Step - 1
    BY <2>1, WindowInRegion
  <2>3. \A c \in seen \cup Window : X(c) \in Columns /\ Z(c) \in Columns
    BY <2>1, WindowInRegion, CellIsPair DEF GridInv, TypeOK
  <2>4. X(<<x, z>>) = x /\ Z(<<x, z>>) = z  BY DEF X, Z
  <2> QED
    BY <1>5, <2>1, <2>2, <2>3, <2>4 DEF RenderAnchor, SeenInv, GridInv, TypeOK, Columns
<1>6. CASE LookAt
  BY <1>6 DEF LookAt, SeenInv
<1>7. CASE EndWindow
  <2>1. z < Width
    BY <1>7 DEF EndWindow, GridInv, LoopInv
  <2>2. \A c \in seen' : X(c) \in Columns /\ Z(c) \in Columns
    BY CellIsPair DEF GridInv, TypeOK
  <2>3. CASE x + 1 < Width
    BY <1>7, <2>1, <2>2, <2>3
    DEF EndWindow, Advance, SeenInv, GridInv, TypeOK, Columns
  <2>4. CASE ~(x + 1 < Width)
    BY <1>7, <2>1, <2>2, <2>4
    DEF EndWindow, Advance, SeenInv, GridInv, TypeOK, Columns
  <2> QED  BY <2>3, <2>4
<1>8. CASE EndPass  BY <1>8 DEF EndPass, SeenInv
<1>9. CASE SaveFails  BY <1>9 DEF SaveFails, SeenInv
<1>10. CASE Crash  BY <1>10 DEF Crash, SeenInv
<1>12. CASE DeleteCache
  BY <1>12 DEF DeleteCache, SeenInv, scanVars
<1>11. CASE UNCHANGED vars  BY <1>11 DEF vars, SeenInv
<1> QED
  BY <1>1, <1>2, <1>3, <1>4, <1>5, <1>6, <1>7, <1>8, <1>9, <1>10, <1>11, <1>12
  DEF Next, Pass

\* The windows of a pass are disjoint, for every width and every step, in
\* whatever way the world changes meanwhile.
THEOREM NoChunkLookedAtTwice == Spec => []NoChunkTwice
<1>1. Init => SeenInv  BY DEF Init, SeenInv
<1>2. GridInv /\ SeenInv => NoChunkTwice
  BY DEF GridInv, TypeOK, SeenInv, NoChunkTwice, Columns, X, Z
<1> QED  BY GridInit, GridStep, SeenStep, <1>1, <1>2, PTL DEF Spec

-----------------------------------------------------------------------------
(* The journal and the image agree. *)

\* A pass without a cache directory writes no journal.
JournalInv == JournalMatchesImage /\ (cached \/ \A c \in Cells : journal[c] = 0)

\* What a pass begins with shows what the journal calls up to date: there is no such
\* chunk if the output file was left incomplete.
LEMMA OpenedShows ==
  ASSUME TypeOK, NEW img \in Opened, NEW c \in Cells,
         journal[c] = 0 \/ Shown(c) = journal[c]
  PROVE  journal[c] = 0 \/ img[c] = journal[c]
<1>1. CASE image # NoImage
  BY <1>1 DEF Opened, Shown
<1>2. CASE image = NoImage /\ file = NoImage
  <2>1. Shown(c) = Blank  BY <1>2, ImageAssumption DEF Shown
  <2> QED  BY <2>1 DEF Blank
<1>3. CASE image = NoImage /\ file = Partial
  <2>1. Shown(c) = Garbage  BY <1>3, ImageAssumption DEF Shown
  <2>2. journal[c] \in Nat  BY DEF TypeOK
  <2> QED  BY <2>1, <2>2 DEF Garbage
<1>4. CASE image = NoImage /\ file # NoImage /\ file # Partial
  BY <1>4 DEF Opened, Shown
<1> QED  BY <1>1, <1>2, <1>3, <1>4

\* Rendering a chunk changes the journal and the image alike.
LEMMA RenderAgrees ==
  ASSUME TypeOK, JournalInv, NEW c \in Cells, NEW img \in [Cells -> Versions],
         \A d \in Cells : journal[d] = 0 \/ img[d] = journal[d],
         Render(c, img)
  PROVE  \A d \in Cells : journal'[d] = 0 \/ image'[d] = journal'[d]
<1>1. CASE cached  BY <1>1 DEF TypeOK, Render
<1>2. CASE ~cached
  BY <1>2 DEF Render, JournalInv
<1> QED  BY <1>1, <1>2

\* A pass without a cache leaves the journal at zero.
LEMMA NoJournalStep ==
  ASSUME TypeOK, JournalInv, [Next]_vars
  PROVE  cached' \/ \A c \in Cells : journal'[c] = 0
  BY DEF JournalInv, Next, Pass, vars, Update, Damage, StartPass, SkipAnchor, RenderAnchor,
         LookAt, EndWindow, EndPass, SaveFails, Crash, DeleteCache, Render

\* Every step changes the journal and what the output shows alike, or loses an image,
\* or begins a new journal.
LEMMA JournalStep == GridInv /\ GridInv' /\ JournalInv /\ [Next]_vars => JournalInv'
<1> SUFFICES ASSUME GridInv, GridInv', JournalInv, [Next]_vars PROVE JournalMatchesImage'
  BY NoJournalStep DEF GridInv, JournalInv
<1>1. ASSUME NEW u \in Updates, Update(u) PROVE JournalMatchesImage'
  BY <1>1 DEF Update, JournalInv, JournalMatchesImage, Shown
<1>2. ASSUME NEW c \in Fragile, Damage(c) PROVE JournalMatchesImage'
  BY <1>2 DEF Damage, JournalInv, JournalMatchesImage, Shown
<1>3. CASE StartPass
  BY <1>3 DEF StartPass, JournalInv, JournalMatchesImage, Shown
<1>4. CASE SkipAnchor
  BY <1>4 DEF SkipAnchor, JournalInv, JournalMatchesImage, Shown
<1>5. CASE RenderAnchor
  <2>1. CASE lost
    BY <1>5, <2>1 DEF RenderAnchor, JournalMatchesImage
  <2>2. CASE ~lost
    <3>1. PICK img \in Opened : Render(<<x, z>>, img)
      BY <1>5 DEF RenderAnchor
    <3>2. <<x, z>> \in Cells
      BY <1>5 DEF RenderAnchor, GridInv, TypeOK, LoopInv, Cells, Columns
    <3>3. img \in [Cells -> Versions]
      BY <3>1, OpenedTypes DEF GridInv
    <3>4. \A d \in Cells : journal[d] = 0 \/ img[d] = journal[d]
      BY <2>2, <3>1, OpenedShows DEF GridInv, JournalInv, JournalMatchesImage
    <3>5. \A d \in Cells : journal'[d] = 0 \/ image'[d] = journal'[d]
      BY <3>1, <3>2, <3>3, <3>4, RenderAgrees DEF GridInv
    <3>6. image' # NoImage
      BY <1>5 DEF RenderAnchor, GridInv, LoopInv
    <3> QED  BY <3>5, <3>6 DEF JournalMatchesImage, Shown
  <2> QED  BY <2>1, <2>2
<1>6. CASE LookAt
  <2>1. CASE lost
    BY <1>6, <2>1 DEF LookAt, JournalMatchesImage
  <2>2. CASE ~lost
    <3>1. PICK c \in todo :
            IF IsDirty(c) THEN Render(c, image) ELSE UNCHANGED <<journal, image, owed>>
      BY <1>6, Zenon DEF LookAt
    <3>2. c \in Cells /\ image \in [Cells -> Versions] /\ image # NoImage
      BY <1>6 DEF LookAt, GridInv, TypeOK, LoopInv
    <3>3. \A d \in Cells : journal[d] = 0 \/ image[d] = journal[d]
      BY <2>2, <3>2 DEF JournalInv, JournalMatchesImage, Shown
    <3>4. \A d \in Cells : journal'[d] = 0 \/ image'[d] = journal'[d]
      <4>1. CASE IsDirty(c)
        BY <4>1, <3>1, <3>2, <3>3, RenderAgrees DEF GridInv
      <4>2. CASE ~IsDirty(c)
        BY <4>2, <3>1, <3>3
      <4> QED  BY <4>1, <4>2
    <3>5. image' # NoImage
      BY <1>6 DEF LookAt, GridInv, LoopInv
    <3> QED  BY <3>4, <3>5 DEF JournalMatchesImage, Shown
  <2> QED  BY <2>1, <2>2
<1>7. CASE EndWindow
  BY <1>7 DEF EndWindow, JournalInv, JournalMatchesImage, Shown
<1>8. CASE EndPass
  BY <1>8, ImageAssumption
  DEF EndPass, JournalInv, JournalMatchesImage, Shown, GridInv, TypeOK
<1>9. CASE SaveFails
  BY <1>9 DEF SaveFails, JournalMatchesImage
<1>10. CASE Crash
  <2>1. CASE image # NoImage
    BY <1>10, <2>1 DEF Crash, JournalMatchesImage
  <2>2. CASE image = NoImage
    BY <1>10, <2>2 DEF Crash, JournalInv, JournalMatchesImage, Shown
  <2> QED  BY <2>1, <2>2
<1>11. CASE DeleteCache
  BY <1>11 DEF DeleteCache, JournalMatchesImage
<1>12. CASE UNCHANGED vars
  BY <1>12 DEF vars, JournalInv, JournalMatchesImage, Shown
<1> QED
  BY <1>1, <1>2, <1>3, <1>4, <1>5, <1>6, <1>7, <1>8, <1>9, <1>10, <1>11, <1>12
  DEF Next, Pass

\* A chunk the journal calls rendered is in the output (or in the image that is about
\* to be saved) with exactly that LastUpdate, unless an image was lost since the cache
\* was last deleted.
THEOREM JournalTellsTheTruth == Spec => []JournalMatchesImage
<1>1. Init => JournalInv
  BY DEF Init, JournalInv, JournalMatchesImage
<1>2. JournalInv => JournalMatchesImage  BY DEF JournalInv
<1> QED  BY GridInit, GridStep, JournalStep, <1>1, <1>2, PTL DEF Spec

-----------------------------------------------------------------------------
(* A pass renders all it is sure to reach. *)

\* An anchor that changed and whose window has the chunk.
Anchors(c) ==
  {a \in Cells : /\ IsDirty(a) /\ Z(a) = AnchorRow(c)
                  /\ X(a) - X(c) < Step /\ X(c) - X(a) < Step}

\* The anchor loop has yet to come to this place.
Ahead(a) ==
  \/ Z(a) > z
  \/ Z(a) = z /\ X(a) > x
  \/ Z(a) = z /\ X(a) = x /\ pc = "anchor"

\* Where a chunk is that has to be rendered: it is an anchor ahead; or it is in
\* the window; or it is right of prev, or in a row of anchors to come, and has
\* an anchor ahead that changed.
OwedPlace(c) ==
  \/ Z(c) = AnchorRow(c) /\ Ahead(c)
  \/ Z(c) # AnchorRow(c) /\ AnchorRow(c) = z /\ pc = "window" /\ c \in todo
  \/ /\ Z(c) # AnchorRow(c)
     /\ \/ AnchorRow(c) > z
        \/ AnchorRow(c) = z /\ X(c) > prev
     /\ \E a \in Anchors(c) : Ahead(a)

OwedInv ==
  /\ pc \in {"anchor", "window"} => \A c \in owed : IsDirty(c) /\ OwedPlace(c)
  /\ pc = "save" => owed = {}

\* The anchor row of a chunk is a row of the region, less than a step above it.
LEMMA AnchorRowOf ==
  ASSUME NEW c \in Cells
  PROVE  /\ AnchorRow(c) \in Nat
         /\ AnchorRow(c) <= Z(c) /\ Z(c) < AnchorRow(c) + Step
         /\ AnchorRow(c) % Step = 0
<1>1. Z(c) \in Nat  BY CellIsPair DEF Columns
<1>2. Z(c) % Step \in Nat /\ Z(c) % Step < Step /\ Z(c) - (Z(c) % Step) \in Nat
  BY <1>1, RoundDown, SizeAssumption
<1>3. AnchorRow(c) \in Nat /\ AnchorRow(c) <= Z(c) /\ Z(c) < AnchorRow(c) + Step
  BY <1>1, <1>2, SizeAssumption DEF AnchorRow
<1>4. AnchorRow(c) % Step = 0
  BY <1>1, RoundedIsMultiple, SizeAssumption DEF AnchorRow
<1> QED  BY <1>3, <1>4

\* A step that writes no journal entry and leaves the world or makes it newer
\* keeps what is owed owed.
LEMMA OwedStays ==
  ASSUME OwedInv, pc' = pc, UNCHANGED <<x, z, prev, todo, owed>>,
         \A c \in Cells : IsDirty(c) => IsDirty(c)',
         owed \subseteq Cells
  PROVE  OwedInv'
<1>1. \A c \in Cells : Anchors(c) \subseteq Anchors(c)'
  BY DEF Anchors, AnchorRow
<1>2. \A c \in Cells : Ahead(c) => Ahead(c)'
  BY DEF Ahead
<1>3. \A c \in owed : OwedPlace(c) => OwedPlace(c)'
  <2> SUFFICES ASSUME NEW c \in owed, OwedPlace(c) PROVE OwedPlace(c)'
    OBVIOUS
  <2>1. c \in Cells /\ AnchorRow(c)' = AnchorRow(c)
    BY DEF AnchorRow
  <2>2. ASSUME NEW a \in Anchors(c), Ahead(a) PROVE a \in Anchors(c)' /\ Ahead(a)'
    BY <1>1, <1>2, <2>1, <2>2 DEF Anchors
  <2> QED  BY <1>2, <2>1, <2>2 DEF OwedPlace
<1> QED  BY <1>3 DEF OwedInv

\* When the anchor loop goes on, with nothing left in the window and the place
\* it leaves neither owed nor the changed anchor of what is owed, all that is
\* owed is still ahead.
LEMMA OwedAfterAdvance ==
  ASSUME GridInv, Advance, z < Width, UNCHANGED <<world, journal, cached>>,
         owed' = owed,
         \A c \in owed : /\ IsDirty(c)
                         /\ \/ Z(c) = AnchorRow(c) /\ Ahead(c) /\ c # <<x, z>>
                            \/ /\ Z(c) # AnchorRow(c)
                               /\ \/ AnchorRow(c) > z
                                  \/ AnchorRow(c) = z /\ X(c) > prev
                               /\ \E a \in Anchors(c) : Ahead(a) /\ a # <<x, z>>
  PROVE  OwedInv'
<1> USE SizeAssumption
<1>1. \A c \in Cells : /\ IsDirty(c)' = IsDirty(c)
                       /\ AnchorRow(c)' = AnchorRow(c)
                       /\ Anchors(c)' = Anchors(c)
  BY DEF IsDirty, AnchorRow, Anchors
<1>2. x \in Columns /\ z \in Nat /\ z % Step = 0 /\ owed \subseteq Cells /\ Step \in Nat
      /\ prev \in Int
  BY DEF GridInv, LoopInv, TypeOK
<1>3. ASSUME NEW a \in Cells, Ahead(a), a # <<x, z>>
      PROVE  Z(a) > z \/ (Z(a) = z /\ X(a) > x)
  BY <1>2, <1>3, CellIsPair DEF Ahead
<1>4. CASE x + 1 < Width
  <2>1. pc' = "anchor" /\ x' = x + 1 /\ z' = z /\ prev' = prev
    BY <1>4 DEF Advance
  <2>2. ASSUME NEW a \in Cells, Ahead(a), a # <<x, z>> PROVE Ahead(a)'
    <3>1. X(a) \in Columns /\ Z(a) \in Columns  BY CellIsPair
    <3> QED  BY <1>2, <1>3, <2>1, <2>2, <3>1 DEF Ahead, Columns
  <2>3. ASSUME NEW c \in owed PROVE IsDirty(c)' /\ OwedPlace(c)'
    <3>1. c \in Cells /\ Anchors(c) \subseteq Cells  BY <1>2 DEF Anchors
    <3>2. CASE Z(c) = AnchorRow(c) /\ Ahead(c) /\ c # <<x, z>>
      BY <1>1, <2>2, <3>1, <3>2 DEF OwedPlace
    <3>3. CASE Z(c) # AnchorRow(c)
      <4>1. PICK a \in Anchors(c) : Ahead(a) /\ a # <<x, z>>
        BY <3>3
      <4>2. a \in Anchors(c)' /\ Ahead(a)'
        BY <1>1, <2>2, <3>1, <4>1
      <4>3. Z(c) # AnchorRow(c)'
            /\ (AnchorRow(c)' > z' \/ (AnchorRow(c)' = z' /\ X(c) > prev'))
        BY <1>1, <2>1, <3>1, <3>3
      <4>4. IsDirty(c)'  BY <1>1, <3>1
      <4> QED  BY <4>2, <4>3, <4>4 DEF OwedPlace
    <3> QED  BY <3>2, <3>3
  <2> QED  BY <2>1, <2>3 DEF OwedInv
<1>5. CASE ~(x + 1 < Width)
  <2>1. x' = 0 /\ z' = z + Step /\ prev' = -1
        /\ pc' = IF z + Step < Width THEN "anchor" ELSE "save"
    BY <1>5 DEF Advance
  <2>2. ASSUME NEW a \in Cells, Ahead(a), a # <<x, z>>, Z(a) % Step = 0
        PROVE  Z(a) >= z + Step
    <3>1. X(a) \in Columns /\ Z(a) \in Columns  BY CellIsPair
    <3>2. Z(a) > z  BY <1>2, <1>3, <1>5, <2>2, <3>1 DEF Columns
    <3> QED  BY <1>2, <2>2, <3>1, <3>2, MultiplesApart DEF Columns
  <2>3. ASSUME NEW c \in owed
        PROVE  AnchorRow(c) >= z + Step /\ AnchorRow(c) < Width
    <3>1. c \in Cells  BY <1>2
    <3>2. /\ AnchorRow(c) \in Nat /\ AnchorRow(c) <= Z(c)
          /\ AnchorRow(c) % Step = 0 /\ Z(c) \in Columns
      BY <3>1, AnchorRowOf, CellIsPair
    <3>3. CASE Z(c) = AnchorRow(c) /\ Ahead(c) /\ c # <<x, z>>
      BY <2>2, <3>1, <3>2, <3>3 DEF Columns
    <3>4. CASE Z(c) # AnchorRow(c)
      <4>1. PICK a \in Anchors(c) : Ahead(a) /\ a # <<x, z>>
        BY <3>4
      <4>2. a \in Cells /\ Z(a) = AnchorRow(c)  BY DEF Anchors
      <4> QED  BY <2>2, <3>2, <4>1, <4>2 DEF Columns
    <3> QED  BY <3>3, <3>4
  <2>4. CASE z + Step < Width
    <3>1. pc' = "anchor"  BY <2>1, <2>4
    <3>2. ASSUME NEW a \in Cells, Z(a) >= z + Step PROVE Ahead(a)'
      <4>1. X(a) \in Columns /\ Z(a) \in Columns  BY CellIsPair
      <4> QED  BY <1>2, <2>1, <3>1, <3>2, <4>1 DEF Ahead, Columns
    <3>3. ASSUME NEW c \in owed PROVE IsDirty(c)' /\ OwedPlace(c)'
      <4>1. c \in Cells /\ Anchors(c) \subseteq Cells  BY <1>2 DEF Anchors
      <4>2. AnchorRow(c) \in Nat /\ X(c) \in Columns /\ Z(c) \in Columns
        BY <4>1, AnchorRowOf, CellIsPair
      <4>3. IsDirty(c)'  BY <1>1, <4>1
      <4>4. CASE Z(c) = AnchorRow(c)
        BY <1>1, <2>3, <3>2, <4>1, <4>3, <4>4 DEF OwedPlace
      <4>5. CASE Z(c) # AnchorRow(c)
        <5>1. PICK a \in Anchors(c) : Ahead(a) /\ a # <<x, z>>
          BY <4>5
        <5>2. a \in Cells /\ Z(a) = AnchorRow(c)  BY DEF Anchors
        <5>3. a \in Anchors(c)' /\ Ahead(a)'
          BY <1>1, <2>3, <3>2, <4>1, <5>1, <5>2
        <5>4. AnchorRow(c)' > z' \/ (AnchorRow(c)' = z' /\ X(c) > prev')
          BY <1>1, <1>2, <2>1, <2>3, <4>1, <4>2 DEF Columns
        <5> QED  BY <1>1, <4>1, <4>3, <4>5, <5>3, <5>4 DEF OwedPlace
      <4> QED  BY <4>4, <4>5
    <3> QED  BY <3>1, <3>3 DEF OwedInv
  <2>5. CASE ~(z + Step < Width)
    <3>1. owed = {}
      <4> SUFFICES ASSUME NEW c \in owed PROVE FALSE
        OBVIOUS
      <4>1. AnchorRow(c) \in Nat  BY <1>2, AnchorRowOf
      <4> QED  BY <1>2, <2>3, <2>5, <4>1
    <3> QED  BY <2>1, <2>5, <3>1 DEF OwedInv
  <2> QED  BY <2>4, <2>5
<1> QED  BY <1>4, <1>5

\* Rendering a chunk leaves every other chunk as dirty as it was.
LEMMA RenderKeepsOthersDirty ==
  ASSUME TypeOK, NEW c \in Cells, NEW img, Render(c, img), UNCHANGED <<world, cached>>
  PROVE  \A d \in Cells : d # c => IsDirty(d)' = IsDirty(d)
  BY DEF TypeOK, Render, IsDirty

\* The window takes over what an anchor is needed for.
LEMMA OwedAfterRenderAnchor ==
  ASSUME GridInv, OwedInv, RenderAnchor
  PROVE  OwedInv'
<1> USE SizeAssumption
<1> DEFINE here == <<x, z>>
<1>1. PICK img \in Opened : Render(here, img)
  BY DEF RenderAnchor
<1>2. /\ pc = "anchor" /\ pc' = "window" /\ x' = x /\ z' = z
      /\ prev' = x + Step - 1 /\ todo' = Window
  BY DEF RenderAnchor
<1>3. /\ z < Width /\ here \in Cells /\ owed \subseteq Cells
      /\ x \in Columns /\ z \in Nat /\ z % Step = 0 /\ prev \in Int
  BY <1>2 DEF GridInv, TypeOK, LoopInv, Cells, Columns
<1>4. \A d \in Cells : d # here => IsDirty(d)' = IsDirty(d)
  BY <1>1, <1>3, RenderKeepsOthersDirty DEF GridInv, RenderAnchor
<1>5. owed' = owed \ {here}
  BY <1>1 DEF Render
<1>6. \A c \in Cells : AnchorRow(c)' = AnchorRow(c)
  BY DEF AnchorRow
<1>7. \A a \in Cells : a # here /\ Ahead(a) => Ahead(a)'
  BY <1>2, <1>3, CellIsPair DEF Ahead
<1>8. \A c \in Cells : \A a \in Anchors(c) : a # here => a \in Anchors(c)'
  BY <1>4, <1>6 DEF Anchors
<1> SUFFICES ASSUME NEW c \in owed' PROVE IsDirty(c)' /\ OwedPlace(c)'
  BY <1>2 DEF OwedInv
<1>9. c \in owed /\ c \in Cells /\ c # here /\ IsDirty(c)' /\ OwedPlace(c)
  BY <1>2, <1>3, <1>4, <1>5 DEF OwedInv
<1>10. CASE Z(c) = AnchorRow(c)
  BY <1>6, <1>7, <1>9, <1>10 DEF OwedPlace
<1>11. CASE Z(c) # AnchorRow(c)
  <2>1. PICK a \in Anchors(c) : Ahead(a)
    BY <1>2, <1>9, <1>11 DEF OwedPlace
  <2>2. /\ a \in Cells /\ Z(a) = AnchorRow(c)
        /\ X(a) - X(c) < Step /\ X(c) - X(a) < Step
        /\ X(a) \in Columns /\ X(c) \in Columns /\ Z(c) \in Columns
        /\ AnchorRow(c) \in Nat
        /\ AnchorRow(c) <= Z(c) /\ Z(c) < AnchorRow(c) + Step
    BY <1>9, AnchorRowOf, CellIsPair DEF Anchors
  <2>3. CASE AnchorRow(c) > z
    <3>1. a # here  BY <1>3, <2>2, <2>3 DEF Z
    <3>2. a \in Anchors(c)' /\ Ahead(a)'  BY <1>7, <1>8, <1>9, <2>1, <2>2, <3>1
    <3> QED  BY <1>2, <1>6, <1>9, <1>11, <2>3, <3>2 DEF OwedPlace
  <2>4. CASE AnchorRow(c) = z /\ X(c) > prev
    <3>1. X(a) >= x
      BY <1>3, <2>1, <2>2, <2>4 DEF Ahead, Columns
    <3>2. CASE X(c) <= x + Step - 1
      <4>1. X(c) \in Max2(x - Step + 1, prev + 1)..(Min2(x + Step, Width) - 1)
        BY <1>3, <2>2, <2>4, <3>1, <3>2 DEF Max2, Min2, Columns
      <4>2. Z(c) \in (z + 1)..(z + Step - 1)
        BY <1>3, <1>11, <2>2, <2>4 DEF Columns
      <4>3. c = <<X(c), Z(c)>>  BY <1>9, CellIsPair
      <4>4. c \in todo'  BY <1>2, <4>1, <4>2, <4>3 DEF Window
      <4> QED  BY <1>2, <1>6, <1>9, <1>11, <2>4, <4>4 DEF OwedPlace
    <3>3. CASE X(c) > x + Step - 1
      <4>1. a # here  BY <1>3, <2>2, <3>3 DEF X, Columns
      <4>2. a \in Anchors(c)' /\ Ahead(a)'  BY <1>7, <1>8, <1>9, <2>1, <2>2, <4>1
      <4> QED  BY <1>2, <1>6, <1>9, <1>11, <2>4, <3>3, <4>2 DEF OwedPlace
    <3> QED  BY <1>3, <2>2, <3>2, <3>3 DEF Columns
  <2> QED  BY <1>2, <1>9, <1>11, <2>3, <2>4 DEF OwedPlace
<1> QED  BY <1>10, <1>11

\* A chunk of the window is rendered, or not owed; no anchor is in the window.
LEMMA OwedAfterLookAt ==
  ASSUME GridInv, SeenInv, OwedInv, LookAt
  PROVE  OwedInv'
<1> USE SizeAssumption
<1>1. PICK b \in todo :
        /\ todo' = todo \ {b}
        /\ IF IsDirty(b) THEN Render(b, image) ELSE UNCHANGED <<journal, image, owed>>
  BY Zenon DEF LookAt
<1>2. pc = "window" /\ UNCHANGED <<cached, world, pc, x, z, prev>>
  BY DEF LookAt
<1>3. /\ b \in Cells /\ owed \subseteq Cells /\ z \in Nat /\ z % Step = 0
      /\ Z(b) > z /\ Z(b) < z + Step
  BY <1>1, <1>2 DEF GridInv, TypeOK, LoopInv, SeenInv
<1>4. \A d \in Cells : d # b => IsDirty(d)' = IsDirty(d)
  <2>1. CASE IsDirty(b)
    BY <1>1, <1>2, <1>3, <2>1, RenderKeepsOthersDirty DEF GridInv
  <2>2. CASE ~IsDirty(b)
    BY <1>1, <1>2, <2>2 DEF IsDirty
  <2> QED  BY <2>1, <2>2
<1>5. owed' = owed \ {b}
  <2>1. CASE IsDirty(b)
    BY <1>1, <2>1 DEF Render
  <2>2. CASE ~IsDirty(b)
    BY <1>1, <1>2, <2>2 DEF OwedInv
  <2> QED  BY <2>1, <2>2
<1>6. \A c \in Cells : AnchorRow(c)' = AnchorRow(c) /\ Ahead(c)' = Ahead(c)
  BY <1>2 DEF AnchorRow, Ahead
<1>7. ASSUME NEW c \in Cells, NEW a \in Anchors(c)
      PROVE  a \in Anchors(c)'
  <2>1. a \in Cells /\ Z(a) = AnchorRow(c)  BY DEF Anchors
  <2>2. Z(a) \in Nat /\ Z(b) \in Nat /\ Z(a) % Step = 0
    BY <1>3, <2>1, AnchorRowOf, CellIsPair DEF Columns
  <2>3. a # b
    <3>1. CASE Z(a) <= z  BY <1>3, <2>2, <3>1
    <3>2. CASE Z(a) > z
      <4>1. z + Step <= Z(a)  BY <1>3, <2>2, <3>2, MultiplesApart
      <4> QED  BY <1>3, <2>2, <4>1
    <3> QED  BY <1>3, <2>2, <3>1, <3>2
  <2> QED  BY <1>4, <1>6, <2>1, <2>3 DEF Anchors
<1> SUFFICES ASSUME NEW c \in owed' PROVE IsDirty(c)' /\ OwedPlace(c)'
  BY <1>2 DEF OwedInv
<1>8. c \in Cells /\ c # b /\ IsDirty(c)' /\ OwedPlace(c)
  BY <1>2, <1>3, <1>4, <1>5 DEF OwedInv
<1>9. \A a \in Anchors(c) : Ahead(a) => a \in Anchors(c)' /\ Ahead(a)'
  BY <1>6, <1>7, <1>8 DEF Anchors
<1> QED  BY <1>1, <1>2, <1>6, <1>8, <1>9 DEF OwedPlace

\* Every step keeps what is owed in a place the loops are yet to come to.
LEMMA OwedStep == GridInv /\ SeenInv /\ OwedInv /\ [Next]_vars => OwedInv'
<1> SUFFICES ASSUME GridInv, SeenInv, OwedInv, [Next]_vars PROVE OwedInv'
  OBVIOUS
<1> USE SizeAssumption
<1>0. owed \subseteq Cells  BY DEF GridInv, TypeOK
<1>1. ASSUME NEW u \in Updates, Update(u) PROVE OwedInv'
  <2>1. \A c \in Cells : IsDirty(c) => IsDirty(c)'
    BY <1>1 DEF Update, IsDirty, Max2, GridInv, TypeOK, Missing, Unreadable
  <2> QED  BY <1>0, <1>1, <2>1, OwedStays DEF Update, scanVars
<1>2. ASSUME NEW c \in Fragile, Damage(c) PROVE OwedInv'
  BY <1>2 DEF Damage, OwedInv
<1>3. CASE StartPass
  <2>1. pc' = "anchor" /\ x' = 0 /\ z' = 0 /\ prev' = -1 /\ owed' = InReach
        /\ UNCHANGED <<world, journal, cached>>
    BY <1>3 DEF StartPass
  <2>2. \A c \in Cells : /\ IsDirty(c)' = IsDirty(c)
                         /\ Anchors(c)' = Anchors(c)
                         /\ AnchorRow(c)' = AnchorRow(c)
    BY <2>1 DEF IsDirty, Anchors, AnchorRow
  <2>3. \A a \in Cells : Ahead(a)'
    BY <2>1, CellIsPair DEF Ahead, Columns
  <2>4. ASSUME NEW c \in InReach PROVE IsDirty(c)' /\ OwedPlace(c)'
    <3>1. c \in Cells /\ IsDirty(c)'  BY <2>2 DEF InReach
    <3>2. AnchorRow(c) \in Nat /\ X(c) \in Columns
      BY <3>1, AnchorRowOf, CellIsPair
    <3>3. PICK a \in Cells : a \in Anchors(c)
      BY DEF InReach, Anchors
    <3>4. AnchorRow(c)' > z' \/ (AnchorRow(c)' = z' /\ X(c) > prev')
      BY <2>1, <2>2, <3>1, <3>2 DEF Columns
    <3> QED  BY <2>2, <2>3, <3>1, <3>3, <3>4 DEF OwedPlace
  <2> QED  BY <2>1, <2>4 DEF OwedInv
<1>4. CASE SkipAnchor
  <2>1. /\ pc = "anchor" /\ ~IsDirty(<<x, z>>) /\ z < Width /\ owed' = owed
        /\ Advance /\ UNCHANGED <<world, journal, cached>>
    BY <1>4 DEF SkipAnchor, GridInv, LoopInv
  <2>2. ASSUME NEW c \in owed
        PROVE  /\ IsDirty(c)
               /\ \/ Z(c) = AnchorRow(c) /\ Ahead(c) /\ c # <<x, z>>
                  \/ /\ Z(c) # AnchorRow(c)
                     /\ \/ AnchorRow(c) > z
                        \/ AnchorRow(c) = z /\ X(c) > prev
                     /\ \E a \in Anchors(c) : Ahead(a) /\ a # <<x, z>>
    <3>1. IsDirty(c) /\ OwedPlace(c)  BY <2>1 DEF OwedInv
    <3>2. \A a \in Anchors(c) : a # <<x, z>>  BY <2>1 DEF Anchors
    <3> QED  BY <2>1, <3>1, <3>2 DEF OwedPlace
  <2> QED  BY <2>1, <2>2, OwedAfterAdvance
<1>5. CASE RenderAnchor
  BY <1>5, OwedAfterRenderAnchor
<1>6. CASE LookAt
  BY <1>6, OwedAfterLookAt
<1>7. CASE EndWindow
  <2>1. /\ pc = "window" /\ todo = {} /\ z < Width /\ owed' = owed
        /\ Advance /\ UNCHANGED <<world, journal, cached>>
        /\ x \in Int /\ z \in Int
    BY <1>7 DEF EndWindow, GridInv, TypeOK, LoopInv, Columns
  <2>2. \A a \in Cells : Ahead(a) => a # <<x, z>>
    BY <2>1, CellIsPair DEF Ahead, X, Z
  <2>3. ASSUME NEW c \in owed
        PROVE  /\ IsDirty(c)
               /\ \/ Z(c) = AnchorRow(c) /\ Ahead(c) /\ c # <<x, z>>
                  \/ /\ Z(c) # AnchorRow(c)
                     /\ \/ AnchorRow(c) > z
                        \/ AnchorRow(c) = z /\ X(c) > prev
                     /\ \E a \in Anchors(c) : Ahead(a) /\ a # <<x, z>>
    <3>1. IsDirty(c) /\ OwedPlace(c) /\ c \in Cells  BY <1>0, <2>1 DEF OwedInv
    <3>2. \A a \in Anchors(c) : a \in Cells  BY DEF Anchors
    <3> QED  BY <2>1, <2>2, <3>1, <3>2 DEF OwedPlace
  <2> QED  BY <2>1, <2>3, OwedAfterAdvance
<1>8. CASE EndPass  BY <1>8 DEF EndPass, OwedInv
<1>9. CASE SaveFails  BY <1>9 DEF SaveFails, OwedInv
<1>10. CASE Crash  BY <1>10 DEF Crash, OwedInv
<1>12. CASE DeleteCache
  BY <1>12 DEF DeleteCache, OwedInv, scanVars
<1>11. CASE UNCHANGED vars
  <2>1. \A c \in Cells : IsDirty(c) => IsDirty(c)'
    BY <1>11 DEF vars, IsDirty
  <2> QED  BY <1>0, <1>11, <2>1, OwedStays DEF vars
<1> QED
  BY <1>1, <1>2, <1>3, <1>4, <1>5, <1>6, <1>7, <1>8, <1>9, <1>10, <1>11, <1>12
  DEF Next, Pass

\* A pass that reaches its end has rendered every chunk that had changed when it
\* began and had a changed anchor near, for every width and step, although the
\* game goes on writing chunks.
THEOREM ReachedIsRendered == Spec => []ReachIsRendered
<1>1. Init => SeenInv  BY DEF Init, SeenInv
<1>2. Init => OwedInv  BY DEF Init, OwedInv
<1>3. OwedInv => ReachIsRendered  BY DEF OwedInv, ReachIsRendered
<1> QED  BY GridInit, GridStep, SeenStep, OwedStep, <1>1, <1>2, <1>3, PTL DEF Spec
=============================================================================
