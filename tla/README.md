# pixel-terrain in TLA+

pixel-terrain draws maps of Minecraft worlds (`pixel-terrain image`), draws again only
what the game has changed since, and answers questions about single columns of blocks
over a socket (`pixel-terrain server`).  This directory holds TLA+ models of its parts,
TLC configurations that check them on small instances, and proofs that TLAPS checks for
every value of the constants.  Paths below are relative to the repository's root, `src/`
here; the program's own code is `src/src/`.

Contents: 1 inventory, 2 how the modules correspond to the code, 3 runs and bounds,
4 fairness, 5 proofs, 6 only model-checked, 7 findings, 8 not modelled, 9 plan.

    tlc -workers 2 -config ThreadedWorker.cfg ThreadedWorker     # a run
    tlapm ThreadedWorkerProofs.tla                               # a proof

## 1. Inventory

| part | code | state it keeps | operations | what makes it correct |
|---|---|---|---|---|
| thread pool | `utils/threaded_worker.hh` | `job_queue_`, `finished_`, the threads, two mutexes and a condition variable | `start`, `queue_job`, `finish`, the loop of a worker | every queued job is handled once, first come first served; `finish()` returns, and only from a drained pool |
| block server | `server/server_unix_socket.cc`, `block-server.cc` | the global pool and `worker_mutex`, the socket file, connections | `start_server`, the signal thread, one request per connection | SIGUSR1 answers what was queued, removes the socket file and ends the process; the two threads never use the pool against each other |
| request handler | `server/server.cc` | one request: place, column, answer, what must be deleted | `handle_request`, `resolve_block` | one answer for each request, about the right column, and nothing is left behind |
| request parser, writer | `server/request.cc`, `reader_unix.cc`, `writer_unix.cc` | two buffers, what is in them, whether a CR was seen | `parse_all`, `read_request_line`; `write_data`, `flush` | a request reads the same wherever the socket cuts it; nothing is read outside the buffer; the client reads one whole answer |
| image worker | `image/worker.cc` | the image of a region, the place of a pass, the pixels of a chunk | `generate_region`, `generate_chunk` with its scan and its shading | a pass renders what changed, once, and keeps the rest; a column shows what is seen from above; a pixel is shaded by its own column and the next ones' heights |
| region file, journal | `nbt/region.cc`, `nbt/file.hh` | mapped files: chunks with `LastUpdate`, last rendered version of each | `get_chunk_if_dirty`, `is_chunk_missing` | the journal promises nothing that the image does not show |
| image file | `graphics/png.cc`, `color.cc` | pixels | open, `fit`, save | what was drawn before survives |
| image generator | `generate-image.cc`, `image/generator.cc`, `containers.hh`, `image/utils.cc` | options, the queued regions with their copies of options | the command line, `queue_region`, `queue_all_in_dir`, `finish` | each region is rendered with its own options; the process ends after all of them |
| option parser | `subprojects/regetopt/regetopt.c` | the place in the command line, which it reorders | `regetopt` | a command line is read as what its parts say, in whatever order |
| logger | `logger/logger.cc` | progress, statistics per label | `progress_bar_*`, `record_stat`, `show_stat` | what is shown was counted |
| block colours | `tools/block_data_generator.cc`, `image/blocks.cc` | an array of bytes made when the program is built, and a table made from it | the generator, `init_block_list` | every block has the colour its source file gives it |
| chunk | `nbt/chunk.cc` | palettes, packed block states and lights of the sections, biomes | constructor, `get_block`, `get_max_height`, `get_block_light`, `get_biome` | a block is the one the game stored, for each way of packing, whatever build reads the document |
| pull parser | `nbt/pull_parser/` | five stacks, two flags, a union | `next()` | the events are those of the document's tree, and they end |
| NBT tree, paths | `nbt/tag.*`, `nbt/nbt-path.*`, `nbt/nbt.*` | a tree of tags; a compiled path | parse, `query`, `repr` | a path finds the node it names; both parsers agree |
| XML of a document | `nbt-to-xml.cc` | an indentation | the loop over events, or `repr` | elements nest as the tags do |
| worlds | `worlds/worlds.cc`, `world-info.cc` | `level.dat` of each directory | list, print | |
| other tools | `pixel-terrain.cc`, `dump-nbt.cc`, `tools/binary_generator.cc` | none | dispatch, print, pack a file | |
| bytes | `nbt/utils.*` | none | byte order, zlib | |

How they interact.  `image_main` reads options with `regetopt` and queues regions into a
thread pool whose handler is `worker::generate_region`; that reads chunks through
`region` (which keeps the journal), draws them with the colours of `blocks.cc`, and saves
a `png`.  An `atexit` handler drains the pool and prints what the logger counted.
`start_server` queues connections into another pool; its handler parses a request with
`request`, resolves it with `server.cc` through `region` and `chunk`, and writes through
`writer_unix`.  A signal thread finishes and deletes that pool.  `chunk` gets its fields
by querying an NBT tree with paths; a build option lets it walk the events of the pull
parser instead, and the same option decides how `nbt-to-xml` prints.

What is hard to test, and so what the properties are about: a worker between unlocking
one mutex and waiting under another; a pool whose threads could not be created; SIGUSR1
in every state of start-up, accepting and failing; a journal that is written before the
image it promises, and an image that is lost while its journal stays; a game that writes
the chunks while they are read; windows that overlap at the borders of a region; jobs
that share an output or a journal; requests cut between CR and LF, or as long as the
buffer; an answer of a byte more than the buffer, to a client that has gone; coordinates
below zero; bits of a block that go on in the next word; pixels that are changed while
their neighbours are worked out from them; nested loops that take events from one parser;
stacks that must grow and shrink together; arguments that are moved while they are read;
a table of entries of any length, found by adding up lengths.  `PROJECT.json` lists each
of them with its line.

## 2. Modules and code

### The server

**JobPool** is the abstract pool: jobs are submitted, begun in that order by at most
`Capacity` threads, ended; after `Close`, `Return` happens when all is done.  A pool that
could not be started (`Break`) promises nothing but to run nothing.

**ThreadedWorker** is `threaded_worker.hh`, one action for each critical section.
`owner` is where the owner's thread is (inside `start()`, between calls, inside
`finish()` notifying or joining), `pc[w]` where a worker is: `"fetch"` before it locks
`queue_mtx`, `"gap"` between unlocking it with an empty queue and waiting on
`signal_cond_`, `"waiting"`, `"handling"`, `"exited"`.  `cond.wait` has no predicate, so
`WakeSpuriously` is an action.  It implements JobPool (`ImplementsJobPool`).

**BlockServer** composes `start_server`, `handle_signals` and the pool.  The pool is used
through what JobPool promises: `SafeOnceAccepting` contains that every behaviour of the
server is, seen from the pool, one of JobPool's.  That a thread can sleep through a
notification, which ThreadedWorker shows, is kept as the choice `missed`.  `misuse`
records what the C++ calls a data race or a use after delete; what follows is chosen
among what a process can do then.  The request itself is answered, throws, or is never
sent.

**RequestReader** is `parse_all` and `read_request_line`: the buffer is the `got` bytes
of the stream after the first `base`, `Fill(n)` is a `read()` that returns n bytes.
**LineSplitter** says what the lines of a stream are without a buffer, and RequestReader
implements it (`ReadsLinesOfStream`).  **Connection** extends it to one whole connection:
when the request is read `Respond` chooses an answer the fields allow, `Put` and `Flush`
are `writer_unix::write_data()` byte by byte, `DeleteWriter` sends the rest, `Close`
closes.  `HangUp` is the client going away at any time; nobody looks at what `write()`
returns.

**RequestHandler** is `handle_request` and `resolve_block`: the arithmetic of a
coordinate with C++'s truncating division, the answer on each early return, the search of
a column, and what is deleted where (`held`).

### Images

**RegionScan** is `generate_region` with `get_chunk_if_dirty`.  A chunk is its
`LastUpdate`, or missing, or unreadable; the image and the output file say which version
of each chunk they show.  `StartPass` opens the journal and the first anchor,
`SkipAnchor`/`RenderAnchor` are one turn of the loop over anchors, `LookAt` one chunk of
the window around a changed anchor, `EndWindow`, `EndPass` the save.  The environment
updates and damages chunks at any time and may delete the journals (`DeleteCache`);
`Crash` and `SaveFails` are bounded failures, and `lost` remembers that an image was lost
while its journal stayed.

**ImageRun** is one run of `pixel-terrain image`: the options one by one, the queueing of
every file of a directory, the copies of options that go with a region, the pool (an
instance of JobPool), the counters and the exit handler.  A region is rendered whole in
`Begin` and `End`; what happens within is RegionScan's.  **OptionParser** is `regetopt()`
with the table of `image`: a function from a command line to the options, their arguments
and the operands' new order, pass by pass.  `Understood` compares it with what the parts
of the command line say: `Phrases` and `Endings` give each part with its meaning, and the
named assumptions say that alone it is read so by `ScanPass`, the same parser over a list
of arguments that it does not reorder.

**ChunkData** is `chunk.cc`: the constructor over what the queries find in a document,
section by section, and the lookups.  A word is the set of its bits that are 1, so that
shifts and masks are set operations, and the word after the end of an array is any word;
a byte of light is a number that `decode_nibble` halves.
**ColumnScan** extends it with the loop over y of `scan_chunk` for each column, and
`pixel_state`; **ChunkPixels** extends that with the passes over the pixels of a chunk
(biomes, inclination along rows and then columns, in place, light) and with the drawing.
Of a colour the tone (one channel) and the alpha are kept.

**ColorTable** is the way of those colours from lines of text to the table the scan asks:
`load_colors` and `write_content` of `block_data_generator.cc`, and `init_block_list` of
`blocks.cc` that reads the array again, entry by entry from the front (`TakeEntry`).
ChunkPixels extends it beside ColumnScan, and its instance for TLC looks that the colours
chunks are drawn with are the ones of such a table (`TableHasThem`).

### NBT

**PullParser** is `nbt_pull_parser::next()` with its five stacks, two flags and the
union's string.  The data are pieces whose content is chosen when read, so that one run
covers every document up to a length, whole, cut short or corrupt.  **TagStream** says
what events a document's tree gives, with one stack; PullParser implements it
(`ImplementsTagStream`).

**ChunkFields** is the other build of `chunk.cc`, in which a field is looked for when it
is first asked for and what lies on the way is kept: `place` is which of the nested loops
of `parse_fields()` and `parse_sections()` asks the parser for the next event, and the
parser is what TagStream says of it.  Documents grow tag by tag, out of the names a chunk
has at each depth, and `doc` remembers where the fields really are.  A name is not
repeated within one compound, here and in the proofs: the game writes no such document.

**NbtTree** is the recursive parser of `tag.cc` and `nbt.cc`, the queries by path, and
`repr()`.  Some checks of this parser let it read a byte, a header or the end of an array
behind the data, where anything may be: an operator of NbtTree gives the set of what it
may return.  **NbtParsers** puts the two parsers beside each other: it records the pieces
that PullParser has read and asks the tree parser what it makes of them.  `Whole` says
when a document is complete and read without an error; a document in which the parsers
are meant to differ (a list of long arrays, which `tag.cc:377` refuses; a negative
length) is named by `NoListOfArrays` and `Plain`.

**XmlOutput** is the loop of `nbt-to-xml` over the events of PullParser: `Output` prints a
line for an event and counts the indentation; an exception ends it.  `Nests` says of lines
what makes them XML, by their indentation: an element is closed by the first line at its
own depth.  **NbtToXml** sets these lines beside those of `repr()` (`BuildsAgree`).  The
parser gives `DATA` in a tag of an unknown type again and again, a document without an
end: NbtToXml leaves out all but one of them (`BothOutput`), XmlOutput none.

### For the proofs and for TLC

The modules named `...Proofs` hold the theorems; **RequestProofs** those of Connection
and of RequestHandler.  The modules named `MC...` give the constants their values.

Definitions marked "Mutant" are plausible mistakes (a dropped guard, a loop one too long,
a swapped order).  Each one replaces the definition it is a variant of, and the run's
property must then fail: that is how each property was seen to depend on the code.

## 3. Runs, bounds and what they show

| run | model and bounds | shows |
|---|---|---|
| `worker` | ThreadedWorker: 3 jobs, 3 workers, so that one sleeps, one is in the gap and one works at once, and order shows | the refinement of JobPool; `finish()` hangs only through a missed notification, and queued jobs wait only when all workers sleep |
| `lost_wakeup` | the same, 1 job, 2 workers | counterexample to `FinishReturns` |
| `server` | BlockServer: 3 clients, 2 threads: both busy, one connection queued or in the accept loop's hand when the signal arrives at any moment | shutdown loses at most one connection; the pool is used as JobPool promises and without a race once connections are accepted; the socket file goes; the signal stops the server; what is queued is answered |
| `server_error` | the same, 2 clients, 1 thread | counterexample to `ServerErrorIsAnswered` |
| `scan` | RegionScan: 4 x 4 chunks with step 2 (two anchor rows, windows that overlap at both borders), two versions, one unreadable chunk, one crash or failed save, with and without a journal, which may be deleted | journal and image agree unless an image was lost since, no chunk twice, what a pass reaches it renders |
| `connection` | Connection: a buffer of 6 bytes, every stream of up to three pieces out of lines that fit, just fit or do not, and fragments; one field more than allowed; a writer's buffer of 2 bytes and answers of 1 to 5 | lines are those of the stream, no read past the buffer, the client reads the beginning of one answer and all of it if it stays, every connection ends |
| `handler` | RequestHandler: the code's sizes, coordinates at the borders of chunks and regions on both sides of zero; every column of five blocks, the nether's limit inside it | one answer, the uppermost candidate, the right region, chunk and place, and what is deleted |
| `handler_z` | the same | counterexample to `ColumnIsAtCoordZ` |
| `image` | ImageRun: command lines of four arguments over two dimensions with equal file names and a directory of one odd file, 3 regions, 2 threads.  OptionParser: every command line of up to three of ten phrases (each form of an option, arguments that look like options, operands) and eight endings | the exit handler drains and every region was counted, and without threads nothing is rendered in part; labels are a region's own; what has its own output and journal is shown; command lines are read as what they say |
| `chunk` | ChunkPixels: two sections of 3 x 3 x 3 blocks, words of 4 bits, 1, 2 or 3 bits for a block (3 does not divide 4, so blocks cross words), both packings; every column of layers over a flat chunk, slopes, biomes, lights; documents with odd sections.  ColorTable: files with each form of a colour, repeated, out of order, too long and badly written | blocks are the stored ones, sections are not mixed, layers are those seen, each pixel is shaded by itself, colours are the source files' |
| `fields` | ChunkFields: every document of up to seven named tags of a chunk's vocabulary (fields in any order, repeated at other depths, sections with and without their parts), cut anywhere, the four fields asked for in any order | the path follows the tags through every nested loop; what is found is the document's; every request ends |
| `nbt` | PullParser, NbtTree, XmlOutput, NbtToXml: every document of up to six pieces (a name, a header, a datum, an end), cut anywhere, with every type, with lengths -1 to 2, and names that repeat; six pieces hold a list or a compound with two inner tags inside the root | the stacks agree, the events are a tag stream's, strings are deleted once, the events end; the tree parser gives the tree of those events and refuses what is cut; paths of one to three keys, with or without an index, find what is there; the lines of XML nest, are complete when the document ends, and say the same in both builds |

Why the bounds are enough: each was chosen as the smallest at which the cases named in
its row happen together.  The loops of `generate_region` have period `step`, so two
anchor rows and two windows per row show every overlap; the reader's state is the buffer,
and six bytes hold a line with CR and LF that fits, fills and exceeds it; in the writer's
an answer is shorter, as long, a byte longer and more than twice as long; the packing of
bits depends on `bits`, the word's size and their remainders only; a side of three pixels
has a first, a middle and a last one; seven tags hold a section with `Y`, a palette's
entry and the way to them, or two fields and a name that only looks like one.  The
theorems of section 5 lift most of it to every size.  Deadlock checking is off in runs
whose process, pass or parser really ends.

Type invariants: `TypeOK` where it is a property of its own (`worker`, `scan`, `chunk`);
elsewhere it is the first conjunct of a deeper invariant or is proved.

## 4. Fairness

* ThreadedWorker: weak fairness for `finish()` once it is called and for each worker's
  own steps (a thread that can run is scheduled, a handler returns).  None for the
  owner's calls and for spurious wake-ups.
* BlockServer: weak fairness for the main thread, the signal thread, the taking of a
  connection by the pool unless it missed a notification, each handler, and a client that
  has connected (it sends or hangs up; a read has no timeout, so a client that does
  neither holds a thread for ever, and no property excludes that).  None for connecting
  or for the signal.
* Connection: weak fairness of the thread that serves it; every stream ends, that is the
  client closes its end at last.  None for `HangUp`.
* PullParser, and with it NbtToXml: weak fairness of `next()`: the callers loop until
  `DOCUMENT_END`.
* ChunkFields: weak fairness of the loops of a request that has begun.  None for asking
  and for a parser that throws.
* The other modules state safety only and assume no fairness.

## 5. What is proved

The theorems hold for all values of the constants under the named `ASSUME`s of the
modules, which the runs evaluate too.

**ThreadedWorkerProofs.** `ControlInv` relates the owner's place, `started`, `finished_`,
the number of threads and where workers are (a worker that has exited saw an empty queue
and `finished_`; a joined one has exited; before `start()` returns there are no jobs).
With it `JobsConserved` (`EachJobInOnePlace`) is inductive, and from both follow
`DrainedWhenFinishReturns`, `NothingRunsAfterFailedStart` and, action by action,
`WorkerImplementsPool`: `Spec => Pool!Spec`.

**BlockServerProofs.** `ServerInv` adds to the types what the two threads leave each
other (`ThreadsInv`: there is a pool once `main` is past its start, and while
`worker_mutex` is free and `main` is not on its fail path nobody has closed it) and where
connections are (`ConnInv`: `main` holds at most one, those queued are in line once, and
none is left when the signal thread is past `finish()`).  From it follow
`ShutdownDrains` and `PoolUsedAsPromised`; the latter includes the refinement of JobPool,
for which every action is mapped to a call of the pool or to a stutter.
`FileFollowsServer` proves `SocketFileFollowsServer`: from `bind()` on the file is there
until `unlink()` (`FileInv`), and a server that accepts is past the one `bind()` that could
create it again (`FileGone`).

**RequestProofs.** About Connection: `BufferInv` (what is between `base`, `end` and
`got`, and what `cr` says) gives `BufferRespected` and `LinesReadAreTheStreams`, the
refinement of LineSplitter, for every buffer size and every stream; with `FieldsInv`,
`TypeCorrect`.  As a connection is a reader with more steps (`ConnectionIsReader`), both
hold in it (`ConnectionReadsLines`).  `AnswerInv` says that the buffer holds the last
bytes that were written and the client what came before them, or less once it has gone;
with it `AnswerReachesClient`, for every size of answer and buffer.

About RequestHandler: `CoordinatesLocated` needs the lemmas on division, as C++ division
is not TLA+'s.  `SearchRange` and `SearchInv` (above y there was nothing to answer, and
`airFound` says whether there was air) give `OneAnswer` and `SurfaceFound`; `HeldInv`
(what is held at each place) gives `NothingIsKept`.

**RegionScanProofs.** `GridInv` (where anchors and windows can be), `SeenInv` (what has
been looked at is left of the window and in this group of rows or above), `JournalInv`
(image, file and journal during a pass, unless an image was lost since the cache was last
deleted) and `OwedInv` (what is owed is still ahead) give `NoChunkLookedAtTwice`,
`JournalTellsTheTruth` and `ReachedIsRendered`, for every width and every step that
divides it.

**ImageRunProofs.** `RunInv` collects the types, that a region's name is one of its
source's (`NamesInv`), that each job is in one place of the pool (`PoolInv`), that the
counters and the statistics count what was taken (`CountInv`, `LabelInv`), and that a
region which has output and journal to itself was drawn, and is in its file when it is
done (`ShownInv`), and that a pool without threads has begun nothing (`BrokenInv`).
It gives `ExitDrainsThePool`, `LabelsDoNotMix` and
`OwnOutputIsShown`, for every command line and any number of threads and files.

Its last part is about OptionParser.  `Lockstep`: after each pass, what `regetopt()` has
still to read of the array that it reorders, the operands behind it, the options and the
place in a group of letters are those of `ScanPass`, which reorders nothing; the step for an
operand is that `reorder_option()` rotates the array so, the one for an option that what is
read does not depend on where it stands, as long as the same argument, or none, comes
after it and nothing that was moved away is taken for it (`OptionPass`).  Then no invariant
over steps is needed but an induction on passes and phrases: a phrase is read as it is
alone whatever was read before it and whatever follows it (`PieceIsRead`, unless it lacks an
argument, and then it is an error only at the end), and so are all phrases of a command
line (`PhrasesAreRead`) and its ending (`EndingIsRead`).  `CommandLinesAreRead` is
`CommandLineIsRead`, for every table of options, all arguments and any number of phrases.
It rests on `PhraseAssumption` and `EndingAssumption`, that the phrases and endings given
are, alone, what they are said to be within `PhrasePasses` passes: the image run checks
that for its own.

**ChunkDataProofs.** `StretchedBlockReadsItsBits` and `UnstretchedBlockReadsItsBits`:
what `get_block()` masks and shifts out of one or two words are the block's own bits, for
every word size, number of bits and index.  `KeptInv` (what is kept for a Y comes from a
section already read) gives `KeptSectionsBelongTogether`.  With `StoredInv` (a section that was read and has a
palette is kept) `StoredBlockIsFound` proves `BlockIsTheOneStored`: the shifts of
`get_block()` find the id that was packed, and the palette its name.  That rests on
`PackedAssumption`, the game's format, which says where in the bits of all the words
together each id is, and nothing of words or shifts.  `PixelsShadedAlone` proves
`PixelsAreShaded` for every chunk, document and table of colours.  `LightInv` types the
light, of which there is one for each block (`IndexInLight`); `ScanInv` says of a column that it is
finished, being looked at or still blank, and
of what was found that layers are in order from the top and, in a finished one, that the
ground is opaque and drawn once; `ShadeInv` says how far each of the loops in place has
come, so that a pixel has the tone before or after its own step (`RowStep`, `ColumnStep`,
`RowEnds`).  `Blended` and `BlendedOnOpaque` are about the division of `blend_color()`.  `TypeCorrect` types the
chunk and the pixels with it.

`LayersAreFound` proves `LayersAreSeen`: of every column of every chunk, the scan finds the
two layers and the ground that are seen from above.  Its invariant `SurfaceInv` relates the
loop's variables to the blocks above the height it has reached: what it knows of them
(`Walked`), what it has found of the layers that are seen among them (`Found`), and, once
the column was left, that nothing more is seen below (`Done`).  The blocks seen through are
blended by a function that is recursive over heights (`Through`); `BlendsExist` shows that
there is one, by taking a highest place where the recursion would break off.  It rests on
`TableAssumption`: "" names no block, air is invisible, and a block that is tinted has a
colour, all true of the tables in `src/block/minecraft/`.

`TableAlwaysTheSources` proves `TableIsTheSources` for every list of source files.  It goes
from the array back to the lines.  `Before`, the order of the set, is a strict total order
(`Lower`, `BeforeAt`), so the numbers of the IDs below each one, its rank, run through the
table without a gap (`RanksAre`), and `write_content()` writes every entry once; the
entries stand back to back, each where the one before it ends (`WrittenIs`, `DataAt`).
`WrittenIsRead`, a theorem of its own, shows that the reader's offset is at the beginning of an entry
at each turn, that it takes the entry (`EntryIsTaken`), and that it comes to the 0 at the
end after exactly as many turns as there are entries: a longest ID is as long as a byte
can say, and no ID has length 0.  On the other side `FieldsOfLine` and `ColorIsRead` are
about a proper line (its two fields; each of the four forms of a colour), and
`Represents` says after each line what the set holds of the lines up to it, the first one
about each block (`OneLineMore`, `FileIsLoaded`, `ElementsAre`).  `TooLongIsRefused`: once
one ID is too long, no later line or file makes up for it.  It rests on
`FilesAssumption` alone: files are lines of text.  Recursive functions over data occur
throughout (`Iterates` shows that such a function is there, and `UpTo`, that what holds
at 0 and is passed on holds up to the end): induction over numbers is had from
the well-foundedness of <, by taking a least place where the claim would fail.

**PullParserProofs.** `ParserInv` says what the stacks have to do with each other, for
documents of any length and depth: names and types are of the same tags and all below the
top are lists and compounds (`StackInv`), the flags say which tag is at the top
(`FlagInv`), each list has its type of elements and each array and list its index and
length (`CountInv`, until the data end, and with more left over once a corrupt document
has made the parser go on), and the union holds a string from its datum to the end of its
tag (`UnionInv`).  `ParserStacksAgree` is `StacksAgree`; `ParserImplementsTagStream` maps
each `next()` to one event of the tree or to a stutter.  No induction over documents is
needed: the byte that is read next is any byte.  `XmlIsWhole` proves `XmlIsTheDocument`.
`OutputInv` ties the lines to the parser's stack, both ways: every tag of the stack has a
line that opens it, at its depth, with only deeper lines after it (`Opened`), and every
line that opens an element has either the line that closes it or its tag (`Accounted`); a
document ends with an empty stack, in a corrupt one too.

**ChunkFieldsProofs.** `ChunkInv` has what holds in every document, whole or cut: the
types, the tree the parser stands in (`TreeInv`) and how long `tag_structure` is beside it
(`HeightInv`).  In a whole one (`Whole`, up to the ends that follow where it was cut) it
has the place in the tree for each place of the two loops (`FieldsPlaceInv`, `ValueInv`,
`SectionInv`), that what is kept is what the document has (`KeptInv`) and what is known of
the element of `Sections` in hand (`ElementInv`).  From it follow `LoopsFollowTags`, that
is `StructureFollowsTags`, and `FieldsAreFound`, that is `FieldsAreTheDocuments`.
`ValuesAssumption` (a byte is not negative, and no section has the number that stands for
none) and `TypesAssumption` are about the values the runs give.

## 6. Only model-checked

* Liveness (`FinishReturnsUnlessMissed`, `TakenUnlessAllAsleep`, `SignalStopsServer`,
  `QueuedIsAnswered`, `ConnectionEnds`, `EndsUnlessUnknownTag`, `RequestsEnd`), which the
  prover does not reach.
* NbtTree and what compares with it (`BuildsAgree`, `QueryFindsTheTag`): parser, queries
  and `repr` are RECURSIVE.
* What one phrase of a command line means is given, and checked by the image run for the
  phrases it has; that they can be put together is proved.  In the same way the colours that
  chunks are drawn with are a constant, and that they are those of a table is checked by the
  chunk run for its own; that every table is the one of its files is proved.

## 7. Findings

* `threaded_worker.hh:57` (`lost_wakeup`): a worker that found the queue empty can miss
  `notify_all`, and `finish()` joins it for ever.
* `server.cc:170` (`server_error`): a chunk that cannot be decoded throws out of a pool's
  thread and ends the whole server instead of giving one client a 500.
* `server.cc:119` (`handler_z`): the z inside the chunk is computed from x.

Seen on the way, not shown by a run of their own.  Server:

* `parse_all`'s result is ignored (`server.cc:272`); the destructor of a response logs
  its "BUG" message always.
* `server_unix_socket.cc:90-93, 136-142`: before connections are accepted and on the path
  of a failure, the main thread uses the pool without `worker_mutex`.
* `server_unix_socket.cc:30`: a process that is killed leaves its socket file, on which the
  next `bind()` fails; and one that is signalled before its own `bind()` may create the
  file after it was unlinked.  `SocketFileFollowsServer` is about servers that accept.

Images:

* `worker.cc:303`: the comment that a step of 4 captures every update of radius 3 does
  not hold for rows above the first anchor row that changed: such a chunk is looked at
  neither in this pass nor in a later one.  `ReachIsRendered` is about what is in reach.
* `region.cc:41`: a journal has only the region's file name, so that two dimensions with
  one cache directory take each other's for their own; `generator.cc:119`: without an
  output directory all regions have one output file, which several workers then read and
  write at once.  ImageRun has the shared journal, and sets a file whole;
  `RegionsAreShown` is about regions that share neither (`Alone`).
* `generator.cc:53`: an `--outname-format` leaves `out_file` unassigned on one path;
  `parse_region_file_path` lets `stoi` throw; a pool of 0 threads (`--jobs`, or
  `hardware_concurrency()`) never runs its jobs.
* `containers.hh:27`: `clear()` leaves `out_path_is_dir_` and the label, and the first of
  them is not initialised: after `--out=map.png --clear` a region is told to write "."
  itself.  ImageRun has this in `Cleared` and in the constant `Garbage`.
* `image --generate=A -j 2` prints the usage and exits with 1 unless operands follow, and
  `--generate=A file` ignores the file.
* `regetopt.c`: an ambiguous abbreviation is reported before a later option with exactly
  that name is met; operands change their order when a `--` follows one that was moved.
* `worker.cc:119`: height 0 means "no such layer", so a translucent block alone at y = 0
  counts as the ground; an unknown block above the first known one takes the light at
  y = 0; an invisible block alone above no ground still gives the height that darkens.
* `png.cc:98`: `fit()` bounds a loop over rows with widths, which only an output file that
  is not square shows.
* `block_data_generator.cc`: an entry with an empty ID is written with the length 0 that
  ends the table, and sorts first, so that the whole table reads as empty; of two entries
  with one ID the first counts; a blank line is fatal; "0g" is accepted as a number; an ID
  with a quote or a backslash is written as it is into a comment.
* `binary_generator.cc`: a character literal as the very last thing of its input is a
  syntax error; "08" is refused or decimal depending on how near the end is.

NBT and chunks:

* `chunk.cc`: a constructor that throws after the sections leaks them; of two sections
  with one Y the later replaces the states also when it has no palette; a palette's element
  without a name shifts the ids after it; the word after the end of a truncated array is
  read; the indices of `get_biome` do not address the cell of the block.
* `chunk.cc:473-487`: in the build on the pull parser `get_block` reads `palettes` before
  it makes sure that Sections was parsed, so until `get_max_height` has been called every
  block is air; the server's path for the nether calls `get_block` first.  There
  `parse_sections` also reads `Y` and `Name` without checking that the event is a datum,
  and does not look at the type of Sections.
* `nbt_pull_parser.cc:144, 362`: a list of TAG_END that claims elements leaves stale
  indices; a tag of an unknown type gives DATA for ever.
* `tag.cc:134-138`: a path that goes on behind an element of a list finds that element,
  whatever follows, unless it is a list itself (the result of the inner query is dropped).
* `tag.cc:377`: a list of TAG_Long_Array is refused, a compound may hold one (`:417`).
* `nbt-path.hh:81`: `compile()` does not initialise `ignore_empty_list_`; `worlds.cc`
  queries with such paths.  `chunk.cc` sets it always.
* `nbt-path.cc:48`: an index that begins with 0 is not accepted, so the first element of
  a list cannot be named; `nbt-path.abnf` has `1*DIGIT`.
* A length below zero is a list or array of nothing for the pull parser and a very long
  one for the tree parser: cut off by the end of the data, or, of TAG_END, which takes
  none, as long as memory lasts (`tag.cc:389`).
* `nbt-to-xml.cc`: the two builds print different documents (`<item>` and `<element>`,
  types of elements in one, `name=""` everywhere in the other), and only one of them
  refuses data behind the root; `--version` is an unknown option.
* `dump-nbt.cc`: `--where` returns a value no case of the switch handles, so it ends the
  program with 1.
* `worlds.cc:116-156`: the search of the other build returns false also when it has found
  the name; it counts names that match without looking at where, so that a `LevelName`
  in a tag before `Data` ends it; and it never looks for DOCUMENT_END, so that a
  document with no such tag can keep it in its loop.  The queries of the usual build use
  a tree without asking whether there is one (`:49`).

## 8. Not modelled, and why

* `worlds.cc`, `world-info.cc`: a sequential read and print of one file per directory; its
  queries are NbtTree's, and what its code does otherwise is said above.
* Sectors of a region file, zlib and byte order: conversions of data without state; a
  chunk whose data cannot be decoded is "unreadable" wherever it matters.
* The characters of a path (`nbt_path::compile`), of a request line and of a file name:
  models take the compiled form; what they accept is a set.
* The bytes of a png and `fit()`: libpng's format.  Whether the file was opened, written
  or lost is RegionScan's.
* `dump-nbt.cc`, `pixel-terrain.cc` and the options of `nbt-to-xml`: dispatch and printing.
* `binary_generator.cc`: packs test data when the project is built.
* `writer_string`: used by tests only.
* Memory: `delete` is modelled where a property speaks of it (pool, region, chunk,
  strings of the pull parser).

## 9. Plan

The parts were taken in the order of what goes wrong most easily: thread pool, server,
region scan, reader, handler and image run first, with their proofs; then chunk and
column, the parsers and the tree; then the shading, the writer, the fields of the pull
build, the XML, the colours and the options; then the proofs of BlockServer, ImageRun,
Connection, of what the handler holds and of the shading; then those of the pull parser's
stacks and events, of the chunk's lookups, of the two loops that take fields out of
the parser's events, of the layers a column's scan finds, of the XML of a document, of
the command line, and of the table of colours.

What could follow: the search of `worlds.cc` over TagStream, and the allocation of a
region file's sectors.
