------------------------------ MODULE ImageRun ------------------------------
(***************************************************************************)
(* One run of `pixel-terrain image`: src/generate-image.cc, containers.hh, *)
(* generator.cc, image.hh and the counters of src/logger/logger.cc.  The   *)
(* main thread reads options and queues region files, each with a copy of  *)
(* the options in force; the workers of the pool, here what JobPool says   *)
(* of it, render them; the exit handler drains the pool and prints the     *)
(* statistics.  What rendering one region does is RegionScan's: here it    *)
(* looks at the journal, then saves the output.                            *)
(***************************************************************************)
EXTENDS OptionParser

CONSTANTS
  Sources,      \* what the command line may name
  Directories,  \* the sources and output paths that are directories
  Contents,     \* the names of the files of each source
  Kind,         \* of each name: "region", "other", "badNumber", or "unusable": no
                \* .mca file, or one that cannot be opened
  LastUpdate,   \* of each source and name, the LastUpdate of its chunks
  OutPaths,     \* what --out may name
  Caches,       \* what --cache-dir may name
  Labels,       \* what --label may name
  Garbage,      \* what an uninitialised bool may hold
  Dot,          \* the path "."
  NoCache, NoLabel, NoFile, Nothing,
  Capacity,     \* how many threads the pool has
  MaxArguments, \* bound: arguments of the command line
  MaxJobs       \* bound: region files queued

Names == UNION {Contents[s] : s \in Sources}

ASSUME KindAssumption == \A n \in Names : Kind[n] \in {"region", "other", "badNumber", "unusable"}
ASSUME DotAssumption == Dot \in Directories /\ Garbage \subseteq BOOLEAN
ASSUME VersionAssumption == \A s \in Sources : \A n \in Contents[s] : LastUpdate[s][n] \in Nat \ {0}
ASSUME SizeAssumption == Sources # {} /\ MaxJobs \in Nat

Options ==
  [out : OutPaths \cup {Dot}, isDir : BOOLEAN, cache : Caches \cup {NoCache},
   label : Labels \cup Sources \cup {NoLabel}, format : {"none", "XZ", "fixed"}]

\* What a job may be told to write: a file in a directory, named after the
\* input or by the format, the path itself, or nothing.
Outputs ==
  ((OutPaths \cup {Dot}) \X (Names \cup {"fixed", "itself"})) \cup {NoFile}

JobIds == 1..MaxJobs
Journals == Caches \X Names

VARIABLES
  pc,         \* the main thread: "options", "arguments", "queueing", "counting",
              \* "exit", "ended" or "aborted"
  opts,       \* options
  should,     \* should_generate
  current,    \* the options of the region files being queued
  source,     \* the source they come from
  todo,       \* its files that are left
  back,       \* where the main thread goes after them: "options" or "arguments"
  generator,  \* is there a generator?
  jobs,       \* what was queued: region_containers
  line, running, done, status,  \* the pool
  journal,    \* the newest LastUpdate of each journal file
  made,       \* the cache directories that exist
  drawn,      \* the jobs that have an image to save
  files,      \* what each output file shows: a source and a name, or Nothing
  maximum, processed,  \* progress_max and progress_current
  stats,      \* stats: how often each label was recorded
  used        \* bound: arguments read

Pool == INSTANCE JobPool WITH Jobs <- JobIds

poolVars == <<line, running, done, status>>
argVars == <<opts, should, used>>
queueVars == <<current, source, todo, back>>
workVars == <<journal, drawn, files, processed, stats>>
vars == <<pc, argVars, queueVars, generator, jobs, poolVars, workVars, made, maximum>>

\* clear(): the label and out_path_is_dir_ stay as they are.
Cleared(o) == [o EXCEPT !.out = Dot, !.cache = NoCache, !.format = "none"]

Init ==
  /\ pc = "options"
  /\ \E b \in Garbage :
       opts = [out |-> Dot, isDir |-> b, cache |-> NoCache, label |-> NoLabel,
               format |-> "none"]
  /\ current = opts
  /\ should = TRUE
  /\ source = CHOOSE s \in Sources : TRUE
  /\ todo = {} /\ back = "options"
  /\ generator = FALSE
  /\ jobs = <<>>
  /\ Pool!Init
  /\ journal = [j \in Journals |-> 0]
  /\ made \in SUBSET Caches
  /\ drawn = {}
  /\ files = [f \in Outputs |-> Nothing]
  /\ maximum = 0 /\ processed = 0
  /\ stats = [l \in Labels \cup Sources |-> 0]
  /\ used = 0

-----------------------------------------------------------------------------
(* The command line. *)

Argument == used < MaxArguments /\ used' = used + 1

\* --out, --cache-dir, --label, --outname-format, --clear; another option
\* changes nothing here.
Option ==
  /\ pc = "options"
  /\ Argument
  /\ should' = TRUE
  /\ opts' \in {[opts EXCEPT !.out = p, !.isDir = (p \in Directories)] : p \in OutPaths}
          \cup {[opts EXCEPT !.cache = c] : c \in Caches}
          \cup {[opts EXCEPT !.label = l] : l \in Labels}
          \cup {[opts EXCEPT !.format = f] : f \in {"XZ", "fixed"}}
          \cup {Cleared(opts), opts}
  /\ UNCHANGED <<pc, queueVars, generator, jobs, poolVars, workVars, made, maximum>>

\* A wrong number, --help or an unknown option ends main().
BadOption ==
  /\ pc = "options"
  /\ Argument
  /\ pc' = "exit"
  /\ UNCHANGED <<opts, should, queueVars, generator, jobs, poolVars, workVars, made, maximum>>

\* Without a --generate as the last option, what follows are sources.
EndOptions ==
  /\ pc = "options"
  /\ pc' = IF should THEN "arguments" ELSE "exit"
  /\ UNCHANGED <<argVars, queueVars, generator, jobs, poolVars, workVars, made, maximum>>

EndArguments ==
  /\ pc = "arguments"
  /\ pc' = "exit"
  /\ UNCHANGED <<argVars, queueVars, generator, jobs, poolVars, workVars, made, maximum>>

\* Mutant: the source becomes the label of what follows, too.
GenerateAndLabel(s) ==
  /\ pc \in {"options", "arguments"}
  /\ Argument
  /\ current' = [opts EXCEPT !.label = IF @ = NoLabel THEN s ELSE @]
  /\ opts' = current'
  /\ IF pc = "options" THEN should' = FALSE ELSE UNCHANGED should
  /\ source' = s
  /\ todo' = Contents[s]
  /\ back' = pc
  /\ pc' = "queueing"
  /\ generator' = TRUE
  /\ \/ UNCHANGED poolVars
     \/ ~generator /\ Pool!Break
  /\ made' \in {made, IF s \in Directories THEN made \cup ({opts.cache} \ {NoCache}) ELSE made}
  /\ UNCHANGED <<jobs, workVars, maximum>>

\* generate_image(), for --generate or a source after the options: the first one
\* makes and starts the pool, which may fail.  A directory makes the cache
\* directory, which may fail, too.
Generate(s) ==
  /\ pc \in {"options", "arguments"}
  /\ Argument
  /\ current' = [opts EXCEPT !.label = IF @ = NoLabel THEN s ELSE @]
  /\ IF pc = "options" THEN should' = FALSE ELSE UNCHANGED should
  /\ source' = s
  /\ todo' = Contents[s]
  /\ back' = pc
  /\ pc' = "queueing"
  /\ generator' = TRUE
  /\ \/ UNCHANGED poolVars
     \/ ~generator /\ Pool!Break
  /\ made' \in {made, IF s \in Directories THEN made \cup ({opts.cache} \ {NoCache}) ELSE made}
  /\ UNCHANGED <<opts, jobs, workVars, maximum>>

-----------------------------------------------------------------------------
(* queue_region(). *)

\* The region file and its journal can be opened.
Opens(n) ==
  /\ Kind[n] # "unusable"
  /\ current.cache = NoCache \/ current.cache \in made

Formatted == current.isDir /\ current.format # "none"

\* make_output_name(): a name that is no r.X.Z.mca gives no output name when there
\* is a format.
OutputOf(n) ==
  CASE ~current.isDir -> <<current.out, "itself">>
    [] current.isDir /\ ~Formatted -> <<current.out, n>>
    [] Formatted /\ Kind[n] = "region" ->
         <<current.out, IF current.format = "XZ" THEN n ELSE "fixed">>
    [] Formatted /\ Kind[n] # "region" -> NoFile

\* std::stoi throws for a name like r.a.b.mca, and nothing catches that.
Aborts(n) == Opens(n) /\ Formatted /\ Kind[n] = "badNumber"

Skip(n) ==
  /\ pc = "queueing"
  /\ n \in todo
  /\ ~Opens(n)
  /\ todo' = todo \ {n}
  /\ UNCHANGED <<pc, argVars, current, source, back, generator, jobs, poolVars, workVars, made, maximum>>

Abort(n) ==
  /\ pc = "queueing"
  /\ n \in todo
  /\ Aborts(n)
  /\ pc' = "aborted"
  /\ UNCHANGED <<argVars, queueVars, generator, jobs, poolVars, workVars, made, maximum>>

Queue(n) ==
  /\ pc = "queueing"
  /\ n \in todo
  /\ Opens(n) /\ ~Aborts(n)
  /\ Len(jobs) < MaxJobs
  /\ jobs' = Append(jobs, [source |-> source, name |-> n, out |-> OutputOf(n), options |-> current])
  /\ Pool!Submit(Len(jobs) + 1)
  /\ todo' = todo \ {n}
  /\ pc' = "counting"
  /\ UNCHANGED <<argVars, current, source, back, generator, workVars, made, maximum>>

\* progress_bar_increase_total(1), after the region was queued.
Count ==
  /\ pc = "counting"
  /\ maximum' = maximum + 1
  /\ pc' = "queueing"
  /\ UNCHANGED <<argVars, queueVars, generator, jobs, poolVars, workVars, made>>

EndSource ==
  /\ pc = "queueing"
  /\ todo = {}
  /\ pc' = back
  /\ UNCHANGED <<argVars, queueVars, generator, jobs, poolVars, workVars, made, maximum>>

-----------------------------------------------------------------------------
(* The workers. *)

\* A region_container has a copy of the options.
OptionsOf(i) == jobs[i].options

\* Mutant: there is one journal in a cache directory.
OneJournal(i) == <<OptionsOf(i).cache, CHOOSE n \in Names : TRUE>>

\* The journal has the name of the region file, in the cache directory.
JournalOf(i) == <<OptionsOf(i).cache, jobs[i].name>>

Newest(i) == LastUpdate[jobs[i].source][jobs[i].name]

Dirty(i) ==
  \/ OptionsOf(i).cache = NoCache
  \/ OptionsOf(i).cache # NoCache /\ journal[JournalOf(i)] < Newest(i)

\* generate_region() begins: the journal is looked at and brought up to date.
Begin ==
  /\ pc # "aborted"
  /\ Pool!Begin
  /\ LET i == Head(line) IN
       /\ drawn' = IF Dirty(i) THEN drawn \cup {i} ELSE drawn
       /\ journal' = IF Dirty(i) /\ OptionsOf(i).cache # NoCache
                     THEN [journal EXCEPT ![JournalOf(i)] = Newest(i)]
                     ELSE journal
       /\ stats' = [stats EXCEPT ![OptionsOf(i).label] = @ + 1]
  /\ UNCHANGED <<pc, argVars, queueVars, generator, jobs, files, processed, made, maximum>>

\* An output that is a directory, or has no name, cannot be written.
Writable(out) ==
  out # NoFile /\ ~(out[2] = "itself" /\ out[1] \in Directories)

\* generate_region() ends: the image, if there is one, is saved;
\* progress_bar_process_one().
End(i) ==
  /\ pc # "aborted"
  /\ Pool!End(i)
  /\ files' = IF i \in drawn /\ Writable(jobs[i].out)
              THEN [files EXCEPT ![jobs[i].out] = <<jobs[i].source, jobs[i].name>>]
              ELSE files
  /\ processed' = processed + 1
  /\ UNCHANGED <<pc, argVars, queueVars, generator, jobs, journal, drawn, stats, made, maximum>>

-----------------------------------------------------------------------------
(* clean_up_generator(), called by exit(). *)

\* finish() begins; of a pool that could not be started it returns at once.
Finish ==
  /\ pc = "exit" /\ generator
  /\ Pool!Close
  /\ UNCHANGED <<pc, argVars, queueVars, generator, jobs, workVars, made, maximum>>

\* Mutant: finish() does not wait for the handlers.
EndWithoutWaiting ==
  /\ pc = "exit"
  /\ \/ ~generator /\ UNCHANGED poolVars
     \/ generator /\ status = "broken" /\ UNCHANGED poolVars
     \/ status = "closed" /\ line = <<>> /\ status' = "returned" /\ UNCHANGED <<line, running, done>>
  /\ pc' = "ended"
  /\ UNCHANGED <<argVars, queueVars, generator, jobs, workVars, made, maximum>>

\* The statistics are printed, and the process ends.
EndRun ==
  /\ pc = "exit"
  /\ \/ ~generator /\ UNCHANGED poolVars
     \/ generator /\ status = "broken" /\ UNCHANGED poolVars
     \/ Pool!Return
  /\ pc' = "ended"
  /\ UNCHANGED <<argVars, queueVars, generator, jobs, workVars, made, maximum>>

-----------------------------------------------------------------------------
Next ==
  \/ Option \/ BadOption \/ EndOptions \/ EndArguments
  \/ \E s \in Sources : Generate(s)
  \/ \E n \in Names : Skip(n) \/ Abort(n) \/ Queue(n)
  \/ Count \/ EndSource
  \/ Begin \/ \E i \in JobIds : End(i)
  \/ Finish \/ EndRun

Spec == Init /\ [][Next]_vars

-----------------------------------------------------------------------------
(* Properties. *)

Job == [source : Sources, name : Names, out : Outputs, options : Options]

\* Type invariant.
TypeOK ==
  /\ pc \in {"options", "arguments", "queueing", "counting", "exit", "ended", "aborted"}
  /\ opts \in Options /\ current \in Options
  /\ should \in BOOLEAN /\ generator \in BOOLEAN
  /\ source \in Sources /\ todo \subseteq Names /\ back \in {"options", "arguments"}
  /\ jobs \in Seq(Job) /\ Len(jobs) <= MaxJobs
  /\ journal \in [Journals -> Nat] /\ made \subseteq Caches
  /\ drawn \subseteq JobIds
  /\ files \in [Outputs -> (Sources \X Names) \cup {Nothing}]
  /\ maximum \in 0..MaxJobs /\ processed \in 0..MaxJobs
  /\ stats \in [Labels \cup Sources -> Nat]

Drained == pc = "ended" /\ status # "broken"

\* Nothing was done for any region: no journal calls an image up to date that
\* was never drawn, so that a later run can still render what was queued.
Untouched ==
  /\ drawn = {} /\ processed = 0
  /\ \A f \in Outputs : files[f] = Nothing
  /\ \A j \in Journals : journal[j] = 0

\* However main() ends, the process prints its statistics and ends only after
\* every region that was queued has been rendered and counted; without threads,
\* which generator.cc does not learn from start(), no region is rendered in part.
ExitDrains ==
  /\ TypeOK
  /\ Drained => /\ line = <<>> /\ running = {}
                /\ processed = Len(jobs) /\ maximum = Len(jobs)
  /\ status = "broken" => Untouched

\* A region's label is its own source or one that a --label gives, never another
\* source; and the statistics count the regions under the labels they were queued
\* with.  Which --label it is is not said: clear() leaves the one before it.
LabelsAreOwn ==
  /\ \A i \in 1..Len(jobs) :
       jobs[i].options.label \in Labels \cup {jobs[i].source}
  /\ Drained =>
       \A l \in DOMAIN stats :
         stats[l] = Cardinality({i \in 1..Len(jobs) : jobs[i].options.label = l})

\* No other job has the output, or the journal, of job i.
Alone(i) ==
  \A k \in (1..Len(jobs)) \ {i} :
    /\ jobs[k].out # jobs[i].out
    /\ jobs[i].options.cache = NoCache
       \/ <<jobs[k].options.cache, jobs[k].name>> # <<jobs[i].options.cache, jobs[i].name>>

\* Every region whose output and journal are its own is in its output, whatever
\* options follow and in whatever order the workers take the regions.
RegionsAreShown ==
  Drained =>
    \A i \in 1..Len(jobs) :
      Alone(i) /\ Writable(jobs[i].out) =>
        files[jobs[i].out] = <<jobs[i].source, jobs[i].name>>

\* Every command line says to regetopt() what its parts say, wherever its operands and its
\* "--" are: no line that the run may have read so far is misread.
CommandLineIsRead == \A argv \in Misread : Len(argv) > used
=============================================================================
