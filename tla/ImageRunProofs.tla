--------------------------- MODULE ImageRunProofs ---------------------------
(***************************************************************************)
(* Proofs about ImageRun, for every command line, every set of sources and *)
(* any number of regions and threads: the exit handler leaves nothing      *)
(* queued, labels do not mix, and a region whose output and journal are    *)
(* its own is shown.  The last part is about OptionParser: every command   *)
(* line made of phrases is read as the phrases say.                        *)
(***************************************************************************)
EXTENDS ImageRun, Functions, SequenceTheorems, FiniteSetTheorems, NaturalsInduction,
        WellFoundedInduction, TLAPS

-----------------------------------------------------------------------------
(* The line of the pool: what is in it after a push, and after front() and *)
(* pop(), and that nothing comes to be in it twice.                        *)

LEMMA RangeOfAppend ==
  ASSUME NEW S, NEW s \in Seq(S), NEW x \in S
  PROVE  Range(Append(s, x)) = Range(s) \cup {x}
<1>1. \A i \in 1..Len(s) : i \in DOMAIN Append(s, x) /\ Append(s, x)[i] = s[i]  OBVIOUS
<1>2. Len(s) + 1 \in DOMAIN Append(s, x) /\ Append(s, x)[Len(s) + 1] = x  OBVIOUS
<1> QED  BY <1>1, <1>2 DEF Range

LEMMA RangeOfTail ==
  ASSUME NEW S, NEW s \in Seq(S), s # <<>>
  PROVE  /\ Head(s) \in S /\ Tail(s) \in Seq(S)
         /\ Range(s) = {Head(s)} \cup Range(Tail(s))
<1>1. /\ Len(s) \in Nat \ {0} /\ DOMAIN s = 1..Len(s) /\ DOMAIN Tail(s) = 1..(Len(s) - 1)
      /\ Head(s) = s[1] /\ \A i \in 1..(Len(s) - 1) : Tail(s)[i] = s[i + 1]
  OBVIOUS
<1>2. \A i \in DOMAIN s : i = 1 \/ (i - 1 \in DOMAIN Tail(s) /\ Tail(s)[i - 1] = s[i])  BY <1>1
<1>3. 1 \in DOMAIN s /\ \A i \in DOMAIN Tail(s) : i + 1 \in DOMAIN s  BY <1>1
<1>4. Range(s) \subseteq {Head(s)} \cup Range(Tail(s))  BY <1>1, <1>2 DEF Range
<1>5. {Head(s)} \cup Range(Tail(s)) \subseteq Range(s)  BY <1>1, <1>3 DEF Range
<1> QED  BY <1>1, <1>4, <1>5

Distinct(s) == \A i, k \in DOMAIN s : s[i] = s[k] => i = k

LEMMA DistinctAppend ==
  ASSUME NEW S, NEW s \in Seq(S), NEW x \in S, Distinct(s), x \notin Range(s)
  PROVE  Distinct(Append(s, x))
  BY DEF Distinct, Range

LEMMA DistinctTail ==
  ASSUME NEW S, NEW s \in Seq(S), s # <<>>, Distinct(s)
  PROVE  Distinct(Tail(s)) /\ Head(s) \notin Range(Tail(s))
  BY DEF Distinct, Range

-----------------------------------------------------------------------------
(* Types. *)

\* Every step that queues nothing and ends no region.
Reading ==
  \/ Option \/ BadOption \/ EndOptions \/ EndArguments
  \/ \E n \in Names : Skip(n) \/ Abort(n)
  \/ Count \/ EndSource

\* An option changes the label only to one that --label gives.
LEMMA OptionRead ==
  ASSUME opts \in Options, Option
  PROVE  opts' \in Options /\ opts'.label \in Labels \cup {opts.label}
<1> DEFINE Goal == opts' \in Options /\ opts'.label \in Labels \cup {opts.label}
<1>1. ASSUME NEW p \in OutPaths,
             opts' = [opts EXCEPT !.out = p, !.isDir = (p \in Directories)]
      PROVE  Goal
  <2> DEFINE b == p \in Directories
  <2>1. b \in BOOLEAN /\ opts' = [opts EXCEPT !.out = p, !.isDir = b]
    BY <1>1
  <2> HIDE DEF b
  <2>2. QED
    BY <2>1 DEF Options
<1>2. ASSUME NEW c \in Caches, opts' = [opts EXCEPT !.cache = c] PROVE Goal
  BY <1>2 DEF Options
<1>3. ASSUME NEW l \in Labels, opts' = [opts EXCEPT !.label = l] PROVE Goal
  BY <1>3 DEF Options
<1>4. ASSUME NEW f \in {"XZ", "fixed"}, opts' = [opts EXCEPT !.format = f] PROVE Goal
  BY <1>4 DEF Options
<1>5. CASE opts' = Cleared(opts)
  BY <1>5 DEF Options, Cleared
<1>6. CASE opts' = opts
  BY <1>6
<1>7. QED
  BY <1>1, <1>2, <1>3, <1>4, <1>5, <1>6 DEF Option

\* make_output_name() tells a job to write one of Outputs.
LEMMA OutputTyped ==
  ASSUME current \in Options, NEW n \in Names
  PROVE  OutputOf(n) \in Outputs
<1>1. current.isDir \in BOOLEAN /\ current.out \in OutPaths \cup {Dot}
  BY DEF Options
<1>2. CASE ~current.isDir
  <2>1. OutputOf(n) = <<current.out, "itself">>
    BY <1>2 DEF OutputOf, Formatted
  <2>2. QED
    BY <1>1, <2>1 DEF Outputs
<1>3. CASE current.isDir /\ ~Formatted
  <2>1. OutputOf(n) = <<current.out, n>>
    BY <1>3 DEF OutputOf, Formatted
  <2>2. QED
    BY <1>1, <2>1 DEF Outputs
<1>4. CASE Formatted /\ Kind[n] = "region"
  <2>1. OutputOf(n) = <<current.out, IF current.format = "XZ" THEN n ELSE "fixed">>
    BY <1>4 DEF OutputOf, Formatted
  <2>2. QED
    BY <1>1, <2>1 DEF Outputs
<1>5. CASE Formatted /\ Kind[n] # "region"
  <2>1. OutputOf(n) = NoFile
    BY <1>5 DEF OutputOf, Formatted
  <2>2. QED
    BY <2>1 DEF Outputs
<1>6. QED
  BY <1>1, <1>2, <1>3, <1>4, <1>5 DEF Formatted

\* The type invariant without the two counters, whose bounds come from CountInv.
DataTyped ==
  /\ pc \in {"options", "arguments", "queueing", "counting", "exit", "ended", "aborted"}
  /\ opts \in Options /\ current \in Options
  /\ should \in BOOLEAN /\ generator \in BOOLEAN
  /\ source \in Sources /\ todo \subseteq Names /\ back \in {"options", "arguments"}
  /\ jobs \in Seq(Job) /\ Len(jobs) <= MaxJobs
  /\ journal \in [Journals -> Nat] /\ made \subseteq Caches
  /\ drawn \subseteq JobIds
  /\ files \in [Outputs -> (Sources \X Names) \cup {Nothing}]
  /\ maximum \in Nat
  /\ stats \in [Labels \cup Sources -> Nat]

\* Regions are files of the source they were queued for.
NamesInv ==
  /\ todo \subseteq Contents[source]
  /\ \A i \in 1..Len(jobs) : jobs[i].name \in Contents[jobs[i].source]

\* The pool has the numbers of the jobs, each in one place.
PoolInv ==
  /\ line \in Seq(JobIds)
  /\ Distinct(line)
  /\ running \cup done \subseteq JobIds
  /\ Range(line) \cup running \cup done = 1..Len(jobs)
  /\ Range(line) \cap (running \cup done) = {}
  /\ running \cap done = {}

\* A region that is queued is a job.
LEMMA JobTyped ==
  ASSUME DataTyped, NEW n \in todo
  PROVE  [source |-> source, name |-> n, out |-> OutputOf(n), options |-> current] \in Job
  BY OutputTyped DEF DataTyped, Job

LEMMA DataInit == Init => DataTyped
<1> SUFFICES ASSUME Init PROVE DataTyped
  OBVIOUS
<1>1. PICK b \in Garbage :
        opts = [out |-> Dot, isDir |-> b, cache |-> NoCache, label |-> NoLabel,
                format |-> "none"]
  BY DEF Init
<1>2. opts \in Options /\ current \in Options
  BY <1>1, DotAssumption DEF Options, Init
<1>3. source \in Sources
  BY SizeAssumption DEF Init
<1>4. jobs \in Seq(Job) /\ Len(jobs) = 0
  BY EmptySeq DEF Init
<1>5. /\ journal \in [Journals -> Nat]
      /\ files \in [Outputs -> (Sources \X Names) \cup {Nothing}]
      /\ stats \in [Labels \cup Sources -> Nat]
  BY DEF Init
<1>6. QED
  <2>1. Len(jobs) <= MaxJobs
    BY <1>4, SizeAssumption
  <2>2. /\ pc = "options" /\ should = TRUE /\ generator = FALSE /\ todo = {}
        /\ back = "options" /\ drawn = {} /\ maximum = 0 /\ made \subseteq Caches
    BY DEF Init
  <2>3. QED
    BY <1>2, <1>3, <1>4, <1>5, <2>1, <2>2 DEF DataTyped

\* What a thread of the pool finds: the number it takes is that of a job.
LEMMA JobFound ==
  ASSUME DataTyped, NamesInv, NEW i \in 1..Len(jobs)
  PROVE  /\ jobs[i] \in Job
         /\ Newest(i) \in Nat \ {0}
         /\ OptionsOf(i).cache # NoCache => JournalOf(i) \in Journals
<1>1. jobs[i] \in Job
  BY ElementOfSeq DEF DataTyped
<1>2. jobs[i].source \in Sources /\ jobs[i].name \in Contents[jobs[i].source]
  BY <1>1 DEF NamesInv, Job
<1>3. Newest(i) \in Nat \ {0}
  BY <1>2, VersionAssumption DEF Newest
<1>4. jobs[i].options.cache \in Caches \cup {NoCache} /\ jobs[i].name \in Names
  BY <1>1 DEF Job, Options
<1>5. QED
  BY <1>1, <1>3, <1>4 DEF OptionsOf, JournalOf, Journals

\* The head of the queue is a job that no thread has had.
LEMMA HeadOfLine ==
  ASSUME PoolInv, line # <<>>
  PROVE  /\ Head(line) \in 1..Len(jobs) /\ Head(line) \in JobIds
         /\ Head(line) \notin running \cup done
         /\ Tail(line) \in Seq(JobIds) /\ Distinct(Tail(line))
         /\ Range(line) = {Head(line)} \cup Range(Tail(line))
         /\ Head(line) \notin Range(Tail(line))
  BY RangeOfTail, DistinctTail DEF PoolInv

LEMMA DataStep == DataTyped /\ NamesInv /\ PoolInv /\ [Next]_vars => DataTyped'
<1> SUFFICES ASSUME DataTyped, NamesInv, PoolInv, [Next]_vars PROVE DataTyped'
  OBVIOUS
<1> USE DEF argVars, queueVars, poolVars, workVars
<1>1. CASE Option
  BY <1>1, OptionRead DEF Option, DataTyped
<1>2. CASE BadOption \/ EndOptions \/ EndArguments \/ EndSource
  BY <1>2 DEF BadOption, EndOptions, EndArguments, EndSource, DataTyped
<1>3. ASSUME NEW s \in Sources, Generate(s) PROVE DataTyped'
  <2>1. current' \in Options
    BY <1>3 DEF Generate, DataTyped, Options
  <2>2. todo' \subseteq Names
    BY <1>3 DEF Generate, Names
  <2>3. made' \subseteq Caches
    <3>1. opts.cache \in Caches \cup {NoCache}
      BY DEF DataTyped, Options
    <3>2. QED
      BY <1>3, <3>1 DEF Generate, DataTyped
  <2>4. should' \in BOOLEAN /\ generator' \in BOOLEAN
    BY <1>3 DEF Generate, DataTyped
  <2>5. pc' = "queueing" /\ back' \in {"options", "arguments"} /\ source' \in Sources
    BY <1>3 DEF Generate
  <2>6. UNCHANGED <<opts, jobs, journal, drawn, files, stats, maximum>>
    BY <1>3 DEF Generate
  <2>7. QED
    BY <2>1, <2>2, <2>3, <2>4, <2>5, <2>6 DEF DataTyped
<1>4. ASSUME NEW n \in Names, Skip(n) \/ Abort(n) PROVE DataTyped'
  BY <1>4 DEF Skip, Abort, DataTyped
<1>5. ASSUME NEW n \in Names, Queue(n) PROVE DataTyped'
  <2> DEFINE job == [source |-> source, name |-> n, out |-> OutputOf(n), options |-> current]
  <2>1. n \in todo /\ jobs' = Append(jobs, job) /\ Len(jobs) < MaxJobs
    BY <1>5 DEF Queue
  <2>2. job \in Job
    BY <2>1, JobTyped
  <2> HIDE DEF job
  <2>3. jobs' \in Seq(Job) /\ Len(jobs') = Len(jobs) + 1
    BY <2>1, <2>2, AppendProperties DEF DataTyped
  <2>4. Len(jobs') <= MaxJobs
    BY <2>1, <2>3, SizeAssumption, LenProperties DEF DataTyped
  <2>5. QED
    BY <1>5, <2>3, <2>4 DEF Queue, DataTyped
<1>6. CASE Count
  BY <1>6 DEF Count, DataTyped
<1>7. CASE Begin
  <2>1. UNCHANGED <<pc, opts, current, should, generator, source, todo, back, jobs,
                    made, files, maximum>>
    BY <1>7 DEF Begin
  <2> DEFINE h == Head(line)
  <2>2. h \in JobIds /\ Newest(h) \in Nat
    BY <1>7, HeadOfLine, JobFound DEF Begin, Pool!Begin
  <2>3. drawn' \subseteq JobIds
    BY <1>7, <2>2 DEF Begin, DataTyped
  <2>4. journal' \in [Journals -> Nat]
    BY <1>7, <2>2 DEF Begin, DataTyped
  <2>5. stats' \in [Labels \cup Sources -> Nat]
    <3> DEFINE own == OptionsOf(h).label
    <3>1. stats' = [stats EXCEPT ![own] = @ + 1] /\ stats \in [Labels \cup Sources -> Nat]
      BY <1>7 DEF Begin, DataTyped
    <3> HIDE DEF own
    <3>2. DOMAIN stats' = Labels \cup Sources
      BY <3>1
    <3>3. \A l \in Labels \cup Sources : stats'[l] = IF l = own THEN stats[l] + 1 ELSE stats[l]
      BY <3>1
    <3>4. \A l \in Labels \cup Sources : stats'[l] \in Nat
      BY <3>1, <3>3
    <3>5. stats' = [l \in Labels \cup Sources |-> stats'[l]]
      BY <3>1
    <3>6. QED
      BY <3>4, <3>5
  <2>6. QED
    BY <2>1, <2>3, <2>4, <2>5 DEF DataTyped
<1>8. ASSUME NEW i \in JobIds, End(i) PROVE DataTyped'
  <2>1. i \in 1..Len(jobs)
    BY <1>8 DEF End, Pool!End, PoolInv
  <2>2. <<jobs[i].source, jobs[i].name>> \in Sources \X Names
    BY <2>1, JobFound DEF Job
  <2>3. files' \in [Outputs -> (Sources \X Names) \cup {Nothing}]
    BY <1>8, <2>2 DEF End, DataTyped
  <2>4. QED
    BY <1>8, <2>3 DEF End, DataTyped
<1>9. CASE Finish \/ EndRun
  BY <1>9 DEF Finish, EndRun, DataTyped
<1>10. CASE UNCHANGED vars
  BY <1>10 DEF vars, DataTyped
<1>11. QED
  BY <1>1, <1>2, <1>3, <1>4, <1>5, <1>6, <1>7, <1>8, <1>9, <1>10 DEF Next


\* Regions stay files of their source.
LEMMA NamesStep == DataTyped /\ NamesInv /\ [Next]_vars => NamesInv'
<1> SUFFICES ASSUME DataTyped, NamesInv, [Next]_vars PROVE NamesInv'
  OBVIOUS
<1> USE DEF argVars, queueVars, poolVars, workVars
<1>1. CASE UNCHANGED <<jobs, source, todo>>
  BY <1>1 DEF NamesInv
<1>2. ASSUME NEW s \in Sources, Generate(s) PROVE NamesInv'
  BY <1>2 DEF Generate, NamesInv
<1>3. ASSUME NEW n \in Names, Skip(n) PROVE NamesInv'
  BY <1>3 DEF Skip, NamesInv
<1>4. ASSUME NEW n \in Names, Queue(n) PROVE NamesInv'
  <2> DEFINE job == [source |-> source, name |-> n, out |-> OutputOf(n), options |-> current]
  <2>1. /\ n \in todo /\ jobs' = Append(jobs, job) /\ UNCHANGED source
        /\ todo' = todo \ {n}
    BY <1>4 DEF Queue
  <2>2. job \in Job /\ job.source = source /\ job.name = n
    BY <2>1, JobTyped
  <2> HIDE DEF job
  <2>3. /\ Len(jobs') = Len(jobs) + 1 /\ jobs'[Len(jobs) + 1] = job
        /\ \A i \in 1..Len(jobs) : jobs'[i] = jobs[i]
    BY <2>1, <2>2, AppendProperties DEF DataTyped
  <2>4. Len(jobs) \in Nat
    BY LenProperties DEF DataTyped
  <2>5. \A i \in 1..Len(jobs') : i \in 1..Len(jobs) \/ i = Len(jobs) + 1
    BY <2>3, <2>4
  <2>6. QED
    BY <2>1, <2>2, <2>3, <2>5 DEF NamesInv
<1>5. QED
  <2>1. ASSUME Option \/ BadOption \/ EndOptions \/ EndArguments \/ Count \/ EndSource
               \/ Begin \/ (\E i \in JobIds : End(i)) \/ Finish \/ EndRun
               \/ (\E n \in Names : Abort(n)) \/ UNCHANGED vars
        PROVE  UNCHANGED <<jobs, source, todo>>
    BY <2>1 DEF Option, BadOption, EndOptions, EndArguments, Count, EndSource, Begin,
                End, Finish, EndRun, Abort, vars
  <2>2. QED
    BY <1>1, <1>2, <1>3, <1>4, <2>1 DEF Next

-----------------------------------------------------------------------------
(* The pool. *)

LEMMA PoolInit == Init => PoolInv
<1> SUFFICES ASSUME Init PROVE PoolInv
  OBVIOUS
<1>1. /\ line = <<>> /\ running = {} /\ done = {} /\ jobs = <<>>
  BY DEF Init, Pool!Init
<1>2. Range(line) = {} /\ DOMAIN line = {} /\ line \in Seq(JobIds) /\ Len(jobs) = 0
  BY <1>1, EmptySeq DEF Range
<1>3. Distinct(line)
  BY <1>2 DEF Distinct
<1>4. QED
  BY <1>1, <1>2, <1>3 DEF PoolInv

\* A region gets the next number, and goes from the queue to a thread to the end.
LEMMA PoolStep == DataTyped /\ PoolInv /\ [Next]_vars => PoolInv'
<1> SUFFICES ASSUME DataTyped, PoolInv, [Next]_vars PROVE PoolInv'
  OBVIOUS
<1> USE DEF argVars, queueVars, poolVars, workVars
<1>1. CASE UNCHANGED <<jobs, line, running, done>>
  BY <1>1 DEF PoolInv
<1>2. ASSUME NEW n \in Names, Queue(n) PROVE PoolInv'
  <2> DEFINE job == [source |-> source, name |-> n, out |-> OutputOf(n), options |-> current]
             new == Len(jobs) + 1
  <2>1. /\ n \in todo /\ jobs' = Append(jobs, job) /\ line' = Append(line, new)
        /\ UNCHANGED <<running, done>> /\ Len(jobs) < MaxJobs
    BY <1>2 DEF Queue, Pool!Submit
  <2>2. job \in Job
    BY <2>1, JobTyped
  <2> HIDE DEF job
  <2>3. Len(jobs') = Len(jobs) + 1 /\ Len(jobs) \in Nat
    BY <2>1, <2>2, AppendProperties, LenProperties DEF DataTyped
  <2>4. new \in JobIds /\ new \notin 1..Len(jobs) /\ 1..Len(jobs') = 1..Len(jobs) \cup {new}
    BY <2>1, <2>3, SizeAssumption DEF JobIds
  <2> HIDE DEF new
  <2>5. Range(line') = Range(line) \cup {new} /\ line' \in Seq(JobIds)
    BY <2>1, <2>4, RangeOfAppend, AppendProperties DEF PoolInv
  <2>6. Distinct(line')
    BY <2>1, <2>4, DistinctAppend DEF PoolInv
  <2>7. QED
    BY <2>1, <2>4, <2>5, <2>6 DEF PoolInv
<1>3. CASE Begin
  <2>1. /\ line # <<>> /\ line' = Tail(line) /\ running' = running \cup {Head(line)}
        /\ UNCHANGED <<jobs, done>>
    BY <1>3 DEF Begin, Pool!Begin
  <2>2. QED
    BY <2>1, HeadOfLine DEF PoolInv
<1>4. ASSUME NEW i \in JobIds, End(i) PROVE PoolInv'
  BY <1>4 DEF End, Pool!End, PoolInv
<1>5. QED
  <2>1. ASSUME Option \/ BadOption \/ EndOptions \/ EndArguments \/ Count \/ EndSource
               \/ Finish \/ EndRun \/ (\E s \in Sources : Generate(s))
               \/ (\E n \in Names : Skip(n) \/ Abort(n)) \/ UNCHANGED vars
        PROVE  UNCHANGED <<jobs, line, running, done>>
    BY <2>1 DEF Option, BadOption, EndOptions, EndArguments, Count, EndSource, Finish,
                EndRun, Generate, Skip, Abort, vars, Pool!Close, Pool!Return, Pool!Break
  <2>2. QED
    BY <1>1, <1>2, <1>3, <1>4, <2>1 DEF Next

-----------------------------------------------------------------------------
(* Progress, and the exit handler. *)

\* Progress is what was queued and what has ended.
CountInv ==
  /\ processed = Cardinality(done)
  /\ Len(jobs) = IF pc = "counting" THEN maximum + 1 ELSE maximum
  /\ ~generator => jobs = <<>>
  /\ pc \in {"queueing", "counting"} => generator
  /\ Drained => line = <<>> /\ running = {}

LEMMA CountInit == Init => CountInv
  BY FS_EmptySet, EmptySeq DEF Init, Pool!Init, CountInv, Drained

\* A set of numbers of jobs is finite.
LEMMA JobsFinite ==
  ASSUME NEW S, S \subseteq JobIds
  PROVE  IsFiniteSet(S) /\ Cardinality(S) \in Nat /\ Cardinality(S) <= MaxJobs
<1>1. IsFiniteSet(JobIds) /\ Cardinality(JobIds) = MaxJobs
  BY FS_Interval, SizeAssumption DEF JobIds
<1>2. QED
  BY <1>1, FS_Subset, FS_CardinalityType

LEMMA CountStep == DataTyped /\ PoolInv /\ CountInv /\ [Next]_vars => CountInv'
<1> SUFFICES ASSUME DataTyped, PoolInv, CountInv, [Next]_vars PROVE CountInv'
  OBVIOUS
<1> USE DEF argVars, queueVars, poolVars, workVars
<1>1. CASE Option \/ BadOption \/ EndOptions \/ EndArguments \/ EndSource \/ Finish
           \/ \E n \in Names : Skip(n) \/ Abort(n)
  BY <1>1 DEF Option, BadOption, EndOptions, EndArguments, EndSource, Finish, Skip,
              Abort, Pool!Close, CountInv, Drained, DataTyped
<1>2. ASSUME NEW s \in Sources, Generate(s) PROVE CountInv'
  BY <1>2 DEF Generate, Pool!Break, CountInv, Drained
<1>3. ASSUME NEW n \in Names, Queue(n) PROVE CountInv'
  <2> DEFINE job == [source |-> source, name |-> n, out |-> OutputOf(n), options |-> current]
  <2>1. /\ n \in todo /\ jobs' = Append(jobs, job) /\ pc = "queueing"
        /\ pc' = "counting" /\ UNCHANGED <<generator, processed, done, maximum>>
    BY <1>3 DEF Queue, Pool!Submit
  <2>2. job \in Job
    BY <2>1, JobTyped
  <2> HIDE DEF job
  <2>3. Len(jobs') = Len(jobs) + 1
    BY <2>1, <2>2, AppendProperties DEF DataTyped
  <2>4. QED
    BY <2>1, <2>3 DEF CountInv, Drained
<1>4. CASE Count
  BY <1>4 DEF Count, CountInv, Drained
<1>5. CASE Begin
  <2>1. /\ UNCHANGED <<pc, generator, jobs, processed, done, maximum, status>>
        /\ line # <<>>
    BY <1>5 DEF Begin, Pool!Begin
  <2>2. QED
    BY <2>1 DEF CountInv, Drained
<1>6. ASSUME NEW i \in JobIds, End(i) PROVE CountInv'
  <2>1. /\ UNCHANGED <<pc, generator, jobs, maximum, status, line>>
        /\ i \in running /\ done' = done \cup {i} /\ processed' = processed + 1
    BY <1>6 DEF End, Pool!End
  <2>2. i \notin done /\ IsFiniteSet(done)
    BY <2>1, JobsFinite DEF PoolInv
  <2>3. processed' = Cardinality(done')
    BY <2>1, <2>2, FS_AddElement DEF CountInv
  <2>4. ~Drained
    BY <2>1 DEF CountInv
  <2>5. QED
    BY <2>1, <2>3, <2>4 DEF CountInv, Drained
<1>7. CASE EndRun
  <2>1. /\ UNCHANGED <<generator, jobs, processed, done, maximum, line, running>>
        /\ pc = "exit" /\ pc' = "ended"
    BY <1>7 DEF EndRun, Pool!Return
  <2>2. status' # "broken" => line = <<>> /\ running = {}
    <3>1. CASE ~generator
      <4>1. jobs = <<>> /\ Range(line) = {} /\ running = {}
        BY <3>1, EmptySeq DEF CountInv, PoolInv
      <4>2. line = <<>>
        BY <4>1, RangeOfTail DEF PoolInv
      <4>3. QED
        BY <4>1, <4>2
    <3>2. CASE status = "broken" /\ UNCHANGED poolVars
      BY <3>2
    <3>3. CASE Pool!Return
      BY <3>3 DEF Pool!Return
    <3>4. QED
      BY <1>7, <3>1, <3>2, <3>3 DEF EndRun
  <2>3. QED
    BY <2>1, <2>2 DEF CountInv, Drained
<1>8. CASE UNCHANGED vars
  BY <1>8 DEF vars, CountInv, Drained
<1>9. QED
  BY <1>1, <1>2, <1>3, <1>4, <1>5, <1>6, <1>7, <1>8 DEF Next

-----------------------------------------------------------------------------
(* Labels. *)

\* Where a label comes from, and what the statistics count: the regions a thread
\* has begun.
LabelInv ==
  /\ opts.label \in Labels \cup {NoLabel}
  /\ pc \in {"queueing", "counting"} => current.label \in Labels \cup {source}
  /\ \A i \in 1..Len(jobs) : jobs[i].options.label \in Labels \cup {jobs[i].source}
  /\ \A l \in Labels \cup Sources :
       stats[l] = Cardinality({i \in running \cup done : jobs[i].options.label = l})

LEMMA LabelInit == Init => LabelInv
<1> SUFFICES ASSUME Init PROVE LabelInv
  OBVIOUS
<1>1. /\ opts.label = NoLabel /\ pc = "options" /\ running = {} /\ done = {}
      /\ Len(jobs) = 0 /\ \A l \in Labels \cup Sources : stats[l] = 0
  BY EmptySeq DEF Init, Pool!Init
<1>2. \A l : {i \in running \cup done : jobs[i].options.label = l} = {}
  BY <1>1
<1>3. QED
  BY <1>1, <1>2, FS_EmptySet DEF LabelInv

\* What follows an option, or another source, does not change the labels given.
LEMMA LabelStep ==
  DataTyped /\ PoolInv /\ LabelInv /\ [Next]_vars => LabelInv'
<1> SUFFICES ASSUME DataTyped, PoolInv, LabelInv, [Next]_vars PROVE LabelInv'
  OBVIOUS
<1> USE DEF argVars, queueVars, poolVars, workVars
<1>1. CASE UNCHANGED <<opts, jobs, running, done, stats, current, source>>
           /\ (pc' \in {"queueing", "counting"} => pc \in {"queueing", "counting"})
  BY <1>1 DEF LabelInv
<1>2. CASE Option
  <2>1. opts'.label \in Labels \cup {NoLabel}
    BY <1>2, OptionRead DEF DataTyped, LabelInv
  <2>2. QED
    BY <1>2, <2>1 DEF Option, LabelInv
<1>3. ASSUME NEW s \in Sources, Generate(s) PROVE LabelInv'
  <2>1. UNCHANGED <<opts, jobs, running, done, stats>> /\ source' = s
    BY <1>3 DEF Generate, Pool!Break
  <2>2. current'.label = IF opts.label = NoLabel THEN s ELSE opts.label
    BY <1>3 DEF Generate, DataTyped, Options
  <2>3. current'.label \in Labels \cup {source'}
    BY <2>1, <2>2 DEF LabelInv
  <2>4. QED
    BY <2>1, <2>3 DEF LabelInv
<1>4. ASSUME NEW n \in Names, Queue(n) PROVE LabelInv'
  <2> DEFINE job == [source |-> source, name |-> n, out |-> OutputOf(n), options |-> current]
  <2>1. /\ n \in todo /\ jobs' = Append(jobs, job) /\ pc = "queueing"
        /\ UNCHANGED <<opts, current, source, running, done, stats>>
    BY <1>4 DEF Queue, Pool!Submit
  <2>2. job \in Job /\ job.source = source /\ job.options.label = current.label
    BY <2>1, JobTyped
  <2> HIDE DEF job
  <2>3. /\ Len(jobs') = Len(jobs) + 1 /\ jobs'[Len(jobs) + 1] = job
        /\ \A i \in 1..Len(jobs) : jobs'[i] = jobs[i]
    BY <2>1, <2>2, AppendProperties DEF DataTyped
  <2>4. Len(jobs) \in Nat
    BY LenProperties DEF DataTyped
  <2>5. \A i \in 1..Len(jobs') : i \in 1..Len(jobs) \/ i = Len(jobs) + 1
    BY <2>3, <2>4
  <2>6. \A i \in 1..Len(jobs') :
          jobs'[i].options.label \in Labels \cup {jobs'[i].source}
    BY <2>1, <2>2, <2>3, <2>5 DEF LabelInv
  <2>7. running \cup done \subseteq 1..Len(jobs)
    BY DEF PoolInv
  <2>8. \A l : {i \in running' \cup done' : jobs'[i].options.label = l}
             = {i \in running \cup done : jobs[i].options.label = l}
    BY <2>1, <2>3, <2>7
  <2>9. QED
    BY <2>1, <2>6, <2>8 DEF LabelInv
<1>5. CASE Begin
  <2> DEFINE h == Head(line)
             own == OptionsOf(h).label
             Of(l) == {i \in running \cup done : jobs[i].options.label = l}
  <2>1. /\ UNCHANGED <<pc, opts, current, source, jobs, done>> /\ line # <<>>
        /\ running' = running \cup {h} /\ stats' = [stats EXCEPT ![own] = @ + 1]
    BY <1>5 DEF Begin, Pool!Begin
  <2>2. h \notin running \cup done /\ h \in JobIds /\ own = jobs[h].options.label
    BY <2>1, HeadOfLine DEF OptionsOf
  <2> HIDE DEF h, own
  <2>3. \A l \in Labels \cup Sources : stats'[l] = IF l = own THEN stats[l] + 1 ELSE stats[l]
    BY <2>1 DEF DataTyped
  <2>4. \A l : Of(l)' = IF l = own THEN Of(l) \cup {h} ELSE Of(l)
    BY <2>1, <2>2
  <2>5. \A l : IsFiniteSet(Of(l)) /\ h \notin Of(l)
    BY <2>2, JobsFinite DEF PoolInv
  <2>6. \A l \in Labels \cup Sources : stats[l] = Cardinality(Of(l))
    BY DEF LabelInv
  <2> HIDE DEF Of
  <2>7. \A l \in Labels \cup Sources : stats'[l] = Cardinality(Of(l)')
    BY <2>3, <2>4, <2>5, <2>6, FS_AddElement
  <2>8. QED
    BY <2>1, <2>7 DEF LabelInv, Of
<1>6. ASSUME NEW i \in JobIds, End(i) PROVE LabelInv'
  <2>1. UNCHANGED <<pc, opts, current, source, jobs, stats>>
        /\ running' \cup done' = running \cup done
    BY <1>6 DEF End, Pool!End
  <2>2. QED
    BY <2>1 DEF LabelInv
<1>7. QED
  <2>1. ASSUME BadOption \/ EndOptions \/ EndArguments \/ Count \/ EndSource \/ Finish
               \/ EndRun \/ (\E n \in Names : Skip(n) \/ Abort(n)) \/ UNCHANGED vars
        PROVE  UNCHANGED <<opts, jobs, running, done, stats, current, source>>
               /\ (pc' \in {"queueing", "counting"} => pc \in {"queueing", "counting"})
    BY <2>1 DEF BadOption, EndOptions, EndArguments, Count, EndSource, Finish, EndRun,
                Skip, Abort, vars, Pool!Close, Pool!Return, DataTyped
  <2>2. QED
    BY <1>1, <1>2, <1>3, <1>4, <1>5, <1>6, <2>1 DEF Next

-----------------------------------------------------------------------------
(* Images.  A journal says nothing until a region that has it was begun, so *)
(* the first one is drawn; and nobody else writes an output that is its own. *)

ShownInv ==
  /\ \A j \in Journals : journal[j] # 0 =>
       \E k \in running \cup done :
         OptionsOf(k).cache # NoCache /\ JournalOf(k) = j
  /\ \A i \in running \cup done : Alone(i) => i \in drawn
  /\ \A i \in done : Alone(i) /\ Writable(jobs[i].out) =>
       files[jobs[i].out] = <<jobs[i].source, jobs[i].name>>

LEMMA ShownInit == Init => ShownInv
  BY DEF Init, Pool!Init, ShownInv

\* What is known of images, through a step that draws and ends nothing.
LEMMA ShownUntouched ==
  ASSUME ShownInv, UNCHANGED <<jobs, running, done, journal, drawn, files>>
  PROVE  ShownInv'
  BY DEF ShownInv, Alone, OptionsOf, JournalOf

LEMMA ShownStep ==
  DataTyped /\ NamesInv /\ PoolInv /\ ShownInv /\ [Next]_vars => ShownInv'
<1> SUFFICES ASSUME DataTyped, NamesInv, PoolInv, ShownInv, [Next]_vars PROVE ShownInv'
  OBVIOUS
<1> USE DEF argVars, queueVars, poolVars, workVars
<1>0. running \cup done \subseteq 1..Len(jobs) /\ running \cap done = {}
  BY DEF PoolInv
<1>1. ASSUME NEW n \in Names, Queue(n) PROVE ShownInv'
  <2> DEFINE job == [source |-> source, name |-> n, out |-> OutputOf(n), options |-> current]
  <2>1. /\ n \in todo /\ jobs' = Append(jobs, job)
        /\ UNCHANGED <<running, done, journal, drawn, files>>
    BY <1>1 DEF Queue, Pool!Submit
  <2>2. job \in Job
    BY <2>1, JobTyped
  <2> HIDE DEF job
  <2>3. /\ Len(jobs') = Len(jobs) + 1 /\ \A i \in 1..Len(jobs) : jobs'[i] = jobs[i]
        /\ Len(jobs) \in Nat
    BY <2>1, <2>2, AppendProperties, LenProperties DEF DataTyped
  <2>4. \A i \in 1..Len(jobs) : i \in 1..Len(jobs')
    BY <2>3
  <2>5. ASSUME NEW i \in 1..Len(jobs), Alone(i)' PROVE Alone(i)
    BY <2>3, <2>4, <2>5 DEF Alone
  <2>6. \A k \in running \cup done :
          OptionsOf(k)' = OptionsOf(k) /\ JournalOf(k)' = JournalOf(k)
    BY <1>0, <2>3 DEF OptionsOf, JournalOf
  <2>7. \A i \in running' \cup done' : Alone(i)' => i \in drawn'
    BY <1>0, <2>1, <2>5 DEF ShownInv
  <2>8. \A i \in done' : Alone(i)' /\ Writable(jobs'[i].out) =>
          files'[jobs'[i].out] = <<jobs'[i].source, jobs'[i].name>>
    BY <1>0, <2>1, <2>3, <2>5 DEF ShownInv
  <2>9. \A j \in Journals : journal'[j] # 0 =>
          \E k \in running' \cup done' :
            OptionsOf(k)' .cache # NoCache /\ JournalOf(k)' = j
    BY <2>1, <2>6 DEF ShownInv
  <2>10. QED
    BY <2>7, <2>8, <2>9 DEF ShownInv, Writable
<1>2. CASE Begin
  <2> DEFINE h == Head(line)
  <2>1. /\ UNCHANGED <<jobs, done, files>> /\ line # <<>>
        /\ running' = running \cup {h}
        /\ drawn' = IF Dirty(h) THEN drawn \cup {h} ELSE drawn
        /\ journal' = IF Dirty(h) /\ OptionsOf(h).cache # NoCache
                      THEN [journal EXCEPT ![JournalOf(h)] = Newest(h)]
                      ELSE journal
    BY <1>2 DEF Begin, Pool!Begin
  <2>2. h \in 1..Len(jobs) /\ h \notin running \cup done
    BY <2>1, HeadOfLine
  <2> HIDE DEF h
  <2>3. /\ Newest(h) \in Nat \ {0}
        /\ OptionsOf(h).cache # NoCache => JournalOf(h) \in Journals
    BY <2>2, JobFound
  <2>4. \A i : /\ Alone(i)' = Alone(i) /\ OptionsOf(i)' = OptionsOf(i)
               /\ JournalOf(i)' = JournalOf(i)
    BY <2>1 DEF Alone, OptionsOf, JournalOf
  <2>5. ASSUME NEW j \in Journals, journal'[j] # 0
        PROVE  \E k \in running' \cup done' :
                 OptionsOf(k).cache # NoCache /\ JournalOf(k) = j
    <3>1. CASE journal[j] # 0
      BY <2>1, <3>1 DEF ShownInv
    <3>2. CASE journal[j] = 0
      <4>1. OptionsOf(h).cache # NoCache /\ JournalOf(h) = j
        BY <2>1, <2>3, <2>5, <3>2 DEF DataTyped
      <4>2. QED
        BY <2>1, <4>1
    <3>3. QED
      BY <3>1, <3>2
  <2>6. ASSUME Alone(h) PROVE Dirty(h)
    <3>1. CASE OptionsOf(h).cache = NoCache
      BY <3>1 DEF Dirty
    <3>2. CASE OptionsOf(h).cache # NoCache
      <4>1. ASSUME journal[JournalOf(h)] # 0 PROVE FALSE
        <5>1. PICK k \in running \cup done :
                OptionsOf(k).cache # NoCache /\ JournalOf(k) = JournalOf(h)
          BY <2>3, <3>2, <4>1 DEF ShownInv
        <5>2. k \in (1..Len(jobs)) \ {h}
          BY <1>0, <2>2, <5>1
        <5>3. QED
          BY <2>6, <3>2, <5>1, <5>2 DEF Alone, OptionsOf, JournalOf
      <4>2. journal[JournalOf(h)] < Newest(h)
        BY <2>3, <4>1
      <4>3. QED
        BY <3>2, <4>2 DEF Dirty
    <3>3. QED
      BY <3>1, <3>2
  <2>7. \A i \in running' \cup done' : Alone(i) => i \in drawn'
    BY <2>1, <2>6 DEF ShownInv
  <2>8. QED
    BY <2>1, <2>4, <2>5, <2>7 DEF ShownInv
<1>3. ASSUME NEW i \in JobIds, End(i) PROVE ShownInv'
  <2>1. /\ UNCHANGED <<jobs, journal, drawn>> /\ i \in running
        /\ running' = running \ {i} /\ done' = done \cup {i}
        /\ files' = IF i \in drawn /\ Writable(jobs[i].out)
                    THEN [files EXCEPT ![jobs[i].out] = <<jobs[i].source, jobs[i].name>>]
                    ELSE files
    BY <1>3 DEF End, Pool!End
  <2>2. \A k : /\ Alone(k)' = Alone(k) /\ OptionsOf(k)' = OptionsOf(k)
               /\ JournalOf(k)' = JournalOf(k)
    BY <2>1 DEF Alone, OptionsOf, JournalOf
  <2>3. running' \cup done' = running \cup done /\ i \in 1..Len(jobs) /\ i \notin done
    BY <1>0, <2>1
  <2>4. ASSUME NEW k \in done', Alone(k), Writable(jobs[k].out)
        PROVE  files'[jobs[k].out] = <<jobs[k].source, jobs[k].name>>
    <3>1. CASE k = i
      <4>1. i \in drawn
        BY <2>1, <2>4, <3>1 DEF ShownInv
      <4>2. jobs[i].out \in Outputs
        BY <2>3, JobFound DEF Job
      <4>3. QED
        BY <2>1, <2>4, <3>1, <4>1, <4>2 DEF DataTyped
    <3>2. CASE k # i
      <4>1. k \in done /\ files[jobs[k].out] = <<jobs[k].source, jobs[k].name>>
        BY <2>1, <2>4, <3>2 DEF ShownInv
      <4>2. jobs[i].out # jobs[k].out
        BY <2>3, <2>4, <3>2 DEF Alone
      <4>3. jobs[k].out \in Outputs /\ files'[jobs[k].out] = files[jobs[k].out]
        BY <1>0, <2>1, <4>1, <4>2, JobFound DEF DataTyped, Job
      <4>4. QED
        BY <4>1, <4>3
    <3>3. QED
      BY <3>1, <3>2
  <2>5. QED
    BY <2>1, <2>2, <2>3, <2>4 DEF ShownInv
<1>4. QED
  <2>1. ASSUME Option \/ BadOption \/ EndOptions \/ EndArguments \/ Count \/ EndSource
               \/ Finish \/ EndRun \/ (\E s \in Sources : Generate(s))
               \/ (\E n \in Names : Skip(n) \/ Abort(n)) \/ UNCHANGED vars
        PROVE  UNCHANGED <<jobs, running, done, journal, drawn, files>>
    BY <2>1 DEF Option, BadOption, EndOptions, EndArguments, Count, EndSource, Finish,
                EndRun, Generate, Skip, Abort, vars, Pool!Close, Pool!Return, Pool!Break
  <2>2. QED
    BY <1>1, <1>2, <1>3, <2>1, ShownUntouched DEF Next

-----------------------------------------------------------------------------
(* A pool that could not be started begins no region, and only regions that *)
(* were begun are drawn and leave files.                                     *)

BrokenInv ==
  /\ status = "broken" => running \cup done = {}
  /\ drawn \subseteq running \cup done
  /\ \A f \in Outputs : files[f] # Nothing => done # {}

LEMMA BrokenInit == Init => BrokenInv
  BY DEF Init, Pool!Init, BrokenInv

LEMMA BrokenStep == BrokenInv /\ [Next]_vars => BrokenInv'
<1> SUFFICES ASSUME BrokenInv, [Next]_vars PROVE BrokenInv'
  OBVIOUS
<1> USE DEF argVars, queueVars, poolVars, workVars
<1>1. ASSUME UNCHANGED <<running, done, drawn, files>>,
             status' = "broken" => status = "broken" \/ running \cup done = {}
      PROVE  BrokenInv'
  BY <1>1 DEF BrokenInv
<1>2. CASE Begin
  BY <1>2 DEF Begin, Pool!Begin, BrokenInv
<1>3. ASSUME NEW i \in JobIds, End(i) PROVE BrokenInv'
  BY <1>3 DEF End, Pool!End, BrokenInv
<1>4. QED
  <2>1. ASSUME Option \/ BadOption \/ EndOptions \/ EndArguments \/ Count \/ EndSource
               \/ Finish \/ EndRun \/ (\E s \in Sources : Generate(s))
               \/ (\E n \in Names : Skip(n) \/ Abort(n) \/ Queue(n)) \/ UNCHANGED vars
        PROVE  /\ UNCHANGED <<running, done, drawn, files>>
               /\ status' = "broken" => status = "broken" \/ running \cup done = {}
    BY <2>1 DEF Option, BadOption, EndOptions, EndArguments, Count, EndSource, Finish,
                EndRun, Generate, Skip, Abort, Queue, vars, Pool!Submit, Pool!Close,
                Pool!Return, Pool!Break, Pool!Accepted
  <2>2. QED
    BY <1>1, <1>2, <1>3, <2>1 DEF Next

\* Nothing was begun, so nothing is drawn, saved or written to a journal.
LEMMA BrokenUntouched ==
  ASSUME CountInv, ShownInv, BrokenInv, DataTyped, status = "broken"
  PROVE  Untouched
<1>1. running \cup done = {} /\ done = {}
  BY DEF BrokenInv
<1>2. processed = 0
  BY <1>1, FS_EmptySet DEF CountInv
<1>3. QED
  BY <1>1, <1>2 DEF BrokenInv, ShownInv, Untouched

-----------------------------------------------------------------------------
(* What the process has done when it ends. *)

RunInv == DataTyped /\ NamesInv /\ PoolInv /\ CountInv /\ LabelInv /\ ShownInv /\ BrokenInv

LEMMA RunAlways == Spec => []RunInv
<1>1. Init => RunInv
  <2>1. Init => NamesInv
    BY EmptySeq DEF Init, NamesInv
  <2>2. QED
    BY <2>1, DataInit, PoolInit, CountInit, LabelInit, ShownInit, BrokenInit DEF RunInv
<1>2. RunInv /\ [Next]_vars => RunInv'
  BY DataStep, NamesStep, PoolStep, CountStep, LabelStep, ShownStep, BrokenStep DEF RunInv
<1>3. QED
  BY <1>1, <1>2, PTL DEF Spec

\* A drained pool has ended every job.
LEMMA AllDone ==
  ASSUME RunInv, Drained
  PROVE  done = 1..Len(jobs)
<1>1. line = <<>> /\ running = {}
  BY DEF RunInv, CountInv
<1>2. Range(line) = {}
  BY <1>1, EmptySeq DEF Range
<1>3. QED
  BY <1>1, <1>2 DEF RunInv, PoolInv

\* However main() ends, the exit handler waits for all regions, and the progress
\* shown is theirs; without threads no region is rendered, not even in part.
THEOREM ExitDrainsThePool == Spec => []ExitDrains
<1>1. ASSUME RunInv PROVE ExitDrains
  <2>1. /\ DataTyped /\ PoolInv /\ CountInv /\ Len(jobs) \in Nat
    BY <1>1, LenProperties DEF RunInv, DataTyped
  <2>2. processed \in 0..MaxJobs /\ maximum \in 0..MaxJobs
    <3>1. processed \in Nat /\ processed <= MaxJobs
      BY <2>1, JobsFinite DEF CountInv, PoolInv
    <3>2. maximum \in Nat /\ maximum <= Len(jobs) /\ Len(jobs) <= MaxJobs
      BY <2>1 DEF CountInv, DataTyped
    <3>3. QED
      BY <2>1, <3>1, <3>2, SizeAssumption
  <2>3. TypeOK
    BY <2>1, <2>2 DEF DataTyped, TypeOK
  <2>4. ASSUME Drained
        PROVE  line = <<>> /\ running = {} /\ processed = Len(jobs) /\ maximum = Len(jobs)
    <3>1. done = 1..Len(jobs)
      BY <1>1, <2>4, AllDone
    <3>2. Cardinality(done) = Len(jobs)
      <4>1. ASSUME NEW n \in Nat PROVE Cardinality(1..n) = n
        BY FS_Interval
      <4>2. QED
        BY <2>1, <3>1, <4>1
    <3>3. QED
      BY <2>1, <2>4, <3>2 DEF CountInv, Drained
  <2>5. status = "broken" => Untouched
    BY <1>1, BrokenUntouched DEF RunInv
  <2>6. QED
    BY <2>3, <2>4, <2>5 DEF ExitDrains
<1>2. QED
  BY <1>1, RunAlways, PTL

\* Each region is counted under its own label, whatever options and sources
\* follow it.
THEOREM LabelsDoNotMix == Spec => []LabelsAreOwn
<1>1. ASSUME RunInv PROVE LabelsAreOwn
  <2>1. LabelInv /\ DOMAIN stats = Labels \cup Sources
    BY <1>1 DEF RunInv, DataTyped
  <2>2. ASSUME Drained, NEW l \in DOMAIN stats
        PROVE  stats[l] = Cardinality({i \in 1..Len(jobs) : jobs[i].options.label = l})
    <3>1. done = 1..Len(jobs) /\ running = {}
      BY <1>1, <2>2, AllDone DEF RunInv, CountInv
    <3>2. running \cup done = 1..Len(jobs)
      BY <3>1
    <3>3. QED
      BY <2>1, <3>2 DEF LabelInv
  <2>3. QED
    BY <2>1, <2>2 DEF LabelsAreOwn, LabelInv
<1>2. QED
  BY <1>1, RunAlways, PTL

\* A region whose output and journal no other has is in its output at the end,
\* in whatever order the threads take the regions.
THEOREM OwnOutputIsShown == Spec => []RegionsAreShown
<1>1. ASSUME RunInv PROVE RegionsAreShown
  BY <1>1, AllDone DEF RunInv, ShownInv, RegionsAreShown
<1>2. QED
  BY <1>1, RunAlways, PTL

-----------------------------------------------------------------------------
(* Options, each with the arguments it may have, wherever in an array they are. *)

\* An argument.
Word == STRING

\* Where regetopt() is, the parts of it by name.
Place(a, i, c, x, o, st) ==
  [argv |-> a, optind |-> i, option_argc |-> c, optchar_index |-> x, options |-> o, status |-> st]

\* The letter of a group of short options that is read next; is it the last?
Letter(t, x) == At(t, x + 1)
Last(t, x) == x + 1 >= Len(t)

\* The long option that an argument is; does it need the next argument, or has it one?
Match(t) == Matches(Name(t))
Chosen(t) == LongOptions[CHOOSE k \in Match(t) : TRUE]
Wants(t) == Chosen(t).has_arg = "required" /\ ~Given(t)
Has(t) == Chosen(t).has_arg # "no" /\ Given(t)
After(t) == From(t, Eq(t) + 1)

LEMMA PlaceSet ==
  ASSUME NEW a, NEW i, NEW c, NEW x, NEW o, NEW st, NEW j
  PROVE  LET p == Place(a, i, c, x, o, st)
         IN /\ [p EXCEPT !.status = "ended"] = Place(a, i, c, x, o, "ended")
            /\ [p EXCEPT !.optchar_index = 1] = Place(a, i, c, 1, o, st)
            /\ [p EXCEPT !.optind = j] = Place(a, j, c, x, o, st)
  BY DEF Place

\* What is done with the argument that is read.
LEMMA PlacePass ==
  ASSUME NEW a, NEW i \in Nat, NEW c \in Nat, NEW x \in Nat, NEW o, i < c, NEW t, a[i] = t
  PROVE  /\ t = "--" => Pass(Place(a, i, c, x, o, "reading")) = Place(a, i + 1, c, x, o, "ended")
         /\ t # "--" /\ ~IsOption(t) =>
              Pass(Place(a, i, c, x, o, "reading")) = reorder_option(Place(a, i, c, x, o, "reading"))
         /\ t # "--" /\ IsOption(t) /\ IsLong(t) =>
              Pass(Place(a, i, c, x, o, "reading")) = regetopt_long(Place(a, i, c, x, o, "reading"))
         /\ t # "--" /\ IsOption(t) /\ ~IsLong(t) /\ x >= Len(t) =>
              Pass(Place(a, i, c, x, o, "reading")) = Place(a, i + 1, c, 1, o, "reading")
         /\ t # "--" /\ IsOption(t) /\ ~IsLong(t) /\ ~(x >= Len(t)) =>
              Pass(Place(a, i, c, x, o, "reading")) = regetopt_short(Place(a, i, c, x, o, "reading"))
<1> DEFINE p == Place(a, i, c, x, o, "reading")
<1>1. p.optind = i /\ p.option_argc = c /\ p.optchar_index = x /\ p.argv = a  BY DEF Place
<1>2. Cur(p) = t  BY <1>1 DEF Cur
<1>0. p = Place(a, i, c, x, o, "reading")  OBVIOUS
<1> HIDE DEF p
<1>3. [p EXCEPT !.optind = i + 1, !.status = "ended"] = Place(a, i + 1, c, x, o, "ended")
  <2>1. [p EXCEPT !.optind = i + 1] = Place(a, i + 1, c, x, o, "reading")  BY <1>0, PlaceSet
  <2>2. [Place(a, i + 1, c, x, o, "reading") EXCEPT !.status = "ended"] = Place(a, i + 1, c, x, o, "ended")
    BY PlaceSet
  <2> QED  BY <2>1, <2>2
<1>4. [p EXCEPT !.optchar_index = 1, !.optind = i + 1] = Place(a, i + 1, c, 1, o, "reading")
  <2>1. [p EXCEPT !.optchar_index = 1] = Place(a, i, c, 1, o, "reading")  BY <1>0, PlaceSet
  <2>2. [Place(a, i, c, 1, o, "reading") EXCEPT !.optind = i + 1] = Place(a, i + 1, c, 1, o, "reading")
    BY PlaceSet
  <2> QED  BY <2>1, <2>2
<1>5. ~(p.optind >= p.option_argc)  BY <1>1
<1>6. t = "--" => Pass(p) = Place(a, i + 1, c, x, o, "ended")  BY <1>1, <1>2, <1>3, <1>5 DEF Pass
<1>7. t # "--" /\ ~IsOption(t) => Pass(p) = reorder_option(p)
  <2> HAVE t # "--" /\ ~IsOption(t)
  <2> QED  BY <1>2, <1>5 DEF Pass
<1>8. t # "--" /\ IsOption(t) /\ IsLong(t) => Pass(p) = regetopt_long(p)
  BY <1>2, <1>5 DEF Pass
<1>9. t # "--" /\ IsOption(t) /\ ~IsLong(t) /\ x >= Len(t) =>
        Pass(p) = Place(a, i + 1, c, 1, o, "reading")
  BY <1>1, <1>2, <1>4, <1>5 DEF Pass
<1>10. t # "--" /\ IsOption(t) /\ ~IsLong(t) /\ ~(x >= Len(t)) =>
        Pass(p) = regetopt_short(p)
  BY <1>1, <1>2, <1>5 DEF Pass
<1> QED  BY <1>6, <1>7, <1>8, <1>9, <1>10 DEF p

\* The arguments of options, and the options that regetopt() returns.
Values ==
  {NoArgument} \cup Word \cup {From(t, k) : t \in Word, k \in Nat} \cup {After(t) : t \in Word}
Returned == (DOMAIN OptString \cup {Chosen(t).val : t \in Word}) \X Values

\* What a pass over an option does does not depend on where the option is, as long as the
\* same argument, or none, comes after it.
Passed(a, i, c, x, o, n, y, r, st) ==
  Pass(Place(a, i, c, x, o, "reading")) = Place(a, i + n, c, y, r, st)

LEMMA OptionPass ==
  ASSUME NEW a, NEW i \in Nat, NEW c \in Nat, i < c, NEW o,
         NEW b, NEW j \in Nat, NEW d \in Nat, j < d, NEW q,
         NEW x \in Nat, NEW t \in Word, a[i] = t, b[j] = t, t # "--", IsOption(t),
         i + 1 < c => j + 1 < d /\ a[i + 1] = b[j + 1] /\ a[i + 1] \in Word
  PROVE  \E n \in 0..2, y \in Nat :
           /\ i + n <= c
           /\ \/ Passed(a, i, c, x, o, n, y, o, "reading") /\ Passed(b, j, d, x, q, n, y, q, "reading")
              \/ \E e \in Returned :
                   /\ Passed(a, i, c, x, o, n, y, Append(o, e), "reading")
                   /\ Passed(b, j, d, x, q, n, y, Append(q, e), "reading")
              \/ /\ Passed(a, i, c, x, o, n, y, o, "error")
                 /\ (j + 1 < d => i + 1 < c) => Passed(b, j, d, x, q, n, y, q, "error")
<1> USE DEF Passed
<1> DEFINE Goes(n, y) == Passed(a, i, c, x, o, n, y, o, "reading") /\ Passed(b, j, d, x, q, n, y, q, "reading")
           Gives(n, y, e) == /\ Passed(a, i, c, x, o, n, y, Append(o, e), "reading")
                             /\ Passed(b, j, d, x, q, n, y, Append(q, e), "reading")
           Fails(n, y) == /\ Passed(a, i, c, x, o, n, y, o, "error")
                          /\ (j + 1 < d => i + 1 < c) => Passed(b, j, d, x, q, n, y, q, "error")
<1> SUFFICES \E n \in 0..2, y \in Nat :
               i + n <= c /\ (Goes(n, y) \/ (\E e \in Returned : Gives(n, y, e)) \/ Fails(n, y))
  OBVIOUS
<1>0. /\ i + 0 = i /\ j + 0 = j /\ i + 0 <= c /\ i + 1 <= c /\ (i + 1 < c => i + 2 <= c)
      /\ 0 \in 0..2 /\ 1 \in 0..2 /\ 2 \in 0..2 /\ 1 \in Nat /\ x + 1 \in Nat /\ x + 2 \in Nat
  OBVIOUS
<1>1. CASE IsLong(t)
  <2>1. /\ Pass(Place(a, i, c, x, o, "reading")) = regetopt_long(Place(a, i, c, x, o, "reading"))
        /\ Pass(Place(b, j, d, x, q, "reading")) = regetopt_long(Place(b, j, d, x, q, "reading"))
    BY <1>1, PlacePass
  <2>2. CASE Match(t) = {}
    <3>1. Fails(0, x)
      BY <2>1, <1>0, <2>2 DEF regetopt_long, Place, Cur, Error, Return, HasNext, Match, Chosen,
         Wants, Has, After
    <3> QED  BY <3>1, <1>0
  <2>3. CASE Match(t) # {} /\ Wants(t) /\ i + 1 < c
    <3>1. regetopt_long(Place(a, i, c, x, o, "reading")) =
            Place(a, i + 2, c, x, Append(o, <<Chosen(t).val, a[i + 1]>>), "reading")
      BY <2>3, <1>0 DEF regetopt_long, Place, Cur, Error, Return, HasNext, Match, Chosen, Wants,
           Has, After
    <3>2. regetopt_long(Place(b, j, d, x, q, "reading")) =
            Place(b, j + 2, d, x, Append(q, <<Chosen(t).val, b[j + 1]>>), "reading")
      BY <2>3, <1>0 DEF regetopt_long, Place, Cur, Error, Return, HasNext, Match, Chosen, Wants,
           Has, After
    <3>3. Gives(2, x, <<Chosen(t).val, a[i + 1]>>)
      <4>1. a[i + 1] = b[j + 1]  BY <2>3
      <4> QED  BY <2>1, <3>1, <3>2, <4>1
    <3>4. <<Chosen(t).val, a[i + 1]>> \in Returned  BY <2>3 DEF Returned, Values
    <3> QED  BY <3>3, <3>4, <1>0, <2>3
  <2>4. CASE Match(t) # {} /\ Wants(t) /\ ~(i + 1 < c)
    <3>1. regetopt_long(Place(a, i, c, x, o, "reading")) =
            Place(a, i, c, x, o, "error")
      BY <2>4, <1>0 DEF regetopt_long, Place, Cur, Error, Return, HasNext, Match, Chosen, Wants,
           Has, After
    <3>2. (j + 1 < d => i + 1 < c) => regetopt_long(Place(b, j, d, x, q, "reading")) =
            Place(b, j, d, x, q, "error")
      BY <2>4, <1>0 DEF regetopt_long, Place, Cur, Error, Return, HasNext, Match, Chosen, Wants,
           Has, After
    <3>3. Fails(0, x)  BY <2>1, <1>0, <3>1, <3>2
    <3> QED  BY <3>3, <1>0
  <2>5. CASE Match(t) # {} /\ Has(t)
    <3>1. regetopt_long(Place(a, i, c, x, o, "reading")) =
            Place(a, i + 1, c, x, Append(o, <<Chosen(t).val, After(t)>>), "reading")
      BY <2>5, <1>0 DEF regetopt_long, Place, Cur, Error, Return, HasNext, Match, Chosen, Wants,
           Has, After
    <3>2. regetopt_long(Place(b, j, d, x, q, "reading")) =
            Place(b, j + 1, d, x, Append(q, <<Chosen(t).val, After(t)>>), "reading")
      BY <2>5, <1>0 DEF regetopt_long, Place, Cur, Error, Return, HasNext, Match, Chosen, Wants,
           Has, After
    <3>3. Gives(1, x, <<Chosen(t).val, After(t)>>)  BY <2>1, <1>0, <3>1, <3>2
    <3>4. <<Chosen(t).val, After(t)>> \in Returned  BY DEF Returned, Values
    <3> QED  BY <3>3, <3>4, <1>0
  <2>6. CASE Match(t) # {} /\ ~Wants(t) /\ ~Has(t)
    <3>1. regetopt_long(Place(a, i, c, x, o, "reading")) =
            Place(a, i + 1, c, x, Append(o, <<Chosen(t).val, NoArgument>>), "reading")
      BY <2>6, <1>0 DEF regetopt_long, Place, Cur, Error, Return, HasNext, Match, Chosen, Wants,
           Has, After
    <3>2. regetopt_long(Place(b, j, d, x, q, "reading")) =
            Place(b, j + 1, d, x, Append(q, <<Chosen(t).val, NoArgument>>), "reading")
      BY <2>6, <1>0 DEF regetopt_long, Place, Cur, Error, Return, HasNext, Match, Chosen, Wants,
           Has, After
    <3>3. Gives(1, x, <<Chosen(t).val, NoArgument>>)  BY <2>1, <1>0, <3>1, <3>2
    <3>4. <<Chosen(t).val, NoArgument>> \in Returned  BY DEF Returned, Values
    <3> QED  BY <3>3, <3>4, <1>0
  <2> QED  BY <2>2, <2>3, <2>4, <2>5, <2>6
<1>2. CASE ~IsLong(t) /\ x >= Len(t)
  <2>1. Goes(1, 1)  BY <1>2, PlacePass
  <2> QED  BY <2>1, <1>0
<1>3. CASE ~IsLong(t) /\ ~(x >= Len(t))
  <2> DEFINE l == Letter(t, x)
  <2>1. /\ Pass(Place(a, i, c, x, o, "reading")) = regetopt_short(Place(a, i, c, x, o, "reading"))
        /\ Pass(Place(b, j, d, x, q, "reading")) = regetopt_short(Place(b, j, d, x, q, "reading"))
    BY <1>3, PlacePass
  <2>2. CASE l \notin DOMAIN OptString
    <3>1. Fails(0, x)
      BY <2>1, <1>0, <2>2 DEF regetopt_short, Place, Cur, Error, Return, HasNext, Letter, Last
    <3> QED  BY <3>1, <1>0
  <2>3. CASE l \in DOMAIN OptString /\ ~OptString[l]
    <3>1. Gives(0, x + 1, <<l, NoArgument>>)
      BY <2>1, <1>0, <2>3 DEF regetopt_short, Place, Cur, Error, Return, HasNext, Letter, Last
    <3>2. <<l, NoArgument>> \in Returned  BY <2>3 DEF Returned, Values
    <3> QED  BY <3>1, <3>2, <1>0
  <2>4. CASE l \in DOMAIN OptString /\ OptString[l] /\ ~Last(t, x)
    <3>1. Gives(1, 1, <<l, From(t, x + 2)>>)
      BY <2>1, <1>0, <2>4 DEF regetopt_short, Place, Cur, Error, Return, HasNext, Letter, Last
    <3>2. <<l, From(t, x + 2)>> \in Returned  BY <2>4, <1>0 DEF Returned, Values
    <3> QED  BY <3>1, <3>2, <1>0
  <2>5. CASE l \in DOMAIN OptString /\ OptString[l] /\ Last(t, x) /\ i + 1 < c
    <3>1. Gives(2, 1, <<l, a[i + 1]>>)
      BY <2>1, <1>0, <2>5 DEF regetopt_short, Place, Cur, Error, Return, HasNext, Letter, Last
    <3>2. <<l, a[i + 1]>> \in Returned  BY <2>5 DEF Returned, Values
    <3> QED  BY <3>1, <3>2, <1>0, <2>5
  <2>6. CASE l \in DOMAIN OptString /\ OptString[l] /\ Last(t, x) /\ ~(i + 1 < c)
    <3>1. Fails(0, x)
      BY <2>1, <1>0, <2>6 DEF regetopt_short, Place, Cur, Error, Return, HasNext, Letter, Last
    <3> QED  BY <3>1, <1>0
  <2> QED  BY <2>2, <2>3, <2>4, <2>5, <2>6
<1> QED  BY <1>1, <1>2, <1>3

-----------------------------------------------------------------------------
(* The window of arguments that may still be options, and what is behind it. *)

\* SubSeq, by the number of elements.
LEMMA Piece ==
  ASSUME NEW S, NEW s, NEW m \in Int, NEW k \in Nat, \A j \in m..(m + k - 1) : s[j] \in S
  PROVE  /\ SubSeq(s, m, m + k - 1) \in Seq(S) /\ Len(SubSeq(s, m, m + k - 1)) = k
         /\ \A j \in 1..k : SubSeq(s, m, m + k - 1)[j] = s[m + j - 1]
<1> DEFINE n == m + k - 1
<1>1. n \in Int /\ n - m + 1 = k /\ (m <= n <=> k # 0) /\ \A j \in m..n : s[j] \in S  OBVIOUS
<1> HIDE DEF n
<1>2. /\ SubSeq(s, m, n) \in Seq(S) /\ Len(SubSeq(s, m, n)) = IF m <= n THEN n - m + 1 ELSE 0
      /\ \A j \in 1..(n - m + 1) : SubSeq(s, m, n)[j] = s[m + j - 1]
  BY <1>1, SubSeqProperties
<1>3. Len(SubSeq(s, m, n)) = k  BY <1>1, <1>2
<1> QED  BY <1>1, <1>2, <1>3 DEF n

\* The arguments from i on, before c, and what is left of them after k.
LEMMA Window ==
  ASSUME NEW S, NEW a \in Seq(S), NEW i \in Nat \ {0}, NEW l \in Nat, i + l <= Len(a) + 1,
         NEW c, c = i + l
  PROVE  /\ SubSeq(a, i, c - 1) \in Seq(S)
         /\ Len(SubSeq(a, i, c - 1)) = l
         /\ \A k \in 1..l : SubSeq(a, i, c - 1)[k] = a[i + k - 1]
         /\ \A k \in 0..l : SubSeq(SubSeq(a, i, c - 1), 1 + k, l) = SubSeq(a, i + k, c - 1)
<1> DEFINE r == SubSeq(a, i, c - 1)
<1>1. \A k \in i..(i + l - 1) : a[k] \in S  OBVIOUS
<1>2. r \in Seq(S) /\ Len(r) = l /\ \A k \in 1..l : r[k] = a[i + k - 1]
  <2> DEFINE w == SubSeq(a, i, i + l - 1)
  <2>1. w \in Seq(S) /\ Len(w) = l /\ \A k \in 1..l : w[k] = a[i + k - 1]
    <3> HIDE DEF w
    <3> QED  BY <1>1, Piece DEF w
  <2> QED  BY <2>1
<1>3. ASSUME NEW k \in 0..l
      PROVE  SubSeq(r, 1 + k, l) = SubSeq(a, i + k, c - 1)
  <2> HIDE DEF r
  <2> DEFINE u == l - k
             v == SubSeq(r, 1 + k, (1 + k) + u - 1)
             w == SubSeq(a, i + k, (i + k) + u - 1)
  <2>1. u \in Nat /\ (1 + k) + u - 1 = l /\ (i + k) + u - 1 = c - 1 /\ 1 + k \in Int /\ i + k \in Int
    OBVIOUS
  <2>2. \A m \in (1 + k)..((1 + k) + u - 1) : r[m] \in S  BY <1>2
  <2>3. \A m \in (i + k)..((i + k) + u - 1) : a[m] \in S  OBVIOUS
  <2>4. \A m \in 1..u : r[1 + k + m - 1] = a[i + k + m - 1]
    <3> TAKE m \in 1..u
    <3>1. 1 + k + m - 1 \in 1..l /\ i + (1 + k + m - 1) - 1 = i + k + m - 1  OBVIOUS
    <3> QED  BY <3>1, <1>2
  <2> HIDE DEF u
  <2>5. v \in Seq(S) /\ Len(v) = u /\ \A m \in 1..u : v[m] = r[1 + k + m - 1]
    BY <2>1, <2>2, Piece
  <2>6. w \in Seq(S) /\ Len(w) = u /\ \A m \in 1..u : w[m] = a[i + k + m - 1]
    BY <2>1, <2>3, Piece
  <2>7. v = w
    <3> HIDE DEF v, w
    <3> QED  BY <2>4, <2>5, <2>6, SeqEqual
  <2> QED  BY <2>1, <2>7
<1> QED  BY <1>2, <1>3

\* reorder_option(): what was at i is the last.
Rotated(a, i, e) == SubSeq(a, 1, i - 1) \o SubSeq(a, i + 1, Len(a)) \o e

\* An argument that is moved leaves the window at its front and joins the operands.
MovedBehind(S, a, n, i, c, e) ==
  /\ Rotated(a, i, e) \in Seq(S) /\ Len(Rotated(a, i, e)) = n
  /\ SubSeq(Rotated(a, i, e), i, c - 2) = SubSeq(a, i + 1, c - 1)
  /\ SubSeq(Rotated(a, i, e), c - 1, n) = SubSeq(a, c, n) \o e

LEMMA Moved ==
  ASSUME NEW S, NEW a \in Seq(S), NEW n \in Nat, Len(a) = n, NEW i \in Nat \ {0}, i <= n,
         NEW c \in Nat, i + 1 <= c, c <= n + 1, NEW e \in Seq(S), Len(e) = 1, e[1] = a[i]
  PROVE  MovedBehind(S, a, n, i, c, e)
<1> DEFINE b == Rotated(a, i, e)
<1>1. \A k \in 1..n : a[k] \in S  OBVIOUS
<1> DEFINE p == SubSeq(a, 1, 1 + (i - 1) - 1)
           q == SubSeq(a, i + 1, i + 1 + (n - i) - 1)
<1>2. i - 1 \in Nat /\ n - i \in Nat /\ 1 + (i - 1) - 1 = i - 1 /\ i + 1 + (n - i) - 1 = n  OBVIOUS
<1>3. p \in Seq(S) /\ Len(p) = i - 1 /\ \A k \in 1..(i - 1) : p[k] = a[k]
  <2>1. p \in Seq(S) /\ Len(p) = i - 1 /\ \A k \in 1..(i - 1) : p[k] = a[1 + k - 1]
    BY <1>1, <1>2, Piece
  <2> QED  BY <2>1
<1>4. q \in Seq(S) /\ Len(q) = n - i /\ \A k \in 1..(n - i) : q[k] = a[i + 1 + k - 1]
  BY <1>1, <1>2, Piece
<1>5. e \in Seq(S) /\ Len(e) = 1 /\ e[1] = a[i]  OBVIOUS
<1>6. b = (p \o q) \o e  BY <1>2 DEF Rotated
<1> HIDE DEF p, q, b
<1>7. /\ p \o q \in Seq(S) /\ Len(p \o q) = n - 1
      /\ \A k \in 1..(n - 1) : (p \o q)[k] = IF k <= Len(p) THEN p[k] ELSE q[k - Len(p)]
  <2>1. /\ p \o q \in Seq(S) /\ Len(p \o q) = Len(p) + Len(q)
        /\ \A k \in 1..(Len(p) + Len(q)) : (p \o q)[k] = IF k <= Len(p) THEN p[k] ELSE q[k - Len(p)]
    BY ONLY <1>3, <1>4, ConcatProperties
  <2>2. Len(p) + Len(q) = n - 1  BY <1>3, <1>4
  <2> QED  BY <2>1, <2>2
<1> DEFINE d == p \o q
<1>15. d \in Seq(S) /\ Len(d) = n - 1 /\ b = d \o e  BY <1>6, <1>7
<1>16. \A k \in 1..n : b[k] = IF k <= Len(d) THEN d[k] ELSE e[k - Len(d)]
  <2> HIDE DEF d
  <2>1. \A k \in 1..(Len(d) + Len(e)) : (d \o e)[k] = IF k <= Len(d) THEN d[k] ELSE e[k - Len(d)]
    BY <1>15, <1>5, ConcatProperties
  <2>2. Len(d) + Len(e) = n  BY <1>15, <1>5
  <2> QED  BY <2>1, <2>2, <1>15
<1>8. b \in Seq(S) /\ Len(b) = n
  <2> HIDE DEF d
  <2>1. d \o e \in Seq(S) /\ Len(d \o e) = Len(d) + Len(e)  BY <1>15, <1>5, ConcatProperties
  <2>2. Len(d) + Len(e) = n  BY <1>15, <1>5
  <2> QED  BY <2>1, <2>2, <1>15
<1>9. ASSUME NEW k \in 1..(i - 1) PROVE b[k] = a[k]
  <2>1. k <= Len(p) /\ k <= Len(d) /\ k \in 1..n /\ k \in 1..(n - 1)  BY <1>3, <1>15
  <2>2. b[k] = d[k]  BY <2>1, <1>16
  <2>3. d[k] = p[k]  BY <2>1, <1>7
  <2> QED  BY <2>2, <2>3, <1>3
<1>10. ASSUME NEW k \in i..(n - 1) PROVE b[k] = a[k + 1]
  <2>1. /\ ~(k <= Len(p)) /\ k <= Len(d) /\ k \in 1..n /\ k \in 1..(n - 1)
        /\ k - Len(p) \in 1..(n - i) /\ i + 1 + (k - Len(p)) - 1 = k + 1
    <3>1. Len(p) = i - 1 /\ Len(d) = n - 1  BY <1>3, <1>15
    <3>2. /\ ~(k <= i - 1) /\ k <= n - 1 /\ k \in 1..n /\ k \in 1..(n - 1)
          /\ k - (i - 1) \in 1..(n - i) /\ i + 1 + (k - (i - 1)) - 1 = k + 1
      OBVIOUS
    <3> QED  BY ONLY <3>1, <3>2
  <2>2. b[k] = d[k]  BY <2>1, <1>16
  <2>3. d[k] = q[k - Len(p)]  BY <2>1, <1>7
  <2> QED  BY <2>1, <2>2, <2>3, <1>4
<1>11. b[n] = a[i]
  <2> HIDE DEF d
  <2>1. n \in 1..n /\ ~(n <= Len(d)) /\ n - Len(d) = 1  BY <1>15
  <2> QED  BY <2>1, <1>5, <1>16
<1>12. \A k \in 1..n : b[k] \in S  BY <1>8
<1> HIDE DEF d
<1>13. SubSeq(b, i, c - 2) = SubSeq(a, i + 1, c - 1)
  <2> DEFINE u == c - 1 - i
             v == SubSeq(b, i, i + u - 1)
             w == SubSeq(a, i + 1, i + 1 + u - 1)
  <2>1. /\ u \in Nat /\ i + u - 1 = c - 2 /\ i + 1 + u - 1 = c - 1 /\ i \in Int /\ i + 1 \in Int
        /\ \A m \in i..(i + u - 1) : m \in 1..n
        /\ \A m \in (i + 1)..(i + 1 + u - 1) : m \in 1..n
        /\ \A m \in 1..u : i + m - 1 \in i..(n - 1) /\ (i + m - 1) + 1 = i + 1 + m - 1
    OBVIOUS
  <2> HIDE DEF u
  <2>2. v \in Seq(S) /\ Len(v) = u /\ \A m \in 1..u : v[m] = b[i + m - 1]
    BY <2>1, <1>12, Piece
  <2>3. w \in Seq(S) /\ Len(w) = u /\ \A m \in 1..u : w[m] = a[i + 1 + m - 1]
    BY <2>1, <1>1, Piece
  <2>4. \A m \in 1..u : b[i + m - 1] = a[i + 1 + m - 1]  BY <2>1, <1>10
  <2> HIDE DEF v, w
  <2>5. \A m \in 1..u : v[m] = w[m]
    <3> TAKE m \in 1..u
    <3>1. v[m] = b[i + m - 1] /\ w[m] = a[i + 1 + m - 1]  BY ONLY <2>2, <2>3, m \in 1..u
    <3> QED  BY ONLY <2>4, <3>1, m \in 1..u
  <2>6. v = w  BY ONLY <2>2, <2>3, <2>5, SeqEqual
  <2> QED  BY <2>1, <2>6 DEF v, w
<1>14. SubSeq(b, c - 1, n) = SubSeq(a, c, n) \o e
  <2> DEFINE u == n + 1 - c
             v == SubSeq(b, c - 1, c - 1 + (u + 1) - 1)
             w == SubSeq(a, c, c + u - 1)
             t == w \o e
  <2>1. /\ u \in Nat /\ u + 1 \in Nat /\ c + u - 1 = n /\ c - 1 \in Int /\ c \in Int
        /\ \A m \in (c - 1)..(c - 1 + (u + 1) - 1) : m \in 1..n
        /\ \A m \in c..(c + u - 1) : m \in 1..n
        /\ \A m \in 1..u : c - 1 + m - 1 \in i..(n - 1) /\ (c - 1 + m - 1) + 1 = c + m - 1
        /\ c - 1 + (u + 1) - 1 = n
    OBVIOUS
  <2> HIDE DEF u
  <2>2. v \in Seq(S) /\ Len(v) = u + 1 /\ \A m \in 1..(u + 1) : v[m] = b[c - 1 + m - 1]
    BY <2>1, <1>12, Piece
  <2>3. w \in Seq(S) /\ Len(w) = u /\ \A m \in 1..u : w[m] = a[c + m - 1]
    BY <2>1, <1>1, Piece
  <2>4. /\ t \in Seq(S) /\ Len(t) = u + 1 /\ t[u + 1] = a[i]
        /\ \A m \in 1..u : t[m] = w[m]
    <3> HIDE DEF w
    <3>1. /\ t \in Seq(S) /\ Len(t) = Len(w) + Len(e)
          /\ \A m \in 1..(Len(w) + Len(e)) : t[m] = IF m <= Len(w) THEN w[m] ELSE e[m - Len(w)]
      BY ONLY <1>5, <2>3, ConcatProperties
    <3> HIDE DEF t
    <3>2. /\ Len(w) = u /\ Len(w) + Len(e) = u + 1 /\ \A m \in 1..u : m <= u /\ m \in 1..(u + 1)
          /\ u + 1 \in 1..(u + 1) /\ ~(u + 1 <= u) /\ (u + 1) - u = 1
      BY <1>5, <2>1, <2>3
    <3> QED  BY <1>5, <3>1, <3>2
  <2>5. \A m \in 1..(u + 1) : v[m] = t[m]
    <3> HIDE DEF v, w, t
    <3> TAKE m \in 1..(u + 1)
    <3>1. CASE m = u + 1  BY <3>1, <2>1, <2>2, <2>4, <1>11
    <3>2. CASE m \in 1..u
      <4>1. v[m] = b[c - 1 + m - 1] /\ t[m] = a[c + m - 1]  BY <3>2, <2>2, <2>3, <2>4
      <4>2. b[c - 1 + m - 1] = a[(c - 1 + m - 1) + 1]  BY <3>2, <2>1, <1>10
      <4> QED  BY <4>1, <4>2, <3>2, <2>1
    <3>3. m = u + 1 \/ m \in 1..u  BY ONLY <2>1, m \in 1..(u + 1)
    <3> QED  BY <3>1, <3>2, <3>3
  <2>6. v = t
    <3> HIDE DEF v, t
    <3> QED  BY ONLY <2>1, <2>2, <2>4, <2>5, SeqEqual
  <2> QED  BY <2>1, <2>6
<1> QED  BY <1>8, <1>13, <1>14 DEF b, MovedBehind

-----------------------------------------------------------------------------
(* regetopt() and ScanPass read the same. *)

\* Where ScanPass is.
Scan(r, u, o, x, st) ==
  [rest |-> r, operands |-> u, options |-> o, optchar_index |-> x, status |-> st]

\* The four things ScanPass does.
LEMMA ScanAtEnd ==
  ASSUME NEW u, NEW o, NEW x
  PROVE  ScanPass(Scan(<<>>, u, o, x, "reading")) = Scan(<<>>, u, o, x, "ended")
  BY DEF ScanPass, Scan

LEMMA ScanDashes ==
  ASSUME NEW r, r # <<>>, Head(r) = "--", NEW u, NEW o, NEW x
  PROVE  ScanPass(Scan(r, u, o, x, "reading")) = Scan(<<>>, Tail(r) \o u, o, x, "ended")
  BY DEF ScanPass, Scan

LEMMA ScanOperand ==
  ASSUME NEW r, r # <<>>, Head(r) # "--", ~IsOption(Head(r)), NEW u, NEW o, NEW x
  PROVE  ScanPass(Scan(r, u, o, x, "reading")) = Scan(Tail(r), Append(u, Head(r)), o, x, "reading")
  BY DEF ScanPass, Scan

LEMMA ScanOption ==
  ASSUME NEW S, NEW r \in Seq(S), r # <<>>, Head(r) # "--", IsOption(Head(r)),
         NEW u, NEW o, NEW x, NEW n \in Nat, NEW y, NEW v, NEW st,
         Passed(r, 1, Len(r) + 1, x, o, n, y, v, st)
  PROVE  ScanPass(Scan(r, u, o, x, "reading")) = Scan(From(r, 1 + n), u, v, y, st)
<1>1. [Start(r) EXCEPT !.options = o, !.optchar_index = x] = Place(r, 1, Len(r) + 1, x, o, "reading")
  <2>1. [Start(r) EXCEPT !.options = o] = Place(r, 1, Len(r) + 1, 1, o, "reading")
    BY DEF Start, Place
  <2>2. [Place(r, 1, Len(r) + 1, 1, o, "reading") EXCEPT !.optchar_index = x] =
          Place(r, 1, Len(r) + 1, x, o, "reading")
    BY DEF Place
  <2> QED  BY <2>1, <2>2
<1>2. Pass(Place(r, 1, Len(r) + 1, x, o, "reading")) = Place(r, 1 + n, Len(r) + 1, y, v, st)
  BY DEF Passed
<1>3. /\ Place(r, 1 + n, Len(r) + 1, y, v, st).optind = 1 + n
      /\ Place(r, 1 + n, Len(r) + 1, y, v, st).options = v
      /\ Place(r, 1 + n, Len(r) + 1, y, v, st).optchar_index = y
      /\ Place(r, 1 + n, Len(r) + 1, y, v, st).status = st
  BY DEF Place
<1> QED  BY <1>1, <1>2, <1>3 DEF ScanPass, Scan

\* The scan of what is left of an array, the operands being behind it; in the end they are all
\* that is left.
Agree(a, i, c, x, o, st, s) ==
  /\ a \in Seq(Word) /\ i \in Nat \ {0} /\ c \in Nat /\ i <= c /\ c <= Len(a) + 1
  /\ x \in Nat /\ o \in Seq(Returned)
  /\ \/ st \in {"reading", "error"} /\ s = Scan(SubSeq(a, i, c - 1), SubSeq(a, c, Len(a)), o, x, st)
     \/ st = "ended" /\ s = Scan(<<>>, SubSeq(a, i, Len(a)), o, x, st)

\* regetopt() at p has read what ScanPass has read at s.
InStep(p, s) == \E a, i, c, x, o, st : p = Place(a, i, c, x, o, st) /\ Agree(a, i, c, x, o, st, s)

\* Each pass of regetopt(), moving operands behind the other arguments as it meets them, reads
\* what the scan of the arguments in their order reads.
THEOREM Lockstep ==
  ASSUME NEW p, NEW s, InStep(p, s), p.status = "reading"
  PROVE  InStep(Pass(p), ScanPass(s))
<1>1. PICK a, i, c, x, o : p = Place(a, i, c, x, o, "reading") /\ Agree(a, i, c, x, o, "reading", s)
  <2>1. PICK a, i, c, x, o, st : p = Place(a, i, c, x, o, st) /\ Agree(a, i, c, x, o, st, s)
    BY DEF InStep
  <2>2. st = "reading"  BY <2>1 DEF Place
  <2> QED  BY <2>1, <2>2
<1> DEFINE n == Len(a)
           l == c - i
           r == SubSeq(a, i, c - 1)
           u == SubSeq(a, c, Len(a))
<1>2. /\ a \in Seq(Word) /\ i \in Nat \ {0} /\ c \in Nat /\ i <= c /\ c <= n + 1 /\ x \in Nat
      /\ o \in Seq(Returned) /\ s = Scan(r, u, o, x, "reading") /\ n \in Nat /\ l \in Nat
      /\ c = i + l /\ i + l <= n + 1 /\ Len(a) = n /\ u = SubSeq(a, c, n)
  BY <1>1 DEF Agree
<1>3. /\ r \in Seq(Word) /\ Len(r) = l /\ \A k \in 1..l : r[k] = a[i + k - 1]
      /\ \A k \in 0..l : SubSeq(r, 1 + k, l) = SubSeq(a, i + k, c - 1)
  <2> HIDE DEF l, n, u
  <2> QED  BY <1>2, Window
<1> HIDE DEF r, n, u, l
<1>4. CASE i = c
  <2>1. Pass(p) = Place(a, i, c, x, o, "ended")
    BY <1>1, <1>2, <1>4, PlaceSet DEF Pass, Place
  <2>2. r = <<>>  BY <1>3, <1>4, <1>2
  <2>3. ScanPass(s) = Scan(<<>>, u, o, x, "ended")  BY <1>2, <2>2, ScanAtEnd
  <2>4. Agree(a, i, c, x, o, "ended", ScanPass(s))  BY <1>2, <1>4, <2>3 DEF Agree
  <2> QED  BY <2>1, <2>4 DEF InStep
<1>5. CASE i < c
  <2> DEFINE t == a[i]
  <2>1. /\ r # <<>> /\ Head(r) = t /\ t \in Word /\ Tail(r) = SubSeq(a, i + 1, c - 1) /\ l >= 1
        /\ i \in 1..n /\ c \in (i + 1)..(n + 1)
    <3>1. l >= 1 /\ 1 \in 1..l /\ 1 \in 0..l /\ i + 1 - 1 = i /\ i \in 1..n /\ c \in (i + 1)..(n + 1)
      BY <1>2, <1>5
    <3>2. r # <<>>  BY <1>3, <3>1
    <3>3. Head(r) = r[1] /\ r[1] = a[i + 1 - 1]  BY <1>3, <3>1, <3>2
    <3>4. Tail(r) = SubSeq(r, 1 + 1, l)  BY <1>3, <3>2, TailIsSubSeq
    <3>5. SubSeq(r, 1 + 1, l) = SubSeq(a, i + 1, c - 1)  BY <1>3, <3>1
    <3>6. a[i] \in Word  BY <1>2, <3>1
    <3> QED  BY <3>1, <3>2, <3>3, <3>4, <3>5, <3>6
  <2> HIDE DEF t
  <2>2. CASE t = "--"
    <3>1. Pass(p) = Place(a, i + 1, c, x, o, "ended")  BY <1>1, <1>2, <1>5, <2>2, PlacePass DEF t
    <3>2. ScanPass(s) = Scan(<<>>, Tail(r) \o u, o, x, "ended")  BY <1>2, <2>1, <2>2, ScanDashes
    <3>3. Tail(r) \o u = SubSeq(a, i + 1, n)
      <4>1. /\ i + 1 \in 1..(n + 1) /\ c - 1 \in (i + 1 - 1)..n /\ n \in (c - 1)..n /\ (c - 1) + 1 = c
        BY <1>2, <2>1
      <4>2. SubSeq(a, i + 1, c - 1) \o SubSeq(a, (c - 1) + 1, n) = SubSeq(a, i + 1, n)
        <5> DEFINE m == i + 1
                   k == c - 1
        <5>1. m \in 1..(Len(a) + 1) /\ k \in (m - 1)..Len(a) /\ n \in k..Len(a)  BY <1>2, <4>1
        <5> HIDE DEF m, k
        <5>2. SubSeq(a, m, k) \o SubSeq(a, k + 1, n) = SubSeq(a, m, n)
          BY <1>2, <5>1, ConcatAdjacentSubSeq
        <5> QED  BY <5>2 DEF m, k
      <4> QED  BY <1>2, <2>1, <4>1, <4>2
    <3>4. ScanPass(s) = Scan(<<>>, SubSeq(a, i + 1, Len(a)), o, x, "ended")  BY <1>2, <3>2, <3>3
    <3>5. i + 1 \in Nat \ {0} /\ i + 1 <= c  BY <1>2, <1>5
    <3>6. Agree(a, i + 1, c, x, o, "ended", ScanPass(s))  BY <1>2, <3>4, <3>5 DEF Agree
    <3> QED  BY <3>1, <3>6 DEF InStep
  <2>3. CASE t # "--" /\ ~IsOption(t)
    <3> DEFINE e == <<a[i]>>
               b == Rotated(a, i, e)
    <3> HIDE DEF b, e
    <3>1. Pass(p) = reorder_option(p)  BY <1>1, <1>2, <1>5, <2>3, PlacePass DEF t
    <3>2. reorder_option(p) = Place(b, i, c - 1, x, o, "reading")
      <4>1. /\ p.argv = a /\ p.optind = i /\ Cur(p) = a[i] /\ p.option_argc = c
            /\ [p EXCEPT !.argv = b] = Place(b, i, c, x, o, "reading")
        BY <1>1 DEF Place, Cur
      <4>2. [Place(b, i, c, x, o, "reading") EXCEPT !.option_argc = c - 1] = Place(b, i, c - 1, x, o, "reading")
        BY DEF Place
      <4>3. reorder_option(p) = [[p EXCEPT !.argv = b] EXCEPT !.option_argc = c - 1]
        BY <1>2, <4>1 DEF reorder_option, From, b, e, Rotated
      <4> QED  BY <4>1, <4>2, <4>3
    <3>3. /\ b \in Seq(Word) /\ Len(b) = n /\ SubSeq(b, i, c - 2) = SubSeq(a, i + 1, c - 1)
          /\ SubSeq(b, c - 1, n) = Append(SubSeq(a, c, n), a[i])
      <4>1. e \in Seq(Word) /\ Len(e) = 1 /\ e[1] = a[i]  BY <2>1 DEF t, e
      <4>2. /\ a \in Seq(Word) /\ n \in Nat /\ Len(a) = n /\ i \in Nat \ {0} /\ i <= n
            /\ c \in Nat /\ i + 1 <= c /\ c <= n + 1
        BY <1>2, <2>1
      <4>3. MovedBehind(Word, a, n, i, c, e)  BY ONLY <4>1, <4>2, Moved
      <4>4. SubSeq(a, c, n) \o e = Append(SubSeq(a, c, n), a[i])
        <5>1. u \in Seq(Word)  BY <1>2
        <5> QED  BY <1>2, <2>1, <5>1, AppendIsConcat DEF e, t
      <4> QED  BY ONLY <4>3, <4>4 DEF b, MovedBehind
    <3>4. ScanPass(s) = Scan(Tail(r), Append(u, Head(r)), o, x, "reading")
      BY <1>2, <2>1, <2>3, ScanOperand
    <3>5. (c - 1) - 1 = c - 2 /\ i <= c - 1 /\ c - 1 \in Nat /\ c - 1 <= Len(b) + 1
      BY <1>2, <1>5, <3>3
    <3>6. ScanPass(s) = Scan(SubSeq(b, i, (c - 1) - 1), SubSeq(b, c - 1, Len(b)), o, x, "reading")
      BY <1>2, <2>1, <3>3, <3>4, <3>5 DEF t
    <3>7. Agree(b, i, c - 1, x, o, "reading", ScanPass(s))  BY <1>2, <3>3, <3>5, <3>6 DEF Agree
    <3> QED  BY <3>1, <3>2, <3>7 DEF InStep
  <2>4. CASE t # "--" /\ IsOption(t)
    <3> DEFINE d == Len(r) + 1
    <3>1. /\ 1 \in Nat /\ d \in Nat /\ 1 < d /\ r[1] = t
          /\ (i + 1 < c <=> 1 + 1 < d)
          /\ i + 1 < c => a[i + 1] = r[1 + 1] /\ a[i + 1] \in Word
      <4>1. 1 \in 1..l /\ i + 1 - 1 = i  BY <2>1, <1>2
      <4>2. r[1] = t  BY <4>1, <1>3 DEF t
      <4>3. ASSUME i + 1 < c PROVE a[i + 1] = r[1 + 1] /\ a[i + 1] \in Word
        <5>1. 2 \in 1..l /\ i + 2 - 1 = i + 1 /\ i + 1 \in 1..n /\ 1 + 1 = 2  BY <1>2, <4>3
        <5> QED  BY <5>1, <1>2, <1>3
      <4> QED  BY <1>2, <1>3, <2>1, <4>2, <4>3
    <3> HIDE DEF d
    <3>2. PICK k \in 0..2, y \in Nat :
            /\ i + k <= c
            /\ \/ Passed(a, i, c, x, o, k, y, o, "reading") /\ Passed(r, 1, d, x, o, k, y, o, "reading")
               \/ \E e \in Returned :
                    /\ Passed(a, i, c, x, o, k, y, Append(o, e), "reading")
                    /\ Passed(r, 1, d, x, o, k, y, Append(o, e), "reading")
               \/ /\ Passed(a, i, c, x, o, k, y, o, "error")
                  /\ (1 + 1 < d => i + 1 < c) => Passed(r, 1, d, x, o, k, y, o, "error")
      <4>1. a[i] = t  BY DEF t
      <4>2. i \in Nat /\ c \in Nat /\ x \in Nat /\ t \in Word  BY <1>2, <2>1
      <4> QED  BY ONLY <1>5, <2>4, <3>1, <4>1, <4>2, OptionPass
    <3>3. PICK v \in Seq(Returned), st \in {"reading", "error"} :
            Passed(a, i, c, x, o, k, y, v, st) /\ Passed(r, 1, d, x, o, k, y, v, st)
      <4>1. \A e \in Returned : Append(o, e) \in Seq(Returned)  BY <1>2
      <4> QED  BY <3>1, <3>2, <4>1, <1>2
    <3>4. Pass(p) = Place(a, i + k, c, y, v, st)  BY <1>1, <3>3 DEF Passed
    <3>5. ScanPass(s) = Scan(From(r, 1 + k), u, v, y, st)
      <4>1. r \in Seq(Word) /\ r # <<>> /\ Head(r) # "--" /\ IsOption(Head(r)) /\ k \in Nat
        BY <1>3, <2>1, <2>4
      <4>2. Passed(r, 1, Len(r) + 1, x, o, k, y, v, st)  BY <3>3 DEF d
      <4>3. ScanPass(Scan(r, u, o, x, "reading")) = Scan(From(r, 1 + k), u, v, y, st)
        BY ONLY <4>1, <4>2, ScanOption
      <4> QED  BY <1>2, <4>3
    <3>6. From(r, 1 + k) = SubSeq(a, i + k, c - 1)
      <4>1. k \in 0..l  BY <1>2, <3>2
      <4> QED  BY <4>1, <1>3 DEF From
    <3>7. ScanPass(s) = Scan(SubSeq(a, i + k, c - 1), SubSeq(a, c, Len(a)), v, y, st)
      BY <1>2, <3>5, <3>6
    <3>8. i + k \in Nat \ {0} /\ i + k <= c  BY <1>2, <3>2
    <3>9. Agree(a, i + k, c, y, v, st, ScanPass(s))  BY <1>2, <3>3, <3>7, <3>8 DEF Agree
    <3> QED  BY <3>4, <3>9 DEF InStep
  <2> QED  BY <2>2, <2>3, <2>4
<1> QED  BY <1>2, <1>4, <1>5

-----------------------------------------------------------------------------
(* What is behind a piece of a command line, and what was read before it, do not change how it *)
(* is read.                                                                                     *)

\* What is left of r and u after k of r.
LEMMA SuffixOfConcat ==
  ASSUME NEW S, NEW r \in Seq(S), NEW u \in Seq(S), NEW k \in 0..Len(r)
  PROVE  From(r \o u, 1 + k) = From(r, 1 + k) \o u
<1> DEFINE n == Len(r)
           l == n - k
           m == l + Len(u)
           c == r \o u
           v == SubSeq(c, 1 + k, (1 + k) + m - 1)
           w == SubSeq(r, 1 + k, (1 + k) + l - 1)
           t == w \o u
<1>1. /\ c \in Seq(S) /\ Len(c) = n + Len(u)
      /\ \A j \in 1..(n + Len(u)) : c[j] = IF j <= n THEN r[j] ELSE u[j - n]
  BY ConcatProperties
<1>2. /\ n \in Nat /\ Len(u) \in Nat /\ l \in Nat /\ m \in Nat /\ 1 + k \in Int /\ k \in Nat
      /\ (1 + k) + m - 1 = n + Len(u) /\ (1 + k) + l - 1 = n /\ l = n - k /\ m = l + Len(u)
  OBVIOUS
<1>3. \A j \in 1..n : r[j] \in S  OBVIOUS
<1>4. \A j \in 1..(n + Len(u)) : c[j] \in S
  <2> HIDE DEF c
  <2> QED  BY <1>1
<1> HIDE DEF c, n, l, m
<1>5. v \in Seq(S) /\ Len(v) = m /\ \A j \in 1..m : v[j] = c[1 + k + j - 1]
  <2>1. \A j \in (1 + k)..((1 + k) + m - 1) : c[j] \in S  BY <1>2, <1>4
  <2> DEFINE i == 1 + k
  <2>2. i \in Int /\ m \in Nat /\ \A j \in i..(i + m - 1) : c[j] \in S  BY <1>2, <2>1
  <2> HIDE DEF i
  <2>3. /\ SubSeq(c, i, i + m - 1) \in Seq(S) /\ Len(SubSeq(c, i, i + m - 1)) = m
        /\ \A j \in 1..m : SubSeq(c, i, i + m - 1)[j] = c[i + j - 1]
    BY ONLY <2>2, Piece
  <2> QED  BY <2>3 DEF i
<1>6. w \in Seq(S) /\ Len(w) = l /\ \A j \in 1..l : w[j] = r[1 + k + j - 1]
  <2>1. \A j \in (1 + k)..((1 + k) + l - 1) : r[j] \in S  BY <1>2, <1>3
  <2> DEFINE i == 1 + k
  <2>2. i \in Int /\ l \in Nat /\ \A j \in i..(i + l - 1) : r[j] \in S  BY <1>2, <2>1
  <2> HIDE DEF i
  <2>3. /\ SubSeq(r, i, i + l - 1) \in Seq(S) /\ Len(SubSeq(r, i, i + l - 1)) = l
        /\ \A j \in 1..l : SubSeq(r, i, i + l - 1)[j] = r[i + j - 1]
    BY ONLY <2>2, Piece
  <2> QED  BY <2>3 DEF i
<1> HIDE DEF v, w
<1>7. t \in Seq(S) /\ Len(t) = m /\ \A j \in 1..m : t[j] = IF j <= l THEN w[j] ELSE u[j - l]
  <2>1. /\ t \in Seq(S) /\ Len(t) = Len(w) + Len(u)
        /\ \A j \in 1..(Len(w) + Len(u)) : t[j] = IF j <= Len(w) THEN w[j] ELSE u[j - Len(w)]
    BY <1>6, ConcatProperties
  <2> HIDE DEF t
  <2> QED  BY <1>2, <1>6, <2>1
<1>8. ASSUME NEW j \in 1..m PROVE v[j] = t[j]
  <2> HIDE DEF t
  <2>1. 1 + k + j - 1 \in 1..(n + Len(u)) /\ (j <= l <=> 1 + k + j - 1 <= n)  BY <1>2
  <2>2. CASE j <= l
    <3>1. v[j] = r[1 + k + j - 1]  BY <1>1, <1>5, <2>1, <2>2
    <3>2. t[j] = r[1 + k + j - 1]  BY <1>2, <1>6, <1>7, <2>2
    <3> QED  BY <3>1, <3>2
  <2>3. CASE ~(j <= l)
    <3> DEFINE i == 1 + k + j - 1
    <3>1. i \in 1..(n + Len(u)) /\ ~(i <= n) /\ v[j] = c[i]  BY <1>5, <2>1, <2>3
    <3>2. i - n = j - l  BY <1>2
    <3>3. t[j] = u[j - l]  BY <1>7, <2>3
    <3> HIDE DEF i
    <3>4. c[i] = u[i - n]  BY <1>1, <3>1
    <3> QED  BY <3>1, <3>2, <3>3, <3>4
  <2> QED  BY <2>2, <2>3
<1>9. v = t
  <2> HIDE DEF t
  <2> QED  BY <1>5, <1>7, <1>8, SeqEqual
<1>10. From(c, 1 + k) = v /\ From(r, 1 + k) = w  BY <1>1, <1>2 DEF From, v, w, n
<1> QED  BY <1>9, <1>10 DEF c

\* The first of r and u is the first of r.
LEMMA FrontOfConcat ==
  ASSUME NEW S, NEW r \in Seq(S), NEW u \in Seq(S), r # <<>>
  PROVE  /\ r \o u \in Seq(S) /\ r \o u # <<>> /\ Len(r) \in Nat \ {0}
         /\ Len(r \o u) = Len(r) + Len(u)
         /\ \A k \in 1..Len(r) : (r \o u)[k] = r[k]
         /\ Head(r \o u) = Head(r) /\ Head(r) = r[1] /\ Tail(r \o u) = Tail(r) \o u
<1> DEFINE c == r \o u
<1>1. /\ c \in Seq(S) /\ Len(c) = Len(r) + Len(u)
      /\ \A j \in 1..(Len(r) + Len(u)) : c[j] = IF j <= Len(r) THEN r[j] ELSE u[j - Len(r)]
  BY ConcatProperties
<1>2. Len(r) \in Nat \ {0} /\ Len(u) \in Nat /\ Head(r) = r[1]  OBVIOUS
<1>3. From(c, 1 + 1) = From(r, 1 + 1) \o u  BY <1>2, SuffixOfConcat
<1> HIDE DEF c
<1>4. c # <<>> /\ \A k \in 1..Len(r) : c[k] = r[k]  BY <1>1, <1>2
<1>5. Head(c) = c[1] /\ c[1] = r[1]  BY <1>1, <1>2, <1>4
<1>6. Tail(c) = From(c, 1 + 1)
  <2>1. Tail(c) = SubSeq(c, 2, Len(c)) /\ 1 + 1 = 2  BY <1>1, <1>4, TailIsSubSeq
  <2> QED  BY <2>1 DEF From
<1>7. Tail(r) = From(r, 1 + 1)
  <2>1. Tail(r) = SubSeq(r, 2, Len(r)) /\ 1 + 1 = 2  BY <1>2, TailIsSubSeq
  <2> QED  BY <2>1 DEF From
<1> QED  BY <1>1, <1>2, <1>3, <1>4, <1>5, <1>6, <1>7 DEF c

\* Append joins the last of two sequences.
AppendsBehind(q, v, h) == Append(q \o v, h) = q \o Append(v, h)

LEMMA AppendToConcat ==
  ASSUME NEW S, NEW q \in Seq(S), NEW v \in Seq(S), NEW h \in S
  PROVE  AppendsBehind(q, v, h)
<1> DEFINE e == <<h>>
<1>1. e \in Seq(S)  OBVIOUS
<1>2. q \o v \in Seq(S)  BY ConcatProperties
<1>3. Append(q \o v, h) = (q \o v) \o e  BY <1>2, AppendIsConcat
<1>4. Append(v, h) = v \o e  BY AppendIsConcat
<1>5. (q \o v) \o e = q \o (v \o e)
  <2> HIDE DEF e
  <2> QED  BY <1>1, ConcatAssociative
<1> QED  BY <1>3, <1>4, <1>5 DEF AppendsBehind

\* A pass over the front of what is left, alone and before u, behind what q and o are.
Extends(r, v, w, x, u, q, o) ==
  \E r2 \in Seq(Word), v2 \in Seq(Word), w2 \in Seq(Returned), y \in Nat,
     st \in {"reading", "ended", "error"} :
    /\ ScanPass(Scan(r, v, w, x, "reading")) = Scan(r2, v2, w2, y, st)
    /\ st = "reading" \/ (st = "error" /\ u = <<>>) =>
         ScanPass(Scan(r \o u, q \o v, o \o w, x, "reading")) = Scan(r2 \o u, q \o v2, o \o w2, y, st)

\* A piece is read as it is alone, whatever is behind it, except by an option without its
\* argument.
LEMMA ScanExtends ==
  ASSUME NEW r \in Seq(Word), r # <<>>, NEW v \in Seq(Word), NEW w \in Seq(Returned),
         NEW x \in Nat, NEW u \in Seq(Word), NEW q \in Seq(Word), NEW o \in Seq(Returned)
  PROVE  Extends(r, v, w, x, u, q, o)
<1> DEFINE h == Head(r)
<1>1. /\ r \o u \in Seq(Word) /\ r \o u # <<>> /\ Len(r) \in Nat \ {0}
      /\ Len(r \o u) = Len(r) + Len(u) /\ \A k \in 1..Len(r) : (r \o u)[k] = r[k]
      /\ Head(r \o u) = h /\ h = r[1] /\ Tail(r \o u) = Tail(r) \o u
  BY FrontOfConcat
<1>2. Tail(r) \in Seq(Word) /\ h \in Word /\ Len(u) \in Nat  OBVIOUS
<1>3. q \o v \in Seq(Word) /\ o \o w \in Seq(Returned)  OBVIOUS
<1> HIDE DEF h
<1>4. CASE h = "--"
  <2>1. ScanPass(Scan(r, v, w, x, "reading")) = Scan(<<>>, Tail(r) \o v, w, x, "ended")
    BY <1>4, ScanDashes DEF h
  <2>2. Tail(r) \o v \in Seq(Word) /\ <<>> \in Seq(Word)  BY <1>2
  <2> QED  BY <2>1, <2>2 DEF Extends
<1>5. CASE h # "--" /\ ~IsOption(h)
  <2>1. ScanPass(Scan(r, v, w, x, "reading")) = Scan(Tail(r), Append(v, h), w, x, "reading")
    BY <1>5, ScanOperand DEF h
  <2>2. ScanPass(Scan(r \o u, q \o v, o \o w, x, "reading")) =
          Scan(Tail(r) \o u, Append(q \o v, h), o \o w, x, "reading")
    BY <1>1, <1>5, ScanOperand
  <2>3. Append(q \o v, h) = q \o Append(v, h)
    <3>1. AppendsBehind(q, v, h)  BY <1>2, AppendToConcat
    <3> QED  BY <3>1 DEF AppendsBehind
  <2>4. Append(v, h) \in Seq(Word)  BY <1>2
  <2> QED  BY <1>2, <2>1, <2>2, <2>3, <2>4 DEF Extends
<1>6. CASE h # "--" /\ IsOption(h)
  <2> DEFINE c == Len(r) + 1
             b == r \o u
             d == Len(b) + 1
             p == o \o w
  <2>1. /\ c \in Nat /\ d \in Nat /\ 1 < c /\ 1 < d /\ r[1] = h /\ b[1] = h
        /\ (1 + 1 < c => 1 + 1 < d /\ r[1 + 1] = b[1 + 1] /\ r[1 + 1] \in Word)
        /\ (u = <<>> => (1 + 1 < d => 1 + 1 < c))
    <3>1. c \in Nat /\ d \in Nat /\ 1 < c /\ 1 < d /\ r[1] = h /\ b[1] = h
      BY <1>1, <1>2
    <3>2. 1 + 1 < c => 1 + 1 < d /\ 2 \in 1..Len(r) /\ 1 + 1 = 2  BY <1>1, <1>2
    <3>3. 2 \in 1..Len(r) => r[2] = b[2] /\ r[2] \in Word  BY <1>1
    <3>4. u = <<>> => Len(u) = 0  OBVIOUS
    <3>5. Len(u) = 0 => d = c  BY <1>1
    <3> QED  BY <3>1, <3>2, <3>3, <3>4, <3>5
  <2> HIDE DEF b, c, d, p
  <2>2. PICK k \in 0..2, y \in Nat :
          /\ 1 + k <= c
          /\ \/ Passed(r, 1, c, x, w, k, y, w, "reading") /\ Passed(b, 1, d, x, p, k, y, p, "reading")
             \/ \E e \in Returned :
                  /\ Passed(r, 1, c, x, w, k, y, Append(w, e), "reading")
                  /\ Passed(b, 1, d, x, p, k, y, Append(p, e), "reading")
             \/ /\ Passed(r, 1, c, x, w, k, y, w, "error")
                /\ (1 + 1 < d => 1 + 1 < c) => Passed(b, 1, d, x, p, k, y, p, "error")
    BY <1>2, <1>6, <2>1, OptionPass
  <2>3. PICK w2 \in Seq(Returned), st \in {"reading", "error"} :
          /\ Passed(r, 1, c, x, w, k, y, w2, st)
          /\ (st = "reading" \/ (st = "error" /\ u = <<>>) => Passed(b, 1, d, x, p, k, y, o \o w2, st))
    <3>1. \A e \in Returned : Append(w, e) \in Seq(Returned) /\ Append(p, e) = o \o Append(w, e)
      <4>1. TAKE e \in Returned
      <4>2. AppendsBehind(o, w, e)  BY AppendToConcat
      <4>3. Append(p, e) = o \o Append(w, e)  BY <4>2 DEF p, AppendsBehind
      <4> QED  BY <4>3
    <3>2. CASE Passed(r, 1, c, x, w, k, y, w, "reading") /\ Passed(b, 1, d, x, p, k, y, p, "reading")
      BY <3>2 DEF p
    <3>3. CASE \E e \in Returned :
                  /\ Passed(r, 1, c, x, w, k, y, Append(w, e), "reading")
                  /\ Passed(b, 1, d, x, p, k, y, Append(p, e), "reading")
      BY <3>1, <3>3
    <3>4. CASE /\ Passed(r, 1, c, x, w, k, y, w, "error")
               /\ (1 + 1 < d => 1 + 1 < c) => Passed(b, 1, d, x, p, k, y, p, "error")
      BY <2>1, <3>4 DEF p
    <3> QED  BY <2>2, <3>2, <3>3, <3>4
  <2>4. k \in Nat /\ k \in 0..Len(r)  BY <1>1, <2>2 DEF c
  <2>5. ScanPass(Scan(r, v, w, x, "reading")) = Scan(From(r, 1 + k), v, w2, y, st)
    <3>1. Head(r) # "--" /\ IsOption(Head(r)) /\ Passed(r, 1, Len(r) + 1, x, w, k, y, w2, st)
      BY <1>6, <2>3 DEF h, c
    <3> QED  BY <2>4, <3>1, ScanOption
  <2>6. ASSUME st = "reading" \/ (st = "error" /\ u = <<>>)
        PROVE  ScanPass(Scan(b, q \o v, p, x, "reading")) = Scan(From(b, 1 + k), q \o v, o \o w2, y, st)
    <3>1. Head(b) # "--" /\ IsOption(Head(b)) /\ Passed(b, 1, Len(b) + 1, x, p, k, y, o \o w2, st)
      BY <1>1, <1>6, <2>3, <2>6 DEF b, d
    <3>2. b \in Seq(Word) /\ b # <<>>  BY <1>1 DEF b
    <3> QED  BY ONLY <2>4, <3>1, <3>2, ScanOption
  <2>7. From(b, 1 + k) = From(r, 1 + k) \o u  BY <2>4, SuffixOfConcat DEF b
  <2>8. From(r, 1 + k) \in Seq(Word)
    <3>1. 1 + k \in 1..(Len(r) + 1)  BY <2>4
    <3> QED  BY <3>1 DEF From
  <2> QED  BY <2>3, <2>5, <2>6, <2>7, <2>8 DEF Extends, b, p
<1> QED  BY <1>4, <1>5, <1>6

-----------------------------------------------------------------------------
(* The recursive functions exist. *)

\* Induction up to n.
LEMMA UpTo ==
  ASSUME NEW S, NEW n \in Nat, 0 \in S, \A m \in 0..(n - 1) : m \in S => m + 1 \in S
  PROVE  \A m \in 0..n : m \in S
<1> SUFFICES ASSUME NEW k \in 0..n, k \notin S PROVE FALSE  OBVIOUS
<1> DEFINE R == {ss \in Nat \X Nat : ss[1] < ss[2]}
           D == {m \in 0..n : m \notin S}
<1>1. D \subseteq Nat /\ k \in D  OBVIOUS
<1>2. IsWellFoundedOn(R, Nat)  BY NatLessThanWellFounded DEF OpToRel
<1>3. PICK m \in D : \A t \in D : ~(<<t, m>> \in R)
  <2> HIDE DEF R, D
  <2> QED  BY <1>1, <1>2, WFMin
<1>4. m # 0 /\ m - 1 \in 0..(n - 1) /\ (m - 1) + 1 = m  OBVIOUS
<1>5. m - 1 \notin D
  <2>1. m - 1 \in Nat /\ m \in Nat /\ m - 1 < m  BY <1>4
  <2>2. <<m - 1, m>> \in R  BY <2>1
  <2> QED  BY <1>3, <2>2
<1>6. m - 1 \in S  BY <1>4, <1>5
<1> QED  BY <1>4, <1>6

\* The values of a function computed one from the other.
Iterated(f, n, a, G) == f[0] = a /\ \A k \in 1..n : f[k] = G[<<k, f[k - 1]>>]

LEMMA Iterates ==
  ASSUME NEW R, NEW n \in Nat, NEW a \in R, NEW G \in [(1..n) \X R -> R]
  PROVE  \E f \in [0..n -> R] : Iterated(f, n, a, G)
<1> DEFINE Good(m, f) == f[0] = a /\ \A k \in 1..m : f[k] = G[<<k, f[k - 1]>>]
           S == {m \in 0..n : \E f \in [0..m -> R] : Good(m, f)}
<1>1. 0 \in S
  <2>1. Good(0, [k \in 0..0 |-> a])  OBVIOUS
  <2>2. [k \in 0..0 |-> a] \in [0..0 -> R]  OBVIOUS
  <2> HIDE DEF Good
  <2> QED  BY <2>1, <2>2
<1>2. ASSUME NEW m \in 0..(n - 1), m \in S PROVE m + 1 \in S
  <2>1. PICK f \in [0..m -> R] : Good(m, f)  BY <1>2
  <2> DEFINE g == [k \in 0..(m + 1) |-> IF k <= m THEN f[k] ELSE G[<<m + 1, f[m]>>]]
  <2>2. m \in 0..m /\ m + 1 \in 1..n /\ m + 1 \in 0..n /\ f[m] \in R  OBVIOUS
  <2>3. G[<<m + 1, f[m]>>] \in R
    <3>1. <<m + 1, f[m]>> \in (1..n) \X R  BY <2>2
    <3> QED  BY <3>1
  <2>4. g \in [0..(m + 1) -> R]  BY <2>3
  <2>5. g[0] = a  BY <2>1
  <2>6. ASSUME NEW k \in 1..(m + 1) PROVE g[k] = G[<<k, g[k - 1]>>]
    <3>1. CASE k \in 1..m
      <4>1. k \in 0..(m + 1) /\ k <= m /\ k - 1 \in 0..(m + 1) /\ k - 1 <= m  BY <3>1
      <4>2. g[k] = f[k] /\ g[k - 1] = f[k - 1]  BY <4>1
      <4>3. f[k] = G[<<k, f[k - 1]>>]  BY <2>1, <3>1
      <4> QED  BY <4>2, <4>3
    <3>2. CASE k = m + 1
      <4>1. k \in 0..(m + 1) /\ ~(k <= m) /\ k - 1 = m /\ m \in 0..(m + 1) /\ m <= m  BY <3>2
      <4>2. g[k] = G[<<m + 1, f[m]>>] /\ g[m] = f[m]  BY <4>1
      <4> QED  BY <3>2, <4>1, <4>2
    <3> QED  BY <3>1, <3>2
  <2> HIDE DEF g
  <2>7. Good(m + 1, g)  BY <2>5, <2>6
  <2> HIDE DEF Good
  <2> QED  BY <2>2, <2>4, <2>7
<1> HIDE DEF S
<1>3. n \in S
  <2>1. \A m \in 0..n : m \in S  BY <1>1, <1>2, UpTo
  <2> QED  BY <2>1
<1> QED  BY <1>3 DEF S, Iterated

\* Where ScanPass may be.
Statuses == {"reading", "ended", "error"}

ScanStates ==
  {Scan(r, v, w, x, st) : r \in Seq(Word), v \in Seq(Word), w \in Seq(Returned), x \in Nat, st \in Statuses}

LEMMA ScanState ==
  ASSUME NEW r \in Seq(Word), NEW v \in Seq(Word), NEW w \in Seq(Returned), NEW x \in Nat,
         NEW st \in Statuses
  PROVE  Scan(r, v, w, x, st) \in ScanStates
  BY DEF ScanStates

\* A step of ReadAlone.
ScanOn(s) == IF s.status = "reading" /\ s.rest # <<>> THEN ScanPass(s) ELSE s

\* The function ReadAlone names, and its values.
ScansOf(text) ==
  CHOOSE f : f = [n \in 0..PhrasePasses |->
                    IF n = 0 THEN Unread(text)
                    ELSE LET s == f[n - 1]
                         IN IF s.status = "reading" /\ s.rest # <<>> THEN ScanPass(s) ELSE s]

LEMMA ScansAre ==
  ASSUME NEW text \in Seq(Word)
  PROVE  /\ ReadAlone(text) = ScansOf(text)[PhrasePasses]
         /\ ScansOf(text)[0] = Scan(text, <<>>, <<>>, 1, "reading")
         /\ \A n \in 1..PhrasePasses : ScansOf(text)[n] = ScanOn(ScansOf(text)[n - 1])
<1> DEFINE N == PhrasePasses
           Step(f) == [n \in 0..N |->
                         IF n = 0 THEN Unread(text)
                         ELSE LET s == f[n - 1]
                              IN IF s.status = "reading" /\ s.rest # <<>> THEN ScanPass(s) ELSE s]
           a == Scan(text, <<>>, <<>>, 1, "reading")
           G == [z \in (1..N) \X ScanStates |-> ScanOn(z[2])]
<1>1. Unread(text) = a  BY DEF Unread, Scan
<1>2. a \in ScanStates
  <2> DEFINE e == <<>>
  <2>1. e \in Seq(Word) /\ e \in Seq(Returned) /\ "reading" \in Statuses /\ 1 \in Nat
    BY DEF Statuses
  <2> HIDE DEF e
  <2>2. Scan(text, e, e, 1, "reading") \in ScanStates  BY <2>1, ScanState
  <2> QED  BY <2>2 DEF e
<1>3. ASSUME NEW s \in ScanStates PROVE ScanOn(s) \in ScanStates
  <2>1. PICK r \in Seq(Word), v \in Seq(Word), w \in Seq(Returned), x \in Nat, st \in Statuses :
          s = Scan(r, v, w, x, st)
    BY DEF ScanStates
  <2>2. s.status = st /\ s.rest = r  BY <2>1 DEF Scan
  <2>3. CASE st = "reading" /\ r # <<>>
    <3>1. <<>> \in Seq(Word) /\ <<>> \in Seq(Returned)  OBVIOUS
    <3>2. Extends(r, v, w, x, <<>>, <<>>, <<>>)  BY <2>3, <3>1, ScanExtends
    <3>3. ScanPass(s) \in ScanStates  BY <2>1, <2>3, <3>2 DEF Extends, ScanStates, Statuses
    <3> QED  BY <2>2, <2>3, <3>3 DEF ScanOn
  <2>4. CASE ~(st = "reading" /\ r # <<>>)  BY <2>2, <2>4 DEF ScanOn
  <2> QED  BY <2>3, <2>4
<1>4. N \in Nat  BY BoundAssumption
<1>5. G \in [(1..N) \X ScanStates -> ScanStates]  BY <1>3
<1> HIDE DEF N, a, G
<1>6. PICK f \in [0..N -> ScanStates] : f[0] = a /\ \A k \in 1..N : f[k] = G[<<k, f[k - 1]>>]
  <2>1. \E f \in [0..N -> ScanStates] : Iterated(f, N, a, G)  BY ONLY <1>2, <1>4, <1>5, Iterates
  <2> QED  BY <2>1 DEF Iterated
<1>7. f = Step(f)
  <2> SUFFICES ASSUME NEW n \in 0..N
               PROVE  f[n] = IF n = 0 THEN Unread(text)
                             ELSE LET s == f[n - 1]
                                  IN IF s.status = "reading" /\ s.rest # <<>> THEN ScanPass(s) ELSE s
    BY <1>6
  <2>1. CASE n = 0  BY <1>1, <1>6, <2>1
  <2>2. CASE n # 0
    <3>1. n \in 1..N /\ n - 1 \in 0..N  BY <1>4, <2>2
    <3>2. f[n] = G[<<n, f[n - 1]>>] /\ f[n - 1] \in ScanStates  BY <1>6, <3>1
    <3>3. G[<<n, f[n - 1]>>] = ScanOn(f[n - 1])
      <4>1. <<n, f[n - 1]>> \in (1..N) \X ScanStates  BY <3>1, <3>2
      <4> QED  BY <4>1 DEF G
    <3> QED  BY <2>2, <3>2, <3>3 DEF ScanOn
  <2> QED  BY <2>1, <2>2
<1> DEFINE h == ScansOf(text)
<1>8. h = Step(h)  BY <1>7 DEF ScansOf, N
<1>9. ReadAlone(text) = h[PhrasePasses]  BY DEF ReadAlone, ScansOf
<1> HIDE DEF h
<1>10. h[0] = a
  <2>1. 0 \in 0..N  BY <1>4
  <2>2. Step(h)[0] = Unread(text)  BY <2>1
  <2> HIDE DEF Step
  <2> QED  BY <1>1, <1>8, <2>2
<1>11. ASSUME NEW n \in 1..N PROVE h[n] = ScanOn(h[n - 1])
  <2>1. n \in 0..N /\ n # 0  BY <1>4
  <2>2. Step(h)[n] = ScanOn(h[n - 1])  BY <2>1 DEF ScanOn
  <2> HIDE DEF Step
  <2> QED  BY <1>8, <2>2
<1> QED  BY <1>9, <1>10, <1>11 DEF h, a, N

\* Where regetopt() may be.
Places ==
  {Place(a, i, c, x, o, st) :
     a \in Seq(Word), i \in Nat, c \in Nat, x \in Nat, o \in Seq(Returned), st \in Statuses}

\* A step of regetopt().
Read(p) == IF p.status = "reading" THEN Pass(p) ELSE p

\* The function regetopt() names.
PassesOf(argv) ==
  CHOOSE f : f = [n \in 0..MaxPasses |->
                    IF n = 0 THEN Start(argv)
                    ELSE LET p == f[n - 1] IN IF p.status = "reading" THEN Pass(p) ELSE p]

\* What regetopt() and the scan have in common.
LEMMA StatusInStep ==
  ASSUME NEW p, NEW s, InStep(p, s)
  PROVE  p \in Places /\ p.status = s.status /\ p.options = s.options
         /\ (s.status = "ended" => s.operands = From(p.argv, p.optind))
<1>1. PICK a, i, c, x, o, st : p = Place(a, i, c, x, o, st) /\ Agree(a, i, c, x, o, st, s)
  BY DEF InStep
<1>2. /\ a \in Seq(Word) /\ i \in Nat /\ c \in Nat /\ x \in Nat /\ o \in Seq(Returned)
      /\ st \in Statuses
  BY <1>1 DEF Agree, Statuses
<1>3. p \in Places  BY <1>1, <1>2 DEF Places
<1>4. p.status = st /\ p.options = o /\ p.argv = a /\ p.optind = i  BY <1>1 DEF Place
<1>5. s.status = st /\ s.options = o /\ (st = "ended" => s.operands = SubSeq(a, i, Len(a)))
  BY <1>1 DEF Agree, Scan
<1> QED  BY <1>3, <1>4, <1>5 DEF From

\* They begin in step.
LEMMA StartInStep ==
  ASSUME NEW argv \in Seq(Word)
  PROVE  InStep(Start(argv), Scan(argv, <<>>, <<>>, 1, "reading"))
<1> DEFINE c == Len(argv) + 1
<1>1. Start(argv) = Place(argv, 1, c, 1, <<>>, "reading")  BY DEF Start, Place
<1>2. SubSeq(argv, 1, c - 1) = argv /\ SubSeq(argv, c, Len(argv)) = <<>>  OBVIOUS
<1>3. c \in Nat /\ 1 <= c /\ c <= Len(argv) + 1 /\ <<>> \in Seq(Returned)  OBVIOUS
<1>4. 1 \in Nat \ {0} /\ 1 \in Nat /\ c \in Nat  OBVIOUS
<1> HIDE DEF c
<1>5. Scan(SubSeq(argv, 1, c - 1), SubSeq(argv, c, Len(argv)), <<>>, 1, "reading") =
        Scan(argv, <<>>, <<>>, 1, "reading")
  BY <1>2
<1>6. Agree(argv, 1, c, 1, <<>>, "reading", Scan(argv, <<>>, <<>>, 1, "reading"))
  BY <1>3, <1>4, <1>5 DEF Agree
<1> QED  BY <1>1, <1>6 DEF InStep

\* The values of g are those of successive passes.
Runs(g) == \A n \in 1..MaxPasses : g[n] = Read(g[n - 1])

LEMMA PassesAre ==
  ASSUME NEW argv \in Seq(Word)
  PROVE  /\ regetopt(argv) = PassesOf(argv)[MaxPasses]
         /\ PassesOf(argv)[0] = Start(argv)
         /\ Runs(PassesOf(argv))
<1> DEFINE N == MaxPasses
           Step(f) == [n \in 0..N |->
                         IF n = 0 THEN Start(argv)
                         ELSE LET p == f[n - 1] IN IF p.status = "reading" THEN Pass(p) ELSE p]
           R == {p \in Places : \E s : InStep(p, s)}
           a == Start(argv)
           G == [z \in (1..N) \X R |-> Read(z[2])]
<1>1. a \in R
  <2>1. InStep(a, Scan(argv, <<>>, <<>>, 1, "reading"))  BY StartInStep
  <2> QED  BY <2>1, StatusInStep
<1>2. ASSUME NEW p \in R PROVE Read(p) \in R
  <2>1. CASE p.status = "reading"
    <3>1. PICK s : InStep(p, s)  OBVIOUS
    <3>2. InStep(Pass(p), ScanPass(s))  BY <2>1, <3>1, Lockstep
    <3> QED  BY <2>1, <3>2, StatusInStep DEF Read
  <2>2. CASE p.status # "reading"  BY <2>2 DEF Read
  <2> QED  BY <2>1, <2>2
<1>3. N \in Nat  BY BoundAssumption DEF MaxPasses
<1>4. G \in [(1..N) \X R -> R]  BY <1>2
<1> HIDE DEF N, a, G, R
<1>5. PICK f \in [0..N -> R] : f[0] = a /\ \A k \in 1..N : f[k] = G[<<k, f[k - 1]>>]
  <2>1. \E f \in [0..N -> R] : Iterated(f, N, a, G)  BY ONLY <1>1, <1>3, <1>4, Iterates
  <2> QED  BY <2>1 DEF Iterated
<1>6. f = Step(f)
  <2> SUFFICES ASSUME NEW n \in 0..N
               PROVE  f[n] = IF n = 0 THEN Start(argv)
                             ELSE LET p == f[n - 1] IN IF p.status = "reading" THEN Pass(p) ELSE p
    BY <1>5
  <2>1. CASE n = 0  BY <1>5, <2>1 DEF a
  <2>2. CASE n # 0
    <3>1. n \in 1..N /\ n - 1 \in 0..N  BY <1>3, <2>2
    <3>2. f[n] = G[<<n, f[n - 1]>>] /\ f[n - 1] \in R  BY <1>5, <3>1
    <3>3. G[<<n, f[n - 1]>>] = Read(f[n - 1])
      <4>1. <<n, f[n - 1]>> \in (1..N) \X R  BY <3>1, <3>2
      <4> QED  BY <4>1 DEF G
    <3> QED  BY <2>2, <3>2, <3>3 DEF Read
  <2> QED  BY <2>1, <2>2
<1> DEFINE h == PassesOf(argv)
<1>7. h = Step(h)  BY <1>6 DEF PassesOf, N
<1>8. regetopt(argv) = h[MaxPasses]  BY DEF regetopt, PassesOf
<1> HIDE DEF h
<1>9. h[0] = a
  <2>1. 0 \in 0..N  BY <1>3
  <2>2. Step(h)[0] = a  BY <2>1 DEF a
  <2> HIDE DEF Step
  <2> QED  BY <1>7, <2>2
<1>10. ASSUME NEW n \in 1..N PROVE h[n] = Read(h[n - 1])
  <2>1. n \in 0..N /\ n # 0  BY <1>3
  <2>2. Step(h)[n] = Read(h[n - 1])  BY <2>1 DEF Read
  <2> HIDE DEF Step
  <2> QED  BY <1>7, <2>2
<1> QED  BY <1>8, <1>9, <1>10 DEF h, a, N, Runs

-----------------------------------------------------------------------------
(* What the passes reach. *)

\* After at most b passes, regetopt() is in step with s.
Reached(g, s, b) == \E m \in 0..MaxPasses : m <= b /\ InStep(g[m], s)

LEMMA ReachedStep ==
  ASSUME NEW g, Runs(g), NEW s, s.status = "reading", NEW b \in Nat, b + 1 <= MaxPasses, Reached(g, s, b)
  PROVE  Reached(g, ScanPass(s), b + 1)
<1>1. MaxPasses \in Nat  BY BoundAssumption DEF MaxPasses
<1>2. PICK m \in 0..MaxPasses : m <= b /\ InStep(g[m], s)  BY DEF Reached
<1> DEFINE k == m + 1
<1>3. k \in 1..MaxPasses /\ k \in 0..MaxPasses /\ k <= b + 1 /\ k - 1 = m  BY <1>1, <1>2
<1> HIDE DEF k
<1>4. g[k] = Read(g[m])  BY <1>3 DEF Runs
<1>5. g[m].status = "reading"  BY <1>2, StatusInStep
<1>6. InStep(g[k], ScanPass(s))  BY <1>2, <1>4, <1>5, Lockstep DEF Read
<1> QED  BY <1>3, <1>6 DEF Reached

LEMMA ReachedLater ==
  ASSUME NEW g, NEW s, NEW b \in Nat, NEW c \in Nat, b <= c, Reached(g, s, b)
  PROVE  Reached(g, s, c)
  BY DEF Reached

\* What was returned for ':' or '?', or the end, stays.
LEMMA ReachedLast ==
  ASSUME NEW g, Runs(g), NEW s, s.status # "reading", NEW b \in Nat, Reached(g, s, b)
  PROVE  InStep(g[MaxPasses], s)
<1>1. MaxPasses \in Nat  BY BoundAssumption DEF MaxPasses
<1>2. PICK m \in 0..MaxPasses : m <= b /\ InStep(g[m], s)  BY DEF Reached
<1> DEFINE n == MaxPasses - m
           S == {j \in 0..n : g[m + j] = g[m]}
<1>3. n \in Nat /\ m + n = MaxPasses  BY <1>1
<1>4. 0 \in S
  <2>1. m + 0 = m  OBVIOUS
  <2> QED  BY <1>3, <2>1
<1>5. ASSUME NEW j \in 0..(n - 1), j \in S PROVE j + 1 \in S
  <2> DEFINE k == m + (j + 1)
  <2>1. k \in 1..MaxPasses /\ k - 1 = m + j /\ j + 1 \in 0..n  BY <1>1, <1>3
  <2> HIDE DEF k
  <2>2. g[k] = Read(g[m])  BY <1>5, <2>1 DEF Runs
  <2>3. g[m].status # "reading"  BY <1>2, StatusInStep
  <2>4. g[k] = g[m]  BY <2>2, <2>3 DEF Read
  <2> QED  BY <2>1, <2>4 DEF k
<1> HIDE DEF S, n
<1>6. n \in S
  <2>1. \A j \in 0..n : j \in S  BY <1>3, <1>4, <1>5, UpTo
  <2> QED  BY <1>3, <2>1
<1>7. g[m + n] = g[m]  BY <1>6 DEF S
<1> QED  BY <1>2, <1>3, <1>7

\* How far a piece is read in n passes: as it is alone, if it can be read to its end, or if
\* nothing follows it.
ReadSoFar(g, text, u, q, o, b, n, s) ==
  \E r \in Seq(Word), v \in Seq(Word), w \in Seq(Returned), x \in Nat, st \in Statuses :
    /\ s = Scan(r, v, w, x, st)
    /\ /\ Reached(g, Scan(text \o u, q, o, 1, "reading"), b)
       /\ st = "reading" \/ (st = "error" /\ u = <<>>)
       => Reached(g, Scan(r \o u, q \o v, o \o w, x, st), b + n)

\* A piece that is at the front of what is left is read within its bound.
LEMMA PieceIsRead ==
  ASSUME NEW g, Runs(g), NEW text \in Seq(Word), NEW u \in Seq(Word), NEW q \in Seq(Word),
         NEW o \in Seq(Returned), NEW b \in Nat, b + PhrasePasses <= MaxPasses
  PROVE  ReadSoFar(g, text, u, q, o, b, PhrasePasses, ReadAlone(text))
<1> DEFINE N == PhrasePasses
           f == ScansOf(text)
           S == {n \in 0..N : ReadSoFar(g, text, u, q, o, b, n, f[n])}
<1>1. /\ ReadAlone(text) = f[N] /\ f[0] = Scan(text, <<>>, <<>>, 1, "reading")
      /\ \A n \in 1..N : f[n] = ScanOn(f[n - 1])
  BY ScansAre
<1>2. N \in Nat /\ MaxPasses \in Nat  BY BoundAssumption DEF MaxPasses
<1>3. b + N <= MaxPasses  OBVIOUS
<1> HIDE DEF N, f
<1>4. 0 \in S
  <2> DEFINE v == <<>>
             w == <<>>
  <2>1. v \in Seq(Word) /\ w \in Seq(Returned) /\ 1 \in Nat /\ "reading" \in Statuses
    BY DEF Statuses
  <2>2. q \o v = q /\ o \o w = o /\ b + 0 = b  OBVIOUS
  <2>3. f[0] = Scan(text, v, w, 1, "reading")  BY <1>1
  <2> HIDE DEF v, w
  <2>4. ReadSoFar(g, text, u, q, o, b, 0, f[0])  BY <2>1, <2>2, <2>3 DEF ReadSoFar
  <2> QED  BY <1>2, <2>4
<1>5. ASSUME NEW n \in 0..(N - 1), n \in S PROVE n + 1 \in S
  <2>1. PICK r \in Seq(Word), v \in Seq(Word), w \in Seq(Returned), x \in Nat, st \in Statuses :
          /\ f[n] = Scan(r, v, w, x, st)
          /\ /\ Reached(g, Scan(text \o u, q, o, 1, "reading"), b)
             /\ st = "reading" \/ (st = "error" /\ u = <<>>)
             => Reached(g, Scan(r \o u, q \o v, o \o w, x, st), b + n)
    BY <1>5 DEF ReadSoFar
  <2>2. f[n].status = st /\ f[n].rest = r  BY <2>1 DEF Scan
  <2>3. /\ n + 1 \in 0..N /\ n + 1 \in 1..N /\ (n + 1) - 1 = n /\ b + n \in Nat
        /\ b + (n + 1) = (b + n) + 1 /\ b + n <= b + (n + 1) /\ (b + n) + 1 <= MaxPasses
        /\ b + (n + 1) \in Nat
    BY <1>2, <1>3
  <2>4. f[n + 1] = ScanOn(f[n])  BY <1>1, <2>3
  <2>5. ReadSoFar(g, text, u, q, o, b, n + 1, f[n + 1])
    <3>1. CASE st = "reading" /\ r # <<>>
      <4>1. f[n + 1] = ScanPass(Scan(r, v, w, x, "reading"))  BY <2>1, <2>2, <2>4, <3>1 DEF ScanOn
      <4>2. Extends(r, v, w, x, u, q, o)  BY <3>1, ScanExtends
      <4>3. PICK r2 \in Seq(Word), v2 \in Seq(Word), w2 \in Seq(Returned), y \in Nat,
                 sy \in {"reading", "ended", "error"} :
              /\ ScanPass(Scan(r, v, w, x, "reading")) = Scan(r2, v2, w2, y, sy)
              /\ sy = "reading" \/ (sy = "error" /\ u = <<>>) =>
                   ScanPass(Scan(r \o u, q \o v, o \o w, x, "reading")) =
                     Scan(r2 \o u, q \o v2, o \o w2, y, sy)
        BY <4>2 DEF Extends
      <4>4. ASSUME Reached(g, Scan(text \o u, q, o, 1, "reading"), b),
                   sy = "reading" \/ (sy = "error" /\ u = <<>>)
            PROVE  Reached(g, Scan(r2 \o u, q \o v2, o \o w2, y, sy), b + (n + 1))
        <5> DEFINE s == Scan(r \o u, q \o v, o \o w, x, "reading")
        <5>1. Reached(g, s, b + n)  BY <2>1, <3>1, <4>4
        <5>2. s.status = "reading"  BY DEF Scan
        <5>3. ScanPass(s) = Scan(r2 \o u, q \o v2, o \o w2, y, sy)  BY <4>3, <4>4
        <5> HIDE DEF s
        <5>4. Reached(g, ScanPass(s), (b + n) + 1)  BY <2>3, <5>1, <5>2, ReachedStep
        <5> QED  BY <2>3, <5>3, <5>4
      <4>5. sy \in Statuses  BY DEF Statuses
      <4> QED  BY <4>1, <4>3, <4>4, <4>5 DEF ReadSoFar
    <3>2. CASE ~(st = "reading" /\ r # <<>>)
      <4>1. f[n + 1] = Scan(r, v, w, x, st)  BY <2>1, <2>2, <2>4, <3>2 DEF ScanOn
      <4>2. ASSUME Reached(g, Scan(text \o u, q, o, 1, "reading"), b),
                   st = "reading" \/ (st = "error" /\ u = <<>>)
            PROVE  Reached(g, Scan(r \o u, q \o v, o \o w, x, st), b + (n + 1))
        <5>1. Reached(g, Scan(r \o u, q \o v, o \o w, x, st), b + n)  BY <2>1, <4>2
        <5> QED  BY <2>3, <5>1, ReachedLater
      <4> QED  BY <4>1, <4>2 DEF ReadSoFar
    <3> QED  BY <3>1, <3>2
  <2> QED  BY <2>3, <2>5
<1>6. N \in S
  <2> HIDE DEF S
  <2>1. \A n \in 0..N : n \in S  BY <1>2, <1>4, <1>5, UpTo
  <2> QED  BY <1>2, <2>1
<1> QED  BY <1>1, <1>6 DEF N

-----------------------------------------------------------------------------
(* A command line. *)

\* The bounds of more phrases are no smaller.
LEMMA BoundNotLess ==
  ASSUME NEW k \in Nat, NEW m \in Nat, k <= m
  PROVE  /\ k * PhrasePasses \in Nat
         /\ k * PhrasePasses <= m * PhrasePasses
         /\ (k + 1) * PhrasePasses = k * PhrasePasses + PhrasePasses
  BY BoundAssumption, SMT

\* What PhraseAssumption says of a phrase, with its type.
LEMMA PhraseAlone ==
  ASSUME NEW phrase \in Phrases
  PROVE  /\ phrase.text \in Seq(Word) /\ phrase.options \in Seq(Returned) /\ phrase.operands \in Seq(Word)
         /\ ReadAlone(phrase.text) = Scan(<<>>, phrase.operands, phrase.options, 1, "reading")
<1> DEFINE text == phrase.text
           v == phrase.operands
           w == phrase.options
           g == PassesOf(text)
           e == <<>>
<1>1. text \in Seq(Word) /\ ReadAlone(text) = [Unread(<<>>) EXCEPT !.options = w, !.operands = v]
  BY PhraseAssumption DEF Word
<1>2. [Unread(<<>>) EXCEPT !.options = w, !.operands = v] = Scan(<<>>, v, w, 1, "reading")
  <2>1. [Unread(<<>>) EXCEPT !.options = w] = Scan(<<>>, <<>>, w, 1, "reading")
    BY DEF Unread, Scan
  <2>2. [Scan(<<>>, <<>>, w, 1, "reading") EXCEPT !.operands = v] = Scan(<<>>, v, w, 1, "reading")
    BY DEF Scan
  <2> QED  BY <2>1, <2>2
<1> HIDE DEF text, g
<1>3. Runs(g)  BY <1>1, PassesAre DEF g
<1>4. e \in Seq(Word) /\ e \in Seq(Returned) /\ 0 \in Nat  OBVIOUS
<1>5. 0 + PhrasePasses <= MaxPasses
  <2>1. 0 + 1 = 1 /\ 0 * PhrasePasses = 0  BY BoundAssumption
  <2>2. 1 * PhrasePasses = PhrasePasses  BY BoundAssumption
  <2>3. MaxPhrases + 1 \in Nat /\ 1 <= MaxPhrases + 1  BY BoundAssumption
  <2>4. 1 * PhrasePasses <= (MaxPhrases + 1) * PhrasePasses  BY <2>3, BoundNotLess
  <2>5. (MaxPhrases + 1) * PhrasePasses \in Nat  BY <2>3, BoundNotLess
  <2> QED  BY <2>2, <2>4, <2>5, BoundAssumption DEF MaxPasses
<1> HIDE DEF e
<1>6. ReadSoFar(g, text, e, e, e, 0, PhrasePasses, ReadAlone(text))
  BY <1>1, <1>3, <1>4, <1>5, PieceIsRead
<1>7. PICK r \in Seq(Word), v2 \in Seq(Word), w2 \in Seq(Returned), x \in Nat, st \in Statuses :
        ReadAlone(text) = Scan(r, v2, w2, x, st)
  BY <1>6 DEF ReadSoFar
<1>8. v = v2 /\ w = w2  BY <1>1, <1>2, <1>7 DEF Scan
<1> QED  BY <1>1, <1>2, <1>7, <1>8 DEF text

\* The function Said names, and its values.
SaidOf(phrases) ==
  CHOOSE f : f = [k \in 0..Len(phrases) |->
                    IF k = 0 THEN [text |-> <<>>, options |-> <<>>, operands |-> <<>>]
                    ELSE [text |-> f[k - 1].text \o phrases[k].text,
                          options |-> f[k - 1].options \o phrases[k].options,
                          operands |-> f[k - 1].operands \o phrases[k].operands]]

\* What phrases may say, and what one more adds.
Sayings == [text : Seq(Word), options : Seq(Returned), operands : Seq(Word)]

Joined(s, phrase) ==
  [text |-> s.text \o phrase.text, options |-> s.options \o phrase.options,
   operands |-> s.operands \o phrase.operands]

LEMMA SaidIs ==
  ASSUME NEW phrases \in Seq(Phrases)
  PROVE  /\ Said(phrases) = SaidOf(phrases)[Len(phrases)]
         /\ SaidOf(phrases)[0] = [text |-> <<>>, options |-> <<>>, operands |-> <<>>]
         /\ \A k \in 1..Len(phrases) : SaidOf(phrases)[k] = Joined(SaidOf(phrases)[k - 1], phrases[k])
<1> DEFINE N == Len(phrases)
           a == [text |-> <<>>, options |-> <<>>, operands |-> <<>>]
           Step(f) == [k \in 0..N |->
                         IF k = 0 THEN a
                         ELSE [text |-> f[k - 1].text \o phrases[k].text,
                               options |-> f[k - 1].options \o phrases[k].options,
                               operands |-> f[k - 1].operands \o phrases[k].operands]]
           G == [z \in (1..N) \X Sayings |-> Joined(z[2], phrases[z[1]])]
<1>1. a \in Sayings
  <2>1. <<>> \in Seq(Word) /\ <<>> \in Seq(Returned)  OBVIOUS
  <2> QED  BY <2>1 DEF Sayings
<1>2. ASSUME NEW s \in Sayings, NEW k \in 1..N PROVE Joined(s, phrases[k]) \in Sayings
  <2>1. phrases[k] \in Phrases  OBVIOUS
  <2> DEFINE t == phrases[k]
  <2>2. t.text \in Seq(Word) /\ t.options \in Seq(Returned) /\ t.operands \in Seq(Word)
    BY <2>1, PhraseAlone
  <2>3. s.text \in Seq(Word) /\ s.options \in Seq(Returned) /\ s.operands \in Seq(Word)
    BY DEF Sayings
  <2> HIDE DEF t
  <2>4. /\ s.text \o t.text \in Seq(Word) /\ s.options \o t.options \in Seq(Returned)
        /\ s.operands \o t.operands \in Seq(Word)
    BY <2>2, <2>3
  <2>5. Joined(s, t) \in Sayings  BY <2>4 DEF Joined, Sayings
  <2> QED  BY <2>5 DEF t
<1>3. N \in Nat  OBVIOUS
<1>4. G \in [(1..N) \X Sayings -> Sayings]  BY <1>2
<1> HIDE DEF N, a, G
<1>5. PICK f \in [0..N -> Sayings] : f[0] = a /\ \A k \in 1..N : f[k] = G[<<k, f[k - 1]>>]
  <2>1. \E f \in [0..N -> Sayings] : Iterated(f, N, a, G)  BY ONLY <1>1, <1>3, <1>4, Iterates
  <2> QED  BY <2>1 DEF Iterated
<1>6. f = Step(f)
  <2> SUFFICES ASSUME NEW k \in 0..N
               PROVE  f[k] = IF k = 0 THEN a
                             ELSE [text |-> f[k - 1].text \o phrases[k].text,
                                   options |-> f[k - 1].options \o phrases[k].options,
                                   operands |-> f[k - 1].operands \o phrases[k].operands]
    BY <1>5
  <2>1. CASE k = 0  BY <1>5, <2>1
  <2>2. CASE k # 0
    <3>1. k \in 1..N /\ k - 1 \in 0..N  BY <1>3, <2>2
    <3>2. f[k] = G[<<k, f[k - 1]>>] /\ f[k - 1] \in Sayings  BY <1>5, <3>1
    <3>3. G[<<k, f[k - 1]>>] = Joined(f[k - 1], phrases[k])
      <4>1. <<k, f[k - 1]>> \in (1..N) \X Sayings  BY <3>1, <3>2
      <4> QED  BY <4>1 DEF G
    <3> QED  BY <2>2, <3>2, <3>3 DEF Joined
  <2> QED  BY <2>1, <2>2
<1> DEFINE h == SaidOf(phrases)
<1>7. h = Step(h)  BY <1>6 DEF SaidOf, N, a
<1>8. Said(phrases) = h[Len(phrases)]  BY DEF Said, SaidOf
<1> HIDE DEF h
<1>9. h[0] = a
  <2>1. 0 \in 0..N  BY <1>3
  <2>2. Step(h)[0] = a  BY <2>1
  <2> HIDE DEF Step
  <2> QED  BY <1>7, <2>2
<1>10. ASSUME NEW k \in 1..N PROVE h[k] = Joined(h[k - 1], phrases[k])
  <2>1. k \in 0..N /\ k # 0  BY <1>3
  <2>2. Step(h)[k] = Joined(h[k - 1], phrases[k])  BY <2>1 DEF Joined
  <2> HIDE DEF Step
  <2> QED  BY <1>7, <2>2
<1> QED  BY <1>8, <1>9, <1>10 DEF h, a, N

\* What some phrases say, and that, whatever follows them, it is read in b passes.
ReadAs(g, b, s) ==
  /\ s \in Sayings
  /\ \A u \in Seq(Word) :
       Reached(g, Scan(s.text \o u, <<>>, <<>>, 1, "reading"), 0)
       => Reached(g, Scan(u, s.operands, s.options, 1, "reading"), b)

\* One more phrase.
LEMMA PhraseJoins ==
  ASSUME NEW g, Runs(g), NEW s, NEW b \in Nat, ReadAs(g, b, s), NEW phrase \in Phrases,
         b + PhrasePasses <= MaxPasses
  PROVE  ReadAs(g, b + PhrasePasses, Joined(s, phrase))
<1> DEFINE j == Joined(s, phrase)
           text == phrase.text
           v == phrase.operands
           w == phrase.options
           q == s.operands
           o == s.options
<1>1. text \in Seq(Word) /\ w \in Seq(Returned) /\ v \in Seq(Word)
      /\ ReadAlone(text) = Scan(<<>>, v, w, 1, "reading")
  BY PhraseAlone
<1>2. s.text \in Seq(Word) /\ o \in Seq(Returned) /\ q \in Seq(Word)  BY DEF ReadAs, Sayings
<1>3. j.text = s.text \o text /\ j.options = o \o w /\ j.operands = q \o v  BY DEF Joined
<1>4. j \in Sayings
  <2> HIDE DEF text, v, w, q, o
  <2>1. s.text \o text \in Seq(Word) /\ o \o w \in Seq(Returned) /\ q \o v \in Seq(Word)
    BY <1>1, <1>2
  <2> QED  BY <2>1 DEF Joined, Sayings, text, v, w, q, o
<1> HIDE DEF text, v, w, q, o, j
<1>5. ASSUME NEW u \in Seq(Word), Reached(g, Scan(j.text \o u, <<>>, <<>>, 1, "reading"), 0)
      PROVE  Reached(g, Scan(u, j.operands, j.options, 1, "reading"), b + PhrasePasses)
  <2>1. text \o u \in Seq(Word)  BY <1>1
  <2>2. (s.text \o text) \o u = s.text \o (text \o u)
    <3> DEFINE t == s.text
    <3>1. t \in Seq(Word)  BY <1>2
    <3> HIDE DEF t
    <3>2. (t \o text) \o u = t \o (text \o u)  BY ONLY <1>1, <3>1, <1>5, ConcatAssociative
    <3> QED  BY <3>2 DEF t
  <2>3. Reached(g, Scan(text \o u, q, o, 1, "reading"), b)
    <3>1. Reached(g, Scan(s.text \o (text \o u), <<>>, <<>>, 1, "reading"), 0)
      BY <1>3, <1>5, <2>2
    <3> QED  BY <2>1, <3>1 DEF ReadAs, q, o
  <2>4. ReadSoFar(g, text, u, q, o, b, PhrasePasses, ReadAlone(text))
    BY <1>1, <1>2, PieceIsRead
  <2>5. PICK r \in Seq(Word), v2 \in Seq(Word), w2 \in Seq(Returned), x \in Nat, st \in Statuses :
          /\ ReadAlone(text) = Scan(r, v2, w2, x, st)
          /\ /\ Reached(g, Scan(text \o u, q, o, 1, "reading"), b)
             /\ st = "reading" \/ (st = "error" /\ u = <<>>)
             => Reached(g, Scan(r \o u, q \o v2, o \o w2, x, st), b + PhrasePasses)
    BY <2>4 DEF ReadSoFar
  <2>6. r = <<>> /\ v2 = v /\ w2 = w /\ x = 1 /\ st = "reading"  BY <1>1, <2>5 DEF Scan
  <2>7. <<>> \o u = u  OBVIOUS
  <2>8. Reached(g, Scan(r \o u, q \o v2, o \o w2, x, st), b + PhrasePasses)  BY <2>3, <2>5, <2>6
  <2> QED  BY <1>3, <2>6, <2>7, <2>8
<1> QED  BY <1>4, <1>5 DEF ReadAs, j

\* All phrases, by induction on their number.
LEMMA PhrasesAreRead ==
  ASSUME NEW g, Runs(g), NEW phrases \in Seq(Phrases), Len(phrases) <= MaxPhrases
  PROVE  ReadAs(g, Len(phrases) * PhrasePasses, Said(phrases))
<1> DEFINE K == Len(phrases)
           N == PhrasePasses
           h == SaidOf(phrases)
           S == {k \in 0..K : ReadAs(g, k * N, h[k])}
<1>1. /\ Said(phrases) = h[K] /\ h[0] = [text |-> <<>>, options |-> <<>>, operands |-> <<>>]
      /\ \A k \in 1..K : h[k] = Joined(h[k - 1], phrases[k])
  BY SaidIs
<1>2. K \in Nat /\ K <= MaxPhrases /\ N \in Nat /\ MaxPhrases \in Nat  BY BoundAssumption
<1>3. \A k \in 1..K : phrases[k] \in Phrases  OBVIOUS
<1> HIDE DEF K, h
<1>4. 0 \in S
  <2> DEFINE e == <<>>
  <2>1. 0 * N = 0  BY <1>2
  <2>2. h[0].text = e /\ h[0].options = e /\ h[0].operands = e /\ h[0] \in Sayings
    <3>1. <<>> \in Seq(Word) /\ <<>> \in Seq(Returned)  OBVIOUS
    <3> QED  BY <1>1, <3>1 DEF Sayings
  <2>3. \A u \in Seq(Word) : e \o u = u  OBVIOUS
  <2> HIDE DEF e
  <2>4. ASSUME NEW u \in Seq(Word), Reached(g, Scan(h[0].text \o u, e, e, 1, "reading"), 0)
        PROVE  Reached(g, Scan(u, h[0].operands, h[0].options, 1, "reading"), 0)
    BY <2>2, <2>3, <2>4
  <2>5. ReadAs(g, 0, h[0])  BY <2>2, <2>4 DEF ReadAs, e
  <2> QED  BY <1>2, <2>1, <2>5
<1>5. ASSUME NEW k \in 0..(K - 1), k \in S PROVE k + 1 \in S
  <2>1. /\ k \in Nat /\ k + 1 \in Nat /\ k + 1 <= MaxPhrases + 1 /\ k + 1 \in 1..K /\ k + 1 \in 0..K
        /\ (k + 1) - 1 = k /\ MaxPhrases + 1 \in Nat /\ k <= MaxPhrases
    BY <1>2
  <2>2. /\ k * N \in Nat /\ (k + 1) * N = k * N + N /\ (k + 1) * N <= (MaxPhrases + 1) * N
        /\ (MaxPhrases + 1) * N \in Nat /\ (k + 1) * N \in Nat
    <3>1. k * N \in Nat /\ (k + 1) * N = k * N + N  BY <1>2, <2>1, BoundNotLess
    <3>2. (k + 1) * N <= (MaxPhrases + 1) * N  BY <2>1, BoundNotLess
    <3>3. (MaxPhrases + 1) * N \in Nat /\ (k + 1) * N \in Nat  BY <2>1, BoundNotLess
    <3> QED  BY <3>1, <3>2, <3>3
  <2>3. k * N + N <= MaxPasses  BY <2>2 DEF MaxPasses
  <2>4. h[k + 1] = Joined(h[k], phrases[k + 1]) /\ phrases[k + 1] \in Phrases  BY <1>1, <1>3, <2>1
  <2>5. ReadAs(g, k * N, h[k])  BY <1>5
  <2>6. ReadAs(g, k * N + N, h[k + 1])  BY <2>2, <2>3, <2>4, <2>5, PhraseJoins
  <2> QED  BY <2>1, <2>2, <2>6
<1>6. K \in S
  <2> HIDE DEF S
  <2>1. \A k \in 0..K : k \in S  BY <1>2, <1>4, <1>5, UpTo
  <2> QED  BY <1>2, <2>1
<1> QED  BY <1>1, <1>6 DEF K

\* What the ending adds to the operands q and the options o.
EndsAs(g, ending, q, o) ==
  \E s : \E c \in Nat :
    /\ Reached(g, s, c)
    /\ s.options = o
    /\ s.status = IF ending.error THEN "error" ELSE "ended"
    /\ ~ending.error => s.operands = ending.operands \o q

\* A command line ends after "--" and what follows it, after nothing, or in an error.
LEMMA EndingIsRead ==
  ASSUME NEW g, Runs(g), NEW ending \in Endings, NEW q \in Seq(Word), NEW o \in Seq(Returned),
         NEW b \in Nat, b + PhrasePasses + 1 <= MaxPasses,
         Reached(g, Scan(ending.text, q, o, 1, "reading"), b)
  PROVE  EndsAs(g, ending, q, o)
<1> DEFINE text == ending.text
           e == <<>>
<1>1. /\ text \in Seq(Word) /\ ending.operands \in Seq(Word) /\ ending.error \in BOOLEAN
      /\ ending.error => ReadAlone(text).status = "error" /\ ReadAlone(text).options = <<>>
      /\ ~ending.error => \/ text = <<>> /\ ending.operands = <<>>
                         \/ text = <<"--">> \o ending.operands
  BY EndingAssumption DEF Word
<1> HIDE DEF text
<1>2. /\ b + PhrasePasses <= MaxPasses /\ b + 1 <= MaxPasses /\ b + PhrasePasses \in Nat /\ b + 1 \in Nat
  <2>1. MaxPasses \in Nat /\ PhrasePasses \in Nat  BY BoundAssumption DEF MaxPasses
  <2> QED  BY <2>1
<1>3. e \in Seq(Word) /\ text \o e = text /\ o \o e = o  BY <1>1
<1>4. CASE ending.error
  <2> HIDE DEF e
  <2>1. ReadSoFar(g, text, e, q, o, b, PhrasePasses, ReadAlone(text))
    BY <1>1, <1>2, <1>3, PieceIsRead
  <2>2. PICK r \in Seq(Word), v \in Seq(Word), w \in Seq(Returned), x \in Nat, st \in Statuses :
          /\ ReadAlone(text) = Scan(r, v, w, x, st)
          /\ /\ Reached(g, Scan(text \o e, q, o, 1, "reading"), b)
             /\ st = "reading" \/ (st = "error" /\ e = <<>>)
             => Reached(g, Scan(r \o e, q \o v, o \o w, x, st), b + PhrasePasses)
    BY <2>1 DEF ReadSoFar
  <2>3. st = "error" /\ w = e  BY <1>1, <1>4, <2>2 DEF Scan, e
  <2>4. Reached(g, Scan(r \o e, q \o v, o, x, "error"), b + PhrasePasses)
    <3>1. Reached(g, Scan(text \o e, q, o, 1, "reading"), b)  BY <1>3 DEF text
    <3> QED  BY <1>3, <2>2, <2>3, <3>1 DEF e
  <2> DEFINE s == Scan(r \o e, q \o v, o, x, "error")
  <2>5. s.options = o /\ s.status = "error"  BY DEF Scan
  <2> HIDE DEF s
  <2> QED  BY <1>2, <1>4, <2>4, <2>5 DEF s, EndsAs
<1>5. CASE ~ending.error
  <2>1. ScanPass(Scan(text, q, o, 1, "reading")) = Scan(<<>>, ending.operands \o q, o, 1, "ended")
    <3>1. CASE text = <<>> /\ ending.operands = <<>>
      <4>1. <<>> \o q = q  OBVIOUS
      <4> QED  BY <3>1, <4>1, ScanAtEnd
    <3>2. CASE text = <<"--">> \o ending.operands
      <4> DEFINE d == <<"--">>
                 v == ending.operands
                 D == Word \cup {"--"}
      <4>1. d \in Seq(D) /\ d # <<>> /\ Head(d) = "--" /\ Tail(d) = <<>>  OBVIOUS
      <4>2. <<>> \o v = v /\ v \in Seq(D)
        <5>1. v \in Seq(Word) /\ Len(v) \in Nat /\ \A k \in 1..Len(v) : v[k] \in D  BY <1>1
        <5>2. v \in Seq(D)  BY <5>1
        <5> QED  BY <5>1, <5>2
      <4> HIDE DEF d, v, D
      <4>3. d \o v # <<>> /\ Head(d \o v) = Head(d) /\ Tail(d \o v) = Tail(d) \o v
        BY <4>1, <4>2, FrontOfConcat
      <4>4. text # <<>> /\ Head(text) = "--" /\ Tail(text) = v
        BY <3>2, <4>1, <4>2, <4>3 DEF d, v
      <4>5. Tail(text) = ending.operands  BY <4>4 DEF v
      <4> QED  BY <4>4, <4>5, ScanDashes
    <3> QED  BY <1>1, <1>5, <3>1, <3>2
  <2> DEFINE s == Scan(text, q, o, 1, "reading")
             z == Scan(<<>>, ending.operands \o q, o, 1, "ended")
  <2>2. s.status = "reading" /\ Reached(g, s, b)  BY DEF Scan, text
  <2>3. z.options = o /\ z.status = "ended" /\ z.operands = ending.operands \o q  BY DEF Scan
  <2> HIDE DEF s, z
  <2>4. Reached(g, z, b + 1)
    <3>1. Reached(g, ScanPass(s), b + 1)  BY <1>2, <2>2, ReachedStep
    <3> QED  BY <2>1, <3>1 DEF s, z
  <2> QED  BY <1>2, <1>5, <2>3, <2>4 DEF EndsAs
<1> QED  BY <1>1, <1>4, <1>5

\* Whatever its phrases and its ending, a command line is understood.
LEMMA AllUnderstood ==
  ASSUME NEW phrases \in Seq(Phrases), Len(phrases) <= MaxPhrases, NEW ending \in Endings
  PROVE  Understood(phrases, ending)
<1> DEFINE K == Len(phrases)
           t == Said(phrases)
           argv == t.text \o ending.text
           g == PassesOf(argv)
           b == K * PhrasePasses
<1>1. ending.text \in Seq(Word)  BY EndingAssumption DEF Word
<1>2. t \in Sayings
  <2>1. <<>> \in Seq(Word)  OBVIOUS
  <2>2. Runs(PassesOf(<<>>))  BY <2>1, PassesAre
  <2>3. ReadAs(PassesOf(<<>>), Len(phrases) * PhrasePasses, Said(phrases))
    BY <2>2, PhrasesAreRead
  <2> QED  BY <2>3 DEF ReadAs
<1> HIDE DEF t
<1>3. t.text \in Seq(Word) /\ t.options \in Seq(Returned) /\ t.operands \in Seq(Word)
  BY <1>2 DEF Sayings
<1>4. argv \in Seq(Word)  BY <1>1, <1>3
<1> HIDE DEF argv
<1>5. regetopt(argv) = g[MaxPasses] /\ g[0] = Start(argv) /\ Runs(g)  BY <1>4, PassesAre
<1> HIDE DEF g
<1>6. ReadAs(g, b, t)  BY <1>5, PhrasesAreRead DEF t
<1>7. MaxPasses \in Nat  BY BoundAssumption DEF MaxPasses
<1>8. Reached(g, Scan(argv, <<>>, <<>>, 1, "reading"), 0)
  <2>1. InStep(g[0], Scan(argv, <<>>, <<>>, 1, "reading"))  BY <1>4, <1>5, StartInStep
  <2>2. 0 \in 0..MaxPasses /\ 0 <= 0  BY <1>7
  <2> QED  BY <2>1, <2>2 DEF Reached
<1>9. Reached(g, Scan(ending.text, t.operands, t.options, 1, "reading"), b)
  BY <1>1, <1>6, <1>8 DEF ReadAs, argv
<1>10. b \in Nat /\ b + PhrasePasses + 1 <= MaxPasses
  <2>1. K \in Nat /\ K <= MaxPhrases /\ MaxPhrases \in Nat /\ PhrasePasses \in Nat
    BY BoundAssumption
  <2> HIDE DEF K
  <2>2. b \in Nat /\ b <= MaxPhrases * PhrasePasses  BY <2>1, BoundNotLess
  <2>3. /\ (MaxPhrases + 1) * PhrasePasses = MaxPhrases * PhrasePasses + PhrasePasses
        /\ MaxPhrases * PhrasePasses \in Nat
    BY <2>1, BoundNotLess
  <2> HIDE DEF b
  <2> QED  BY <2>1, <2>2, <2>3 DEF MaxPasses
<1> HIDE DEF b
<1>11. PICK s : \E c \in Nat :
        /\ Reached(g, s, c)
        /\ s.options = t.options
        /\ s.status = IF ending.error THEN "error" ELSE "ended"
        /\ ~ending.error => s.operands = ending.operands \o t.operands
  <2> DEFINE q == t.operands
             o == t.options
  <2>1. q \in Seq(Word) /\ o \in Seq(Returned)  BY <1>3
  <2>2. Reached(g, Scan(ending.text, q, o, 1, "reading"), b)  BY <1>9
  <2> HIDE DEF q, o
  <2>3. EndsAs(g, ending, q, o)  BY <1>5, <1>10, <2>1, <2>2, EndingIsRead
  <2> QED  BY <2>3 DEF EndsAs, q, o
<1>12. s.status # "reading"  BY <1>11
<1>13. InStep(g[MaxPasses], s)
  <2>1. PICK c \in Nat : Reached(g, s, c)  BY <1>11
  <2> QED  BY <1>5, <1>12, <2>1, ReachedLast
<1> DEFINE p == g[MaxPasses]
<1>14. /\ p.options = t.options /\ p.status = s.status
       /\ ~ending.error => From(p.argv, p.optind) = ending.operands \o t.operands
  BY <1>11, <1>13, StatusInStep
<1>15. regetopt(Said(phrases).text \o ending.text) = p  BY <1>5 DEF argv, t
<1> HIDE DEF p
<1> QED  BY <1>11, <1>14, <1>15 DEF Understood, t

\* Nothing is misread.
LEMMA NothingMisread == Misread = {}
<1>1. ASSUME NEW l \in CommandLines PROVE Understood(l[1], l[2])
  <2>1. PICK k \in 0..MaxPhrases : l[1] \in [1..k -> Phrases]  BY <1>1 DEF CommandLines
  <2>2. l[2] \in Endings  BY <1>1 DEF CommandLines
  <2>3. k \in Nat /\ k <= MaxPhrases  BY BoundAssumption
  <2>4. l[1] \in Seq(Phrases) /\ Len(l[1]) = k  BY <2>1, <2>3
  <2> QED  BY <2>2, <2>3, <2>4, AllUnderstood
<1> QED  BY <1>1 DEF Misread

\* However many of the phrases a command line is made of, in whatever order, its options are
\* read in that order, each with its own argument, and its operands are left behind them in the
\* order they were given in.
THEOREM CommandLinesAreRead == Spec => []CommandLineIsRead
<1>1. CommandLineIsRead  BY NothingMisread DEF CommandLineIsRead
<1>2. QED
  BY <1>1, PTL
=============================================================================
