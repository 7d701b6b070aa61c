------------------------------ MODULE Session ------------------------------
(***************************************************************************)
(* The output directory of one afl-fuzz over several sessions: what a      *)
(* start deletes, moves and rebuilds, what fuzzing adds to it, and what a  *)
(* crash between any two file operations leaves for the next start; and    *)
(* the import of another fuzzer's queue, which that fuzzer goes on filling.*)
(*                                                                         *)
(* The variables on disk survive a crash; the others are the process.      *)
(* What a test case contributes to the coverage is its find, and a target  *)
(* shows the same coverage for the same find.                              *)
(***************************************************************************)
EXTENDS Integers, Sequences, FiniteSets, SequencesExt

CONSTANTS
  Finds,           \* test cases that differ in coverage
  Seeds,           \* the test cases of the user's input directory
  Kinds,           \* directories of samples: crashes and hangs
  Bugs,            \* samples that differ in coverage
  MaxStarts,       \* bound: sessions
  FreshStarts,     \* bound: sessions that do not resume
  PeerFiles,       \* bound: files in the other fuzzer's queue
  CrashAt          \* bound: where a crash is considered

ASSUME SessionAssumption ==
  /\ Seeds \in Seq(Finds)
  /\ {MaxStarts, FreshStarts, PeerFiles} \subseteq Nat

VARIABLES
  \* on disk
  queue, resume,       \* queue/ and _resume/
  samples, backups,    \* crashes/ and hangs/, and their renamed predecessors
  stats,               \* fuzzer_stats
  marker,              \* .synced/<other>: the first id not seen yet
  peer,                \* the other fuzzer's queue/
  \* in the process
  pc, back,            \* where afl-fuzz is; where it goes on after saving
  in_place_resume, stop_soon,
  q,                   \* struct queue_entry, in order
  current,             \* current_entry + 1
  covered,             \* finds whose coverage virgin_bits no longer has
  unique,              \* samples virgin_crash and virgin_tmout know
  k,                   \* the entry pivot_inputs is at, from 1
  scan,                \* sync_fuzzers' locals
  \* history
  starts, fresh,       \* sessions so far
  found, kept,         \* what the sessions have put into queue/ and samples
  dealt                \* peer ids run, or not complete when met

diskVars == <<queue, resume, samples, backups, stats, marker, peer>>
procVars == <<back, in_place_resume, stop_soon, q, current, covered, unique, k, scan>>
histVars == <<starts, fresh, found, kept, dealt>>
vars == <<diskVars, pc, procVars, histVars>>

File(id, find, whole) == [id |-> id, find |-> find, whole |-> whole]
\* kept: pivot_inputs has kept the name, which then tells that this is a resume.
Entry(id, find, det) == [id |-> id, find |-> find, passed_det |-> det, kept |-> FALSE]

\* A directory: its test cases, its .state/ and the names in deterministic_done.
Dir(files, state, det) == [there |-> TRUE, files |-> files, state |-> state, det |-> det]
NoDir == [there |-> FALSE, files |-> {}, state |-> FALSE, det |-> {}]

\* fuzzer_stats is missing, or was not written to its end; otherwise its cur_path.
NoStats == 0
TornStats == -1

NoScan == [from |-> 0, next |-> 0, due |-> {}, seen |-> {}]

Nothing ==
  /\ back = "fuzz" /\ in_place_resume = FALSE /\ stop_soon = FALSE
  /\ q = <<>> /\ current = 1 /\ covered = {} /\ unique = {} /\ k = 1
  /\ scan = NoScan

Init ==
  /\ queue = NoDir /\ resume = NoDir
  /\ samples = {} /\ backups = {}
  /\ stats = NoStats
  /\ marker = 0
  /\ peer = {}
  /\ pc = "off" /\ Nothing
  /\ starts = 0 /\ fresh = 0
  /\ found = {} /\ kept = {} /\ dealt = {}

\* The end of the process: nothing of it is left.
Over ==
  /\ pc' = "off"
  /\ back' = "fuzz" /\ in_place_resume' = FALSE /\ stop_soon' = FALSE
  /\ q' = <<>> /\ current' = 1 /\ covered' = {} /\ unique' = {} /\ k' = 1
  /\ scan' = NoScan

FATAL == Over /\ UNCHANGED <<diskVars, histVars>>

-----------------------------------------------------------------------------
(* setup_dirs_fds and maybe_delete_out_dir. *)

Start(in_place) ==
  /\ pc = "off"
  /\ starts < MaxStarts
  /\ in_place => starts > 0
  /\ ~in_place => fresh < FreshStarts
  /\ starts' = starts + 1
  /\ fresh' = fresh + (IF in_place THEN 0 ELSE 1)
  /\ in_place_resume' = in_place
  /\ pc' = "check"
  /\ UNCHANGED <<diskVars, back, stop_soon, q, current, covered, unique, k, scan,
                 found, kept, dealt>>

\* Malformed statistics end every start, results of more than 25 minutes one
\* that does not resume.
CheckStats ==
  /\ pc = "check"
  /\ \/ /\ stats # TornStats
        /\ pc' = "move"
        /\ UNCHANGED <<diskVars, procVars, histVars>>
     \/ /\ stats = TornStats \/ (stats # NoStats /\ ~in_place_resume)
        /\ FATAL

\* rename() replaces an empty directory and fails, unnoticed, on another one.
MoveQueue ==
  /\ pc = "move" /\ in_place_resume
  /\ IF queue.there /\ resume.files = {} /\ ~resume.state
     THEN resume' = queue /\ queue' = NoDir
     ELSE UNCHANGED <<queue, resume>>
  /\ pc' = "clean"
  /\ UNCHANGED <<samples, backups, stats, marker, peer, procVars, histVars>>

\* A new session forgets the old one, its sync markers first.
DropSession ==
  /\ pc = "move" /\ ~in_place_resume
  /\ marker' = 0
  /\ found' = {} /\ kept' = {} /\ dealt' = {}
  /\ pc' = "clean"
  /\ UNCHANGED <<queue, resume, samples, backups, stats, peer, procVars,
                 starts, fresh>>

\* delete_files and rmdir, one call at a time: .state/, the test cases, queue/.
Emptied(dir, dir_) ==
  \/ dir.state /\ dir_ = [dir EXCEPT !.state = FALSE, !.det = {}]
  \/ ~dir.state /\ \E f \in dir.files : dir_ = [dir EXCEPT !.files = @ \ {f}]
  \/ ~dir.state /\ dir.files = {} /\ dir_ = NoDir

CleanQueue ==
  /\ pc = "clean"
  /\ Emptied(queue, queue')
  /\ pc' = IF queue'.there THEN "clean" ELSE "samples"
  /\ UNCHANGED <<resume, samples, backups, stats, marker, peer, procVars, histVars>>

\* Mutant: the samples are deleted on every start.
DeleteSamples(kind) ==
  /\ pc = "samples"
  /\ \E x \in samples : x[1] = kind
  /\ samples' = {x \in samples : x[1] # kind}
  /\ UNCHANGED <<queue, resume, backups, stats, marker, peer, pc, procVars, histVars>>

\* A directory of samples that is not empty: renamed when resuming, with the
\* time in its new name, and deleted otherwise.
CleanSamples(kind) ==
  /\ pc = "samples"
  /\ \E x \in samples : x[1] = kind
  /\ samples' = {x \in samples : x[1] # kind}
  /\ backups' = IF in_place_resume
                THEN backups \cup {x \in samples : x[1] = kind} ELSE backups
  /\ UNCHANGED <<queue, resume, stats, marker, peer, pc, procVars, histVars>>

\* The bitmap, the plot data and, in a new session, the statistics.
CleanRest ==
  /\ pc = "samples" /\ samples = {}
  /\ stats' = IF in_place_resume THEN stats ELSE NoStats
  /\ pc' = "dirs"
  /\ UNCHANGED <<queue, resume, samples, backups, marker, peer, procVars, histVars>>

MakeDirs ==
  /\ pc = "dirs"
  /\ queue' = IF queue.there THEN Dir({}, TRUE, {}) ELSE Dir({}, FALSE, {})
  /\ pc' = IF queue.there THEN "read" ELSE "dirs"
  /\ UNCHANGED <<resume, samples, backups, stats, marker, peer, procVars, histVars>>

-----------------------------------------------------------------------------
(* read_testcases, pivot_inputs, nuke_resume_dir, and the way to the loop. *)

\* The files in the order of their ids.
ByName(files) ==
  [n \in 1..Cardinality(files) |->
     CHOOSE f \in files : Cardinality({g \in files : g.id < f.id}) = n - 1]

\* Empty files are passed over; no test case at all is fatal.
ReadTestcases ==
  /\ pc = "read"
  /\ LET files == ByName({f \in resume.files : f.whole})
         input == IF in_place_resume
                  THEN [i \in DOMAIN files |->
                         Entry(files[i].id, files[i].find, files[i].id \in resume.det)]
                  ELSE [i \in DOMAIN Seeds |-> Entry(-1, Seeds[i], FALSE)]
     IN IF input = <<>>
        THEN FATAL
        ELSE /\ q' = input
             /\ k' = 1
             /\ pc' = "pivot"
             /\ UNCHANGED <<diskVars, back, in_place_resume, stop_soon, current,
                            covered, unique, scan, histVars>>

\* A hard link under the name of the entry's place in the queue, and its mark.
PivotInput ==
  /\ pc = "pivot" /\ k <= Len(q)
  /\ queue' = [queue EXCEPT !.files = @ \cup {File(k - 1, q[k].find, TRUE)},
                            !.det = IF q[k].passed_det THEN @ \cup {k - 1} ELSE @]
  /\ q' = [q EXCEPT ![k].id = k - 1, ![k].kept = (q[k].id = k - 1)]
  /\ found' = found \cup {q[k].find}
  /\ k' = k + 1
  /\ UNCHANGED <<resume, samples, backups, stats, marker, peer, pc, back,
                 in_place_resume, stop_soon, current, covered, unique, scan,
                 starts, fresh, kept, dealt>>

PivotDone ==
  /\ pc = "pivot" /\ k > Len(q)
  /\ pc' = IF in_place_resume THEN "nuke" ELSE "begin"
  /\ UNCHANGED <<diskVars, procVars, histVars>>

\* Mutant: _resume/ is deleted as soon as it has been read.
NukeEarly ==
  /\ pc \in {"pivot", "nuke"} /\ in_place_resume
  /\ Emptied(resume, resume')
  /\ pc' = IF resume'.there \/ pc = "pivot" THEN pc ELSE "begin"
  /\ UNCHANGED <<queue, samples, backups, stats, marker, peer, procVars, histVars>>

nuke_resume_dir ==
  /\ pc = "nuke"
  /\ Emptied(resume, resume')
  /\ pc' = IF resume'.there THEN "nuke" ELSE "begin"
  /\ UNCHANGED <<queue, samples, backups, stats, marker, peer, procVars, histVars>>

resuming_fuzz == \E i \in DOMAIN q : q[i].kept

\* Mutant: the dry run leaves virgin_bits as it was.
BeginBlank ==
  /\ pc = "begin"
  /\ current' = 1
  /\ covered' = {}
  /\ pc' = "stats"
  /\ UNCHANGED <<diskVars, back, in_place_resume, stop_soon, q, unique, k, scan,
                 histVars>>

\* Mutant: the position is used as it was read.
BeginAnywhere ==
  /\ pc = "begin"
  /\ current' = IF resuming_fuzz /\ stats > 0 THEN stats ELSE 1
  /\ covered' = {q[i].find : i \in DOMAIN q}
  /\ pc' = "stats"
  /\ UNCHANGED <<diskVars, back, in_place_resume, stop_soon, q, unique, k, scan,
                 histVars>>

\* perform_dry_run and find_start_position: a position the queue does not have
\* is taken for the first.
Begin ==
  /\ pc = "begin"
  /\ current' = IF resuming_fuzz /\ stats \in 1..Len(q) THEN stats ELSE 1
  /\ covered' = {q[i].find : i \in DOMAIN q}
  /\ pc' = "stats"
  /\ UNCHANGED <<diskVars, back, in_place_resume, stop_soon, q, unique, k, scan,
                 histVars>>

\* write_stats_file: opened with O_TRUNC, then written.
TruncateStats ==
  /\ pc = "stats"
  /\ stats' = TornStats
  /\ pc' = "stats written"
  /\ UNCHANGED <<queue, resume, samples, backups, marker, peer, procVars, histVars>>

WriteStats ==
  /\ pc = "stats written"
  /\ stats' = current
  /\ IF stop_soon THEN Over ELSE pc' = "fuzz" /\ UNCHANGED procVars
  /\ UNCHANGED <<queue, resume, samples, backups, marker, peer, histVars>>

-----------------------------------------------------------------------------
(* Fuzzing, as far as it touches the directory. *)

\* add_to_queue, by a stage or by sync_fuzzers: only for new coverage.
Add(find) ==
  /\ q' = Append(q, Entry(Len(q), find, FALSE))
  /\ covered' = covered \cup {find}
  /\ pc' = "save"

Discover(find) ==
  /\ pc = "fuzz"
  /\ find \notin covered
  /\ Add(find)
  /\ back' = "fuzz"
  /\ UNCHANGED <<diskVars, in_place_resume, stop_soon, current, unique, k, scan,
                 histVars>>

\* The file is created after the calibration, then written.
CreateFile ==
  /\ pc = "save"
  /\ queue' = [queue EXCEPT !.files = @ \cup {File(Len(q) - 1, Last(q).find, FALSE)}]
  /\ pc' = "write"
  /\ UNCHANGED <<resume, samples, backups, stats, marker, peer, procVars, histVars>>

WriteFile ==
  /\ pc = "write"
  /\ queue' = [queue EXCEPT !.files = (@ \ {File(Len(q) - 1, Last(q).find, FALSE)})
                                      \cup {File(Len(q) - 1, Last(q).find, TRUE)}]
  /\ found' = found \cup {Last(q).find}
  /\ pc' = back
  /\ UNCHANGED <<resume, samples, backups, stats, marker, peer, procVars,
                 starts, fresh, kept, dealt>>

\* The end of save_if_interesting: a crash or a hang with bits of its own.
SaveSample(kind, bug) ==
  /\ pc = "fuzz"
  /\ <<kind, bug>> \notin unique
  /\ unique' = unique \cup {<<kind, bug>>}
  /\ samples' = samples \cup {<<kind, bug>>}
  /\ kept' = kept \cup {<<kind, bug>>}
  /\ UNCHANGED <<queue, resume, backups, stats, marker, peer, pc, back,
                 in_place_resume, stop_soon, q, current, covered, k, scan, starts,
                 fresh, found, dealt>>

mark_as_det_done ==
  /\ pc = "fuzz"
  /\ ~q[current].passed_det
  /\ q' = [q EXCEPT ![current].passed_det = TRUE]
  /\ queue' = [queue EXCEPT !.det = @ \cup {current - 1}]
  /\ UNCHANGED <<resume, samples, backups, stats, marker, peer, pc, back,
                 in_place_resume, stop_soon, current, covered, unique, k, scan,
                 histVars>>

\* The end of trim_case: the file is unlinked, created again and written.
Mine(f) == f.id = current - 1

Trim ==
  /\ \/ /\ pc = "fuzz"
        /\ queue' = [queue EXCEPT !.files = {f \in @ : ~Mine(f)}]
        /\ pc' = "trim"
     \/ /\ pc = "trim"
        /\ queue' = [queue EXCEPT !.files = @ \cup {File(current - 1, q[current].find, FALSE)}]
        /\ pc' = "trim written"
     \/ /\ pc = "trim written"
        /\ queue' = [queue EXCEPT !.files = {f \in @ : ~Mine(f)}
                                     \cup {File(current - 1, q[current].find, TRUE)}]
        /\ pc' = "fuzz"
  /\ UNCHANGED <<resume, samples, backups, stats, marker, peer, procVars, histVars>>

NextEntry ==
  /\ pc = "fuzz"
  /\ current' = (current % Len(q)) + 1
  /\ pc' \in {"fuzz", "stats"}
  /\ UNCHANGED <<diskVars, back, in_place_resume, stop_soon, q, covered, unique, k,
                 scan, histVars>>

\* Ctrl-C: the loop ends, the statistics are written once more.
Stop ==
  /\ pc = "fuzz"
  /\ stop_soon' = TRUE
  /\ pc' = "stats"
  /\ UNCHANGED <<diskVars, back, in_place_resume, q, current, covered, unique, k,
                 scan, histVars>>

-----------------------------------------------------------------------------
(* sync_fuzzers, and the fuzzer whose queue it reads. *)

PeerCreates ==
  \E find \in Finds :
    /\ Cardinality(peer) < PeerFiles
    /\ \A f \in peer : f.whole
    /\ peer' = peer \cup {File(Cardinality(peer), find, FALSE)}
    /\ UNCHANGED <<queue, resume, samples, backups, stats, marker, pc, procVars, histVars>>

PeerWrites ==
  \E f \in peer :
    /\ ~f.whole
    /\ peer' = (peer \ {f}) \cup {[f EXCEPT !.whole = TRUE]}
    /\ UNCHANGED <<queue, resume, samples, backups, stats, marker, pc, procVars, histVars>>

SyncOpen ==
  /\ pc = "fuzz"
  /\ peer # {}
  /\ scan' = [from |-> marker, next |-> marker, seen |-> {},
              due |-> {f.id : f \in {g \in peer : g.id >= marker}}]
  /\ pc' = "sync"
  /\ UNCHANGED <<diskVars, back, in_place_resume, stop_soon, q, current, covered,
                 unique, k, histVars>>

Met(f) == [scan EXCEPT !.next = IF f.id >= @ THEN f.id + 1 ELSE @,
                       !.seen = @ \cup {f.id}]

\* readdir returns the files that were there when the directory was opened, in
\* any order, and later ones or not.
Unvisited == {f \in peer : f.id >= scan.from /\ f.id \notin scan.seen}

\* A file that cannot be read or is empty: remembered as seen all the same.
SyncPass ==
  /\ pc = "sync"
  /\ \E f \in Unvisited :
       /\ ~f.whole
       /\ scan' = Met(f)
       /\ dealt' = dealt \cup {f.id}
  /\ UNCHANGED <<diskVars, pc, back, in_place_resume, stop_soon, q, current,
                 covered, unique, k, starts, fresh, found, kept>>

\* The file is run; new coverage adds it to the queue.
SyncRun ==
  /\ pc = "sync"
  /\ \E f \in Unvisited :
       /\ f.whole
       /\ scan' = Met(f)
       /\ dealt' = dealt \cup {f.id}
       /\ IF f.find \in covered
          THEN UNCHANGED <<q, covered, pc>>
          ELSE Add(f.find)
  /\ back' = "sync"
  /\ UNCHANGED <<diskVars, in_place_resume, stop_soon, current, unique, k,
                 starts, fresh, found, kept>>

\* Ctrl-C during the run: return, with the marker as it was.
SyncStops ==
  /\ pc = "sync"
  /\ \E f \in Unvisited : f.whole
  /\ stop_soon' = TRUE
  /\ scan' = NoScan
  /\ pc' = "stats"
  /\ UNCHANGED <<diskVars, back, in_place_resume, q, current, covered, unique, k,
                 histVars>>

\* Mutant: the marker is moved before the files have been run.
SyncEndEarly ==
  /\ pc = "sync"
  /\ marker' = scan.next
  /\ dealt' = dealt \cup {f.id : f \in {g \in Unvisited : g.id \notin scan.due}}
  /\ scan' = NoScan
  /\ pc' = "fuzz"
  /\ UNCHANGED <<queue, resume, samples, backups, stats, peer, back,
                 in_place_resume, stop_soon, q, current, covered, unique, k, starts,
                 fresh, found, kept>>

SyncEnd ==
  /\ pc = "sync"
  /\ scan.due \subseteq scan.seen
  /\ marker' = scan.next
  /\ dealt' = dealt \cup {f.id : f \in {g \in Unvisited : g.id \notin scan.due}}
  /\ scan' = NoScan
  /\ pc' = "fuzz"
  /\ UNCHANGED <<queue, resume, samples, backups, stats, peer, back,
                 in_place_resume, stop_soon, q, current, covered, unique, k, starts,
                 fresh, found, kept>>

-----------------------------------------------------------------------------

\* The machine or the process dies.  A test case that is just being rewritten
\* is given up, the one loss that NothingLost allows.
Crash ==
  /\ pc \in CrashAt
  /\ Over
  /\ found' = IF pc \in {"trim", "trim written"} THEN found \ {q[current].find}
                                                 ELSE found
  /\ UNCHANGED <<diskVars, starts, fresh, kept, dealt>>

Setup ==
  \/ \E in_place \in BOOLEAN : Start(in_place)
  \/ CheckStats \/ MoveQueue \/ DropSession \/ CleanQueue
  \/ \E kind \in Kinds : CleanSamples(kind)
  \/ CleanRest \/ MakeDirs
  \/ ReadTestcases \/ PivotInput \/ PivotDone \/ nuke_resume_dir \/ Begin

Fuzz ==
  \/ TruncateStats \/ WriteStats
  \/ \E find \in Finds : Discover(find)
  \/ \E kind \in Kinds, bug \in Bugs : SaveSample(kind, bug)
  \/ CreateFile \/ WriteFile \/ mark_as_det_done \/ Trim \/ NextEntry \/ Stop

Sync == SyncOpen \/ SyncPass \/ SyncRun \/ SyncStops \/ SyncEnd

Next == Setup \/ Fuzz \/ Sync \/ PeerCreates \/ PeerWrites \/ Crash

Spec == Init /\ [][Next]_vars

-----------------------------------------------------------------------------
(* Properties. *)

\* Whatever crashes have left, the test cases of a directory have ids of their own;
\* while a session runs an entry's id is its place, the marks on disk are those of
\* the entries, and the current entry exists, although it may come from the
\* statistics of a session with another queue.  Statistics torn by a crash end
\* every later start before that.
SessionInv ==
  /\ stats \in Nat \cup {TornStats}
  /\ \A dir \in {queue, resume} : \A f, g \in dir.files : f.id = g.id => f = g
  /\ pc \in {"fuzz", "sync", "save", "write", "trim", "trim written"} =>
       /\ current \in DOMAIN q
       /\ \A i \in DOMAIN q : q[i].id = i - 1
       /\ \A i \in queue.det : q[i + 1].passed_det

Whole(dir) == {f.find : f \in {g \in dir.files : g.whole}}

\* No test case that was once in the queue is lost by crashes and resumes, but
\* for one that was being trimmed: it is on disk at any time, and while fuzzing
\* in the queue that is worked on.
NothingLost ==
  /\ found \subseteq Whole(queue) \cup Whole(resume)
       \cup (IF pc \in {"trim", "trim written"} THEN {q[current].find} ELSE {})
  /\ pc \in {"fuzz", "sync"} => found \subseteq {q[i].find : i \in DOMAIN q}

\* No crash or hang sample is lost until the user starts a new session.
SamplesKept == kept \subseteq samples \cup backups

\* The user has given the test case more than once.
GivenTwice(find) == \E i, j \in DOMAIN Seeds : i # j /\ Seeds[i] = find /\ Seeds[j] = find

\* No test case is queued twice, whether it was found, imported, imported again
\* after a stop before the marker was written, or resumed, unless the user gave
\* it twice.
QueuedOnce ==
  \A i, j \in DOMAIN q : q[i].find = q[j].find => i = j \/ GivenTwice(q[i].find)

\* The other fuzzer's files below the marker have been run, but for those that
\* were not complete, or not there yet, when the directory was read.
MarkerHonest ==
  \A f \in peer : f.id < marker => f.id \in dealt

\* docs/README:246: "Any existing output directory can be also used to resume
\* aborted jobs"
AbortedJobsResume == NothingLost
=============================================================================
