---------------------------- MODULE SessionProofs ----------------------------
(***************************************************************************)
(* What the crashes and resumes of afl-fuzz, and the import of another     *)
(* fuzzer's queue, leave intact, for any seeds, any number of sessions and *)
(* any place of the crashes.                                               *)
(***************************************************************************)
EXTENDS Session, FiniteSetTheorems, TLAPS

-----------------------------------------------------------------------------
(* The order in which read_testcases takes the files. *)

Ids(files) == \A f \in files : f.id \in Int
UniqueIds(files) == \A f, g \in files : f.id = g.id => f = g

\* A file with a smaller id has fewer files before it.
LEMMA FewerBefore ==
  ASSUME NEW files, IsFiniteSet(files), Ids(files), NEW f \in files, NEW g \in files, f.id < g.id
  PROVE  Cardinality({h \in files : h.id < f.id}) < Cardinality({h \in files : h.id < g.id})
<1> DEFINE F == {h \in files : h.id < f.id}  G == {h \in files : h.id < g.id}
<1>1. F \subseteq G
  BY DEF Ids
<1>2. f \in G /\ f \notin F
  BY DEF Ids
<1>3. IsFiniteSet(G) /\ IsFiniteSet(F)
  BY FS_Subset
<1>4. Cardinality(F) \in Nat /\ Cardinality(G) \in Nat
  BY <1>3, FS_CardinalityType
<1>5. Cardinality(F) <= Cardinality(G) /\ (Cardinality(F) = Cardinality(G) => F = G)
  BY <1>1, <1>3, FS_Subset
<1> QED BY <1>2, <1>4, <1>5

\* ByName lists every file once.
LEMMA ByNameLists ==
  ASSUME NEW files, IsFiniteSet(files), Ids(files), UniqueIds(files)
  PROVE  /\ ByName(files) \in Seq(files)
         /\ \A f \in files : \E n \in DOMAIN ByName(files) : ByName(files)[n] = f
         /\ \A m, n \in DOMAIN ByName(files) :
              ByName(files)[m] = ByName(files)[n] => m = n
<1> DEFINE N == Cardinality(files)
           Before(f) == {g \in files : g.id < f.id}
           rank == [f \in files |-> Cardinality(Before(f)) + 1]
<1>1. N \in Nat
  BY FS_CardinalityType
<1>2. rank \in [files -> 1..N]
  <2>1. ASSUME NEW f \in files PROVE Cardinality(Before(f)) + 1 \in 1..N
    <3>1. IsFiniteSet(Before(f)) /\ Cardinality(Before(f)) <= N
      BY FS_Subset
    <3>2. Cardinality(Before(f)) = N => Before(f) = files
      BY FS_Subset
    <3>3. f \notin Before(f)
      BY DEF Ids
    <3>4. Cardinality(Before(f)) \in Nat
      BY <3>1, FS_CardinalityType
    <3> QED BY <1>1, <3>1, <3>2, <3>3, <3>4
  <2> QED BY <2>1
<1>3. \A f, g \in files : rank[f] = rank[g] => f = g
  <2> SUFFICES ASSUME NEW f \in files, NEW g \in files, rank[f] = rank[g] PROVE f = g
    OBVIOUS
  <2>1. Cardinality(Before(f)) \in Nat /\ Cardinality(Before(g)) \in Nat
    BY FS_Subset, FS_CardinalityType
  <2>2. Cardinality(Before(f)) = Cardinality(Before(g))
    BY <2>1
  <2>3. ~(f.id < g.id) /\ ~(g.id < f.id)
    BY <2>1, <2>2, FewerBefore
  <2> QED BY <2>3 DEF Ids, UniqueIds
<1>4. rank \in Injection(files, 1..N)
  BY <1>2, <1>3 DEF Injection, IsInjective
<1>5. IsFiniteSet(1..N) /\ Cardinality(1..N) = N
  BY <1>1, FS_Interval
<1>6. \A n \in 1..N : \E f \in files : rank[f] = n
  <2>1. rank \in Surjection(files, 1..N)
    BY <1>4, <1>5, FS_Injection
  <2> QED BY <2>1 DEF Surjection
<1>7. \A f \in files : Cardinality(Before(f)) \in Nat /\ rank[f] = Cardinality(Before(f)) + 1
  BY FS_Subset, FS_CardinalityType
<1>8. ByName(files) = [n \in 1..N |-> CHOOSE f \in files : Cardinality(Before(f)) = n - 1]
  BY DEF ByName
<1> HIDE DEF N, Before, rank
<1>9. \A n \in 1..N : ByName(files)[n] \in files /\ rank[ByName(files)[n]] = n
  <2> SUFFICES ASSUME NEW n \in 1..N
               PROVE  ByName(files)[n] \in files /\ rank[ByName(files)[n]] = n
    OBVIOUS
  <2>1. ByName(files)[n] = CHOOSE f \in files : Cardinality(Before(f)) = n - 1
    BY <1>8
  <2>2. \E f \in files : Cardinality(Before(f)) = n - 1
    <3>1. PICK f \in files : rank[f] = n
      BY <1>6
    <3>2. Cardinality(Before(f)) \in Nat /\ n = Cardinality(Before(f)) + 1
      BY <1>7, <3>1
    <3>3. Cardinality(Before(f)) = n - 1
      BY <3>2
    <3> QED BY <3>3
  <2>3. ByName(files)[n] \in files /\ Cardinality(Before(ByName(files)[n])) = n - 1
    BY <2>1, <2>2
  <2> QED BY <1>1, <1>7, <2>3
<1>10. DOMAIN ByName(files) = 1..N
  BY <1>8
<1>11. ByName(files) \in Seq(files)
  <2>1. ByName(files) \in [1..N -> files]
    BY <1>8, <1>9
  <2> QED BY <1>1, <2>1
<1>12. \A f \in files : \E n \in 1..N : ByName(files)[n] = f
  <2> SUFFICES ASSUME NEW f \in files PROVE ByName(files)[rank[f]] = f /\ rank[f] \in 1..N
    OBVIOUS
  <2> QED BY <1>2, <1>3, <1>9
<1>13. \A m, n \in 1..N : ByName(files)[m] = ByName(files)[n] => m = n
  BY <1>9
<1> QED BY <1>10, <1>11, <1>12, <1>13

-----------------------------------------------------------------------------
(* The inductive invariant. *)

FileSet == [id : Nat, find : Finds, whole : BOOLEAN]
EntrySet == [id : Int, find : Finds, passed_det : BOOLEAN, kept : BOOLEAN]
DirSet == [there : BOOLEAN, files : SUBSET FileSet, state : BOOLEAN, det : SUBSET Nat]
ScanSet == [from : Nat, next : Nat, due : SUBSET Nat, seen : SUBSET Nat]

InLoop == {"stats", "stats written", "fuzz", "save", "write", "trim", "trim written", "sync"}
\* Every entry has its file.
Linked == {"nuke", "begin"} \cup InLoop
Steps == {"off", "check", "move", "clean", "samples", "dirs", "read", "pivot"} \cup Linked

NoCopies(files) ==
  \A f, g \in files : f.find = g.find => f = g \/ GivenTwice(f.find)

\* What may be on disk in the place of a queue.
DirOK(dir) ==
  /\ dir \in DirSet
  /\ IsFiniteSet(dir.files)
  /\ UniqueIds(dir.files)
  /\ NoCopies(dir.files)
  /\ ~dir.there => dir = NoDir

ProcTypes ==
  /\ pc \in Steps
  /\ back \in {"fuzz", "sync"}
  /\ in_place_resume \in BOOLEAN
  /\ q \in Seq(EntrySet)
  /\ current \in Nat \ {0}
  /\ k \in Nat \ {0}
  /\ stats \in Nat \cup {TornStats}
  /\ starts \in Nat /\ fresh \in Nat

\* The queue is empty before it is filled.
ClearInv ==
  /\ pc = "samples" => queue = NoDir
  /\ pc \in {"dirs", "read"} => queue.files = {} /\ queue.det = {}
  /\ pc = "read" => queue.there

\* How many entries have got their file.
Placed == IF pc = "pivot" THEN k - 1 ELSE Len(q)

\* The one entry whose file is being written.
InWork(i) ==
  \/ pc \in {"save", "write"} /\ i = Len(q)
  \/ pc \in {"trim", "trim written"} /\ i = current

\* The files are those of the entries, name for name.
LinkInv ==
  pc \in Linked \cup {"pivot"} =>
    /\ queue.there
    /\ q # <<>>
    /\ Placed \in 0..Len(q)
    /\ \A i \in 1..Placed : q[i].id = i - 1
    /\ \A f \in queue.files : f.id < Placed /\ f.find = q[f.id + 1].find
    /\ \A i \in 1..Placed : InWork(i) \/ File(i - 1, q[i].find, TRUE) \in queue.files
    /\ \A i \in queue.det : i < Placed /\ q[i + 1].passed_det

\* The file in work is not there, or there and not whole.
WorkInv ==
  /\ pc = "save" => \A f \in queue.files : f.id # Len(q) - 1
  /\ pc = "write" => File(Len(q) - 1, q[Len(q)].find, FALSE) \in queue.files
  /\ pc = "trim" => \A f \in queue.files : f.id # current - 1
  /\ pc = "trim written" => File(current - 1, q[current].find, FALSE) \in queue.files

\* Nothing of the queue is new any more.
CoverInv ==
  pc \in InLoop => current \in DOMAIN q /\ \A i \in DOMAIN q : q[i].find \in covered

DiskInv ==
  /\ ProcTypes
  /\ DirOK(queue) /\ DirOK(resume)
  /\ ClearInv /\ LinkInv /\ WorkInv /\ CoverInv
  /\ QueuedOnce

-----------------------------------------------------------------------------
(* Directories. *)

LEMMA NoDirOK == DirOK(NoDir)
  BY FS_EmptySet DEF DirOK, NoDir, DirSet, UniqueIds, NoCopies

\* Deleting leaves a directory that may be there.
LEMMA EmptiedOK ==
  ASSUME NEW dir, NEW dir_, DirOK(dir), Emptied(dir, dir_)
  PROVE  DirOK(dir_) /\ (dir_.there => dir.there)
<1>1. CASE dir.state /\ dir_ = [dir EXCEPT !.state = FALSE, !.det = {}]
  <2>1. dir_ \in DirSet /\ dir_.files = dir.files /\ dir_.there = dir.there
    BY <1>1 DEF DirOK, DirSet
  <2>2. dir.there
    BY <1>1 DEF DirOK, NoDir
  <2> QED BY <2>1, <2>2 DEF DirOK
<1>2. CASE ~dir.state /\ \E f \in dir.files : dir_ = [dir EXCEPT !.files = @ \ {f}]
  <2>1. PICK f \in dir.files : dir_ = [dir EXCEPT !.files = @ \ {f}]
    BY <1>2
  <2>2. dir_.files = dir.files \ {f} /\ dir_ \in DirSet /\ dir_.there = dir.there
    BY <2>1 DEF DirOK, DirSet
  <2>3. IsFiniteSet(dir_.files)
    BY <2>2, FS_Subset DEF DirOK
  <2>4. ~dir_.there => dir_ = NoDir
    BY <2>1, <2>2 DEF DirOK, NoDir
  <2> QED BY <2>2, <2>3, <2>4 DEF DirOK, UniqueIds, NoCopies
<1>3. CASE dir_ = NoDir
  BY <1>3, NoDirOK DEF NoDir
<1> QED BY <1>1, <1>2, <1>3 DEF Emptied

Once(s) == \A i, j \in DOMAIN s : s[i].find = s[j].find => i = j \/ GivenTwice(s[i].find)

\* Files that are those of a queue without copies are without copies.
LEMMA LinkedNoCopies ==
  ASSUME NEW s, Once(s), NEW files, UniqueIds(files),
         \A f \in files : f.id \in Int /\ f.id + 1 \in DOMAIN s /\ f.find = s[f.id + 1].find
  PROVE  NoCopies(files)
<1> SUFFICES ASSUME NEW f \in files, NEW g \in files, f.find = g.find, f # g
             PROVE  GivenTwice(f.find)
  BY DEF NoCopies
<1>1. f.id # g.id
  BY DEF UniqueIds
<1>2. f.id + 1 # g.id + 1
  BY <1>1
<1> QED BY <1>2 DEF Once

\* A directory that is there.
LEMMA ThereOK ==
  ASSUME NEW dir \in DirSet, dir.there, IsFiniteSet(dir.files), UniqueIds(dir.files),
         NoCopies(dir.files)
  PROVE  DirOK(dir)
  BY DEF DirOK

-----------------------------------------------------------------------------
(* Starting. *)

LEMMA NoEntries == <<>> \in Seq(EntrySet)
  OBVIOUS

LEMMA DiskInit == Init => DiskInv
<1> SUFFICES ASSUME Init PROVE DiskInv
  OBVIOUS
<1>1. ProcTypes
  <2>1. pc \in Steps
    BY DEF Init, Steps
  <2>2. q \in Seq(EntrySet)
    BY NoEntries DEF Init, Nothing
  <2>3. current \in Nat \ {0} /\ k \in Nat \ {0}
    BY DEF Init, Nothing
  <2>4. back \in {"fuzz", "sync"} /\ in_place_resume \in BOOLEAN
    BY DEF Init, Nothing
  <2>5. stats \in Nat \cup {TornStats} /\ starts \in Nat /\ fresh \in Nat
    BY DEF Init, NoStats
  <2> QED BY <2>1, <2>2, <2>3, <2>4, <2>5 DEF ProcTypes
<1>2. DirOK(queue) /\ DirOK(resume)
  BY NoDirOK DEF Init
<1>3. ClearInv /\ LinkInv /\ WorkInv /\ CoverInv
  BY DEF Init, ClearInv, LinkInv, WorkInv, CoverInv, Linked, InLoop
<1>4. QueuedOnce
  BY DEF Init, Nothing, QueuedOnce
<1> QED BY <1>1, <1>2, <1>3, <1>4 DEF DiskInv

\* The end of the process, whatever is on disk.
LEMMA DiskOver ==
  ASSUME DiskInv, Over, UNCHANGED <<queue, resume, starts, fresh>>,
         stats' \in Nat \cup {TornStats}
  PROVE  DiskInv'
<1>1. ProcTypes'
  <2>1. (pc \in Steps)'
    BY DEF Over, Steps
  <2>2. (q \in Seq(EntrySet))'
    BY NoEntries DEF Over
  <2>3. (current \in Nat \ {0} /\ k \in Nat \ {0})'
    BY DEF Over
  <2>4. (back \in {"fuzz", "sync"} /\ in_place_resume \in BOOLEAN)'
    BY DEF Over
  <2>5. (stats \in Nat \cup {TornStats} /\ starts \in Nat /\ fresh \in Nat)'
    BY DEF DiskInv, ProcTypes
  <2> QED BY <2>1, <2>2, <2>3, <2>4, <2>5 DEF ProcTypes
<1>2. DirOK(queue)' /\ DirOK(resume)'
  BY DEF DiskInv
<1>3. (ClearInv /\ LinkInv /\ WorkInv /\ CoverInv)'
  BY DEF Over, ClearInv, LinkInv, WorkInv, CoverInv, Linked, InLoop
<1>4. QueuedOnce'
  BY DEF Over, QueuedOnce
<1> QED BY <1>1, <1>2, <1>3, <1>4 DEF DiskInv

LEMMA DiskFATAL == DiskInv /\ FATAL => DiskInv'
  BY DiskOver DEF FATAL, diskVars, histVars, DiskInv, ProcTypes

LEMMA DiskStart ==
  ASSUME DiskInv, NEW in_place \in BOOLEAN, Start(in_place)
  PROVE  DiskInv'
<1> USE DEF DiskInv, Start, diskVars
<1>1. ProcTypes'
  BY DEF ProcTypes, Steps
<1>2. DirOK(queue)' /\ DirOK(resume)'
  OBVIOUS
<1>3. (ClearInv /\ LinkInv /\ WorkInv /\ CoverInv)'
  BY DEF ClearInv, LinkInv, WorkInv, CoverInv, Linked, InLoop
<1>4. QueuedOnce'
  BY DEF QueuedOnce
<1> QED BY <1>1, <1>2, <1>3, <1>4

LEMMA DiskCheck == DiskInv /\ CheckStats => DiskInv'
<1> SUFFICES ASSUME DiskInv, CheckStats PROVE DiskInv'
  OBVIOUS
<1>1. CASE FATAL
  BY <1>1, DiskFATAL
<1>2. CASE pc' = "move" /\ UNCHANGED <<diskVars, procVars, histVars>>
  <2> USE <1>2 DEF DiskInv, diskVars, procVars, histVars
  <2>1. ProcTypes'
    BY DEF ProcTypes, Steps
  <2>2. (ClearInv /\ LinkInv /\ WorkInv /\ CoverInv)'
    BY DEF ClearInv, LinkInv, WorkInv, CoverInv, Linked, InLoop
  <2>3. (DirOK(queue) /\ DirOK(resume) /\ QueuedOnce)'
    BY DEF QueuedOnce
  <2> QED BY <2>1, <2>2, <2>3
<1> QED BY <1>1, <1>2 DEF CheckStats

\* The steps of maybe_delete_out_dir leave directories that may be there.
LEMMA DiskSetup ==
  ASSUME DiskInv, DirOK(queue'), DirOK(resume'), ClearInv', UNCHANGED <<procVars>>,
         stats' \in Nat \cup {TornStats}, starts' \in Nat, fresh' \in Nat,
         pc' \in {"move", "clean", "samples", "dirs", "read"}
  PROVE  DiskInv'
<1> USE DEF DiskInv, procVars
<1>1. ProcTypes'
  BY DEF ProcTypes, Steps
<1>2. (LinkInv /\ WorkInv /\ CoverInv)'
  BY DEF LinkInv, WorkInv, CoverInv, Linked, InLoop
<1>3. QueuedOnce'
  BY DEF QueuedOnce
<1> QED BY <1>1, <1>2, <1>3

LEMMA DiskClean ==
  ASSUME DiskInv,
         MoveQueue \/ DropSession \/ CleanQueue \/ CleanRest \/ MakeDirs
           \/ \E kind \in Kinds : CleanSamples(kind)
  PROVE  DiskInv'
<1> USE DEF DiskInv, ProcTypes
<1>1. CASE MoveQueue
  <2>1. DirOK(queue') /\ DirOK(resume')
    BY <1>1, NoDirOK DEF MoveQueue
  <2>2. ClearInv'
    BY <1>1 DEF MoveQueue, ClearInv
  <2> QED BY <1>1, <2>1, <2>2, DiskSetup DEF MoveQueue, histVars
<1>2. CASE DropSession
  BY <1>2, DiskSetup DEF DropSession, ClearInv
<1>3. CASE CleanQueue
  <2>1. DirOK(queue')
    BY <1>3, EmptiedOK DEF CleanQueue
  <2>2. ClearInv'
    BY <1>3, <2>1 DEF CleanQueue, ClearInv, DirOK
  <2> QED BY <1>3, <2>1, <2>2, DiskSetup DEF CleanQueue, histVars
<1>4. CASE CleanRest
  <2>1. ClearInv'
    BY <1>4 DEF CleanRest, ClearInv, NoDir
  <2> QED BY <1>4, <2>1, DiskSetup DEF CleanRest, histVars, NoStats
<1>5. CASE MakeDirs
  <2>1. DirOK(queue') /\ ClearInv'
    BY <1>5, FS_EmptySet DEF MakeDirs, ClearInv, Dir, DirOK, DirSet, UniqueIds, NoCopies
  <2> QED BY <1>5, <2>1, DiskSetup DEF MakeDirs, histVars
<1>6. ASSUME NEW kind \in Kinds, CleanSamples(kind) PROVE DiskInv'
  <2>1. ClearInv'
    BY <1>6 DEF CleanSamples, ClearInv
  <2> QED BY <1>6, <2>1, DiskSetup DEF CleanSamples, histVars
<1> QED BY <1>1, <1>2, <1>3, <1>4, <1>5, <1>6

-----------------------------------------------------------------------------
(* Reading and linking the test cases. *)

\* What read_testcases takes from _resume/: every whole file, in some order.
Taken == ByName({f \in resume.files : f.whole})

LEMMA TakenFiles ==
  ASSUME DirOK(resume)
  PROVE  /\ Taken \in Seq(resume.files)
         /\ \A n \in DOMAIN Taken : Taken[n].whole
         /\ \A f \in resume.files : f.whole => \E n \in DOMAIN Taken : Taken[n] = f
         /\ \A m, n \in DOMAIN Taken : Taken[m] = Taken[n] => m = n
<1> DEFINE files == {f \in resume.files : f.whole}
<1>1. IsFiniteSet(files)
  BY FS_Subset DEF DirOK
<1>2. Ids(files) /\ UniqueIds(files)
  BY DEF DirOK, DirSet, FileSet, Ids, UniqueIds
<1>3. /\ ByName(files) \in Seq(files)
      /\ \A f \in files : \E n \in DOMAIN ByName(files) : ByName(files)[n] = f
      /\ \A m, n \in DOMAIN ByName(files) : ByName(files)[m] = ByName(files)[n] => m = n
  BY <1>1, <1>2, ByNameLists
<1> HIDE DEF files
<1>4. Taken = ByName(files)
  BY DEF Taken, files
<1>5. \A n \in DOMAIN Taken : Taken[n] \in files
  BY <1>3, <1>4
<1>6. files \subseteq resume.files /\ \A f \in files : f.whole
  BY DEF files
<1>7. Taken \in Seq(resume.files)
  BY <1>3, <1>4, <1>6
<1> QED BY <1>3, <1>4, <1>5, <1>6, <1>7 DEF files

\* The queue that a start reads.
TakenEntries == [i \in DOMAIN Taken |-> Entry(Taken[i].id, Taken[i].find, Taken[i].id \in resume.det)]
SeedEntries == [i \in DOMAIN Seeds |-> Entry(-1, Seeds[i], FALSE)]

LEMMA TakenOnce ==
  ASSUME DirOK(resume)
  PROVE  TakenEntries \in Seq(EntrySet) /\ Once(TakenEntries)
<1>1. /\ Taken \in Seq(resume.files)
      /\ \A m, n \in DOMAIN Taken : Taken[m] = Taken[n] => m = n
  BY TakenFiles
<1>2. \A n \in DOMAIN Taken : Taken[n] \in resume.files /\ Taken[n] \in FileSet
  BY <1>1 DEF DirOK, DirSet
<1>3. Len(Taken) \in Nat /\ DOMAIN Taken = 1..Len(Taken)
  BY <1>1
<1>4. \A n \in DOMAIN Taken :
        Entry(Taken[n].id, Taken[n].find, Taken[n].id \in resume.det) \in EntrySet
  BY <1>2 DEF Entry, EntrySet, FileSet
<1>5. TakenEntries \in Seq(EntrySet)
  BY <1>3, <1>4 DEF TakenEntries
<1>6. \A n \in DOMAIN Taken : TakenEntries[n].find = Taken[n].find
  BY DEF TakenEntries, Entry
<1>7. DOMAIN TakenEntries = DOMAIN Taken
  BY DEF TakenEntries
<1>8. Once(TakenEntries)
  BY <1>1, <1>2, <1>6, <1>7 DEF Once, DirOK, NoCopies
<1> QED BY <1>5, <1>8

LEMMA SeedsOnce == SeedEntries \in Seq(EntrySet) /\ Once(SeedEntries)
<1>1. Seeds \in Seq(Finds)
  BY SessionAssumption
<1>2. \A n \in DOMAIN Seeds : Entry(-1, Seeds[n], FALSE) \in EntrySet
  BY <1>1 DEF Entry, EntrySet
<1>3. SeedEntries \in Seq(EntrySet)
  <2>1. Len(Seeds) \in Nat /\ DOMAIN Seeds = 1..Len(Seeds)
    BY <1>1
  <2>2. SeedEntries \in [1..Len(Seeds) -> EntrySet]
    BY <1>2, <2>1 DEF SeedEntries
  <2> QED BY <2>1, <2>2
<1>4. Once(SeedEntries)
  BY DEF SeedEntries, Entry, Once, GivenTwice
<1> QED BY <1>3, <1>4

\* The two outcomes of read_testcases.
LEMMA ReadOutcome ==
  ASSUME ReadTestcases
  PROVE  \/ FATAL /\ (IF in_place_resume THEN TakenEntries ELSE SeedEntries) = <<>>
         \/ /\ q' = IF in_place_resume THEN TakenEntries ELSE SeedEntries
            /\ q' # <<>>
            /\ k' = 1 /\ pc' = "pivot"
            /\ UNCHANGED <<diskVars, back, in_place_resume, stop_soon, current,
                            covered, unique, scan, histVars>>
  BY DEF ReadTestcases, TakenEntries, SeedEntries, Taken

LEMMA DiskRead == DiskInv /\ ReadTestcases => DiskInv'
<1> SUFFICES ASSUME DiskInv, ReadTestcases PROVE DiskInv'
  OBVIOUS
<1>1. CASE FATAL
  BY <1>1, DiskFATAL
<1>2. CASE /\ q' = IF in_place_resume THEN TakenEntries ELSE SeedEntries
           /\ q' # <<>>
           /\ k' = 1 /\ pc' = "pivot"
           /\ UNCHANGED <<diskVars, back, in_place_resume, stop_soon, current,
                            covered, unique, scan, histVars>>
  <2> USE <1>2 DEF diskVars, histVars
  <2>1. q' \in Seq(EntrySet) /\ Once(q')
    BY TakenOnce, SeedsOnce DEF DiskInv
  <2>2. ProcTypes'
    <3>1. (pc \in Steps)'
      BY DEF Steps
    <3> QED BY <2>1, <3>1 DEF DiskInv, ProcTypes
  <2>3. (DirOK(queue) /\ DirOK(resume))'
    BY DEF DiskInv
  <2>4. queue.there /\ queue.files = {} /\ queue.det = {}
    BY DEF DiskInv, ClearInv, ReadTestcases
  <2>5. LinkInv'
    <3>1. Placed' = 0
      BY DEF Placed
    <3>2. Len(q') \in Nat
      BY <2>1
    <3> QED BY <2>4, <3>1, <3>2 DEF LinkInv
  <2>6. (ClearInv /\ WorkInv /\ CoverInv)'
    BY DEF ClearInv, WorkInv, CoverInv, InLoop
  <2>7. QueuedOnce'
    BY <2>1 DEF QueuedOnce, Once
  <2> QED BY <2>2, <2>3, <2>5, <2>6, <2>7 DEF DiskInv
<1> QED BY <1>1, <1>2, ReadOutcome

LEMMA Renamed ==
  ASSUME NEW e \in EntrySet, NEW n \in Int, NEW b \in BOOLEAN
  PROVE  [e EXCEPT !.id = n, !.kept = b] \in EntrySet
  BY DEF EntrySet

\* One more entry gets its file.
LEMMA DiskPivot == DiskInv /\ PivotInput => DiskInv'
<1> SUFFICES ASSUME DiskInv, PivotInput PROVE DiskInv'
  OBVIOUS
<1> DEFINE new == File(k - 1, q[k].find, TRUE)
<1>1. k \in 1..Len(q) /\ k \in Nat /\ Len(q) \in Nat /\ DOMAIN q = 1..Len(q)
  BY DEF DiskInv, ProcTypes, PivotInput
<1>2. \A i \in DOMAIN q : q[i] \in EntrySet
  BY DEF DiskInv, ProcTypes
<1>3. /\ q' \in Seq(EntrySet) /\ Len(q') = Len(q)
      /\ q'[k].id = k - 1
      /\ \A i \in DOMAIN q : /\ q'[i].find = q[i].find /\ q'[i].passed_det = q[i].passed_det
                             /\ i # k => q'[i] = q[i]
  <2>1. q' = [q EXCEPT ![k] = [q[k] EXCEPT !.id = k - 1, !.kept = (q[k].id = k - 1)]]
    BY <1>1, <1>2 DEF PivotInput, EntrySet
  <2>2. [q[k] EXCEPT !.id = k - 1, !.kept = (q[k].id = k - 1)] \in EntrySet
    <3>1. k \in DOMAIN q /\ k - 1 \in Int
      BY <1>1
    <3>2. (q[k].id = k - 1) \in BOOLEAN
      OBVIOUS
    <3> QED BY <1>2, <3>1, <3>2, Renamed
  <2>3. q' \in Seq(EntrySet) /\ Len(q') = Len(q)
    BY <1>1, <2>1, <2>2 DEF DiskInv, ProcTypes
  <2>4. q'[k] = [q[k] EXCEPT !.id = k - 1, !.kept = (q[k].id = k - 1)]
    BY <1>1, <2>1
  <2>5. q'[k].id = k - 1 /\ q'[k].find = q[k].find /\ q'[k].passed_det = q[k].passed_det
    <3>1. q[k] \in [id : Int, find : Finds, passed_det : BOOLEAN, kept : BOOLEAN]
      BY <1>1, <1>2 DEF EntrySet
    <3> QED BY <2>4, <3>1
  <2>6. \A i \in DOMAIN q : i # k => q'[i] = q[i]
    BY <2>1
  <2> QED BY <2>3, <2>5, <2>6
<1>4. /\ new \in FileSet /\ new.id = k - 1 /\ new.find = q[k].find
      /\ new = File(k - 1, q[k].find, TRUE)
  BY <1>1, <1>2 DEF File, FileSet, EntrySet
<1>5. /\ queue' \in DirSet /\ queue'.there
      /\ queue'.files = queue.files \cup {new}
      /\ queue'.det \subseteq queue.det \cup (IF q[k].passed_det THEN {k - 1} ELSE {})
  <2>1. queue \in DirSet /\ queue.there
    BY DEF DiskInv, LinkInv, DirOK, PivotInput
  <2>2. queue' = [queue EXCEPT !.files = queue.files \cup {new},
                  !.det = IF q[k].passed_det THEN queue.det \cup {k - 1} ELSE queue.det]
    BY <2>1 DEF PivotInput, DirSet
  <2>3. k - 1 \in Nat
    BY <1>1
  <2> HIDE DEF new
  <2> QED BY <1>4, <2>1, <2>2, <2>3 DEF DirSet
<1> HIDE DEF new
<1>6. \A f \in queue.files : f.id \in Nat /\ f.id < k - 1 /\ f.find = q[f.id + 1].find
  BY DEF PivotInput, DiskInv, LinkInv, Placed, DirOK, DirSet, FileSet
<1>7. UniqueIds(queue'.files)
  <2>1. \A f \in queue.files : f.id # new.id
    BY <1>1, <1>4, <1>6
  <2>2. UniqueIds(queue.files)
    BY DEF DiskInv, DirOK
  <2> QED BY <1>5, <2>1, <2>2 DEF UniqueIds
<1>8. QueuedOnce' /\ Once(q')
  BY <1>1, <1>3 DEF DiskInv, QueuedOnce, Once
<1>9. \A f \in queue'.files :
        f.id \in Int /\ f.id + 1 \in DOMAIN q' /\ f.find = q'[f.id + 1].find /\ f.id < k
  <2>1. DOMAIN q' = 1..Len(q)
    BY <1>3
  <2>2. \A f \in queue.files :
          f.id + 1 \in DOMAIN q' /\ f.find = q'[f.id + 1].find /\ f.id < k /\ f.id \in Int
    BY <1>1, <1>3, <1>6, <2>1
  <2>3. new.id \in Int /\ new.id + 1 = k /\ new.id < k
    BY <1>1, <1>4
  <2>4. new.id + 1 \in DOMAIN q' /\ new.find = q'[new.id + 1].find
    BY <1>1, <1>3, <1>4, <2>1, <2>3
  <2> QED BY <1>5, <2>2, <2>3, <2>4
<1>10. NoCopies(queue'.files)
  BY <1>7, <1>8, <1>9, LinkedNoCopies
<1>11. DirOK(queue)'
  <2>1. IsFiniteSet(queue.files)
    BY DEF DiskInv, DirOK
  <2>2. IsFiniteSet(queue'.files)
    BY <1>5, <2>1, FS_AddElement
  <2>3. DirOK(queue')
    BY <1>5, <1>7, <1>10, <2>2, ThereOK
  <2> QED BY <2>3 DEF DirOK
<1>12. ProcTypes'
  <2>1. (k \in Nat \ {0})'
    BY <1>1 DEF PivotInput
  <2> QED BY <1>3, <2>1 DEF PivotInput, DiskInv, ProcTypes
<1>13. LinkInv'
  <2>1. Placed' = k /\ Placed = k - 1 /\ pc' = "pivot" /\ pc = "pivot"
    BY <1>1 DEF Placed, PivotInput
  <2>2. \A i \in 1..Placed' : q'[i].id = i - 1
    <3> SUFFICES ASSUME NEW i \in 1..k PROVE q'[i].id = i - 1
      BY <2>1
    <3>1. CASE i = k
      BY <1>1, <1>3, <3>1
    <3>2. CASE i # k
      <4>1. i \in 1..Placed
        BY <1>1, <2>1, <3>2
      <4>2. q'[i].id = q[i].id
        BY <1>1, <1>3, <3>2
      <4>3. q[i].id = i - 1
        BY <2>1, <4>1 DEF DiskInv, LinkInv
      <4> QED BY <4>2, <4>3
    <3> QED BY <3>1, <3>2
  <2>3. \A f \in queue'.files : f.id < Placed' /\ f.find = q'[f.id + 1].find
    BY <1>9, <2>1
  <2>4. \A i \in 1..Placed' : File(i - 1, q'[i].find, TRUE) \in queue'.files
    <3> SUFFICES ASSUME NEW i \in 1..k PROVE File(i - 1, q'[i].find, TRUE) \in queue'.files
      BY <2>1
    <3>1. q'[i].find = q[i].find
      BY <1>1, <1>3
    <3>2. CASE i = k
      BY <1>4, <1>5, <3>1, <3>2
    <3>3. CASE i # k
      <4>1. i \in 1..Placed
        BY <1>1, <2>1, <3>3
      <4> QED BY <1>5, <2>1, <3>1, <4>1 DEF DiskInv, LinkInv, InWork
    <3> QED BY <3>2, <3>3
  <2>5. \A i \in queue'.det : i < Placed' /\ q'[i + 1].passed_det
    <3> SUFFICES ASSUME NEW i \in queue'.det PROVE i < k /\ q'[i + 1].passed_det
      BY <2>1
    <3>1. CASE i \in queue.det
      <4>1. i \in Nat /\ i < k - 1 /\ q[i + 1].passed_det
        BY <2>1, <3>1 DEF DiskInv, LinkInv, DirOK, DirSet
      <4> QED BY <1>1, <1>3, <4>1
    <3>2. CASE i = k - 1 /\ q[k].passed_det
      BY <1>1, <1>3, <3>2
    <3> QED BY <1>5, <3>1, <3>2
  <2>6. q' # <<>> /\ Placed' \in 0..Len(q')
    BY <1>1, <1>3, <2>1
  <2> QED BY <1>5, <2>1, <2>2, <2>3, <2>4, <2>5, <2>6 DEF LinkInv
<1>14. (ClearInv /\ WorkInv /\ CoverInv)'
  BY DEF PivotInput, ClearInv, WorkInv, CoverInv, InLoop
<1>15. DirOK(resume)'
  BY DEF PivotInput, DiskInv
<1> QED BY <1>8, <1>11, <1>12, <1>13, <1>14, <1>15 DEF DiskInv

-----------------------------------------------------------------------------
(* Steps that leave the queue and its files alone. *)

\* Linked, and no file in work.
Calm == {"nuke", "begin", "stats", "stats written", "fuzz", "sync"}

LEMMA DiskQuiet ==
  ASSUME DiskInv, pc \in Calm \/ (pc = "pivot" /\ k > Len(q)), pc' \in Calm,
         UNCHANGED <<queue, q, k, in_place_resume, starts, fresh>>,
         DirOK(resume'), back' \in {"fuzz", "sync"}, current' \in Nat \ {0},
         stats' \in Nat \cup {TornStats},
         pc' \in InLoop =>
           current' \in DOMAIN q /\ \A i \in DOMAIN q : q[i].find \in covered'
  PROVE  DiskInv'
<1>1. ProcTypes'
  <2>1. (pc \in Steps)'
    BY DEF Calm, Steps, Linked, InLoop
  <2> QED BY <2>1 DEF DiskInv, ProcTypes
<1>2. LinkInv'
  <2>1. pc \in Linked \cup {"pivot"} /\ Placed' = Len(q) /\ Placed = Len(q)
    <3>1. pc \in Linked \cup {"pivot"} /\ Placed' = Len(q)
      BY DEF Calm, Linked, InLoop, Placed
    <3>2. CASE pc \in Calm
      BY <3>1, <3>2 DEF Calm, Placed
    <3>3. CASE pc = "pivot" /\ k > Len(q)
      <4>1. Placed = k - 1 /\ Placed \in 0..Len(q)
        BY <3>1, <3>3 DEF Placed, DiskInv, LinkInv
      <4>2. k \in Nat /\ Len(q) \in Nat
        BY DEF DiskInv, ProcTypes
      <4> QED BY <3>1, <3>3, <4>1, <4>2
    <3> QED BY <3>1, <3>2, <3>3
  <2>2. \A i : ~InWork(i) /\ ~InWork(i)'
    BY DEF Calm, InWork
  <2> QED BY <2>1, <2>2 DEF DiskInv, LinkInv
<1>3. (ClearInv /\ WorkInv /\ CoverInv)'
  BY DEF ClearInv, WorkInv, CoverInv, Calm
<1>4. QueuedOnce'
  BY DEF DiskInv, QueuedOnce
<1> QED BY <1>1, <1>2, <1>3, <1>4 DEF DiskInv

LEMMA DiskSame ==
  DiskInv /\ UNCHANGED <<queue, resume, stats, pc, procVars, starts, fresh>> => DiskInv'
<1> SUFFICES ASSUME DiskInv, UNCHANGED <<queue, resume, stats, pc, procVars, starts, fresh>>
             PROVE  DiskInv'
  OBVIOUS
<1>1. (ProcTypes /\ DirOK(queue) /\ DirOK(resume) /\ ClearInv /\ QueuedOnce)'
  BY DEF procVars, DiskInv, ProcTypes, ClearInv, QueuedOnce
<1>2. LinkInv'
  BY DEF procVars, DiskInv, LinkInv, Placed, InWork
<1>3. (WorkInv /\ CoverInv)'
  BY DEF procVars, DiskInv, WorkInv, CoverInv
<1> QED BY <1>1, <1>2, <1>3 DEF DiskInv

LEMMA DiskCalm ==
  ASSUME DiskInv,
         \/ PivotDone \/ nuke_resume_dir \/ Begin \/ TruncateStats \/ WriteStats
         \/ NextEntry \/ Stop \/ SyncOpen \/ SyncPass \/ SyncStops \/ SyncEnd
         \/ \E kind \in Kinds, bug \in Bugs : SaveSample(kind, bug)
  PROVE  DiskInv'
<1> DEFINE Types ==
             /\ stats \in Nat \cup {TornStats} /\ current \in Nat \ {0} /\ back \in {"fuzz", "sync"}
             /\ DirOK(resume) /\ Len(q) \in Nat /\ DOMAIN q = 1..Len(q)
<1>1. Types
  BY DEF DiskInv, ProcTypes
<1>2. pc \in InLoop => current \in 1..Len(q) /\ \A i \in DOMAIN q : q[i].find \in covered
  BY DEF DiskInv, CoverInv, ProcTypes
<1>3. pc \in Linked => Len(q) > 0
  BY <1>1 DEF DiskInv, LinkInv, ProcTypes
<1> USE <1>1 DEF Calm, InLoop
<1>4. CASE PivotDone
  BY <1>4, DiskQuiet DEF PivotDone, diskVars, procVars, histVars
<1>5. CASE nuke_resume_dir
  <2>1. DirOK(resume')
    BY <1>5, EmptiedOK DEF nuke_resume_dir
  <2> QED BY <1>5, <2>1, DiskQuiet DEF nuke_resume_dir, procVars, histVars
<1>6. CASE Begin
  <2>1. current' \in 1..Len(q)
    BY <1>3, <1>6 DEF Begin, Linked
  <2>2. \A i \in DOMAIN q : q[i].find \in covered'
    BY <1>6 DEF Begin
  <2>3. /\ pc = "begin" /\ pc' = "stats"
        /\ UNCHANGED <<queue, resume, stats, back, q, k, in_place_resume, starts, fresh>>
    BY <1>6 DEF Begin, diskVars, histVars
  <2> QED BY <2>1, <2>2, <2>3, DiskQuiet
<1>7. CASE TruncateStats
  BY <1>2, <1>7, DiskQuiet DEF TruncateStats, procVars, histVars
<1>8. CASE WriteStats
  <2>1. CASE stop_soon
    BY <1>8, <2>1, DiskOver DEF WriteStats, histVars
  <2>2. CASE ~stop_soon
    BY <1>2, <1>8, <2>2, DiskQuiet DEF WriteStats, procVars, histVars
  <2> QED BY <2>1, <2>2
<1>9. CASE NextEntry
  <2>1. current' \in 1..Len(q)
    BY <1>2, <1>3, <1>9 DEF NextEntry, Linked
  <2>2. /\ pc = "fuzz" /\ pc' \in {"fuzz", "stats"}
        /\ UNCHANGED <<queue, resume, stats, back, q, k, covered, in_place_resume, starts, fresh>>
    BY <1>9 DEF NextEntry, diskVars, histVars
  <2>3. current' \in Nat \ {0} /\ current' \in DOMAIN q
    BY <2>1
  <2>4. \A i \in DOMAIN q : q[i].find \in covered'
    BY <1>2, <2>2
  <2> QED BY <2>2, <2>3, <2>4, DiskQuiet
<1>10. CASE Stop
  BY <1>2, <1>10, DiskQuiet DEF Stop, diskVars, histVars
<1>11. CASE SyncOpen
  BY <1>2, <1>11, DiskQuiet DEF SyncOpen, diskVars, histVars
<1>12. CASE SyncPass
  BY <1>2, <1>12, DiskQuiet DEF SyncPass, diskVars
<1>13. CASE SyncStops
  BY <1>2, <1>13, DiskQuiet DEF SyncStops, diskVars, histVars
<1>14. CASE SyncEnd
  BY <1>2, <1>14, DiskQuiet DEF SyncEnd
<1>15. ASSUME NEW kind \in Kinds, NEW bug \in Bugs, SaveSample(kind, bug) PROVE DiskInv'
  BY <1>2, <1>15, DiskQuiet DEF SaveSample
<1> QED BY <1>4, <1>5, <1>6, <1>7, <1>8, <1>9, <1>10, <1>11, <1>12, <1>13, <1>14, <1>15

-----------------------------------------------------------------------------
(* Steps that add to the queue or to its files. *)

\* add_to_queue for a find that is not covered yet.
LEMMA DiskAdd ==
  ASSUME DiskInv, pc \in {"fuzz", "sync"}, NEW find \in Finds, find \notin covered, Add(find),
         UNCHANGED <<queue, resume, stats, in_place_resume, current, k, starts, fresh>>,
         back' \in {"fuzz", "sync"}
  PROVE  DiskInv'
<1> DEFINE new == Entry(Len(q), find, FALSE)
<1>1. q \in Seq(EntrySet) /\ Len(q) \in Nat /\ DOMAIN q = 1..Len(q)
  BY DEF DiskInv, ProcTypes
<1>2. new \in EntrySet /\ new.id = Len(q) /\ new.find = find
  BY <1>1 DEF Entry, EntrySet
<1>3. q' = Append(q, new) /\ covered' = covered \cup {find} /\ pc' = "save"
  BY DEF Add
<1> HIDE DEF new
<1>4. /\ q' \in Seq(EntrySet) /\ Len(q') = Len(q) + 1 /\ DOMAIN q' = 1..(Len(q) + 1)
      /\ \A i \in 1..Len(q) : q'[i] = q[i]
      /\ q'[Len(q) + 1] = new
  BY <1>1, <1>2, <1>3
<1>5. current \in 1..Len(q) /\ \A i \in 1..Len(q) : q[i].find \in covered
  BY <1>1 DEF DiskInv, CoverInv, InLoop
<1>6. ProcTypes'
  BY <1>3, <1>4 DEF DiskInv, ProcTypes, Steps, Linked, InLoop
<1>7. QueuedOnce'
  <2> SUFFICES ASSUME NEW i \in 1..(Len(q) + 1), NEW j \in 1..(Len(q) + 1),
                      q'[i].find = q'[j].find, i # j
               PROVE  GivenTwice(q'[i].find)
    BY <1>4 DEF QueuedOnce
  <2>1. i \in 1..Len(q) /\ j \in 1..Len(q)
    BY <1>1, <1>2, <1>4, <1>5
  <2> QED BY <1>1, <1>4, <2>1 DEF DiskInv, QueuedOnce
<1>8. /\ pc \in Linked /\ Placed = Len(q) /\ Placed' = Len(q) + 1
      /\ \A i : ~InWork(i)
      /\ \A i : i = Len(q) + 1 => InWork(i)'
  <2>1. pc \in Linked /\ Placed = Len(q) /\ \A i : ~InWork(i)
    BY DEF Linked, InLoop, Placed, InWork
  <2>2. pc' = "save" /\ Len(q') = Len(q) + 1
    BY <1>3, <1>4
  <2> QED BY <2>1, <2>2 DEF Placed, InWork
<1>9. \A f \in queue.files : f.id \in Nat /\ f.id < Len(q) /\ f.find = q[f.id + 1].find
  BY <1>8 DEF DiskInv, LinkInv, DirOK, DirSet, FileSet
<1>10. LinkInv'
  <2>1. queue'.there /\ q' # <<>> /\ Placed' \in 0..Len(q')
    BY <1>1, <1>4, <1>8 DEF DiskInv, LinkInv
  <2>2. \A i \in 1..Placed' : q'[i].id = i - 1
    <3>1. \A i \in 1..Len(q) : q[i].id = i - 1
      BY <1>8 DEF DiskInv, LinkInv
    <3>2. q'[Len(q) + 1].id = Len(q)
      BY <1>2, <1>4
    <3>3. \A i \in 1..Placed' : i \in 1..Len(q) \/ i = Len(q) + 1
      BY <1>1, <1>8
    <3>4. \A i \in 1..Len(q) : q'[i].id = i - 1
      BY <1>4, <3>1
    <3>5. q'[Len(q) + 1].id = (Len(q) + 1) - 1
      BY <1>1, <3>2
    <3> QED BY <3>3, <3>4, <3>5
  <2>3. \A f \in queue'.files : f.id < Placed' /\ f.find = q'[f.id + 1].find
    BY <1>1, <1>4, <1>8, <1>9
  <2>4. \A i \in 1..Placed' : InWork(i)' \/ File(i - 1, q'[i].find, TRUE) \in queue'.files
    <3>1. \A i \in 1..Len(q) : File(i - 1, q[i].find, TRUE) \in queue.files
      BY <1>8 DEF DiskInv, LinkInv
    <3>2. \A i \in 1..Placed' : i \in 1..Len(q) \/ i = Len(q) + 1
      BY <1>1, <1>8
    <3>3. \A i \in 1..Len(q) : File(i - 1, q'[i].find, TRUE) \in queue'.files
      BY <1>4, <3>1
    <3> QED BY <1>8, <3>2, <3>3
  <2>5. \A i \in queue'.det : i < Placed' /\ q'[i + 1].passed_det
    <3>1. \A i \in queue.det : i \in Nat /\ i < Len(q) /\ q[i + 1].passed_det
      BY <1>8 DEF DiskInv, LinkInv, DirOK, DirSet
    <3> QED BY <1>1, <1>4, <1>8, <3>1
  <2> QED BY <2>1, <2>2, <2>3, <2>4, <2>5 DEF LinkInv
<1>11. WorkInv'
  BY <1>1, <1>3, <1>4, <1>9 DEF WorkInv
<1>12. (ClearInv /\ CoverInv)'
  <2>1. current' \in DOMAIN q' /\ \A i \in DOMAIN q' : q'[i].find \in covered'
    BY <1>1, <1>2, <1>3, <1>4, <1>5
  <2> QED BY <1>3, <2>1 DEF ClearInv, CoverInv
<1> QED BY <1>6, <1>7, <1>10, <1>11, <1>12 DEF DiskInv

LEMMA FileType ==
  ASSUME NEW id \in Nat, NEW find \in Finds, NEW b \in BOOLEAN
  PROVE  /\ File(id, find, b) \in FileSet
         /\ File(id, find, b).id = id /\ File(id, find, b).find = find
  BY DEF File, FileSet

\* The file of the n-th entry is replaced, by one that is not whole or by none
\* only if that entry is in work.
LEMMA DiskFile ==
  ASSUME DiskInv, pc \in InLoop, pc' \in InLoop, NEW n \in 1..Len(q), NEW new,
         \/ new = {}
         \/ new = {File(n - 1, q[n].find, TRUE)}
         \/ new = {File(n - 1, q[n].find, FALSE)},
         queue' = [queue EXCEPT !.files = {f \in queue.files : f.id # n - 1} \cup new],
         UNCHANGED <<resume, stats, in_place_resume, q, current, covered, k, starts, fresh>>,
         back' \in {"fuzz", "sync"},
         \A i : InWork(i) => i = n,
         InWork(n)' \/ File(n - 1, q[n].find, TRUE) \in new,
         WorkInv'
  PROVE  DiskInv'
<1> DEFINE rest == {f \in queue.files : f.id # n - 1}
<1>1. q \in Seq(EntrySet) /\ Len(q) \in Nat /\ DOMAIN q = 1..Len(q)
  BY DEF DiskInv, ProcTypes
<1>2. \A f \in new : f \in FileSet /\ f.id = n - 1 /\ f.find = q[n].find
  <2>1. n - 1 \in Nat /\ q[n].find \in Finds
    <3>1. q[n] \in EntrySet
      BY <1>1
    <3> QED BY <3>1 DEF EntrySet
  <2>2. \A b \in BOOLEAN : /\ File(n - 1, q[n].find, b) \in FileSet
                          /\ File(n - 1, q[n].find, b).id = n - 1
                          /\ File(n - 1, q[n].find, b).find = q[n].find
    BY <2>1, FileType
  <2>3. CASE new = {File(n - 1, q[n].find, TRUE)}
    BY <2>2, <2>3
  <2>4. CASE new = {File(n - 1, q[n].find, FALSE)}
    BY <2>2, <2>4
  <2> QED BY <2>3, <2>4
<1>3. IsFiniteSet(rest) /\ IsFiniteSet(rest \cup new)
  <2>1. IsFiniteSet(rest)
    BY FS_Subset DEF DiskInv, DirOK
  <2>2. CASE new = {}
    BY <2>1, <2>2
  <2>3. \A f : IsFiniteSet(rest \cup {f})
    BY <2>1, FS_AddElement
  <2> QED BY <2>1, <2>2, <2>3
<1>4. queue \in DirSet /\ queue.there /\ UniqueIds(queue.files)
  BY DEF DiskInv, LinkInv, DirOK, Linked
<1>5. /\ queue' \in DirSet /\ queue'.there
      /\ queue'.files = rest \cup new /\ queue'.det = queue.det
  BY <1>2, <1>4 DEF DirSet
<1>6. UniqueIds(rest \cup new)
  <2>1. \A f, g \in new : f = g
    OBVIOUS
  <2> QED BY <1>2, <1>4, <2>1 DEF UniqueIds
<1>7. /\ pc \in Linked /\ Placed = Len(q)
      /\ pc' \in Linked /\ Placed' = Len(q)
  BY DEF InLoop, Linked, Placed
<1>8. \A f \in queue.files : f.id \in Nat /\ f.id < Len(q) /\ f.find = q[f.id + 1].find
  BY <1>4, <1>7 DEF DiskInv, LinkInv, DirSet, FileSet
<1>9. \A f \in rest \cup new : f.id \in Nat /\ f.id < Len(q) /\ f.find = q[f.id + 1].find
  <2>1. n - 1 \in Nat /\ n - 1 < Len(q) /\ q[(n - 1) + 1] = q[n]
    BY <1>1
  <2> QED BY <1>2, <1>8, <2>1
<1>10. NoCopies(rest \cup new)
  <2>1. Once(q)
    BY DEF DiskInv, QueuedOnce, Once
  <2>2. \A f \in rest \cup new :
          f.id \in Int /\ f.id + 1 \in DOMAIN q /\ f.find = q[f.id + 1].find
    BY <1>1, <1>9
  <2> HIDE DEF rest
  <2> QED BY <1>6, <2>1, <2>2, LinkedNoCopies
<1>11. DirOK(queue)' /\ DirOK(resume)'
  <2>1. DirOK(queue')
    BY <1>3, <1>5, <1>6, <1>10, ThereOK
  <2> QED BY <2>1 DEF DiskInv
<1>12. LinkInv'
  <2>1. \A i \in 1..Placed' : q'[i].id = i - 1
    BY <1>7 DEF DiskInv, LinkInv
  <2>2. \A f \in queue'.files : f.id < Placed' /\ f.find = q'[f.id + 1].find
    BY <1>5, <1>7, <1>9
  <2>3. \A i \in 1..Placed' : InWork(i)' \/ File(i - 1, q'[i].find, TRUE) \in queue'.files
    <3> SUFFICES ASSUME NEW i \in 1..Len(q)
                 PROVE  InWork(i)' \/ File(i - 1, q[i].find, TRUE) \in queue'.files
      BY <1>7
    <3>1. CASE i = n
      BY <1>5, <3>1
    <3>2. CASE i # n
      <4>1. File(i - 1, q[i].find, TRUE) \in queue.files
        BY <1>7, <3>2 DEF DiskInv, LinkInv
      <4>2. File(i - 1, q[i].find, TRUE).id # n - 1
        BY <1>1, <3>2 DEF File
      <4> QED BY <1>5, <4>1, <4>2
    <3> QED BY <3>1, <3>2
  <2>4. \A i \in queue'.det : i < Placed' /\ q'[i + 1].passed_det
    BY <1>5, <1>7 DEF DiskInv, LinkInv
  <2>5. q' # <<>> /\ Placed' \in 0..Len(q')
    BY <1>1, <1>7 DEF DiskInv, LinkInv
  <2> QED BY <1>5, <2>1, <2>2, <2>3, <2>4, <2>5 DEF LinkInv
<1>13. ProcTypes'
  <2>1. (pc \in Steps)'
    BY <1>7 DEF Steps
  <2> QED BY <2>1 DEF DiskInv, ProcTypes
<1>14. (ClearInv /\ CoverInv /\ QueuedOnce)'
  BY DEF DiskInv, ClearInv, CoverInv, QueuedOnce, InLoop
<1> QED BY <1>11, <1>12, <1>13, <1>14 DEF DiskInv

LEMMA DiskCreate == DiskInv /\ CreateFile => DiskInv'
<1> SUFFICES ASSUME DiskInv, CreateFile PROVE DiskInv'
  OBVIOUS
<1>1. Len(q) \in Nat /\ Len(q) > 0 /\ Last(q) = q[Len(q)]
  BY DEF DiskInv, ProcTypes, LinkInv, CreateFile, Linked, InLoop, Last
<1>2. PICK n \in 1..Len(q) : n = Len(q)
  BY <1>1
<1>3. PICK new : new = {File(n - 1, q[n].find, FALSE)}
  OBVIOUS
<1>4. pc = "save" /\ pc' = "write" /\ UNCHANGED <<resume, stats, procVars, histVars>>
  BY DEF CreateFile
<1>5. queue.files = {f \in queue.files : f.id # n - 1}
  BY <1>2 DEF DiskInv, WorkInv, CreateFile
<1>6. queue' = [queue EXCEPT !.files = {f \in queue.files : f.id # n - 1} \cup new]
  BY <1>1, <1>2, <1>3, <1>5 DEF CreateFile
<1>7. (\A i : InWork(i) => i = n) /\ InWork(n)'
  BY <1>2, <1>4 DEF InWork, procVars
<1>8. WorkInv'
  <2>1. File(n - 1, q[n].find, FALSE) \in queue'.files
    BY <1>3, <1>6 DEF DiskInv, DirOK, DirSet
  <2> QED BY <1>2, <1>4, <2>1 DEF WorkInv, procVars
<1>9. /\ pc \in InLoop /\ pc' \in InLoop
      /\ UNCHANGED <<resume, stats, in_place_resume, q, current, covered, k, starts, fresh>>
      /\ back' \in {"fuzz", "sync"}
  BY <1>4 DEF procVars, histVars, InLoop, DiskInv, ProcTypes
<1> QED BY <1>3, <1>6, <1>7, <1>8, <1>9, DiskFile

LEMMA DiskWrite == DiskInv /\ WriteFile => DiskInv'
<1> SUFFICES ASSUME DiskInv, WriteFile PROVE DiskInv'
  OBVIOUS
<1>1. Len(q) \in Nat /\ Len(q) > 0 /\ Last(q) = q[Len(q)]
  BY DEF DiskInv, ProcTypes, LinkInv, WriteFile, Linked, InLoop, Last
<1>2. PICK n \in 1..Len(q) : n = Len(q)
  BY <1>1
<1>3. PICK new : new = {File(n - 1, q[n].find, TRUE)}
  OBVIOUS
<1>4. /\ pc = "write" /\ pc' \in {"fuzz", "sync"}
      /\ UNCHANGED <<resume, stats, procVars, starts, fresh>>
  BY DEF WriteFile, DiskInv, ProcTypes
<1>5. queue.files \ {File(n - 1, q[n].find, FALSE)} = {f \in queue.files : f.id # n - 1}
  <2>1. File(n - 1, q[n].find, FALSE) \in queue.files /\ UniqueIds(queue.files)
    BY <1>2, <1>4 DEF DiskInv, WorkInv, DirOK
  <2>2. File(n - 1, q[n].find, FALSE).id = n - 1
    BY DEF File
  <2> QED BY <2>1, <2>2 DEF UniqueIds
<1>6. queue' = [queue EXCEPT !.files = {f \in queue.files : f.id # n - 1} \cup new]
  BY <1>1, <1>2, <1>3, <1>5 DEF WriteFile
<1>7. \A i : InWork(i) => i = n
  BY <1>2, <1>4 DEF InWork
<1>8. WorkInv'
  BY <1>4 DEF WorkInv
<1>9. /\ pc \in InLoop /\ pc' \in InLoop
      /\ UNCHANGED <<resume, stats, in_place_resume, q, current, covered, k, starts, fresh>>
      /\ back' \in {"fuzz", "sync"}
  BY <1>4 DEF procVars, InLoop, DiskInv, ProcTypes
<1> QED BY <1>3, <1>6, <1>7, <1>8, <1>9, DiskFile

LEMMA DiskTrim == DiskInv /\ Trim => DiskInv'
<1> SUFFICES ASSUME DiskInv, Trim PROVE DiskInv'
  OBVIOUS
<1>1. /\ pc \in {"fuzz", "trim", "trim written"} /\ pc' \in {"fuzz", "trim", "trim written"}
      /\ UNCHANGED <<resume, stats, procVars, starts, fresh>>
  BY DEF Trim, histVars
<1>2. PICK n \in 1..Len(q) : n = current
  <2>1. current \in DOMAIN q /\ q \in Seq(EntrySet)
    BY <1>1 DEF DiskInv, ProcTypes, CoverInv, InLoop
  <2> QED BY <2>1
<1>3. (\A i : InWork(i) => i = n)
  BY <1>1, <1>2 DEF InWork
<1>4. /\ pc \in InLoop /\ pc' \in InLoop
      /\ UNCHANGED <<resume, stats, in_place_resume, q, current, covered, k, starts, fresh>>
      /\ back' \in {"fuzz", "sync"}
  BY <1>1 DEF procVars, InLoop, DiskInv, ProcTypes
<1>5. queue \in DirSet
  BY DEF DiskInv, DirOK
<1>6. CASE pc = "fuzz"
  <2>1. PICK new : new = {}
    OBVIOUS
  <2>2. queue' = [queue EXCEPT !.files = {f \in queue.files : f.id # n - 1} \cup new]
    BY <1>2, <1>6, <2>1 DEF Trim, Mine
  <2>3. pc' = "trim" /\ queue'.files = {f \in queue.files : f.id # n - 1}
    BY <1>5, <1>6, <2>1, <2>2 DEF Trim, DirSet
  <2>4. InWork(n)' /\ WorkInv'
    BY <1>2, <1>4, <2>3 DEF InWork, WorkInv
  <2> QED BY <1>3, <1>4, <2>1, <2>2, <2>4, DiskFile
<1>7. CASE pc = "trim"
  <2>1. PICK new : new = {File(n - 1, q[n].find, FALSE)}
    OBVIOUS
  <2>2. queue.files = {f \in queue.files : f.id # n - 1}
    BY <1>2, <1>7 DEF DiskInv, WorkInv
  <2>3. queue' = [queue EXCEPT !.files = {f \in queue.files : f.id # n - 1} \cup new]
    BY <1>2, <1>7, <2>1, <2>2 DEF Trim
  <2>4. pc' = "trim written" /\ File(n - 1, q[n].find, FALSE) \in queue'.files
    BY <1>5, <1>7, <2>1, <2>3 DEF Trim, DirSet
  <2>5. InWork(n)' /\ WorkInv'
    BY <1>2, <1>4, <2>4 DEF InWork, WorkInv
  <2> QED BY <1>3, <1>4, <2>1, <2>3, <2>5, DiskFile
<1>8. CASE pc = "trim written"
  <2>1. PICK new : new = {File(n - 1, q[n].find, TRUE)}
    OBVIOUS
  <2>2. queue' = [queue EXCEPT !.files = {f \in queue.files : f.id # n - 1} \cup new]
    BY <1>2, <1>8, <2>1 DEF Trim, Mine
  <2>3. WorkInv'
    BY <1>8 DEF Trim, WorkInv
  <2> QED BY <1>3, <1>4, <2>1, <2>2, <2>3, DiskFile
<1> QED BY <1>1, <1>6, <1>7, <1>8

\* The mark of the current entry, in memory and on disk.
LEMMA Marked ==
  ASSUME DiskInv, mark_as_det_done
  PROVE  /\ q' \in Seq(EntrySet) /\ Len(q') = Len(q) /\ q'[current].passed_det = TRUE
         /\ \A i \in 1..Len(q) : /\ q'[i].id = q[i].id /\ q'[i].find = q[i].find
                                 /\ i # current => q'[i] = q[i]
<1>1. /\ q \in Seq(EntrySet) /\ Len(q) \in Nat /\ DOMAIN q = 1..Len(q)
      /\ current \in 1..Len(q)
  BY DEF mark_as_det_done, DiskInv, ProcTypes, CoverInv, InLoop
<1>2. q' = [q EXCEPT ![current] = [q[current] EXCEPT !.passed_det = TRUE]]
  BY <1>1 DEF mark_as_det_done
<1>3. q[current] \in EntrySet
  BY <1>1
<1>4. [q[current] EXCEPT !.passed_det = TRUE] \in EntrySet
  BY <1>3 DEF EntrySet
<1>5. q' \in Seq(EntrySet) /\ Len(q') = Len(q)
  BY <1>1, <1>2, <1>4
<1>6. q'[current] = [q[current] EXCEPT !.passed_det = TRUE]
  BY <1>1, <1>2
<1>7. /\ q'[current].passed_det = TRUE /\ q'[current].id = q[current].id
      /\ q'[current].find = q[current].find
  BY <1>3, <1>6 DEF EntrySet
<1>8. \A i \in 1..Len(q) : i # current => q'[i] = q[i]
  BY <1>1, <1>2
<1> QED BY <1>5, <1>7, <1>8

LEMMA DiskMark == DiskInv /\ mark_as_det_done => DiskInv'
<1> SUFFICES ASSUME DiskInv, mark_as_det_done PROVE DiskInv'
  OBVIOUS
<1>1. /\ pc = "fuzz" /\ pc' = "fuzz"
      /\ UNCHANGED <<resume, stats, back, in_place_resume, current, covered, k, starts, fresh>>
  BY DEF mark_as_det_done, histVars
<1>2. /\ q \in Seq(EntrySet) /\ Len(q) \in Nat /\ DOMAIN q = 1..Len(q) /\ q # <<>>
      /\ current \in 1..Len(q)
  BY <1>1 DEF DiskInv, ProcTypes, CoverInv, InLoop, LinkInv, Linked
<1>3. /\ q' \in Seq(EntrySet) /\ Len(q') = Len(q) /\ q'[current].passed_det = TRUE
      /\ \A i \in 1..Len(q) : /\ q'[i].id = q[i].id /\ q'[i].find = q[i].find
                              /\ i # current => q'[i] = q[i]
  BY Marked
<1>4. queue \in DirSet /\ queue.there /\ \A i \in queue.det : i \in Nat
  BY <1>1 DEF DiskInv, DirOK, LinkInv, Linked, InLoop, DirSet
<1>5. /\ queue' \in DirSet /\ queue'.there /\ queue'.files = queue.files
      /\ queue'.det = queue.det \cup {current - 1}
  <2>1. current - 1 \in Nat
    BY <1>2
  <2> QED BY <1>4, <2>1 DEF mark_as_det_done, DirSet
<1>6. ProcTypes'
  BY <1>1, <1>3 DEF DiskInv, ProcTypes
<1>7. (DirOK(queue) /\ DirOK(resume))'
  <2>1. DirOK(queue')
    BY <1>5, ThereOK DEF DiskInv, DirOK
  <2> QED BY <1>1, <2>1 DEF DiskInv
<1>8. /\ Placed = Len(q) /\ Placed' = Len(q) /\ \A i : ~InWork(i)
      /\ pc \in Linked /\ pc' \in Linked
  BY <1>1, <1>3 DEF Placed, InWork, Linked, InLoop
<1>9. LinkInv'
  <2>1. \A i \in 1..Placed' : q'[i].id = i - 1
    BY <1>3, <1>8 DEF DiskInv, LinkInv
  <2>2. \A f \in queue'.files : f.id < Placed' /\ f.find = q'[f.id + 1].find
    <3>1. \A f \in queue.files : f.id \in Nat /\ f.id < Len(q) /\ f.find = q[f.id + 1].find
      BY <1>4, <1>8 DEF DiskInv, LinkInv, DirSet, FileSet
    <3> QED BY <1>2, <1>3, <1>5, <1>8, <3>1
  <2>3. \A i \in 1..Placed' : File(i - 1, q'[i].find, TRUE) \in queue'.files
    BY <1>3, <1>5, <1>8 DEF DiskInv, LinkInv
  <2>4. \A i \in queue'.det : i < Placed' /\ q'[i + 1].passed_det
    <3>1. \A i \in queue.det : i \in Nat /\ i < Len(q) /\ q[i + 1].passed_det
      BY <1>4, <1>8 DEF DiskInv, LinkInv
    <3>2. \A i \in queue.det : q'[i + 1].passed_det
      BY <1>2, <1>3, <3>1
    <3>3. current - 1 < Len(q) /\ q'[(current - 1) + 1].passed_det
      BY <1>2, <1>3
    <3> QED BY <1>5, <1>8, <3>1, <3>2, <3>3
  <2>5. q' # <<>> /\ Placed' \in 0..Len(q')
    BY <1>2, <1>3, <1>8
  <2> QED BY <1>5, <2>1, <2>2, <2>3, <2>4, <2>5 DEF LinkInv
<1>10. (ClearInv /\ WorkInv)'
  BY <1>1 DEF ClearInv, WorkInv
<1>11. (CoverInv /\ QueuedOnce)'
  <2>1. DOMAIN q' = 1..Len(q)
    BY <1>3
  <2>2. CoverInv'
    BY <1>1, <1>2, <1>3, <2>1 DEF DiskInv, CoverInv, InLoop
  <2>3. QueuedOnce'
    BY <1>2, <1>3, <2>1 DEF DiskInv, QueuedOnce
  <2> QED BY <2>2, <2>3
<1> QED BY <1>6, <1>7, <1>9, <1>10, <1>11 DEF DiskInv

LEMMA DiskDiscover ==
  ASSUME DiskInv, NEW find \in Finds, Discover(find)
  PROVE  DiskInv'
<1>1. /\ pc = "fuzz" /\ find \notin covered /\ Add(find) /\ back' = "fuzz"
      /\ UNCHANGED <<queue, resume, stats, in_place_resume, current, k, starts, fresh>>
  BY DEF Discover, diskVars, histVars
<1> QED BY <1>1, DiskAdd

\* Peers' files are like one's own.
PeerTypes == peer \subseteq FileSet

LEMMA DiskSync == DiskInv /\ PeerTypes /\ SyncRun => DiskInv'
<1> SUFFICES ASSUME DiskInv, PeerTypes, SyncRun PROVE DiskInv'
  OBVIOUS
<1>1. PICK f \in Unvisited : IF f.find \in covered THEN UNCHANGED <<q, covered, pc>> ELSE Add(f.find)
  BY DEF SyncRun
<1>2. f.find \in Finds
  BY DEF Unvisited, PeerTypes, FileSet
<1>3. /\ pc = "sync" /\ back' \in {"fuzz", "sync"}
      /\ UNCHANGED <<queue, resume, stats, in_place_resume, current, k, starts, fresh>>
  BY DEF SyncRun, diskVars
<1>4. CASE f.find \notin covered
  BY <1>1, <1>2, <1>3, <1>4, DiskAdd
<1>5. CASE f.find \in covered
  <2>1. UNCHANGED <<q, covered, pc>>
    BY <1>1, <1>5
  <2>2. /\ current \in Nat \ {0} /\ stats \in Nat \cup {TornStats} /\ DirOK(resume)
        /\ current \in DOMAIN q /\ \A i \in DOMAIN q : q[i].find \in covered
    BY <1>3 DEF DiskInv, ProcTypes, CoverInv, InLoop
  <2> QED BY <1>3, <2>1, <2>2, DiskQuiet DEF Calm
<1> QED BY <1>4, <1>5

LEMMA DiskCrash == DiskInv /\ Crash => DiskInv'
  BY DiskOver DEF Crash, diskVars, DiskInv, ProcTypes

\* Every step keeps the queue and its files.
LEMMA DiskStep == DiskInv /\ PeerTypes /\ [Next]_vars => DiskInv'
<1> SUFFICES ASSUME DiskInv, PeerTypes, [Next]_vars PROVE DiskInv'
  OBVIOUS
<1>1. CASE Setup
  BY <1>1, DiskStart, DiskCheck, DiskClean, DiskRead, DiskPivot, DiskCalm DEF Setup
<1>2. CASE Fuzz
  BY <1>2, DiskDiscover, DiskCreate, DiskWrite, DiskMark, DiskTrim, DiskCalm DEF Fuzz
<1>3. CASE Sync
  BY <1>3, DiskSync, DiskCalm DEF Sync
<1>4. CASE PeerCreates \/ PeerWrites
  BY <1>4, DiskSame DEF PeerCreates, PeerWrites, procVars, histVars
<1>5. CASE Crash
  BY <1>5, DiskCrash
<1>6. CASE UNCHANGED vars
  BY <1>6, DiskSame DEF vars, diskVars, procVars, histVars
<1> QED BY <1>1, <1>2, <1>3, <1>4, <1>5, <1>6 DEF Next

-----------------------------------------------------------------------------
(* The other fuzzer's queue. *)

InSync == pc = "sync" \/ (pc \in {"save", "write"} /\ back = "sync")

\* The peer numbers its files without a gap.
PeerFilesInv ==
  /\ peer \subseteq FileSet
  /\ IsFiniteSet(peer)
  /\ UniqueIds(peer)
  /\ \A f \in peer : f.id < Cardinality(peer)

\* While a directory is read, what has been passed has been dealt with, and
\* the marker will not pass a file that is still to come.
ScanInv ==
  /\ marker \in Nat /\ marker <= Cardinality(peer)
  /\ InSync => /\ scan \in ScanSet
               /\ scan.from = marker
               /\ scan.next <= Cardinality(peer)
               /\ scan.seen \subseteq dealt

PeerInv == PeerFilesInv /\ ScanInv /\ MarkerHonest

LEMMA PeerInit == Init => PeerInv
<1> SUFFICES ASSUME Init PROVE PeerInv
  OBVIOUS
<1>1. IsFiniteSet(peer) /\ Cardinality(peer) = 0
  BY FS_EmptySet DEF Init
<1>2. PeerFilesInv
  BY <1>1 DEF Init, PeerFilesInv, UniqueIds
<1>3. ScanInv /\ MarkerHonest
  BY <1>1 DEF Init, ScanInv, MarkerHonest, InSync
<1> QED BY <1>2, <1>3 DEF PeerInv

\* The steps that neither read nor fill the other queue.
Elsewhere ==
  /\ UNCHANGED <<peer, marker, dealt>>
  /\ InSync' => InSync /\ UNCHANGED scan

LEMMA PeerElsewhere == PeerInv /\ Elsewhere => PeerInv'
  BY DEF PeerInv, PeerFilesInv, ScanInv, MarkerHonest, Elsewhere

LEMMA ElsewhereOver == Over /\ UNCHANGED <<peer, marker, dealt>> => Elsewhere
  BY DEF Over, Elsewhere, InSync

LEMMA ElsewhereSetup == Setup /\ ~DropSession => Elsewhere
<1> SUFFICES ASSUME Setup, ~DropSession PROVE Elsewhere
  OBVIOUS
<1>1. ASSUME NEW in_place \in BOOLEAN, Start(in_place) PROVE Elsewhere
  BY <1>1 DEF Start, diskVars, Elsewhere, InSync
<1>2. CASE CheckStats
  BY <1>2, ElsewhereOver DEF CheckStats, FATAL, diskVars, procVars, histVars, Elsewhere, InSync
<1>3. CASE MoveQueue
  BY <1>3 DEF MoveQueue, procVars, histVars, Elsewhere, InSync
<1>4. CASE CleanQueue
  BY <1>4 DEF CleanQueue, procVars, histVars, Elsewhere, InSync
<1>5. ASSUME NEW kind \in Kinds, CleanSamples(kind) PROVE Elsewhere
  BY <1>5 DEF CleanSamples, procVars, histVars, Elsewhere, InSync
<1>6. CASE CleanRest \/ MakeDirs
  BY <1>6 DEF CleanRest, MakeDirs, procVars, histVars, Elsewhere, InSync
<1>7. CASE ReadTestcases
  BY <1>7, ReadOutcome, ElsewhereOver DEF FATAL, diskVars, histVars, Elsewhere, InSync
<1>8. CASE PivotInput \/ PivotDone
  BY <1>8 DEF PivotInput, PivotDone, diskVars, procVars, histVars, Elsewhere, InSync
<1>9. CASE nuke_resume_dir \/ Begin
  BY <1>9 DEF nuke_resume_dir, Begin, diskVars, procVars, histVars, Elsewhere, InSync
<1> QED BY <1>1, <1>2, <1>3, <1>4, <1>5, <1>6, <1>7, <1>8, <1>9 DEF Setup

LEMMA ElsewhereFuzz == Fuzz => Elsewhere
<1> SUFFICES ASSUME Fuzz PROVE Elsewhere
  OBVIOUS
<1> USE DEF Elsewhere, InSync, diskVars, procVars, histVars
<1>1. CASE TruncateStats
  BY <1>1 DEF TruncateStats
<1>2. CASE WriteStats
  BY <1>2, ElsewhereOver DEF WriteStats
<1>3. ASSUME NEW find \in Finds, Discover(find) PROVE Elsewhere
  BY <1>3 DEF Discover, Add
<1>4. ASSUME NEW kind \in Kinds, NEW bug \in Bugs, SaveSample(kind, bug) PROVE Elsewhere
  BY <1>4 DEF SaveSample
<1>5. CASE CreateFile
  BY <1>5 DEF CreateFile
<1>6. CASE WriteFile
  BY <1>6 DEF WriteFile
<1>7. CASE mark_as_det_done
  BY <1>7 DEF mark_as_det_done
<1>8. CASE Trim
  BY <1>8 DEF Trim
<1>9. CASE NextEntry \/ Stop
  BY <1>9 DEF NextEntry, Stop
<1> QED BY <1>1, <1>2, <1>3, <1>4, <1>5, <1>6, <1>7, <1>8, <1>9 DEF Fuzz

\* The peer's next file has a name of its own, beyond the marker.
LEMMA PeerGrows ==
  ASSUME PeerInv, NEW find \in Finds,
         peer' = peer \cup {File(Cardinality(peer), find, FALSE)},
         UNCHANGED <<marker, pc, back, scan, dealt>>
  PROVE  PeerInv'
<1> DEFINE new == File(Cardinality(peer), find, FALSE)
<1>1. IsFiniteSet(peer) /\ Cardinality(peer) \in Nat
  BY FS_CardinalityType DEF PeerInv, PeerFilesInv
<1>2. new \in FileSet /\ new.id = Cardinality(peer)
  BY <1>1, FileType
<1> HIDE DEF new
<1>3. \A f \in peer : f.id \in Nat /\ f.id < Cardinality(peer) /\ f.id # new.id
  BY <1>1, <1>2 DEF PeerInv, PeerFilesInv, FileSet
<1>4. new \notin peer
  BY <1>3
<1>5. peer' = peer \cup {new}
  BY DEF new
<1>6. IsFiniteSet(peer') /\ Cardinality(peer') = Cardinality(peer) + 1
  <2>1. /\ IsFiniteSet(peer \cup {new})
        /\ Cardinality(peer \cup {new}) = Cardinality(peer) + 1
    BY <1>1, <1>4, FS_AddElement
  <2> QED BY <1>5, <2>1
<1>7. PeerFilesInv'
  <2>1. \A f \in peer' : f.id < Cardinality(peer')
    <3>1. \A f \in peer : f.id < Cardinality(peer) + 1
      BY <1>1, <1>3
    <3>2. new.id < Cardinality(peer) + 1
      BY <1>1, <1>2
    <3> QED BY <1>5, <1>6, <3>1, <3>2
  <2>2. UniqueIds(peer')
    BY <1>3, <1>5 DEF PeerInv, PeerFilesInv, UniqueIds
  <2> QED BY <1>2, <1>5, <1>6, <2>1, <2>2 DEF PeerInv, PeerFilesInv
<1>8. ScanInv'
  BY <1>1, <1>6 DEF PeerInv, ScanInv, ScanSet, InSync
<1>9. MarkerHonest'
  <2>1. ~(new.id < marker)
    BY <1>1, <1>2 DEF PeerInv, ScanInv
  <2> QED BY <1>5, <2>1 DEF PeerInv, MarkerHonest
<1> QED BY <1>7, <1>8, <1>9 DEF PeerInv

LEMMA PeerCompletes == PeerInv /\ PeerWrites => PeerInv'
<1> SUFFICES ASSUME PeerInv, PeerWrites PROVE PeerInv'
  OBVIOUS
<1>1. PICK f \in peer : peer' = (peer \ {f}) \cup {[f EXCEPT !.whole = TRUE]}
  BY DEF PeerWrites
<1>2. UNCHANGED <<marker, pc, back, scan, dealt>>
  BY DEF PeerWrites, procVars, histVars
<1>3. PICK g : g = [f EXCEPT !.whole = TRUE]
  OBVIOUS
<1>4. g \in FileSet /\ g.id = f.id
  BY <1>3 DEF PeerInv, PeerFilesInv, FileSet
<1>5. g \notin peer \ {f}
  BY <1>4 DEF PeerInv, PeerFilesInv, UniqueIds
<1>6. peer' = (peer \ {f}) \cup {g}
  BY <1>1, <1>3
<1>7. IsFiniteSet(peer') /\ Cardinality(peer') = Cardinality(peer)
  <2>1. IsFiniteSet(peer) /\ Cardinality(peer) \in Nat
    BY FS_CardinalityType DEF PeerInv, PeerFilesInv
  <2>2. IsFiniteSet(peer \ {f}) /\ Cardinality(peer \ {f}) = Cardinality(peer) - 1
    BY <2>1, FS_RemoveElement
  <2>3. /\ IsFiniteSet((peer \ {f}) \cup {g})
        /\ Cardinality((peer \ {f}) \cup {g}) = Cardinality(peer \ {f}) + 1
    BY <1>5, <2>2, FS_AddElement
  <2> QED BY <1>6, <2>1, <2>2, <2>3
<1>8. PeerFilesInv'
  <2>1. peer' \subseteq FileSet
    BY <1>4, <1>6 DEF PeerInv, PeerFilesInv
  <2>2. UniqueIds(peer')
    BY <1>4, <1>6 DEF PeerInv, PeerFilesInv, UniqueIds
  <2>3. \A h \in peer' : h.id < Cardinality(peer')
    BY <1>4, <1>6, <1>7 DEF PeerInv, PeerFilesInv
  <2> QED BY <1>7, <2>1, <2>2, <2>3 DEF PeerFilesInv
<1>9. ScanInv'
  BY <1>2, <1>7 DEF PeerInv, ScanInv, InSync
<1>10. MarkerHonest'
  BY <1>2, <1>4, <1>6 DEF PeerInv, MarkerHonest
<1> QED BY <1>8, <1>9, <1>10 DEF PeerInv

LEMMA PeerForgets == PeerInv /\ DropSession => PeerInv'
<1> SUFFICES ASSUME PeerInv, DropSession PROVE PeerInv'
  OBVIOUS
<1>1. peer' = peer /\ marker' = 0 /\ pc' = "clean"
  BY DEF DropSession
<1>2. PeerFilesInv'
  BY <1>1 DEF PeerInv, PeerFilesInv
<1>3. Cardinality(peer) \in Nat
  BY FS_CardinalityType DEF PeerInv, PeerFilesInv
<1>4. ScanInv'
  BY <1>1, <1>3 DEF ScanInv, InSync
<1>5. MarkerHonest'
  BY <1>1 DEF PeerInv, PeerFilesInv, FileSet, MarkerHonest
<1> QED BY <1>2, <1>4, <1>5 DEF PeerInv

LEMMA PeerOpen == PeerInv /\ SyncOpen => PeerInv'
<1> SUFFICES ASSUME PeerInv, SyncOpen PROVE PeerInv'
  OBVIOUS
<1>1. UNCHANGED <<peer, marker, dealt>>
  BY DEF SyncOpen, diskVars, histVars
<1>2. {f.id : f \in {g \in peer : g.id >= marker}} \subseteq Nat
  BY DEF PeerInv, PeerFilesInv, FileSet
<1>3. scan' \in ScanSet /\ scan'.from = marker /\ scan'.next = marker /\ scan'.seen = {}
  BY <1>2 DEF SyncOpen, ScanSet, PeerInv, ScanInv
<1> QED BY <1>1, <1>3 DEF PeerInv, PeerFilesInv, ScanInv, MarkerHonest

\* A file of the other queue is passed.
LEMMA PeerMeets ==
  ASSUME PeerInv, pc = "sync", NEW f \in Unvisited, scan' = Met(f),
         dealt' = dealt \cup {f.id}, UNCHANGED <<peer, marker>>
  PROVE  PeerInv'
<1>1. f \in FileSet /\ f.id < Cardinality(peer) /\ Cardinality(peer) \in Nat
  BY FS_CardinalityType DEF Unvisited, PeerInv, PeerFilesInv
<1>2. scan \in ScanSet /\ scan.from = marker /\ scan.next <= Cardinality(peer)
      /\ scan.seen \subseteq dealt
  BY DEF PeerInv, ScanInv, InSync
<1>3. /\ scan' \in ScanSet /\ scan'.from = marker
      /\ scan'.next = (IF f.id >= scan.next THEN f.id + 1 ELSE scan.next)
      /\ scan'.seen = scan.seen \cup {f.id}
  <2>1. PICK next : next = IF f.id >= scan.next THEN f.id + 1 ELSE scan.next
    OBVIOUS
  <2>2. next \in Nat /\ f.id \in Nat
    BY <1>1, <1>2, <2>1 DEF ScanSet, FileSet
  <2>3. PICK seen : seen = scan.seen \cup {f.id}
    OBVIOUS
  <2>4. seen \subseteq Nat
    BY <1>2, <2>2, <2>3 DEF ScanSet
  <2>5. scan' = [scan EXCEPT !.next = next, !.seen = seen]
    BY <1>2, <2>1, <2>3 DEF Met, ScanSet
  <2>6. /\ scan' \in ScanSet /\ scan'.from = scan.from
        /\ scan'.next = next /\ scan'.seen = seen
    BY <1>2, <2>2, <2>4, <2>5 DEF ScanSet
  <2> QED BY <1>2, <2>1, <2>3, <2>6
<1>4. scan'.next <= Cardinality(peer)
  BY <1>1, <1>2, <1>3 DEF FileSet, ScanSet
<1>5. ScanInv'
  BY <1>2, <1>3, <1>4 DEF PeerInv, ScanInv
<1>6. PeerFilesInv' /\ MarkerHonest'
  BY DEF PeerInv, PeerFilesInv, MarkerHonest
<1> QED BY <1>5, <1>6 DEF PeerInv

LEMMA PeerEnd == PeerInv /\ SyncEnd => PeerInv'
<1> SUFFICES ASSUME PeerInv, SyncEnd PROVE PeerInv'
  OBVIOUS
<1>1. /\ peer' = peer /\ marker' = scan.next /\ pc' = "fuzz"
      /\ dealt' = dealt \cup {f.id : f \in {g \in Unvisited : g.id \notin scan.due}}
  BY DEF SyncEnd
<1>2. scan \in ScanSet /\ scan.from = marker /\ scan.next <= Cardinality(peer)
      /\ scan.seen \subseteq dealt /\ scan.due \subseteq scan.seen
  BY DEF PeerInv, ScanInv, InSync, SyncEnd
<1>3. PeerFilesInv' /\ ScanInv'
  BY <1>1, <1>2 DEF PeerInv, PeerFilesInv, ScanInv, InSync, ScanSet
<1>4. MarkerHonest'
  <2> SUFFICES ASSUME NEW f \in peer PROVE f.id \in dealt'
    BY <1>1 DEF MarkerHonest
  <2>1. f.id \in Nat /\ marker \in Nat
    BY DEF PeerInv, PeerFilesInv, ScanInv, FileSet
  <2>2. CASE f.id < marker
    BY <1>1, <2>2 DEF PeerInv, MarkerHonest
  <2>3. CASE f.id \in scan.seen
    BY <1>1, <1>2, <2>3
  <2>4. CASE f.id >= marker /\ f.id \notin scan.seen
    <3>1. f \in Unvisited /\ f.id \notin scan.due
      BY <1>2, <2>4 DEF Unvisited
    <3> QED BY <1>1, <3>1
  <2> QED BY <2>1, <2>2, <2>3, <2>4
<1> QED BY <1>3, <1>4 DEF PeerInv

LEMMA PeerStep == PeerInv /\ [Next]_vars => PeerInv'
<1> SUFFICES ASSUME PeerInv, [Next]_vars PROVE PeerInv'
  OBVIOUS
<1>1. CASE Setup
  BY <1>1, ElsewhereSetup, PeerElsewhere, PeerForgets
<1>2. CASE Fuzz
  BY <1>2, ElsewhereFuzz, PeerElsewhere
<1>3. CASE Sync
  <2>1. CASE SyncPass
    BY <2>1, PeerMeets DEF SyncPass, diskVars
  <2>2. CASE SyncRun
    BY <2>2, PeerMeets DEF SyncRun, diskVars
  <2>3. CASE SyncStops
    <3>1. Elsewhere
      BY <2>3 DEF SyncStops, diskVars, histVars, Elsewhere, InSync
    <3> QED BY <3>1, PeerElsewhere
  <2> QED BY <1>3, <2>1, <2>2, <2>3, PeerOpen, PeerEnd DEF Sync
<1>4. CASE PeerCreates
  BY <1>4, PeerGrows DEF PeerCreates, procVars, histVars
<1>5. CASE PeerWrites
  BY <1>5, PeerCompletes
<1>6. CASE Crash
  BY <1>6, ElsewhereOver, PeerElsewhere DEF Crash, diskVars
<1>7. CASE UNCHANGED vars
  <2>1. Elsewhere
    BY <1>7 DEF vars, diskVars, procVars, histVars, Elsewhere, InSync
  <2> QED BY <2>1, PeerElsewhere
<1> QED BY <1>1, <1>2, <1>3, <1>4, <1>5, <1>6, <1>7 DEF Next

\* What the files on disk and the process keep gives the session's invariant; the
\* statistics may be torn.
LEMMA DiskImpliesSession == DiskInv => SessionInv
<1> SUFFICES ASSUME DiskInv PROVE SessionInv
  OBVIOUS
<1>1. stats \in Nat \cup {TornStats}
  BY DEF DiskInv, ProcTypes
<1>2. \A dir \in {queue, resume} : \A f, g \in dir.files : f.id = g.id => f = g
  BY DEF DiskInv, DirOK, UniqueIds
<1>3. ASSUME pc \in {"fuzz", "sync", "save", "write", "trim", "trim written"}
      PROVE  /\ current \in DOMAIN q
             /\ \A i \in DOMAIN q : q[i].id = i - 1
             /\ \A i \in queue.det : q[i + 1].passed_det
  <2>1. pc \in InLoop /\ pc \in Linked /\ Placed = Len(q)
    BY <1>3 DEF InLoop, Linked, Placed
  <2>2. DOMAIN q = 1..Len(q)
    BY DEF DiskInv, ProcTypes
  <2> QED BY <2>1, <2>2 DEF DiskInv, LinkInv, CoverInv
<1> QED BY <1>1, <1>2, <1>3 DEF SessionInv

LEMMA SpecDisk == Spec => [](DiskInv /\ PeerInv)
<1>1. Init => DiskInv /\ PeerInv
  BY DiskInit, PeerInit
<1>2. DiskInv /\ PeerInv /\ [Next]_vars => (DiskInv /\ PeerInv)'
  BY DiskStep, PeerStep DEF PeerInv, PeerFilesInv, PeerTypes
<1> QED BY <1>1, <1>2, PTL DEF Spec

\* Whatever crashes leave, test cases have ids of their own, and while a session
\* runs its entries have their places and marks and the current one exists.
THEOREM SessionCorrect == Spec => []SessionInv
  BY SpecDisk, DiskImpliesSession, PTL

\* add_to_queue never queues a test case again, whether it was found, imported,
\* imported again after a stop before the marker was written, or resumed.
THEOREM QueuedAtMostOnce == Spec => []QueuedOnce
<1>1. DiskInv => QueuedOnce
  BY DEF DiskInv
<1> QED BY <1>1, SpecDisk, PTL

\* sync_fuzzers' marker passes no file of the other fuzzer that was complete
\* when the directory was read and has not been run.
THEOREM MarkerIsHonest == Spec => []MarkerHonest
<1>1. PeerInv => MarkerHonest
  BY DEF PeerInv
<1> QED BY <1>1, SpecDisk, PTL

-----------------------------------------------------------------------------
(* What has been found is not lost. *)

\* maybe_delete_out_dir moves queue/ in the place of such a _resume/.
Idle == resume.files = {} /\ ~resume.state

FirstEntries(n) == {q[i].find : i \in 1..n}

\* How many entries were found before the one whose file is being written.
Kept == IF pc \in {"save", "write"} THEN Len(q) - 1 ELSE Len(q)

\* Where the test cases are, step by step.
LossInv ==
  /\ starts = 0 => pc = "off" /\ resume = NoDir /\ found = {}
  /\ fresh <= 1 /\ (starts > 0 => fresh = 1)
  /\ pc # "off" /\ ~in_place_resume => resume = NoDir
  /\ pc \in {"off", "check", "move"} => found \subseteq Whole(IF Idle THEN queue ELSE resume)
  /\ pc \in {"clean", "samples", "dirs", "read"} => found \subseteq Whole(resume)
  /\ pc = "pivot" /\ in_place_resume =>
       found \subseteq Whole(resume) /\ Whole(resume) = FirstEntries(Len(q))
  /\ pc = "pivot" /\ ~in_place_resume => found \subseteq FirstEntries(k - 1)
  /\ pc \in Linked => found \subseteq FirstEntries(Kept)
  /\ pc \in Linked \ {"nuke"} => resume = NoDir

\* A crash or hang stays until a new session has begun.
SamplesInv == SamplesKept /\ (pc \in {"clean", "samples"} /\ ~in_place_resume => kept = {})

LEMMA SamplesInit == Init => SamplesInv
  BY DEF Init, SamplesInv, SamplesKept

LEMMA SamplesOver == SamplesInv /\ Over /\ UNCHANGED <<samples, backups, kept>> => SamplesInv'
  BY DEF SamplesInv, SamplesKept, Over

LEMMA SamplesStep == DiskInv /\ SamplesInv /\ [Next]_vars => SamplesInv'
<1> SUFFICES ASSUME DiskInv, SamplesInv, [Next]_vars PROVE SamplesInv'
  OBVIOUS
<1> USE DEF SamplesInv, SamplesKept, diskVars, procVars, histVars
<1>1. CASE Setup
  <2>1. ASSUME NEW in_place \in BOOLEAN, Start(in_place) PROVE SamplesInv'
    BY <2>1 DEF Start
  <2>2. CASE CheckStats
    BY <2>2, SamplesOver DEF CheckStats, FATAL
  <2>3. CASE MoveQueue \/ DropSession
    BY <2>3 DEF MoveQueue, DropSession
  <2>4. CASE CleanQueue
    BY <2>4 DEF CleanQueue
  <2>5. ASSUME NEW kind \in Kinds, CleanSamples(kind) PROVE SamplesInv'
    BY <2>5 DEF CleanSamples
  <2>6. CASE CleanRest \/ MakeDirs
    BY <2>6 DEF CleanRest, MakeDirs
  <2>7. CASE ReadTestcases
    BY <2>7, ReadOutcome, SamplesOver DEF FATAL
  <2>8. CASE PivotInput \/ PivotDone \/ nuke_resume_dir \/ Begin
    BY <2>8 DEF PivotInput, PivotDone, nuke_resume_dir, Begin
  <2> QED BY <1>1, <2>1, <2>2, <2>3, <2>4, <2>5, <2>6, <2>7, <2>8 DEF Setup
<1>2. CASE Fuzz
  <2>1. CASE TruncateStats \/ NextEntry \/ Stop
    BY <2>1 DEF TruncateStats, NextEntry, Stop
  <2>2. CASE WriteStats
    BY <2>2, SamplesOver DEF WriteStats
  <2>3. ASSUME NEW find \in Finds, Discover(find) PROVE SamplesInv'
    BY <2>3 DEF Discover, Add
  <2>4. ASSUME NEW kind \in Kinds, NEW bug \in Bugs, SaveSample(kind, bug) PROVE SamplesInv'
    BY <2>4 DEF SaveSample
  <2>5. CASE CreateFile \/ mark_as_det_done
    BY <2>5 DEF CreateFile, mark_as_det_done
  <2>6. CASE WriteFile
    <3>1. back \in {"fuzz", "sync"}
      BY DEF DiskInv, ProcTypes
    <3> QED BY <2>6, <3>1 DEF WriteFile
  <2>7. CASE Trim
    BY <2>7 DEF Trim
  <2> QED BY <1>2, <2>1, <2>2, <2>3, <2>4, <2>5, <2>6, <2>7 DEF Fuzz
<1>3. CASE Sync
  BY <1>3 DEF Sync, SyncOpen, SyncPass, SyncRun, Add, SyncStops, SyncEnd
<1>4. CASE PeerCreates \/ PeerWrites
  BY <1>4 DEF PeerCreates, PeerWrites
<1>5. CASE Crash
  BY <1>5, SamplesOver DEF Crash
<1>6. CASE UNCHANGED vars
  BY <1>6 DEF vars
<1> QED BY <1>1, <1>2, <1>3, <1>4, <1>5, <1>6 DEF Next

\* An empty _resume/ holds nothing.
LEMMA IdleHoldsNothing == Idle => Whole(resume) = {}
  BY DEF Idle, Whole

LEMMA NoDirIdle == resume = NoDir => Idle
  BY DEF NoDir, Idle

\* The entries that are not in work are whole on disk.
LEMMA EntriesOnDisk ==
  ASSUME DiskInv, pc \in Linked \cup {"pivot"}, NEW i \in 1..Placed, ~InWork(i)
  PROVE  q[i].find \in Whole(queue)
<1>1. File(i - 1, q[i].find, TRUE) \in queue.files
  BY DEF DiskInv, LinkInv
<1>2. /\ File(i - 1, q[i].find, TRUE).whole
      /\ File(i - 1, q[i].find, TRUE).find = q[i].find
  BY DEF File
<1> QED BY <1>1, <1>2 DEF Whole

LEMMA NotTheLast ==
  ASSUME NEW n \in Nat, NEW i \in 1..(n - 1)
  PROVE  i \in 1..n /\ i # n
  OBVIOUS

\* What a crash leaves where the next start looks for it.
LEMMA LossAtRest ==
  ASSUME DiskInv, LossInv, pc # "nuke"
  PROVE  (IF pc \in {"trim", "trim written"} THEN found \ {q[current].find} ELSE found)
           \subseteq Whole(IF Idle THEN queue ELSE resume)
<1>1. CASE pc \in {"off", "check", "move"}
  BY <1>1 DEF LossInv
<1>2. CASE pc \in {"clean", "samples", "dirs", "read"} \/ (pc = "pivot" /\ in_place_resume)
  <2>1. found \subseteq Whole(resume) /\ pc \notin {"trim", "trim written"}
    BY <1>2 DEF LossInv
  <2> QED BY <2>1, IdleHoldsNothing
<1>3. CASE pc = "pivot" /\ ~in_place_resume
  <2>1. Idle /\ found \subseteq FirstEntries(k - 1)
    BY <1>3, NoDirIdle DEF LossInv
  <2>2. Placed = k - 1 /\ \A i : ~InWork(i)
    BY <1>3 DEF Placed, InWork
  <2>3. \A i \in 1..(k - 1) : q[i].find \in Whole(queue)
    BY <1>3, <2>2, EntriesOnDisk
  <2> QED BY <1>3, <2>1, <2>3 DEF FirstEntries
<1>4. CASE pc \in Linked \ {"nuke"}
  <2>1. Idle /\ found \subseteq FirstEntries(Kept)
    BY <1>4, NoDirIdle DEF LossInv
  <2>2. Placed = Len(q) /\ Len(q) \in Nat
    <3>1. q \in Seq(EntrySet) /\ pc # "pivot"
      BY <1>4 DEF DiskInv, ProcTypes, Linked, InLoop
    <3> QED BY <3>1 DEF Placed
  <2> SUFFICES ASSUME NEW x \in found,
                      pc \in {"trim", "trim written"} => x # q[current].find
               PROVE  x \in Whole(queue)
    BY <2>1
  <2>3. PICK i \in 1..Kept : x = q[i].find
    BY <2>1 DEF FirstEntries
  <2>4. i \in 1..Placed /\ ~InWork(i)
    <3>1. CASE pc \in {"save", "write"}
      <4>1. i \in 1..(Len(q) - 1)
        BY <2>3, <3>1 DEF Kept
      <4>2. i \in 1..Len(q) /\ i # Len(q)
        BY <2>2, <4>1, NotTheLast
      <4> QED BY <2>2, <3>1, <4>2 DEF InWork
    <3>2. CASE pc \notin {"save", "write"}
      BY <2>2, <2>3, <3>2 DEF Kept, InWork
    <3> QED BY <3>1, <3>2
  <2> QED BY <1>4, <2>3, <2>4, EntriesOnDisk
<1> QED BY <1>1, <1>2, <1>3, <1>4 DEF DiskInv, ProcTypes, Steps

LEMMA LossInit == Init => LossInv
  BY DEF Init, LossInv, Linked, InLoop

\* The end of the process.
LEMMA LossOver ==
  ASSUME DiskInv, LossInv, pc \notin {"off", "nuke"}, Over,
         UNCHANGED <<queue, resume, starts, fresh>>,
         found' = IF pc \in {"trim", "trim written"} THEN found \ {q[current].find} ELSE found
  PROVE  LossInv'
<1>1. pc' = "off"
  BY DEF Over
<1>2. (found \subseteq Whole(IF Idle THEN queue ELSE resume))'
  BY LossAtRest DEF Idle, Whole
<1>3. starts # 0 /\ starts' = starts
  BY DEF LossInv
<1> QED BY <1>1, <1>2, <1>3 DEF LossInv, Linked, InLoop

LEMMA LossFATAL ==
  ASSUME DiskInv, LossInv, pc \in {"check", "read"}, FATAL
  PROVE  LossInv'
  BY LossOver DEF FATAL, diskVars, histVars

\* The steps of a start before the queue is filled.
LEMMA LossSetup ==
  ASSUME DiskInv, LossInv, FreshStarts <= 1,
         \/ \E in_place \in BOOLEAN : Start(in_place)
         \/ CheckStats \/ MoveQueue \/ DropSession \/ CleanQueue
         \/ \E kind \in Kinds : CleanSamples(kind)
         \/ CleanRest \/ MakeDirs
  PROVE  LossInv'
<1>1. starts \in Nat /\ fresh \in Nat /\ (fresh < FreshStarts => fresh = 0 /\ starts = 0)
  <2>1. starts \in Nat /\ fresh \in Nat /\ FreshStarts \in Nat
    BY SessionAssumption DEF DiskInv, ProcTypes
  <2>2. starts > 0 => fresh = 1
    BY DEF LossInv
  <2> QED BY <2>1, <2>2
<1> USE DEF LossInv, Linked, InLoop, diskVars, procVars, histVars
<1>2. ASSUME NEW in_place \in BOOLEAN, Start(in_place) PROVE LossInv'
  <2>1. pc = "off" /\ pc' = "check" /\ in_place_resume' = in_place
        /\ UNCHANGED <<queue, resume, q, k, found>>
    BY <1>2 DEF Start
  <2>2. CASE in_place
    <3>1. starts > 0 /\ starts' = starts + 1 /\ fresh' = fresh
      BY <1>1, <1>2, <2>2 DEF Start
    <3> QED BY <1>1, <2>1, <2>2, <3>1 DEF Idle, Whole
  <2>3. CASE ~in_place
    <3>1. fresh < FreshStarts /\ starts' = starts + 1 /\ fresh' = fresh + 1
      BY <1>2, <2>3 DEF Start
    <3>2. fresh = 0 /\ starts = 0
      BY <1>1, <3>1
    <3> QED BY <1>1, <2>1, <2>3, <3>1, <3>2 DEF Idle, Whole
  <2> QED BY <2>2, <2>3
<1>3. CASE CheckStats
  <2>1. CASE FATAL
    BY <1>3, <2>1, LossFATAL DEF CheckStats
  <2>2. CASE pc' = "move" /\ UNCHANGED <<diskVars, procVars, histVars>>
    BY <1>3, <2>2 DEF CheckStats, Idle, Whole
  <2> QED BY <1>3, <2>1, <2>2 DEF CheckStats
<1>4. CASE MoveQueue
  <2>1. UNCHANGED <<in_place_resume, starts, fresh, found>> /\ pc' = "clean" /\ in_place_resume
        /\ pc = "move"
    BY <1>4 DEF MoveQueue
  <2>2. found \subseteq Whole(resume')
    <3>1. CASE queue.there /\ resume.files = {} /\ ~resume.state
      BY <1>4, <2>1, <3>1 DEF MoveQueue, Idle
    <3>2. CASE ~queue.there
      <4>1. resume' = resume /\ Whole(queue) = {}
        BY <1>4, <3>2 DEF MoveQueue, DiskInv, DirOK, NoDir, Whole
      <4> QED BY <2>1, <4>1
    <3>3. CASE ~Idle
      BY <1>4, <2>1, <3>3 DEF MoveQueue, Idle
    <3> QED BY <3>1, <3>2, <3>3 DEF Idle
  <2> QED BY <2>1, <2>2 DEF Whole
<1>5. CASE DropSession
  BY <1>5 DEF DropSession
<1>6. CASE CleanQueue
  BY <1>6 DEF CleanQueue, Whole
<1>7. ASSUME NEW kind \in Kinds, CleanSamples(kind) PROVE LossInv'
  BY <1>7 DEF CleanSamples, Whole
<1>8. CASE CleanRest \/ MakeDirs
  BY <1>8 DEF CleanRest, MakeDirs, Whole
<1> QED BY <1>2, <1>3, <1>4, <1>5, <1>6, <1>7, <1>8

\* The entries that a resume reads are those of _resume/.
LEMMA TakenAll ==
  ASSUME DiskInv, q' = TakenEntries
  PROVE  FirstEntries(Len(q))' = Whole(resume)
<1>1. DirOK(resume)
  BY DEF DiskInv
<1>2. /\ Taken \in Seq(resume.files)
      /\ \A n \in DOMAIN Taken : Taken[n].whole
      /\ \A f \in resume.files : f.whole => \E n \in DOMAIN Taken : Taken[n] = f
  BY <1>1, TakenFiles
<1>3. TakenEntries \in Seq(EntrySet)
  BY <1>1, TakenOnce
<1>4. /\ DOMAIN TakenEntries = DOMAIN Taken
      /\ \A n \in DOMAIN Taken : TakenEntries[n].find = Taken[n].find
  BY DEF TakenEntries, Entry
<1>5. DOMAIN q' = 1..Len(q') /\ DOMAIN q' = DOMAIN Taken
  BY <1>3, <1>4
<1>6. FirstEntries(Len(q))' = {Taken[n].find : n \in DOMAIN Taken}
  BY <1>4, <1>5 DEF FirstEntries
<1>7. \A n \in DOMAIN Taken : Taken[n] \in resume.files
  BY <1>2
<1> QED BY <1>2, <1>6, <1>7 DEF Whole

LEMMA LossRead ==
  ASSUME DiskInv, LossInv, ReadTestcases
  PROVE  LossInv'
<1>1. CASE FATAL
  BY <1>1, LossFATAL DEF ReadTestcases
<1>2. CASE /\ q' = IF in_place_resume THEN TakenEntries ELSE SeedEntries
           /\ q' # <<>>
           /\ k' = 1 /\ pc' = "pivot"
           /\ UNCHANGED <<diskVars, back, in_place_resume, stop_soon, current,
                            covered, unique, scan, histVars>>
  <2>1. /\ pc' = "pivot" /\ k' = 1 /\ pc = "read"
        /\ UNCHANGED <<queue, resume, in_place_resume, starts, fresh, found>>
    BY <1>2 DEF diskVars, histVars, ReadTestcases
  <2>2. found \subseteq Whole(resume)
    BY <2>1 DEF LossInv
  <2>3. CASE in_place_resume
    <3>1. FirstEntries(Len(q))' = Whole(resume)
      BY <1>2, <2>3, TakenAll
    <3>2. Whole(resume)' = Whole(resume)
      BY <2>1 DEF Whole
    <3> QED BY <2>1, <2>2, <2>3, <3>1, <3>2 DEF LossInv, Linked, InLoop
  <2>4. CASE ~in_place_resume
    <3>1. resume = NoDir /\ Whole(resume) = {}
      BY <2>1, <2>4, NoDirIdle, IdleHoldsNothing DEF LossInv
    <3>2. found' = {}
      BY <2>1, <2>2, <3>1
    <3> QED BY <2>1, <2>4, <3>1, <3>2 DEF LossInv, Linked, InLoop
  <2> QED BY <2>3, <2>4
<1> QED BY <1>1, <1>2, ReadOutcome

LEMMA LossPivot ==
  ASSUME DiskInv, LossInv, PivotInput
  PROVE  LossInv'
<1>1. /\ pc = "pivot" /\ pc' = "pivot" /\ k' = k + 1
      /\ UNCHANGED <<resume, in_place_resume, starts, fresh>>
      /\ found' = found \cup {q[k].find}
  BY DEF PivotInput
<1>2. k \in 1..Len(q) /\ k \in Nat /\ q \in Seq(EntrySet) /\ Len(q) \in Nat
  BY DEF DiskInv, ProcTypes, PivotInput
<1>3. Len(q') = Len(q) /\ \A i \in 1..Len(q) : q'[i].find = q[i].find
  <2>1. q' = [q EXCEPT ![k] = [q[k] EXCEPT !.id = k - 1, !.kept = (q[k].id = k - 1)]]
    <3>1. q[k] \in EntrySet
      BY <1>2
    <3> QED BY <1>2, <3>1 DEF PivotInput, EntrySet
  <2>2. [q[k] EXCEPT !.id = k - 1, !.kept = (q[k].id = k - 1)].find = q[k].find
    <3>1. q[k] \in EntrySet
      BY <1>2
    <3> QED BY <3>1 DEF EntrySet
  <2> QED BY <1>2, <2>1, <2>2
<1>4. \A n \in 0..Len(q) : {q'[i].find : i \in 1..n} = FirstEntries(n)
  BY <1>2, <1>3 DEF FirstEntries
<1>5. CASE in_place_resume
  <2>1. found \subseteq Whole(resume) /\ Whole(resume) = FirstEntries(Len(q))
    BY <1>1, <1>5 DEF LossInv
  <2>2. q[k].find \in FirstEntries(Len(q))
    BY <1>2 DEF FirstEntries
  <2>3. FirstEntries(Len(q))' = FirstEntries(Len(q))
    BY <1>2, <1>3, <1>4 DEF FirstEntries
  <2>4. Whole(resume)' = Whole(resume)
    BY <1>1 DEF Whole
  <2> QED BY <1>1, <1>5, <2>1, <2>2, <2>3, <2>4 DEF LossInv, Linked, InLoop
<1>6. CASE ~in_place_resume
  <2>1. found \subseteq FirstEntries(k - 1)
    BY <1>1, <1>6 DEF LossInv
  <2>2. FirstEntries(k - 1)' = FirstEntries(k)
    <3>1. k' - 1 = k
      BY <1>1, <1>2
    <3>2. FirstEntries(k - 1)' = {q'[i].find : i \in 1..k}
      BY <3>1 DEF FirstEntries
    <3>3. k \in 0..Len(q)
      BY <1>2
    <3> QED BY <1>4, <3>2, <3>3
  <2>3. found' \subseteq FirstEntries(k)
    BY <1>1, <1>2, <2>1 DEF FirstEntries
  <2> QED BY <1>1, <1>6, <2>2, <2>3 DEF LossInv, Linked, InLoop
<1> QED BY <1>5, <1>6

\* From the filled queue on.
LEMMA LossLinked ==
  ASSUME LossInv, pc \in Linked \cup {"pivot"}, pc' \in Linked,
         UNCHANGED <<in_place_resume, starts, fresh>>,
         pc' # "nuke" => resume' = NoDir,
         ~in_place_resume => resume' = NoDir,
         found' \subseteq FirstEntries(Kept)'
  PROVE  LossInv'
  BY DEF LossInv, Linked, InLoop

LEMMA LossNuke ==
  ASSUME DiskInv, LossInv, PivotDone \/ nuke_resume_dir
  PROVE  LossInv'
<1>1. UNCHANGED <<in_place_resume, starts, fresh, q, found>>
  BY DEF PivotDone, nuke_resume_dir, procVars, histVars
<1>2. q \in Seq(EntrySet) /\ k \in Nat /\ Len(q) \in Nat
  BY DEF DiskInv, ProcTypes
<1>3. CASE PivotDone
  <2>1. /\ pc = "pivot" /\ k > Len(q) /\ resume' = resume
        /\ pc' = IF in_place_resume THEN "nuke" ELSE "begin"
    BY <1>3 DEF PivotDone, diskVars
  <2>2. k - 1 = Len(q)
    <3>1. k - 1 \in 0..Len(q)
      BY <2>1 DEF DiskInv, LinkInv, Placed
    <3> QED BY <1>2, <2>1, <3>1
  <2>3. found \subseteq FirstEntries(Len(q))
    <3>1. ~in_place_resume => found \subseteq FirstEntries(k - 1)
      BY <2>1 DEF LossInv
    <3>2. in_place_resume => found \subseteq FirstEntries(Len(q))
      BY <2>1 DEF LossInv
    <3> QED BY <2>2, <3>1, <3>2
  <2>4. FirstEntries(Kept)' = FirstEntries(Len(q))
    BY <1>1, <2>1 DEF Kept, FirstEntries
  <2>5. ~in_place_resume => resume = NoDir
    BY <2>1 DEF LossInv
  <2> QED BY <1>1, <2>1, <2>3, <2>4, <2>5, LossLinked DEF Linked
<1>4. CASE nuke_resume_dir
  <2>1. /\ pc = "nuke" /\ Emptied(resume, resume')
        /\ pc' = IF resume'.there THEN "nuke" ELSE "begin"
    BY <1>4 DEF nuke_resume_dir
  <2>2. DirOK(resume') /\ (resume'.there => resume.there)
    BY <2>1, EmptiedOK DEF DiskInv
  <2>3. pc' # "nuke" => resume' = NoDir
    BY <2>1, <2>2 DEF DirOK
  <2>4. ~in_place_resume => resume' = NoDir
    <3>1. ~in_place_resume => resume = NoDir
      BY <2>1 DEF LossInv
    <3>2. resume = NoDir => ~resume.there
      BY DEF NoDir
    <3> QED BY <2>2, <3>1, <3>2 DEF DirOK
  <2>5. found' \subseteq FirstEntries(Kept)'
    BY <1>1, <2>1 DEF LossInv, Kept, FirstEntries, Linked
  <2> QED BY <1>1, <2>1, <2>3, <2>4, <2>5, LossLinked DEF Linked
<1> QED BY <1>3, <1>4

\* Fuzzing, and what goes on around it, while the queue stays as it is.
LEMMA LossSteady ==
  ASSUME LossInv, pc \in Linked \ {"nuke"}, pc' \in Linked \ {"nuke"},
         UNCHANGED <<resume, in_place_resume, starts, fresh, q, found>>,
         pc \in {"save", "write"} <=> pc' \in {"save", "write"}
  PROVE  LossInv'
<1>1. Kept' = Kept
  BY DEF Kept
<1>2. FirstEntries(Kept)' = FirstEntries(Kept)
  BY <1>1 DEF FirstEntries
<1>3. found \subseteq FirstEntries(Kept) /\ resume = NoDir
  BY DEF LossInv
<1> QED BY <1>2, <1>3, LossLinked

LEMMA LossAdd ==
  ASSUME DiskInv, LossInv, pc \in {"fuzz", "sync"}, NEW find \in Finds, Add(find),
         UNCHANGED <<resume, in_place_resume, starts, fresh, found>>
  PROVE  LossInv'
<1>1. q \in Seq(EntrySet) /\ Len(q) \in Nat
  BY DEF DiskInv, ProcTypes
<1>2. Entry(Len(q), find, FALSE) \in EntrySet
  BY <1>1 DEF Entry, EntrySet
<1>3. /\ pc' = "save" /\ Len(q') = Len(q) + 1
      /\ \A i \in 1..Len(q) : q'[i] = q[i]
  BY <1>1, <1>2 DEF Add
<1>4. Kept = Len(q)
  BY DEF Kept
<1>5. Kept' = Len(q)
  BY <1>1, <1>3 DEF Kept
<1>6. FirstEntries(Kept)' = FirstEntries(Len(q))
  BY <1>3, <1>5 DEF FirstEntries
<1>7. found \subseteq FirstEntries(Len(q)) /\ resume = NoDir
  BY <1>4 DEF LossInv, Linked, InLoop
<1> QED BY <1>3, <1>6, <1>7, LossLinked DEF Linked, InLoop

LEMMA LossWrite ==
  ASSUME DiskInv, LossInv, WriteFile
  PROVE  LossInv'
<1>1. /\ pc = "write" /\ pc' \in {"fuzz", "sync"}
      /\ UNCHANGED <<resume, in_place_resume, starts, fresh, q>>
      /\ found' = found \cup {Last(q).find}
  BY DEF WriteFile, procVars, DiskInv, ProcTypes
<1>2. Len(q) \in Nat /\ Len(q) > 0 /\ Last(q) = q[Len(q)]
  BY <1>1 DEF DiskInv, ProcTypes, LinkInv, Linked, InLoop, Last
<1>3. Kept = Len(q) - 1
  BY <1>1 DEF Kept
<1>4. FirstEntries(Kept)' = FirstEntries(Len(q))
  BY <1>1 DEF Kept, FirstEntries
<1>5. resume = NoDir /\ found \subseteq FirstEntries(Len(q) - 1)
  BY <1>1, <1>3 DEF LossInv, Linked, InLoop
<1>6. found' \subseteq FirstEntries(Len(q))
  <2>1. \A i \in 1..(Len(q) - 1) : i \in 1..Len(q)
    BY <1>2
  <2>2. Len(q) \in 1..Len(q)
    BY <1>2
  <2> QED BY <1>1, <1>2, <1>5, <2>1, <2>2 DEF FirstEntries
<1> QED BY <1>1, <1>4, <1>5, <1>6, LossLinked DEF Linked, InLoop

LEMMA LossMark ==
  ASSUME DiskInv, LossInv, mark_as_det_done
  PROVE  LossInv'
<1>1. /\ pc = "fuzz" /\ pc' = "fuzz"
      /\ UNCHANGED <<resume, in_place_resume, starts, fresh, found>>
  BY DEF mark_as_det_done, histVars
<1>2. Len(q') = Len(q) /\ \A i \in 1..Len(q) : q'[i].find = q[i].find
  BY <1>1, Marked
<1>3. Kept = Len(q) /\ Kept' = Len(q)
  BY <1>1, <1>2 DEF Kept
<1>4. FirstEntries(Kept)' = FirstEntries(Kept)
  BY <1>2, <1>3 DEF FirstEntries
<1>5. found \subseteq FirstEntries(Kept) /\ resume = NoDir
  BY <1>1 DEF LossInv, Linked, InLoop
<1> QED BY <1>1, <1>4, <1>5, LossLinked DEF Linked, InLoop

LEMMA LossFuzz ==
  ASSUME DiskInv, LossInv, PeerTypes, Fuzz \/ Sync \/ Begin
  PROVE  LossInv'
<1> DEFINE Steady ==
             /\ pc \in Linked \ {"nuke"} /\ pc' \in Linked \ {"nuke"}
             /\ UNCHANGED <<resume, in_place_resume, starts, fresh, q, found>>
             /\ pc \in {"save", "write"} <=> pc' \in {"save", "write"}
<1>0. Steady => LossInv'
  BY LossSteady
<1> USE DEF diskVars, procVars, histVars, Linked, InLoop
<1>1. CASE Begin \/ TruncateStats \/ NextEntry \/ Stop
  <2>1. Steady
    BY <1>1 DEF Begin, TruncateStats, NextEntry, Stop
  <2> QED BY <1>0, <2>1
<1>2. CASE WriteStats
  <2>1. CASE stop_soon
    <3>1. pc = "stats written" /\ Over /\ UNCHANGED <<queue, resume, starts, fresh, found>>
      BY <1>2, <2>1 DEF WriteStats
    <3> QED BY <3>1, LossOver
  <2>2. CASE ~stop_soon
    <3>1. Steady
      BY <1>2, <2>2 DEF WriteStats
    <3> QED BY <1>0, <3>1
  <2> QED BY <2>1, <2>2
<1>3. ASSUME NEW find \in Finds, Discover(find) PROVE LossInv'
  BY <1>3, LossAdd DEF Discover
<1>4. ASSUME NEW kind \in Kinds, NEW bug \in Bugs, SaveSample(kind, bug) PROVE LossInv'
  <2>1. Steady
    BY <1>4 DEF SaveSample
  <2> QED BY <1>0, <2>1
<1>5. CASE CreateFile \/ Trim
  <2>1. Steady
    BY <1>5 DEF CreateFile, Trim
  <2> QED BY <1>0, <2>1
<1>6. CASE SyncOpen \/ SyncPass \/ SyncStops \/ SyncEnd
  <2>1. Steady
    BY <1>6 DEF SyncOpen, SyncPass, SyncStops, SyncEnd
  <2> QED BY <1>0, <2>1
<1>7. CASE SyncRun
  <2>1. PICK f \in Unvisited : IF f.find \in covered THEN UNCHANGED <<q, covered, pc>> ELSE Add(f.find)
    BY <1>7 DEF SyncRun
  <2>2. f.find \in Finds
    BY DEF Unvisited, PeerTypes, FileSet
  <2>3. pc = "sync" /\ UNCHANGED <<resume, in_place_resume, starts, fresh, found>>
    BY <1>7 DEF SyncRun
  <2>4. CASE f.find \in covered
    <3>1. Steady
      BY <2>1, <2>3, <2>4
    <3> QED BY <1>0, <3>1
  <2>5. CASE f.find \notin covered
    BY <2>1, <2>2, <2>3, <2>5, LossAdd
  <2> QED BY <2>4, <2>5
<1> QED BY <1>1, <1>2, <1>3, <1>4, <1>5, <1>6, <1>7, LossWrite, LossMark DEF Fuzz, Sync

\* No step loses a find, as long as no crash meets the deletion of _resume/ and
\* no later session starts afresh.
LEMMA LossStep ==
  ASSUME "nuke" \notin CrashAt, FreshStarts <= 1, DiskInv, PeerTypes, LossInv, [Next]_vars
  PROVE  LossInv'
<1>1. CASE Setup
  BY <1>1, LossSetup, LossRead, LossPivot, LossNuke, LossFuzz DEF Setup
<1>2. CASE Fuzz \/ Sync
  BY <1>2, LossFuzz
<1>3. CASE Crash
  <2>1. CASE pc = "off"
    <3>1. UNCHANGED <<queue, resume, pc, starts, fresh, found>>
      BY <1>3, <2>1 DEF Crash, Over, diskVars
    <3> QED BY <2>1, <3>1 DEF LossInv, Linked, InLoop, Idle, Whole
  <2>2. CASE pc # "off"
    BY <1>3, <2>2, LossOver DEF Crash, diskVars
  <2> QED BY <2>1, <2>2
<1>4. CASE UNCHANGED <<queue, resume, pc, procVars, starts, fresh, found>>
  <2>1. Idle' <=> Idle
    BY <1>4 DEF Idle
  <2>2. Whole(IF Idle THEN queue ELSE resume)' = Whole(IF Idle THEN queue ELSE resume)
    BY <1>4, <2>1 DEF Whole
  <2>3. Whole(resume)' = Whole(resume)
    BY <1>4 DEF Whole
  <2>4. FirstEntries(Len(q))' = FirstEntries(Len(q)) /\ FirstEntries(k - 1)' = FirstEntries(k - 1)
    BY <1>4 DEF procVars, FirstEntries
  <2>5. FirstEntries(Kept)' = FirstEntries(Kept)
    BY <1>4 DEF procVars, FirstEntries, Kept
  <2> QED BY <1>4, <2>2, <2>3, <2>4, <2>5 DEF procVars, LossInv
<1>5. CASE PeerCreates \/ PeerWrites \/ UNCHANGED vars
  BY <1>4, <1>5 DEF PeerCreates, PeerWrites, vars, diskVars, histVars
<1> QED BY <1>1, <1>2, <1>3, <1>5 DEF Next

LEMMA LossMeans == DiskInv /\ LossInv => NothingLost
<1> SUFFICES ASSUME DiskInv, LossInv PROVE NothingLost
  OBVIOUS
<1>1. ASSUME pc # "nuke"
      PROVE  found \subseteq Whole(queue) \cup Whole(resume)
               \cup (IF pc \in {"trim", "trim written"} THEN {q[current].find} ELSE {})
  BY <1>1, LossAtRest
<1>2. ASSUME pc = "nuke" PROVE found \subseteq Whole(queue)
  <2>1. found \subseteq FirstEntries(Len(q))
    BY <1>2 DEF LossInv, Linked, Kept
  <2>2. Placed = Len(q) /\ pc \in Linked /\ \A i : ~InWork(i)
    BY <1>2 DEF Placed, Linked, InWork
  <2> QED BY <2>1, <2>2, EntriesOnDisk DEF FirstEntries
<1>3. ASSUME pc \in {"fuzz", "sync"} PROVE found \subseteq {q[i].find : i \in DOMAIN q}
  <2>1. found \subseteq FirstEntries(Len(q))
    BY <1>3 DEF LossInv, Linked, InLoop, Kept
  <2>2. DOMAIN q = 1..Len(q)
    BY DEF DiskInv, ProcTypes
  <2> QED BY <2>1, <2>2 DEF FirstEntries
<1> QED BY <1>1, <1>2, <1>3 DEF NothingLost

\* No crash or hang sample is lost by a crash of afl-fuzz or by a resume:
\* maybe_delete_out_dir renames what a new session would delete.
THEOREM SamplesAreKept == Spec => []SamplesKept
<1>1. Init => SamplesInv
  BY SamplesInit
<1>2. DiskInv /\ SamplesInv /\ [Next]_vars => SamplesInv'
  BY SamplesStep
<1>3. SamplesInv => SamplesKept
  BY DEF SamplesInv
<1> QED BY <1>1, <1>2, <1>3, SpecDisk, PTL DEF Spec

\* No test case of the queue is lost by crashes and resumes, wherever afl-fuzz
\* dies but in nuke_resume_dir, and as long as the user does not start afresh
\* beside what an interrupted resume has left.
THEOREM NothingIsLost ==
  ASSUME "nuke" \notin CrashAt, FreshStarts <= 1
  PROVE  Spec => []NothingLost
<1>1. Init => LossInv
  BY LossInit
<1>2. (DiskInv /\ PeerInv) /\ LossInv /\ [Next]_vars => LossInv'
  BY LossStep DEF PeerInv, PeerFilesInv, PeerTypes
<1>3. (DiskInv /\ PeerInv) /\ LossInv => NothingLost
  BY LossMeans
<1> QED BY <1>1, <1>2, <1>3, SpecDisk, PTL DEF Spec
=============================================================================
