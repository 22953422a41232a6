------------------------- MODULE ListingPhotosProofs -------------------------
(***************************************************************************)
(* Proofs about ListingPhotos, for any number of photos, requests, jobs    *)
(* that run at once, variants, attempts and stalls, and any limit.         *)
(*                                                                         *)
(* Whatever is written to the column was once a copy of it, so what is to  *)
(* hold of the column must hold of every copy in flight, out of date or    *)
(* not (RequestsInv, JobsInv): it shows no more photos than the limit,     *)
(* fewer where one is to be added, and only names files that are there or  *)
(* that a delete has removed.                                              *)
(***************************************************************************)
EXTENDS ListingPhotos, FiniteSetTheorems, TLAPS

\* Every entry that a shelf shows as ready has its files, or a delete has removed them.
ReadyIn(shelf, files, gone) ==
  \A p \in Photo : shelf[p] # Null /\ shelf[p].ready /\ p \notin gone => files[p] = Variant

\* A shelf that may be written as it is.
Few(shelf) == Cardinality(Shown(shelf)) <= MaxPhotos

\* What request r may rely on between two of its awaits.
RequestOk(r) ==
  /\ pc[r] # "idle" => req[r].photo \in Photo
  /\ pc[r] = "add" => req[r].photo \in used /\ Cardinality(Shown(req[r].copy)) < MaxPhotos
  /\ pc[r] \in {"add", "commit", "erase", "remove"} =>
       Few(req[r].copy) /\ ReadyIn(req[r].copy, variants, erased)

\* What a worker may rely on between two steps of job j.
JobOk(j) ==
  /\ job[j].state \in {"waiting", "resize", "patch", "patched"} =>
       /\ job[j].photo \in Photo /\ job[j].attempts < MaxAttempts
       /\ job[j].photo \in erased \/ job[j].done \subseteq variants[job[j].photo]
  /\ job[j].state = "patch" =>
       /\ job[j].done = Variant
       /\ Few(job[j].copy) /\ ReadyIn(job[j].copy, variants, erased)

RequestsInv == \A r \in Request : RequestOk(r)
JobsInv == \A j \in Job : JobOk(j)

IInv ==
  TypeOK /\ RequestsInv /\ JobsInv /\ PhotosAsIntended /\ AtMostMaxPhotos /\ ReadyHasFiles

-----------------------------------------------------------------------------
(* Shelves, the records of requests and of jobs.                           *)

RequestRecord == [photo : Photo \cup {Null}, copy : Shelf]

JobRecord ==
  [state : {"none", "waiting", "resize", "patch", "patched", "completed", "failed"},
   photo : Photo \cup {Null}, attempts : 0 .. MaxAttempts,
   stalls : 0 .. MaxStalls, done : SUBSET Variant, copy : Shelf]

LEMMA NoRecords == NoRequest \in RequestRecord /\ NoJob \in JobRecord
<1>1. [p \in Photo |-> Null] \in Shelf
  BY DEF Shelf
<1>2. 0 \in 0 .. MaxAttempts /\ 0 \in 0 .. MaxStalls
  BY PhotosAssumption
<1>3. QED
  BY <1>1, <1>2 DEF NoRequest, NoJob, RequestRecord, JobRecord

LEMMA ShownIsFinite ==
  ASSUME NEW shelf
  PROVE  IsFiniteSet(Shown(shelf)) /\ Cardinality(Shown(shelf)) \in Nat
<1>1. Shown(shelf) \subseteq Photo
  BY DEF Shown
<1>2. IsFiniteSet(Shown(shelf))
  BY <1>1, FS_Subset, PhotosAssumption
<1>3. QED
  BY <1>2, FS_CardinalityType

\* Changing an entry adds a photo at most, and none if it turns nothing into an entry.
LEMMA ShownChanged ==
  ASSUME NEW shelf \in Shelf, NEW p \in Photo, NEW entry \in Entry \cup {Null}
  PROVE  LET new == [shelf EXCEPT ![p] = entry] IN
         /\ Cardinality(Shown(new)) <= Cardinality(Shown(shelf)) + 1
         /\ (shelf[p] = Null => entry = Null) => Cardinality(Shown(new)) <= Cardinality(Shown(shelf))
<1> DEFINE new == [shelf EXCEPT ![p] = entry]
<1>1. new \in Shelf /\ new[p] = entry /\ \A q \in Photo \ {p} : new[q] = shelf[q]
  BY DEF Shelf
<1>2. Shown(new) \subseteq Shown(shelf) \cup {p}
  BY <1>1 DEF Shown
<1>3. (shelf[p] = Null => entry = Null) => Shown(new) \subseteq Shown(shelf)
  BY <1>1 DEF Shown
<1>4. /\ IsFiniteSet(Shown(shelf) \cup {p})
      /\ Cardinality(Shown(shelf) \cup {p}) <= Cardinality(Shown(shelf)) + 1
  BY ShownIsFinite, FS_AddElement
<1>5. Cardinality(Shown(new)) <= Cardinality(Shown(shelf) \cup {p})
  BY <1>2, <1>4, FS_Subset
<1>6. Cardinality(Shown(shelf) \cup {p}) \in Nat
  BY <1>4, FS_CardinalityType
<1>7. Cardinality(Shown(new)) <= Cardinality(Shown(shelf)) + 1
  BY <1>4, <1>5, <1>6, ShownIsFinite
<1>8. ASSUME shelf[p] = Null => entry = Null
      PROVE  Cardinality(Shown(new)) <= Cardinality(Shown(shelf))
  BY <1>3, <1>8, ShownIsFinite, FS_Subset
<1>9. QED
  BY <1>7, <1>8

\* Files that stay, or whose photo is deleted, leave a shelf in order.
FilesKept ==
  /\ \A p \in Photo : p \notin erased' => p \notin erased /\ variants[p] \subseteq variants'[p]
  /\ variants' \in [Photo -> SUBSET Variant]

LEMMA StaysReady ==
  ASSUME TypeOK, FilesKept, NEW shelf, ReadyIn(shelf, variants, erased)
  PROVE  ReadyIn(shelf, variants', erased')
<1> SUFFICES ASSUME NEW p \in Photo, shelf[p] # Null, shelf[p].ready, p \notin erased'
             PROVE  variants'[p] = Variant
  BY DEF ReadyIn
<1>1. variants[p] = Variant /\ variants[p] \subseteq variants'[p]
  BY DEF ReadyIn, FilesKept
<1>2. variants'[p] \subseteq Variant
  BY DEF FilesKept
<1>3. QED
  BY <1>1, <1>2

\* Changing an entry to one that is not ready, or whose files are there.
LEMMA ReadyChanged ==
  ASSUME NEW shelf \in Shelf, NEW p \in Photo, NEW entry \in Entry \cup {Null},
         NEW files, NEW gone, ReadyIn(shelf, files, gone),
         entry # Null /\ entry.ready => p \in gone \/ files[p] = Variant
  PROVE  ReadyIn([shelf EXCEPT ![p] = entry], files, gone)
<1> DEFINE new == [shelf EXCEPT ![p] = entry]
<1> SUFFICES ASSUME NEW q \in Photo, new[q] # Null /\ new[q].ready /\ q \notin gone
             PROVE  files[q] = Variant
  BY DEF ReadyIn
<1>1. CASE q = p
  <2>1. new[q] = entry
    BY <1>1 DEF Shelf
  <2>2. QED
    BY <1>1, <2>1
<1>2. CASE q # p
  <2>1. new[q] = shelf[q]
    BY <1>2 DEF Shelf
  <2>2. QED
    BY <2>1 DEF ReadyIn
<1>3. QED
  BY <1>1, <1>2

-----------------------------------------------------------------------------

LEMMA InitInv == Init => IInv
<1> SUFFICES ASSUME Init PROVE IInv
  OBVIOUS
<1> USE DEF Init
<1>1. photos \in Shelf
  BY DEF Shelf, Entry
<1>2. TypeOK
  <2>1. req \in [Request -> RequestRecord] /\ job \in [Job -> JobRecord]
    BY NoRecords
  <2>2. variants \in [Photo -> SUBSET Variant]
    OBVIOUS
  <2>3. Existing \subseteq Photo /\ 0 \in 0 .. MaxRequests
    BY PhotosAssumption
  <2>4. made \in 0 .. MaxRequests
    BY <2>3
  <2>5. /\ original \subseteq Photo /\ used \subseteq Photo /\ signed \subseteq used
        /\ erased \subseteq Photo /\ committed \subseteq Photo
    BY <2>3
  <2>6. /\ pc \in [Request -> {"idle", "add", "commit", "enqueue", "erase", "remove"}]
        /\ overwritten \subseteq Photo
    OBVIOUS
  <2>7. QED
    BY <1>1, <2>1, <2>2, <2>4, <2>5, <2>6 DEF TypeOK, RequestRecord, JobRecord
<1>3. RequestsInv /\ JobsInv
  BY DEF RequestsInv, RequestOk, JobsInv, JobOk, NoJob
<1>4. PhotosAsIntended /\ ReadyHasFiles
  BY DEF PhotosAsIntended, ReadyHasFiles
<1>5. AtMostMaxPhotos
  <2>1. Shown(photos) \subseteq Existing
    BY DEF Shown
  <2>2. IsFiniteSet(Existing) /\ Cardinality(Existing) \in Nat
    BY PhotosAssumption, FS_Subset, FS_CardinalityType
  <2>3. Cardinality(Shown(photos)) <= Cardinality(Existing)
    BY <2>1, <2>2, FS_Subset
  <2>4. QED
    BY <2>2, <2>3, ShownIsFinite, PhotosAssumption DEF AtMostMaxPhotos
<1>6. QED
  BY <1>2, <1>3, <1>4, <1>5 DEF IInv

-----------------------------------------------------------------------------
(* What the steps of the others leave as it is.                            *)

\* A copy is kept.
LEMMA RequestKeeps ==
  ASSUME IInv, NEW q \in Request, FilesKept, used \subseteq used',
         pc'[q] = pc[q], req'[q].photo = req[q].photo, req'[q].copy = req[q].copy
  PROVE  RequestOk(q)'
<1>1. RequestOk(q)
  BY DEF IInv, RequestsInv
<1>2. ReadyIn(req[q].copy, variants, erased) => ReadyIn(req[q].copy, variants', erased')
  BY StaysReady DEF IInv
<1>3. QED
  BY <1>1, <1>2 DEF RequestOk, Few

LEMMA JobKeeps ==
  ASSUME IInv, NEW j \in Job, FilesKept,
         job'[j].state = job[j].state, job'[j].photo = job[j].photo,
         job'[j].attempts = job[j].attempts, job'[j].done = job[j].done,
         job'[j].copy = job[j].copy
  PROVE  JobOk(j)'
<1>1. JobOk(j)
  BY DEF IInv, JobsInv
<1>2. ReadyIn(job[j].copy, variants, erased) => ReadyIn(job[j].copy, variants', erased')
  BY StaysReady DEF IInv
<1>3. ASSUME job[j].photo \in Photo, job[j].photo \in erased \/ job[j].done \subseteq variants[job[j].photo]
      PROVE  job[j].photo \in erased' \/ job[j].done \subseteq variants'[job[j].photo]
  BY <1>3 DEF FilesKept
<1>4. QED
  BY <1>1, <1>2, <1>3 DEF JobOk, Few

\* The column is not written and no file is lost that a shelf needs.
LEMMA ColumnStays ==
  ASSUME IInv, FilesKept, UNCHANGED <<photos, intended, overwritten>>
  PROVE  PhotosAsIntended' /\ AtMostMaxPhotos' /\ ReadyHasFiles'
<1>1. ReadyIn(photos, variants, erased)
  BY DEF IInv, ReadyHasFiles, ReadyIn
<1>2. ReadyIn(photos, variants', erased')
  BY <1>1, StaysReady DEF IInv
<1>3. QED
  BY <1>2 DEF IInv, ReadyIn, PhotosAsIntended, AtMostMaxPhotos, ReadyHasFiles

LEMMA FilesStay == ASSUME IInv, UNCHANGED <<variants, erased>> PROVE FilesKept
BY DEF IInv, TypeOK, FilesKept

\* A step of one request that does not write the column.
LEMMA OneRequestMoves ==
  ASSUME IInv, NEW r \in Request, FilesKept, used \subseteq used',
         UNCHANGED <<photos, intended, overwritten>>,
         \A q \in Request \ {r} : pc'[q] = pc[q] /\ req'[q] = req[q],
         RequestOk(r)', JobsInv', TypeOK'
  PROVE  IInv'
<1>1. RequestsInv'
  <2> SUFFICES ASSUME NEW q \in Request PROVE RequestOk(q)'
    BY DEF RequestsInv
  <2>1. CASE q = r
    BY <2>1
  <2>2. CASE q # r
    BY <2>2, RequestKeeps
  <2>3. QED
    BY <2>1, <2>2
<1>2. QED
  BY <1>1, ColumnStays DEF IInv

\* A step of one job that does not write the column.
LEMMA OneJobMoves ==
  ASSUME IInv, NEW j \in Job, FilesKept,
         UNCHANGED <<photos, used, pc, req, intended, overwritten>>,
         \A i \in Job \ {j} : job'[i] = job[i], JobOk(j)', TypeOK'
  PROVE  IInv'
<1>1. JobsInv'
  <2> SUFFICES ASSUME NEW i \in Job PROVE JobOk(i)'
    BY DEF JobsInv
  <2>1. CASE i = j
    BY <2>1
  <2>2. CASE i # j
    BY <2>2, JobKeeps
  <2>3. QED
    BY <2>1, <2>2
<1>2. RequestsInv'
  BY RequestKeeps DEF RequestsInv
<1>3. QED
  BY <1>1, <1>2, ColumnStays DEF IInv

\* The jobs while a request moves and the column stays.
LEMMA JobsStay ==
  ASSUME IInv, FilesKept, UNCHANGED <<photos, job>>
  PROVE  JobsInv'
BY JobKeeps DEF JobsInv

\* A write of a copy o, with entry for p, by a request or a job.
LEMMA ColumnWritten ==
  ASSUME IInv, UNCHANGED <<variants, erased>>,
         NEW o, NEW p \in Photo, NEW change \in [Entry \cup {Null} -> Entry \cup {Null}],
         SetPhotos(o, p, change), o.copy \in Shelf,
         Few([o.copy EXCEPT ![p] = change[o.copy[p]]]), ReadyIn(o.copy, variants, erased),
         LET entry == change[o.copy[p]] IN
           entry # Null /\ entry.ready => p \in erased \/ variants[p] = Variant
  PROVE  /\ photos' \in Shelf /\ intended' \in Shelf /\ overwritten' \subseteq Photo
         /\ PhotosAsIntended' /\ AtMostMaxPhotos' /\ ReadyHasFiles'
<1> DEFINE entry == change[o.copy[p]]
           new == [o.copy EXCEPT ![p] = entry]
<1>1. entry \in Entry \cup {Null} /\ new \in Shelf
  BY DEF Shelf
<1>2. /\ photos' = new
      /\ overwritten' = overwritten \cup {q \in Photo : o.copy[q] # photos[q]}
      /\ intended' = [intended EXCEPT ![p] = change[@]]
  BY DEF SetPhotos, Copy
<1>3. intended \in Shelf /\ photos \in Shelf /\ overwritten \subseteq Photo
  BY DEF IInv, TypeOK
<1>4. intended' \in Shelf /\ overwritten' \subseteq Photo
  BY <1>2, <1>3 DEF Shelf
<1>5. PhotosAsIntended'
  <2> SUFFICES ASSUME NEW q \in Photo, q \notin overwritten'
               PROVE  photos'[q] = intended'[q]
    BY DEF PhotosAsIntended
  <2>1. o.copy[q] = photos[q] /\ photos[q] = intended[q]
    BY <1>2 DEF IInv, PhotosAsIntended
  <2>2. CASE q = p
    BY <1>2, <1>3, <2>1, <2>2 DEF Shelf
  <2>3. CASE q # p
    BY <1>2, <1>3, <2>1, <2>3 DEF Shelf
  <2>4. QED
    BY <2>2, <2>3
<1>6. ReadyIn(new, variants, erased)
  BY <1>1, ReadyChanged
<1>7. ReadyHasFiles'
  BY <1>2, <1>6 DEF ReadyHasFiles, ReadyIn
<1>8. AtMostMaxPhotos'
  BY <1>2 DEF AtMostMaxPhotos, Few
<1>9. QED
  BY <1>1, <1>2, <1>4, <1>5, <1>7, <1>8

-----------------------------------------------------------------------------
(* The requests.                                                           *)

LEMMA ReadInv ==
  ASSUME IInv, NEW r \in Request, NEW p \in Photo, NEW step \in {"add", "commit", "erase"},
         Read(r, step, p), used \subseteq used', used' \subseteq Photo,
         step = "add" => p \in used' /\ Cardinality(Shown(photos)) < MaxPhotos,
         UNCHANGED <<photos, original, variants, signed, job, history>>
  PROVE  IInv'
<1>1. PICK o \in RequestRecord :
        req' = [req EXCEPT ![r] = o] /\ o.photo = p /\ o.copy = photos
  <2>1. [photo |-> p, copy |-> photos] \in RequestRecord
    BY DEF RequestRecord, IInv, TypeOK
  <2>2. QED
    BY <2>1 DEF Read
<1>2. /\ pc' = [pc EXCEPT ![r] = step] /\ made < MaxRequests /\ made' = made + 1
      /\ UNCHANGED <<intended, overwritten, erased, committed>>
  BY DEF Read, history
<1>3. /\ pc'[r] = step /\ req'[r] = o
      /\ \A q \in Request \ {r} : pc'[q] = pc[q] /\ req'[q] = req[q]
  BY <1>1, <1>2 DEF IInv, TypeOK
<1>4. RequestOk(r)'
  <2>1. Few(photos) /\ ReadyIn(photos, variants, erased)
    BY DEF IInv, Few, AtMostMaxPhotos, ReadyIn, ReadyHasFiles
  <2>2. QED
    BY <1>1, <1>2, <1>3, <2>1 DEF RequestOk, Few
<1>5. FilesKept
  BY <1>2, FilesStay
<1>6. TypeOK'
  <2>1. /\ pc' \in [Request -> {"idle", "add", "commit", "enqueue", "erase", "remove"}]
        /\ req' \in [Request -> RequestRecord]
    BY <1>1, <1>2 DEF IInv, TypeOK, RequestRecord
  <2>2. made' \in 0 .. MaxRequests
    BY <1>2, PhotosAssumption DEF IInv, TypeOK
  <2>3. QED
    BY <1>2, <2>1, <2>2 DEF IInv, TypeOK, RequestRecord
<1>7. QED
  BY <1>2, <1>3, <1>4, <1>5, <1>6, JobsStay, OneRequestMoves

LEMMA InitUploadInv ==
  ASSUME IInv, NEW r \in Request, NEW p \in Photo, InitUpload(r, p)
  PROVE  IInv'
<1>1. used \subseteq used' /\ used' \subseteq Photo /\ p \in used'
  BY DEF InitUpload, IInv, TypeOK
<1>2. QED
  BY <1>1, ReadInv DEF InitUpload

LEMMA CommitOrDeleteInv ==
  ASSUME IInv, NEW r \in Request, NEW p \in Photo, Commit(r, p) \/ Delete(r, p)
  PROVE  IInv'
<1>1. used \subseteq used' /\ used' \subseteq Photo
  BY DEF Commit, Delete, IInv, TypeOK
<1>2. QED
  BY <1>1, ReadInv DEF Commit, Delete

\* A request that forgets its copy.
LEMMA RequestForgets ==
  ASSUME IInv, NEW r \in Request, Answer(r), req' = [req EXCEPT ![r] = NoRequest],
         UNCHANGED <<photos, original, variants, used, signed, intended, overwritten, erased>>,
         committed' \subseteq Photo, JobsInv', job' \in [Job -> JobRecord]
  PROVE  IInv'
<1>1. /\ pc' = [pc EXCEPT ![r] = "idle"] /\ pc'[r] = "idle"
      /\ \A q \in Request \ {r} : pc'[q] = pc[q] /\ req'[q] = req[q]
  BY DEF Answer, IInv, TypeOK
<1>2. RequestOk(r)'
  BY <1>1 DEF RequestOk
<1>3. req' \in [Request -> RequestRecord] /\ made' = made
  BY NoRecords DEF Answer, IInv, TypeOK, RequestRecord
<1>4. TypeOK'
  BY <1>1, <1>3 DEF IInv, TypeOK, RequestRecord, JobRecord
<1>5. QED
  BY <1>1, <1>2, <1>4, FilesStay, OneRequestMoves

LEMMA FailInv ==
  ASSUME IInv, NEW r \in Request, Fail(r)
  PROVE  IInv'
<1>1. JobsInv' /\ job' \in [Job -> JobRecord]
  BY FilesStay, JobsStay DEF Fail, history, IInv, TypeOK, JobRecord
<1>2. committed' \subseteq Photo
  BY DEF Fail, history, IInv, TypeOK
<1>3. QED
  BY <1>1, <1>2, RequestForgets DEF Fail, history

\* A request writes its copy with a new entry for its photo.
LEMMA RequestWrites ==
  ASSUME IInv, NEW r \in Request, NEW o \in RequestRecord, o = req[r],
         NEW p \in Photo, NEW change \in [Entry \cup {Null} -> Entry \cup {Null}],
         pc[r] \in {"add", "commit", "remove"}, SetPhotos(o, p, change),
         pc[r] # "add" => change[Null] = Null,
         LET entry == change[o.copy[p]] IN
           entry # Null /\ entry.ready => o.copy[p] # Null /\ o.copy[p].ready,
         NEW step \in {"idle", "enqueue"}, NEW n \in RequestRecord, n.photo = p \/ step = "idle",
         pc' = [pc EXCEPT ![r] = step], req' = [req EXCEPT ![r] = n],
         signed' \subseteq used,
         UNCHANGED <<original, variants, used, made, job, erased, committed>>
  PROVE  IInv'
<1>1. /\ Few(o.copy) /\ ReadyIn(o.copy, variants, erased)
      /\ pc[r] = "add" => Cardinality(Shown(o.copy)) < MaxPhotos
  BY DEF IInv, RequestsInv, RequestOk
<1>2. o.copy \in Shelf /\ o.copy[p] \in Entry \cup {Null} /\ change[o.copy[p]] \in Entry \cup {Null}
  BY DEF RequestRecord, Shelf
<1>3. Few([o.copy EXCEPT ![p] = change[o.copy[p]]])
  <2> DEFINE new == [o.copy EXCEPT ![p] = change[o.copy[p]]]
  <2>1. Cardinality(Shown(new)) \in Nat /\ Cardinality(Shown(o.copy)) \in Nat
    BY ShownIsFinite
  <2>2. CASE pc[r] = "add"
    <3>1. Cardinality(Shown(new)) <= Cardinality(Shown(o.copy)) + 1
      BY <1>2, ShownChanged
    <3>2. QED
      BY <1>1, <2>1, <2>2, <3>1, PhotosAssumption DEF Few
  <2>3. CASE pc[r] # "add"
    <3>1. Cardinality(Shown(new)) <= Cardinality(Shown(o.copy))
      BY <1>2, <2>3, ShownChanged
    <3>2. QED
      BY <1>1, <2>1, <3>1, PhotosAssumption DEF Few
  <2>4. QED
    BY <2>2, <2>3
<1>4. LET entry == change[o.copy[p]] IN
        entry # Null /\ entry.ready => p \in erased \/ variants[p] = Variant
  BY <1>1 DEF ReadyIn
<1>5. /\ photos' \in Shelf /\ intended' \in Shelf /\ overwritten' \subseteq Photo
      /\ PhotosAsIntended' /\ AtMostMaxPhotos' /\ ReadyHasFiles'
  BY <1>1, <1>2, <1>3, <1>4, ColumnWritten
<1>6. /\ pc' \in [Request -> {"idle", "add", "commit", "enqueue", "erase", "remove"}]
      /\ req' \in [Request -> RequestRecord]
      /\ pc'[r] = step /\ req'[r] = n
      /\ \A q \in Request \ {r} : pc'[q] = pc[q] /\ req'[q] = req[q]
  BY DEF IInv, TypeOK, RequestRecord
<1>7. TypeOK'
  BY <1>5, <1>6 DEF IInv, TypeOK, RequestRecord, JobRecord
<1>8. RequestsInv'
  <2> SUFFICES ASSUME NEW q \in Request PROVE RequestOk(q)'
    BY DEF RequestsInv
  <2>1. CASE q = r
    BY <1>6, <2>1 DEF RequestOk
  <2>2. CASE q # r
    BY <1>6, <2>2, FilesStay, RequestKeeps
  <2>3. QED
    BY <2>1, <2>2
<1>9. JobsInv'
  BY FilesStay, JobKeeps DEF JobsInv
<1>10. QED
  BY <1>5, <1>7, <1>8, <1>9 DEF IInv

LEMMA AddEntryInv ==
  ASSUME IInv, NEW r \in Request, AddEntry(r)
  PROVE  IInv'
<1> DEFINE append == [entry \in Entry \cup {Null} |-> NewEntry]
<1>1. PICK o \in RequestRecord, p \in Photo : o = req[r] /\ p = o.photo /\ p \in used
  BY DEF AddEntry, IInv, TypeOK, RequestRecord, RequestsInv, RequestOk
<1>2. /\ pc[r] = "add" /\ SetPhotos(o, p, append) /\ signed' = signed \cup {p}
      /\ pc' = [pc EXCEPT ![r] = "idle"] /\ req' = [req EXCEPT ![r] = NoRequest]
      /\ UNCHANGED <<original, variants, used, made, job, erased, committed>>
  BY <1>1 DEF AddEntry, Answer
<1>3. /\ append \in [Entry \cup {Null} -> Entry \cup {Null}]
      /\ \A e \in Entry \cup {Null} : append[e] = NewEntry
      /\ ~NewEntry.ready
  BY DEF NewEntry, Entry
<1>4. o.copy[p] \in Entry \cup {Null} /\ signed' \subseteq used
  BY <1>1, <1>2 DEF RequestRecord, Shelf, IInv, TypeOK
<1> HIDE DEF append
<1>5. LET entry == append[o.copy[p]] IN
        entry # Null /\ entry.ready => o.copy[p] # Null /\ o.copy[p].ready
  BY <1>3, <1>4
<1>6. PICK n \in RequestRecord : n = NoRequest
  BY NoRecords
<1>7. req' = [req EXCEPT ![r] = n] /\ pc[r] \in {"add", "commit", "remove"}
  BY <1>2, <1>6
<1>8. QED
  BY <1>1, <1>2, <1>3, <1>4, <1>5, <1>7, RequestWrites

LEMMA MarkUploadedInv ==
  ASSUME IInv, NEW r \in Request, MarkUploaded(r)
  PROVE  IInv'
<1> DEFINE uploaded == [entry \in Entry \cup {Null} |->
                         IF entry = Null THEN Null ELSE [entry EXCEPT !.uploaded = TRUE]]
<1>1. PICK o \in RequestRecord, p \in Photo : o = req[r] /\ p = o.photo
  BY DEF MarkUploaded, IInv, TypeOK, RequestRecord, RequestsInv, RequestOk
<1>2. /\ pc[r] = "commit" /\ SetPhotos(o, p, uploaded)
      /\ pc' = [pc EXCEPT ![r] = "enqueue"]
      /\ req' = [req EXCEPT ![r] = [NoRequest EXCEPT !.photo = p]]
      /\ UNCHANGED <<original, variants, used, signed, made, job, erased, committed>>
  BY <1>1 DEF MarkUploaded
<1>3. PICK n \in RequestRecord : n = [NoRequest EXCEPT !.photo = p] /\ n.photo = p
  <2>1. \A record \in RequestRecord :
          [record EXCEPT !.photo = p] \in RequestRecord /\ [record EXCEPT !.photo = p].photo = p
    BY DEF RequestRecord
  <2>2. QED
    BY <2>1, NoRecords
<1>4. /\ uploaded \in [Entry \cup {Null} -> Entry \cup {Null}]
      /\ uploaded[Null] = Null
      /\ \A e \in Entry : e # Null => uploaded[e].ready = e.ready
  BY DEF Entry
<1>5. o.copy[p] \in Entry \cup {Null} /\ signed' \subseteq used
  BY <1>1, <1>2 DEF RequestRecord, Shelf, IInv, TypeOK
<1> HIDE DEF uploaded
<1>6. QED
  BY <1>1, <1>2, <1>3, <1>4, <1>5, RequestWrites

LEMMA RemoveEntryInv ==
  ASSUME IInv, NEW r \in Request, RemoveEntry(r)
  PROVE  IInv'
<1> DEFINE remove == [entry \in Entry \cup {Null} |-> Null]
<1>1. PICK o \in RequestRecord, p \in Photo : o = req[r] /\ p = o.photo
  BY DEF RemoveEntry, IInv, TypeOK, RequestRecord, RequestsInv, RequestOk
<1>2. /\ pc[r] = "remove" /\ SetPhotos(o, p, remove)
      /\ pc' = [pc EXCEPT ![r] = "idle"] /\ req' = [req EXCEPT ![r] = NoRequest]
      /\ UNCHANGED <<original, variants, used, signed, made, job, erased, committed>>
  BY <1>1 DEF RemoveEntry, Answer
<1>3. /\ remove \in [Entry \cup {Null} -> Entry \cup {Null}]
      /\ \A e \in Entry \cup {Null} : remove[e] = Null
  OBVIOUS
<1>4. o.copy[p] \in Entry \cup {Null} /\ signed' \subseteq used
  BY <1>1, <1>2 DEF RequestRecord, Shelf, IInv, TypeOK
<1> HIDE DEF remove
<1>5. QED
  BY <1>1, <1>2, <1>3, <1>4, NoRecords, RequestWrites

LEMMA EnqueueInv ==
  ASSUME IInv, NEW r \in Request, Enqueue(r)
  PROVE  IInv'
<1>1. PICK p \in Photo : p = req[r].photo
  BY DEF Enqueue, IInv, RequestsInv, RequestOk
<1>2. PICK j \in Job :
        job' = [job EXCEPT ![j] = [NoJob EXCEPT !.state = "waiting", !.photo = p]]
  BY <1>1 DEF Enqueue, Add
<1>3. PICK n \in JobRecord :
        /\ n = [NoJob EXCEPT !.state = "waiting", !.photo = p]
        /\ n.state = "waiting" /\ n.photo = p /\ n.attempts = 0 /\ n.done = {}
  <2>1. \A record \in JobRecord :
          /\ [record EXCEPT !.state = "waiting", !.photo = p] \in JobRecord
          /\ [record EXCEPT !.state = "waiting", !.photo = p].state = "waiting"
          /\ [record EXCEPT !.state = "waiting", !.photo = p].photo = p
          /\ [record EXCEPT !.state = "waiting", !.photo = p].attempts = record.attempts
          /\ [record EXCEPT !.state = "waiting", !.photo = p].done = record.done
    BY DEF JobRecord
  <2>2. NoJob.attempts = 0 /\ NoJob.done = {}
    BY DEF NoJob
  <2>3. QED
    BY <2>1, <2>2, NoRecords
<1>4. /\ job' \in [Job -> JobRecord] /\ job'[j] = n
      /\ \A i \in Job \ {j} : job'[i] = job[i]
  BY <1>2, <1>3 DEF IInv, TypeOK, JobRecord
<1>5. FilesKept /\ photos' = photos /\ committed' \subseteq Photo
  BY <1>1, FilesStay DEF Enqueue, IInv, TypeOK
<1>6. JobsInv'
  <2> SUFFICES ASSUME NEW i \in Job PROVE JobOk(i)'
    BY DEF JobsInv
  <2>1. CASE i = j
    <3>1. 0 < MaxAttempts
      BY PhotosAssumption
    <3>2. /\ job'[i].state = "waiting" /\ job'[i].photo \in Photo /\ job'[i].attempts = 0
          /\ job'[i].done = {}
      BY <1>3, <1>4, <2>1
    <3>3. QED
      BY <3>1, <3>2 DEF JobOk
  <2>2. CASE i # j
    BY <1>4, <1>5, <2>2, JobKeeps
  <2>3. QED
    BY <2>1, <2>2
<1>7. QED
  BY <1>4, <1>5, <1>6, RequestForgets DEF Enqueue

LEMMA EraseFilesInv ==
  ASSUME IInv, NEW r \in Request, EraseFiles(r)
  PROVE  IInv'
<1>1. PICK p \in Photo : p = req[r].photo
  BY DEF EraseFiles, IInv, RequestsInv, RequestOk
<1>2. /\ pc' = [pc EXCEPT ![r] = "remove"]
      /\ UNCHANGED <<photos, used, signed, req, made, job, intended, overwritten, committed>>
  BY DEF EraseFiles
<1>3. /\ original' \subseteq Photo /\ erased' \subseteq Photo
      /\ FilesKept
  <2>1. CASE /\ original' = original \ {p} /\ erased' = erased \cup {p}
             /\ (variants' = [variants EXCEPT ![p] = {}] \/ variants' = variants)
    BY <2>1 DEF IInv, TypeOK, FilesKept
  <2>2. CASE UNCHANGED <<original, variants, erased>>
    BY <2>2, FilesStay DEF IInv, TypeOK
  <2>3. QED
    BY <1>1, <2>1, <2>2 DEF EraseFiles
<1>4. /\ pc'[r] = "remove" /\ pc' \in [Request -> {"idle", "add", "commit", "enqueue", "erase", "remove"}]
      /\ \A q \in Request \ {r} : pc'[q] = pc[q] /\ req'[q] = req[q]
  BY <1>2 DEF IInv, TypeOK
<1>5. RequestOk(r)'
  <2>1. RequestOk(r) /\ pc[r] = "erase"
    BY DEF EraseFiles, IInv, RequestsInv
  <2>2. ReadyIn(req[r].copy, variants', erased')
    BY <1>3, <2>1, StaysReady DEF IInv, RequestOk
  <2>3. QED
    BY <1>2, <1>4, <2>1, <2>2 DEF RequestOk, Few
<1>6. TypeOK'
  BY <1>2, <1>3, <1>4 DEF IInv, TypeOK, FilesKept
<1>7. QED
  BY <1>2, <1>3, <1>4, <1>5, <1>6, JobsStay, OneRequestMoves

LEMMA UploadInv ==
  ASSUME IInv, NEW p \in Photo, Upload(p)
  PROVE  IInv'
<1>1. /\ original' = original \cup {p}
      /\ UNCHANGED <<photos, variants, used, signed, pc, req, made, job>>
      /\ UNCHANGED <<intended, overwritten, erased, committed>>
  BY DEF Upload, request, history
<1>2. TypeOK'
  BY <1>1 DEF IInv, TypeOK
<1>3. FilesKept
  BY <1>1, FilesStay
<1>4. RequestsInv' /\ JobsInv'
  BY <1>1, <1>3, RequestKeeps, JobsStay DEF RequestsInv
<1>5. QED
  BY <1>1, <1>2, <1>3, <1>4, ColumnStays DEF IInv

-----------------------------------------------------------------------------
(* The workers.                                                            *)

\* The files and the column stay while job j becomes n.
LEMMA JobBecomes ==
  ASSUME IInv, NEW j \in Job, NEW n \in JobRecord, job' = [job EXCEPT ![j] = n],
         UNCHANGED <<photos, original, variants, used, signed, request, history>>,
         JobOk(j)'
  PROVE  IInv'
<1>1. UNCHANGED <<pc, req, made, intended, overwritten, erased, committed>>
  BY DEF request, history
<1>2. job' \in [Job -> JobRecord] /\ \A i \in Job \ {j} : job'[i] = job[i]
  BY DEF IInv, TypeOK, JobRecord
<1>3. TypeOK'
  BY <1>1, <1>2 DEF IInv, TypeOK, JobRecord
<1>4. QED
  BY <1>1, <1>2, <1>3, FilesStay, OneJobMoves

\* A job that has forgotten what it did: it waits, or it has failed for good.
LEMMA JobStartsOver ==
  ASSUME IInv, NEW j \in Job, job[j].state \in {"waiting", "resize", "patch", "patched"},
         NEW attempts \in 0 .. MaxAttempts, NEW stalls \in 0 .. MaxStalls,
         NEW state \in {"waiting", "failed"}, state = "waiting" => attempts < MaxAttempts,
         job' = [job EXCEPT ![j] = [NoJob EXCEPT !.photo = job[j].photo, !.stalls = stalls,
                                                 !.attempts = attempts, !.state = state]],
         UNCHANGED <<photos, original, variants, used, signed, request, history>>
  PROVE  IInv'
<1>1. PICK p \in Photo : p = job[j].photo
  BY DEF IInv, JobsInv, JobOk
<1>2. \A record \in JobRecord :
        LET new == [record EXCEPT !.photo = p, !.stalls = stalls,
                                  !.attempts = attempts, !.state = state] IN
        /\ new \in JobRecord /\ new.done = record.done
        /\ new.photo = p /\ new.attempts = attempts /\ new.state = state
  BY DEF JobRecord
<1>3. PICK n \in JobRecord :
        /\ job' = [job EXCEPT ![j] = n]
        /\ n.photo = p /\ n.attempts = attempts /\ n.state = state /\ n.done = {}
  <2>1. NoJob.done = {}
    BY DEF NoJob
  <2>2. QED
    BY <1>1, <1>2, <2>1, NoRecords
<1>4. job'[j] = n
  BY <1>3 DEF IInv, TypeOK
<1>5. JobOk(j)'
  BY <1>3, <1>4 DEF JobOk
<1>6. QED
  BY <1>3, <1>5, JobBecomes

LEMMA ThrowInv ==
  ASSUME IInv, NEW j \in Job, job[j].state \in {"waiting", "resize", "patch", "patched"}, Throw(j),
         UNCHANGED <<photos, original, variants, used, signed, request, history>>
  PROVE  IInv'
<1>1. /\ job[j].attempts \in 0 .. MaxAttempts /\ job[j].attempts < MaxAttempts
      /\ job[j].stalls \in 0 .. MaxStalls
  BY DEF IInv, TypeOK, JobsInv, JobOk
<1>2. PICK attempts \in 0 .. MaxAttempts : attempts = job[j].attempts + 1
  BY <1>1, PhotosAssumption
<1>3. PICK state \in {"waiting", "failed"} :
        state = IF attempts < MaxAttempts THEN "waiting" ELSE "failed"
  OBVIOUS
<1>4. state = "waiting" => attempts < MaxAttempts
  BY <1>3
<1>5. job' = [job EXCEPT ![j] = [NoJob EXCEPT !.photo = job[j].photo, !.stalls = job[j].stalls,
                                              !.attempts = attempts, !.state = state]]
  BY <1>2, <1>3 DEF Throw
<1>6. QED
  BY <1>1, <1>4, <1>5, JobStartsOver

LEMMA WorkFailsInv ==
  ASSUME IInv, NEW j \in Job, WorkFails(j)
  PROVE  IInv'
BY ThrowInv DEF WorkFails

LEMMA StallInv ==
  ASSUME IInv, NEW j \in Job, Stall(j)
  PROVE  IInv'
<1>1. /\ job[j].state \in {"waiting", "resize", "patch", "patched"}
      /\ job[j].attempts \in 0 .. MaxAttempts /\ job[j].attempts < MaxAttempts
      /\ job[j].stalls \in 0 .. MaxStalls
  BY DEF Stall, Active, IInv, TypeOK, JobsInv, JobOk
<1>2. CASE job[j].stalls < MaxStalls
  <2>1. PICK stalls \in 0 .. MaxStalls : stalls = job[j].stalls + 1
    BY <1>1, <1>2, PhotosAssumption
  <2>2. job' = [job EXCEPT ![j] = [NoJob EXCEPT !.photo = job[j].photo, !.stalls = stalls,
                                     !.attempts = job[j].attempts, !.state = "waiting"]]
    BY <1>2, <2>1 DEF Stall
  <2>3. QED
    BY <1>1, <2>2, JobStartsOver DEF Stall
<1>3. CASE ~(job[j].stalls < MaxStalls)
  <2>1. job' = [job EXCEPT ![j] = [NoJob EXCEPT !.photo = job[j].photo, !.stalls = NoJob.stalls,
                                     !.attempts = job[j].attempts, !.state = "failed"]]
    BY <1>3 DEF Stall
  <2>2. NoJob.stalls \in 0 .. MaxStalls
    BY NoRecords DEF JobRecord
  <2>3. QED
    BY <1>1, <2>1, <2>2, JobStartsOver DEF Stall
<1>4. QED
  BY <1>2, <1>3

LEMMA DownloadInv ==
  ASSUME IInv, NEW j \in Job, Download(j)
  PROVE  IInv'
<1>1. /\ job[j].state = "waiting"
      /\ UNCHANGED <<photos, original, variants, used, signed, request, history>>
  BY DEF Download
<1>2. CASE Throw(j)
  BY <1>1, <1>2, ThrowInv
<1>3. CASE job' = [job EXCEPT ![j].state = "resize"]
  <2>1. PICK old \in JobRecord : old = job[j]
    BY DEF IInv, TypeOK, JobRecord
  <2>2. PICK n \in JobRecord :
          /\ n = [old EXCEPT !.state = "resize"] /\ n.state = "resize"
          /\ n.photo = old.photo /\ n.attempts = old.attempts /\ n.done = old.done
    <3>1. LET new == [old EXCEPT !.state = "resize"] IN
            /\ new \in JobRecord /\ new.state = "resize"
            /\ new.photo = old.photo /\ new.attempts = old.attempts /\ new.done = old.done
      BY DEF JobRecord
    <3>2. QED
      BY <3>1
  <2>3. job' = [job EXCEPT ![j] = n] /\ job'[j] = n
    BY <1>3, <2>1, <2>2 DEF IInv, TypeOK
  <2>4. UNCHANGED <<variants, erased>>
    BY <1>1 DEF history
  <2>5. JobOk(j)'
    BY <1>1, <2>1, <2>2, <2>3, <2>4 DEF JobOk, IInv, JobsInv
  <2>6. QED
    BY <1>1, <2>3, <2>5, JobBecomes
<1>4. QED
  BY <1>2, <1>3 DEF Download

LEMMA UploadVariantInv ==
  ASSUME IInv, NEW j \in Job, NEW v \in Variant, UploadVariant(j, v)
  PROVE  IInv'
<1>1. PICK old \in JobRecord, p \in Photo :
        /\ old = job[j] /\ p = old.photo
        /\ old.state = "resize" /\ old.attempts < MaxAttempts
        /\ p \in erased \/ old.done \subseteq variants[p]
  BY DEF UploadVariant, IInv, TypeOK, JobRecord, JobsInv, JobOk
<1>2. /\ variants' = [variants EXCEPT ![p] = @ \cup {v}]
      /\ job' = [job EXCEPT ![j].done = @ \cup {v}]
      /\ UNCHANGED <<photos, original, used, signed, pc, req, made>>
      /\ UNCHANGED <<intended, overwritten, erased, committed>>
  BY <1>1 DEF UploadVariant, request, history
<1>3. PICK n \in JobRecord :
        /\ n = [old EXCEPT !.done = @ \cup {v}] /\ n.done = old.done \cup {v}
        /\ n.state = old.state /\ n.photo = old.photo /\ n.attempts = old.attempts
  <2>1. LET new == [old EXCEPT !.done = @ \cup {v}] IN
          /\ new \in JobRecord /\ new.done = old.done \cup {v}
          /\ new.state = old.state /\ new.photo = old.photo /\ new.attempts = old.attempts
    BY DEF JobRecord
  <2>2. QED
    BY <2>1
<1>4. /\ job' = [job EXCEPT ![j] = n] /\ job'[j] = n /\ job' \in [Job -> JobRecord]
      /\ \A i \in Job \ {j} : job'[i] = job[i]
  BY <1>1, <1>2, <1>3 DEF IInv, TypeOK, JobRecord
<1>5. FilesKept /\ variants'[p] = variants[p] \cup {v}
  BY <1>2 DEF FilesKept, IInv, TypeOK
<1>6. TypeOK'
  BY <1>2, <1>4, <1>5 DEF IInv, TypeOK, JobRecord, FilesKept
<1>7. JobOk(j)'
  BY <1>1, <1>2, <1>3, <1>4, <1>5 DEF JobOk
<1>8. QED
  BY <1>2, <1>4, <1>5, <1>6, <1>7, OneJobMoves

LEMMA ReReadInv ==
  ASSUME IInv, NEW j \in Job, ReRead(j)
  PROVE  IInv'
<1>1. PICK old \in JobRecord :
        /\ old = job[j] /\ old.state = "resize" /\ old.done = Variant
        /\ old.photo \in Photo /\ old.attempts < MaxAttempts
        /\ old.photo \in erased \/ old.done \subseteq variants[old.photo]
  BY DEF ReRead, IInv, TypeOK, JobRecord, JobsInv, JobOk
<1>2. /\ job' = [job EXCEPT ![j].state = "patch", ![j].copy = photos]
      /\ UNCHANGED <<photos, original, variants, used, signed, request, history>>
      /\ UNCHANGED <<variants, erased>>
  BY DEF ReRead, history
<1>3. photos \in Shelf /\ Few(photos) /\ ReadyIn(photos, variants, erased)
  BY DEF IInv, TypeOK, Few, AtMostMaxPhotos, ReadyIn, ReadyHasFiles
<1>4. PICK n \in JobRecord :
        /\ n = [old EXCEPT !.state = "patch", !.copy = photos]
        /\ n.state = "patch" /\ n.copy = photos /\ n.done = old.done
        /\ n.photo = old.photo /\ n.attempts = old.attempts
  <2>1. LET new == [old EXCEPT !.state = "patch", !.copy = photos] IN
          /\ new \in JobRecord /\ new.state = "patch" /\ new.copy = photos
          /\ new.done = old.done /\ new.photo = old.photo /\ new.attempts = old.attempts
    BY <1>3 DEF JobRecord
  <2>2. QED
    BY <2>1
<1>5. job' = [job EXCEPT ![j] = n] /\ job'[j] = n
  BY <1>1, <1>2, <1>4 DEF IInv, TypeOK
<1>6. JobOk(j)'
  BY <1>1, <1>2, <1>3, <1>4, <1>5 DEF JobOk, Few
<1>7. QED
  BY <1>2, <1>5, <1>6, JobBecomes

LEMMA PatchInv ==
  ASSUME IInv, NEW j \in Job, Patch(j)
  PROVE  IInv'
<1> DEFINE ready == [entry \in Entry \cup {Null} |->
                      IF entry = Null THEN Null ELSE [entry EXCEPT !.ready = TRUE]]
<1>1. PICK o \in JobRecord, p \in Photo :
        /\ o = job[j] /\ p = o.photo /\ o.attempts < MaxAttempts /\ o.done = Variant
        /\ p \in erased \/ o.done \subseteq variants[p]
        /\ Few(o.copy) /\ ReadyIn(o.copy, variants, erased)
  BY DEF Patch, IInv, TypeOK, JobRecord, JobsInv, JobOk
<1>2. /\ SetPhotos(o, p, ready)
      /\ job' = [job EXCEPT ![j].state = "patched", ![j].copy = NoJob.copy]
      /\ UNCHANGED <<original, variants, used, signed, pc, req, made, erased, committed>>
  BY <1>1 DEF Patch, request
<1>3. /\ ready \in [Entry \cup {Null} -> Entry \cup {Null}]
      /\ ready[Null] = Null
  BY DEF Entry
<1> HIDE DEF ready
<1>4. o.copy \in Shelf /\ o.copy[p] \in Entry \cup {Null} /\ ready[o.copy[p]] \in Entry \cup {Null}
  BY <1>3 DEF JobRecord, Shelf
<1>5. Few([o.copy EXCEPT ![p] = ready[o.copy[p]]])
  <2>1. LET new == [o.copy EXCEPT ![p] = ready[o.copy[p]]] IN
          /\ Cardinality(Shown(new)) <= Cardinality(Shown(o.copy))
          /\ Cardinality(Shown(new)) \in Nat /\ Cardinality(Shown(o.copy)) \in Nat
    BY <1>3, <1>4, ShownChanged, ShownIsFinite
  <2>2. QED
    BY <1>1, <2>1, PhotosAssumption DEF Few
<1>6. p \in erased \/ variants[p] = Variant
  BY <1>1 DEF IInv, TypeOK
<1>7. /\ photos' \in Shelf /\ intended' \in Shelf /\ overwritten' \subseteq Photo
      /\ PhotosAsIntended' /\ AtMostMaxPhotos' /\ ReadyHasFiles'
  BY <1>1, <1>2, <1>3, <1>4, <1>5, <1>6, ColumnWritten
<1>8. PICK n \in JobRecord :
        /\ n = [o EXCEPT !.state = "patched", !.copy = NoJob.copy]
        /\ n.state = "patched" /\ n.photo = p /\ n.attempts = o.attempts /\ n.done = o.done
  <2>1. NoJob.copy \in Shelf
    BY NoRecords DEF JobRecord
  <2>2. \A shelf \in Shelf :
          LET new == [o EXCEPT !.state = "patched", !.copy = shelf] IN
          /\ new \in JobRecord /\ new.state = "patched"
          /\ new.photo = o.photo /\ new.attempts = o.attempts /\ new.done = o.done
    BY DEF JobRecord
  <2>3. QED
    BY <1>1, <2>1, <2>2
<1>9. /\ job' \in [Job -> JobRecord]
      /\ job'[j] = n /\ \A i \in Job \ {j} : job'[i] = job[i]
  BY <1>1, <1>2, <1>8 DEF IInv, TypeOK, JobRecord
<1>10. TypeOK'
  BY <1>2, <1>7, <1>9 DEF IInv, TypeOK, JobRecord
<1>11. RequestsInv'
  BY <1>2, FilesStay, RequestKeeps DEF RequestsInv
<1>12. JobsInv'
  <2> SUFFICES ASSUME NEW i \in Job PROVE JobOk(i)'
    BY DEF JobsInv
  <2>1. CASE i = j
    BY <1>1, <1>2, <1>8, <1>9, <2>1 DEF JobOk
  <2>2. CASE i # j
    BY <1>2, <1>9, <2>2, FilesStay, JobKeeps
  <2>3. QED
    BY <2>1, <2>2
<1>13. QED
  BY <1>7, <1>10, <1>11, <1>12 DEF IInv

LEMMA CompleteInv ==
  ASSUME IInv, NEW j \in Job, Complete(j)
  PROVE  IInv'
<1>1. PICK p \in Photo : p = job[j].photo
  BY DEF Complete, IInv, JobsInv, JobOk
<1>2. PICK n \in JobRecord :
        /\ n = [NoJob EXCEPT !.photo = p, !.state = "completed"] /\ n.state = "completed"
  <2>1. \A record \in JobRecord :
          LET new == [record EXCEPT !.photo = p, !.state = "completed"] IN
          new \in JobRecord /\ new.state = "completed"
    BY DEF JobRecord
  <2>2. QED
    BY <2>1, NoRecords
<1>3. job' = [job EXCEPT ![j] = n] /\ job'[j] = n
  BY <1>1, <1>2 DEF Complete, IInv, TypeOK
<1>4. JobOk(j)'
  BY <1>2, <1>3 DEF JobOk
<1>5. QED
  BY <1>3, <1>4, JobBecomes DEF Complete

-----------------------------------------------------------------------------

LEMMA NextInv == IInv /\ [Next]_vars => IInv'
<1> SUFFICES ASSUME IInv, [Next]_vars PROVE IInv'
  OBVIOUS
<1>1. CASE \E r \in Request, p \in Photo : InitUpload(r, p) \/ Commit(r, p) \/ Delete(r, p)
  BY <1>1, InitUploadInv, CommitOrDeleteInv
<1>2. CASE \E r \in Request :
             \/ AddEntry(r) \/ MarkUploaded(r) \/ Enqueue(r)
             \/ EraseFiles(r) \/ RemoveEntry(r) \/ Fail(r)
  BY <1>2, AddEntryInv, MarkUploadedInv, EnqueueInv, EraseFilesInv, RemoveEntryInv, FailInv
<1>3. CASE \E p \in Photo : Upload(p)
  BY <1>3, UploadInv
<1>4. CASE \E j \in Job : Work(j) \/ WorkFails(j) \/ Stall(j)
  BY <1>4, DownloadInv, UploadVariantInv, ReReadInv, PatchInv, CompleteInv,
     WorkFailsInv, StallInv DEF Work
<1>5. CASE UNCHANGED vars
  <2>1. /\ UNCHANGED <<photos, original, variants, used, signed, pc, req, made, job>>
        /\ UNCHANGED <<intended, overwritten, erased, committed>>
    BY <1>5 DEF vars, request, history
  <2>2. FilesKept /\ TypeOK'
    BY <2>1, FilesStay DEF IInv, TypeOK
  <2>3. RequestsInv' /\ JobsInv'
    BY <2>1, <2>2, RequestKeeps, JobsStay DEF RequestsInv
  <2>4. QED
    BY <2>1, <2>2, <2>3, ColumnStays DEF IInv
<1>6. QED
  BY <1>1, <1>2, <1>3, <1>4, <1>5 DEF Next

\* Whatever the requests, the workers, failures and crashes between their awaits do, the
\* copies in flight, those of jobs that run in several workers at once included, stay fit to
\* be written.
THEOREM Invariance == Spec => []IInv
<1>1. Init => IInv
  BY InitInv
<1>2. IInv /\ [Next]_vars => IInv'
  BY NextInv
<1>3. QED
  BY <1>1, <1>2, PTL DEF Spec

\* The column, the jobs and the files have their types; no job runs more often than the
\* queue is told to attempt it (jobs.module.ts).
THEOREM TypeCorrect == Spec => []TypeOK
<1>1. IInv => TypeOK
  BY DEF IInv
<1>2. QED
  BY <1>1, Invariance, PTL

\* The entry of each photo is what its operations, each taken as atomic, have made of it,
\* unless a request or a job has put back an old copy of that entry: no lost update, of
\* request against request, request against job or job against job, harms another entry
\* (listing-photos.service.ts and image-processing.processor.ts, setPhotos).
THEOREM ColumnIsAsIntended == Spec => []PhotosAsIntended
<1>1. IInv => PhotosAsIntended
  BY DEF IInv
<1>2. QED
  BY <1>1, Invariance, PTL

\* The listing never shows more photos than MAX_PHOTOS, lost updates or not: a copy to which
\* initUpload adds was below the limit when it was read (listing-photos.service.ts:46).
THEOREM LimitHolds == Spec => []AtMostMaxPhotos
<1>1. IInv => AtMostMaxPhotos
  BY DEF IInv
<1>2. QED
  BY <1>1, Invariance, PTL

\* What the listing shows as ready has every variant in the bucket, unless a delete has
\* removed its files: a worker marks it after the last upload, on a row read anew, and no
\* copy in flight shows more than that, whichever jobs overlap and whenever one runs again,
\* after its write too (image-processing.processor.ts).
THEOREM ReadyIsFetchable == Spec => []ReadyHasFiles
<1>1. IInv => ReadyHasFiles
  BY DEF IInv
<1>2. QED
  BY <1>1, Invariance, PTL

===============================================================================
