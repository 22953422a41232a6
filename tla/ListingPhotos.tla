----------------------------- MODULE ListingPhotos -----------------------------
(***************************************************************************)
(* The photos of one listing: src/src/modules/listings/photos/.            *)
(*                                                                         *)
(* listings.photos is one JSON array.  initUpload, commit, delete and the  *)
(* workers of the image-processing queue each read it, change their copy   *)
(* and write the whole copy back, with no lock; the files are in the       *)
(* bucket of Supabase Storage, which no transaction covers.  A request is  *)
(* split at its awaits: between two of them any other request, a worker or *)
(* a crash may come.  The API process and the worker process (worker.ts)   *)
(* both boot the processor, so any number of jobs run at once, each in one *)
(* consumer at a time.  Requests of others than the owner are refused at   *)
(* the read and left out; whether the listing is deleted matters to none.  *)
(***************************************************************************)
EXTENDS Naturals, FiniteSets

CONSTANTS
  Photo,        \* the ids initUpload may draw
  Request,      \* requests that may be in flight at once
  Existing,     \* photos the listing already shows, processed, in the initial state
  Job,          \* bound on the jobs ever enqueued
  MaxRequests,  \* bound on the requests ever made
  Variant,      \* the resized files of a photo (sm, md, lg)
  MaxPhotos,    \* MAX_PHOTOS
  MaxAttempts,  \* attempts of defaultJobOptions
  MaxStalls,    \* how often BullMQ restarts a job whose worker died
  Null

ASSUME PhotosAssumption ==
  /\ MaxPhotos \in Nat /\ MaxStalls \in Nat /\ MaxRequests \in Nat
  /\ Existing \subseteq Photo /\ IsFiniteSet(Photo) /\ Cardinality(Existing) <= MaxPhotos
  /\ MaxAttempts \in Nat \ {0}
  /\ Null \notin Photo \cup Job

VARIABLES
  photos,     \* listings.photos: the entry of each photo, or Null
  original,   \* photos whose uploaded file is in the bucket
  variants,   \* the variants of each photo in the bucket
  used,       \* ids drawn so far
  signed,     \* photos for which the client holds a signed upload URL
  pc, req,    \* what each request is in the middle of
  made,       \* the number of requests so far
  job,        \* the queue: the state of each job
  intended,    \* history: photos as atomic operations would have left it
  overwritten, \* history: photos whose entry somebody else's write has put back as it was
  erased,      \* history: photos whose files a delete has removed
  committed    \* history: photos whose commit was answered with success

request == <<pc, req, made>>
history == <<intended, overwritten, erased, committed>>
vars == <<photos, original, variants, used, signed, request, job, history>>

\* An entry: uploadedAt # null; ready, with the paths of the variants.
Entry == [uploaded : BOOLEAN, ready : BOOLEAN]
NewEntry == [uploaded |-> FALSE, ready |-> FALSE]
Shelf == [Photo -> Entry \cup {Null}]
Shown(shelf) == {p \in Photo : shelf[p] # Null}

NoRequest == [photo |-> Null, copy |-> [p \in Photo |-> Null]]
NoJob == [state |-> "none", photo |-> Null, attempts |-> 0, stalls |-> 0,
          done |-> {}, copy |-> [p \in Photo |-> Null]]

\* The column, the jobs and the files have their types, and a job that keeps throwing is
\* not attempted more often than the queue is told to (jobs.module.ts).
TypeOK ==
  /\ photos \in Shelf /\ intended \in Shelf
  /\ original \subseteq Photo
  /\ variants \in [Photo -> SUBSET Variant]
  /\ signed \subseteq used /\ used \subseteq Photo
  /\ pc \in [Request -> {"idle", "add", "commit", "enqueue", "erase", "remove"}]
  /\ req \in [Request -> [photo : Photo \cup {Null}, copy : Shelf]]
  /\ made \in 0 .. MaxRequests
  /\ job \in [Job -> [state : {"none", "waiting", "resize", "patch", "patched", "completed", "failed"},
                      photo : Photo \cup {Null}, attempts : 0 .. MaxAttempts,
                      stalls : 0 .. MaxStalls, done : SUBSET Variant,
                      copy : Shelf]]
  /\ overwritten \subseteq Photo
  /\ erased \subseteq Photo /\ committed \subseteq Photo

Init ==
  /\ photos = [p \in Photo |-> IF p \in Existing THEN [uploaded |-> TRUE, ready |-> TRUE] ELSE Null]
  /\ intended = photos
  /\ original = Existing
  /\ variants = [p \in Photo |-> IF p \in Existing THEN Variant ELSE {}]
  /\ used = Existing /\ signed = {}
  /\ pc = [r \in Request |-> "idle"] /\ req = [r \in Request |-> NoRequest] /\ made = 0
  /\ job = [j \in Job |-> NoJob]
  /\ overwritten = {} /\ erased = {} /\ committed = {}

-----------------------------------------------------------------------------

\* getOwnedRowOrFail: request r reads the row.
Read(r, step, p) ==
  /\ pc[r] = "idle" /\ made < MaxRequests
  /\ made' = made + 1
  /\ pc' = [pc EXCEPT ![r] = step]
  /\ req' = [req EXCEPT ![r] = [photo |-> p, copy |-> photos]]

\* Mutant: the change is made to the array as it is by then.
Current(o) == photos

\* The array a request or a job changes: its own copy.
Copy(o) == o.copy

\* setPhotos: the whole copy is written, with the change, a function of entries, made to p's.
\* The write of another that came after the copy was read is lost, entry by entry.
SetPhotos(o, p, change) ==
  /\ photos' = [Copy(o) EXCEPT ![p] = change[@]]
  /\ overwritten' = overwritten \cup {q \in Photo : Copy(o)[q] # photos[q]}
  /\ intended' = [intended EXCEPT ![p] = change[@]]

\* A request ends: it is answered, throws or dies with its process.
Answer(r) == pc' = [pc EXCEPT ![r] = "idle"] /\ UNCHANGED made

Fail(r) ==
  /\ pc[r] # "idle"
  /\ Answer(r)
  /\ req' = [req EXCEPT ![r] = NoRequest]
  /\ UNCHANGED <<photos, original, variants, used, signed, job, history>>

-----------------------------------------------------------------------------
(* ListingPhotosService.                                                   *)

\* initUpload: the limit is checked on the row read, the id is drawn.
InitUpload(r, p) ==
  /\ Cardinality(Shown(photos)) < MaxPhotos
  /\ p \notin used
  /\ used' = used \cup {p}
  /\ Read(r, "add", p)
  /\ UNCHANGED <<photos, original, variants, signed, job, history>>

\* The URL is signed; the pending entry is appended and the URL returned.
AddEntry(r) ==
  LET p == req[r].photo
      append == [entry \in Entry \cup {Null} |-> NewEntry] IN
  /\ pc[r] = "add"
  /\ SetPhotos(req[r], p, append)
  /\ signed' = signed \cup {p}
  /\ Answer(r)
  /\ req' = [req EXCEPT ![r] = NoRequest]
  /\ UNCHANGED <<original, variants, used, job, erased, committed>>

\* The client sends the file to the signed URL, whatever became of the entry.
Upload(p) ==
  /\ p \in signed /\ p \notin original
  /\ original' = original \cup {p}
  /\ UNCHANGED <<photos, variants, used, signed, request, job, history>>

\* commit: 404 unless the row read has the photo.
Commit(r, p) ==
  /\ photos[p] # Null
  /\ Read(r, "commit", p)
  /\ UNCHANGED <<photos, original, variants, used, signed, job, history>>

MarkUploaded(r) ==
  LET p == req[r].photo
      uploaded == [entry \in Entry \cup {Null} |->
                    IF entry = Null THEN Null ELSE [entry EXCEPT !.uploaded = TRUE]] IN
  /\ pc[r] = "commit"
  /\ SetPhotos(req[r], p, uploaded)
  /\ pc' = [pc EXCEPT ![r] = "enqueue"] /\ UNCHANGED made
  /\ req' = [req EXCEPT ![r] = [NoRequest EXCEPT !.photo = p]]
  /\ UNCHANGED <<original, variants, used, signed, job, erased, committed>>

\* Mutant: the job is not added when another one is in the queue.
AddFirst(p) ==
  \/ \E j \in Job :
       /\ \A other \in Job : job[other].state = "none"
       /\ job' = [job EXCEPT ![j] = [NoJob EXCEPT !.state = "waiting", !.photo = p]]
  \/ (\E other \in Job : job[other].state # "none") /\ UNCHANGED job

\* imageQueue.add
Add(p) ==
  \E j \in Job :
    /\ job[j].state = "none"
    /\ job' = [job EXCEPT ![j] = [NoJob EXCEPT !.state = "waiting", !.photo = p]]

\* The job is enqueued and the request answered.
Enqueue(r) ==
  /\ pc[r] = "enqueue"
  /\ Add(req[r].photo)
  /\ committed' = committed \cup {req[r].photo}
  /\ Answer(r)
  /\ req' = [req EXCEPT ![r] = NoRequest]
  /\ UNCHANGED <<photos, original, variants, used, signed, intended, overwritten, erased>>

\* delete: 404 unless the row read has the photo.
Delete(r, p) ==
  /\ photos[p] # Null
  /\ Read(r, "erase", p)
  /\ UNCHANGED <<photos, original, variants, used, signed, job, history>>

\* The files named by the entry read are removed; an error of the storage is ignored.
EraseFiles(r) ==
  LET p == req[r].photo IN
  /\ pc[r] = "erase"
  /\ \/ /\ original' = original \ {p}
        /\ variants' = IF req[r].copy[p].ready THEN [variants EXCEPT ![p] = {}] ELSE variants
        /\ erased' = erased \cup {p}
     \/ UNCHANGED <<original, variants, erased>>
  /\ pc' = [pc EXCEPT ![r] = "remove"]
  /\ UNCHANGED <<photos, used, signed, req, made, job, intended, overwritten, committed>>

RemoveEntry(r) ==
  LET p == req[r].photo
      remove == [entry \in Entry \cup {Null} |-> Null] IN
  /\ pc[r] = "remove"
  /\ SetPhotos(req[r], p, remove)
  /\ Answer(r)
  /\ req' = [req EXCEPT ![r] = NoRequest]
  /\ UNCHANGED <<original, variants, used, signed, job, erased, committed>>

-----------------------------------------------------------------------------
(* ImageProcessingProcessor, and BullMQ as far as it decides what runs.    *)

Active(j) == job[j].state \in {"resize", "patch", "patched"}

\* Mutant: a job that throws is retried without end.
RetryForever(j) ==
  job' = [job EXCEPT ![j] = [NoJob EXCEPT !.photo = job[j].photo, !.stalls = job[j].stalls,
                             !.attempts = job[j].attempts + 1, !.state = "waiting"]]

\* A job whose step threw waits for its next attempt or is failed for good.
Throw(j) ==
  job' = [job EXCEPT ![j] =
    [NoJob EXCEPT !.photo = job[j].photo, !.stalls = job[j].stalls,
                  !.attempts = job[j].attempts + 1,
                  !.state = IF job[j].attempts + 1 < MaxAttempts THEN "waiting" ELSE "failed"]]

\* Some consumer takes the job and downloads the original.
Download(j) ==
  /\ job[j].state = "waiting"
  /\ IF job[j].photo \in original
     THEN job' = [job EXCEPT ![j].state = "resize"]
     ELSE Throw(j)
  /\ UNCHANGED <<photos, original, variants, used, signed, request, history>>

\* One variant is resized and uploaded (upsert: a retry replaces the file).
UploadVariant(j, v) ==
  LET p == job[j].photo IN
  /\ job[j].state = "resize" /\ v \notin job[j].done
  /\ variants' = [variants EXCEPT ![p] = @ \cup {v}]
  /\ job' = [job EXCEPT ![j].done = @ \cup {v}]
  /\ UNCHANGED <<photos, original, used, signed, request, history>>

\* The storage or sharp fails.
WorkFails(j) ==
  /\ job[j].state \in {"resize", "patch"}
  /\ Throw(j)
  /\ UNCHANGED <<photos, original, variants, used, signed, request, history>>

\* Mutant: the row is read as soon as one variant is stored.
ReReadEarly(j) ==
  /\ job[j].state = "resize" /\ job[j].done # {}
  /\ job' = [job EXCEPT ![j].state = "patch", ![j].copy = photos]
  /\ UNCHANGED <<photos, original, variants, used, signed, request, history>>

\* When every variant is stored the row is read anew.
ReRead(j) ==
  /\ job[j].state = "resize" /\ job[j].done = Variant
  /\ job' = [job EXCEPT ![j].state = "patch", ![j].copy = photos]
  /\ UNCHANGED <<photos, original, variants, used, signed, request, history>>

\* Mutant: the worker writes the entry back although it is gone.
PatchAnyway(j) ==
  LET p == job[j].photo IN
  /\ job[j].state = "patch"
  /\ photos' = [job[j].copy EXCEPT ![p] = [uploaded |-> TRUE, ready |-> TRUE]]
  /\ overwritten' = overwritten \cup {q \in Photo : job[j].copy[q] # photos[q]}
  /\ intended' = IF intended[p] = Null THEN intended
                 ELSE [intended EXCEPT ![p].ready = TRUE]
  /\ job' = [job EXCEPT ![j].state = "patched", ![j].copy = NoJob.copy]
  /\ UNCHANGED <<original, variants, used, signed, request, erased, committed>>

\* The entry is marked ready if the row read has it.
Patch(j) ==
  LET p == job[j].photo
      ready == [entry \in Entry \cup {Null} |->
                 IF entry = Null THEN Null ELSE [entry EXCEPT !.ready = TRUE]] IN
  /\ job[j].state = "patch"
  /\ SetPhotos(job[j], p, ready)
  /\ job' = [job EXCEPT ![j].state = "patched", ![j].copy = NoJob.copy]
  /\ UNCHANGED <<original, variants, used, signed, request, erased, committed>>

\* process has returned, and BullMQ moves the job to the completed ones.
Complete(j) ==
  /\ job[j].state = "patched"
  /\ job' = [job EXCEPT ![j] = [NoJob EXCEPT !.photo = job[j].photo, !.state = "completed"]]
  /\ UNCHANGED <<photos, original, variants, used, signed, request, history>>

\* The worker dies, after the write too; BullMQ runs the stalled job again, MaxStalls times
\* at most.
Stall(j) ==
  /\ Active(j)
  /\ job' = [job EXCEPT ![j] =
       [NoJob EXCEPT !.photo = job[j].photo, !.attempts = job[j].attempts,
                     !.stalls = IF job[j].stalls < MaxStalls THEN job[j].stalls + 1 ELSE @,
                     !.state = IF job[j].stalls < MaxStalls THEN "waiting" ELSE "failed"]]
  /\ UNCHANGED <<photos, original, variants, used, signed, request, history>>

-----------------------------------------------------------------------------

Work(j) ==
  \/ Download(j) \/ (\E v \in Variant : UploadVariant(j, v))
  \/ ReRead(j) \/ Patch(j) \/ Complete(j)

Next ==
  \/ \E r \in Request, p \in Photo : InitUpload(r, p) \/ Commit(r, p) \/ Delete(r, p)
  \/ \E r \in Request :
       AddEntry(r) \/ MarkUploaded(r) \/ Enqueue(r) \/ EraseFiles(r) \/ RemoveEntry(r) \/ Fail(r)
  \/ \E p \in Photo : Upload(p)
  \/ \E j \in Job : Work(j) \/ WorkFails(j) \/ Stall(j)

Spec == Init /\ [][Next]_vars

\* A worker keeps running: a job that waits or runs goes on.
FairSpec == Spec /\ \A j \in Job : WF_vars(Work(j))

-----------------------------------------------------------------------------
(* Properties.                                                             *)

\* Whatever the requests, the workers, failures and crashes between their steps, the entry of
\* a photo is what its operations, each taken as atomic, have made of it, unless a write of
\* the column put back a copy of that very entry from before somebody else's write.  A lost
\* update harms no other entry; a photo deleted before its job reads the row stays deleted;
\* and a job that runs again, after its own write too, changes nothing.
PhotosAsIntended == \A p \in Photo : p \in overwritten \/ photos[p] = intended[p]

\* The limit survives even such lost updates: a writer adds its one entry to the
\* copy whose length it has checked (listing-photos.service.ts:46).
AtMostMaxPhotos == Cardinality(Shown(photos)) <= MaxPhotos

\* What the listing shows as ready can be fetched, after retries, stalled jobs, jobs of
\* several workers and lost updates alike, unless a delete has removed the files of that photo: it does
\* so before it removes the entry (listing-photos.service.ts:121-127).
ReadyHasFiles ==
  \A p \in Photo : photos[p] # Null /\ photos[p].ready /\ p \notin erased =>
    variants[p] = Variant

\* A photo whose commit was answered is, in the end, ready, deleted, or the photo of
\* a job in the failed set where ops can see it, unless an update of its own entry was lost.
CommittedIsProcessed ==
  \A p \in Photo :
    p \in committed ~> \/ photos[p] = Null \/ photos[p].ready \/ p \in overwritten
                       \/ \E j \in Job : job[j].photo = p /\ job[j].state = "failed"

=============================================================================
