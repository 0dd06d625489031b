------------------------------ MODULE MediaStore ------------------------------
(***************************************************************************)
(* The private media store (media.py): one _Store, shared by every entry,  *)
(* and the MediaManager of an entry.  Received attachments are referenced  *)
(* when they are observed and downloaded when somebody asks for them;      *)
(* uploads are staged for a later send.  Files and their index have to     *)
(* stay within a budget, survive a restart, and go when they expire.       *)
(***************************************************************************)
EXTENDS Naturals, FiniteSets, FiniteSetsExt, Functions

CONSTANTS
  Attachments,  \* ids of observed attachments, one file each
  Uploads,      \* ids of staged uploads
  Readers,      \* downloads over HTTP and sends that have a file open
  Lifetime,     \* RETENTION_SECONDS: of a reference, then of its tombstone
  MaxItems,     \* REFERENCE_MAX_ITEMS
  MaxFiles,     \* CACHE_MAX_FILES
  MaxBytes,     \* MAX_BYTES of one file
  CacheBytes,   \* CACHE_MAX_BYTES
  SweepTime,    \* bound: a sweep of expired files takes no longer
  LastUpload,   \* bound: nothing is uploaded later
  MaxTime,      \* bound: the clock stops here
  MaxFailures,  \* bound: failing writes of the index
  MaxCrashes,   \* bound: process crashes
  None          \* no record, no holder, no time

\* Where the work on an id waits, where a reader does, and what a loop is for.
Stages == {"observe", "observing", "slot", "reserve", "create", "stream", "check",
           "commit", "saving", "discard", "undo", "undone", "expired"}
ReaderStages == {"verify", "open", "expired"}
Kinds == {"clean", "remove"}

ASSUME MediaBoundsAssumption ==
  /\ {Lifetime, MaxItems, MaxFiles, MaxBytes, CacheBytes} \subseteq Nat \ {0}
  /\ {SweepTime, LastUpload, MaxTime, MaxFailures, MaxCrashes} \subseteq Nat
  /\ SweepTime < Lifetime
ASSUME MediaIdsAssumption ==
  /\ Attachments \cap Uploads = {} /\ (Attachments \cup Uploads) \cap Readers = {}
  /\ {"sweep", "load", None} \cap (Attachments \cup Uploads) = {}
  /\ IsFiniteSet(Attachments \cup Uploads) /\ IsFiniteSet(Readers)
ASSUME MediaNoneAssumption ==
  /\ None \notin Nat \cup {"sweep", "load"}
  /\ None \notin [exp : Nat, size : Nat] \cup [exp : Nat, file : BOOLEAN]
  /\ None \notin [at : Stages, exp : Nat, size : Nat]
  /\ None \notin [id : Attachments \cup Uploads, at : ReaderStages]
  /\ None \notin [kind : Kinds, todo : SUBSET (Attachments \cup Uploads),
                  file : Attachments \cup Uploads \cup {None}, writing : BOOLEAN,
                  since : Nat]

VARIABLES
  files,        \* the bytes of each file that is on disk; 0 without a file
  index,        \* index.json: as recs
  recs,         \* records, under the lock: [exp, size], size 0 without a file
  leases,       \* leases: how many use the file of a record
  reservations, \* reservations: files under way
  lock,         \* lock: who holds it
  op,           \* the observation, download or upload of each id: where it waits,
                \* the deadline of its record and the bytes it wrote
  reader,       \* the files that are open: [id, at], at "verify", "open" or "expired"
  sweep,        \* the loop of a cleanup or a removal: the records to visit, the file
                \* it unlinks, whether it writes the index, when it began
  timer,        \* timer: the next deadline
  due,          \* a cleanup that the timer started waits for the lock
  phase,        \* async_initialize_storage: "down", "loading" or "up"
  enabled,      \* enabled, until async_stop
  told,         \* history: until when a reference or a file is promised, once its save
                \* was acknowledged
  early,        \* history: until when a file was called ready before that
  withdrawn,    \* history: readers whose file a save that failed took back
  now,          \* the wall clock
  failures,     \* failing writes so far
  crashes       \* crashes so far

diskVars == <<files, index>>
storeVars == <<recs, leases, reservations, lock>>
taskVars == <<op, reader>>
sweepVars == <<sweep, timer, due>>
envVars == <<now, crashes, early, withdrawn>>  \* with what only the properties ask for
vars == <<diskVars, storeVars, taskVars, sweepVars, phase, enabled, told, failures,
          envVars>>
-----------------------------------------------------------------------------
Ids == Attachments \cup Uploads
Held(m) == {id \in Ids : m[id] # None}
Stored(m) == {id \in Held(m) : m[id].size > 0}
Expired(rec) == rec.exp <= now
Over(rec) == rec.exp + Lifetime <= now

At(id, stage) == op[id] # None /\ op[id].at = stage
Goto(id, stage) == op' = [op EXCEPT ![id].at = stage]
End(id) == op' = [op EXCEPT ![id] = None]

\* Who has the file of a record open.
Reads(r, id) == reader[r] # None /\ reader[r].id = id /\ reader[r].at \in {"verify", "open"}
Using(id) == {r \in Readers : Reads(r, id)}

\* Those that hold a reservation.
Reserving == {id \in Ids : op[id] # None /\ op[id].at \in
               {"create", "stream", "check", "commit", "saving", "discard", "undo",
                "undone"}}

Free == lock = None
Lock(x) == lock' = x
Unlock == lock' = None
-----------------------------------------------------------------------------
(* The operators named ...Variant are plausible mistakes in the definition    *)
(* that follows them; the specification does not use them.                   *)

\* schedule: the earliest expiry or end of a tombstone that is still to come.
\* As a mistake, tombstones are forgotten.
DeadlineVariant(m) ==
  LET ahead == {d \in {m[id].exp : id \in Held(m)} : d > now}
  IN IF ahead = {} THEN None ELSE Min(ahead)

Deadline(m) ==
  LET ahead == {d \in {m[id].exp : id \in Held(m)} \cup
                      {m[id].exp + Lifetime : id \in Held(m)} : d > now}
  IN IF ahead = {} THEN None ELSE Min(ahead)

\* persist: the end of the write of m to the index.  Only an acknowledged write
\* sets the timer.
Persist(m, result) ==
  \/ /\ result = "ok"
     /\ index' = m
     /\ timer' = Deadline(m)
     /\ UNCHANGED failures
  \/ /\ result = "cancelled"
     /\ index' = m
     /\ UNCHANGED <<timer, failures>>
  \/ /\ result = "failed"
     /\ failures < MaxFailures
     /\ failures' = failures + 1
     /\ index' \in {index, m}
     /\ UNCHANGED timer

\* The bytes of all files in records.
Bytes(m) == SumFunction([id \in Stored(m) |-> m[id].size])

\* Only what is stored counts.
RoomVariant ==
  Cardinality(Stored(recs)) < MaxFiles /\ Bytes(recs) + MaxBytes <= CacheBytes

\* There is room for one more file, every reservation counted as a largest one.
Room ==
  /\ Cardinality(Stored(recs)) + reservations < MaxFiles
  /\ Bytes(recs) + (reservations + 1) * MaxBytes <= CacheBytes
-----------------------------------------------------------------------------
(***************************************************************************)
(* async_observe: a reference to a received attachment                     *)
(***************************************************************************)
Observe(id) ==
  /\ enabled
  /\ op[id] = None
  /\ op' = [op EXCEPT ![id] = [at |-> "observe", exp |-> 0, size |-> 0]]
  /\ UNCHANGED <<diskVars, storeVars, reader, sweepVars, phase, enabled, told,
                 failures, envVars>>

\* A promise whose time is over is forgotten.
Kept(promise) == IF promise # None /\ Expired(promise) THEN None ELSE promise

\* A new reference is saved before it is called retrievable.
Remember(id) ==
  /\ At(id, "observe")
  /\ Free
  /\ recs[id] = None
  /\ Cardinality(Held(recs)) < MaxItems
  /\ recs' = [recs EXCEPT ![id] = [exp |-> now + Lifetime, size |-> 0]]
  /\ told' = [told EXCEPT ![id] = Kept(@)]
  /\ Lock(id)
  /\ Goto(id, "observing")
  /\ UNCHANGED <<diskVars, leases, reservations, reader, sweepVars, phase, enabled,
                 failures, envVars>>

\* This very record was promised to somebody.
Promised(id) == told[id] # None /\ told[id].exp = recs[id].exp

\* One that is there is retrievable; without a place there is none.
Recognize(id) ==
  /\ At(id, "observe")
  /\ Free
  /\ recs[id] = None => Cardinality(Held(recs)) >= MaxItems
  /\ End(id)
  /\ told' = IF recs[id] # None /\ ~Expired(recs[id]) /\ ~Promised(id)
             THEN [told EXCEPT ![id] = [exp |-> recs[id].exp, file |-> FALSE]]
             ELSE told
  /\ UNCHANGED <<diskVars, storeVars, reader, sweepVars, phase, enabled, failures,
                 envVars>>

\* The reference stays although it was not saved.
RememberedVariant(id) ==
  /\ At(id, "observing")
  /\ \/ /\ Persist(recs, "ok")
        /\ told' = [told EXCEPT ![id] = [exp |-> recs[id].exp, file |-> FALSE]]
     \/ /\ \E result \in {"cancelled", "failed"} : Persist(recs, result)
        /\ UNCHANGED told
  /\ Unlock
  /\ End(id)
  /\ UNCHANGED <<recs, files, leases, reservations, reader, sweep, due, phase, enabled,
                 envVars>>

Remembered(id) ==
  /\ At(id, "observing")
  /\ \/ /\ Persist(recs, "ok")
        /\ told' = [told EXCEPT ![id] = [exp |-> recs[id].exp, file |-> FALSE]]
        /\ UNCHANGED recs
     \/ /\ \E result \in {"cancelled", "failed"} : Persist(recs, result)
        /\ recs' = [recs EXCEPT ![id] = None]
        /\ UNCHANGED told
  /\ Unlock
  /\ End(id)
  /\ UNCHANGED <<files, leases, reservations, reader, sweep, due, phase, enabled,
                 envVars>>
-----------------------------------------------------------------------------
(***************************************************************************)
(* async_get_media and _fetch, async_stage: a file is downloaded or staged *)
(***************************************************************************)

\* Somebody asks for an attachment that has no file; _fetches holds one task
\* for each, which later callers join until its record has the file.
Get(id) ==
  /\ id \in Attachments
  /\ enabled
  /\ op[id] = None
  /\ recs[id] # None /\ ~Expired(recs[id]) /\ recs[id].size = 0
  /\ op' = [op EXCEPT ![id] = [at |-> "slot", exp |-> recs[id].exp, size |-> 0]]
  /\ UNCHANGED <<diskVars, storeVars, reader, sweepVars, phase, enabled, told,
                 failures, envVars>>

\* Somebody asked for an attachment whose record has a file: it is called ready,
\* also while that file is being saved.
Answer(id) ==
  /\ enabled
  /\ recs[id] # None /\ ~Expired(recs[id]) /\ recs[id].size > 0
  /\ IF At(id, "saving")
     THEN early' = [early EXCEPT ![id] = recs[id].exp] /\ UNCHANGED told
     ELSE told' = [told EXCEPT ![id] = [exp |-> recs[id].exp, file |-> TRUE]]
          /\ UNCHANGED early
  /\ UNCHANGED <<diskVars, storeVars, taskVars, sweepVars, phase, enabled, failures, now,
                 crashes, withdrawn>>

\* Somebody uploads; its id is new.
Stage(id) ==
  /\ id \in Uploads
  /\ enabled
  /\ op[id] = None
  /\ recs[id] = None /\ index[id] = None /\ told[id] = None
  /\ now <= LastUpload
  /\ op' = [op EXCEPT ![id] = [at |-> "slot", exp |-> 0, size |-> 0]]
  /\ UNCHANGED <<diskVars, storeVars, reader, sweepVars, phase, enabled, told,
                 failures, envVars>>

\* _slot: one transfer of a kind at a time.
Transfer(id) == op[id] # None /\ op[id].at \notin {"observe", "observing", "slot"}
SlotFree(kind) == ~ \E id \in kind : Transfer(id)

FetchBegins(id) ==
  /\ id \in Attachments
  /\ At(id, "slot")
  /\ SlotFree(Attachments)
  /\ enabled
  /\ ~Expired(op[id])
  /\ leases' = [leases EXCEPT ![id] = @ + 1]
  /\ Goto(id, "reserve")
  /\ UNCHANGED <<diskVars, recs, reservations, lock, reader, sweepVars, phase, enabled,
                 told, failures, envVars>>

StageBegins(id) ==
  /\ id \in Uploads
  /\ At(id, "slot")
  /\ SlotFree(Uploads)
  /\ enabled
  /\ Free
  /\ Cardinality(Held(recs)) < MaxItems
  /\ op' = [op EXCEPT ![id] = [at |-> "reserve", exp |-> now + Lifetime, size |-> 0]]
  /\ UNCHANGED <<diskVars, storeVars, reader, sweepVars, phase, enabled, told,
                 failures, envVars>>

\* Cancelled, unauthorized, not ready, expired or without a place.
Refused(id) ==
  /\ At(id, "slot")
  /\ End(id)
  /\ UNCHANGED <<diskVars, storeVars, reader, sweepVars, phase, enabled, told,
                 failures, envVars>>

\* The lease of a download ends: what expired meanwhile is swept.
Leave(id) ==
  IF id \in Uploads THEN End(id) /\ UNCHANGED leases
  ELSE /\ leases' = [leases EXCEPT ![id] = @ - 1]
       /\ IF recs[id] # None /\ Expired(recs[id]) THEN Goto(id, "expired") ELSE End(id)

\* _store_stream, to the reservation.
Reserve(id) ==
  /\ At(id, "reserve")
  /\ Free
  /\ Room
  /\ reservations' = reservations + 1
  /\ Goto(id, "create")
  /\ UNCHANGED <<diskVars, recs, leases, lock, reader, sweepVars, phase, enabled, told,
                 failures, envVars>>

\* There is no room, or the task is cancelled.
GiveUp(id) ==
  /\ At(id, "reserve")
  /\ Leave(id)
  /\ UNCHANGED <<diskVars, recs, reservations, lock, reader, sweepVars, phase, enabled,
                 told, failures, envVars>>

\* The file is created and filled.
Create(id) ==
  /\ At(id, "create")
  /\ \E size \in 1 .. MaxBytes :
       /\ files' = [files EXCEPT ![id] = size]
       /\ op' = [op EXCEPT ![id] = [at |-> "stream", exp |-> @.exp, size |-> size]]
  /\ UNCHANGED <<index, storeVars, reader, sweepVars, phase, enabled, told, failures,
                 envVars>>

\* All bytes are on disk and are what they claim to be.
Streamed(id) ==
  /\ At(id, "stream")
  /\ Goto(id, "check")
  /\ UNCHANGED <<diskVars, storeVars, reader, sweepVars, phase, enabled, told, failures,
                 envVars>>

\* cleanup_partial: anything failed, or the task was cancelled.
Broken(id) ==
  /\ op[id] # None /\ op[id].at \in {"create", "stream"}
  /\ files' = [files EXCEPT ![id] = 0]
  /\ reservations' = reservations - 1
  /\ Leave(id)
  /\ UNCHANGED <<index, recs, lock, reader, sweepVars, phase, enabled, told, failures,
                 envVars>>

\* The route is verified again and the deadline has not passed.
Checked(id) ==
  /\ At(id, "check")
  /\ enabled
  /\ ~Expired(op[id])
  /\ Goto(id, "commit")
  /\ UNCHANGED <<diskVars, storeVars, reader, sweepVars, phase, enabled, told, failures,
                 envVars>>

\* It is not, there is no place, or the task is cancelled.
Rejected(id) ==
  /\ op[id] # None /\ op[id].at \in {"check", "commit"}
  /\ Goto(id, "discard")
  /\ UNCHANGED <<diskVars, storeVars, reader, sweepVars, phase, enabled, told, failures,
                 envVars>>

\* The record gets its file, or the upload its record.
Commit(id) ==
  /\ At(id, "commit")
  /\ Free
  /\ id \in Uploads => Cardinality(Held(recs)) < MaxItems
  /\ recs' = [recs EXCEPT ![id] =
                [exp |-> op[id].exp, size |-> op[id].size]]
  /\ Lock(id)
  /\ Goto(id, "saving")
  /\ UNCHANGED <<diskVars, leases, reservations, reader, sweepVars, phase, enabled, told,
                 failures, envVars>>

Saved(id) ==
  /\ At(id, "saving")
  /\ Persist(recs, "ok")
  /\ told' = [told EXCEPT ![id] = [exp |-> recs[id].exp, file |-> TRUE]]
  /\ early' = [early EXCEPT ![id] = None]
  /\ reservations' = reservations - 1
  /\ Unlock
  /\ Leave(id)
  /\ UNCHANGED <<files, recs, reader, sweep, due, phase, enabled, now, crashes, withdrawn>>

\* The write failed or its task was cancelled: the record of a download gives
\* its file up, whoever has it open; that of an upload stays until cleanup_upload
\* has the lock.
NotSaved(id) ==
  /\ At(id, "saving")
  /\ \E result \in {"cancelled", "failed"} : Persist(recs, result)
  /\ recs' = IF id \in Uploads THEN recs ELSE [recs EXCEPT ![id].size = 0]
  /\ withdrawn' = withdrawn \cup Using(id)
  /\ Unlock
  /\ Goto(id, "discard")
  /\ UNCHANGED <<files, leases, reservations, reader, sweep, due, phase, enabled, told,
                 now, crashes, early>>

\* cleanup_fetch
Discard(id) ==
  /\ id \in Attachments
  /\ At(id, "discard")
  /\ files' = [files EXCEPT ![id] = 0]
  /\ reservations' = reservations - 1
  /\ Leave(id)
  /\ UNCHANGED <<index, recs, lock, reader, sweepVars, phase, enabled, told, failures,
                 envVars>>

\* cleanup_upload
Undo(id) ==
  /\ id \in Uploads
  /\ At(id, "discard")
  /\ Free
  /\ Lock(id)
  /\ recs' = [recs EXCEPT ![id] = None]
  /\ Goto(id, "undo")
  /\ UNCHANGED <<diskVars, leases, reservations, reader, sweepVars, phase, enabled, told,
                 failures, envVars>>

Unlinked(id) ==
  /\ At(id, "undo")
  /\ files' = [files EXCEPT ![id] = 0]
  /\ Goto(id, "undone")
  /\ UNCHANGED <<index, storeVars, reader, sweepVars, phase, enabled, told, failures,
                 envVars>>

Undone(id) ==
  /\ At(id, "undone")
  /\ \E result \in {"ok", "failed"} : Persist(recs, result)
  /\ reservations' = reservations - 1
  /\ Unlock
  /\ End(id)
  /\ UNCHANGED <<files, recs, leases, reader, sweep, due, phase, enabled, told, envVars>>

-----------------------------------------------------------------------------
(***************************************************************************)
(* _open: a file is read over HTTP, or for a send, under a lease           *)
(***************************************************************************)

\* The id of an upload is not known before async_stage returns.
Open(r, id) ==
  /\ enabled
  /\ reader[r] = None
  /\ id \in Uploads => op[id] = None
  /\ recs[id] # None /\ ~Expired(recs[id]) /\ recs[id].size > 0
  /\ leases' = [leases EXCEPT ![id] = @ + 1]
  /\ reader' = [reader EXCEPT ![r] = [id |-> id, at |-> "verify"]]
  /\ withdrawn' = withdrawn \ {r}
  /\ UNCHANGED <<diskVars, recs, reservations, lock, op, sweepVars, phase, enabled, told,
                 failures, now, crashes, early>>

\* Its bytes are what the record says, and its route still verifies.
Verified(r) ==
  /\ reader[r] # None /\ reader[r].at = "verify"
  /\ enabled
  /\ files[reader[r].id] > 0
  /\ reader' = [reader EXCEPT ![r].at = "open"]
  /\ UNCHANGED <<diskVars, storeVars, op, sweepVars, phase, enabled, told, failures,
                 envVars>>

\* cleanup_lease, at the end or on any failure: what expired meanwhile is swept.
Close(r) ==
  /\ reader[r] # None /\ reader[r].at \in {"verify", "open"}
  /\ LET id == reader[r].id
     IN /\ leases' = [leases EXCEPT ![id] = @ - 1]
        /\ reader' = [reader EXCEPT ![r] =
             IF recs[id] # None /\ Expired(recs[id])
             THEN [id |-> id, at |-> "expired"] ELSE None]
  /\ UNCHANGED <<diskVars, recs, reservations, lock, op, sweepVars, phase, enabled, told,
                 failures, envVars>>
-----------------------------------------------------------------------------
(***************************************************************************)
(* schedule and _cleanup: expired files go                                 *)
(***************************************************************************)
NewLoop(kind) ==
  [kind |-> kind, todo |-> Held(recs), file |-> None, writing |-> FALSE, since |-> now]

\* The timer, a download or a reader asked for it.
BeginSweep(x) ==
  /\ Free
  /\ \/ /\ x = "timer" /\ due
        /\ due' = FALSE
        /\ UNCHANGED taskVars
     \/ /\ x \in Ids /\ At(x, "expired")
        /\ End(x)
        /\ UNCHANGED <<reader, due>>
     \/ /\ x \in Readers /\ reader[x] # None /\ reader[x].at = "expired"
        /\ reader' = [reader EXCEPT ![x] = None]
        /\ UNCHANGED <<op, due>>
  /\ Lock("sweep")
  /\ sweep' = NewLoop("clean")
  /\ UNCHANGED <<diskVars, recs, leases, reservations, timer, phase, enabled, told,
                 failures, envVars>>

\* Leases are forgotten.
SweptVariant(id) == recs[id] # None /\ Expired(recs[id])

Swept(id) == recs[id] # None /\ Expired(recs[id]) /\ leases[id] = 0

\* The records of a set, none of which needs an await, are visited; a tombstone
\* whose time is over goes.  A removal drops every record of its entry.
Visited(set) ==
  [id \in Ids |->
     IF id \in set /\ (sweep.kind = "remove" \/ (Swept(id) /\ Over(recs[id])))
     THEN None ELSE recs[id]]

\* The visit of a record has to wait for an unlink.
Awaits(id) ==
  recs[id].size > 0 /\ (sweep.kind = "remove" \/ Swept(id))

\* Up to the next unlink: a cleanup takes the file out of the record first.
VisitFile(id) ==
  /\ sweep # None /\ sweep.file = None /\ id \in sweep.todo
  /\ Awaits(id)
  /\ \E before \in SUBSET (sweep.todo \ {id}) :
       /\ \A other \in before : ~Awaits(other)
       /\ recs' = IF sweep.kind = "remove" THEN Visited(before)
                  ELSE [Visited(before) EXCEPT ![id].size = 0]
       /\ sweep' = [sweep EXCEPT !.todo = @ \ (before \cup {id}), !.file = id]
  /\ UNCHANGED <<diskVars, leases, reservations, lock, taskVars, timer, due, phase,
                 enabled, told, failures, envVars>>

UnlinkFile ==
  /\ sweep # None /\ sweep.file # None
  /\ files' = [files EXCEPT ![sweep.file] = 0]
  /\ recs' = Visited({sweep.file})
  /\ sweep' = [sweep EXCEPT !.file = None]
  /\ UNCHANGED <<index, leases, reservations, lock, taskVars, timer, due, phase,
                 enabled, told, failures, envVars>>

\* The rest needs no unlink; the index is written.
VisitRest ==
  /\ sweep # None /\ sweep.file = None /\ ~sweep.writing
  /\ \A id \in sweep.todo : ~Awaits(id)
  /\ recs' = Visited(sweep.todo)
  /\ sweep' = [sweep EXCEPT !.todo = {}, !.writing = TRUE]
  /\ UNCHANGED <<diskVars, leases, reservations, lock, taskVars, timer, due, phase,
                 enabled, told, failures, envVars>>

\* _finish_cleanup: a cancellation of the caller does not reach the loop.
EndSweep ==
  /\ sweep # None /\ sweep.writing
  /\ \E result \in {"ok", "failed"} : Persist(recs, result)
  /\ sweep' = None
  /\ Unlock
  /\ UNCHANGED <<files, recs, leases, reservations, taskVars, due, phase, enabled, told,
                 envVars>>
-----------------------------------------------------------------------------
(***************************************************************************)
(* Start, stop, removal of the entry, crash                                *)
(***************************************************************************)

\* Downloads, uploads and readers, which async_stop cancels and waits for.
Drained ==
  /\ \A id \in Ids : op[id] # None => op[id].at \in {"observe", "observing"}
  /\ \A r \in Readers : reader[r] = None

Stop ==
  /\ enabled
  /\ enabled' = FALSE
  /\ UNCHANGED <<diskVars, storeVars, taskVars, sweepVars, phase, told, failures,
                 envVars>>

\* A manager of the next setup finds the store started; after a removal it is
\* that of another entry.
Start ==
  /\ ~enabled /\ Drained
  /\ phase = "up"
  /\ sweep # None => sweep.kind = "clean"
  /\ enabled' = TRUE
  /\ UNCHANGED <<diskVars, storeVars, taskVars, sweepVars, phase, told, failures,
                 envVars>>

\* _remove_entry_state: nothing of the entry is promised from here on.
Remove ==
  /\ ~enabled /\ Drained
  /\ phase = "up"
  /\ Free
  /\ Held(recs) # {}
  /\ Lock("sweep")
  /\ sweep' = NewLoop("remove")
  /\ told' = [id \in Ids |-> None]
  /\ early' = [id \in Ids |-> None]
  /\ UNCHANGED <<diskVars, recs, leases, reservations, taskVars, timer, due, phase,
                 enabled, failures, now, crashes, withdrawn>>

\* Somebody writes the index.
Writing ==
  \/ phase = "loading"
  \/ sweep # None /\ sweep.writing
  \/ \E id \in Ids : At(id, "observing") \/ At(id, "saving") \/ At(id, "undone")

Empty == [id \in Ids |-> None]
Zeros == [id \in Ids |-> 0]

Crash ==
  /\ crashes < MaxCrashes
  /\ phase # "down"
  /\ crashes' = crashes + 1
  /\ index' \in (IF Writing THEN {index, recs} ELSE {index})
  /\ phase' = "down"
  /\ enabled' = FALSE
  /\ recs' = Empty
  /\ leases' = Zeros
  /\ reservations' = 0
  /\ lock' = None
  /\ op' = Empty
  /\ reader' = [r \in Readers |-> None]
  /\ sweep' = None
  /\ timer' = None
  /\ due' = FALSE
  /\ UNCHANGED <<files, told, early, withdrawn, now, failures>>

\* The index a start accepts.
WithinBudget(m) ==
  LET kept == {id \in Stored(m) : ~Expired(m[id]) /\ files[id] = m[id].size}
  IN /\ Cardinality(Held(m)) <= MaxItems
     /\ Cardinality(kept) <= MaxFiles
     /\ SumFunction([id \in kept |-> m[id].size]) <= CacheBytes

\* _load: tombstones that are over, files that expired or are not what the record
\* says, and files without a record go; the rest is written back.
Load ==
  /\ phase = "down"
  /\ WithinBudget(index)
  /\ LET kept(id) == ~Expired(index[id]) /\ files[id] = index[id].size
         loaded == [id \in Ids |->
           IF index[id] = None \/ Over(index[id]) THEN None
           ELSE IF kept(id) THEN index[id]
           ELSE [index[id] EXCEPT !.size = 0]]
     IN /\ recs' = loaded
        /\ files' = [id \in Ids |-> IF id \in Stored(loaded) THEN files[id] ELSE 0]
  /\ phase' = "loading"
  /\ Lock("load")
  /\ UNCHANGED <<index, leases, reservations, taskVars, sweepVars, enabled, told,
                 failures, envVars>>

Loaded ==
  /\ phase = "loading"
  /\ \/ /\ Persist(recs, "ok")
        /\ phase' = "up"
        /\ enabled' = TRUE
        /\ UNCHANGED recs
     \/ /\ Persist(recs, "failed")
        /\ phase' = "down"
        /\ recs' = Empty
        /\ UNCHANGED enabled
  /\ Unlock
  /\ UNCHANGED <<files, leases, reservations, taskVars, sweep, due, told, envVars>>

\* Bound: a transfer or a start ends within a lifetime of its deadlines.
Brief ==
  /\ \A id \in Reserving : now + 1 < op[id].exp + Lifetime
  /\ phase = "loading" => \A id \in Held(recs) : now + 1 < recs[id].exp + Lifetime

\* The event loop runs a timer when it is due; a cleanup is not slower than
\* SweepTime.
Tick ==
  /\ now < MaxTime
  /\ sweep # None => now < sweep.since + SweepTime
  /\ Brief
  /\ now' = now + 1
  /\ IF timer = now + 1 THEN timer' = None /\ due' = TRUE ELSE UNCHANGED <<timer, due>>
  /\ UNCHANGED <<diskVars, storeVars, taskVars, sweep, phase, enabled, told, failures,
                 crashes, early, withdrawn>>
-----------------------------------------------------------------------------
Init ==
  /\ files = Zeros
  /\ index = Empty
  /\ recs = Empty
  /\ leases = Zeros
  /\ reservations = 0
  /\ lock = None
  /\ op = Empty
  /\ reader = [r \in Readers |-> None]
  /\ sweep = None
  /\ timer = None
  /\ due = FALSE
  /\ phase = "down"
  /\ enabled = FALSE
  /\ told = Empty
  /\ early = Empty
  /\ withdrawn = {}
  /\ now = 0
  /\ failures = 0
  /\ crashes = 0

JobStep(id) ==
  \/ Remember(id) \/ Recognize(id) \/ Remembered(id)
  \/ FetchBegins(id) \/ StageBegins(id) \/ Refused(id) \/ Reserve(id) \/ GiveUp(id)
  \/ Create(id) \/ Streamed(id) \/ Broken(id) \/ Checked(id) \/ Rejected(id)
  \/ Commit(id) \/ Saved(id) \/ NotSaved(id) \/ Discard(id)
  \/ Undo(id) \/ Unlinked(id) \/ Undone(id)

SweepStep == (\E id \in Ids : VisitFile(id)) \/ UnlinkFile \/ VisitRest \/ EndSweep

Next ==
  \/ \E id \in Ids : Get(id) \/ Stage(id) \/ JobStep(id)
  \/ \E id \in Attachments : Observe(id) \/ Answer(id)
  \/ \E r \in Readers : (\E id \in Ids : Open(r, id)) \/ Verified(r) \/ Close(r)
  \/ \E x \in Ids \cup Readers \cup {"timer"} : BeginSweep(x)
  \/ SweepStep
  \/ Start \/ Stop \/ Remove \/ Crash \/ Load \/ Loaded \/ Tick

Spec == Init /\ [][Next]_vars

-----------------------------------------------------------------------------
\* media.py:892: over concurrent transfers, failures and cleanups the files on
\* disk stay within the budget, no reservation is lost or given back twice,
\* and the index is one that the next start accepts: a start refuses the
\* whole store otherwise, for every entry.
BudgetKept ==
  /\ Cardinality({id \in Ids : files[id] > 0}) <= MaxFiles
  /\ SumFunction(files) <= CacheBytes
  /\ reservations = Cardinality(Reserving)
  /\ WithinBudget(index)

\* media.py:593: a file that is open stays on disk, whole, until it is closed, also
\* when it expires and a cleanup runs meanwhile.  Only the save of its own download
\* takes it back, when it fails under a reader that was let in before it ended
\* (media.py:1013-1026).
ReadersKeepFiles ==
  \A r \in Readers, id \in Ids :
    Reads(r, id) /\ r \notin withdrawn =>
      recs[id] # None /\ files[id] > 0 /\ recs[id].size = files[id]

\* media.py:793, 1012: what was called retrievable or ready once its save was
\* acknowledged, by whoever saved it or later, also after a start, is in the index,
\* and its file on disk, until it expires, whatever fails or crashes in between: a
\* start keeps it.
ToldIsDurable ==
  \A id \in Ids :
    (told[id] # None /\ told[id].exp > now) =>
      /\ index[id] # None /\ index[id].exp = told[id].exp
      /\ told[id].file => (index[id].size > 0 /\ files[id] = index[id].size)

\* docs/MEDIA_API.md:448: what was called ready before its save was acknowledged can
\* be had until it expires.
ReadyUntilExpiry ==
  \A id \in Attachments :
    (early[id] # None /\ early[id] > now /\ phase = "up") =>
      recs[id] # None /\ recs[id].size > 0 /\ files[id] = recs[id].size

\* A cleanup is under way, or waits for the lock.
CleanupComes ==
  \/ due \/ sweep # None
  \/ \E id \in Ids : At(id, "expired")
  \/ \E r \in Readers : reader[r] # None /\ reader[r].at = "expired"

\* docs/MEDIA_API.md:449: a file is removed at its expiry: if nobody uses it, and no
\* write of the index failed, a cleanup comes then.
RemovedAtExpiry ==
  \A id \in Stored(recs) :
    (phase = "up" /\ failures = 0 /\ leases[id] = 0 /\ op[id] = None
       /\ Expired(recs[id])) => CleanupComes

\* media.py:578, 593: where RemovedAtExpiry fails, the end of the tombstone is the
\* bound.  Unless somebody uses a file, a cleanup comes, or the timer is set no later
\* than its expiry or, once that was passed over, the end of its tombstone, although a
\* lease kept it from an earlier cleanup and although its deadline passed while one
\* ran.  Only a failed write of the index leaves the store without a timer.
RemovedWithTombstone ==
  \A id \in Stored(recs) :
    LET next == IF Expired(recs[id]) THEN recs[id].exp + Lifetime ELSE recs[id].exp
    IN (phase = "up" /\ failures = 0 /\ leases[id] = 0 /\ op[id] = None)
         => CleanupComes \/ (timer # None /\ timer > now /\ timer <= next)
=============================================================================
